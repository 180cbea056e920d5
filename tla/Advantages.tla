------------------------------- MODULE Advantages -------------------------------
(***************************************************************************)
(* The advantage estimators of verl/trainer/ppo/core_algos.py, on whole    *)
(* numbers: a mean is in units of 1/Scale, where Scale is a common         *)
(* multiple of everything a mean divides by. What rescales a whole group   *)
(* or batch is left out: the division by the standard deviation, and the   *)
(* whitening of GAE. So is use_teacher_gae of TASD, which is off unless    *)
(* asked for.                                                              *)
(* A row of rewards, values or a mask has an entry for each position.      *)
(***************************************************************************)
EXTENDS SeqlenBalancing

CONSTANTS Scale,
    ClipAdvValue, SafetyThresh, SafetyClipValue    \* algorithm.tasd, the clips in 1/Scale

ASSUME AdvantagesAssumption ==
    Scale \in Nat \ {0} /\ ClipAdvValue \in Nat /\ SafetyThresh \in Int /\ SafetyClipValue \in Nat

Mean(total, count) == (Scale * total) \div count

Clamp(x, least, most) == Max({least, Min({x, most})})

\* Faulty variant: takes the rows of a prompt to follow one another.
RowsWith_F(index, uid) ==
    {j \in DOMAIN index : index[j] = uid /\
        \A k \in 1..j : (\E h \in 1..k : index[h] = uid) => index[k] = uid}

\* The positions of index with this uid.
RowsWith(index, uid) == {j \in DOMAIN index : index[j] = uid}

\* compute_grpo_outcome_advantage
GrpoOutcomeAdvantage(rewards, masks, index) ==
    LET scores == [i \in DOMAIN index |-> Total(rewards[i])]
        MeanOf(uid) ==
            LET rows == RowsWith(index, uid)
            IN  IF Cardinality(rows) = 1 THEN 0 ELSE Mean(TotalOf(rows, scores), Cardinality(rows))
    IN  [i \in DOMAIN index |-> [t \in DOMAIN masks[i] |->
            (Scale * scores[i] - MeanOf(index[i])) * masks[i][t]]]

\* The reward below which a penalty is limited: when the rewards of the batch are
\* negative on average they are taken to be log-probabilities.
SafetyThreshold(total) ==
    IF SafetyThresh > 0 /\ total < 0 THEN -(10 * SafetyThresh) ELSE SafetyThresh

\* compute_tasd_advantage: the mean is over the tokens of the rows with a context.
TasdAdvantage(rewards, masks, distillationMask, index) ==
    LET effective == [i \in DOMAIN index |->
                        [t \in DOMAIN masks[i] |-> masks[i][t] * distillationMask[i]]]
        counts == Evaluated([i \in 1..Len(index) |-> Total(effective[i])])
        sums == Evaluated([i \in 1..Len(index) |->
                  Total([t \in 1..Len(masks[i]) |-> rewards[i][t] * effective[i][t]])])
        MeanOf(uid) ==
            LET rows == {j \in RowsWith(index, uid) : counts[j] > 0}
            IN  Mean(TotalOf(rows, sums), TotalOf(rows, counts))
        threshold == SafetyThreshold(Total(sums))
        Clipped(i, t) == Clamp(Scale * rewards[i][t] - MeanOf(index[i]), -ClipAdvValue, ClipAdvValue)
    IN  [i \in DOMAIN index |-> [t \in DOMAIN masks[i] |->
            IF effective[i][t] = 0 THEN 0
            ELSE IF Clipped(i, t) < 0 /\ threshold # 0 /\ rewards[i][t] < threshold
                 THEN Clamp(Clipped(i, t), -SafetyClipValue, 0)
            ELSE Clipped(i, t)]]

\* compute_gae_advantage_return for one row, from the last position to the first;
\* observation tokens are skipped.
GaeAdvantage(rewards, values, mask, gamma, lam) ==
    LET n == Len(rewards)
        From[t \in 1..(n + 1)] ==
            IF t = n + 1 THEN [nextvalue |-> 0, lastgaelam |-> 0]
            ELSE LET later == From[t + 1]
                     delta == rewards[t] + gamma * later.nextvalue - values[t]
                 IN  IF mask[t] = 1
                     THEN [nextvalue |-> values[t], lastgaelam |-> delta + gamma * lam * later.lastgaelam]
                     ELSE later
    IN  [t \in 1..n |-> From[t].lastgaelam]

\* The reward of every token that is generated, from what the teacher says of it:
\* its probability (teacher_prob), or the logarithm of it or of a ratio.
TokenRewards(judgements, masks) ==
    [i \in DOMAIN masks |-> [t \in DOMAIN masks[i] |-> judgements[i][t] * masks[i][t]]]

\* teacher_seq_log_prob: the mean over the sequence, at the end of it.
SequenceScore(rewards, mask) == Mean(Total(rewards), Max({1, Total(mask)}))

SequenceRewards(judgements, masks) ==
    LET rewards == TokenRewards(judgements, masks)
        Cumulative(i, t) == Total(SubSeq(masks[i], 1, t))
    IN  [i \in DOMAIN masks |-> [t \in DOMAIN masks[i] |->
            IF Cumulative(i, t) = Max({1, Total(masks[i])})
            THEN SequenceScore(rewards[i], masks[i]) ELSE 0]]
================================================================================

------------------------------- MODULE BatchPath -------------------------------
(***************************************************************************)
(* The way of one batch through RayPPOTrainer.fit and _validate: prompts   *)
(* repeated for the agent loop workers, the answers put beside them, the   *)
(* rows reordered to balance the ranks, every computed column sent to the  *)
(* ranks and collected, the demonstrations of self-distillation chosen     *)
(* among the answers to the same prompt, the advantages computed per       *)
(* prompt, and the rows trained in mini-batches of micro-batches. What is  *)
(* computed for a row is the response it was computed from, or a number.   *)
(***************************************************************************)
EXTENDS DataProto, Advantages

CONSTANTS
    Prompts,                       \* the rows of a training batch
    ValPrompts, ValN,              \* the rows of a validation batch, val_kwargs.n
    RolloutN, ResponseLength,
    NumWorkers,                    \* agent.num_workers
    DpSize, SpSize,                \* data-parallel ranks, each of SpSize ranks
    MaxTokenLen,                   \* the budget of a micro-batch, with use_dynamic_bsz
    MicroBatchSize,
    Gamma, Lam,
    Configs, Draws,                \* configurations to run, answers to a prompt
    Judgement(_, _, _),            \* what the teacher says of a token, given its context
    Estimate(_, _),                \* what the critic says of a token
    None                           \* no demonstration

Config ==
    [estimator : {"gae", "grpo", "sdpo", "tasd", "sequence"},
     balance : {"none", "tokens", "groups"}, dynamic : BOOLEAN,
     dontReprompt : BOOLEAN, selfAsTeacher : BOOLEAN,
     feedback : {"off", "always", "without_solution"},
     miniBatchSize : Nat]          \* ppo_mini_batch_size, in prompts

\* What the workers make of it: rows of a rank.
LocalMiniBatchSize(c) == (c.miniBatchSize * RolloutN) \div DpSize

BatchSize == Prompts * RolloutN

\* An answer to a prompt; its copy tells it from the other answers.
Response ==
    [prompt : Nat, copy : Nat, tokens : SeqOf({"gen", "tool"}, ResponseLength) \ {<<>>}, score : {0, 1}]

\* An answer to a row of a training batch.
TrainingResponse ==
    [prompt : 1..Prompts, copy : 1..BatchSize, tokens : {d.tokens : d \in Draws}, score : {0, 1}]

ASSUME BatchPathAssumption ==
    /\ Configs \subseteq Config
    /\ Draws \subseteq [tokens : SeqOf({"gen", "tool"}, ResponseLength) \ {<<>>}, score : {0, 1}]
    /\ {Prompts, ValPrompts, ValN, RolloutN, ResponseLength, NumWorkers, DpSize, SpSize,
        MaxTokenLen, MicroBatchSize} \subseteq Nat \ {0}
    /\ BatchSize % DpSize = 0 /\ BatchSize % NumWorkers = 0
    /\ \A c \in Configs : LocalMiniBatchSize(c) > 0 /\ LocalMiniBatchSize(c) % MicroBatchSize = 0
    /\ \A c \in Configs : c.balance = "groups" => Prompts % DpSize = 0
    /\ \A i \in 1..(RolloutN * ResponseLength) : Scale % i = 0
    /\ None \notin Response

ASSUME ScoringAssumption ==
    /\ Gamma \in Int /\ Lam \in Int
    /\ \A r \in TrainingResponse, t \in 1..ResponseLength :
          /\ Estimate(r, t) \in Int
          /\ \A s \in TrainingResponse \union {None} : Judgement(r, s, t) \in Int

VARIABLES
    config,           \* fixed
    phase,            \* the last thing done to the batch
    batch,            \* its columns
    trained,          \* per rank: its mini-batches, each the sequence of its micro-batches
    forwards          \* per rank: the micro-batches of its last forward passes

vars == <<config, phase, batch, trained, forwards>>

Ranks == 0..(DpSize * SpSize - 1)

\* The Ulysses mesh is (dp, sp), and the first of each sp group is collected.
DpRank(g) == g \div SpSize
IsCollect(g) == g % SpSize = 0

Mask(response) ==
    [t \in 1..ResponseLength |->
        IF t <= Len(response.tokens) /\ response.tokens[t] = "gen" THEN 1 ELSE 0]

Masks == [i \in DOMAIN batch.responses |-> Mask(batch.responses[i])]

\* attention_mask: the prompt (one token) and the response.
SeqLens(data) == [i \in DOMAIN data.responses |-> 1 + Len(data.responses[i].tokens)]

(***************************************************************************)
(* Calls of a worker group.                                                *)
(***************************************************************************)
\* dispatch_lazy_compute_data_proto: ranks of one dp rank get the same rows.
Dispatch(data) == [g \in Ranks |-> Chunk(data, DpSize)[DpRank(g) + 1]]

\* collect_lazy_compute_data_proto
Collect(output) ==
    FlattenSeq([d \in 1..DpSize |-> output[CHOOSE g \in Ranks : DpRank(g) = d - 1 /\ IsCollect(g)]])

\* Faulty variant: every rank takes the number that suits it.
MicroBatches_F(locals, dynamic) ==
    [g \in Ranks |->
        IF dynamic
        THEN RearrangeMicroBatches(SeqLens(locals[g]), NumMicroBatches(SeqLens(locals[g]), MaxTokenLen))
        ELSE [i \in 1..NumRows(locals[g]) |-> <<i>>]]

\* The rows of a rank's micro-batches; with dynamic ones the ranks agree on the
\* largest number any of them would like.
MicroBatches(locals, dynamic) ==
    LET number == Max({NumMicroBatches(SeqLens(locals[g]), MaxTokenLen) : g \in Ranks})
    IN  [g \in Ranks |->
            IF dynamic THEN RearrangeMicroBatches(SeqLens(locals[g]), number)
            ELSE Pieces(NumRows(locals[g]), MicroBatchSize)]

\* compute_log_prob, compute_values: the micro-batches one after the other, and
\* the rows put back in order. The result is what each row was computed from.
Compute(data, column, dynamic) ==
    LET locals == Dispatch(data)
        micros == MicroBatches(locals, dynamic)
        Output(local, micro) ==
            LET rows == FlattenSeq([m \in DOMAIN micro |-> SelectIdxs(local, micro[m])[column]])
            IN  IF dynamic THEN RestoreDynamicBatch(rows, micro) ELSE rows
    IN  Collect([g \in Ranks |-> Output(locals[g], micros[g])])

(***************************************************************************)
(* Init and the steps of fit.                                              *)
(***************************************************************************)
Init ==
    /\ config \in Configs
    /\ phase = "idle" /\ batch = <<>>
    /\ trained = [g \in Ranks |-> <<>>] /\ forwards = [g \in Ranks |-> <<>>]

\* AgentLoopManager.generate_sequences: every worker answers the rows of its chunk.
GenerateSequences(genBatch, draw) ==
    LET chunks == Chunk(genBatch, NumWorkers)
        size   == NumRows(genBatch) \div NumWorkers
        Answer(w, j) == [prompt |-> chunks[w].raw_prompt[j], copy |-> (w - 1) * size + j,
                         tokens |-> draw[(w - 1) * size + j].tokens,
                         score |-> draw[(w - 1) * size + j].score]
    IN  Concat([w \in 1..NumWorkers |->
                   [responses |-> [j \in DOMAIN chunks[w].raw_prompt |-> Answer(w, j)]]])

PromptBatch(n) == [uid |-> [i \in 1..n |-> i], raw_prompt |-> [i \in 1..n |-> i]]

Generate ==
    /\ phase = "idle"
    /\ \E draw \in [1..BatchSize -> Draws] :
         LET prompts   == PromptBatch(Prompts)
             generated == GenerateSequences(Repeat(prompts, RolloutN), draw)
         IN  batch' = Merge(Repeat(prompts, RolloutN), generated)
    /\ phase' = "generated"
    /\ UNCHANGED <<config, trained, forwards>>

\* Faulty variant: the rows are sorted by length and cut in equal parts.
GlobalPartitions_F ==
    LET sorted == AscendingBy(DOMAIN batch.uid, SeqLens(batch))
        share  == BatchSize \div DpSize
    IN  [d \in 1..DpSize |-> SubSeq(sorted, (d - 1) * share + 1, d * share)]

\* _balance_batch
GlobalPartitions ==
    LET workloads == Workloads(SeqLens(batch))
        parts     == GetSeqlenBalancedPartitions(workloads, DpSize, TRUE)
    IN  IF config.balance = "groups"
        THEN GetGroupBalancedPartitions(SeqLens(batch), batch.uid, DpSize)
        ELSE [d \in 1..DpSize |-> SmallAtBothEnds(AscendingBy(ToSet(parts[d]), workloads))]

BalanceBatch ==
    /\ phase = "generated"
    /\ batch' = IF config.balance = "none" THEN batch
                ELSE SelectIdxs(batch, FlattenSeq(GlobalPartitions))
    /\ phase' = "balanced"
    /\ UNCHANGED <<config, trained, forwards>>

\* The reward function puts the score at the last token of the response.
ComputeReward ==
    /\ phase = "balanced"
    /\ batch' = Merge(batch, [token_level_scores |->
            [i \in DOMAIN batch.uid |-> [t \in 1..ResponseLength |->
                IF t = Len(batch.responses[i].tokens) THEN batch.responses[i].score ELSE 0]]])
    /\ phase' = "scored"
    /\ UNCHANGED <<config, trained, forwards>>

Numbers(micros) == [g \in Ranks |-> [m \in DOMAIN micros[g] |-> Len(micros[g][m])]]

\* _compute_old_log_prob and, for GAE, _compute_values
ComputeOldLogProb ==
    /\ phase = "scored"
    /\ LET old == [old_log_probs |-> Compute(batch, "responses", config.dynamic)]
           values == IF config.estimator = "gae"
                     THEN [values |-> Compute(batch, "responses", config.dynamic)] ELSE <<>>
       IN  batch' = Merge(Merge(batch, old), values)
    /\ forwards' = Numbers(MicroBatches(Dispatch(batch), config.dynamic))
    /\ phase' = "old_log_prob"
    /\ UNCHANGED <<config, trained>>

(***************************************************************************)
(* _maybe_build_self_distillation_batch: what the teacher is shown.        *)
(***************************************************************************)
SelfDistillation == config.estimator \in {"sdpo", "tasd", "sequence"}

\* _collect_solutions_by_uid, with success_reward_threshold 1
SuccessByUid(uid) ==
    {j \in DOMAIN batch.uid : batch.uid[j] = uid /\ Total(batch.token_level_scores[j]) >= 1}

\* Faulty variant: dont_reprompt_on_self_success is forgotten.
SolutionIdxs_F(i) ==
    LET success == SuccessByUid(batch.uid[i])
    IN  IF config.selfAsTeacher /\ config.estimator # "sdpo" /\ i \in success THEN {i} ELSE success

\* _get_solution: the rows it chooses from; use_self_as_teacher_on_success is TASD's.
SolutionIdxs(i) ==
    LET success == SuccessByUid(batch.uid[i])
    IN  IF config.selfAsTeacher /\ config.estimator # "sdpo" /\ i \in success THEN {i}
        ELSE IF config.dontReprompt THEN success \ {i} ELSE success

\* include_environment_feedback: a response that fails has some.
UsesFeedback(i, hasSolution) ==
    /\ config.feedback # "off" /\ batch.responses[i].score = 0
    /\ config.feedback = "without_solution" => ~hasSolution

\* self_distillation_batch: a row is distilled if its teacher knows more than it does.
SelfDistillationBatch(solution) ==
    LET feedback == [i \in DOMAIN batch.uid |-> UsesFeedback(i, solution[i] # None)]
    IN  [teacher_input_ids |-> [i \in DOMAIN batch.uid |->
            [context |-> solution[i], feedback |-> feedback[i], response |-> batch.responses[i]]],
         self_distillation_mask |-> [i \in DOMAIN batch.uid |->
            IF solution[i] # None \/ feedback[i] THEN 1 ELSE 0]]

BuildSelfDistillationBatch ==
    /\ phase = "old_log_prob"
    /\ IF SelfDistillation
       THEN \E idxs \in {Evaluated([i \in 1..BatchSize |-> Ascending(SolutionIdxs(i))])} :
            \E pick \in [DOMAIN batch.uid -> 1..RolloutN] :
               /\ \A i \in DOMAIN batch.uid : pick[i] <= Max({1, Len(idxs[i])})
               /\ batch' = Merge(batch, SelfDistillationBatch([i \in DOMAIN batch.uid |->
                              IF idxs[i] = <<>> THEN None ELSE batch.responses[idxs[i][pick[i]]]]))
       ELSE UNCHANGED batch
    /\ phase' = "distillation"
    /\ UNCHANGED <<config, trained, forwards>>

\* compute_teacher_log_probs: before the advantage with TASD, which takes its
\* rewards from them; after it with SDPO, whose loss does. The micro-batches are
\* never dynamic.
TeacherLogProbs ==
    /\ \/ phase = "distillation" /\ config.estimator \in {"tasd", "sequence"}
       \/ phase = "advantages" /\ config.estimator = "sdpo"
    /\ LET kept == DOMAIN batch \ (IF config.estimator = "sdpo" THEN {"teacher_input_ids"} ELSE {})
       IN  batch' = Merge([c \in kept |-> batch[c]],
                          [teacher_log_probs |-> Compute(batch, "teacher_input_ids", FALSE)])
    /\ forwards' = Numbers(MicroBatches(Dispatch(batch), FALSE))
    /\ phase' = IF config.estimator = "sdpo" THEN "ready" ELSE "judged"
    /\ UNCHANGED <<config, trained>>

Judgements ==
    [i \in DOMAIN batch.uid |-> [t \in 1..ResponseLength |->
        Judgement(batch.teacher_log_probs[i].response, batch.teacher_log_probs[i].context, t)]]

\* token_level_rewards: the scores, or what TASD puts in their place.
TokenLevelRewards ==
    CASE config.estimator = "tasd"     -> TokenRewards(Judgements, Masks)
      [] config.estimator = "sequence" -> SequenceRewards(Judgements, Masks)
      [] OTHER                         -> batch.token_level_scores

Values == [i \in DOMAIN batch.uid |-> [t \in 1..ResponseLength |-> Estimate(batch.values[i], t)]]

\* compute_advantage: a "sequence" reward is an outcome, and takes GRPO's way.
ComputeAdvantage ==
    /\ phase = IF config.estimator \in {"tasd", "sequence"} THEN "judged" ELSE "distillation"
    /\ LET rewards == TokenLevelRewards
           advantages ==
             CASE config.estimator = "gae" ->
                    [i \in DOMAIN batch.uid |-> GaeAdvantage(rewards[i], Values[i], Masks[i], Gamma, Lam)]
               [] config.estimator = "tasd" ->
                    TasdAdvantage(rewards, Masks, batch.self_distillation_mask, batch.uid)
               [] OTHER -> GrpoOutcomeAdvantage(rewards, Masks, batch.uid)
       IN  batch' = Merge(batch, [token_level_rewards |-> rewards, advantages |-> advantages])
    /\ phase' = IF config.estimator = "sdpo" THEN "advantages" ELSE "ready"
    /\ UNCHANGED <<config, trained, forwards>>

\* update_policy: the mini-batches of a rank, each in micro-batches.
UpdateActor ==
    /\ phase = "ready"
    /\ LET locals == Dispatch(batch)
           minis  == [g \in Ranks |-> Split(locals[g], LocalMiniBatchSize(config))]
           Micros(k) == MicroBatches([g \in Ranks |-> minis[g][k]], config.dynamic)
       IN  trained' = [g \in Ranks |-> [k \in DOMAIN minis[g] |->
                LET micros == Micros(k)[g]
                IN  [m \in DOMAIN micros |->
                        [i \in DOMAIN micros[m] |-> minis[g][k].responses[micros[m][i]]]]]]
    /\ phase' = "updated"
    /\ UNCHANGED <<config, batch, forwards>>

\* _validate: the rows are padded for the workers.
Validate ==
    /\ phase = "idle"
    /\ \E draw \in [1..(ValPrompts * ValN + PadSize(Repeat(PromptBatch(ValPrompts), ValN), NumWorkers)) -> Draws] :
         LET testBatch == Repeat(PromptBatch(ValPrompts), ValN)
             generated == GenerateSequences(PadToDivisor(testBatch, NumWorkers), draw)
         IN  batch' = Merge(testBatch, Unpad(generated, PadSize(testBatch, NumWorkers)))
    /\ phase' = "validated"
    /\ UNCHANGED <<config, trained, forwards>>

NextBatch ==
    /\ phase \in {"updated", "validated"}
    /\ phase' = "idle" /\ batch' = <<>>
    /\ trained' = [g \in Ranks |-> <<>>] /\ forwards' = [g \in Ranks |-> <<>>]
    /\ UNCHANGED config

Next ==
    \/ Generate \/ BalanceBatch \/ ComputeReward \/ ComputeOldLogProb
    \/ BuildSelfDistillationBatch \/ TeacherLogProbs \/ ComputeAdvantage \/ UpdateActor
    \/ Validate \/ NextBatch

Spec == Init /\ [][Next]_vars

(***************************************************************************)
(* Properties.                                                             *)
(***************************************************************************)
\* Everything in a row belongs to its response: the prompt it answers, and what
\* the ranks computed, however the rows were reordered, dispatched, packed in
\* micro-batches and padded. A validation batch has one answer to each row that
\* was asked, and none to the padding.
RowsAligned ==
    /\ phase # "idle" => \A c \in DOMAIN batch, i \in DOMAIN batch.responses :
         CASE c \in {"uid", "raw_prompt"}                        -> batch[c][i] = batch.responses[i].prompt
           [] c \in {"old_log_probs", "values"}                  -> batch[c][i] = batch.responses[i]
           [] c \in {"teacher_input_ids", "teacher_log_probs"}   -> batch[c][i].response = batch.responses[i]
           [] OTHER                                              -> Len(batch[c]) = Len(batch.responses)
    /\ phase = "validated" =>
         [i \in DOMAIN batch.responses |-> batch.responses[i].prompt] = Repeat(PromptBatch(ValPrompts), ValN).uid

\* Where a dp rank trains a row: in which mini-batch, which micro-batch, which place.
Places(d) ==
    UNION {UNION {{<<d, k, m, i>> : i \in DOMAIN trained[d * SpSize][k][m]} :
        m \in DOMAIN trained[d * SpSize][k]} : k \in DOMAIN trained[d * SpSize]}

At(place) == trained[place[1] * SpSize][place[2]][place[3]][place[4]]

\* update_policy trains every row of the batch once, on the rank it was sent to,
\* and the ranks of one sequence-parallel group train the same rows.
TrainedOnce ==
    phase = "updated" =>
        LET places == UNION {Places(d) : d \in 0..(DpSize - 1)}
        IN  /\ {At(p) : p \in places} = ToSet(batch.responses)
            /\ \A p, q \in places : At(p) = At(q) => p = q
            /\ \A g, h \in Ranks : DpRank(g) = DpRank(h) => trained[g] = trained[h]

\* Every rank runs as many forward passes as the others, in the inference of a
\* column and in every mini-batch: FSDP gathers the parameters in each, and a rank
\* with one more would wait for the others for ever.
SameForwards ==
    /\ \A g, h \in Ranks : Len(forwards[g]) = Len(forwards[h])
    /\ \A g \in Ranks, m \in DOMAIN forwards[0] : forwards[g][m] > 0
    /\ phase = "updated" => \A g, h \in Ranks :
          /\ Len(trained[g]) = Len(trained[h])
          /\ \A k \in DOMAIN trained[g] : Len(trained[g][k]) = Len(trained[h][k])

Rows == DOMAIN batch.responses

\* The rows with an answer to the same prompt.
Peers(i) == {j \in Rows : batch.responses[j].prompt = batch.responses[i].prompt}

\* What was generated in the response of a row.
Generated(i) == {t \in DOMAIN batch.responses[i].tokens : batch.responses[i].tokens[t] = "gen"}

\* What the teacher was shown with it, and says of a token.
Shown(i) == batch.teacher_log_probs[i]

Approval(i, t) == Judgement(batch.responses[i], Shown(i).context, t)

\* Scale times the score of a row minus the mean over its peers, if it has any.
AgainstPeers(i) ==
    LET scores == [j \in Rows |-> batch.responses[j].score]
    IN  IF Peers(i) = {i} THEN Scale * scores[i]
        ELSE Scale * scores[i] - (Scale * TotalOf(Peers(i), scores)) \div Cardinality(Peers(i))

\* Scale times the approval of a token minus the mean over the tokens of the peers
\* that have a context.
AgainstTokens(i, t) ==
    LET shown     == {j \in Peers(i) : Shown(j).context # None \/ Shown(j).feedback}
        numbers   == [j \in Rows |-> Cardinality(Generated(j))]
        approvals == [j \in Rows |->
                        TotalOf(Generated(j), [u \in 1..ResponseLength |-> Approval(j, u)])]
    IN  IF i \in shown
        THEN Scale * Approval(i, t) - (Scale * TotalOf(shown, approvals)) \div TotalOf(shown, numbers)
        ELSE 0

\* The discounted sums of the temporal differences from each generated token on.
TemporalDifferences(i) ==
    LET Value(t)   == Estimate(batch.responses[i], t)
        Reward(t)  == IF t = Len(batch.responses[i].tokens) THEN batch.responses[i].score ELSE 0
        Later(t)   == {u \in Generated(i) : u > t}
        From[t \in 1..ResponseLength] ==
            IF Later(t) = {} THEN Reward(t) - Value(t)
            ELSE Reward(t) + Gamma * Value(Min(Later(t))) - Value(t) + Gamma * Lam * From[Min(Later(t))]
    IN  From

\* The mean of what the teacher says of the sequence.
MeanApproval(i) ==
    (Scale * TotalOf(Generated(i), [t \in 1..ResponseLength |-> Approval(i, t)]))
        \div Max({1, Cardinality(Generated(i))})

\* The approvals of all tokens the teacher had a context for add up to less than 0.
Disapproved ==
    LET shown     == {j \in Rows : Shown(j).context # None \/ Shown(j).feedback}
        approvals == [j \in Rows |->
                        TotalOf(Generated(j), [u \in 1..ResponseLength |-> Approval(j, u)])]
    IN  TotalOf(shown, approvals) < 0

\* A token of low approval: below the threshold and, when the batch is disapproved,
\* as far below 0 as ten thresholds. A threshold of 0 makes none low.
Low(approval) ==
    /\ SafetyThresh # 0 /\ approval < SafetyThresh
    /\ (SafetyThresh > 0 /\ Disapproved) => approval < -10 * SafetyThresh

\* TASD's clips: of every advantage, and of a penalty for a token of low approval.
Bounded(a, approval) ==
    LET clipped == Clamp(a, -ClipAdvValue, ClipAdvValue)
    IN  IF clipped < 0 /\ Low(approval) THEN Clamp(clipped, -SafetyClipValue, 0) ELSE clipped

Promised(i, t) ==
    IF t \notin Generated(i) THEN 0 ELSE
    CASE config.estimator = "gae"  -> TemporalDifferences(i)[t]
      [] config.estimator = "tasd" -> Bounded(AgainstTokens(i, t), Approval(i, t))
      [] OTHER                     -> AgainstPeers(i)

\* The advantages of a response are those its estimator promises, from the set of
\* responses to the same prompt, wherever balancing put them: the score, or the
\* approval of a token by the teacher, against the mean of the group, which for
\* TASD is that of the tokens the teacher had a context for, with its clips (its
\* Teacher-GAE is left out); and for GAE the discounted temporal differences over
\* the generated tokens. The rest is 0, but for GAE, whose observation tokens are
\* masked later.
AdvantagesByPrompt ==
    (phase \in {"advantages", "ready", "updated"} /\ config.estimator # "sequence") =>
        \A i \in Rows, t \in 1..ResponseLength :
            \/ config.estimator = "gae" /\ t \notin Generated(i)
            \/ batch.advantages[i][t] = Promised(i, t)

\* The teacher is shown a successful answer to the same prompt, or none; never the
\* one it judges with dont_reprompt_on_self_success, unless TASD asks for that. A
\* row is distilled if and only if the teacher knows more than the student.
TeacherContext ==
    "teacher_input_ids" \in DOMAIN batch =>
        \A i \in Rows :
            LET r == batch.responses[i]
                s == batch.teacher_input_ids[i].context
            IN  /\ s # None => s \in ToSet(batch.responses) /\ s.prompt = r.prompt /\ s.score = 1
                /\ s = r => ~config.dontReprompt \/ (config.selfAsTeacher /\ config.estimator # "sdpo")
                /\ s = None => \A j \in Peers(i) \ {i} : batch.responses[j].score = 0
                /\ batch.self_distillation_mask[i] = 1 <=>
                     s # None \/ batch.teacher_input_ids[i].feedback

\* Balancing makes the loads of the ranks differ by no more than two rows do; with
\* groups, by no more than two groups do, and the rows of a prompt stay together on
\* one rank.
RanksBalanced ==
    (phase = "balanced" /\ config.balance # "none") =>
        LET share   == BatchSize \div DpSize
            weights == [i \in Rows |-> CalculateWorkload(1 + Len(batch.responses[i].tokens))]
            RowsOf(d) == ((d - 1) * share + 1)..(d * share)
            Unit(i) == TotalOf(IF config.balance = "groups" THEN Peers(i) ELSE {i}, weights)
            Load(d) == TotalOf(RowsOf(d), weights)
        IN  /\ \A c, d \in 1..DpSize : \E i, j \in Rows : Load(c) - Load(d) <= Unit(i) - Unit(j)
            /\ config.balance = "groups" =>
                 \A d \in 1..DpSize : \A i \in RowsOf(d) : Peers(i) \subseteq RowsOf(d)

\* What the trainer says of a sequence-level reward: summed over the positions, as
\* GRPO does, it is the mean of the sequence, without a bias by its length.
ScoreIsSequenceMean ==
    (phase = "ready" /\ config.estimator = "sequence") =>
        \A i \in Rows : Total(batch.token_level_rewards[i]) = MeanApproval(i)
================================================================================

--------------------------- MODULE SamplePipeline ---------------------------
(***************************************************************************)
(* What the fully asynchronous trainer promises about each sample of the   *)
(* data set, without its queues, locks and pauses: a sample is rolled out, *)
(* queued, put in a batch and trained on, in this order and at most once;  *)
(* it can be lost where the system may lose it, and a lost or trained      *)
(* sample never comes back; training takes whole batches.                  *)
(***************************************************************************)
EXTENDS Naturals, FiniteSets

CONSTANTS
    Samples,
    BatchSize,    \* what one batch takes
    MayFail       \* rollouts may raise an exception

VARIABLE stage

Stages == {"waiting", "rolling", "queued", "batched", "trained", "lost"}

At(g) == {s \in Samples : stage[s] = g}

Move(S, from, to) ==
    /\ S # {} /\ S \subseteq At(from)
    /\ stage' = [s \in Samples |-> IF s \in S THEN to ELSE stage[s]]

Init == stage = [s \in Samples |-> "waiting"]

Start == \E s \in Samples : Move({s}, "waiting", "rolling")

\* A finished rollout enters the queue; a full queue loses another sample.
Enqueue ==
    \E s \in At("rolling"), dropped \in SUBSET At("queued") :
        /\ Cardinality(dropped) <= 1
        /\ stage' = [t \in Samples |-> IF t = s THEN "queued"
                                       ELSE IF t \in dropped THEN "lost" ELSE stage[t]]

\* The end signal takes the place of a sample in a full queue.
Overwrite == \E s \in Samples : Move({s}, "queued", "lost")

\* A rollout raises an exception.
Fail == MayFail /\ \E s \in Samples : Move({s}, "rolling", "lost")

Take == \E s \in Samples : Move({s}, "queued", "batched")

Train == Cardinality(At("batched")) = BatchSize /\ Move(At("batched"), "batched", "trained")

\* The stream ends inside a batch, or the run ends with samples queued.
GiveUp ==
    \/ Cardinality(At("batched")) < BatchSize /\ Move(At("batched"), "batched", "lost")
    \/ Move(At("queued"), "queued", "lost")

Next == Start \/ Enqueue \/ Overwrite \/ Fail \/ Take \/ Train \/ GiveUp

Spec == Init /\ [][Next]_stage
=============================================================================

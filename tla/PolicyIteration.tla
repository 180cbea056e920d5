---------------------------- MODULE PolicyIteration ----------------------------
(***************************************************************************)
(* What a step of on-policy training promises: the policy only improves on *)
(* a batch that the policy itself sampled, by at most StepsPerBatch        *)
(* optimizer steps, and the teacher that scored the batch moves only when  *)
(* the batch is finished. A restart goes back to a saved policy.           *)
(***************************************************************************)
EXTENDS Integers

CONSTANT StepsPerBatch   \* optimizer steps taken on one batch

VARIABLES
    policy,           \* optimizer steps in the weights of the policy
    teacher,          \* updates in the weights of the teacher
    batch,            \* the policies that sampled the batch in use
    saved             \* the policy a restart continues from

vars == <<policy, teacher, batch, saved>>

Init == policy = 0 /\ teacher = 0 /\ batch = {} /\ saved = 0

Sample ==
    /\ batch = {}
    /\ batch' = {policy}
    /\ UNCHANGED <<policy, teacher, saved>>

Improve ==
    /\ \E p \in batch : policy < p + StepsPerBatch
    /\ policy' = policy + 1
    /\ UNCHANGED <<teacher, batch, saved>>

\* The teacher follows only a policy that has improved.
Finish ==
    /\ batch # {} /\ batch' = {}
    /\ \/ UNCHANGED teacher
       \/ policy \notin batch /\ teacher' = teacher + 1
    /\ UNCHANGED <<policy, saved>>

Keep ==
    /\ batch = {}
    /\ saved' = policy
    /\ UNCHANGED <<policy, teacher, batch>>

Restart ==
    /\ policy' = saved /\ batch' = {} /\ teacher' = 0
    /\ UNCHANGED saved

Next == Sample \/ Improve \/ Finish \/ Keep \/ Restart

Spec == Init /\ [][Next]_vars
=============================================================================

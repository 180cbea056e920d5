---------------------------- MODULE WeightTransfer ----------------------------
(***************************************************************************)
(* What a weight transfer promises, and what the models of the whole run   *)
(* take as one step: every parameter of every rollout model goes from one  *)
(* version to the next, once, and the next transfer begins when all have.  *)
(***************************************************************************)
EXTENDS Integers

CONSTANT Receivers    \* the ranks whose models are updated

VARIABLES
    parameters,       \* the parameters of the model, fixed
    version,          \* of the transfer begun last
    model             \* the version of each parameter at each receiver

vars == <<parameters, version, model>>

Init ==
    /\ parameters \subseteq Nat
    /\ version = 0
    /\ model = [r \in Receivers |-> [p \in parameters |-> 0]]

Begin ==
    /\ \A r \in Receivers, p \in parameters : model[r][p] = version
    /\ version' = version + 1
    /\ UNCHANGED <<parameters, model>>

Deliver(r) ==
    /\ \E S \in SUBSET {p \in parameters : model[r][p] = version - 1} :
          model' = [model EXCEPT ![r] = [p \in parameters |-> IF p \in S THEN version ELSE @[p]]]
    /\ UNCHANGED <<parameters, version>>

Next == Begin \/ \E r \in Receivers : Deliver(r)

Spec == Init /\ [][Next]_vars
=============================================================================

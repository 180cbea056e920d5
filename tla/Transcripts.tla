------------------------------ MODULE Transcripts ------------------------------
(***************************************************************************)
(* What a partial rollout promises, whatever interrupts it: the responses  *)
(* of a sample only grow, one that is complete and scored never changes,   *)
(* and the sample is released once, when every response is complete.       *)
(***************************************************************************)
EXTENDS Integers, Sequences

CONSTANTS Rollouts, Tokens, ResponseLength

VARIABLES
    response,         \* the tokens of each rollout so far
    complete,         \* rollouts whose response is complete and scored
    released          \* the sample has gone to the message queue

vars == <<response, complete, released>>

Init ==
    /\ response = [r \in Rollouts |-> <<>>]
    /\ complete = {}
    /\ released = FALSE

\* One response is extended; its next value is any extension within the limit.
Grow(r) ==
    /\ r \notin complete
    /\ response' \in [Rollouts -> Seq(Tokens)]
    /\ Len(response[r]) <= Len(response'[r]) /\ Len(response'[r]) <= ResponseLength
    /\ \A i \in DOMAIN response[r] : response'[r][i] = response[r][i]
    /\ \A q \in Rollouts \ {r} : response'[q] = response[q]
    /\ UNCHANGED <<complete, released>>

Complete(r) ==
    /\ r \notin complete /\ response[r] # <<>>
    /\ complete' = complete \cup {r}
    /\ UNCHANGED <<response, released>>

Release ==
    /\ ~released /\ complete = Rollouts
    /\ released' = TRUE
    /\ UNCHANGED <<response, complete>>

Next == (\E r \in Rollouts : Grow(r) \/ Complete(r)) \/ Release

Spec == Init /\ [][Next]_vars
=============================================================================

--------------------------- MODULE DurableTraining ---------------------------
(***************************************************************************)
(* What checkpointing promises. A training run writes its weights to disk, *)
(* puts one set of weights on record, and after a crash goes on from those *)
(* on record. Sets of weights are numbered by the training steps they      *)
(* hold; 0 is the model the run begins with.                               *)
(***************************************************************************)
EXTENDS Integers

CONSTANT TotalSteps   \* the steps of the run

VARIABLES
    inPlace,          \* the record is replaced in place, fixed
    guarded,          \* weights on record are never removed, fixed
    progress,         \* steps in the weights of the run, Nothing when it has stopped
    record,           \* the weights on record, Nothing while they are replaced
    whole             \* the weights that are on disk as a whole

vars == <<inPlace, guarded, progress, record, whole>>

Nothing == -1

\* The weights on record are there; and those of the run are to replace them.
Recorded == record \in whole \cup {0}
Newer == progress > record \/ ~ Recorded

Init ==
    /\ inPlace \in BOOLEAN /\ guarded \in BOOLEAN
    /\ progress = 0 /\ record = 0 /\ whole = {}

Train ==
    /\ progress \in 0 .. TotalSteps - 1 /\ record # Nothing
    /\ progress' = progress + 1
    /\ UNCHANGED <<inPlace, guarded, record, whole>>

Write ==
    /\ Newer /\ record # Nothing
    /\ whole' = whole \cup {progress}
    /\ UNCHANGED <<inPlace, guarded, progress, record>>

\* Older weights are removed, those on record only from a run not guarded.
Rotate ==
    /\ record # Nothing
    /\ \E n \in whole :
        /\ n < progress /\ (guarded => n # record)
        /\ whole' = whole \ {n}
    /\ UNCHANGED <<inPlace, guarded, progress, record>>

\* Only newer weights that are on disk as a whole replace those on record.
BeginReplace ==
    /\ inPlace
    /\ progress \in whole /\ Newer /\ record # Nothing
    /\ record' = Nothing
    /\ UNCHANGED <<inPlace, guarded, progress, whole>>

Record ==
    /\ progress \in whole /\ Newer
    /\ inPlace => record = Nothing
    /\ record' = progress
    /\ UNCHANGED <<inPlace, guarded, progress, whole>>

\* The run goes on from the record or, when that is gone, stops. Without
\* replacement in place, what else a run restores may also stop it, and a
\* record that is gone may have left no trace.
Restart ==
    \/ Recorded /\ progress' = record
    \/ ~ (Recorded /\ inPlace) /\ progress' = Nothing
    \/ ~ Recorded /\ ~ inPlace /\ progress' = 0

\* A crash may spoil the weights that are being written, never others.
Crash ==
    /\ progress # Nothing
    /\ \/ whole' = whole
       \/ Newer /\ record # Nothing /\ whole' = whole \ {progress}
    /\ Restart
    /\ UNCHANGED <<inPlace, guarded, record>>

Next == Train \/ Write \/ Rotate \/ BeginReplace \/ Record \/ Crash

Spec == Init /\ [][Next]_vars
=============================================================================

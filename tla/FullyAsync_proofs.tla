------------------------- MODULE FullyAsync_proofs -------------------------
(***************************************************************************)
(* The fully asynchronous run for every number of samples, batch size,     *)
(* staleness and concurrency limit, with and without partial rollout.      *)
(*                                                                         *)
(* The discipline of the rollouter's lock comes first, because everything  *)
(* else rests on it: what a release leaves in the lock's queue has a type  *)
(* only because the coroutine that releases is known to be at its head,    *)
(* and pause() excludes the submission of tasks only through it.           *)
(*                                                                         *)
(* Then where the samples are: no sample is in two places, and so the run  *)
(* implements the pipeline of SamplePipeline. Then what the two sides owe  *)
(* each other: how far the rollouter can be ahead of the trainer, for      *)
(* every threshold. And how the run ends: the trainer logs every           *)
(* validation result in order, and learns that the stream has ended.       *)
(***************************************************************************)
EXTENDS FullyAsync, FiniteSetTheorems, FunctionTheorems, TLAPS

Elems(seq) == {seq[i] : i \in DOMAIN seq}
Distinct(seq) == \A i, j \in DOMAIN seq : seq[i] = seq[j] => i = j

-----------------------------------------------------------------------------
(* Sequences without repetition *)

\* Tail of a non-empty sequence: type, length and elements.
LEMMA TailFacts ==
    ASSUME NEW S, NEW seq \in Seq(S), seq # <<>>
    PROVE  /\ Tail(seq) \in Seq(S)
           /\ Head(seq) \in S /\ Head(seq) = seq[1]
           /\ Len(seq) \in Nat \ {0}
           /\ Len(Tail(seq)) = Len(seq) - 1
           /\ \A i \in 1 .. Len(Tail(seq)) : Tail(seq)[i] = seq[i + 1]
  OBVIOUS

\* Append: type, length and elements.
LEMMA AppendFacts ==
    ASSUME NEW S, NEW seq \in Seq(S), NEW x \in S
    PROVE  /\ Append(seq, x) \in Seq(S) /\ Append(seq, x) # <<>>
           /\ Len(seq) \in Nat
           /\ Len(Append(seq, x)) = Len(seq) + 1
           /\ \A i \in 1 .. Len(Append(seq, x)) :
                 Append(seq, x)[i] = IF i <= Len(seq) THEN seq[i] ELSE x
  OBVIOUS

\* The elements of a sequence over S are in S.
LEMMA ElementFacts ==
    ASSUME NEW S, NEW seq \in Seq(S)
    PROVE  \A i \in DOMAIN seq : seq[i] \in S
  OBVIOUS

\* The empty sequence has no element.
LEMMA EmptyFacts ==
    ASSUME NEW S
    PROVE  <<>> \in Seq(S) /\ Len(<<>>) = 0
  OBVIOUS

\* A newcomer at the end.
LEMMA AppendDistinct ==
    ASSUME NEW S, NEW seq \in Seq(S), NEW x \in S, Distinct(seq), x \notin Elems(seq)
    PROVE  /\ Append(seq, x) \in Seq(S)
           /\ Distinct(Append(seq, x))
           /\ Elems(Append(seq, x)) = Elems(seq) \cup {x}
           /\ Append(seq, x) # <<>>
           /\ seq # <<>> => Head(Append(seq, x)) = Head(seq)
<1> DEFINE new == Append(seq, x)
<1>1. /\ new \in Seq(S) /\ new # <<>> /\ Len(seq) \in Nat /\ Len(new) = Len(seq) + 1
      /\ \A i \in 1 .. Len(new) : new[i] = IF i <= Len(seq) THEN seq[i] ELSE x
  BY AppendFacts
<1>2. DOMAIN new = 1 .. Len(seq) + 1 /\ DOMAIN seq = 1 .. Len(seq)
  BY <1>1
<1> HIDE DEF new
<1>3. Distinct(new)
  <2> SUFFICES ASSUME NEW i \in DOMAIN new, NEW j \in DOMAIN new, new[i] = new[j]
               PROVE  i = j
    BY DEF Distinct
  <2>1. CASE i <= Len(seq) /\ j <= Len(seq)
    BY <1>1, <1>2, <2>1 DEF Distinct
  <2>2. CASE i = Len(seq) + 1 \/ j = Len(seq) + 1
    <3>1. \A k \in 1 .. Len(seq) : seq[k] # x
      BY <1>2 DEF Elems
    <3>2. QED
      BY <1>1, <1>2, <2>2, <3>1
  <2>3. QED
    BY <1>1, <1>2, <2>1, <2>2
<1>4. Elems(new) = Elems(seq) \cup {x}
  <2>1. ASSUME NEW y \in Elems(new) PROVE y \in Elems(seq) \cup {x}
    BY <1>1, <1>2, <2>1 DEF Elems
  <2>2. ASSUME NEW y \in Elems(seq) PROVE y \in Elems(new)
    <3>1. PICK i \in 1 .. Len(seq) : y = seq[i]
      BY <1>2 DEF Elems
    <3>2. i \in 1 .. Len(new) /\ new[i] = y
      BY <1>1, <3>1
    <3>3. QED
      BY <1>1, <1>2, <3>2 DEF Elems
  <2>3. x \in Elems(new)
    BY <1>1, <1>2 DEF Elems
  <2>4. QED
    BY <2>1, <2>2, <2>3
<1>5. seq # <<>> => Head(new) = Head(seq)
  <2> HAVE seq # <<>>
  <2>1. Head(seq) = seq[1] /\ Len(seq) \in Nat \ {0}
    BY TailFacts
  <2>2. Head(new) = new[1]
    BY <1>1, TailFacts
  <2>3. QED
    BY <1>1, <2>1, <2>2
<1>6. QED
  BY <1>1, <1>3, <1>4, <1>5 DEF new

\* The head leaves.
LEMMA TailDistinct ==
    ASSUME NEW S, NEW seq \in Seq(S), seq # <<>>, Distinct(seq)
    PROVE  /\ Tail(seq) \in Seq(S)
           /\ Distinct(Tail(seq))
           /\ Elems(Tail(seq)) = Elems(seq) \ {Head(seq)}
           /\ Head(seq) \in Elems(seq) /\ Head(seq) \in S
<1> DEFINE rest == Tail(seq)
<1>1. /\ rest \in Seq(S) /\ Head(seq) \in S /\ Head(seq) = seq[1]
      /\ Len(seq) \in Nat \ {0} /\ Len(rest) = Len(seq) - 1
      /\ \A i \in 1 .. Len(rest) : rest[i] = seq[i + 1]
  BY TailFacts
<1>2. DOMAIN rest = 1 .. Len(seq) - 1 /\ DOMAIN seq = 1 .. Len(seq)
  BY <1>1
<1> HIDE DEF rest
<1>3. Distinct(rest)
  <2> SUFFICES ASSUME NEW i \in DOMAIN rest, NEW j \in DOMAIN rest, rest[i] = rest[j]
               PROVE  i = j
    BY DEF Distinct
  <2>1. /\ i \in Int /\ j \in Int
        /\ i \in 1 .. Len(rest) /\ j \in 1 .. Len(rest)
        /\ i + 1 \in DOMAIN seq /\ j + 1 \in DOMAIN seq
    BY <1>1, <1>2
  <2>2. seq[i + 1] = seq[j + 1]
    BY <1>1, <2>1
  <2>3. i + 1 = j + 1
    BY <2>1, <2>2 DEF Distinct
  <2>4. QED
    BY <2>1, <2>3
<1>4. Elems(rest) = Elems(seq) \ {Head(seq)}
  <2>1. ASSUME NEW y \in Elems(rest) PROVE y \in Elems(seq) \ {Head(seq)}
    BY <1>1, <1>2, <2>1 DEF Elems, Distinct
  <2>2. ASSUME NEW y \in Elems(seq) \ {Head(seq)} PROVE y \in Elems(rest)
    <3>1. PICK i \in 1 .. Len(seq) : y = seq[i]
      BY <1>2 DEF Elems
    <3>2. i - 1 \in 1 .. Len(rest) /\ rest[i - 1] = y
      BY <1>1, <3>1
    <3>3. QED
      BY <1>1, <1>2, <3>2 DEF Elems
  <2>3. QED
    BY <2>1, <2>2
<1>5. Head(seq) \in Elems(seq)
  BY <1>1, <1>2 DEF Elems
<1>6. QED
  BY <1>1, <1>3, <1>4, <1>5 DEF rest

-----------------------------------------------------------------------------
(* The lock's queue *)

\* The coroutines that hold the lock or wait for it, and those among them
\* that await something while they hold it.
Wanting == {p \in Coroutines : NeedsLock(p)}
Waits(p) == \/ p = "processor" /\ processor \in {"drainWait", "finWait", "limitWait"}
            \/ p = "sync" /\ call \in {"gather", "count", "validate"}

LockInv ==
    /\ lockQ \in Seq(Coroutines)
    /\ Distinct(lockQ)
    /\ Elems(lockQ) = Wanting
    /\ \A p \in Coroutines : Waits(p) => Holds(p)

\* The lock's queue stays as it is.
LEMMA LockKept ==
    ASSUME LockInv, lockQ' = lockQ, Wanting' = Wanting,
           \A p \in Coroutines : Waits(p)' => Waits(p) \/ Holds(p)
    PROVE  LockInv'
  BY DEF LockInv, Holds

\* A coroutine asks for the lock.
LEMMA LockAsked ==
    ASSUME LockInv, NEW p \in Coroutines, p \notin Wanting,
           lockQ' = Append(lockQ, p), Wanting' = Wanting \cup {p},
           \A q \in Coroutines : Waits(q)' => Waits(q)
    PROVE  LockInv'
<1>1. /\ lockQ' \in Seq(Coroutines) /\ Distinct(lockQ') /\ lockQ' # <<>>
      /\ Elems(lockQ') = Elems(lockQ) \cup {p}
      /\ lockQ # <<>> => Head(lockQ') = Head(lockQ)
  BY AppendDistinct DEF LockInv
<1>2. Elems(lockQ)' = Elems(lockQ') /\ Distinct(lockQ)' = Distinct(lockQ')
  BY DEF Elems, Distinct
<1>3. ASSUME NEW q \in Coroutines, Waits(q)' PROVE Holds(q)'
  BY <1>1, <1>3 DEF LockInv, Holds
<1>4. QED
  BY <1>1, <1>2, <1>3 DEF LockInv

\* The holder releases the lock.
LEMMA LockReleased ==
    ASSUME LockInv, NEW p \in Coroutines, Holds(p),
           lockQ' = Tail(lockQ), Wanting' = Wanting \ {p},
           \A q \in Coroutines : Waits(q)' => Waits(q) /\ q # p
    PROVE  LockInv'
<1>1. /\ lockQ' \in Seq(Coroutines) /\ Distinct(lockQ')
      /\ Elems(lockQ') = Elems(lockQ) \ {p}
  BY TailDistinct DEF LockInv, Holds
<1>2. Elems(lockQ)' = Elems(lockQ') /\ Distinct(lockQ)' = Distinct(lockQ')
  BY DEF Elems, Distinct
<1>3. ASSUME NEW q \in Coroutines, Waits(q)' PROVE FALSE
  BY <1>3 DEF LockInv, Holds
<1>4. QED
  BY <1>1, <1>2, <1>3 DEF LockInv

\* The holder releases the lock and asks for it again.
LEMMA LockRequeued ==
    ASSUME LockInv, NEW p \in Coroutines, Holds(p),
           lockQ' = Requeue(p), Wanting' = Wanting,
           \A q \in Coroutines : Waits(q)' => Waits(q) /\ q # p
    PROVE  LockInv'
<1> DEFINE rest == Tail(lockQ)
<1>1. /\ rest \in Seq(Coroutines) /\ Distinct(rest)
      /\ Elems(rest) = Elems(lockQ) \ {p} /\ p \in Elems(lockQ)
  BY TailDistinct DEF LockInv, Holds
<1>2. lockQ' = Append(rest, p)
  BY DEF Requeue
<1> HIDE DEF rest
<1>3. /\ lockQ' \in Seq(Coroutines) /\ Distinct(lockQ')
      /\ Elems(lockQ') = Elems(rest) \cup {p}
  BY <1>1, <1>2, AppendDistinct
<1>4. Elems(lockQ') = Wanting'
  BY <1>1, <1>3 DEF LockInv
<1>5. Elems(lockQ)' = Elems(lockQ') /\ Distinct(lockQ)' = Distinct(lockQ')
  BY DEF Elems, Distinct
<1>6. ASSUME NEW q \in Coroutines, Waits(q)' PROVE FALSE
  BY <1>6 DEF LockInv, Holds
<1>7. QED
  BY <1>3, <1>4, <1>5, <1>6 DEF LockInv

\* A step that changes none of the variables the lock's users are described by.
LEMMA LockUntouched ==
    ASSUME LockInv, UNCHANGED <<lockQ, processor, monitor, main, call>>
    PROVE  LockInv'
<1>1. Wanting' = Wanting
  BY DEF Wanting, NeedsLock, Coroutines
<1>2. \A p \in Coroutines : Waits(p)' = Waits(p)
  BY DEF Waits
<1>3. QED
  BY <1>1, <1>2, LockKept

-----------------------------------------------------------------------------
(* Every step keeps the discipline of the lock *)

\* The processor: every wait with the lock held is at the head of its queue,
\* and every way out of a critical section releases the lock once.
LEMMA LockProcessor ==
    ASSUME LockInv, Processor
    PROVE  LockInv'
<1> USE DEF Wanting, Waits, NeedsLock, Coroutines
<1>1. CASE DecideToPause
  <2>1. "processor" \notin Wanting
    BY <1>1 DEF DecideToPause
  <2>2. Wanting' = Wanting \cup {"processor"}
    BY <1>1 DEF DecideToPause, callVars
  <2>3. QED
    BY <1>1, <2>1, <2>2, LockAsked DEF DecideToPause, callVars
<1>2. CASE SetPaused
  <2>1. Wanting' = Wanting
    BY <1>2 DEF SetPaused, callVars
  <2>2. QED
    BY <1>2, <2>1, LockRequeued DEF SetPaused, callVars
<1>3. CASE BeginWait
  BY <1>3, LockKept, LockRequeued, LockReleased
     DEF BeginWait, WaitLocks, Waiting, GoTo, AfterWait, callVars
<1>4. CASE EndWait
  <2>1. Holds("processor")
    BY <1>4 DEF EndWait, LockInv
  <2>2. call' = call /\ monitor' = monitor /\ main' = main
    BY <1>4 DEF EndWait, callVars
  <2>3. CASE processor' \in {"finished", "failed"}
    <3>1. lockQ' = Tail(lockQ)
      BY <1>4, <2>3 DEF EndWait, GoTo
    <3>2. QED
      BY <1>4, <2>1, <2>2, <2>3, <3>1, LockReleased DEF EndWait
  <2>4. CASE processor' \in {"drainLock", "parkLock", "finLock", "limitLock", "submitLock"}
    <3>1. lockQ' = Requeue("processor")
      BY <1>4, <2>4 DEF EndWait, GoTo
    <3>2. QED
      BY <1>4, <2>1, <2>2, <2>4, <3>1, LockRequeued DEF EndWait
  <2>5. QED
    BY <1>4, <2>3, <2>4 DEF EndWait, GoTo, AfterWait
<1>5. CASE Park
  BY <1>5, LockReleased DEF Park, callVars
<1>6. CASE Reacquire
  BY <1>6, LockAsked DEF Reacquire, callVars
<1>7. CASE TakeFromCancelQueue
  BY <1>7, LockAsked DEF TakeFromCancelQueue, ToSubmit, callVars
<1>8. CASE AwaitPending
  BY <1>8, LockKept DEF AwaitPending, callVars
<1>9. CASE TakeFromPendingQueue
  BY <1>9, LockKept, LockAsked DEF TakeFromPendingQueue, ToSubmit, callVars
<1>10. CASE SubmitSample
  BY <1>10, LockReleased DEF SubmitSample, callVars
<1>11. QED
  BY <1>1, <1>2, <1>3, <1>4, <1>5, <1>6, <1>7, <1>8, <1>9, <1>10 DEF Processor

\* The monitor and the main coroutine take the lock once and release it.
LEMMA LockMonitorMain ==
    ASSUME LockInv, Monitor \/ Main
    PROVE  LockInv'
<1> USE DEF Wanting, Waits, NeedsLock, Coroutines
<1>1. CASE MonitorCheck
  BY <1>1, LockReleased DEF MonitorCheck, procVars, callVars
<1>2. CASE MonitorTick
  BY <1>2, LockAsked DEF MonitorTick, procVars, callVars
<1>3. CASE MonitorReset
  BY <1>3, LockRequeued DEF MonitorReset, NotifyAll, callVars
<1>4. CASE PutEndSignal
  BY <1>4, LockAsked DEF PutEndSignal, procVars, callVars
<1>5. CASE StopRunning
  BY <1>5, LockReleased DEF StopRunning, procVars, callVars
<1>6. QED
  BY <1>1, <1>2, <1>3, <1>4, <1>5 DEF Monitor, Main

\* pause, update_param_version and resume take the lock once and release it.
LEMMA LockRemoteCall ==
    ASSUME LockInv, RemoteCall
    PROVE  LockInv'
<1> USE DEF Wanting, Waits, NeedsLock, Coroutines
<1>1. CASE PauseBegin
  BY <1>1, LockKept DEF PauseBegin, procVars
<1>2. CASE PauseEnd
  <2>1. Holds("sync")
    BY <1>2 DEF PauseEnd, LockInv
  <2>2. QED
    BY <1>2, <2>1, LockReleased DEF PauseEnd, procVars
<1>3. CASE CallArrives
  BY <1>3, LockAsked DEF CallArrives, procVars
<1>4. CASE UpdateBegin(syncVersion)
  BY <1>4, LockKept DEF UpdateBegin, procVars
<1>5. CASE ResetStaleness
  BY <1>5, LockKept DEF ResetStaleness, procVars
<1>6. CASE ReportValidation
  <2>1. Holds("sync")
    BY <1>6 DEF ReportValidation, LockInv
  <2>2. QED
    BY <1>6, <2>1, LockReleased DEF ReportValidation, procVars
<1>7. CASE Resume
  BY <1>7, LockReleased DEF Resume, NotifyAll
<1>8. QED
  BY <1>1, <1>2, <1>3, <1>4, <1>5, <1>6, <1>7 DEF RemoteCall

\* Nobody else touches the lock.
LEMMA LockOther ==
    ASSUME LockInv, Feeder \/ SampleTask \/ SyncStep \/ Trainer \/ CleanUp \/ UNCHANGED vars
    PROVE  LockInv'
<1>1. CASE Feeder
  BY <1>1, LockUntouched DEF Feeder, FeedSample, FeedDone, procVars, callVars
<1>2. CASE SampleTask
  BY <1>2, LockUntouched
     DEF SampleTask, EndGeneration, Deliver, FinishGeneration, CancelGeneration,
         FailGeneration, DeliverSample, procVars, callVars
<1>3. CASE SyncStep
  BY <1>3, LockKept
     DEF SyncStep, TellQueue, Wanting, Waits, NeedsLock, Coroutines, procVars
<1>4. CASE CallSync
  BY <1>4, LockAsked
     DEF CallSync, BeginSync, Wanting, Waits, NeedsLock, Coroutines, procVars
<1>5. CASE EndSync
  BY <1>5, LockKept
     DEF EndSync, TransferWeights, Wanting, Waits, NeedsLock, Coroutines, procVars
<1>6. CASE Trainer /\ ~CallSync /\ ~EndSync
  BY <1>6, LockUntouched
     DEF Trainer, StartFit, WaitForQueue, CollectSample, CollectEndSignal, TrainBatch,
         LogStep, FinalWait, LastWait, rollouterVars, procVars, callVars
<1>7. CASE CleanUp \/ UNCHANGED vars
  BY <1>7, LockUntouched DEF CleanUp, vars, rollouterVars, procVars, callVars
<1>8. QED
  BY <1>1, <1>2, <1>3, <1>4, <1>5, <1>6, <1>7

\* The processor and the monitor start without the lock.
LEMMA LockInit == Init => LockInv
<1> HAVE Init
<1>1. lockQ = <<"monitor">> /\ processor = "top" /\ main = "await" /\ call = "none"
      /\ monitor = "check"
  BY DEF Init, RollouterInit
<1>2. Wanting = {"monitor"}
  BY <1>1 DEF Wanting, NeedsLock, Coroutines
<1>3. lockQ \in Seq(Coroutines) /\ Elems(lockQ) = {"monitor"} /\ Distinct(lockQ)
  BY <1>1 DEF Elems, Distinct, Coroutines
<1>4. QED
  BY <1>1, <1>2, <1>3 DEF LockInv, Waits

\* The three together: every step keeps the invariant of the lock.
LEMMA LockStep == LockInv /\ [Next]_vars => LockInv'
  BY LockProcessor, LockMonitorMain, LockRemoteCall, LockOther
     DEF Next, RollouterStep, Terminated

\* So it is an invariant of the run.
LEMMA LockInvariant == Spec => []LockInv
  BY LockInit, LockStep, PTL DEF Spec

\* The lock's queue holds exactly the coroutines that need the lock, each
\* once, and only its head awaits anything inside a critical section.
THEOREM LockIsDisciplined == Spec => []LockDiscipline
<1>1. LockInv => LockDiscipline
  <2> HAVE LockInv
  <2>1. \A p \in Coroutines : NeedsLock(p) <=> p \in Elems(lockQ)
    BY DEF LockInv, Wanting
  <2>2. \A p \in Coroutines : p \in Elems(lockQ) <=> \E i \in DOMAIN lockQ : lockQ[i] = p
    BY DEF Elems
  <2>3. processor \in {"drainWait", "finWait", "limitWait"} => Holds("processor")
    BY DEF LockInv, Waits, Coroutines
  <2>4. call \in {"gather", "count", "validate"} => Holds("sync")
    BY DEF LockInv, Waits, Coroutines
  <2>5. QED
    BY <2>1, <2>2, <2>3, <2>4 DEF LockInv, LockDiscipline, Distinct
<1>2. QED
  BY <1>1, LockInvariant, PTL

-----------------------------------------------------------------------------
(* Types *)

\* What TypeOK needs besides itself: the processor has a sample wherever it
\* is about to submit one, the tasks can be counted, and a release of the
\* lock leaves a queue of coroutines.
InHandOK ==
    processor \in {"limitLock", "limitWait", "submitLock", "submitParked", "submitWoken"}
        => inHand \in Samples

TypeInv == TypeOK /\ InHandOK /\ IsFiniteSet(delivering) /\ LockInv

\* Any set of samples can be counted.
LEMMA SamplesFinite ==
    ASSUME NEW S \in SUBSET Samples
    PROVE  IsFiniteSet(S) /\ Cardinality(S) \in Nat
<1>1. TotalRolloutSteps \in Nat
  BY RollouterAssumption
<1>2. IsFiniteSet(Samples)
  BY <1>1, FS_Interval DEF Samples
<1>3. QED
  BY <1>2, FS_Subset, FS_CardinalityType

\* What a step leaves alone keeps its type.
LEMMA TypesKept ==
    ASSUME TypeInv
    PROVE  /\ UNCHANGED feedVars => FeedTypeOK'
           /\ UNCHANGED taskVars => TaskTypeOK' /\ IsFiniteSet(delivering)'
           /\ UNCHANGED procVars => ProcTypeOK' /\ InHandOK'
           /\ UNCHANGED flagVars => FlagTypeOK'
           /\ UNCHANGED <<callVars, monitor, main, lockQ>> => ControlTypeOK'
           /\ UNCHANGED <<syncVars, trainerVars>> => TrainerTypeOK'
           /\ UNCHANGED queueVars => MQ!MQTypeOK'
<1>1. UNCHANGED feedVars => FeedTypeOK'
  BY DEF TypeInv, TypeOK, FeedTypeOK, feedVars
<1>2. UNCHANGED taskVars => TaskTypeOK' /\ IsFiniteSet(delivering)'
  BY DEF TypeInv, TypeOK, TaskTypeOK, taskVars
<1>3. UNCHANGED procVars => ProcTypeOK' /\ InHandOK'
  BY DEF TypeInv, TypeOK, ProcTypeOK, InHandOK, procVars
<1>4. UNCHANGED flagVars => FlagTypeOK'
  BY DEF TypeInv, TypeOK, FlagTypeOK, flagVars
<1>5. UNCHANGED <<callVars, monitor, main, lockQ>> => ControlTypeOK'
  BY DEF TypeInv, TypeOK, ControlTypeOK, callVars
<1>6. UNCHANGED <<syncVars, trainerVars>> => TrainerTypeOK'
  BY DEF TypeInv, TypeOK, TrainerTypeOK, syncVars, trainerVars
<1>7. UNCHANGED queueVars => MQ!MQTypeOK'
  BY DEF TypeInv, TypeOK, MQ!MQTypeOK, queueVars
<1>8. QED
  BY <1>1, <1>2, <1>3, <1>4, <1>5, <1>6, <1>7

\* put_sample, whatever is put.
LEMMA TypePut ==
    ASSUME MQ!MQTypeOK, NEW x \in Entry, MQ!PutSample(x)
    PROVE  MQ!MQTypeOK'
<1>1. MaxRequiredSamples \in Nat \ {0}
  BY RollouterAssumption
<1>2. MQ!Room \in Seq(Entry) /\ Len(MQ!Room) \in Nat /\ Len(MQ!Room) < MaxRequiredSamples
  <2>1. CASE MQ!IsFull
    <3>1. queue # <<>>
      BY <1>1, <2>1 DEF MQ!IsFull
    <3>2. QED
      BY <1>1, <2>1, <3>1, TailFacts DEF MQ!Room, MQ!MQTypeOK
  <2>2. CASE ~MQ!IsFull
    BY <1>1, <2>2 DEF MQ!IsFull, MQ!Room, MQ!MQTypeOK
  <2>3. QED
    BY <2>1, <2>2
<1>3. queue' \in Seq(Entry) /\ Len(queue') <= MaxRequiredSamples
  BY <1>1, <1>2, AppendFacts DEF MQ!PutSample
<1>4. getter' \in [{"trainer"} -> {"idle", "waiting", "notified"}]
  BY DEF MQ!PutSample, MQ!Notified, MQ!MQTypeOK
<1>5. QED
  BY <1>3, <1>4 DEF MQ!PutSample, MQ!MQTypeOK

\* _feed_samples appends to pending_queue and counts global_steps.
LEMMA TypeFeeder ==
    ASSUME TypeInv, LockInv', Feeder, Others
    PROVE  TypeInv'
<1>1. FeedTypeOK'
  <2>1. CASE FeedSample
    <3>1. pendingQueue' \in Seq(Samples \cup {Done})
      BY <2>1 DEF FeedSample, TypeInv, TypeOK, FeedTypeOK
    <3>2. globalSteps' \in Samples /\ feed' \in {"feeding", "closing", "finished"}
      BY <2>1, RollouterAssumption DEF FeedSample, TypeInv, TypeOK, FeedTypeOK, Samples
    <3>3. QED
      BY <3>1, <3>2 DEF FeedTypeOK
  <2>2. CASE FeedDone
    BY <2>2 DEF FeedDone, TypeInv, TypeOK, FeedTypeOK
  <2>3. QED
    BY <2>1, <2>2 DEF Feeder
<1>2. UNCHANGED <<taskVars, procVars, flagVars, callVars, monitor, main, lockQ, queueVars>>
  BY DEF Feeder, FeedSample, FeedDone
<1>3. QED
  BY <1>1, <1>2, TypesKept DEF TypeInv, TypeOK, Others

\* A generation that ends puts its sample into the cancel_queue or the message queue.
LEMMA TypeSampleTask ==
    ASSUME TypeInv, LockInv', SampleTask, Others
    PROVE  TypeInv'
<1>1. CASE \E s \in Samples : FinishGeneration(s)
  <2>1. PICK s \in Samples : FinishGeneration(s)
    BY <1>1
  <2>2. Finished(s) \in [id : Samples, ver : Versions]
    BY DEF Finished, TypeInv, TypeOK, FlagTypeOK
  <2>3. TaskTypeOK' /\ IsFiniteSet(delivering)'
    BY <2>1, <2>2, FS_AddElement DEF FinishGeneration, TypeInv, TypeOK, TaskTypeOK
  <2>4. UNCHANGED <<feedVars, procVars, flagVars, callVars, monitor, main, lockQ, queueVars>>
    BY <2>1 DEF FinishGeneration
  <2>5. QED
    BY <2>3, <2>4, TypesKept DEF TypeInv, TypeOK, Others
<1>2. CASE \E s \in Samples : CancelGeneration(s)
  <2>1. PICK s \in Samples : CancelGeneration(s)
    BY <1>2
  <2>2. TaskTypeOK' /\ IsFiniteSet(delivering)'
    BY <2>1 DEF CancelGeneration, Interrupted, TypeInv, TypeOK, TaskTypeOK
  <2>3. UNCHANGED <<feedVars, procVars, flagVars, callVars, monitor, main, lockQ, queueVars>>
    BY <2>1 DEF CancelGeneration
  <2>4. QED
    BY <2>2, <2>3, TypesKept DEF TypeInv, TypeOK, Others
<1>3. CASE \E s \in Samples : FailGeneration(s)
  <2>1. PICK s \in Samples : FailGeneration(s)
    BY <1>3
  <2>2. TaskTypeOK' /\ IsFiniteSet(delivering)'
    BY <2>1 DEF FailGeneration, TypeInv, TypeOK, TaskTypeOK
  <2>3. UNCHANGED <<feedVars, procVars, flagVars, callVars, monitor, main, lockQ, queueVars>>
    BY <2>1 DEF FailGeneration
  <2>4. QED
    BY <2>2, <2>3, TypesKept DEF TypeInv, TypeOK, Others
<1>4. CASE Deliver
  <2>1. PICK e \in delivering : DeliverSample(e)
    BY <1>4 DEF Deliver
  <2>2. TaskTypeOK' /\ IsFiniteSet(delivering)'
    BY <2>1, FS_RemoveElement DEF DeliverSample, TypeInv, TypeOK, TaskTypeOK
  <2>3. e \in Entry
    BY <2>1 DEF Entry, TypeInv, TypeOK, TaskTypeOK
  <2>4. MQ!MQTypeOK'
    BY <2>1, <2>3, TypePut DEF DeliverSample, TypeInv, TypeOK
  <2>5. UNCHANGED <<feedVars, procVars, flagVars, callVars, monitor, main, lockQ>>
    BY <2>1 DEF DeliverSample
  <2>6. QED
    BY <2>2, <2>4, <2>5, TypesKept DEF TypeInv, TypeOK, Others
<1>5. QED
  BY <1>1, <1>2, <1>3, <1>4 DEF SampleTask, EndGeneration

\* The tasks that len(self.active_tasks) counts can be counted.
LEMMA ActiveTasksCounted ==
    ASSUME TypeInv
    PROVE  ActiveTasks \in Nat
<1>1. Cardinality(generating) \in Nat
  BY SamplesFinite DEF TypeInv, TypeOK, TaskTypeOK
<1>2. Cardinality(delivering) \in Nat
  BY FS_CardinalityType DEF TypeInv
<1>3. QED
  BY <1>1, <1>2 DEF ActiveTasks, TypeInv, TypeOK, TaskTypeOK

\* Steps of the processor that move it and nothing else.
LEMMA TypeProcessorMoves ==
    ASSUME TypeInv, LockInv', Others,
           DecideToPause \/ BeginWait \/ Park \/ Reacquire \/ AwaitPending
    PROVE  TypeInv'
<1>1. ProcTypeOK' /\ InHandOK'
  BY DEF DecideToPause, BeginWait, Park, Reacquire, AwaitPending, WaitLocks, Waiting, GoTo,
         AfterWait, TypeInv, TypeOK, ProcTypeOK, InHandOK
<1>2. UNCHANGED <<feedVars, taskVars, flagVars, callVars, monitor, main, queueVars>>
  BY DEF DecideToPause, BeginWait, Park, Reacquire, AwaitPending
<1>3. ControlTypeOK'
  BY <1>2 DEF TypeInv, TypeOK, ControlTypeOK, LockInv, callVars
<1>4. QED
  BY <1>1, <1>2, <1>3, TypesKept DEF TypeInv, TypeOK, Others

\* _processor_worker: its own steps, whose releases need LockInv.
LEMMA TypeProcessor ==
    ASSUME TypeInv, LockInv', Processor, Others
    PROVE  TypeInv'
<1>1. UNCHANGED <<callVars, monitor, main, queueVars>>
  BY DEF Processor, DecideToPause, SetPaused, BeginWait, EndWait, Park, Reacquire,
         TakeFromCancelQueue, AwaitPending, TakeFromPendingQueue, SubmitSample
<1>2. ControlTypeOK'
  BY <1>1 DEF TypeInv, TypeOK, ControlTypeOK, LockInv, callVars
<1>3. CASE SetPaused
  <2>1. ProcTypeOK' /\ InHandOK' /\ FlagTypeOK'
    BY <1>3 DEF SetPaused, TypeInv, TypeOK, ProcTypeOK, InHandOK, FlagTypeOK
  <2>2. UNCHANGED <<feedVars, taskVars>>
    BY <1>3 DEF SetPaused
  <2>3. QED
    BY <1>1, <1>2, <2>1, <2>2, TypesKept DEF TypeInv, TypeOK, Others
<1>4. CASE EndWait
  <2>1. ProcTypeOK' /\ InHandOK'
    BY <1>4 DEF EndWait, GoTo, AfterWait, TypeInv, TypeOK, ProcTypeOK, InHandOK
  <2>2. TaskTypeOK' /\ IsFiniteSet(delivering)'
    BY <1>4 DEF EndWait, TypeInv, TypeOK, TaskTypeOK
  <2>3. UNCHANGED <<feedVars, flagVars>>
    BY <1>4 DEF EndWait
  <2>4. QED
    BY <1>1, <1>2, <2>1, <2>2, <2>3, TypesKept DEF TypeInv, TypeOK, Others
<1>5. CASE TakeFromCancelQueue
  <2>1. cancelQueue' \in Seq(Samples) /\ inHand' \in Samples
    BY <1>5, TailFacts DEF TakeFromCancelQueue, TypeInv, TypeOK, TaskTypeOK
  <2>2. TaskTypeOK' /\ IsFiniteSet(delivering)'
    BY <1>5, <2>1 DEF TakeFromCancelQueue, TypeInv, TypeOK, TaskTypeOK
  <2>3. ProcTypeOK' /\ InHandOK'
    BY <1>5, <2>1 DEF TakeFromCancelQueue, ToSubmit, TypeInv, TypeOK, ProcTypeOK, InHandOK
  <2>4. UNCHANGED <<feedVars, flagVars>>
    BY <1>5 DEF TakeFromCancelQueue
  <2>5. QED
    BY <1>1, <1>2, <2>2, <2>3, <2>4, TypesKept DEF TypeInv, TypeOK, Others
<1>6. CASE TakeFromPendingQueue
  <2>1. pendingQueue' \in Seq(Samples \cup {Done}) /\ Head(pendingQueue) \in Samples \cup {Done}
    BY <1>6, TailFacts DEF TakeFromPendingQueue, TypeInv, TypeOK, FeedTypeOK
  <2>2. FeedTypeOK'
    BY <1>6, <2>1 DEF TakeFromPendingQueue, TypeInv, TypeOK, FeedTypeOK
  <2>3. ProcTypeOK' /\ InHandOK'
    BY <1>6, <2>1
       DEF TakeFromPendingQueue, ToSubmit, TypeInv, TypeOK, ProcTypeOK, InHandOK
  <2>4. FlagTypeOK'
    BY <1>6 DEF TakeFromPendingQueue, TypeInv, TypeOK, FlagTypeOK
  <2>5. UNCHANGED taskVars
    BY <1>6 DEF TakeFromPendingQueue
  <2>6. QED
    BY <1>1, <1>2, <2>2, <2>3, <2>4, <2>5, TypesKept DEF TypeInv, TypeOK, Others
<1>7. CASE SubmitSample
  <2>1. ProcTypeOK' /\ InHandOK'
    BY <1>7 DEF SubmitSample, TypeInv, TypeOK, ProcTypeOK, InHandOK
  <2>2. TaskTypeOK' /\ IsFiniteSet(delivering)'
    BY <1>7 DEF SubmitSample, TypeInv, TypeOK, TaskTypeOK, InHandOK
  <2>3. UNCHANGED <<feedVars, flagVars>>
    BY <1>7 DEF SubmitSample
  <2>4. QED
    BY <1>1, <1>2, <2>1, <2>2, <2>3, TypesKept DEF TypeInv, TypeOK, Others
<1>8. QED
  BY <1>3, <1>4, <1>5, <1>6, <1>7, TypeProcessorMoves DEF Processor

\* _async_monitor_loop.
LEMMA TypeMonitor ==
    ASSUME TypeInv, LockInv', Monitor, Others
    PROVE  TypeInv'
<1>1. UNCHANGED <<feedVars, taskVars, callVars, main, queueVars>>
  BY DEF Monitor, MonitorCheck, MonitorTick, MonitorReset
<1>2. ControlTypeOK'
  BY <1>1 DEF Monitor, MonitorCheck, MonitorTick, MonitorReset, TypeInv, TypeOK,
              ControlTypeOK, LockInv, callVars
<1>3. FlagTypeOK'
  BY DEF Monitor, MonitorCheck, MonitorTick, MonitorReset, TypeInv, TypeOK, FlagTypeOK,
         flagVars
<1>4. ProcTypeOK' /\ InHandOK'
  BY DEF Monitor, MonitorCheck, MonitorTick, MonitorReset, NotifyAll, TypeInv, TypeOK,
         ProcTypeOK, InHandOK, procVars
<1>5. QED
  BY <1>1, <1>2, <1>3, <1>4, TypesKept DEF TypeInv, TypeOK, Others

\* _streaming_generation_main and its end signal.
LEMMA TypeMain ==
    ASSUME TypeInv, LockInv', Main, Others
    PROVE  TypeInv'
<1>1. UNCHANGED <<feedVars, taskVars, procVars, callVars, monitor>>
  BY DEF Main, PutEndSignal, StopRunning
<1>2. ControlTypeOK'
  BY <1>1 DEF Main, PutEndSignal, StopRunning, TypeInv, TypeOK, ControlTypeOK, LockInv, callVars
<1>3. FlagTypeOK'
  BY DEF Main, PutEndSignal, StopRunning, TypeInv, TypeOK, FlagTypeOK, flagVars
<1>4. MQ!MQTypeOK'
  <2>1. CASE PutEndSignal
    <3>1. [id |-> EndSignal, ver |-> rollVersion] \in Entry
      BY DEF Entry, TypeInv, TypeOK, FlagTypeOK
    <3>2. QED
      BY <2>1, <3>1, TypePut DEF PutEndSignal, TypeInv, TypeOK
  <2>2. CASE StopRunning
    BY <2>2, TypesKept DEF StopRunning
  <2>3. QED
    BY <2>1, <2>2 DEF Main
<1>5. QED
  BY <1>1, <1>2, <1>3, <1>4, TypesKept DEF TypeInv, TypeOK, Others

\* pause, update_param_version, resume and the reports between them.
LEMMA TypeRemoteCall ==
    ASSUME TypeInv, LockInv', RemoteCall, Others
    PROVE  TypeInv'
<1> USE DEF RemoteCall, PauseBegin, PauseEnd, CallArrives, UpdateBegin, ResetStaleness,
            ReportValidation, Resume
<1>1. UNCHANGED <<feedVars, monitor, main>>
  OBVIOUS
<1>2. ControlTypeOK'
  <2>1. counted' \in Nat
    BY ActiveTasksCounted DEF TypeInv, TypeOK, ControlTypeOK, TaskTypeOK, callVars
  <2>2. QED
    BY <1>1, <2>1 DEF TypeInv, TypeOK, ControlTypeOK, LockInv
<1>3. FlagTypeOK'
  <2>1. Len(queue) \in Nat /\ counted \in Nat /\ syncVersion \in Nat
    BY DEF TypeInv, TypeOK, MQ!MQTypeOK, ControlTypeOK, TrainerTypeOK, Versions
  <2>2. CASE PauseBegin
    BY <2>2, RollouterAssumption DEF TypeInv, TypeOK, FlagTypeOK
  <2>3. CASE PauseEnd
    BY <2>3 DEF TypeInv, TypeOK, FlagTypeOK
  <2>4. CASE UpdateBegin(syncVersion)
    BY <2>1, <2>4 DEF TypeInv, TypeOK, FlagTypeOK, Versions
  <2>5. CASE ResetStaleness
    BY <2>1, <2>5 DEF TypeInv, TypeOK, FlagTypeOK
  <2>6. CASE Resume
    BY <2>6 DEF TypeInv, TypeOK, FlagTypeOK
  <2>7. CASE UNCHANGED flagVars
    BY <2>7, TypesKept
  <2>8. QED
    BY <2>2, <2>3, <2>4, <2>5, <2>6, <2>7
<1>4. ProcTypeOK' /\ InHandOK'
  BY DEF NotifyAll, TypeInv, TypeOK, ProcTypeOK, InHandOK, procVars
<1>5. TaskTypeOK' /\ IsFiniteSet(delivering)'
  <2>1. CASE PauseEnd
    BY <2>1 DEF TypeInv, TypeOK, TaskTypeOK
  <2>2. CASE UNCHANGED taskVars
    BY <2>2, TypesKept
  <2>3. QED
    BY <2>1, <2>2
<1>6. MQ!MQTypeOK'
  <2>1. CASE ReportValidation
    BY <2>1 DEF MQ!PutValidate, MQ!counters, TypeInv, TypeOK, FlagTypeOK, MQ!MQTypeOK
  <2>2. CASE UNCHANGED queueVars
    BY <2>2, TypesKept
  <2>3. QED
    BY <2>1, <2>2
<1>7. QED
  BY <1>1, <1>2, <1>3, <1>4, <1>5, <1>6, TypesKept DEF TypeInv, TypeOK, Others

\* Steps of the trainer and the clean-up, as far as the queue sees them.
LEMMA TypeQueue ==
    ASSUME MQ!MQTypeOK,
           \/ MQ!GetSample("trainer", Head(queue)) \/ MQ!WaitForSample("trainer")
           \/ MQ!GetValidate \/ MQ!ClearQueue \/ UNCHANGED queueVars
    PROVE  MQ!MQTypeOK'
<1>1. CASE MQ!GetSample("trainer", Head(queue))
  <2>1. queue' \in Seq(Entry) /\ Len(queue') <= MaxRequiredSamples
    BY <1>1, TailFacts, RollouterAssumption DEF MQ!GetSample, MQ!MQTypeOK
  <2>2. QED
    BY <1>1, <2>1 DEF MQ!GetSample, MQ!MQTypeOK
<1>2. CASE MQ!WaitForSample("trainer")
  BY <1>2 DEF MQ!WaitForSample, MQ!MQTypeOK, MQ!counters
<1>3. CASE MQ!GetValidate
  <2>1. valQueue' \in Seq(Versions)
    BY <1>3, TailFacts DEF MQ!GetValidate, MQ!MQTypeOK
  <2>2. QED
    BY <1>3, <2>1 DEF MQ!GetValidate, MQ!MQTypeOK, MQ!counters
<1>4. CASE MQ!ClearQueue
  BY <1>4, RollouterAssumption DEF MQ!ClearQueue, MQ!MQTypeOK
<1>5. CASE UNCHANGED queueVars
  BY <1>5 DEF queueVars, MQ!MQTypeOK
<1>6. QED
  BY <1>1, <1>2, <1>3, <1>4, <1>5

\* fit of the trainer: the batch, the versions and the steps.
LEMMA TypeTrainer ==
    ASSUME TypeInv, LockInv', Trainer
    PROVE  TypeInv'
<1>1. MQ!MQTypeOK'
  BY TypeQueue
     DEF Trainer, StartFit, WaitForQueue, CollectSample, CollectEndSignal, TrainBatch, CallSync,
         BeginSync, EndSync, TransferWeights, LogStep, FinalWait, LastWait, LogValidation,
         TypeInv, TypeOK
<1>2. UNCHANGED <<feedVars, taskVars, procVars, flagVars, monitor, main>>
  BY DEF Trainer, StartFit, WaitForQueue, CollectSample, CollectEndSignal, TrainBatch,
         CallSync, BeginSync, EndSync, TransferWeights, LogStep, FinalWait, LastWait,
         rollouterVars
<1>3. ControlTypeOK'
  BY <1>2 DEF Trainer, StartFit, WaitForQueue, CollectSample, CollectEndSignal, TrainBatch,
         CallSync, BeginSync, EndSync, TransferWeights, LogStep, FinalWait, LastWait,
         rollouterVars, callVars, TypeInv, TypeOK, ControlTypeOK, LockInv
<1>4. TrainerTypeOK'
  <2> USE DEF TypeInv, TypeOK, TrainerTypeOK, trainerVars, syncVars, Versions
  <2>1. ASSUME LogValidation PROVE logged' \in Nat
    BY <2>1, TailFacts DEF LogValidation, MQ!MQTypeOK
  <2>2. CASE StartFit \/ LogStep \/ LastWait
    BY <2>1, <2>2 DEF StartFit, LogStep, LastWait
  <2>3. CASE WaitForQueue
    BY <2>3 DEF WaitForQueue
  <2>4. CASE CollectSample
    <3>1. Head(queue) \in [id : Samples, ver : Versions]
      <4>1. Head(queue) \in Entry /\ Head(queue).id # EndSignal
        BY <2>4, TailFacts DEF CollectSample, MQ!MQTypeOK
      <4>2. QED
        BY <4>1 DEF Entry
    <3>2. batch' \in Seq([id : Samples, ver : Versions])
      BY <2>4, <3>1, AppendFacts DEF CollectSample
    <3>3. QED
      BY <2>4, <3>2 DEF CollectSample
  <2>5. CASE CollectEndSignal
    BY <2>5 DEF CollectEndSignal
  <2>6. CASE TrainBatch
    <3>1. trained' \in SUBSET Samples
      <4>1. \A i \in DOMAIN batch : batch[i] \in [id : Samples, ver : Versions]
        BY ElementFacts
      <4>2. SampleIds(batch) \subseteq Samples
        BY <4>1 DEF SampleIds
      <4>3. QED
        BY <2>6, <4>2 DEF TrainBatch
    <3>2. localStep' \in 1 .. TriggerSyncStep /\ trainerVersion' \in Nat
      BY <2>6, RollouterAssumption DEF TrainBatch
    <3>3. QED
      BY <2>6, <3>1, <3>2 DEF TrainBatch
  <2>7. CASE CallSync
    BY <2>7 DEF CallSync, BeginSync
  <2>8. CASE EndSync
    BY <2>8 DEF EndSync, TransferWeights
  <2>9. CASE FinalWait
    <3>1. 1 \in 1 .. TriggerSyncStep /\ trainerVersion + 1 \in Nat
      BY RollouterAssumption
    <3>2. localStep' \in {1, localStep} /\ trainerVersion' \in {trainerVersion, trainerVersion + 1}
      BY <2>9 DEF FinalWait
    <3>3. trainer' \in {"waitValid", "finished"} /\ finalSync' \in BOOLEAN
      BY <2>9 DEF FinalWait
    <3>4. UNCHANGED <<batch, trained, syncVars>> /\ logged' \in Nat
      BY <2>1, <2>9 DEF FinalWait
    <3>5. QED
      BY <3>1, <3>2, <3>3, <3>4
  <2>10. QED
    BY <2>2, <2>3, <2>4, <2>5, <2>6, <2>7, <2>8, <2>9 DEF Trainer
<1>5. QED
  BY <1>1, <1>2, <1>3, <1>4, TypesKept DEF TypeInv, TypeOK

\* sync_weights up to the first call of the rollouter.
LEMMA TypeSyncStep ==
    ASSUME TypeInv, LockInv', SyncStep
    PROVE  TypeInv'
<1>1. UNCHANGED <<feedVars, taskVars, procVars, flagVars, syncVars, trainerVars>>
  BY DEF SyncStep, TellQueue
<1>2. ControlTypeOK'
  BY DEF SyncStep, TellQueue, TypeInv, TypeOK, ControlTypeOK
<1>3. MQ!MQTypeOK'
  BY DEF SyncStep, TellQueue, MQ!UpdateVersion, MQ!counters, TypeInv, TypeOK, TrainerTypeOK,
         MQ!MQTypeOK
<1>4. QED
  BY <1>1, <1>2, <1>3, TypesKept DEF TypeInv, TypeOK

\* The state in which both fit methods start is of the right type.
LEMMA TypeInit == Init => TypeInv
<1> HAVE Init
<1> USE DEF Init
<1>1. /\ {TotalRolloutSteps, TriggerSyncStep} \subseteq Nat \ {0}
      /\ MaxRequiredSamples \in Nat \ {0}
  BY RollouterAssumption
<1>2. FeedTypeOK
  BY <1>1 DEF RollouterInit, FeedTypeOK, Samples
<1>3. TaskTypeOK /\ IsFiniteSet(delivering)
  <2>1. cancelQueue \in Seq(Samples)
    BY EmptyFacts DEF RollouterInit
  <2>2. QED
    BY <2>1, FS_EmptySet DEF RollouterInit, TaskTypeOK
<1>4. ProcTypeOK /\ InHandOK
  BY DEF RollouterInit, ProcTypeOK, InHandOK
<1>5. FlagTypeOK /\ ControlTypeOK
  BY LockInit DEF RollouterInit, FlagTypeOK, ControlTypeOK, Versions, LockInv
<1>6. TrainerTypeOK
  <2>1. batch \in Seq([id : Samples, ver : Versions])
    BY EmptyFacts DEF TrainerInit
  <2>2. 1 \in 1 .. TriggerSyncStep
    BY <1>1
  <2>3. QED
    BY <2>1, <2>2 DEF SyncInit, TrainerInit, TrainerTypeOK, Versions
<1>7. MQ!MQTypeOK
  BY <1>1 DEF MQ!MQTypeOK, Versions
<1>8. QED
  BY <1>2, <1>3, <1>4, <1>5, <1>6, <1>7, LockInit DEF TypeInv, TypeOK

\* Every step of the run keeps the types.
LEMMA TypeStep == TypeInv /\ [Next]_vars => TypeInv'
<1> SUFFICES ASSUME TypeInv, [Next]_vars PROVE TypeInv'
  OBVIOUS
<1>1. LockInv'
  BY LockStep DEF TypeInv
<1>2. CASE RollouterStep
  BY <1>1, <1>2, TypeFeeder, TypeSampleTask, TypeProcessor, TypeMonitor, TypeMain,
     TypeRemoteCall DEF RollouterStep, Others
<1>3. CASE SyncStep
  BY <1>1, <1>3, TypeSyncStep
<1>4. CASE Trainer
  BY <1>1, <1>4, TypeTrainer
<1>5. CASE CleanUp
  BY <1>1, <1>5, TypesKept, TypeQueue DEF CleanUp, rollouterVars, TypeInv, TypeOK
<1>6. CASE UNCHANGED vars
  BY <1>1, <1>6, TypesKept DEF vars, rollouterVars, queueVars, TypeInv, TypeOK
<1>7. QED
  BY <1>2, <1>3, <1>4, <1>5, <1>6 DEF Next, Terminated

\* So they hold throughout.
LEMMA TypeInvariant == Spec => []TypeInv
  BY TypeInit, TypeStep, PTL DEF Spec

\* Every variable of the run keeps its type, and the message queue never
\* exceeds max_required_samples.
THEOREM TypeCorrect == Spec => []TypeOK
<1>1. TypeInv => TypeOK
  BY DEF TypeInv
<1>2. QED
  BY <1>1, TypeInvariant, PTL

-----------------------------------------------------------------------------
(* pause() *)

\* The tasks only grow by SubmitSample, which needs the lock that pause()
\* holds while it gathers them.
THEOREM PauseGathersAll == Spec => GatherIsComplete
<1>1. ASSUME LockInv, [Next]_vars, call = "gather"
      PROVE  /\ generating' \subseteq generating
             /\ call' # "gather" => generating' = {} /\ delivering' = {}
  <2>1. Holds("sync")
    BY <1>1 DEF LockInv, Waits, Coroutines
  <2>2. ~SubmitSample
    BY <2>1 DEF SubmitSample, Holds
  <2>3. CASE Feeder \/ Monitor \/ Main \/ SyncStep \/ Trainer \/ CleanUp \/ UNCHANGED vars
    BY <1>1, <2>3
       DEF Feeder, FeedSample, FeedDone, Monitor, MonitorCheck, MonitorTick, MonitorReset, Main,
           PutEndSignal, StopRunning, SyncStep, TellQueue, Trainer, StartFit, WaitForQueue,
           CollectSample, CollectEndSignal, TrainBatch, CallSync, BeginSync, EndSync,
           TransferWeights, LogStep, FinalWait, LastWait, CleanUp, vars, rollouterVars,
           taskVars, callVars
  <2>4. CASE SampleTask
    BY <1>1, <2>4
       DEF SampleTask, EndGeneration, Deliver, FinishGeneration, CancelGeneration,
           FailGeneration, DeliverSample, callVars
  <2>5. CASE Processor
    BY <1>1, <2>2, <2>5
       DEF Processor, DecideToPause, SetPaused, BeginWait, EndWait, Park, Reacquire,
           TakeFromCancelQueue, AwaitPending, TakeFromPendingQueue, taskVars, callVars
  <2>6. CASE RemoteCall
    BY <1>1, <2>6
       DEF RemoteCall, PauseBegin, PauseEnd, AllDone, CallArrives, UpdateBegin, ResetStaleness,
           ReportValidation, Resume, taskVars
  <2>7. QED
    BY <1>1, <2>3, <2>4, <2>5, <2>6 DEF Next, RollouterStep, Terminated
<1>2. LockInv /\ [Next]_vars =>
        [call = "gather" => /\ generating' \subseteq generating
                            /\ call' # "gather" => generating' = {} /\ delivering' = {}]_vars
  BY <1>1
<1>3. QED
  BY <1>2, LockInvariant, PTL DEF Spec, GatherIsComplete

-----------------------------------------------------------------------------
(* Versions *)

\* How far a synchronization has come is told by what already has its version.
VersionInv ==
    /\ trainer = "syncing" <=> call \in {"pauseLock", "gather", "paused", "transfer"}
    /\ rollVersion = IF call \in {"pauseLock", "gather", "paused", "transfer", "updateSent",
                                  "updateLock"}
                     THEN syncVersion - 1 ELSE syncVersion
    /\ weightVersion = IF call \in {"pauseLock", "gather", "paused", "transfer"}
                       THEN syncVersion - 1 ELSE syncVersion
    /\ mqVersion = IF call \in {"pauseLock", "gather", "paused"}
                   THEN syncVersion - 1 ELSE syncVersion
    /\ trainerVersion = syncVersion + (IF trainer = "waitValid" THEN 1 ELSE 0)

versionVars == <<trainer, call, rollVersion, weightVersion, mqVersion, syncVersion,
                 trainerVersion>>

\* A step that moves none of the versions and none of their carriers.
LEMMA VersionUntouched ==
    ASSUME VersionInv, UNCHANGED versionVars
    PROVE  VersionInv'
  BY DEF VersionInv, versionVars

\* The message queue's own steps leave its version alone.
LEMMA QueueVersionKept ==
    ASSUME \/ \E x \in Entry : MQ!PutSample(x) \/ MQ!GetSample("trainer", x)
           \/ MQ!GetSample("trainer", Head(queue))
           \/ MQ!WaitForSample("trainer") \/ MQ!PutValidate(rollVersion) \/ MQ!GetValidate
           \/ MQ!ClearQueue \/ UNCHANGED queueVars
    PROVE  mqVersion' = mqVersion
  BY DEF MQ!PutSample, MQ!GetSample, MQ!WaitForSample, MQ!PutValidate, MQ!GetValidate,
         MQ!ClearQueue, queueVars

\* The calls hand the version on, one actor at a time.
LEMMA VersionRemoteCall ==
    ASSUME TypeInv, VersionInv, RemoteCall, Others
    PROVE  VersionInv'
<1>1. UNCHANGED <<trainer, weightVersion, syncVersion, trainerVersion>>
  BY DEF Others, syncVars, trainerVars
<1>2. mqVersion' = mqVersion
  BY QueueVersionKept
     DEF RemoteCall, PauseBegin, PauseEnd, CallArrives, UpdateBegin, ResetStaleness,
         ReportValidation, Resume
<1>3. syncVersion \in Nat
  BY DEF TypeInv, TypeOK, TrainerTypeOK, Versions
<1>4. CASE PauseBegin
  BY <1>1, <1>2, <1>4 DEF PauseBegin, VersionInv
<1>5. CASE PauseEnd
  BY <1>1, <1>2, <1>5 DEF PauseEnd, VersionInv
<1>6. CASE CallArrives
  BY <1>1, <1>2, <1>6 DEF CallArrives, VersionInv, flagVars
<1>7. CASE UpdateBegin(syncVersion)
  BY <1>1, <1>2, <1>3, <1>7 DEF UpdateBegin, VersionInv
<1>8. CASE ResetStaleness
  BY <1>1, <1>2, <1>8 DEF ResetStaleness, VersionInv
<1>9. CASE ReportValidation
  BY <1>1, <1>2, <1>9 DEF ReportValidation, VersionInv, flagVars
<1>10. CASE Resume
  BY <1>1, <1>2, <1>10 DEF Resume, VersionInv
<1>11. QED
  BY <1>4, <1>5, <1>6, <1>7, <1>8, <1>9, <1>10 DEF RemoteCall

\* The trainer starts a new version only when the last one has arrived.
LEMMA VersionTrainer ==
    ASSUME TypeInv, VersionInv, Trainer
    PROVE  VersionInv'
<1>1. syncVersion \in Nat /\ trainerVersion \in Nat
  BY DEF TypeInv, TypeOK, TrainerTypeOK, Versions
<1>2. mqVersion' = mqVersion
  BY QueueVersionKept
     DEF Trainer, StartFit, WaitForQueue, CollectSample, CollectEndSignal, TrainBatch, CallSync,
         BeginSync, EndSync, TransferWeights, LogStep, FinalWait, LastWait, LogValidation
<1>3. CASE StartFit \/ WaitForQueue \/ CollectSample \/ CollectEndSignal \/ LogStep \/ LastWait
  BY <1>2, <1>3
     DEF StartFit, WaitForQueue, CollectSample, CollectEndSignal, LogStep, LastWait,
         VersionInv, rollouterVars, trainerVars, syncVars, callVars, flagVars
<1>4. CASE TrainBatch
  BY <1>1, <1>2, <1>4 DEF TrainBatch, VersionInv, rollouterVars, syncVars, callVars, flagVars
<1>5. CASE CallSync
  BY <1>1, <1>2, <1>5 DEF CallSync, BeginSync, VersionInv, flagVars
<1>6. CASE EndSync
  BY <1>1, <1>2, <1>6 DEF EndSync, TransferWeights, VersionInv, flagVars
<1>7. CASE FinalWait
  BY <1>1, <1>2, <1>7 DEF FinalWait, VersionInv, rollouterVars, syncVars, callVars, flagVars
<1>8. QED
  BY <1>3, <1>4, <1>5, <1>6, <1>7 DEF Trainer

\* Nobody else touches a version.
LEMMA VersionOther ==
    ASSUME VersionInv,
           \/ (Feeder \/ SampleTask \/ Processor \/ Monitor \/ Main) /\ Others
           \/ CleanUp \/ UNCHANGED vars
    PROVE  VersionInv'
<1>1. CASE (Feeder \/ SampleTask) /\ Others
  BY <1>1, VersionUntouched
     DEF Feeder, FeedSample, FeedDone, SampleTask, EndGeneration, Deliver, FinishGeneration,
         CancelGeneration, FailGeneration, DeliverSample, MQ!PutSample, Others, versionVars,
         flagVars, callVars, queueVars, syncVars, trainerVars
<1>2. CASE (Processor \/ Monitor \/ Main) /\ Others
  BY <1>2, VersionUntouched
     DEF Processor, DecideToPause, SetPaused, BeginWait, EndWait, Park, Reacquire,
         TakeFromCancelQueue, AwaitPending, TakeFromPendingQueue, SubmitSample, Monitor,
         MonitorCheck, MonitorTick, MonitorReset, Main, PutEndSignal, StopRunning,
         MQ!PutSample, Others, versionVars, flagVars, callVars, queueVars, syncVars, trainerVars
<1>3. CASE CleanUp
  BY <1>3, VersionUntouched, QueueVersionKept
     DEF CleanUp, versionVars, rollouterVars, flagVars, callVars, syncVars, trainerVars
<1>4. CASE UNCHANGED vars
  BY <1>4, VersionUntouched
     DEF vars, versionVars, rollouterVars, flagVars, callVars, queueVars, syncVars, trainerVars
<1>5. QED
  BY <1>1, <1>2, <1>3, <1>4

\* Version 0 is everywhere at the start.
LEMMA VersionInit == Init => VersionInv
  BY DEF Init, RollouterInit, SyncInit, TrainerInit, VersionInv

\* Every step keeps the exact place of every version.
LEMMA VersionStep == TypeInv /\ VersionInv /\ [Next]_vars => VersionInv'
<1> SUFFICES ASSUME TypeInv, VersionInv, [Next]_vars PROVE VersionInv'
  OBVIOUS
<1>1. CASE SyncStep
  BY <1>1 DEF SyncStep, TellQueue, MQ!UpdateVersion, VersionInv, syncVars, trainerVars, flagVars
<1>2. QED
  BY <1>1, VersionRemoteCall, VersionTrainer, VersionOther
     DEF Next, RollouterStep, Terminated, Others

\* No version overtakes another: synchronizer, message queue, servers and
\* rollouter adopt a version in this order, one version at a time.
THEOREM VersionsAreInOrder == Spec => []VersionsInOrder
<1>1. TypeInv /\ VersionInv => VersionsInOrder
  <2> SUFFICES ASSUME TypeInv, VersionInv PROVE VersionsInOrder
    OBVIOUS
  <2>1. syncVersion \in Nat
    BY DEF TypeInv, TypeOK, TrainerTypeOK, Versions
  <2>2. QED
    BY <2>1 DEF VersionInv, VersionsInOrder
<1>2. QED
  BY <1>1, VersionInit, VersionStep, TypeInvariant, PTL DEF Spec

-----------------------------------------------------------------------------
(* The concurrency limit *)

ConcurrencyInv ==
    /\ ActiveTasks <= MaxConcurrentSamples
    /\ processor \in {"submitLock", "submitParked", "submitWoken"} =>
           ActiveTasks < MaxConcurrentSamples

\* Adding an element to a finite set, and taking one out.
LEMMA CardinalityFacts ==
    ASSUME NEW S, IsFiniteSet(S), NEW x
    PROVE  /\ Cardinality(S) \in Nat
           /\ Cardinality(S \cup {x}) \in Nat
           /\ Cardinality(S \cup {x}) <= Cardinality(S) + 1
           /\ x \in S => Cardinality(S \ {x}) = Cardinality(S) - 1
<1>1. Cardinality(S) \in Nat
  BY FS_CardinalityType
<1>2. \/ Cardinality(S \cup {x}) = Cardinality(S)
      \/ Cardinality(S \cup {x}) = Cardinality(S) + 1
  BY FS_AddElement
<1>3. x \in S => Cardinality(S \ {x}) = Cardinality(S) - 1
  BY FS_RemoveElement
<1>4. QED
  BY <1>1, <1>2, <1>3

\* Whatever ends in a task, none is added.
LEMMA TaskStepsAddNone ==
    ASSUME TypeInv, SampleTask
    PROVE  ActiveTasks' <= ActiveTasks /\ processor' = processor
<1>1. /\ IsFiniteSet(generating) /\ IsFiniteSet(delivering) /\ unreaped \in Nat
      /\ Cardinality(generating) \in Nat /\ Cardinality(delivering) \in Nat
  BY SamplesFinite, FS_CardinalityType DEF TypeInv, TypeOK, TaskTypeOK
<1>2. processor' = processor
  BY DEF SampleTask, EndGeneration, Deliver, FinishGeneration, CancelGeneration,
         FailGeneration, DeliverSample, procVars
<1>3. CASE \E s \in Samples : FinishGeneration(s)
  <2>1. PICK s \in generating : /\ generating' = generating \ {s} /\ unreaped' = unreaped
                                /\ delivering' = delivering \cup {Finished(s)}
    BY <1>3 DEF FinishGeneration
  <2>2. /\ Cardinality(generating') = Cardinality(generating) - 1
        /\ Cardinality(delivering') <= Cardinality(delivering) + 1
        /\ Cardinality(delivering') \in Nat
    BY <1>1, <2>1, CardinalityFacts
  <2>3. QED
    BY <1>1, <1>2, <2>1, <2>2 DEF ActiveTasks
<1>4. CASE \E s \in Samples : CancelGeneration(s) \/ FailGeneration(s)
  <2>1. PICK s \in generating : /\ generating' = generating \ {s} /\ delivering' = delivering
                                /\ unreaped' = unreaped + 1
    BY <1>4 DEF CancelGeneration, FailGeneration
  <2>2. Cardinality(generating') = Cardinality(generating) - 1
    BY <1>1, <2>1, CardinalityFacts
  <2>3. QED
    BY <1>1, <1>2, <2>1, <2>2 DEF ActiveTasks
<1>5. CASE Deliver
  <2>1. PICK e \in delivering : /\ delivering' = delivering \ {e} /\ generating' = generating
                                /\ unreaped' = unreaped + 1
    BY <1>5 DEF Deliver, DeliverSample
  <2>2. Cardinality(delivering') = Cardinality(delivering) - 1
    BY <1>1, <2>1, CardinalityFacts
  <2>3. QED
    BY <1>1, <1>2, <2>1, <2>2 DEF ActiveTasks
<1>6. QED
  BY <1>3, <1>4, <1>5 DEF SampleTask, EndGeneration

\* Steps that leave the processor where it is, or wake it, and add no task.
LEMMA ConcurrencyKept ==
    ASSUME TypeInv, TypeInv', ConcurrencyInv, ActiveTasks' <= ActiveTasks,
           \/ processor' = processor
           \/ processor = "submitParked" /\ processor' = "submitWoken"
           \/ processor' \notin {"submitLock", "submitParked", "submitWoken"}
    PROVE  ConcurrencyInv'
<1>1. ActiveTasks \in Nat
  BY ActiveTasksCounted
<1>2. ActiveTasks' \in Nat
  <2>1. Cardinality(generating') \in Nat
    BY SamplesFinite DEF TypeInv, TypeOK, TaskTypeOK
  <2>2. Cardinality(delivering') \in Nat
    BY FS_CardinalityType DEF TypeInv
  <2>3. unreaped' \in Nat
    BY DEF TypeInv, TypeOK, TaskTypeOK
  <2>4. QED
    BY <2>1, <2>2, <2>3 DEF ActiveTasks
<1>3. QED
  BY <1>1, <1>2, RollouterAssumption DEF ConcurrencyInv

\* Between its test of the limit and its submission the processor is the only
\* one that could add a task, and it adds none.
LEMMA ConcurrencyProcessor ==
    ASSUME TypeInv, TypeInv', ConcurrencyInv, Processor
    PROVE  ConcurrencyInv'
<1>1. /\ ActiveTasks \in Nat /\ MaxConcurrentSamples \in Nat \ {0}
      /\ Cardinality(generating) \in Nat /\ Cardinality(delivering) \in Nat
      /\ unreaped \in Nat /\ IsFiniteSet(generating)
  BY ActiveTasksCounted, RollouterAssumption, SamplesFinite, FS_CardinalityType
     DEF TypeInv, TypeOK, TaskTypeOK
<1>2. CASE DecideToPause \/ SetPaused \/ Park \/ Reacquire \/ AwaitPending
  <2>1. ActiveTasks' = ActiveTasks
    BY <1>2 DEF DecideToPause, SetPaused, Park, Reacquire, AwaitPending, taskVars, ActiveTasks
  <2>2. QED
    BY <1>1, <1>2, <2>1
       DEF DecideToPause, SetPaused, Park, Reacquire, AwaitPending, ConcurrencyInv
<1>3. CASE TakeFromCancelQueue \/ TakeFromPendingQueue
  <2>1. ActiveTasks' = ActiveTasks
    BY <1>3 DEF TakeFromCancelQueue, TakeFromPendingQueue, taskVars, ActiveTasks
  <2>2. QED
    BY <1>1, <1>3, <2>1
       DEF TakeFromCancelQueue, TakeFromPendingQueue, ToSubmit, ConcurrencyInv
<1>4. CASE BeginWait
  <2>1. ActiveTasks' = ActiveTasks
    BY <1>4 DEF BeginWait, taskVars, ActiveTasks
  <2>2. QED
    BY <1>1, <1>4, <2>1 DEF BeginWait, WaitLocks, Waiting, GoTo, AfterWait, ConcurrencyInv
<1>5. CASE EndWait
  <2>1. ActiveTasks' = Cardinality(generating) + Cardinality(delivering)
    BY <1>1, <1>5 DEF EndWait, ActiveTasks
  <2>2. ActiveTasks' <= ActiveTasks
    BY <1>1, <2>1 DEF ActiveTasks
  <2>3. processor' = "submitLock" => ActiveTasks' < MaxConcurrentSamples
    BY <1>1, <1>5, <2>1 DEF EndWait, GoTo, AfterWait
  <2>4. processor' \notin {"submitParked", "submitWoken"}
    BY <1>5 DEF EndWait, GoTo, AfterWait
  <2>5. QED
    BY <1>1, <2>1, <2>2, <2>3, <2>4 DEF ConcurrencyInv
<1>6. CASE SubmitSample
  <2>1. CASE paused
    <3>1. ActiveTasks' = ActiveTasks /\ processor = "submitLock"
      BY <1>6, <2>1 DEF SubmitSample, ActiveTasks
    <3>2. QED
      BY <1>1, <3>1 DEF ConcurrencyInv
  <2>2. CASE ~paused
    <3>1. /\ processor = "submitLock" /\ processor' = "top"
          /\ generating' = generating \cup {inHand}
          /\ delivering' = delivering /\ unreaped' = unreaped
      BY <1>6, <2>2 DEF SubmitSample
    <3>2. /\ Cardinality(generating') \in Nat
          /\ Cardinality(generating') <= Cardinality(generating) + 1
      BY <1>1, <3>1, CardinalityFacts
    <3>3. ActiveTasks' <= ActiveTasks + 1 /\ ActiveTasks' \in Nat
      BY <1>1, <3>1, <3>2 DEF ActiveTasks
    <3>4. QED
      BY <1>1, <3>1, <3>3 DEF ConcurrencyInv
  <2>3. QED
    BY <2>1, <2>2
<1>7. QED
  BY <1>2, <1>3, <1>4, <1>5, <1>6 DEF Processor

\* Every step keeps the limit.
LEMMA ConcurrencyStep == TypeInv /\ ConcurrencyInv /\ [Next]_vars => ConcurrencyInv'
<1> SUFFICES ASSUME TypeInv, ConcurrencyInv, [Next]_vars PROVE ConcurrencyInv'
  OBVIOUS
<1>1. TypeInv' /\ ActiveTasks \in Nat
  BY TypeStep, ActiveTasksCounted
<1>2. CASE SampleTask
  BY <1>1, <1>2, TaskStepsAddNone, ConcurrencyKept
<1>3. CASE Processor
  BY <1>1, <1>3, ConcurrencyProcessor
<1>4. CASE PauseEnd
  <2>1. ActiveTasks' <= ActiveTasks
    <3>1. /\ Cardinality(generating) \in Nat /\ Cardinality(delivering) \in Nat
          /\ unreaped \in Nat
      BY SamplesFinite, FS_CardinalityType DEF TypeInv, TypeOK, TaskTypeOK
    <3>2. QED
      BY <1>4, <3>1 DEF PauseEnd, ActiveTasks
  <2>2. QED
    BY <1>1, <1>4, <2>1, ConcurrencyKept DEF PauseEnd, procVars
<1>5. CASE \/ Feeder \/ Monitor \/ Main \/ (RemoteCall /\ ~PauseEnd)
           \/ SyncStep \/ Trainer \/ CleanUp \/ UNCHANGED vars
  <2>1. UNCHANGED taskVars
    BY <1>5
       DEF Feeder, FeedSample, FeedDone, Monitor, MonitorCheck, MonitorTick, MonitorReset, Main,
           PutEndSignal, StopRunning, RemoteCall, PauseBegin, CallArrives, UpdateBegin,
           ResetStaleness, ReportValidation, Resume, SyncStep, TellQueue, Trainer, StartFit,
           WaitForQueue, CollectSample, CollectEndSignal, TrainBatch, CallSync, BeginSync,
           EndSync, TransferWeights, LogStep, FinalWait, LastWait, CleanUp, vars, rollouterVars
  <2>2. \/ processor' = processor
        \/ processor = "submitParked" /\ processor' = "submitWoken"
        \/ processor' = "parkWoken"
    BY <1>5
       DEF Feeder, FeedSample, FeedDone, Monitor, MonitorCheck, MonitorTick, MonitorReset, Main,
           PutEndSignal, StopRunning, RemoteCall, PauseBegin, CallArrives, UpdateBegin,
           ResetStaleness, ReportValidation, Resume, SyncStep, TellQueue, Trainer, StartFit,
           WaitForQueue, CollectSample, CollectEndSignal, TrainBatch, CallSync, BeginSync,
           EndSync, TransferWeights, LogStep, FinalWait, LastWait, CleanUp, vars, rollouterVars,
           procVars, NotifyAll
  <2>3. ActiveTasks' <= ActiveTasks
    BY <1>1, <2>1 DEF taskVars, ActiveTasks
  <2>4. QED
    BY <1>1, <2>2, <2>3, ConcurrencyKept
<1>6. QED
  BY <1>2, <1>3, <1>4, <1>5 DEF Next, RollouterStep, Terminated

\* Although the limit is looked at before the lock is asked for, the tasks
\* never outnumber max_concurrent_samples.
THEOREM ConcurrencyIsBounded == Spec => []ConcurrencyBounded
<1>1. Init => ConcurrencyInv
  BY FS_EmptySet, RollouterAssumption DEF Init, RollouterInit, ConcurrencyInv, ActiveTasks
<1>2. ConcurrencyInv => ConcurrencyBounded
  BY DEF ConcurrencyInv, ConcurrencyBounded
<1>3. QED
  BY <1>1, <1>2, ConcurrencyStep, TypeInvariant, PTL DEF Spec


-----------------------------------------------------------------------------
(* Sequences of entries with different ids *)

DistinctIds(seq) == \A i, j \in DOMAIN seq : seq[i].id = seq[j].id => i = j

\* A newcomer at the end.
LEMMA AppendIds ==
    ASSUME NEW S, NEW seq \in Seq(S), NEW x \in S, DistinctIds(seq),
           x.id \notin SampleIds(seq)
    PROVE  /\ DistinctIds(Append(seq, x))
           /\ SampleIds(Append(seq, x)) = SampleIds(seq) \cup {x.id}
<1> DEFINE new == Append(seq, x)
<1>1. /\ new \in Seq(S) /\ Len(seq) \in Nat /\ Len(new) = Len(seq) + 1
      /\ \A i \in 1 .. Len(new) : new[i] = IF i <= Len(seq) THEN seq[i] ELSE x
  BY AppendFacts
<1>2. DOMAIN new = 1 .. Len(seq) + 1 /\ DOMAIN seq = 1 .. Len(seq)
  BY <1>1
<1> HIDE DEF new
<1>3. \A k \in 1 .. Len(seq) : seq[k].id # x.id
  BY <1>2 DEF SampleIds
<1>4. DistinctIds(new)
  <2> SUFFICES ASSUME NEW i \in DOMAIN new, NEW j \in DOMAIN new, new[i].id = new[j].id
               PROVE  i = j
    BY DEF DistinctIds
  <2>1. CASE i <= Len(seq) /\ j <= Len(seq)
    BY <1>1, <1>2, <2>1 DEF DistinctIds
  <2>2. CASE i = Len(seq) + 1 \/ j = Len(seq) + 1
    BY <1>1, <1>2, <1>3, <2>2
  <2>3. QED
    BY <1>1, <1>2, <2>1, <2>2
<1>5. SampleIds(new) = SampleIds(seq) \cup {x.id}
  <2>1. ASSUME NEW y \in SampleIds(new) PROVE y \in SampleIds(seq) \cup {x.id}
    BY <1>1, <1>2, <2>1 DEF SampleIds
  <2>2. ASSUME NEW y \in SampleIds(seq) PROVE y \in SampleIds(new)
    <3>1. PICK i \in 1 .. Len(seq) : y = seq[i].id
      BY <1>2 DEF SampleIds
    <3>2. i \in 1 .. Len(new) /\ new[i].id = y
      BY <1>1, <3>1
    <3>3. QED
      BY <1>1, <1>2, <3>2 DEF SampleIds
  <2>3. x.id \in SampleIds(new)
    BY <1>1, <1>2 DEF SampleIds
  <2>4. QED
    BY <2>1, <2>2, <2>3
<1>6. QED
  BY <1>4, <1>5 DEF new

\* The head leaves.
LEMMA TailIds ==
    ASSUME NEW S, NEW seq \in Seq(S), seq # <<>>, DistinctIds(seq)
    PROVE  /\ DistinctIds(Tail(seq))
           /\ SampleIds(Tail(seq)) = SampleIds(seq) \ {Head(seq).id}
           /\ Head(seq).id \in SampleIds(seq)
<1> DEFINE rest == Tail(seq)
<1>1. /\ rest \in Seq(S) /\ Head(seq) = seq[1]
      /\ Len(seq) \in Nat \ {0} /\ Len(rest) = Len(seq) - 1
      /\ \A i \in 1 .. Len(rest) : rest[i] = seq[i + 1]
  BY TailFacts
<1>2. DOMAIN rest = 1 .. Len(seq) - 1 /\ DOMAIN seq = 1 .. Len(seq)
  BY <1>1
<1> HIDE DEF rest
<1>3. DistinctIds(rest)
  <2> SUFFICES ASSUME NEW i \in DOMAIN rest, NEW j \in DOMAIN rest, rest[i].id = rest[j].id
               PROVE  i = j
    BY DEF DistinctIds
  <2>1. /\ i \in Int /\ j \in Int
        /\ i \in 1 .. Len(rest) /\ j \in 1 .. Len(rest)
        /\ i + 1 \in DOMAIN seq /\ j + 1 \in DOMAIN seq
    BY <1>1, <1>2
  <2>2. seq[i + 1].id = seq[j + 1].id
    BY <1>1, <2>1
  <2>3. i + 1 = j + 1
    BY <2>1, <2>2 DEF DistinctIds
  <2>4. QED
    BY <2>1, <2>3
<1>4. SampleIds(rest) = SampleIds(seq) \ {Head(seq).id}
  <2>1. ASSUME NEW y \in SampleIds(rest) PROVE y \in SampleIds(seq) \ {Head(seq).id}
    <3>1. PICK i \in 1 .. Len(rest) : y = rest[i].id
      BY <1>1, <1>2 DEF SampleIds
    <3>2. i + 1 \in DOMAIN seq /\ 1 \in DOMAIN seq /\ i + 1 # 1 /\ y = seq[i + 1].id
      BY <1>1, <1>2, <3>1
    <3>3. seq[i + 1].id # seq[1].id
      BY <3>2 DEF DistinctIds
    <3>4. QED
      BY <1>1, <3>2, <3>3 DEF SampleIds
  <2>2. ASSUME NEW y \in SampleIds(seq) \ {Head(seq).id} PROVE y \in SampleIds(rest)
    <3>1. PICK i \in 1 .. Len(seq) : y = seq[i].id
      BY <1>2 DEF SampleIds
    <3>2. i # 1
      BY <1>1, <3>1
    <3>3. i - 1 \in 1 .. Len(rest) /\ rest[i - 1] = seq[i]
      BY <1>1, <3>2
    <3>4. QED
      BY <1>1, <1>2, <3>1, <3>3 DEF SampleIds
  <2>3. QED
    BY <2>1, <2>2
<1>5. Head(seq).id \in SampleIds(seq)
  BY <1>1, <1>2 DEF SampleIds
<1>6. QED
  BY <1>3, <1>4, <1>5 DEF rest

\* As many ids as entries.
LEMMA CountIds ==
    ASSUME NEW S, NEW seq \in Seq(S), DistinctIds(seq)
    PROVE  IsFiniteSet(SampleIds(seq)) /\ Cardinality(SampleIds(seq)) = Len(seq)
<1> DEFINE f == [i \in 1 .. Len(seq) |-> seq[i].id]
<1>1. Len(seq) \in Nat /\ DOMAIN seq = 1 .. Len(seq)
  OBVIOUS
<1>2. IsFiniteSet(1 .. Len(seq)) /\ Cardinality(1 .. Len(seq)) = Len(seq)
  BY <1>1, FS_Interval
<1>3. f \in Bijection(1 .. Len(seq), SampleIds(seq))
  <2>1. f \in [1 .. Len(seq) -> SampleIds(seq)]
    BY <1>1 DEF SampleIds
  <2>2. \A a, b \in 1 .. Len(seq) : f[a] = f[b] => a = b
    BY <1>1 DEF DistinctIds
  <2>3. \A t \in SampleIds(seq) : \E s \in 1 .. Len(seq) : f[s] = t
    BY <1>1 DEF SampleIds
  <2>4. QED
    BY <2>1, <2>2, <2>3, Fun_IsBij
<1>4. ExistsBijection(1 .. Len(seq), SampleIds(seq))
  BY <1>3, Fun_ExistsBij
<1>5. QED
  BY <1>2, <1>4, FS_Bijection

-----------------------------------------------------------------------------
(* The places of a sample *)

Kinds == {"unfed", "pending", "cancelled", "generating", "delivering", "inHand", "queued",
          "batched", "trained"}

Place(k) ==
    CASE k = "unfed" -> Unfed
      [] k = "pending" -> InPending
      [] k = "cancelled" -> InCancel
      [] k = "generating" -> generating
      [] k = "delivering" -> InDelivery
      [] k = "inHand" -> InHand
      [] k = "queued" -> InQueue
      [] k = "batched" -> InBatch
      [] k = "trained" -> trained

Apart == \A k, l \in Kinds : k # l => Place(k) \cap Place(l) = {}

\* S moves from one place to another, or is lost; in the same step the
\* samples in "dropped" are lost.
Moves(S, from, to, dropped) ==
    \A k \in Kinds :
        Place(k)' = (IF k = from THEN Place(k) \ S
                     ELSE IF k = to THEN Place(k) \cup S ELSE Place(k)) \ dropped

\* No queue holds anything twice, and the two end markers come last and once.
OnceInv ==
    /\ Distinct(pendingQueue) /\ Distinct(cancelQueue)
    /\ DistinctIds(queue) /\ DistinctIds(batch)
    /\ \A e, f \in delivering : e.id = f.id => e = f
    /\ Done \in Elems(pendingQueue) => feed = "finished"
    /\ main = "await" => EndSignal \notin SampleIds(queue)

\* Where the processor has no sample in its hand, and how far the batch is.
EmptyHanded == {"top", "pauseLock", "drainLock", "drainWait", "parkLock", "parked",
                "parkWoken", "take"}

EmptyInv ==
    /\ processor \in EmptyHanded => inHand = NoSample
    /\ trainer = "collect" => Len(batch) < RequiredSamples
    /\ trainer = "train" => Len(batch) = RequiredSamples
    /\ trainer \notin {"collect", "train"} => batch = <<>>

PlaceInv == Apart /\ OnceInv /\ EmptyInv

\* Places that stay apart when samples move between them.
LEMMA ApartKept ==
    ASSUME Apart, NEW from \in Kinds, NEW to, NEW S \in SUBSET Place(from), NEW dropped,
           Moves(S, from, to, dropped)
    PROVE  Apart'
<1> SUFFICES ASSUME NEW k \in Kinds, NEW l \in Kinds, k # l
             PROVE  Place(k)' \cap Place(l)' = {}
  BY DEF Apart
<1>1. Place(k) \cap Place(l) = {} /\ \A m \in Kinds : m # from => Place(m) \cap S = {}
  BY DEF Apart
<1>2. /\ Place(k)' \subseteq IF k = from THEN Place(k) \ S
                             ELSE IF k = to THEN Place(k) \cup S ELSE Place(k)
      /\ Place(l)' \subseteq IF l = from THEN Place(l) \ S
                             ELSE IF l = to THEN Place(l) \cup S ELSE Place(l)
  BY DEF Moves
<1>3. QED
  BY <1>1, <1>2

\* A place stays as it is when the variables it is read from do.
LEMMA PlacesKept ==
    /\ UNCHANGED <<globalSteps, feed>> => Place("unfed")' = Place("unfed")
    /\ UNCHANGED pendingQueue => Place("pending")' = Place("pending")
    /\ UNCHANGED cancelQueue => Place("cancelled")' = Place("cancelled")
    /\ UNCHANGED generating => Place("generating")' = Place("generating")
    /\ UNCHANGED delivering => Place("delivering")' = Place("delivering")
    /\ UNCHANGED inHand => Place("inHand")' = Place("inHand")
    /\ UNCHANGED queue => Place("queued")' = Place("queued")
    /\ UNCHANGED batch => Place("batched")' = Place("batched")
    /\ UNCHANGED trained => Place("trained")' = Place("trained")
  BY DEF Place, Unfed, InPending, InCancel, InDelivery, InHand, InQueue, InBatch, SampleIds

\* The places by their names.
LEMMA PlaceNames ==
    /\ Place("unfed") = Unfed /\ Place("pending") = InPending
    /\ Place("cancelled") = InCancel /\ Place("generating") = generating
    /\ Place("delivering") = InDelivery /\ Place("inHand") = InHand
    /\ Place("queued") = InQueue /\ Place("batched") = InBatch /\ Place("trained") = trained
    /\ (Place("unfed"))' = Unfed' /\ (Place("pending"))' = InPending'
    /\ (Place("cancelled"))' = InCancel' /\ (Place("generating"))' = generating'
    /\ (Place("delivering"))' = InDelivery' /\ (Place("inHand"))' = InHand'
    /\ (Place("queued"))' = InQueue' /\ (Place("batched"))' = InBatch'
    /\ (Place("trained"))' = trained'
  BY DEF Place

\* The places as the sets of elements of the queues.
LEMMA QueueElements ==
    /\ InPending = Elems(pendingQueue) \ {Done} /\ InPending' = Elems(pendingQueue') \ {Done}
    /\ InCancel = Elems(cancelQueue) /\ InCancel' = Elems(cancelQueue')
    /\ InQueue' = SampleIds(queue') \ {EndSignal} /\ InBatch' = SampleIds(batch')
  BY DEF InPending, InCancel, InQueue, InBatch, Elems, SampleIds

placeVars == <<globalSteps, feed, pendingQueue, cancelQueue, generating, delivering, inHand,
               queue, batch, trained>>

\* Nothing moves in a step that leaves them all alone.
LEMMA NothingMoves ==
    ASSUME UNCHANGED placeVars, NEW from, NEW to
    PROVE  Moves({}, from, to, {})
<1>1. \A k \in Kinds : Place(k)' = Place(k)
  BY PlacesKept DEF placeVars, Kinds
<1>2. QED
  BY <1>1 DEF Moves

-----------------------------------------------------------------------------
(* What each step moves *)

\* The feeder takes the next sample of the data set.
LEMMA FeedSampleMoves ==
    ASSUME TypeInv, PlaceInv, FeedSample, Others
    PROVE  /\ globalSteps \in Place("unfed")
           /\ Moves({globalSteps}, "unfed", "pending", {})
           /\ Distinct(pendingQueue') /\ Done \notin Elems(pendingQueue')
<1>1. /\ globalSteps \in Samples /\ TotalRolloutSteps \in Nat \ {0}
      /\ pendingQueue \in Seq(Samples \cup {Done})
  BY RollouterAssumption DEF TypeInv, TypeOK, FeedTypeOK
<1>2. globalSteps \in Unfed /\ globalSteps # Done
  BY <1>1 DEF FeedSample, Unfed, Samples, Done
<1>3. Unfed' = Unfed \ {globalSteps}
  BY <1>1 DEF FeedSample, Unfed, Samples
<1>4. globalSteps \notin Elems(pendingQueue)
  BY <1>2, QueueElements, PlaceNames DEF PlaceInv, Apart, Kinds
<1>5. /\ Distinct(pendingQueue')
      /\ Elems(pendingQueue') = Elems(pendingQueue) \cup {globalSteps}
  BY <1>1, <1>4, AppendDistinct DEF FeedSample, PlaceInv, OnceInv
<1>6. InPending' = InPending \cup {globalSteps}
  BY <1>2, <1>5, QueueElements
<1>7. Done \notin Elems(pendingQueue')
  BY <1>2, <1>5 DEF FeedSample, PlaceInv, OnceInv
<1>8. UNCHANGED <<cancelQueue, generating, delivering, inHand, queue, batch, trained>>
  BY DEF FeedSample, Others, taskVars, procVars, queueVars, trainerVars
<1>9. Moves({globalSteps}, "unfed", "pending", {})
  BY <1>3, <1>6, <1>8, PlaceNames, PlacesKept DEF Moves, Kinds
<1>10. QED
  BY <1>2, <1>5, <1>7, <1>9, PlaceNames

\* DONE is not a sample.
LEMMA FeedDoneMoves ==
    ASSUME TypeInv, PlaceInv, FeedDone, Others
    PROVE  Moves({}, "unfed", "pending", {}) /\ Distinct(pendingQueue')
<1>1. pendingQueue \in Seq(Samples \cup {Done}) /\ Done \notin Elems(pendingQueue)
  BY DEF TypeInv, TypeOK, FeedTypeOK, FeedDone, PlaceInv, OnceInv
<1>2. Distinct(pendingQueue') /\ Elems(pendingQueue') = Elems(pendingQueue) \cup {Done}
  BY <1>1, AppendDistinct DEF FeedDone, PlaceInv, OnceInv
<1>3. InPending' = InPending
  BY <1>2, QueueElements
<1>4. Unfed' = Unfed
  BY DEF FeedDone, Unfed
<1>5. UNCHANGED <<cancelQueue, generating, delivering, inHand, queue, batch, trained>>
  BY DEF FeedDone, Others, taskVars, procVars, queueVars, trainerVars
<1>6. QED
  BY <1>2, <1>3, <1>4, <1>5, PlaceNames, PlacesKept DEF Moves, Kinds

\* The end of a generation hands the sample to put_sample.
LEMMA FinishGenerationMoves ==
    ASSUME TypeInv, PlaceInv, NEW s \in Samples, FinishGeneration(s), Others
    PROVE  /\ s \in Place("generating") /\ Moves({s}, "generating", "delivering", {})
           /\ \A e, f \in delivering' : e.id = f.id => e = f
<1>1. s \in generating /\ s \notin InDelivery
  BY PlaceNames DEF FinishGeneration, PlaceInv, Apart, Kinds
<1>2. delivering' = delivering \cup {Finished(s)} /\ Finished(s).id = s
  BY DEF FinishGeneration, Finished
<1>3. InDelivery' = InDelivery \cup {s}
  BY <1>2 DEF InDelivery
<1>4. \A e, f \in delivering' : e.id = f.id => e = f
  BY <1>1, <1>2 DEF InDelivery, PlaceInv, OnceInv
<1>5. generating' = generating \ {s}
  BY DEF FinishGeneration
<1>6. UNCHANGED <<globalSteps, feed, pendingQueue, cancelQueue, inHand, queue, batch, trained>>
  BY DEF FinishGeneration, Others, feedVars, procVars, queueVars, trainerVars
<1>7. QED
  BY <1>1, <1>3, <1>4, <1>5, <1>6, PlaceNames, PlacesKept DEF Moves, Kinds

\* An interrupted generation puts its fragment into cancel_queue.
LEMMA CancelGenerationMoves ==
    ASSUME TypeInv, PlaceInv, NEW s \in Samples, CancelGeneration(s), Others
    PROVE  /\ s \in Place("generating") /\ Moves({s}, "generating", "cancelled", {})
           /\ Distinct(cancelQueue')
<1>1. s \in generating /\ s \notin Elems(cancelQueue)
  BY PlaceNames, QueueElements DEF CancelGeneration, PlaceInv, Apart, Kinds
<1>2. cancelQueue \in Seq(Samples) /\ cancelQueue' = Append(cancelQueue, s)
  BY DEF CancelGeneration, Interrupted, TypeInv, TypeOK, TaskTypeOK
<1>3. Distinct(cancelQueue') /\ Elems(cancelQueue') = Elems(cancelQueue) \cup {s}
  BY <1>1, <1>2, AppendDistinct DEF PlaceInv, OnceInv
<1>4. generating' = generating \ {s} /\ InCancel' = InCancel \cup {s}
  BY <1>3, QueueElements DEF CancelGeneration
<1>5. UNCHANGED <<globalSteps, feed, pendingQueue, delivering, inHand, queue, batch, trained>>
  BY DEF CancelGeneration, Others, feedVars, procVars, queueVars, trainerVars
<1>6. QED
  BY <1>1, <1>3, <1>4, <1>5, PlaceNames, PlacesKept DEF Moves, Kinds

\* A generation that raises loses its sample.
LEMMA FailGenerationMoves ==
    ASSUME NEW s \in Samples, FailGeneration(s), Others
    PROVE  s \in Place("generating") /\ Moves({s}, "generating", "lost", {})
<1>1. s \in generating /\ generating' = generating \ {s}
  BY DEF FailGeneration
<1>2. UNCHANGED <<globalSteps, feed, pendingQueue, cancelQueue, delivering, inHand, queue,
                  batch, trained>>
  BY DEF FailGeneration, Others, feedVars, procVars, queueVars, trainerVars
<1>3. QED
  BY <1>1, <1>2, PlaceNames, PlacesKept DEF Moves, Kinds

\* What put_sample drops from a full queue is at most one sample.
LEMMA RoomDrops ==
    ASSUME MQ!MQTypeOK, DistinctIds(queue)
    PROVE  /\ MQ!Room \in Seq(Entry) /\ DistinctIds(MQ!Room)
           /\ \E dropped : /\ dropped \subseteq SampleIds(queue)
                           /\ IsFiniteSet(dropped) /\ Cardinality(dropped) <= 1
                           /\ SampleIds(MQ!Room) = SampleIds(queue) \ dropped
<1>1. queue \in Seq(Entry) /\ MaxRequiredSamples \in Nat \ {0}
  BY RollouterAssumption DEF MQ!MQTypeOK
<1>2. CASE MQ!IsFull
  <2>1. queue # <<>>
    BY <1>1, <1>2 DEF MQ!IsFull
  <2>2. /\ Tail(queue) \in Seq(Entry) /\ DistinctIds(Tail(queue))
        /\ SampleIds(Tail(queue)) = SampleIds(queue) \ {Head(queue).id}
        /\ Head(queue).id \in SampleIds(queue)
    BY <1>1, <2>1, TailFacts, TailIds
  <2>3. IsFiniteSet({Head(queue).id}) /\ Cardinality({Head(queue).id}) = 1
    BY FS_Singleton
  <2>4. MQ!Room = Tail(queue)
    BY <1>2 DEF MQ!Room
  <2>5. QED
    BY <2>2, <2>3, <2>4
<1>3. CASE ~MQ!IsFull
  <2>1. IsFiniteSet({}) /\ Cardinality({}) = 0
    BY FS_EmptySet
  <2>2. MQ!Room = queue
    BY <1>3 DEF MQ!Room
  <2>3. QED
    BY <1>1, <2>1, <2>2
<1>4. QED
  BY <1>2, <1>3

\* put_sample of something that is not in the queue.
LEMMA PutMoves ==
    ASSUME MQ!MQTypeOK, DistinctIds(queue), NEW x \in Entry, MQ!PutSample(x),
           x.id \notin SampleIds(queue)
    PROVE  /\ DistinctIds(queue')
           /\ \E dropped : /\ dropped \subseteq SampleIds(queue)
                           /\ IsFiniteSet(dropped) /\ Cardinality(dropped) <= 1
                           /\ SampleIds(queue') = (SampleIds(queue) \ dropped) \cup {x.id}
<1>1. MQ!Room \in Seq(Entry) /\ DistinctIds(MQ!Room)
  BY RoomDrops
<1>2. PICK dropped : /\ dropped \subseteq SampleIds(queue)
                     /\ IsFiniteSet(dropped) /\ Cardinality(dropped) <= 1
                     /\ SampleIds(MQ!Room) = SampleIds(queue) \ dropped
  BY RoomDrops
<1>3. queue' = Append(MQ!Room, x)
  BY DEF MQ!PutSample
<1>4. /\ DistinctIds(Append(MQ!Room, x))
      /\ SampleIds(Append(MQ!Room, x)) = SampleIds(MQ!Room) \cup {x.id}
  BY <1>1, <1>2, AppendIds
<1>5. QED
  BY <1>2, <1>3, <1>4

\* A subset of at most one element stays one when something is taken out.
LEMMA FewerThanTwo ==
    ASSUME NEW S, IsFiniteSet(S), Cardinality(S) <= 1, NEW T \in SUBSET S
    PROVE  IsFiniteSet(T) /\ Cardinality(T) <= 1
<1>1. IsFiniteSet(T) /\ Cardinality(T) <= Cardinality(S)
  BY FS_Subset
<1>2. Cardinality(S) \in Nat /\ Cardinality(T) \in Nat
  BY <1>1, FS_CardinalityType
<1>3. QED
  BY <1>1, <1>2

\* The queue takes a finished sample, and drops its oldest if it is full.
LEMMA DeliverMoves ==
    ASSUME TypeInv, PlaceInv, NEW e \in delivering, DeliverSample(e), Others
    PROVE  /\ e.id \in Samples /\ e.id \in Place("delivering") /\ DistinctIds(queue')
           /\ EndSignal \in SampleIds(queue') => EndSignal \in SampleIds(queue)
           /\ \E dropped \in SUBSET InQueue :
                 /\ IsFiniteSet(dropped) /\ Cardinality(dropped) <= 1
                 /\ Moves({e.id}, "delivering", "queued", dropped)
<1>1. e \in Entry /\ e.id \in Samples /\ e.id # EndSignal /\ e.id \in InDelivery
  BY DEF TypeInv, TypeOK, TaskTypeOK, Entry, Samples, EndSignal, InDelivery
<1>2. e.id \notin InQueue
  BY <1>1, PlaceNames DEF PlaceInv, Apart, Kinds
<1>3. e.id \notin SampleIds(queue)
  BY <1>1, <1>2 DEF InQueue
<1>4. MQ!MQTypeOK /\ MQ!PutSample(e)
  BY DEF TypeInv, TypeOK, DeliverSample
<1>5. DistinctIds(queue')
  BY <1>1, <1>3, <1>4, PutMoves DEF PlaceInv, OnceInv
<1>6. PICK gone : /\ gone \subseteq SampleIds(queue)
                  /\ IsFiniteSet(gone) /\ Cardinality(gone) <= 1
                  /\ SampleIds(queue') = (SampleIds(queue) \ gone) \cup {e.id}
  BY <1>1, <1>3, <1>4, PutMoves DEF PlaceInv, OnceInv
<1> DEFINE dropped == gone \ {EndSignal}
<1>7. dropped \subseteq InQueue /\ IsFiniteSet(dropped) /\ Cardinality(dropped) <= 1
  <2>1. dropped \subseteq InQueue
    BY <1>6 DEF InQueue
  <2>2. QED
    BY <1>6, <2>1, FewerThanTwo
<1>8. InQueue' = (InQueue \cup {e.id}) \ dropped
  BY <1>1, <1>3, <1>6, QueueElements DEF InQueue
<1>9. InDelivery' = InDelivery \ {e.id}
  BY DEF DeliverSample, InDelivery, PlaceInv, OnceInv
<1>10. \A k \in Kinds \ {"queued"} : Place(k) \cap dropped = {}
  BY <1>7, PlaceNames DEF PlaceInv, Apart, Kinds
<1>11. UNCHANGED <<globalSteps, feed, pendingQueue, cancelQueue, generating, inHand, batch,
                   trained>>
  BY DEF DeliverSample, Others, feedVars, procVars, trainerVars
<1>12. \A k \in Kinds \ {"queued", "delivering"} : Place(k)' = Place(k)
  BY <1>11, PlacesKept DEF Kinds
<1> HIDE DEF dropped
<1>13. Moves({e.id}, "delivering", "queued", dropped)
  <2> SUFFICES ASSUME NEW k \in Kinds
               PROVE  Place(k)' = (IF k = "delivering" THEN Place(k) \ {e.id}
                                   ELSE IF k = "queued" THEN Place(k) \cup {e.id}
                                   ELSE Place(k)) \ dropped
    BY DEF Moves
  <2>1. CASE k = "queued"
    BY <1>8, <2>1, PlaceNames
  <2>2. CASE k = "delivering"
    BY <1>9, <1>10, <2>2, PlaceNames
  <2>3. CASE k \notin {"queued", "delivering"}
    BY <1>10, <1>12, <2>3
  <2>4. QED
    BY <2>1, <2>2, <2>3
<1>14. EndSignal \in SampleIds(queue') => EndSignal \in SampleIds(queue)
  BY <1>1, <1>6
<1>15. QED
  BY <1>1, <1>5, <1>7, <1>13, <1>14, PlaceNames

\* The end signal, too, can drop the oldest sample.
LEMMA PutEndSignalMoves ==
    ASSUME TypeInv, PlaceInv, PutEndSignal, Others
    PROVE  /\ DistinctIds(queue')
           /\ \E dropped \in SUBSET InQueue :
                 /\ IsFiniteSet(dropped) /\ Cardinality(dropped) <= 1
                 /\ Moves({}, "queued", "lost", dropped)
<1> DEFINE x == [id |-> EndSignal, ver |-> rollVersion]
<1>1. x \in Entry /\ x.id = EndSignal /\ x.id \notin SampleIds(queue)
  BY DEF TypeInv, TypeOK, FlagTypeOK, Entry, PlaceInv, OnceInv, PutEndSignal
<1>2. MQ!MQTypeOK /\ MQ!PutSample(x)
  BY DEF TypeInv, TypeOK, PutEndSignal
<1> HIDE DEF x
<1>3. DistinctIds(queue')
  BY <1>1, <1>2, PutMoves DEF PlaceInv, OnceInv
<1>4. PICK gone : /\ gone \subseteq SampleIds(queue)
                  /\ IsFiniteSet(gone) /\ Cardinality(gone) <= 1
                  /\ SampleIds(queue') = (SampleIds(queue) \ gone) \cup {x.id}
  BY <1>1, <1>2, PutMoves DEF PlaceInv, OnceInv
<1>5. gone \subseteq InQueue
  BY <1>1, <1>4 DEF InQueue
<1>6. InQueue' = InQueue \ gone
  BY <1>1, <1>4, QueueElements DEF InQueue
<1>7. \A k \in Kinds \ {"queued"} : Place(k) \cap gone = {}
  BY <1>5, PlaceNames DEF PlaceInv, Apart, Kinds
<1>8. UNCHANGED <<globalSteps, feed, pendingQueue, cancelQueue, generating, delivering, inHand,
                  batch, trained>>
  BY DEF PutEndSignal, Others, feedVars, taskVars, procVars, trainerVars
<1>9. \A k \in Kinds \ {"queued"} : Place(k)' = Place(k)
  BY <1>8, PlacesKept DEF Kinds
<1>10. Moves({}, "queued", "lost", gone)
  <2> SUFFICES ASSUME NEW k \in Kinds PROVE Place(k)' = Place(k) \ gone
    BY DEF Moves, Kinds
  <2>1. CASE k = "queued"
    BY <1>6, <2>1, PlaceNames
  <2>2. CASE k # "queued"
    BY <1>7, <1>9, <2>2
  <2>3. QED
    BY <2>1, <2>2
<1>11. QED
  BY <1>3, <1>4, <1>5, <1>10

\* The processor takes an interrupted sample in its empty hand.
LEMMA TakeCancelledMoves ==
    ASSUME TypeInv, PlaceInv, TakeFromCancelQueue, Others
    PROVE  /\ inHand' \in Samples /\ inHand' \in Place("cancelled")
           /\ Moves({inHand'}, "cancelled", "inHand", {}) /\ Distinct(cancelQueue')
<1>1. cancelQueue \in Seq(Samples) /\ cancelQueue # <<>> /\ inHand = NoSample
  BY DEF TypeInv, TypeOK, TaskTypeOK, TakeFromCancelQueue, PlaceInv, EmptyInv,
         EmptyHanded
<1>2. inHand' = Head(cancelQueue) /\ cancelQueue' = Tail(cancelQueue)
  BY DEF TakeFromCancelQueue
<1>3. /\ Distinct(cancelQueue') /\ Elems(cancelQueue') = Elems(cancelQueue) \ {inHand'}
      /\ inHand' \in Elems(cancelQueue) /\ inHand' \in Samples
  BY <1>1, <1>2, TailDistinct DEF PlaceInv, OnceInv
<1>4. inHand' # NoSample
  BY <1>3 DEF Samples, NoSample
<1>5. InHand' = InHand \cup {inHand'} /\ InCancel' = InCancel \ {inHand'}
  BY <1>1, <1>3, <1>4, QueueElements DEF InHand
<1>6. UNCHANGED <<globalSteps, feed, pendingQueue, generating, delivering, queue, batch,
                  trained>>
  BY DEF TakeFromCancelQueue, Others, feedVars, queueVars, trainerVars
<1>7. QED
  BY <1>3, <1>5, <1>6, QueueElements, PlaceNames, PlacesKept DEF Moves, Kinds

\* The processor takes a new sample, or DONE.
LEMMA TakePendingMoves ==
    ASSUME TypeInv, PlaceInv, TakeFromPendingQueue, Others
    PROVE  /\ Distinct(pendingQueue')
           /\ Done \in Elems(pendingQueue') => Done \in Elems(pendingQueue)
           /\ \/ /\ inHand' \in Samples /\ inHand' \in Place("pending")
                 /\ Moves({inHand'}, "pending", "inHand", {})
              \/ Moves({}, "pending", "inHand", {}) /\ UNCHANGED inHand
<1>1. pendingQueue \in Seq(Samples \cup {Done}) /\ pendingQueue # <<>> /\ inHand = NoSample
  BY DEF TypeInv, TypeOK, FeedTypeOK, TakeFromPendingQueue, PlaceInv, EmptyInv,
         EmptyHanded
<1>2. pendingQueue' = Tail(pendingQueue)
  BY DEF TakeFromPendingQueue
<1>3. /\ Distinct(pendingQueue')
      /\ Elems(pendingQueue') = Elems(pendingQueue) \ {Head(pendingQueue)}
      /\ Head(pendingQueue) \in Elems(pendingQueue) /\ Head(pendingQueue) \in Samples \cup {Done}
  BY <1>1, <1>2, TailDistinct DEF PlaceInv, OnceInv
<1>4. UNCHANGED <<globalSteps, feed, cancelQueue, generating, delivering, queue, batch,
                  trained>>
  BY DEF TakeFromPendingQueue, Others, taskVars, queueVars, trainerVars
<1>5. CASE Head(pendingQueue) # Done
  <2>1. inHand' = Head(pendingQueue) /\ inHand' \in Samples /\ inHand' # NoSample
    BY <1>3, <1>5 DEF TakeFromPendingQueue, Samples, NoSample, Done
  <2>2. /\ InHand' = InHand \cup {inHand'} /\ InPending' = InPending \ {inHand'}
        /\ inHand' \in InPending
    BY <1>1, <1>3, <1>5, <2>1, QueueElements DEF InHand
  <2>3. Moves({inHand'}, "pending", "inHand", {})
    BY <1>4, <2>2, PlaceNames, PlacesKept DEF Moves, Kinds
  <2>4. QED
    BY <1>3, <2>1, <2>2, <2>3, PlaceNames
<1>6. CASE Head(pendingQueue) = Done
  <2>1. UNCHANGED inHand /\ InPending' = InPending
    BY <1>3, <1>6, QueueElements DEF TakeFromPendingQueue
  <2>2. Moves({}, "pending", "inHand", {})
    BY <1>4, <2>1, PlaceNames, PlacesKept DEF Moves, Kinds
  <2>3. QED
    BY <1>3, <2>1, <2>2
<1>7. QED
  BY <1>5, <1>6

\* The processor submits the sample in its hand, or parks with it.
LEMMA SubmitMoves ==
    ASSUME TypeInv, PlaceInv, SubmitSample, Others
    PROVE  \/ /\ inHand \in Samples /\ inHand \in Place("inHand")
              /\ Moves({inHand}, "inHand", "generating", {})
              /\ inHand' = NoSample /\ processor' = "top"
           \/ /\ Moves({}, "inHand", "generating", {})
              /\ UNCHANGED inHand /\ processor' = "submitParked"
<1>1. inHand \in Samples /\ inHand # NoSample
  BY DEF TypeInv, InHandOK, SubmitSample, Samples, NoSample
<1>2. UNCHANGED <<globalSteps, feed, pendingQueue, cancelQueue, delivering, queue, batch,
                  trained>>
  BY DEF SubmitSample, Others, feedVars, queueVars, trainerVars
<1>3. CASE paused
  <2>1. UNCHANGED <<inHand, generating>> /\ processor' = "submitParked"
    BY <1>3 DEF SubmitSample
  <2>2. UNCHANGED placeVars
    BY <1>2, <2>1 DEF placeVars
  <2>3. QED
    BY <2>1, <2>2, NothingMoves
<1>4. CASE ~paused
  <2>1. generating' = generating \cup {inHand} /\ inHand' = NoSample /\ processor' = "top"
    BY <1>4 DEF SubmitSample
  <2>2. InHand = {inHand} /\ InHand' = {}
    BY <1>1, <2>1 DEF InHand
  <2>3. Moves({inHand}, "inHand", "generating", {})
    BY <1>2, <2>1, <2>2, PlaceNames, PlacesKept DEF Moves, Kinds
  <2>4. QED
    BY <1>1, <2>1, <2>2, <2>3, PlaceNames
<1>5. QED
  BY <1>3, <1>4

\* The trainer receives the sample at the head of the queue.
LEMMA CollectMoves ==
    ASSUME TypeInv, PlaceInv, CollectSample
    PROVE  /\ Head(queue).id \in Samples /\ Head(queue).id \in Place("queued")
           /\ Moves({Head(queue).id}, "queued", "batched", {})
           /\ DistinctIds(queue') /\ DistinctIds(batch')
           /\ EndSignal \in SampleIds(queue') => EndSignal \in SampleIds(queue)
           /\ Len(batch') = Len(batch) + 1
<1> DEFINE x == Head(queue)
<1>1. /\ queue \in Seq(Entry) /\ queue # <<>> /\ x.id # EndSignal
      /\ queue' = Tail(queue) /\ batch' = Append(batch, x)
  BY DEF TypeInv, TypeOK, MQ!MQTypeOK, CollectSample, MQ!GetSample
<1>2. x \in Entry
  BY <1>1, TailFacts
<1>3. x \in [id : Samples, ver : Versions] /\ x.id \in Samples
  BY <1>1, <1>2 DEF Entry
<1>4. /\ DistinctIds(queue') /\ SampleIds(queue') = SampleIds(queue) \ {x.id}
      /\ x.id \in SampleIds(queue)
  BY <1>1, TailIds DEF PlaceInv, OnceInv
<1> HIDE DEF x
<1>5. x.id \in InQueue /\ InQueue' = InQueue \ {x.id}
  BY <1>1, <1>4, QueueElements DEF InQueue
<1>6. x.id \notin InBatch
  BY <1>5, PlaceNames DEF PlaceInv, Apart, Kinds
<1>7. batch \in Seq([id : Samples, ver : Versions]) /\ x.id \notin SampleIds(batch)
  BY <1>6 DEF InBatch, TypeInv, TypeOK, TrainerTypeOK
<1>8. DistinctIds(batch') /\ SampleIds(batch') = SampleIds(batch) \cup {x.id}
  <2>1. DistinctIds(batch)
    BY DEF PlaceInv, OnceInv
  <2>2. batch' = Append(batch, x)
    BY <1>1
  <2> DEFINE E == [id : Samples, ver : Versions]
  <2>3. /\ DistinctIds(Append(batch, x))
        /\ SampleIds(Append(batch, x)) = SampleIds(batch) \cup {x.id}
    <3>1. batch \in Seq(E) /\ x \in E
      BY <1>3, <1>7
    <3> HIDE DEF E
    <3>2. QED
      BY <1>7, <2>1, <3>1, AppendIds
  <2>4. QED
    BY <2>2, <2>3
<1>9. InBatch' = InBatch \cup {x.id}
  BY <1>8, QueueElements DEF InBatch
<1>10. UNCHANGED <<globalSteps, feed, pendingQueue, cancelQueue, generating, delivering, inHand,
                   trained>>
  BY DEF CollectSample, rollouterVars, feedVars, taskVars, procVars
<1>11. Moves({x.id}, "queued", "batched", {})
  BY <1>5, <1>9, <1>10, PlaceNames, PlacesKept DEF Moves, Kinds
<1>12. Len(batch') = Len(batch) + 1
  BY <1>1, <1>3, <1>7, AppendFacts
<1>13. QED
  BY <1>3, <1>4, <1>5, <1>8, <1>11, <1>12, PlaceNames DEF x

\* The empty sequence has no ids and no elements.
LEMMA NoIds ==
    /\ SampleIds(<<>>) = {} /\ DistinctIds(<<>>) /\ Elems(<<>>) = {} /\ Distinct(<<>>)
  BY DEF SampleIds, DistinctIds, Elems, Distinct

\* The end signal arrives: the batch is given up.
LEMMA CollectEndMoves ==
    ASSUME TypeInv, PlaceInv, CollectEndSignal
    PROVE  /\ Moves(InBatch, "batched", "lost", {})
           /\ DistinctIds(queue') /\ batch' = <<>>
           /\ EndSignal \in SampleIds(queue') => EndSignal \in SampleIds(queue)
<1> DEFINE x == Head(queue)
<1>1. /\ queue \in Seq(Entry) /\ queue # <<>> /\ x.id = EndSignal
      /\ queue' = Tail(queue) /\ batch' = <<>>
  BY DEF TypeInv, TypeOK, MQ!MQTypeOK, CollectEndSignal, MQ!GetSample
<1>2. DistinctIds(queue') /\ SampleIds(queue') = SampleIds(queue) \ {x.id}
  BY <1>1, TailIds DEF PlaceInv, OnceInv
<1> HIDE DEF x
<1>3. InQueue' = InQueue
  BY <1>1, <1>2, QueueElements DEF InQueue
<1>4. InBatch' = {}
  BY <1>1, NoIds, QueueElements
<1>5. UNCHANGED <<globalSteps, feed, pendingQueue, cancelQueue, generating, delivering, inHand,
                  trained>>
  BY DEF CollectEndSignal, rollouterVars, feedVars, taskVars, procVars
<1>6. Moves(InBatch, "batched", "lost", {})
  BY <1>3, <1>4, <1>5, PlaceNames, PlacesKept DEF Moves, Kinds
<1>7. QED
  BY <1>1, <1>2, <1>6

\* A training step takes the whole batch.
LEMMA TrainMoves ==
    ASSUME TrainBatch
    PROVE  Moves(InBatch, "batched", "trained", {}) /\ batch' = <<>> /\ UNCHANGED queue
<1>1. batch' = <<>> /\ trained' = trained \cup InBatch
  BY DEF TrainBatch, InBatch
<1>2. InBatch' = {}
  BY <1>1, NoIds, QueueElements
<1>3. UNCHANGED <<globalSteps, feed, pendingQueue, cancelQueue, generating, delivering, inHand,
                  queue>>
  BY DEF TrainBatch, rollouterVars, feedVars, taskVars, procVars, queueVars
<1>4. QED
  BY <1>1, <1>2, <1>3, PlaceNames, PlacesKept DEF Moves, Kinds

\* The clean-up empties the queue.
LEMMA CleanUpMoves ==
    ASSUME CleanUp
    PROVE  Moves(InQueue, "queued", "lost", {}) /\ queue' = <<>>
<1>1. queue' = <<>>
  BY DEF CleanUp, MQ!ClearQueue
<1>2. InQueue' = {}
  BY <1>1, NoIds, QueueElements
<1>3. UNCHANGED <<globalSteps, feed, pendingQueue, cancelQueue, generating, delivering, inHand,
                  batch, trained>>
  BY DEF CleanUp, rollouterVars, feedVars, taskVars, procVars, trainerVars
<1>4. QED
  BY <1>1, <1>2, <1>3, PlaceNames, PlacesKept DEF Moves, Kinds

\* The steps that move no sample.
Rest ==
    \/ (DecideToPause \/ SetPaused \/ BeginWait \/ EndWait \/ Park \/ Reacquire \/ AwaitPending) /\ Others
    \/ (Monitor \/ StopRunning \/ RemoteCall) /\ Others
    \/ SyncStep \/ StartFit \/ WaitForQueue \/ CallSync \/ EndSync \/ LogStep \/ FinalWait
    \/ LastWait \/ UNCHANGED vars

\* They leave every place alone.
LEMMA RestMovesNothing == Rest => UNCHANGED placeVars
<1>1. ASSUME (DecideToPause \/ SetPaused \/ BeginWait \/ EndWait \/ Park \/ Reacquire \/ AwaitPending)
             /\ Others
      PROVE  UNCHANGED placeVars
  BY <1>1 DEF DecideToPause, SetPaused, BeginWait, EndWait, Park, Reacquire, AwaitPending,
              Others, placeVars, feedVars, taskVars, queueVars, trainerVars
<1>2. ASSUME (Monitor \/ StopRunning \/ RemoteCall) /\ Others
      PROVE  UNCHANGED placeVars
  BY <1>2 DEF Monitor, MonitorCheck, MonitorTick, MonitorReset, StopRunning, RemoteCall,
              PauseBegin, PauseEnd, CallArrives, UpdateBegin, ResetStaleness, ReportValidation,
              Resume, MQ!PutValidate, Others, placeVars, feedVars, taskVars, procVars, queueVars,
              trainerVars
<1>3. ASSUME SyncStep \/ CallSync \/ EndSync
      PROVE  UNCHANGED placeVars
  BY <1>3 DEF SyncStep, TellQueue, MQ!UpdateVersion, CallSync, BeginSync, EndSync,
              TransferWeights, placeVars, feedVars, taskVars, procVars, queueVars, trainerVars
<1>4. ASSUME StartFit \/ WaitForQueue \/ LogStep \/ FinalWait \/ LastWait
      PROVE  UNCHANGED placeVars
  BY <1>4 DEF StartFit, WaitForQueue, LogStep, FinalWait, LastWait, LogValidation,
              MQ!GetValidate, MQ!WaitForSample, placeVars, rollouterVars, feedVars, taskVars,
              procVars, trainerVars
<1>5. ASSUME UNCHANGED vars
      PROVE  UNCHANGED placeVars
  BY <1>5 DEF vars, placeVars, rollouterVars, feedVars, taskVars, procVars, queueVars,
              trainerVars
<1>6. QED
  BY <1>1, <1>2, <1>3, <1>4, <1>5 DEF Rest

\* Every step is one of those above.
LEMMA StepCases ==
    ASSUME [Next]_vars
    PROVE  \/ FeedSample /\ Others
           \/ FeedDone /\ Others
           \/ \E s \in Samples : FinishGeneration(s) /\ Others
           \/ \E s \in Samples : CancelGeneration(s) /\ Others
           \/ \E s \in Samples : FailGeneration(s) /\ Others
           \/ \E e \in delivering : DeliverSample(e) /\ Others
           \/ TakeFromCancelQueue /\ Others
           \/ TakeFromPendingQueue /\ Others
           \/ SubmitSample /\ Others
           \/ PutEndSignal /\ Others
           \/ CollectSample \/ CollectEndSignal \/ TrainBatch \/ CleanUp \/ Rest
<1>1. CASE RollouterStep
  BY <1>1 DEF RollouterStep, Others, Feeder, SampleTask, EndGeneration, Deliver, Processor,
              Main, Rest
<1>2. CASE SyncStep \/ Trainer \/ CleanUp \/ UNCHANGED vars
  BY <1>2 DEF Trainer, Rest
<1>3. QED
  BY <1>1, <1>2 DEF Next, Terminated

-----------------------------------------------------------------------------
(* Every step keeps the invariant *)

\* The places stay apart.
LEMMA ApartStep == TypeInv /\ PlaceInv /\ [Next]_vars => Apart'
<1> SUFFICES ASSUME TypeInv, PlaceInv, [Next]_vars PROVE Apart'
  OBVIOUS
<1>1. Apart
  BY DEF PlaceInv
<1>2. \A k \in Kinds : {} \subseteq Place(k)
  OBVIOUS
<1>3. CASE FeedSample /\ Others
  <2>1. {globalSteps} \in SUBSET Place("unfed") /\ Moves({globalSteps}, "unfed", "pending", {})
    BY <1>3, FeedSampleMoves
  <2>2. QED
    BY <1>1, <2>1, ApartKept DEF Kinds
<1>4. CASE FeedDone /\ Others
  <2>1. Moves({}, "unfed", "pending", {})
    BY <1>4, FeedDoneMoves
  <2>2. QED
    BY <1>1, <1>2, <2>1, ApartKept DEF Kinds
<1>5. CASE \E s \in Samples : FinishGeneration(s) /\ Others
  <2>1. PICK s \in Samples : FinishGeneration(s) /\ Others
    BY <1>5
  <2>2. {s} \in SUBSET Place("generating") /\ Moves({s}, "generating", "delivering", {})
    BY <2>1, FinishGenerationMoves
  <2>3. QED
    BY <1>1, <2>2, ApartKept DEF Kinds
<1>6. CASE \E s \in Samples : CancelGeneration(s) /\ Others
  <2>1. PICK s \in Samples : CancelGeneration(s) /\ Others
    BY <1>6
  <2>2. {s} \in SUBSET Place("generating") /\ Moves({s}, "generating", "cancelled", {})
    BY <2>1, CancelGenerationMoves
  <2>3. QED
    BY <1>1, <2>2, ApartKept DEF Kinds
<1>7. CASE \E s \in Samples : FailGeneration(s) /\ Others
  <2>1. PICK s \in Samples : FailGeneration(s) /\ Others
    BY <1>7
  <2>2. {s} \in SUBSET Place("generating") /\ Moves({s}, "generating", "lost", {})
    BY <2>1, FailGenerationMoves
  <2>3. QED
    BY <1>1, <2>2, ApartKept DEF Kinds
<1>8. CASE \E e \in delivering : DeliverSample(e) /\ Others
  <2>1. PICK e \in delivering : DeliverSample(e) /\ Others
    BY <1>8
  <2>2. PICK dropped : Moves({e.id}, "delivering", "queued", dropped)
    BY <2>1, DeliverMoves
  <2>3. {e.id} \in SUBSET Place("delivering")
    BY <2>1, DeliverMoves
  <2>4. QED
    BY <1>1, <2>2, <2>3, ApartKept DEF Kinds
<1>9. CASE TakeFromCancelQueue /\ Others
  <2>1. {inHand'} \in SUBSET Place("cancelled") /\ Moves({inHand'}, "cancelled", "inHand", {})
    BY <1>9, TakeCancelledMoves
  <2>2. QED
    BY <1>1, <2>1, ApartKept DEF Kinds
<1>10. CASE TakeFromPendingQueue /\ Others
  <2>1. \E S \in SUBSET Place("pending") : Moves(S, "pending", "inHand", {})
    BY <1>2, <1>10, TakePendingMoves
  <2>2. QED
    BY <1>1, <2>1, ApartKept DEF Kinds
<1>11. CASE SubmitSample /\ Others
  <2>1. \E S \in SUBSET Place("inHand") : Moves(S, "inHand", "generating", {})
    BY <1>2, <1>11, SubmitMoves
  <2>2. QED
    BY <1>1, <2>1, ApartKept DEF Kinds
<1>12. CASE PutEndSignal /\ Others
  <2>1. PICK dropped : Moves({}, "queued", "lost", dropped)
    BY <1>12, PutEndSignalMoves
  <2>2. QED
    BY <1>1, <1>2, <2>1, ApartKept DEF Kinds
<1>13. CASE CollectSample
  <2>1. /\ {Head(queue).id} \in SUBSET Place("queued")
        /\ Moves({Head(queue).id}, "queued", "batched", {})
    BY <1>13, CollectMoves
  <2>2. QED
    BY <1>1, <2>1, ApartKept DEF Kinds
<1>14. CASE CollectEndSignal
  <2>1. InBatch \in SUBSET Place("batched") /\ Moves(InBatch, "batched", "lost", {})
    BY <1>14, CollectEndMoves, PlaceNames
  <2>2. QED
    BY <1>1, <2>1, ApartKept DEF Kinds
<1>15. CASE TrainBatch
  <2>1. InBatch \in SUBSET Place("batched") /\ Moves(InBatch, "batched", "trained", {})
    BY <1>15, TrainMoves, PlaceNames
  <2>2. QED
    BY <1>1, <2>1, ApartKept DEF Kinds
<1>16. CASE CleanUp
  <2>1. InQueue \in SUBSET Place("queued") /\ Moves(InQueue, "queued", "lost", {})
    BY <1>16, CleanUpMoves, PlaceNames
  <2>2. QED
    BY <1>1, <2>1, ApartKept DEF Kinds
<1>17. CASE Rest
  <2>1. Moves({}, "unfed", "lost", {})
    BY <1>17, RestMovesNothing, NothingMoves
  <2>2. QED
    BY <1>1, <1>2, <2>1, ApartKept DEF Kinds
<1>18. QED
  BY <1>3, <1>4, <1>5, <1>6, <1>7, <1>8, <1>9, <1>10, <1>11, <1>12, <1>13, <1>14, <1>15,
     <1>16, <1>17, StepCases

onceVars == <<pendingQueue, cancelQueue, queue, batch, delivering, feed, main>>

\* What keeps the invariant on the queues when they are left alone.
LEMMA OnceKept ==
    ASSUME OnceInv
    PROVE  /\ UNCHANGED pendingQueue => Distinct(pendingQueue')
           /\ UNCHANGED cancelQueue => Distinct(cancelQueue')
           /\ UNCHANGED queue => DistinctIds(queue')
           /\ UNCHANGED batch => DistinctIds(batch')
           /\ UNCHANGED delivering => \A e, f \in delivering' : e.id = f.id => e = f
           /\ UNCHANGED <<pendingQueue, feed>> =>
                 (Done \in Elems(pendingQueue') => feed' = "finished")
           /\ UNCHANGED queue /\ (main' = "await" => main = "await") =>
                 (main' = "await" => EndSignal \notin SampleIds(queue'))
  BY DEF OnceInv

\* The invariant in terms of the next values.
LEMMA OncePrimed ==
    ASSUME Distinct(pendingQueue'), Distinct(cancelQueue'), DistinctIds(queue'),
           DistinctIds(batch'), \A e, f \in delivering' : e.id = f.id => e = f,
           Done \in Elems(pendingQueue') => feed' = "finished",
           main' = "await" => EndSignal \notin SampleIds(queue')
    PROVE  OnceInv'
  BY DEF OnceInv, Distinct, DistinctIds, Elems, SampleIds

\* No queue gets anything twice.
LEMMA OnceStep == TypeInv /\ PlaceInv /\ [Next]_vars => OnceInv'
<1> SUFFICES ASSUME TypeInv, PlaceInv, [Next]_vars PROVE OnceInv'
  OBVIOUS
<1>1. OnceInv
  BY DEF PlaceInv
<1>2. CASE FeedSample /\ Others
  <2>1. UNCHANGED <<cancelQueue, queue, batch, delivering, main>>
    BY <1>2 DEF FeedSample, Others, taskVars, queueVars, trainerVars
  <2>2. Distinct(pendingQueue') /\ Done \notin Elems(pendingQueue')
    BY <1>2, FeedSampleMoves
  <2>3. QED
    BY <1>1, <2>1, <2>2, OnceKept, OncePrimed
<1>3. CASE FeedDone /\ Others
  <2>1. UNCHANGED <<cancelQueue, queue, batch, delivering, main>> /\ feed' = "finished"
    BY <1>3 DEF FeedDone, Others, taskVars, queueVars, trainerVars
  <2>2. Distinct(pendingQueue')
    BY <1>3, FeedDoneMoves
  <2>3. QED
    BY <1>1, <2>1, <2>2, OnceKept, OncePrimed
<1>4. CASE \E s \in Samples : FinishGeneration(s) /\ Others
  <2>1. PICK s \in Samples : FinishGeneration(s) /\ Others
    BY <1>4
  <2>2. UNCHANGED <<pendingQueue, cancelQueue, queue, batch, feed, main>>
    BY <2>1 DEF FinishGeneration, Others, feedVars, queueVars, trainerVars
  <2>3. \A e, f \in delivering' : e.id = f.id => e = f
    BY <2>1, FinishGenerationMoves
  <2>4. QED
    BY <1>1, <2>2, <2>3, OnceKept, OncePrimed
<1>5. CASE \E s \in Samples : CancelGeneration(s) /\ Others
  <2>1. PICK s \in Samples : CancelGeneration(s) /\ Others
    BY <1>5
  <2>2. UNCHANGED <<pendingQueue, queue, batch, delivering, feed, main>>
    BY <2>1 DEF CancelGeneration, Others, feedVars, queueVars, trainerVars
  <2>3. Distinct(cancelQueue')
    BY <2>1, CancelGenerationMoves
  <2>4. QED
    BY <1>1, <2>2, <2>3, OnceKept, OncePrimed
<1>6. CASE \E s \in Samples : FailGeneration(s) /\ Others
  <2>1. UNCHANGED onceVars
    BY <1>6 DEF onceVars, FailGeneration, Others, feedVars, queueVars, trainerVars
  <2>2. QED
    BY <1>1, <2>1, OnceKept, OncePrimed DEF onceVars
<1>7. CASE \E e \in delivering : DeliverSample(e) /\ Others
  <2>1. PICK e \in delivering : DeliverSample(e) /\ Others
    BY <1>7
  <2>2. UNCHANGED <<pendingQueue, cancelQueue, batch, feed, main>>
    BY <2>1 DEF DeliverSample, Others, feedVars, trainerVars
  <2>3. DistinctIds(queue') /\ (EndSignal \in SampleIds(queue') => EndSignal \in SampleIds(queue))
    BY <2>1, DeliverMoves
  <2>4. \A a, b \in delivering' : a.id = b.id => a = b
    BY <1>1, <2>1 DEF DeliverSample, OnceInv
  <2>5. main' = "await" => EndSignal \notin SampleIds(queue')
    BY <1>1, <2>2, <2>3 DEF OnceInv
  <2>6. QED
    BY <1>1, <2>2, <2>3, <2>4, <2>5, OnceKept, OncePrimed
<1>8. CASE TakeFromCancelQueue /\ Others
  <2>1. UNCHANGED <<pendingQueue, queue, batch, delivering, feed, main>>
    BY <1>8 DEF TakeFromCancelQueue, Others, feedVars, queueVars, trainerVars
  <2>2. Distinct(cancelQueue')
    BY <1>8, TakeCancelledMoves
  <2>3. QED
    BY <1>1, <2>1, <2>2, OnceKept, OncePrimed
<1>9. CASE TakeFromPendingQueue /\ Others
  <2>1. UNCHANGED <<cancelQueue, queue, batch, delivering, feed, main>>
    BY <1>9 DEF TakeFromPendingQueue, Others, taskVars, queueVars, trainerVars
  <2>2. /\ Distinct(pendingQueue')
        /\ Done \in Elems(pendingQueue') => Done \in Elems(pendingQueue)
    BY <1>9, TakePendingMoves
  <2>3. Done \in Elems(pendingQueue') => feed' = "finished"
    BY <1>1, <2>1, <2>2 DEF OnceInv
  <2>4. QED
    BY <1>1, <2>1, <2>2, <2>3, OnceKept, OncePrimed
<1>10. CASE SubmitSample /\ Others
  <2>1. UNCHANGED onceVars
    BY <1>10 DEF onceVars, SubmitSample, Others, feedVars, queueVars, trainerVars
  <2>2. QED
    BY <1>1, <2>1, OnceKept, OncePrimed DEF onceVars
<1>11. CASE PutEndSignal /\ Others
  <2>1. UNCHANGED <<pendingQueue, cancelQueue, batch, delivering, feed>> /\ main' # "await"
    BY <1>11 DEF PutEndSignal, Others, feedVars, taskVars, trainerVars
  <2>2. DistinctIds(queue')
    BY <1>11, PutEndSignalMoves
  <2>3. QED
    BY <1>1, <2>1, <2>2, OnceKept, OncePrimed
<1>12. CASE CollectSample
  <2>1. UNCHANGED <<pendingQueue, cancelQueue, delivering, feed, main>>
    BY <1>12 DEF CollectSample, rollouterVars, feedVars, taskVars
  <2>2. /\ DistinctIds(queue') /\ DistinctIds(batch')
        /\ EndSignal \in SampleIds(queue') => EndSignal \in SampleIds(queue)
    BY <1>12, CollectMoves
  <2>3. main' = "await" => EndSignal \notin SampleIds(queue')
    BY <1>1, <2>1, <2>2 DEF OnceInv
  <2>4. QED
    BY <1>1, <2>1, <2>2, <2>3, OnceKept, OncePrimed
<1>13. CASE CollectEndSignal
  <2>1. UNCHANGED <<pendingQueue, cancelQueue, delivering, feed, main>>
    BY <1>13 DEF CollectEndSignal, rollouterVars, feedVars, taskVars
  <2>2. /\ DistinctIds(queue') /\ DistinctIds(batch')
        /\ EndSignal \in SampleIds(queue') => EndSignal \in SampleIds(queue)
    BY <1>13, CollectEndMoves, NoIds
  <2>3. main' = "await" => EndSignal \notin SampleIds(queue')
    BY <1>1, <2>1, <2>2 DEF OnceInv
  <2>4. QED
    BY <1>1, <2>1, <2>2, <2>3, OnceKept, OncePrimed
<1>14. CASE TrainBatch
  <2>1. UNCHANGED <<pendingQueue, cancelQueue, delivering, feed, main>>
    BY <1>14 DEF TrainBatch, rollouterVars, feedVars, taskVars
  <2>2. UNCHANGED queue /\ DistinctIds(batch')
    BY <1>14, TrainMoves, NoIds
  <2>3. QED
    BY <1>1, <2>1, <2>2, OnceKept, OncePrimed
<1>15. CASE CleanUp
  <2>1. UNCHANGED <<pendingQueue, cancelQueue, batch, delivering, feed, main>>
    BY <1>15 DEF CleanUp, rollouterVars, feedVars, taskVars, trainerVars
  <2>2. DistinctIds(queue') /\ SampleIds(queue') = {}
    BY <1>15, CleanUpMoves, NoIds
  <2>3. QED
    BY <1>1, <2>1, <2>2, OnceKept, OncePrimed
<1>16. CASE Rest
  <2>1. UNCHANGED <<pendingQueue, cancelQueue, queue, batch, delivering, feed>>
    BY <1>16, RestMovesNothing DEF placeVars
  <2>2. main' = "await" => main = "await"
    BY <1>16
       DEF Rest, DecideToPause, SetPaused, BeginWait, EndWait, Park, Reacquire, AwaitPending,
           Monitor, MonitorCheck, MonitorTick, MonitorReset, StopRunning, RemoteCall, PauseBegin,
           PauseEnd, CallArrives, UpdateBegin, ResetStaleness, ReportValidation, Resume, SyncStep,
           TellQueue, StartFit, WaitForQueue, CallSync, BeginSync, EndSync, TransferWeights,
           LogStep, FinalWait, LastWait, vars, rollouterVars
  <2>3. QED
    BY <1>1, <2>1, <2>2, OnceKept, OncePrimed
<1>17. QED
  BY <1>2, <1>3, <1>4, <1>5, <1>6, <1>7, <1>8, <1>9, <1>10, <1>11, <1>12, <1>13, <1>14, <1>15,
     <1>16, StepCases

\* A step of neither the processor nor the trainer.
LEMMA EmptyKept ==
    ASSUME EmptyInv, UNCHANGED <<inHand, trainer, batch>>,
           processor' \in EmptyHanded => processor \in EmptyHanded
    PROVE  EmptyInv'
  BY DEF EmptyInv

\* The processor puts the sample in its hand down before it takes another.
LEMMA EmptyProcessor ==
    ASSUME PlaceInv, Processor, Others
    PROVE  EmptyInv'
<1>1. EmptyInv /\ UNCHANGED <<trainer, batch>>
  BY DEF PlaceInv, Others, trainerVars
<1>2. CASE DecideToPause \/ SetPaused \/ Park \/ Reacquire \/ AwaitPending
  BY <1>1, <1>2
     DEF DecideToPause, SetPaused, Park, Reacquire, AwaitPending, EmptyInv, EmptyHanded
<1>3. CASE BeginWait \/ EndWait
  <2>1. UNCHANGED inHand
    BY <1>3 DEF BeginWait, EndWait
  <2>2. processor' \in EmptyHanded => processor \in EmptyHanded
    BY <1>3 DEF BeginWait, EndWait, WaitLocks, Waiting, GoTo, AfterWait, EmptyHanded
  <2>3. QED
    BY <1>1, <2>1, <2>2, EmptyKept
<1>4. CASE TakeFromCancelQueue \/ TakeFromPendingQueue
  <2>1. processor' \in {"limitLock", "submitLock", "finished", "finLock"}
    BY <1>4 DEF TakeFromCancelQueue, TakeFromPendingQueue, ToSubmit
  <2>2. QED
    BY <1>1, <2>1 DEF EmptyInv, EmptyHanded
<1>5. CASE SubmitSample
  <2>1. processor' = "submitParked" \/ inHand' = NoSample
    BY <1>5 DEF SubmitSample
  <2>2. QED
    BY <1>1, <2>1 DEF EmptyInv, EmptyHanded
<1>6. QED
  BY <1>2, <1>3, <1>4, <1>5 DEF Processor

\* The trainer trains on full batches only.
LEMMA EmptyTrainer ==
    ASSUME TypeInv, PlaceInv, Trainer
    PROVE  EmptyInv'
<1>1. EmptyInv /\ Len(batch) \in Nat /\ RequiredSamples \in Nat \ {0}
  BY RollouterAssumption DEF PlaceInv, TypeInv, TypeOK, TrainerTypeOK
<1>2. UNCHANGED <<inHand, processor>>
  BY DEF Trainer, StartFit, WaitForQueue, CollectSample, CollectEndSignal, TrainBatch, CallSync,
         BeginSync, EndSync, TransferWeights, LogStep, FinalWait, LastWait, rollouterVars, procVars
<1>3. Len(<<>>) = 0
  OBVIOUS
<1>4. CASE StartFit \/ LogStep
  BY <1>1, <1>2, <1>3, <1>4 DEF StartFit, LogStep, EmptyInv
<1>5. CASE WaitForQueue
  BY <1>1, <1>2, <1>5 DEF WaitForQueue, trainerVars, EmptyInv
<1>6. CASE CollectSample
  <2>1. Len(batch') = Len(batch) + 1
    BY <1>6, CollectMoves
  <2>2. trainer = "collect" /\ trainer' = IF BatchFull THEN "train" ELSE "collect"
    BY <1>6 DEF CollectSample
  <2>3. QED
    BY <1>1, <1>2, <2>1, <2>2 DEF EmptyInv, BatchFull
<1>7. CASE CollectEndSignal
  BY <1>1, <1>2, <1>7 DEF CollectEndSignal, EmptyInv
<1>8. CASE TrainBatch
  BY <1>1, <1>2, <1>8 DEF TrainBatch, EmptyInv
<1>9. CASE CallSync \/ EndSync
  BY <1>1, <1>2, <1>9 DEF CallSync, EndSync, EmptyInv
<1>10. CASE FinalWait \/ LastWait
  BY <1>1, <1>2, <1>10 DEF FinalWait, LastWait, EmptyInv
<1>11. QED
  BY <1>4, <1>5, <1>6, <1>7, <1>8, <1>9, <1>10 DEF Trainer

\* Nobody else moves the processor to where its hand must be empty.
LEMMA EmptyStep == TypeInv /\ PlaceInv /\ [Next]_vars => EmptyInv'
<1> SUFFICES ASSUME TypeInv, PlaceInv, [Next]_vars PROVE EmptyInv'
  OBVIOUS
<1>1. EmptyInv
  BY DEF PlaceInv
<1>2. CASE (Feeder \/ SampleTask \/ Monitor \/ Main \/ RemoteCall) /\ Others
  <2>1. UNCHANGED <<inHand, trainer, batch>>
    BY <1>2
       DEF Feeder, FeedSample, FeedDone, SampleTask, EndGeneration, Deliver, FinishGeneration,
           CancelGeneration, FailGeneration, DeliverSample, Monitor, MonitorCheck, MonitorTick,
           MonitorReset, Main, PutEndSignal, StopRunning, RemoteCall, PauseBegin, PauseEnd,
           CallArrives, UpdateBegin, ResetStaleness, ReportValidation, Resume, procVars, Others,
           trainerVars
  <2>2. processor' = processor \/ (NotifyAll /\ ~UNCHANGED processor)
    BY <1>2
       DEF Feeder, FeedSample, FeedDone, SampleTask, EndGeneration, Deliver, FinishGeneration,
           CancelGeneration, FailGeneration, DeliverSample, Monitor, MonitorCheck, MonitorTick,
           MonitorReset, Main, PutEndSignal, StopRunning, RemoteCall, PauseBegin, PauseEnd,
           CallArrives, UpdateBegin, ResetStaleness, ReportValidation, Resume, procVars
  <2>3. processor' \in EmptyHanded => processor \in EmptyHanded
    BY <2>2 DEF NotifyAll, EmptyHanded
  <2>4. QED
    BY <1>1, <2>1, <2>3, EmptyKept
<1>3. CASE Processor /\ Others
  BY <1>3, EmptyProcessor
<1>4. CASE SyncStep \/ CleanUp \/ UNCHANGED vars
  <2>1. UNCHANGED <<inHand, processor, trainer, batch>>
    BY <1>4 DEF SyncStep, TellQueue, CleanUp, vars, rollouterVars, procVars, trainerVars
  <2>2. QED
    BY <1>1, <2>1, EmptyKept
<1>5. CASE Trainer
  BY <1>5, EmptyTrainer
<1>6. QED
  BY <1>2, <1>3, <1>4, <1>5 DEF Next, RollouterStep, Terminated, Others

\* At the start every sample is still to be fed.
LEMMA PlaceInit == Init => PlaceInv
<1> SUFFICES ASSUME Init PROVE PlaceInv
  OBVIOUS
<1>1. /\ pendingQueue = <<>> /\ cancelQueue = <<>> /\ generating = {} /\ delivering = {}
      /\ inHand = NoSample /\ queue = <<>> /\ batch = <<>> /\ trained = {} /\ trainer = "start"
  BY DEF Init, RollouterInit, TrainerInit
<1>2. \A k \in Kinds : k # "unfed" => Place(k) = {}
  <2>1. /\ InPending = {} /\ InCancel = {} /\ InDelivery = {} /\ InHand = {} /\ InQueue = {}
        /\ InBatch = {}
    BY <1>1, NoIds, QueueElements DEF InDelivery, InHand, InQueue, InBatch
  <2>2. QED
    BY <1>1, <2>1, PlaceNames DEF Kinds
<1>3. Apart
  BY <1>2 DEF Apart
<1>4. OnceInv
  BY <1>1, NoIds DEF OnceInv
<1>5. EmptyInv
  BY <1>1 DEF EmptyInv
<1>6. QED
  BY <1>3, <1>4, <1>5 DEF PlaceInv

\* So the samples are apart, and nothing is anywhere twice, throughout.
LEMMA PlaceInvariant == Spec => [](TypeInv /\ PlaceInv)
<1>1. TypeInv /\ PlaceInv /\ [Next]_vars => PlaceInv'
  BY ApartStep, OnceStep, EmptyStep DEF PlaceInv
<1>2. QED
  BY <1>1, PlaceInit, TypeInvariant, PTL DEF Spec

\* As many finished samples on their way to the queue as there are entries.
LEMMA DeliveryCounted ==
    ASSUME TypeInv, OnceInv
    PROVE  Cardinality(delivering) = Cardinality(InDelivery)
<1> DEFINE f == [e \in delivering |-> e.id]
<1>1. f \in Bijection(delivering, InDelivery)
  <2>1. f \in [delivering -> InDelivery]
    BY DEF InDelivery
  <2>2. \A a, b \in delivering : f[a] = f[b] => a = b
    BY DEF OnceInv
  <2>3. \A t \in InDelivery : \E s \in delivering : f[s] = t
    BY DEF InDelivery
  <2>4. QED
    BY <2>1, <2>2, <2>3, Fun_IsBij
<1>2. ExistsBijection(delivering, InDelivery)
  BY <1>1, Fun_ExistsBij
<1>3. QED
  BY <1>2, FS_Bijection DEF TypeInv

\* A sample of the data set is in at most one of the places of the run, and
\* there once, whatever is interrupted, resubmitted, dropped or paused.
THEOREM SamplesAreInOnePlace == Spec => []SampleInOnePlace
<1>1. TypeInv /\ PlaceInv => SampleInOnePlace
  <2> SUFFICES ASSUME TypeInv, PlaceInv PROVE SampleInOnePlace
    OBVIOUS
  <2> DEFINE places == <<Unfed, InPending, InCancel, generating, InDelivery, InHand, InQueue,
                         InBatch, trained>>
             names == <<"unfed", "pending", "cancelled", "generating", "delivering", "inHand",
                        "queued", "batched", "trained">>
  <2>1. \A i \in DOMAIN places : names[i] \in Kinds /\ places[i] = Place(names[i])
    BY PlaceNames DEF Kinds
  <2>2. \A i, j \in DOMAIN places : i # j => names[i] # names[j]
    OBVIOUS
  <2> HIDE DEF places, names
  <2>3. \A i, j \in DOMAIN places : i # j => places[i] \cap places[j] = {}
    BY <2>1, <2>2 DEF PlaceInv, Apart
  <2>4. Cardinality(delivering) = Cardinality(InDelivery)
    BY DeliveryCounted DEF PlaceInv
  <2>5. QED
    BY <2>3, <2>4 DEF SampleInOnePlace, PlaceInv, OnceInv, Distinct, DistinctIds, places
<1>2. QED
  BY <1>1, PlaceInvariant, PTL

-----------------------------------------------------------------------------
(* The abstract pipeline *)

\* The stage that belongs to a place.
Group(k) ==
    CASE k \in {"unfed", "pending"} -> "waiting"
      [] k \in {"cancelled", "generating", "delivering", "inHand"} -> "rolling"
      [] k = "queued" -> "queued"
      [] k = "batched" -> "batched"
      [] k = "trained" -> "trained"
      [] OTHER -> "lost"

Stages == [s \in Samples |-> StageOf(s)]

\* The stage of a sample is told by its only place.
LEMMA StageByPlace ==
    ASSUME Apart, NEW s \in Samples
    PROVE  /\ \A k \in Kinds : s \in Place(k) => StageOf(s) = Group(k)
           /\ (\A k \in Kinds : s \notin Place(k)) => StageOf(s) = "lost"
<1>1. \A k \in Kinds : s \in Place(k) => \A l \in Kinds \ {k} : s \notin Place(l)
  BY DEF Apart
<1>2. \A k \in Kinds : s \in Place(k) => StageOf(s) = Group(k)
  BY <1>1, PlaceNames DEF Kinds, StageOf, Group
<1>3. (\A k \in Kinds : s \notin Place(k)) => StageOf(s) = "lost"
  BY PlaceNames DEF Kinds, StageOf
<1>4. QED
  BY <1>2, <1>3

\* The same after a step.
LEMMA StageByPlaceNext ==
    ASSUME Apart', NEW s \in Samples
    PROVE  /\ \A k \in Kinds : s \in Place(k)' => StageOf(s)' = Group(k)
           /\ (\A k \in Kinds : s \notin Place(k)') => StageOf(s)' = "lost"
<1>1. \A k \in Kinds : s \in Place(k)' => \A l \in Kinds \ {k} : s \notin Place(l)'
  BY DEF Apart
<1>2. \A k \in Kinds : s \in Place(k)' => StageOf(s)' = Group(k)
  BY <1>1, PlaceNames DEF Kinds, StageOf, Group
<1>3. (\A k \in Kinds : s \notin Place(k)') => StageOf(s)' = "lost"
  BY PlaceNames DEF Kinds, StageOf
<1>4. QED
  BY <1>2, <1>3

\* Samples that move change their stage, and no others do.
LEMMA StagesMove ==
    ASSUME Apart, Apart', NEW from \in Kinds, NEW to \in Kinds \cup {"lost"}, from # to,
           NEW S \in SUBSET Place(from), NEW dropped \in SUBSET Place("queued"),
           S \cap dropped = {}, Moves(S, from, to, dropped)
    PROVE  \A s \in Samples : StageOf(s)' = IF s \in S THEN Group(to)
                                            ELSE IF s \in dropped THEN "lost" ELSE StageOf(s)
<1> SUFFICES ASSUME NEW s \in Samples
             PROVE  StageOf(s)' = IF s \in S THEN Group(to)
                                  ELSE IF s \in dropped THEN "lost" ELSE StageOf(s)
  OBVIOUS
<1>1. \A k \in Kinds : s \in Place(k) => \A l \in Kinds \ {k} : s \notin Place(l)
  BY DEF Apart
<1>2. \A k \in Kinds : Place(k)' = (IF k = from THEN Place(k) \ S
                                    ELSE IF k = to THEN Place(k) \cup S ELSE Place(k)) \ dropped
  BY DEF Moves
<1>3. CASE s \in S
  <2>1. CASE to \in Kinds
    <3>1. s \in Place(to)'
      BY <1>2, <1>3, <2>1
    <3>2. QED
      BY <1>3, <2>1, <3>1, StageByPlaceNext
  <2>2. CASE to = "lost"
    <3>1. to \notin Kinds /\ Group(to) = "lost"
      BY <2>2 DEF Kinds, Group
    <3>2. \A k \in Kinds : s \notin Place(k)'
      BY <1>1, <1>2, <1>3, <3>1
    <3>3. QED
      BY <1>3, <3>1, <3>2, StageByPlaceNext
  <2>3. QED
    BY <2>1, <2>2
<1>4. CASE s \in dropped
  <2>1. \A k \in Kinds : s \notin Place(k)'
    BY <1>2, <1>4
  <2>2. QED
    BY <1>4, <2>1, StageByPlaceNext
<1>5. CASE s \notin S /\ s \notin dropped
  <2>1. \A k \in Kinds : s \in Place(k)' <=> s \in Place(k)
    BY <1>2, <1>5
  <2>2. CASE \E k \in Kinds : s \in Place(k)
    BY <1>5, <2>1, <2>2, StageByPlace, StageByPlaceNext
  <2>3. CASE \A k \in Kinds : s \notin Place(k)
    BY <1>5, <2>1, <2>3, StageByPlace, StageByPlaceNext
  <2>4. QED
    BY <2>2, <2>3
<1>6. QED
  BY <1>3, <1>4, <1>5

\* What moves without a drop moves in the abstract pipeline, unless its stage
\* stays the same or nothing moves.
LEMMA MoveMoves ==
    ASSUME Apart, Apart', NEW from \in Kinds, NEW to \in Kinds \cup {"lost"}, from # to,
           NEW S \in SUBSET Place(from), S \subseteq Samples, Moves(S, from, to, {})
    PROVE  IF S = {} \/ Group(from) = Group(to) THEN UNCHANGED Stages
           ELSE Pipeline!Move(S, Group(from), Group(to))
<1>1. \A s \in Samples : StageOf(s)' = IF s \in S THEN Group(to) ELSE StageOf(s)
  <2> DEFINE none == {}
  <2>1. none \in SUBSET Place("queued") /\ S \cap none = {} /\ Moves(S, from, to, none)
    OBVIOUS
  <2>2. \A s : s \notin none
    OBVIOUS
  <2> HIDE DEF none
  <2>3. \A s \in Samples : StageOf(s)' = IF s \in S THEN Group(to)
                                         ELSE IF s \in none THEN "lost" ELSE StageOf(s)
    BY <2>1, StagesMove
  <2>4. QED
    BY <2>2, <2>3
<1>2. \A s \in S : StageOf(s) = Group(from)
  BY StageByPlace
<1>3. CASE S = {} \/ Group(from) = Group(to)
  BY <1>1, <1>2, <1>3 DEF Stages
<1>4. CASE S # {} /\ Group(from) # Group(to)
  BY <1>1, <1>2, <1>4 DEF Pipeline!Move, Pipeline!At
<1>5. QED
  BY <1>3, <1>4

\* The queue and the batch are stages of the pipeline.
LEMMA StageSets ==
    ASSUME TypeInv, Apart
    PROVE  /\ InQueue \subseteq Samples /\ Pipeline!At("queued") = InQueue
           /\ InBatch \subseteq Samples /\ Pipeline!At("batched") = InBatch
<1>1. InQueue \subseteq Samples
  <2>1. \A i \in DOMAIN queue : queue[i] \in Entry
    BY ElementFacts DEF TypeInv, TypeOK, MQ!MQTypeOK
  <2>2. QED
    BY <2>1 DEF InQueue, SampleIds, Entry
<1>2. InBatch \subseteq Samples
  <2>1. \A i \in DOMAIN batch : batch[i] \in [id : Samples, ver : Versions]
    BY ElementFacts DEF TypeInv, TypeOK, TrainerTypeOK
  <2>2. QED
    BY <2>1 DEF InBatch, SampleIds
<1>3. \A s \in Samples : StageOf(s) = "queued" <=> s \in InQueue
  BY PlaceNames, StageByPlace DEF Kinds, Group
<1>4. \A s \in Samples : StageOf(s) = "batched" <=> s \in InBatch
  BY PlaceNames, StageByPlace DEF Kinds, Group
<1>5. QED
  BY <1>1, <1>2, <1>3, <1>4 DEF Pipeline!At

Advance == Pipeline!Next \/ UNCHANGED Stages

\* SamplePipeline counts as this module does.
LEMMA SameCardinality == \A S : Pipeline!Cardinality(S) = Cardinality(S)
  BY DEF Pipeline!Cardinality, Cardinality

\* A finished sample enters the queue, in place of at most one other.
LEMMA DeliverAdvances ==
    ASSUME TypeInv, PlaceInv, Apart', NEW e \in delivering, DeliverSample(e), Others
    PROVE  Advance
<1>1. e.id \in Samples /\ e.id \in Place("delivering")
  BY DeliverMoves
<1>2. PICK dropped \in SUBSET InQueue : /\ IsFiniteSet(dropped) /\ Cardinality(dropped) <= 1
                                        /\ Moves({e.id}, "delivering", "queued", dropped)
  BY DeliverMoves
<1>3. {e.id} \cap dropped = {}
  BY <1>1, PlaceNames DEF PlaceInv, Apart, Kinds
<1>4. Group("queued") = "queued" /\ Group("delivering") = "rolling"
  BY DEF Group
<1>5. \A s \in Samples : StageOf(s)' = IF s \in {e.id} THEN Group("queued")
                                       ELSE IF s \in dropped THEN "lost" ELSE StageOf(s)
  <2>1. /\ {e.id} \in SUBSET Place("delivering") /\ dropped \in SUBSET Place("queued")
        /\ "delivering" \in Kinds /\ "queued" \in Kinds \cup {"lost"} /\ "delivering" # "queued"
        /\ Moves({e.id}, "delivering", "queued", dropped) /\ Apart
    BY <1>1, <1>2, PlaceNames DEF Kinds, PlaceInv
  <2> DEFINE S == {e.id}
  <2>2. S \in SUBSET Place("delivering") /\ S \cap dropped = {}
        /\ Moves(S, "delivering", "queued", dropped)
    BY <1>3, <2>1
  <2> HIDE DEF S
  <2>3. \A s \in Samples : StageOf(s)' = IF s \in S THEN Group("queued")
                                         ELSE IF s \in dropped THEN "lost" ELSE StageOf(s)
    BY <2>1, <2>2, StagesMove
  <2>4. QED
    BY <2>3 DEF S
<1>6. e.id \in Pipeline!At("rolling")
  BY <1>1, <1>4, StageByPlace DEF Pipeline!At, PlaceInv, Kinds
<1>7. dropped \in SUBSET Pipeline!At("queued")
  BY StageSets DEF PlaceInv
<1>8. Stages' = [t \in Samples |-> IF t = e.id THEN "queued"
                                   ELSE IF t \in dropped THEN "lost" ELSE Stages[t]]
  BY <1>4, <1>5 DEF Stages
<1>9. Pipeline!Enqueue
  BY <1>2, <1>6, <1>7, <1>8, SameCardinality DEF Pipeline!Enqueue, Stages
<1>10. QED
  BY <1>9 DEF Advance, Pipeline!Next

\* The end signal takes the place of at most one sample.
LEMMA EndSignalAdvances ==
    ASSUME TypeInv, PlaceInv, Apart', PutEndSignal, Others
    PROVE  Advance
<1>1. PICK dropped \in SUBSET InQueue : /\ IsFiniteSet(dropped) /\ Cardinality(dropped) <= 1
                                        /\ Moves({}, "queued", "lost", dropped)
  BY PutEndSignalMoves
<1>2. \A s \in Samples : StageOf(s)' = IF s \in dropped THEN "lost" ELSE StageOf(s)
  <2> DEFINE none == {}
  <2>1. /\ none \in SUBSET Place("queued") /\ dropped \in SUBSET Place("queued")
        /\ none \cap dropped = {} /\ Moves(none, "queued", "lost", dropped)
        /\ "queued" \in Kinds /\ "lost" \in Kinds \cup {"lost"} /\ "queued" # "lost"
    BY <1>1, PlaceNames DEF Kinds
  <2>2. \A s : s \notin none
    OBVIOUS
  <2> HIDE DEF none
  <2>3. \A s \in Samples : StageOf(s)' = IF s \in none THEN Group("lost")
                                         ELSE IF s \in dropped THEN "lost" ELSE StageOf(s)
    BY <2>1, StagesMove DEF PlaceInv
  <2>4. QED
    BY <2>2, <2>3
<1>3. dropped \subseteq Pipeline!At("queued") /\ dropped \subseteq Samples
  BY StageSets DEF PlaceInv
<1>4. CASE dropped = {}
  BY <1>2, <1>4 DEF Advance, Stages
<1>5. CASE dropped # {}
  <2>1. Cardinality(dropped) = 1
    <3>1. Cardinality(dropped) \in Nat /\ Cardinality(dropped) # 0
      BY <1>1, <1>5, FS_CardinalityType, FS_EmptySet
    <3>2. QED
      BY <1>1, <3>1
  <2>2. PICK s : dropped = {s}
    BY <1>1, <2>1, FS_Singleton
  <2>3. s \in Samples /\ {s} \subseteq Pipeline!At("queued")
    BY <1>3, <2>2
  <2>4. Stages' = [t \in Samples |-> IF t \in {s} THEN "lost" ELSE Stages[t]]
    BY <1>2, <2>2 DEF Stages
  <2>5. Pipeline!Move({s}, "queued", "lost")
    BY <2>3, <2>4 DEF Pipeline!Move, Stages
  <2>6. Pipeline!Overwrite
    BY <2>3, <2>5 DEF Pipeline!Overwrite
  <2>7. QED
    BY <2>6 DEF Advance, Pipeline!Next
<1>6. QED
  BY <1>4, <1>5

\* A single sample that starts, fails or is taken.
LEMMA OneAdvances ==
    ASSUME Apart, Apart', NEW from \in Kinds, NEW to \in Kinds \cup {"lost"}, from # to,
           NEW s \in Samples, s \in Place(from), Moves({s}, from, to, {}),
           \/ Group(from) = Group(to)
           \/ Group(from) = "waiting" /\ Group(to) = "rolling"
           \/ Group(from) = "rolling" /\ Group(to) = "lost" /\ MaxFaults > 0
           \/ Group(from) = "queued" /\ Group(to) = "batched"
    PROVE  Advance
<1>1. \/ UNCHANGED Stages
      \/ Group(from) # Group(to) /\ Pipeline!Move({s}, Group(from), Group(to))
  <2>1. {s} \in SUBSET Place(from) /\ {s} \subseteq Samples /\ {s} # {}
    OBVIOUS
  <2>2. QED
    BY <2>1, MoveMoves
<1>2. CASE UNCHANGED Stages
  BY <1>2 DEF Advance
<1>3. CASE Pipeline!Move({s}, "waiting", "rolling")
  BY <1>3 DEF Advance, Pipeline!Next, Pipeline!Start
<1>4. CASE Pipeline!Move({s}, "rolling", "lost") /\ MaxFaults > 0
  BY <1>4 DEF Advance, Pipeline!Next, Pipeline!Fail
<1>5. CASE Pipeline!Move({s}, "queued", "batched")
  BY <1>5 DEF Advance, Pipeline!Next, Pipeline!Take
<1>6. QED
  BY <1>1, <1>2, <1>3, <1>4, <1>5

\* Nothing moves.
LEMMA NoneAdvances ==
    ASSUME Apart, Apart', NEW from \in Kinds, NEW to \in Kinds \cup {"lost"}, from # to,
           Moves({}, from, to, {})
    PROVE  Advance
  BY MoveMoves DEF Advance

\* The batch is trained on when it is full, and only given up before.
LEMMA BatchAdvances ==
    ASSUME TypeInv, PlaceInv, Apart', TrainBatch \/ CollectEndSignal
    PROVE  Advance
<1>1. /\ InBatch \in SUBSET Place("batched") /\ InBatch \subseteq Samples
      /\ Pipeline!At("batched") = InBatch
  BY StageSets, PlaceNames DEF PlaceInv
<1>2. Cardinality(InBatch) = Len(batch)
  BY CountIds DEF InBatch, PlaceInv, OnceInv, TypeInv, TypeOK, TrainerTypeOK
<1>3. Group("batched") = "batched" /\ Group("trained") = "trained" /\ Group("lost") = "lost"
  BY DEF Group
<1>4. CASE TrainBatch
  <2>1. Cardinality(Pipeline!At("batched")) = RequiredSamples
    BY <1>1, <1>2, <1>4 DEF TrainBatch, PlaceInv, EmptyInv
  <2>2. Moves(InBatch, "batched", "trained", {})
    BY <1>4, TrainMoves
  <2>3. UNCHANGED Stages \/ Pipeline!Move(InBatch, "batched", "trained")
    BY <1>1, <1>3, <2>2, MoveMoves DEF Kinds, PlaceInv
  <2>4. QED
    BY <1>1, <2>1, <2>3, SameCardinality DEF Advance, Pipeline!Next, Pipeline!Train
<1>5. CASE CollectEndSignal
  <2>1. Cardinality(Pipeline!At("batched")) < RequiredSamples
    BY <1>1, <1>2, <1>5 DEF CollectEndSignal, PlaceInv, EmptyInv
  <2>2. Moves(InBatch, "batched", "lost", {})
    BY <1>5, CollectEndMoves
  <2>3. UNCHANGED Stages \/ Pipeline!Move(InBatch, "batched", "lost")
    BY <1>1, <1>3, <2>2, MoveMoves DEF Kinds, PlaceInv
  <2>4. QED
    BY <1>1, <2>1, <2>3, SameCardinality DEF Advance, Pipeline!Next, Pipeline!GiveUp
<1>6. QED
  BY <1>4, <1>5

\* What is queued when the run is over is given up.
LEMMA CleanUpAdvances ==
    ASSUME TypeInv, PlaceInv, Apart', CleanUp
    PROVE  Advance
<1>1. /\ InQueue \in SUBSET Place("queued") /\ InQueue \subseteq Samples
      /\ Pipeline!At("queued") = InQueue /\ Group("queued") = "queued" /\ Group("lost") = "lost"
  BY StageSets, PlaceNames DEF PlaceInv, Group
<1>2. Moves(InQueue, "queued", "lost", {})
  BY CleanUpMoves
<1>3. UNCHANGED Stages \/ Pipeline!Move(InQueue, "queued", "lost")
  BY <1>1, <1>2, MoveMoves DEF Kinds, PlaceInv
<1>4. QED
  BY <1>1, <1>3 DEF Advance, Pipeline!Next, Pipeline!GiveUp

\* Every step of the run is a step of the pipeline, or none.
LEMMA PipelineStep == TypeInv /\ PlaceInv /\ [Next]_vars => Advance
<1> SUFFICES ASSUME TypeInv, PlaceInv, [Next]_vars PROVE Advance
  OBVIOUS
<1>1. Apart /\ Apart'
  BY ApartStep DEF PlaceInv
<1>2. /\ Group("unfed") = "waiting" /\ Group("pending") = "waiting"
      /\ Group("cancelled") = "rolling" /\ Group("generating") = "rolling"
      /\ Group("delivering") = "rolling" /\ Group("inHand") = "rolling"
      /\ Group("queued") = "queued" /\ Group("batched") = "batched" /\ Group("lost") = "lost"
      /\ "lost" \notin Kinds
  BY DEF Group, Kinds
<1>3. CASE FeedSample /\ Others
  <2>1. globalSteps \in Samples
    BY DEF TypeInv, TypeOK, FeedTypeOK
  <2>2. globalSteps \in Place("unfed") /\ Moves({globalSteps}, "unfed", "pending", {})
    BY <1>3, FeedSampleMoves
  <2>3. QED
    BY <1>1, <1>2, <2>1, <2>2, OneAdvances DEF Kinds
<1>4. CASE FeedDone /\ Others
  <2>1. Moves({}, "unfed", "pending", {})
    BY <1>4, FeedDoneMoves
  <2>2. QED
    BY <1>1, <2>1, NoneAdvances DEF Kinds
<1>5. CASE \E s \in Samples : FinishGeneration(s) /\ Others
  <2>1. PICK s \in Samples : FinishGeneration(s) /\ Others
    BY <1>5
  <2>2. s \in Place("generating") /\ Moves({s}, "generating", "delivering", {})
    BY <2>1, FinishGenerationMoves
  <2>3. QED
    BY <1>1, <1>2, <2>2, OneAdvances DEF Kinds
<1>6. CASE \E s \in Samples : CancelGeneration(s) /\ Others
  <2>1. PICK s \in Samples : CancelGeneration(s) /\ Others
    BY <1>6
  <2>2. s \in Place("generating") /\ Moves({s}, "generating", "cancelled", {})
    BY <2>1, CancelGenerationMoves
  <2>3. QED
    BY <1>1, <1>2, <2>2, OneAdvances DEF Kinds
<1>7. CASE \E s \in Samples : FailGeneration(s) /\ Others
  <2>1. PICK s \in Samples : FailGeneration(s) /\ Others
    BY <1>7
  <2>2. s \in Place("generating") /\ Moves({s}, "generating", "lost", {})
    BY <2>1, FailGenerationMoves
  <2>3. MaxFaults > 0
    BY <2>1, RollouterAssumption DEF FailGeneration, TypeInv, TypeOK, TaskTypeOK
  <2>4. QED
    BY <1>1, <1>2, <2>2, <2>3, OneAdvances DEF Kinds
<1>8. CASE \E e \in delivering : DeliverSample(e) /\ Others
  BY <1>1, <1>8, DeliverAdvances
<1>9. CASE TakeFromCancelQueue /\ Others
  <2>1. /\ inHand' \in Samples /\ inHand' \in Place("cancelled")
        /\ Moves({inHand'}, "cancelled", "inHand", {})
    BY <1>9, TakeCancelledMoves
  <2>2. PICK s \in Samples : s \in Place("cancelled") /\ Moves({s}, "cancelled", "inHand", {})
    BY <2>1
  <2>3. QED
    BY <1>1, <1>2, <2>2, OneAdvances DEF Kinds
<1>10. CASE TakeFromPendingQueue /\ Others
  <2>1. CASE Moves({}, "pending", "inHand", {})
    BY <1>1, <2>1, NoneAdvances DEF Kinds
  <2>2. CASE ~Moves({}, "pending", "inHand", {})
    <3>1. /\ inHand' \in Samples /\ inHand' \in Place("pending")
          /\ Moves({inHand'}, "pending", "inHand", {})
      BY <1>10, <2>2, TakePendingMoves
    <3>2. PICK s \in Samples : s \in Place("pending") /\ Moves({s}, "pending", "inHand", {})
      BY <3>1
    <3>3. QED
      BY <1>1, <1>2, <3>2, OneAdvances DEF Kinds
  <2>3. QED
    BY <2>1, <2>2
<1>11. CASE SubmitSample /\ Others
  <2>1. CASE Moves({}, "inHand", "generating", {})
    BY <1>1, <2>1, NoneAdvances DEF Kinds
  <2>2. CASE ~Moves({}, "inHand", "generating", {})
    <3>1. /\ inHand \in Samples /\ inHand \in Place("inHand")
          /\ Moves({inHand}, "inHand", "generating", {})
      BY <1>11, <2>2, SubmitMoves
    <3>2. QED
      BY <1>1, <1>2, <3>1, OneAdvances DEF Kinds
  <2>3. QED
    BY <2>1, <2>2
<1>12. CASE PutEndSignal /\ Others
  BY <1>1, <1>12, EndSignalAdvances
<1>13. CASE CollectSample
  <2>1. /\ Head(queue).id \in Samples /\ Head(queue).id \in Place("queued")
        /\ Moves({Head(queue).id}, "queued", "batched", {})
    BY <1>13, CollectMoves
  <2>2. PICK s \in Samples : s \in Place("queued") /\ Moves({s}, "queued", "batched", {})
    BY <2>1
  <2>3. QED
    BY <1>1, <1>2, <2>2, OneAdvances DEF Kinds
<1>14. CASE CollectEndSignal \/ TrainBatch
  BY <1>1, <1>14, BatchAdvances
<1>15. CASE CleanUp
  BY <1>1, <1>15, CleanUpAdvances
<1>16. CASE Rest
  <2>1. Moves({}, "unfed", "lost", {})
    BY <1>16, RestMovesNothing, NothingMoves
  <2>2. QED
    BY <1>1, <1>2, <2>1, NoneAdvances DEF Kinds
<1>17. QED
  BY <1>3, <1>4, <1>5, <1>6, <1>7, <1>8, <1>9, <1>10, <1>11, <1>12, <1>13, <1>14, <1>15,
     <1>16, StepCases

\* With its queues, locks, pauses, resubmissions and failures the run is an
\* implementation of SamplePipeline: a sample is rolled out, queued, batched
\* and trained on in this order and at most once, in whole batches, and a
\* sample that was dropped or trained on never comes back.
THEOREM ImplementsSamplePipeline == Spec => ImplementsPipeline
<1>1. Init => Pipeline!Init
  <2> SUFFICES ASSUME Init PROVE Pipeline!Init
    OBVIOUS
  <2>1. globalSteps = 1 /\ feed = "feeding" /\ TotalRolloutSteps \in Nat
    BY RollouterAssumption DEF Init, RollouterInit
  <2>2. \A s \in Samples : s \in Place("unfed")
    BY <2>1, PlaceNames DEF Unfed, Samples
  <2>3. Apart
    BY PlaceInit DEF PlaceInv
  <2>4. \A s \in Samples : StageOf(s) = "waiting"
    BY <2>2, <2>3, StageByPlace DEF Kinds, Group
  <2>5. QED
    BY <2>4 DEF Pipeline!Init
<1>2. TypeInv /\ PlaceInv /\ [Next]_vars => [Pipeline!Next]_Stages
  BY PipelineStep DEF Advance
<1>3. QED
  BY <1>1, <1>2, PlaceInvariant, PTL DEF Spec, ImplementsPipeline, Pipeline!Spec, Stages


-----------------------------------------------------------------------------
(* Counting the samples in the places *)

\* The samples in tasks and interrupted ones: what update_param_version
\* counts before it asks the queue for its size.
Rolling == Cardinality(generating) + Cardinality(delivering) + Len(cancelQueue)

\* Everything that Outstanding counts is finite.
LEMMA Counted ==
    TypeInv => /\ IsFiniteSet(generating) /\ Cardinality(generating) \in Nat
               /\ IsFiniteSet(delivering) /\ Cardinality(delivering) \in Nat
               /\ IsFiniteSet(InQueue) /\ Cardinality(InQueue) \in Nat
               /\ Cardinality(InHand) \in {0, 1}
               /\ Len(cancelQueue) \in Nat /\ Len(queue) \in Nat
               /\ staleness \in Nat /\ counted \in Nat /\ unreaped \in Nat
               /\ Rolling \in Nat /\ Outstanding \in Nat
<1> SUFFICES ASSUME TypeInv
             PROVE  /\ IsFiniteSet(generating) /\ Cardinality(generating) \in Nat
                    /\ IsFiniteSet(delivering) /\ Cardinality(delivering) \in Nat
                    /\ IsFiniteSet(InQueue) /\ Cardinality(InQueue) \in Nat
                    /\ Cardinality(InHand) \in {0, 1}
                    /\ Len(cancelQueue) \in Nat /\ Len(queue) \in Nat
                    /\ staleness \in Nat /\ counted \in Nat /\ unreaped \in Nat
                    /\ Rolling \in Nat /\ Outstanding \in Nat
  OBVIOUS
<1>1. IsFiniteSet(generating) /\ Cardinality(generating) \in Nat
  BY SamplesFinite DEF TypeInv, TypeOK, TaskTypeOK
<1>2. IsFiniteSet(delivering) /\ Cardinality(delivering) \in Nat
  BY FS_CardinalityType DEF TypeInv
<1>3. IsFiniteSet(InQueue) /\ Cardinality(InQueue) \in Nat
  <2>1. InQueue \in SUBSET Samples
    <3>1. \A i \in DOMAIN queue : queue[i] \in Entry
      BY ElementFacts DEF TypeInv, TypeOK, MQ!MQTypeOK
    <3>2. QED
      BY <3>1 DEF InQueue, SampleIds, Entry
  <2>2. QED
    BY <2>1, SamplesFinite
<1>4. Cardinality(InHand) \in {0, 1}
  <2>1. InHand = {} \/ InHand = {inHand}
    BY DEF InHand
  <2>2. QED
    BY <2>1, FS_EmptySet, FS_Singleton
<1>5. Len(cancelQueue) \in Nat /\ Len(queue) \in Nat
  BY DEF TypeInv, TypeOK, TaskTypeOK, MQ!MQTypeOK
<1>6. staleness \in Nat /\ counted \in Nat /\ unreaped \in Nat
  BY DEF TypeInv, TypeOK, FlagTypeOK, ControlTypeOK, TaskTypeOK
<1>7. QED
  BY <1>1, <1>2, <1>3, <1>4, <1>5, <1>6 DEF Rolling, Outstanding

\* The sizes of the places, and the two sums of them.
Sizes == \E g, d, c, h, q, r, o \in Nat :
            /\ Cardinality(generating) = g /\ Cardinality(delivering) = d
            /\ Len(cancelQueue) = c /\ h <= 1
            /\ Cardinality(InHand) = h /\ Cardinality(InQueue) = q
            /\ Rolling = r /\ r = g + d + c /\ Outstanding = o /\ o = h + r + q

LEMMA Sized == TypeInv => Sizes
<1> SUFFICES ASSUME TypeInv PROVE Sizes
  OBVIOUS
<1>1. Cardinality(InHand) \in Nat
  BY Counted
<1>2. PICK g, d, c, h, q \in Nat :
             /\ Cardinality(generating) = g /\ Cardinality(delivering) = d
             /\ Len(cancelQueue) = c
             /\ Cardinality(InHand) = h /\ Cardinality(InQueue) = q
  BY <1>1, Counted, Zenon
<1>3. Rolling = g + d + c
  BY <1>2 DEF Rolling
<1>4. Outstanding = h + (g + d + c) + q
  BY <1>2 DEF Outstanding
<1>5. h <= 1
  BY <1>2, Counted
<1>6. g + d + c \in Nat /\ h + (g + d + c) + q \in Nat
  OBVIOUS
<1>7. QED
  BY <1>2, <1>3, <1>4, <1>5, <1>6, Zenon DEF Sizes

LEMMA SizedNext == TypeInv' => Sizes'
  BY Sized, PTL

\* A step that leaves the rollouter's samples alone, and adds none to the queue.
LEMMA OutstandingKept ==
    ASSUME TypeInv, TypeInv', UNCHANGED <<generating, delivering, cancelQueue, inHand>>,
           InQueue' \subseteq InQueue
    PROVE  Outstanding' <= Outstanding /\ Rolling' = Rolling
<1>0. PICK g0, d0, c0, h0, q0, r0, o0 \in Nat :
        /\ Cardinality(generating) = g0 /\ Cardinality(delivering) = d0
        /\ Len(cancelQueue) = c0 /\ h0 <= 1
        /\ Cardinality(InHand) = h0 /\ Cardinality(InQueue) = q0
        /\ Rolling = r0 /\ r0 = g0 + d0 + c0 /\ Outstanding = o0 /\ o0 = h0 + r0 + q0
  BY Sized DEF Sizes
<1>p. PICK g1, d1, c1, h1, q1, r1, o1 \in Nat :
        /\ Cardinality(generating)' = g1 /\ Cardinality(delivering)' = d1
        /\ Len(cancelQueue)' = c1 /\ h1 <= 1
        /\ Cardinality(InHand)' = h1 /\ Cardinality(InQueue)' = q1
        /\ Rolling' = r1 /\ r1 = g1 + d1 + c1 /\ Outstanding' = o1 /\ o1 = h1 + r1 + q1
  BY SizedNext DEF Sizes
<1>1. q1 <= q0
  BY <1>0, <1>p, Counted, FS_Subset
<1>2. h1 = h0
  BY <1>0, <1>p DEF InHand
<1>3. Rolling' = Rolling
  BY DEF Rolling
<1>4. QED
  BY <1>0, <1>p, <1>1, <1>2, <1>3

\* Only the processor's take from pending_queue adds a sample to those that
\* the rollouter is ahead of the trainer, and only a submission one to the
\* tasks.
LEMMA OutstandingStep ==
    ASSUME TypeInv, TypeInv', PlaceInv, [Next]_vars
    PROVE  /\ \/ Outstanding' <= Outstanding
              \/ TakeFromPendingQueue /\ Outstanding' <= Outstanding + 1
           /\ Rolling' <= Rolling \/ SubmitSample
<1>0. PICK g0, d0, c0, h0, q0, r0, o0 \in Nat :
        /\ Cardinality(generating) = g0 /\ Cardinality(delivering) = d0
        /\ Len(cancelQueue) = c0 /\ h0 <= 1
        /\ Cardinality(InHand) = h0 /\ Cardinality(InQueue) = q0
        /\ Rolling = r0 /\ r0 = g0 + d0 + c0 /\ Outstanding = o0 /\ o0 = h0 + r0 + q0
  BY Sized DEF Sizes
<1>p. PICK g1, d1, c1, h1, q1, r1, o1 \in Nat :
        /\ Cardinality(generating)' = g1 /\ Cardinality(delivering)' = d1
        /\ Len(cancelQueue)' = c1 /\ h1 <= 1
        /\ Cardinality(InHand)' = h1 /\ Cardinality(InQueue)' = q1
        /\ Rolling' = r1 /\ r1 = g1 + d1 + c1 /\ Outstanding' = o1 /\ o1 = h1 + r1 + q1
  BY SizedNext DEF Sizes
<1>1. CASE (FeedSample \/ FeedDone) /\ Others
  <2>1. UNCHANGED <<generating, delivering, cancelQueue, inHand, queue>>
    BY <1>1 DEF FeedSample, FeedDone, taskVars, procVars, queueVars
  <2>2. InQueue' = InQueue
    BY <1>0, <1>p, <2>1, PlacesKept, PlaceNames
  <2>3. QED
    BY <2>1, <2>2, OutstandingKept, Counted
<1>2. CASE \E s \in Samples : FinishGeneration(s) /\ Others
  <2>1. PICK s \in Samples : FinishGeneration(s) /\ Others
    BY <1>2
  <2>2. /\ s \in generating /\ generating' = generating \ {s}
        /\ delivering' = delivering \cup {Finished(s)}
        /\ UNCHANGED <<cancelQueue, inHand, queue>>
    BY <2>1 DEF FinishGeneration, procVars, queueVars
  <2>3. /\ g1 = g0 - 1
        /\ d1 <= d0 + 1
    BY <1>0, <1>p, <2>2, Counted, CardinalityFacts
  <2>4. q1 = q0 /\ h1 = h0
    BY <1>0, <1>p, <2>2, PlacesKept, PlaceNames
  <2>5. QED
    BY <1>0, <1>p, <2>2, <2>3, <2>4
<1>3. CASE \E s \in Samples : CancelGeneration(s) /\ Others
  <2>1. PICK s \in Samples : CancelGeneration(s) /\ Others
    BY <1>3
  <2>2. /\ s \in generating /\ generating' = generating \ {s}
        /\ cancelQueue' = Append(cancelQueue, s) /\ cancelQueue \in Seq(Samples)
        /\ UNCHANGED <<delivering, inHand, queue>>
    BY <2>1 DEF CancelGeneration, Interrupted, procVars, queueVars, TypeInv, TypeOK, TaskTypeOK
  <2>3. /\ g1 = g0 - 1
        /\ c1 = c0 + 1
    BY <1>0, <1>p, <2>2, Counted, CardinalityFacts, AppendFacts
  <2>4. q1 = q0 /\ h1 = h0
    BY <1>0, <1>p, <2>2, PlacesKept, PlaceNames
  <2>5. QED
    BY <1>0, <1>p, <2>2, <2>3, <2>4
<1>4. CASE \E s \in Samples : FailGeneration(s) /\ Others
  <2>1. PICK s \in Samples : FailGeneration(s) /\ Others
    BY <1>4
  <2>2. /\ s \in generating /\ generating' = generating \ {s}
        /\ UNCHANGED <<delivering, cancelQueue, inHand, queue>>
    BY <2>1 DEF FailGeneration, procVars, queueVars
  <2>3. g1 = g0 - 1
    BY <1>0, <1>p, <2>2, Counted, CardinalityFacts
  <2>4. q1 = q0 /\ h1 = h0
    BY <1>0, <1>p, <2>2, PlacesKept, PlaceNames
  <2>5. QED
    BY <1>0, <1>p, <2>2, <2>3, <2>4
<1>5. CASE \E e \in delivering : DeliverSample(e) /\ Others
  <2>1. PICK e \in delivering : DeliverSample(e) /\ Others
    BY <1>5
  <2>2. delivering' = delivering \ {e} /\ UNCHANGED <<generating, cancelQueue, inHand>>
    BY <2>1 DEF DeliverSample, procVars
  <2>3. d1 = d0 - 1
    BY <1>0, <1>p, <2>2, Counted, CardinalityFacts
  <2>4. q1 <= q0 + 1
    <3>1. InQueue' \subseteq InQueue \cup {e.id}
      BY <2>1, DeliverMoves, PlaceNames DEF Moves, Kinds
    <3>2. /\ IsFiniteSet(InQueue \cup {e.id})
          /\ Cardinality(InQueue \cup {e.id}) \in Nat
          /\ Cardinality(InQueue \cup {e.id}) <= q0 + 1
      BY <1>0, <1>p, Counted, CardinalityFacts, FS_AddElement
    <3>3. q1 <= Cardinality(InQueue \cup {e.id})
      BY <1>p, <3>1, <3>2, FS_Subset
    <3>4. QED
      BY <3>2, <3>3
  <2>5. h1 = h0
    BY <1>0, <1>p, <2>2, PlacesKept, PlaceNames
  <2>6. QED
    BY <1>0, <1>p, <2>2, <2>3, <2>4, <2>5
<1>6. CASE TakeFromCancelQueue /\ Others
  <2>1. /\ cancelQueue \in Seq(Samples) /\ cancelQueue # <<>> /\ cancelQueue' = Tail(cancelQueue)
        /\ inHand = NoSample /\ UNCHANGED <<generating, delivering, queue>>
    BY <1>6 DEF TakeFromCancelQueue, queueVars, TypeInv, TypeOK, TaskTypeOK, PlaceInv, EmptyInv,
                EmptyHanded
  <2>2. c1 = c0 - 1
    BY <1>0, <1>p, <2>1, TailFacts
  <2>3. h0 = 0
    BY <1>0, <1>p, <2>1, FS_EmptySet DEF InHand
  <2>4. q1 = q0
    BY <1>0, <1>p, <2>1, PlacesKept, PlaceNames
  <2>5. QED
    BY <1>0, <1>p, <2>1, <2>2, <2>3, <2>4
<1>7. CASE TakeFromPendingQueue /\ Others
  <2>1. inHand = NoSample /\ UNCHANGED <<generating, delivering, cancelQueue, queue>>
    BY <1>7 DEF TakeFromPendingQueue, taskVars, queueVars, PlaceInv, EmptyInv, EmptyHanded
  <2>2. h0 = 0
    BY <1>0, <1>p, <2>1, FS_EmptySet DEF InHand
  <2>3. q1 = q0
    BY <1>0, <1>p, <2>1, PlacesKept, PlaceNames
  <2>4. QED
    BY <1>0, <1>p, <1>7, <2>1, <2>2, <2>3
<1>8. CASE SubmitSample /\ Others
  <2>1. UNCHANGED <<delivering, cancelQueue, queue>>
    BY <1>8 DEF SubmitSample, queueVars
  <2>2. q1 = q0
    BY <1>0, <1>p, <2>1, PlacesKept, PlaceNames
  <2>3. CASE paused
    <3>1. UNCHANGED <<inHand, generating>>
      BY <1>8, <2>3 DEF SubmitSample
    <3>2. InQueue' = InQueue
      BY <1>0, <1>p, <2>1, PlacesKept, PlaceNames
    <3>3. QED
      BY <1>8, <2>1, <3>1, <3>2, OutstandingKept
  <2>4. CASE ~paused
    <3>1. generating' = generating \cup {inHand} /\ inHand' = NoSample /\ inHand # NoSample
      BY <1>8, <2>4 DEF SubmitSample, TypeInv, InHandOK, Samples, NoSample
    <3>2. g1 <= g0 + 1
      BY <1>0, <1>p, <3>1, Counted, CardinalityFacts
    <3>3. h0 = 1 /\ h1 = 0
      <4>1. InHand = {inHand} /\ InHand' = {}
        BY <3>1 DEF InHand
      <4>2. QED
        BY <1>0, <1>p, <4>1, FS_EmptySet, FS_Singleton
    <3>4. QED
      BY <1>0, <1>p, <1>8, <2>1, <2>2, <3>2, <3>3
  <2>5. QED
    BY <2>3, <2>4
<1>9. CASE PutEndSignal /\ Others
  <2>1. UNCHANGED <<generating, delivering, cancelQueue, inHand>>
    BY <1>9 DEF PutEndSignal, taskVars, procVars
  <2>2. InQueue' \subseteq InQueue
    BY <1>9, PutEndSignalMoves, PlaceNames DEF Moves, Kinds
  <2>3. QED
    BY <2>1, <2>2, OutstandingKept, Counted
<1>10. CASE CollectSample \/ CollectEndSignal \/ TrainBatch \/ CleanUp
  <2>1. UNCHANGED <<generating, delivering, cancelQueue, inHand>>
    BY <1>10 DEF CollectSample, CollectEndSignal, TrainBatch, CleanUp, rollouterVars, taskVars,
                 procVars
  <2>2. InQueue' \subseteq InQueue
    <3>1. CASE CollectSample
      BY <3>1, CollectMoves, PlaceNames DEF Moves, Kinds
    <3>2. CASE CollectEndSignal
      BY <3>2, CollectEndMoves, PlaceNames DEF Moves, Kinds
    <3>3. CASE TrainBatch
      BY <3>3, TrainMoves, PlaceNames DEF Moves, Kinds
    <3>4. CASE CleanUp
      BY <3>4, CleanUpMoves, PlaceNames DEF Moves, Kinds
    <3>5. QED
      BY <1>10, <3>1, <3>2, <3>3, <3>4
  <2>3. QED
    BY <2>1, <2>2, OutstandingKept, Counted
<1>11. CASE Rest
  <2>1. UNCHANGED <<generating, delivering, cancelQueue, inHand, queue>>
    BY <1>11, RestMovesNothing DEF placeVars
  <2>2. InQueue' = InQueue
    BY <1>0, <1>p, <2>1, PlacesKept, PlaceNames
  <2>3. QED
    BY <2>1, <2>2, OutstandingKept, Counted
<1>12. QED
  BY <1>1, <1>2, <1>3, <1>4, <1>5, <1>6, <1>7, <1>8, <1>9, <1>10, <1>11, StepCases

-----------------------------------------------------------------------------
(* staleness_samples *)

\* What staleness_samples is worth: it counts all but at most the one sample
\* that was in the processor's hand when update_param_version counted. Until
\* it is written again, what is in tasks has been counted.
AheadInv ==
    /\ Outstanding <= staleness + 1
    /\ call = "count" => Rolling <= counted
    /\ processor = "take" => Outstanding <= MaxRequiredSamples
    /\ Outstanding <= MaxRequiredSamples + 1

\* The samples in the queue are at most its size.
LEMMA QueuedCounted ==
    ASSUME TypeInv, PlaceInv
    PROVE  Cardinality(InQueue) <= Len(queue)
<1>1. IsFiniteSet(SampleIds(queue)) /\ Cardinality(SampleIds(queue)) = Len(queue)
  BY CountIds DEF PlaceInv, OnceInv, TypeInv, TypeOK, MQ!MQTypeOK
<1>2. InQueue \subseteq SampleIds(queue)
  BY DEF InQueue
<1>3. QED
  BY <1>1, <1>2, FS_Subset

\* A step that writes staleness_samples, starts the count or looks at
\* _should_pause_generation is one of four.
LEMMA ControlSteps ==
    ASSUME TypeInv, [Next]_vars
    PROVE  /\ TakeFromPendingQueue \/ ResetStaleness \/ staleness' = staleness
           /\ call' = "count" => UpdateBegin(syncVersion) \/ (call = "count" /\ counted' = counted)
           /\ processor' = "take" => AwaitPending \/ processor = "take"
<1>1. CASE Feeder \/ SampleTask
  BY <1>1 DEF Feeder, FeedSample, FeedDone, SampleTask, EndGeneration, FinishGeneration,
              CancelGeneration, FailGeneration, Deliver, DeliverSample, procVars, flagVars,
              callVars
<1>2. CASE Processor
  <2>1. CASE DecideToPause \/ SetPaused \/ BeginWait \/ EndWait \/ Park \/ Reacquire
    <3>1. UNCHANGED <<staleness, call, counted>>
      BY <2>1 DEF DecideToPause, SetPaused, BeginWait, EndWait, Park, Reacquire, flagVars,
                  callVars
    <3>2. processor' # "take"
      BY <2>1 DEF DecideToPause, SetPaused, BeginWait, EndWait, Park, Reacquire, GoTo,
                  AfterWait, Waiting, WaitLocks
    <3>3. QED
      BY <3>1, <3>2
  <2>2. CASE TakeFromCancelQueue \/ AwaitPending \/ TakeFromPendingQueue \/ SubmitSample
    BY <2>2 DEF TakeFromCancelQueue, AwaitPending, TakeFromPendingQueue, SubmitSample, ToSubmit,
                flagVars, callVars
  <2>3. QED
    BY <1>2, <2>1, <2>2 DEF Processor
<1>3. CASE Monitor \/ Main
  BY <1>3 DEF Monitor, MonitorCheck, MonitorTick, MonitorReset, Main, PutEndSignal, StopRunning,
              NotifyAll, procVars, flagVars, callVars
<1>4. CASE RemoteCall
  BY <1>4 DEF RemoteCall, PauseBegin, PauseEnd, CallArrives, UpdateBegin, ResetStaleness,
              ReportValidation, Resume, NotifyAll, procVars, flagVars
<1>5. CASE SyncStep \/ Trainer \/ CleanUp \/ UNCHANGED vars
  BY <1>5 DEF SyncStep, TellQueue, Trainer, StartFit, WaitForQueue, CollectSample,
              CollectEndSignal, TrainBatch, CallSync, BeginSync, EndSync, TransferWeights,
              LogStep, FinalWait, LastWait, CleanUp, vars, rollouterVars, procVars, flagVars,
              callVars
<1>6. QED
  BY <1>1, <1>2, <1>3, <1>4, <1>5 DEF Next, RollouterStep, Terminated

\* While update_param_version awaits the queue's answer it holds the lock:
\* no task is submitted.
LEMMA NoneSubmitted ==
    ASSUME LockInv, call = "count"
    PROVE  ~SubmitSample
<1>1. Waits("sync") /\ "sync" \in Coroutines
  BY DEF Waits, Coroutines
<1>2. Holds("sync")
  BY <1>1 DEF LockInv
<1>3. QED
  BY <1>2 DEF SubmitSample, Holds

LEMMA AheadStep == TypeInv /\ LockInv /\ PlaceInv /\ AheadInv /\ [Next]_vars => AheadInv'
<1> SUFFICES ASSUME TypeInv, LockInv, PlaceInv, AheadInv, [Next]_vars
             PROVE  AheadInv'
  OBVIOUS
<1>1. TypeInv'
  BY TypeStep
<1>2. PICK r0, o0, h0, q0 \in Nat :
        /\ Rolling = r0 /\ Outstanding = o0 /\ Cardinality(InQueue) = q0
        /\ h0 <= 1 /\ o0 = h0 + r0 + q0
  BY Sized DEF Sizes
<1>3. PICK r1, o1 \in Nat : Rolling' = r1 /\ Outstanding' = o1
  BY <1>1, SizedNext DEF Sizes
<1>4. /\ o1 <= o0 \/ (TakeFromPendingQueue /\ o1 <= o0 + 1)
      /\ r1 <= r0 \/ SubmitSample
  BY <1>1, <1>2, <1>3, OutstandingStep
<1>5. /\ staleness \in Nat /\ staleness' \in Nat /\ counted \in Nat /\ Len(queue) \in Nat
      /\ MaxRequiredSamples \in Nat
  BY <1>1, Counted, RollouterAssumption DEF TypeInv, TypeOK, FlagTypeOK
<1>6. /\ o0 <= staleness + 1
      /\ call = "count" => r0 <= counted
      /\ processor = "take" => o0 <= MaxRequiredSamples
      /\ o0 <= MaxRequiredSamples + 1
  BY <1>2 DEF AheadInv
<1>7. o1 <= staleness' + 1
  <2>1. CASE TakeFromPendingQueue
    <3>1. staleness' = staleness + 1
      BY <2>1 DEF TakeFromPendingQueue
    <3>2. QED
      BY <1>4, <1>5, <1>6, <3>1
  <2>2. CASE ResetStaleness
    <3>1. call = "count" /\ staleness' = counted + Len(queue) /\ processor' = processor
      BY <2>2 DEF ResetStaleness, procVars
    <3>2. ~TakeFromPendingQueue
      BY <3>1 DEF TakeFromPendingQueue, ToSubmit
    <3>3. q0 <= Len(queue)
      BY <1>2, QueuedCounted
    <3>4. o1 <= o0 /\ r0 <= counted
      BY <1>4, <1>6, <3>1, <3>2
    <3>5. QED
      BY <1>2, <1>5, <3>1, <3>3, <3>4
  <2>3. CASE staleness' = staleness /\ ~TakeFromPendingQueue
    BY <1>4, <1>5, <1>6, <2>3
  <2>4. QED
    BY <2>1, <2>2, <2>3, ControlSteps
<1>8. call' = "count" => r1 <= counted'
  <2>1. CASE UpdateBegin(syncVersion)
    <3>1. /\ counted' = ActiveTasks + Len(cancelQueue)
          /\ UNCHANGED <<generating, delivering, cancelQueue>>
      BY <2>1 DEF UpdateBegin, taskVars
    <3>2. r1 = r0
      BY <1>2, <1>3, <3>1 DEF Rolling
    <3>3. r0 <= ActiveTasks + Len(cancelQueue)
      BY <1>2, Counted DEF Rolling, ActiveTasks
    <3>4. QED
      BY <3>1, <3>2, <3>3
  <2>2. CASE call = "count" /\ counted' = counted
    BY <1>4, <1>5, <1>6, <2>2, NoneSubmitted
  <2>3. QED
    BY <2>1, <2>2, ControlSteps
<1>9. processor' = "take" => o1 <= MaxRequiredSamples
  <2>1. CASE AwaitPending
    <3>1. staleness < MaxRequiredSamples /\ processor = "top"
      BY <1>5, <2>1 DEF AwaitPending, ShouldPause
    <3>2. ~TakeFromPendingQueue
      BY <3>1 DEF TakeFromPendingQueue
    <3>3. QED
      BY <1>4, <1>5, <1>6, <3>1, <3>2
  <2>2. CASE processor = "take" /\ processor' = "take"
    <3>1. ~TakeFromPendingQueue
      BY <2>2 DEF TakeFromPendingQueue, ToSubmit
    <3>2. QED
      BY <1>4, <1>5, <1>6, <2>2, <3>1
  <2>3. QED
    BY <2>1, <2>2, ControlSteps
<1>10. o1 <= MaxRequiredSamples + 1
  <2>1. CASE TakeFromPendingQueue
    BY <1>4, <1>5, <1>6, <2>1 DEF TakeFromPendingQueue
  <2>2. CASE ~TakeFromPendingQueue
    BY <1>4, <1>5, <1>6, <2>2
  <2>3. QED
    BY <2>1, <2>2
<1>11. QED
  BY <1>3, <1>7, <1>8, <1>9, <1>10 DEF AheadInv

LEMMA AheadInit == Init => AheadInv
<1> SUFFICES ASSUME Init PROVE AheadInv
  OBVIOUS
<1>1. /\ generating = {} /\ delivering = {} /\ cancelQueue = <<>> /\ queue = <<>>
      /\ inHand = NoSample /\ staleness = 0 /\ call = "none" /\ processor = "top"
  BY DEF Init, RollouterInit
<1>2. InHand = {} /\ InQueue = {}
  BY <1>1, NoIds DEF InHand, InQueue
<1>3. Outstanding = 0
  BY <1>1, <1>2, FS_EmptySet DEF Outstanding
<1>4. MaxRequiredSamples \in Nat
  BY RollouterAssumption
<1>5. QED
  BY <1>1, <1>3, <1>4 DEF AheadInv

\* However the resets of staleness_samples interleave with the processor, the
\* rollouter has at most one sample more than max_required_samples under way.
THEOREM RolloutAheadIsBounded == Spec => []RolloutAheadBounded
<1>1. AheadInv => RolloutAheadBounded
  BY DEF AheadInv, RolloutAheadBounded
<1>2. QED
  BY <1>1, AheadInit, AheadStep, LockInvariant, PlaceInvariant, PTL DEF Spec
-----------------------------------------------------------------------------
(* The age of a sample when it is trained on *)

\* The trainer will go on to collect.
InLoop ==
    \/ trainer \in {"start", "collect", "train", "log"}
    \/ trainer \in {"waitValid", "syncing"} /\ ~finalSync

StageInv ==
    /\ finalSync => trainer \in {"waitValid", "syncing", "lastWait", "finished"}
    /\ trainer \in {"waitValid", "syncing"} => localStep = 1

\* From the return of pause() to that of resume().
Quiet == {"paused", "transfer", "updateSent", "updateLock", "count", "validate", "resumeSent",
          "resumeLock"}

\* With partial rollout nothing is generated in between.
ServersInv ==
    PartialRollout => /\ call \in Quiet \cup {"gather"} => serversPaused
                      /\ call \in Quiet => delivering = {}

\* What is on its way to the queue has the rollouter's version or, without
\* partial rollout, the one before.
ArrivalInv ==
    \A e \in delivering :
        /\ e.ver <= rollVersion /\ rollVersion <= e.ver + 1
        /\ PartialRollout \/ call \in {"paused", "transfer", "updateSent", "updateLock"} =>
              e.ver = rollVersion

\* What the trainer has collected since its version began, and before it
\* began the batch.
Before == (localStep - 1) * RequiredSamples
Collected == Before + Len(batch)

Window == MaxRequiredSamples + (IF PartialRollout THEN 1 ELSE 2) * Interval

\* An entry gets older with what is collected, by one interval with each
\* version, and advances in the queue by one with each that is collected.
QueueYoung(q, version, collected) ==
    \A k \in DOMAIN q :
        q[k].id # EndSignal => (version - q[k].ver) * Interval + collected + k <= Window
BatchYoung(b, version, before) ==
    \A k \in DOMAIN b : (version - b[k].ver) * Interval + before + k <= Window

AgeInv ==
    InLoop => /\ QueueYoung(queue, trainerVersion, Collected)
              /\ BatchYoung(batch, trainerVersion, Before)

\* What the invariants relate.
LEMMA AgeTypes ==
    ASSUME TypeInv
    PROVE  /\ RequiredSamples \in Nat \ {0} /\ TriggerSyncStep \in Nat \ {0}
           /\ MaxRequiredSamples \in Nat \ {0}
           /\ localStep \in 1 .. TriggerSyncStep
           /\ trainerVersion \in Nat /\ rollVersion \in Nat /\ syncVersion \in Nat
           /\ queue \in Seq(Entry) /\ Len(queue) <= MaxRequiredSamples
           /\ batch \in Seq([id : Samples, ver : Versions]) /\ Len(batch) \in Nat
           /\ delivering \in SUBSET [id : Samples, ver : Nat]
           /\ PartialRollout \in BOOLEAN
  BY RollouterAssumption
     DEF TypeInv, TypeOK, TrainerTypeOK, FlagTypeOK, TaskTypeOK, MQ!MQTypeOK, Versions

\* The products of the constants, once and for all.
LEMMA Products ==
    ASSUME NEW r \in Nat \ {0}, NEW t \in Nat \ {0}, NEW l \in 1 .. t
    PROVE  /\ r * t \in Nat \ {0}
           /\ (l - 1) * r \in Nat /\ (1 - 1) * r = 0
           /\ l + 1 - 1 = l /\ l * r = (l - 1) * r + r
           /\ (l - 1) * r + r <= r * t
           /\ l = t => (l - 1) * r + r = r * t
<1>1. /\ l \in Int /\ l - 1 \in Nat /\ t - l \in Nat /\ r \in Int /\ t \in Int
  OBVIOUS
<1>2. \A a, b \in Nat : a * b \in Nat
  OBVIOUS
<1>3. l * r = (l - 1) * r + r
  BY <1>1
<1>4. r * t = l * r + (t - l) * r
  BY <1>1
<1>5. r * t # 0
  BY <1>1
<1>6. (l - 1) * r \in Nat /\ (t - l) * r \in Nat /\ r * t \in Nat
  BY <1>1, <1>2
<1>7. l = t => l * r = r * t
  BY <1>1
<1>8. l * r \in Int
  BY <1>1
<1>9. (1 - 1) * r = 0 /\ l + 1 - 1 = l
  BY <1>1
<1>10. QED
  BY <1>3, <1>4, <1>5, <1>6, <1>7, <1>8, <1>9

LEMMA Distances ==
    ASSUME NEW n \in Nat, NEW v \in Nat, NEW m \in Nat
    PROVE  /\ (v - m) * n \in Int
           /\ ((v + 1) - m) * n = (v - m) * n + n
           /\ v = m => (v - m) * n = 0
           /\ v = m + 1 => (v - m) * n = n
           /\ v = m + 2 => (v - m) * n = 2 * n
<1>1. v - m \in Int /\ (v + 1) - m = (v - m) + 1
  OBVIOUS
<1>2. \A d \in Int : d * n \in Int /\ (d + 1) * n = d * n + n
  OBVIOUS
<1>3. ((v + 1) - m) * n = (v - m) * n + n
  BY <1>1, <1>2
<1>4. /\ v = m => v - m = 0
      /\ v = m + 1 => v - m = 1
      /\ v = m + 2 => v - m = 2
  OBVIOUS
<1>5. QED
  BY <1>1, <1>2, <1>3, <1>4

\* The trainer has never collected more than one interval asks for.
LEMMA CollectedBounded ==
    ASSUME TypeInv, PlaceInv
    PROVE  /\ Interval \in Nat \ {0} /\ Before \in Nat /\ Collected \in Nat
           /\ Before + RequiredSamples <= Interval
           /\ Collected <= Interval
           /\ localStep = 1 => Before = 0
           /\ localStep = TriggerSyncStep => Before + RequiredSamples = Interval
           /\ Window \in Nat
<1>1. /\ RequiredSamples \in Nat \ {0} /\ TriggerSyncStep \in Nat \ {0}
      /\ MaxRequiredSamples \in Nat
      /\ localStep \in 1 .. TriggerSyncStep /\ Len(batch) \in Nat
  BY AgeTypes
<1>2. /\ Interval \in Nat \ {0} /\ Before \in Nat
      /\ Before + RequiredSamples <= Interval
      /\ localStep = 1 => Before = 0
      /\ localStep = TriggerSyncStep => Before + RequiredSamples = Interval
  BY <1>1, Products DEF Interval, Before
<1>3. Len(batch) <= RequiredSamples
  BY <1>1, EmptyFacts DEF PlaceInv, EmptyInv
<1>4. Collected \in Nat /\ Collected <= Interval
  BY <1>1, <1>2, <1>3 DEF Collected
<1>5. Window \in Nat
  BY <1>1, <1>2 DEF Window
<1>6. QED
  BY <1>2, <1>4, <1>5

\* The calls and the deliveries: who changes what the two invariants relate.
LEMMA ArrivalStep ==
    TypeInv /\ VersionInv /\ ServersInv /\ ArrivalInv /\ [Next]_vars => ServersInv' /\ ArrivalInv'
<1> SUFFICES ASSUME TypeInv, VersionInv, ServersInv, ArrivalInv, [Next]_vars
             PROVE  ServersInv' /\ ArrivalInv'
  OBVIOUS
<1> DEFINE same == UNCHANGED <<call, serversPaused, rollVersion>>
<1>1. ASSUME same, delivering' \subseteq delivering
      PROVE  ServersInv' /\ ArrivalInv'
  BY <1>1 DEF ServersInv, ArrivalInv
<1>2. CASE \E s \in Samples : FinishGeneration(s)
  <2>1. PICK s \in Samples : FinishGeneration(s)
    BY <1>2
  <2>2. /\ same /\ delivering' = delivering \cup {Finished(s)}
        /\ serversPaused => call = "gather"
    BY <2>1 DEF FinishGeneration, flagVars, callVars
  <2>3. ~(PartialRollout /\ call \in Quiet)
    BY <2>2 DEF ServersInv, Quiet
  <2>4. Finished(s).ver = rollVersion /\ rollVersion \in Nat
    BY AgeTypes DEF Finished
  <2>5. QED
    BY <2>2, <2>3, <2>4 DEF ServersInv, ArrivalInv
<1>3. CASE Feeder \/ Deliver \/ \E s \in Samples : CancelGeneration(s) \/ FailGeneration(s)
  BY <1>1, <1>3
     DEF Feeder, FeedSample, FeedDone, CancelGeneration, FailGeneration, Deliver, DeliverSample,
         flagVars, callVars, taskVars
<1>4. CASE Processor
  BY <1>1, <1>4
     DEF Processor, DecideToPause, SetPaused, BeginWait, EndWait, Park, Reacquire,
         TakeFromCancelQueue, AwaitPending, TakeFromPendingQueue, SubmitSample, flagVars,
         callVars, taskVars
<1>5. CASE Monitor \/ Main
  BY <1>1, <1>5
     DEF Monitor, MonitorCheck, MonitorTick, MonitorReset, Main, PutEndSignal, StopRunning,
         flagVars, callVars, taskVars
<1>6. CASE PauseBegin
  BY <1>6 DEF PauseBegin, taskVars, ServersInv, ArrivalInv, Quiet
<1>7. CASE PauseEnd
  BY <1>7 DEF PauseEnd, AllDone, ServersInv, ArrivalInv, Quiet
<1>8. CASE CallArrives
  BY <1>8 DEF CallArrives, taskVars, flagVars, ServersInv, ArrivalInv, Quiet
<1>9. CASE UpdateBegin(syncVersion)
  <2>1. /\ call = "updateLock" /\ call' = "count" /\ rollVersion' = syncVersion
        /\ UNCHANGED <<delivering, serversPaused>>
    BY <1>9 DEF UpdateBegin, taskVars
  <2>2. /\ rollVersion' = rollVersion + 1 /\ rollVersion \in Nat
        /\ \A e \in delivering : e.ver \in Nat
    BY <2>1, AgeTypes DEF VersionInv
  <2>3. \A e \in delivering : e.ver = rollVersion
    BY <2>1 DEF ArrivalInv
  <2>4. PartialRollout => delivering = {}
    BY <2>1 DEF ServersInv, Quiet
  <2>5. ArrivalInv'
    BY <2>1, <2>2, <2>3, <2>4 DEF ArrivalInv
  <2>6. QED
    BY <2>1, <2>5 DEF ServersInv, Quiet
<1>10. CASE ResetStaleness \/ ReportValidation
  BY <1>10 DEF ResetStaleness, ReportValidation, taskVars, flagVars, ServersInv, ArrivalInv, Quiet
<1>11. CASE Resume
  BY <1>11 DEF Resume, taskVars, ServersInv, ArrivalInv, Quiet
<1>12. CASE SyncStep
  BY <1>12 DEF SyncStep, TellQueue, taskVars, flagVars, ServersInv, ArrivalInv, Quiet
<1>13. CASE CallSync
  BY <1>13 DEF CallSync, BeginSync, LastSyncOver, taskVars, flagVars, ServersInv, ArrivalInv, Quiet
<1>14. CASE EndSync
  BY <1>14 DEF EndSync, TransferWeights, taskVars, flagVars, ServersInv, ArrivalInv, Quiet
<1>15. CASE StartFit \/ WaitForQueue \/ CollectSample \/ CollectEndSignal \/ TrainBatch
            \/ LogStep \/ FinalWait \/ LastWait \/ CleanUp \/ UNCHANGED vars
  BY <1>1, <1>15
     DEF StartFit, WaitForQueue, CollectSample, CollectEndSignal, TrainBatch, LogStep, FinalWait,
         LastWait, CleanUp, vars, rollouterVars, taskVars, flagVars, callVars
<1>16. QED
  BY <1>2, <1>3, <1>4, <1>5, <1>6, <1>7, <1>8, <1>9, <1>10, <1>11, <1>12, <1>13, <1>14, <1>15
     DEF Next, RollouterStep, SampleTask, EndGeneration, RemoteCall, Trainer, Terminated

\* The trainer leaves its loop for good.
LEMMA StageStep == TypeInv /\ StageInv /\ [Next]_vars => StageInv'
<1> SUFFICES ASSUME TypeInv, StageInv, [Next]_vars PROVE StageInv'
  OBVIOUS
<1>1. CASE Trainer
  BY <1>1
     DEF Trainer, StartFit, WaitForQueue, CollectSample, CollectEndSignal, TrainBatch, CallSync,
         EndSync, LogStep, FinalWait, LastWait, trainerVars, StageInv
<1>2. CASE UNCHANGED trainerVars
  BY <1>2 DEF trainerVars, StageInv
<1>3. QED
  BY <1>1, <1>2
     DEF Next, RollouterStep, SyncStep, CleanUp, Terminated, vars

\* The head of the queue leaves: everything else advances.
LEMMA TailYoung ==
    ASSUME NEW q \in Seq(Entry), q # <<>>, NEW version \in Nat, NEW collected \in Nat,
           QueueYoung(q, version, collected), Interval \in Nat, Window \in Nat
    PROVE  /\ QueueYoung(Tail(q), version, collected + 1)
           /\ QueueYoung(Tail(q), version, collected)
           /\ Head(q).id # EndSignal =>
                 (version - Head(q).ver) * Interval + collected + 1 <= Window
<1>1. /\ Tail(q) \in Seq(Entry) /\ Len(q) \in Nat \ {0} /\ Len(Tail(q)) = Len(q) - 1
      /\ Head(q) = q[1]
      /\ \A k \in 1 .. Len(Tail(q)) : Tail(q)[k] = q[k + 1]
  BY TailFacts
<1>2. DOMAIN q = 1 .. Len(q) /\ DOMAIN Tail(q) = 1 .. Len(q) - 1
  BY <1>1
<1>3. ASSUME NEW k \in DOMAIN Tail(q), Tail(q)[k].id # EndSignal
      PROVE  /\ (version - Tail(q)[k].ver) * Interval + (collected + 1) + k <= Window
             /\ (version - Tail(q)[k].ver) * Interval + collected + k <= Window
  <2>1. k \in Nat /\ k + 1 \in DOMAIN q /\ Tail(q)[k] = q[k + 1]
    BY <1>1, <1>2
  <2>2. (version - q[k + 1].ver) * Interval + collected + (k + 1) <= Window
    BY <1>3, <2>1 DEF QueueYoung
  <2>3. q[k + 1].ver \in Nat
    <3>1. q[k + 1] \in Entry
      BY <2>1, ElementFacts
    <3>2. QED
      BY <3>1 DEF Entry, Versions
  <2> DEFINE aged == (version - q[k + 1].ver) * Interval
  <2>4. aged \in Int
    BY <2>3, Distances
  <2>5. aged + collected + (k + 1) <= Window /\ aged = (version - Tail(q)[k].ver) * Interval
    BY <2>1, <2>2
  <2> HIDE DEF aged
  <2>6. aged + (collected + 1) + k <= Window /\ aged + collected + k <= Window
    BY <2>1, <2>4, <2>5
  <2>7. QED
    BY <2>5, <2>6
<1>4. Head(q).id # EndSignal => (version - Head(q).ver) * Interval + collected + 1 <= Window
  BY <1>1, <1>2 DEF QueueYoung
<1>5. QED
  BY <1>3, <1>4 DEF QueueYoung

\* put_sample: what stays in the queue does not move back, and what enters it
\* has at most max_required_samples - 1 in front of it.
LEMMA PutYoung ==
    ASSUME MQ!MQTypeOK, NEW x \in Entry, MQ!PutSample(x),
           NEW version \in Nat, NEW collected \in Nat, Interval \in Nat, Window \in Nat,
           QueueYoung(queue, version, collected),
           x.id # EndSignal =>
               (version - x.ver) * Interval + collected + MaxRequiredSamples <= Window
    PROVE  QueueYoung(queue', version, collected)
<1> DEFINE room == MQ!Room
<1>1. /\ queue \in Seq(Entry) /\ Len(queue) \in Nat /\ Len(queue) <= MaxRequiredSamples
      /\ MaxRequiredSamples \in Nat \ {0}
  BY RollouterAssumption DEF MQ!MQTypeOK
<1>2. /\ room \in Seq(Entry) /\ Len(room) \in Nat /\ Len(room) < MaxRequiredSamples
      /\ QueueYoung(room, version, collected)
  <2>1. CASE MQ!IsFull
    <3>1. queue # <<>> /\ room = Tail(queue) /\ Len(queue) = MaxRequiredSamples
      BY <1>1, <2>1 DEF MQ!IsFull, MQ!Room
    <3>2. QED
      BY <1>1, <3>1, TailFacts, TailYoung
  <2>2. CASE ~MQ!IsFull
    BY <1>1, <2>2 DEF MQ!IsFull, MQ!Room
  <2>3. QED
    BY <2>1, <2>2
<1>3. queue' = Append(room, x)
  BY DEF MQ!PutSample
<1> HIDE DEF room
<1>4. /\ Append(room, x) \in Seq(Entry) /\ Len(Append(room, x)) = Len(room) + 1
      /\ \A k \in 1 .. Len(Append(room, x)) :
            Append(room, x)[k] = IF k <= Len(room) THEN room[k] ELSE x
  BY <1>2, AppendFacts
<1>5. ASSUME NEW k \in DOMAIN queue', queue'[k].id # EndSignal
      PROVE  (version - queue'[k].ver) * Interval + collected + k <= Window
  <2>1. k \in 1 .. Len(room) + 1
    BY <1>2, <1>3, <1>4
  <2>2. CASE k <= Len(room)
    <3>1. k \in DOMAIN room /\ queue'[k] = room[k]
      BY <1>2, <1>3, <1>4, <2>1, <2>2
    <3>2. QED
      BY <1>2, <1>5, <3>1 DEF QueueYoung
  <2>3. CASE k = Len(room) + 1
    <3>1. queue'[k] = x /\ k <= MaxRequiredSamples /\ k \in Nat
      BY <1>1, <1>2, <1>3, <1>4, <2>1, <2>3
    <3>2. x.ver \in Nat
      BY DEF Entry, Versions
    <3>3. (version - x.ver) * Interval \in Int
      BY <3>2, Distances
    <3>4. (version - x.ver) * Interval + collected + MaxRequiredSamples <= Window
      BY <1>5, <3>1
    <3>5. (version - x.ver) * Interval + collected + k <= Window
      BY <1>1, <3>1, <3>3, <3>4
    <3>6. QED
      BY <3>1, <3>5
  <2>4. QED
    BY <1>2, <2>1, <2>2, <2>3
<1>6. QED
  BY <1>5 DEF QueueYoung

\* How far the trainer is ahead of what is delivered to the queue: at most one
\* interval, or two without partial rollout.
LEMMA ArrivesYoung ==
    ASSUME TypeInv, PlaceInv, VersionInv, StageInv, ServersInv, ArrivalInv, InLoop,
           NEW e \in delivering
    PROVE  (trainerVersion - e.ver) * Interval + Collected + MaxRequiredSamples <= Window
<1>1. /\ e.ver \in Nat /\ trainerVersion \in Nat /\ rollVersion \in Nat /\ syncVersion \in Nat
      /\ MaxRequiredSamples \in Nat /\ PartialRollout \in BOOLEAN
  BY AgeTypes
<1>2. /\ Interval \in Nat /\ Collected \in Nat /\ Collected <= Interval
  BY CollectedBounded
<1>3. /\ e.ver <= rollVersion /\ rollVersion <= e.ver + 1
      /\ PartialRollout \/ call \in {"paused", "transfer", "updateSent", "updateLock"} =>
            e.ver = rollVersion
      /\ PartialRollout => call \notin Quiet
  BY DEF ArrivalInv, ServersInv
<1> DEFINE age == (trainerVersion - e.ver) * Interval
           slack == (IF PartialRollout THEN 1 ELSE 2) * Interval
<1>4. /\ age \in Int
      /\ trainerVersion = e.ver => age = 0
      /\ trainerVersion = e.ver + 1 => age = Interval
      /\ trainerVersion = e.ver + 2 => age = 2 * Interval
  BY <1>1, <1>2, Distances
<1>5. /\ slack = IF PartialRollout THEN Interval ELSE 2 * Interval
      /\ Window = MaxRequiredSamples + slack
  BY <1>1, <1>2 DEF Window
<1> HIDE DEF age, slack
<1>6. ASSUME trainer \in {"waitValid", "syncing"}
      PROVE  age + Collected + MaxRequiredSamples <= Window
  <2>1. Collected = 0
    <3>1. batch = <<>> /\ localStep = 1
      BY <1>6 DEF PlaceInv, EmptyInv, StageInv
    <3>2. Len(batch) = 0
      BY <3>1, EmptyFacts
    <3>3. QED
      BY <3>1, <3>2, CollectedBounded DEF Collected
  <2>2. \/ trainerVersion = e.ver \/ trainerVersion = e.ver + 1
        \/ trainerVersion = e.ver + 2 /\ ~PartialRollout
    BY <1>1, <1>3, <1>6 DEF VersionInv, Quiet
  <2>3. QED
    BY <1>1, <1>2, <1>4, <1>5, <2>1, <2>2
<1>7. ASSUME trainer \notin {"waitValid", "syncing"}
      PROVE  age + Collected + MaxRequiredSamples <= Window
  <2>1. \/ trainerVersion = e.ver
        \/ trainerVersion = e.ver + 1 /\ ~PartialRollout
    BY <1>1, <1>3, <1>7 DEF VersionInv, Quiet
  <2>2. QED
    BY <1>1, <1>2, <1>4, <1>5, <2>1
<1>8. QED
  BY <1>6, <1>7 DEF age

LEMMA AgeUntouched ==
    ASSUME AgeInv, UNCHANGED <<queue, batch, localStep, trainerVersion>>, InLoop' => InLoop
    PROVE  AgeInv'
  BY DEF AgeInv, QueueYoung, BatchYoung, Collected, Before

\* The trainer collects, trains and starts a version.
LEMMA AgeTrainer ==
    ASSUME TypeInv, PlaceInv, StageInv, AgeInv, Trainer
    PROVE  AgeInv'
<1>t. /\ trainerVersion \in Nat /\ queue \in Seq(Entry)
      /\ batch \in Seq([id : Samples, ver : Versions]) /\ Len(batch) \in Nat
      /\ RequiredSamples \in Nat \ {0} /\ TriggerSyncStep \in Nat \ {0}
      /\ localStep \in 1 .. TriggerSyncStep
  BY AgeTypes
<1>b. /\ Interval \in Nat \ {0} /\ Before \in Nat /\ Collected \in Nat /\ Window \in Nat
      /\ localStep = 1 => Before = 0
      /\ localStep = TriggerSyncStep => Before + RequiredSamples = Interval
  BY CollectedBounded
<1>1. CASE StartFit \/ WaitForQueue \/ CallSync \/ EndSync \/ LogStep \/ FinalWait \/ LastWait
  <2>1. CASE FinalWait
    <3>1. ~InLoop'
      BY <2>1 DEF FinalWait, InLoop
    <3>2. QED
      BY <3>1 DEF AgeInv
  <2>2. CASE StartFit \/ WaitForQueue \/ CallSync \/ EndSync \/ LogStep \/ LastWait
    <3>1. UNCHANGED <<queue, batch, localStep, trainerVersion>>
      BY <2>2 DEF StartFit, WaitForQueue, CallSync, BeginSync, EndSync, TransferWeights, LogStep,
                  LastWait, LogValidation, MQ!GetValidate, MQ!WaitForSample, trainerVars, queueVars
    <3>2. InLoop' => InLoop
      BY <2>2 DEF StartFit, WaitForQueue, CallSync, EndSync, LogStep, LastWait, InLoop, trainerVars
    <3>3. QED
      BY <3>1, <3>2, AgeUntouched
  <2>3. QED
    BY <1>1, <2>1, <2>2
<1>2. CASE CollectSample
  <2> DEFINE x == Head(queue)
  <2>1. /\ queue # <<>> /\ x.id # EndSignal /\ queue' = Tail(queue) /\ batch' = Append(batch, x)
        /\ UNCHANGED <<localStep, trainerVersion>> /\ InLoop
    BY <1>2 DEF CollectSample, MQ!GetSample, InLoop
  <2>2. QueueYoung(queue, trainerVersion, Collected) /\ BatchYoung(batch, trainerVersion, Before)
    BY <2>1 DEF AgeInv
  <2>3. /\ QueueYoung(queue', trainerVersion, Collected + 1)
        /\ (trainerVersion - x.ver) * Interval + Collected + 1 <= Window
    <3>1. Interval \in Nat
      BY <1>b
    <3>2. /\ QueueYoung(Tail(queue), trainerVersion, Collected + 1)
          /\ Head(queue).id # EndSignal =>
                (trainerVersion - Head(queue).ver) * Interval + Collected + 1 <= Window
      BY <1>t, <1>b, <2>1, <2>2, <3>1, TailYoung
    <3>3. QED
      BY <2>1, <3>2
  <2>4. x \in [id : Samples, ver : Versions]
    <3>1. x \in Entry
      BY <1>t, <2>1, TailFacts
    <3>2. QED
      BY <2>1, <3>1 DEF Entry
  <2>5. x.ver \in Nat /\ (trainerVersion - x.ver) * Interval \in Int
    BY <1>t, <1>b, <2>4, Distances DEF Versions
  <2> HIDE DEF x
  <2>6. /\ Len(batch') = Len(batch) + 1
        /\ \A k \in DOMAIN batch' : batch'[k] = IF k <= Len(batch) THEN batch[k] ELSE x
        /\ DOMAIN batch' = 1 .. Len(batch) + 1 /\ DOMAIN batch = 1 .. Len(batch)
    BY <1>t, <2>1, <2>4, AppendFacts
  <2>7. Before' = Before /\ Collected' = Collected + 1
    BY <1>t, <1>b, <2>1, <2>6 DEF Collected, Before
  <2>8. ASSUME NEW k \in DOMAIN batch'
        PROVE  (trainerVersion - batch'[k].ver) * Interval + Before + k <= Window
    <3>1. CASE k \in DOMAIN batch
      BY <2>2, <2>6, <3>1 DEF BatchYoung
    <3>2. CASE k = Len(batch) + 1
      <4>1. batch'[k] = x /\ Before + k = Collected + 1 /\ k \in Nat
        BY <1>t, <1>b, <2>6, <3>2 DEF Collected
      <4>2. QED
        BY <1>b, <2>3, <2>5, <4>1
    <3>3. QED
      BY <1>t, <2>6, <3>1, <3>2
  <2>9. BatchYoung(batch', trainerVersion, Before)
    BY <2>8 DEF BatchYoung
  <2>10. QED
    BY <2>1, <2>3, <2>7, <2>9 DEF AgeInv
<1>3. CASE CollectEndSignal
  <2>1. ~InLoop'
    BY <1>3 DEF CollectEndSignal, InLoop
  <2>2. QED
    BY <2>1 DEF AgeInv
<1>4. CASE TrainBatch
  <2>1. /\ trainer = "train" /\ UNCHANGED queue /\ batch' = <<>> /\ InLoop
        /\ Len(batch) = RequiredSamples
    BY <1>4 DEF TrainBatch, queueVars, InLoop, PlaceInv, EmptyInv
  <2>2. QueueYoung(queue, trainerVersion, Collected) /\ Collected = Before + RequiredSamples
    BY <2>1 DEF AgeInv, Collected
  <2>3. \A v \in Nat, c \in Nat : BatchYoung(batch', v, c)
    BY <2>1 DEF BatchYoung
  <2>4. Len(batch') = 0
    BY <2>1, EmptyFacts
  <2>5. CASE localStep < TriggerSyncStep
    <3>1. localStep' = localStep + 1 /\ trainerVersion' = trainerVersion
      BY <1>4, <2>5 DEF TrainBatch
    <3>2. Before' = Before + RequiredSamples
      BY <1>t, <3>1, Products DEF Before
    <3>3. Collected' = Collected
      BY <1>b, <1>t, <2>2, <2>4, <3>2 DEF Collected
    <3>4. Before' \in Nat
      BY <1>b, <1>t, <3>2
    <3>5. QED
      BY <1>t, <2>1, <2>2, <2>3, <3>1, <3>3, <3>4 DEF AgeInv
  <2>6. CASE ~(localStep < TriggerSyncStep)
    <3>1. localStep' = 1 /\ trainerVersion' = trainerVersion + 1 /\ localStep = TriggerSyncStep
      BY <1>4, <1>t, <2>6 DEF TrainBatch
    <3>2. Collected = Interval
      BY <1>b, <2>2, <3>1
    <3>3. Before' = 0 /\ Collected' = 0
      BY <1>t, <2>4, <3>1, Products DEF Before, Collected
    <3>4. QueueYoung(queue, trainerVersion + 1, 0)
      <4> SUFFICES ASSUME NEW k \in DOMAIN queue, queue[k].id # EndSignal
                   PROVE  ((trainerVersion + 1) - queue[k].ver) * Interval + 0 + k <= Window
        BY DEF QueueYoung
      <4>1. (trainerVersion - queue[k].ver) * Interval + Collected + k <= Window
        BY <2>2 DEF QueueYoung
      <4>2. queue[k].ver \in Nat /\ k \in Nat
        <5>1. queue[k] \in Entry /\ k \in Nat
          BY <1>t, ElementFacts
        <5>2. QED
          BY <5>1 DEF Entry, Versions
      <4>3. /\ (trainerVersion - queue[k].ver) * Interval \in Int
            /\ ((trainerVersion + 1) - queue[k].ver) * Interval
                 = (trainerVersion - queue[k].ver) * Interval + Interval
        BY <1>t, <1>b, <4>2, Distances
      <4> DEFINE age == (trainerVersion - queue[k].ver) * Interval
                 next == ((trainerVersion + 1) - queue[k].ver) * Interval
      <4>4. age \in Int /\ age + Interval + k <= Window /\ next = age + Interval
        BY <3>2, <4>1, <4>3
      <4> HIDE DEF age, next
      <4>5. next + 0 + k <= Window
        BY <1>b, <4>2, <4>4
      <4>6. QED
        BY <4>5 DEF next
    <3>5. QED
      BY <1>t, <2>1, <2>3, <3>1, <3>3, <3>4 DEF AgeInv
  <2>7. QED
    BY <2>5, <2>6
<1>5. QED
  BY <1>1, <1>2, <1>3, <1>4 DEF Trainer

LEMMA AgeStep ==
    TypeInv /\ PlaceInv /\ VersionInv /\ StageInv /\ ServersInv /\ ArrivalInv /\ AgeInv
        /\ [Next]_vars => AgeInv'
<1> SUFFICES ASSUME TypeInv, PlaceInv, VersionInv, StageInv, ServersInv, ArrivalInv, AgeInv,
                    [Next]_vars
             PROVE  AgeInv'
  OBVIOUS
<1>t. /\ trainerVersion \in Nat /\ Interval \in Nat /\ Collected \in Nat /\ Window \in Nat
      /\ MQ!MQTypeOK
  BY AgeTypes, CollectedBounded DEF TypeInv, TypeOK
<1>1. ASSUME NEW x \in Entry, MQ!PutSample(x), Others,
             x.id # EndSignal /\ InLoop => x \in delivering
      PROVE  AgeInv'
  <2>1. UNCHANGED <<trainer, batch, localStep, trainerVersion, finalSync>>
    BY <1>1 DEF Others, trainerVars
  <2>2. InLoop' = InLoop /\ Before' = Before /\ Collected' = Collected
    BY <2>1 DEF InLoop, Before, Collected
  <2>3. CASE InLoop
    <3>1. QueueYoung(queue, trainerVersion, Collected) /\ BatchYoung(batch, trainerVersion, Before)
      BY <2>3 DEF AgeInv
    <3>2. QueueYoung(queue', trainerVersion, Collected)
      BY <1>t, <1>1, <2>3, <3>1, PutYoung, ArrivesYoung
    <3>3. QED
      BY <2>1, <2>2, <3>1, <3>2 DEF AgeInv
  <2>4. CASE ~InLoop
    BY <2>2, <2>4 DEF AgeInv
  <2>5. QED
    BY <2>3, <2>4
<1>2. CASE \E e \in delivering : DeliverSample(e) /\ Others
  <2>1. PICK e \in delivering : DeliverSample(e) /\ Others
    BY <1>2
  <2>2. e \in Entry
    BY AgeTypes DEF Entry, Versions
  <2>3. QED
    BY <1>1, <2>1, <2>2 DEF DeliverSample
<1>3. CASE PutEndSignal /\ Others
  <2>1. [id |-> EndSignal, ver |-> rollVersion] \in Entry
    BY AgeTypes DEF Entry, Versions
  <2>2. QED
    BY <1>1, <1>3, <2>1 DEF PutEndSignal
<1>4. CASE Trainer
  BY <1>4, AgeTrainer
<1>5. CASE CleanUp
  <2>1. ~InLoop'
    BY <1>5 DEF CleanUp, RunOver, InLoop, trainerVars
  <2>2. QED
    BY <2>1 DEF AgeInv
<1>6. ASSUME UNCHANGED <<queue, trainerVars>>
      PROVE  AgeInv'
  BY <1>6, AgeUntouched DEF trainerVars, InLoop
<1>7. CASE (Feeder \/ Processor \/ Monitor \/ StopRunning \/ RemoteCall
            \/ \E s \in Samples : EndGeneration(s) \/ FailGeneration(s)) /\ Others
  <2>1. CASE Feeder \/ \E s \in Samples : EndGeneration(s) \/ FailGeneration(s)
    BY <1>6, <1>7, <2>1
       DEF Feeder, FeedSample, FeedDone, EndGeneration, FinishGeneration, CancelGeneration,
           FailGeneration, queueVars, Others
  <2>2. CASE Processor
    BY <1>6, <1>7, <2>2
       DEF Processor, DecideToPause, SetPaused, BeginWait, EndWait, Park, Reacquire,
           TakeFromCancelQueue, AwaitPending, TakeFromPendingQueue, SubmitSample, queueVars,
           Others
  <2>3. CASE Monitor \/ StopRunning \/ RemoteCall
    BY <1>6, <1>7, <2>3
       DEF Monitor, MonitorCheck, MonitorTick, MonitorReset, StopRunning, RemoteCall, PauseBegin,
           PauseEnd, CallArrives, UpdateBegin, ResetStaleness, ReportValidation, Resume,
           MQ!PutValidate, queueVars, Others
  <2>4. QED
    BY <1>7, <2>1, <2>2, <2>3
<1>8. CASE SyncStep \/ UNCHANGED vars
  BY <1>6, <1>8 DEF SyncStep, TellQueue, MQ!UpdateVersion, vars, queueVars
<1>9. QED
  BY <1>2, <1>3, <1>4, <1>5, <1>7, <1>8
     DEF Next, RollouterStep, SampleTask, Deliver, Main, Terminated, Others

LEMMA AgeInit == Init => StageInv /\ ServersInv /\ ArrivalInv /\ AgeInv
<1> SUFFICES ASSUME Init PROVE StageInv /\ ServersInv /\ ArrivalInv /\ AgeInv
  OBVIOUS
<1>1. /\ trainer = "start" /\ ~finalSync /\ call = "none" /\ delivering = {}
      /\ queue = <<>> /\ batch = <<>>
  BY DEF Init, RollouterInit, TrainerInit
<1>2. QED
  BY <1>1 DEF StageInv, ServersInv, ArrivalInv, AgeInv, QueueYoung, BatchYoung, Quiet

\* A sample is trained on with a version that lies less than
\* max_required_samples and one interval behind, or two intervals without
\* partial rollout, for every threshold, batch size and trigger step.
THEOREM StalenessIsBounded == Spec => []StalenessBounded
<1>1. TypeInv /\ PlaceInv /\ AgeInv => StalenessBounded
  <2> SUFFICES ASSUME TypeInv, PlaceInv, AgeInv, NEW i \in DOMAIN batch
               PROVE  (trainerVersion - batch[i].ver) * Interval < Window
    BY DEF StalenessBounded, Window
  <2>1. batch # <<>>
    BY EmptyFacts
  <2>2. InLoop
    BY <2>1 DEF PlaceInv, EmptyInv, InLoop
  <2>3. (trainerVersion - batch[i].ver) * Interval + Before + i <= Window
    BY <2>2 DEF AgeInv, BatchYoung
  <2>4. /\ Interval \in Nat /\ Before \in Nat /\ Window \in Nat
    BY CollectedBounded
  <2>5. i \in Nat \ {0} /\ batch[i].ver \in Nat /\ trainerVersion \in Nat
    <3>1. /\ batch \in Seq([id : Samples, ver : Versions]) /\ trainerVersion \in Nat
      BY AgeTypes
    <3>2. batch[i] \in [id : Samples, ver : Versions]
      BY <3>1, ElementFacts
    <3>3. i \in Nat \ {0}
      BY <3>1
    <3>4. QED
      BY <3>1, <3>2, <3>3 DEF Versions
  <2>6. (trainerVersion - batch[i].ver) * Interval \in Int
    BY <2>4, <2>5, Distances
  <2> DEFINE age == (trainerVersion - batch[i].ver) * Interval
  <2>7. age \in Int /\ age + Before + i <= Window
    BY <2>3, <2>6
  <2> HIDE DEF age
  <2>8. age < Window
    BY <2>4, <2>5, <2>7
  <2>9. QED
    BY <2>8 DEF age
<1>2. QED
  BY <1>1, AgeInit, AgeStep, StageStep, ArrivalStep, VersionInit, VersionStep, PlaceInvariant, PTL
     DEF Spec
-----------------------------------------------------------------------------
(* Threshold 0: the run is on policy *)

\* update_param_version is on its way, or counts.
Awaited == call \in {"updateSent", "updateLock", "count"}

\* From the last batch of a version until staleness_samples is reset.
Renewing == trainer \in {"waitValid", "syncing"} \/ Awaited

\* With threshold 0 the samples of a version are exactly those it trains on:
\* what is collected and what is outstanding share max_required_samples.
\* When all are collected nothing is outstanding, and until the reset
\* staleness_samples keeps the processor from taking another one.
BudgetInv ==
    /\ Collected + Outstanding <= MaxRequiredSamples
    /\ Renewing => /\ Outstanding = 0 /\ Collected = 0 /\ processor # "take"
                   /\ staleness >= MaxRequiredSamples
    /\ Awaited => trainer \in {"log", "collect"}
    /\ ~Renewing => /\ Collected + Outstanding <= staleness
                    /\ processor = "take" => Collected + Outstanding < MaxRequiredSamples

QueueCurrent(q, version) == \A k \in DOMAIN q : q[k].id # EndSignal => q[k].ver = version
Current(set, version) == \A e \in set : e.ver = version

CurrentInv ==
    /\ Current(delivering, trainerVersion)
    /\ QueueCurrent(queue, trainerVersion) /\ QueueCurrent(batch, trainerVersion)

PolicyInv == (MaxRequiredSamples = Interval /\ InLoop) => (BudgetInv /\ CurrentInv)

\* What the queue holds after put_sample was in it before, or is the newcomer.
LEMMA PutCurrent ==
    ASSUME MQ!MQTypeOK, NEW x \in Entry, MQ!PutSample(x), NEW version,
           QueueCurrent(queue, version), x.id # EndSignal => x.ver = version
    PROVE  QueueCurrent(queue', version)
<1> DEFINE room == MQ!Room
<1>1. queue \in Seq(Entry) /\ MaxRequiredSamples \in Nat \ {0}
  BY RollouterAssumption DEF MQ!MQTypeOK
<1>2. room \in Seq(Entry) /\ QueueCurrent(room, version)
  <2>1. CASE MQ!IsFull
    <3>1. queue # <<>> /\ room = Tail(queue)
      BY <1>1, <2>1 DEF MQ!IsFull, MQ!Room
    <3>2. /\ Tail(queue) \in Seq(Entry) /\ Len(queue) \in Nat
          /\ Len(Tail(queue)) = Len(queue) - 1
          /\ \A k \in 1 .. Len(Tail(queue)) : Tail(queue)[k] = queue[k + 1]
      BY <1>1, <3>1, TailFacts
    <3>3. ASSUME NEW k \in DOMAIN Tail(queue)
          PROVE  k + 1 \in DOMAIN queue /\ Tail(queue)[k] = queue[k + 1]
      BY <1>1, <3>2
    <3>4. QED
      BY <3>1, <3>2, <3>3 DEF QueueCurrent
  <2>2. CASE ~MQ!IsFull
    BY <1>1, <2>2 DEF MQ!Room
  <2>3. QED
    BY <2>1, <2>2
<1>3. queue' = Append(room, x)
  BY DEF MQ!PutSample
<1> HIDE DEF room
<1>4. /\ Append(room, x) \in Seq(Entry) /\ Len(room) \in Nat
      /\ Len(Append(room, x)) = Len(room) + 1
      /\ \A k \in 1 .. Len(Append(room, x)) :
            Append(room, x)[k] = IF k <= Len(room) THEN room[k] ELSE x
  BY <1>2, AppendFacts
<1>5. ASSUME NEW k \in DOMAIN queue'
      PROVE  queue'[k] = x \/ (k \in DOMAIN room /\ queue'[k] = room[k])
  BY <1>2, <1>3, <1>4
<1>6. QED
  BY <1>2, <1>5 DEF QueueCurrent

\* What the trainer receives leaves the samples the rollouter is ahead with.
LEMMA CollectedOne ==
    ASSUME TypeInv, TypeInv', PlaceInv, CollectSample
    PROVE  Outstanding' = Outstanding - 1
<1>1. PICK g0, d0, c0, h0, q0, r0, o0 \in Nat :
        /\ Cardinality(generating) = g0 /\ Cardinality(delivering) = d0
        /\ Len(cancelQueue) = c0 /\ h0 <= 1
        /\ Cardinality(InHand) = h0 /\ Cardinality(InQueue) = q0
        /\ Rolling = r0 /\ r0 = g0 + d0 + c0 /\ Outstanding = o0 /\ o0 = h0 + r0 + q0
  BY Sized DEF Sizes
<1>2. PICK g1, d1, c1, h1, q1, r1, o1 \in Nat :
        /\ Cardinality(generating)' = g1 /\ Cardinality(delivering)' = d1
        /\ Len(cancelQueue)' = c1 /\ h1 <= 1
        /\ Cardinality(InHand)' = h1 /\ Cardinality(InQueue)' = q1
        /\ Rolling' = r1 /\ r1 = g1 + d1 + c1 /\ Outstanding' = o1 /\ o1 = h1 + r1 + q1
  BY SizedNext DEF Sizes
<1>3. UNCHANGED <<generating, delivering, cancelQueue, inHand>>
  BY DEF CollectSample, rollouterVars, taskVars, procVars
<1>4. /\ Head(queue).id \in InQueue
      /\ InQueue' = InQueue \ {Head(queue).id}
  BY CollectMoves, PlaceNames DEF Moves, Kinds
<1>5. q1 = q0 - 1
  BY <1>1, <1>2, <1>4, Counted, CardinalityFacts
<1>6. h1 = h0 /\ g1 = g0 /\ d1 = d0 /\ c1 = c0
  BY <1>1, <1>2, <1>3 DEF InHand
<1>7. QED
  BY <1>1, <1>2, <1>5, <1>6

\* Nothing outstanding: nothing in tasks and nothing but the end signal queued.
LEMMA NothingOutstanding ==
    ASSUME TypeInv, Outstanding = 0
    PROVE  generating = {} /\ delivering = {} /\ InQueue = {}
<1>1. PICK g0, d0, c0, h0, q0, r0, o0 \in Nat :
        /\ Cardinality(generating) = g0 /\ Cardinality(delivering) = d0
        /\ Len(cancelQueue) = c0 /\ h0 <= 1
        /\ Cardinality(InHand) = h0 /\ Cardinality(InQueue) = q0
        /\ Rolling = r0 /\ r0 = g0 + d0 + c0 /\ Outstanding = o0 /\ o0 = h0 + r0 + q0
  BY Sized DEF Sizes
<1>2. g0 = 0 /\ d0 = 0 /\ q0 = 0
  BY <1>1
<1>3. QED
  BY <1>1, <1>2, Counted, FS_EmptySet

\* Only the count of update_param_version ends what the end of a
\* synchronization began.
LEMMA AwaitedKept ==
    ASSUME [Next]_vars, UNCHANGED trainerVars
    PROVE  ResetStaleness \/ (Awaited' <=> Awaited)
<1>1. CASE Feeder \/ SampleTask
  BY <1>1 DEF Feeder, FeedSample, FeedDone, SampleTask, EndGeneration, FinishGeneration,
              CancelGeneration, FailGeneration, Deliver, DeliverSample, callVars, Awaited
<1>2. CASE Processor
  BY <1>2
     DEF Processor, DecideToPause, SetPaused, BeginWait, EndWait, Park, Reacquire,
         TakeFromCancelQueue, AwaitPending, TakeFromPendingQueue, SubmitSample, callVars, Awaited
<1>3. CASE Monitor \/ Main
  BY <1>3 DEF Monitor, MonitorCheck, MonitorTick, MonitorReset, Main, PutEndSignal, StopRunning,
              callVars, Awaited
<1>4. CASE RemoteCall
  BY <1>4 DEF RemoteCall, PauseBegin, PauseEnd, CallArrives, UpdateBegin, ReportValidation,
              Resume, Awaited
<1>5. CASE Trainer
  BY <1>5 DEF Trainer, StartFit, WaitForQueue, CollectSample, CollectEndSignal, TrainBatch,
              CallSync, BeginSync, LastSyncOver, EndSync, LogStep, FinalWait, LastWait,
              rollouterVars, callVars, trainerVars, Awaited
<1>6. CASE SyncStep \/ CleanUp \/ UNCHANGED vars
  BY <1>6 DEF SyncStep, TellQueue, CleanUp, vars, rollouterVars, callVars, Awaited
<1>7. QED
  BY <1>1, <1>2, <1>3, <1>4, <1>5, <1>6 DEF Next, RollouterStep, Terminated

\* The rollouter's steps keep the budget.
LEMMA BudgetRollouter ==
    ASSUME TypeInv, TypeInv', PlaceInv, BudgetInv, [Next]_vars, UNCHANGED trainerVars
    PROVE  BudgetInv'
<1>1. PICK o0 \in Nat : Outstanding = o0
  BY Sized DEF Sizes
<1>2. PICK o1 \in Nat : Outstanding' = o1
  BY SizedNext DEF Sizes
<1>3. /\ staleness \in Nat /\ staleness' \in Nat
      /\ MaxRequiredSamples \in Nat \ {0} /\ Collected \in Nat
  BY AgeTypes, CollectedBounded DEF TypeInv, TypeOK, FlagTypeOK
<1>4. Collected' = Collected /\ trainer' = trainer
  BY DEF trainerVars, Collected, Before
<1>5. /\ o1 <= o0 \/ (TakeFromPendingQueue /\ o1 <= o0 + 1)
      /\ TakeFromPendingQueue \/ ResetStaleness \/ staleness' = staleness
      /\ processor' = "take" => AwaitPending \/ processor = "take"
      /\ ResetStaleness \/ (Awaited' <=> Awaited)
  BY <1>1, <1>2, OutstandingStep, ControlSteps, AwaitedKept
<1>6. CASE ResetStaleness
  <2>1. /\ call = "count" /\ call' = "validate" /\ UNCHANGED processor
    BY <1>6 DEF ResetStaleness, procVars
  <2>2. /\ Awaited /\ ~Awaited' /\ trainer \in {"log", "collect"}
        /\ Outstanding = 0 /\ Collected = 0 /\ processor # "take"
    BY <2>1 DEF BudgetInv, Renewing, Awaited
  <2>3. o1 = 0
    BY <1>1, <1>2, <1>5, <2>2 DEF TakeFromPendingQueue
  <2>4. QED
    BY <1>2, <1>3, <1>4, <2>1, <2>2, <2>3 DEF BudgetInv, Renewing
<1>7. CASE TakeFromPendingQueue /\ ~ResetStaleness
  <2>1. /\ processor = "take" /\ processor' # "take" /\ staleness' = staleness + 1
        /\ UNCHANGED call
    BY <1>7 DEF TakeFromPendingQueue, ToSubmit, callVars
  <2>2. /\ ~Renewing /\ ~Renewing' /\ ~Awaited'
        /\ Collected + o0 <= staleness /\ Collected + o0 < MaxRequiredSamples
    BY <1>1, <1>4, <1>5, <1>7, <2>1 DEF BudgetInv, Renewing
  <2>3. Collected + o1 <= staleness' /\ Collected + o1 <= MaxRequiredSamples
    BY <1>1, <1>2, <1>3, <1>5, <2>1, <2>2
  <2>4. QED
    BY <1>2, <1>4, <2>1, <2>2, <2>3 DEF BudgetInv
<1>8. CASE ~TakeFromPendingQueue /\ ~ResetStaleness
  <2>1. o1 <= o0 /\ staleness' = staleness /\ (Awaited' <=> Awaited) /\ (Renewing' <=> Renewing)
    BY <1>4, <1>5, <1>8 DEF Renewing
  <2>2. CASE Renewing
    <3>1. /\ o0 = 0 /\ Collected = 0 /\ processor # "take" /\ staleness >= MaxRequiredSamples
      BY <1>1, <2>2 DEF BudgetInv
    <3>2. ~AwaitPending
      BY <1>3, <3>1 DEF AwaitPending, ShouldPause
    <3>3. o1 = 0 /\ processor' # "take"
      BY <1>1, <1>2, <1>5, <2>1, <3>1, <3>2
    <3>4. QED
      BY <1>2, <1>3, <1>4, <2>1, <2>2, <3>1, <3>3 DEF BudgetInv
  <2>3. CASE ~Renewing
    <3>1. Collected + o0 <= staleness /\ Collected + o0 <= MaxRequiredSamples
      BY <1>1, <2>3 DEF BudgetInv
    <3>2. Collected + o1 <= staleness' /\ Collected + o1 <= MaxRequiredSamples
      BY <1>1, <1>2, <1>3, <2>1, <3>1
    <3>3. processor' = "take" => Collected + o1 < MaxRequiredSamples
      <4>1. AwaitPending => Collected + o0 < MaxRequiredSamples
        BY <1>1, <1>3, <3>1 DEF AwaitPending, ShouldPause
      <4>2. processor = "take" => Collected + o0 < MaxRequiredSamples
        BY <1>1, <2>3 DEF BudgetInv
      <4>3. QED
        BY <1>1, <1>2, <1>3, <1>5, <2>1, <4>1, <4>2
    <3>4. Awaited' => trainer' \in {"log", "collect"}
      BY <1>4, <2>1 DEF BudgetInv
    <3>5. QED
      BY <1>2, <1>4, <2>1, <2>3, <3>2, <3>3, <3>4 DEF BudgetInv
  <2>4. QED
    BY <2>2, <2>3
<1>9. QED
  BY <1>6, <1>7, <1>8

\* The rollouter's steps finish samples with the trainer's version only.
LEMMA CurrentRollouter ==
    ASSUME TypeInv, VersionInv, BudgetInv, CurrentInv, InLoop, [Next]_vars,
           UNCHANGED trainerVars
    PROVE  CurrentInv'
<1>1. UNCHANGED <<trainer, trainerVersion, batch>> /\ QueueCurrent(batch', trainerVersion)
  BY DEF trainerVars, CurrentInv
<1>2. MQ!MQTypeOK
  BY DEF TypeInv, TypeOK
<1>3. ASSUME QueueCurrent(queue', trainerVersion), Current(delivering', trainerVersion)
      PROVE  CurrentInv'
  BY <1>1, <1>3 DEF CurrentInv
<1>4. ASSUME UNCHANGED queue, delivering' \subseteq delivering
      PROVE  CurrentInv'
  BY <1>3, <1>4 DEF CurrentInv, Current
<1>5. CASE \E s \in Samples : FinishGeneration(s)
  <2>1. PICK s \in Samples : FinishGeneration(s)
    BY <1>5
  <2>2. /\ s \in generating /\ UNCHANGED queue
        /\ delivering' = delivering \cup {Finished(s)}
    BY <2>1 DEF FinishGeneration, queueVars
  <2>3. ~Renewing
    BY <2>2, NothingOutstanding DEF BudgetInv
  <2>4. rollVersion = trainerVersion
    BY <2>3, AgeTypes DEF Renewing, Awaited, VersionInv
  <2>5. Finished(s).ver = trainerVersion
    BY <2>4 DEF Finished
  <2>6. QED
    BY <1>3, <2>2, <2>5 DEF CurrentInv, Current
<1>6. CASE Deliver
  <2>1. PICK e \in delivering : DeliverSample(e)
    BY <1>6 DEF Deliver
  <2>2. e \in Entry /\ e.ver = trainerVersion
    BY AgeTypes DEF Entry, Versions, CurrentInv, Current
  <2>3. MQ!PutSample(e) /\ delivering' \subseteq delivering
    BY <2>1 DEF DeliverSample
  <2>4. QueueCurrent(queue', trainerVersion)
    BY <1>2, <2>2, <2>3, PutCurrent DEF CurrentInv
  <2>5. QED
    BY <1>3, <2>3, <2>4 DEF CurrentInv, Current
<1>7. CASE PutEndSignal
  <2>1. [id |-> EndSignal, ver |-> rollVersion] \in Entry
    BY AgeTypes DEF Entry, Versions
  <2>2. /\ MQ!PutSample([id |-> EndSignal, ver |-> rollVersion]) /\ UNCHANGED delivering
    BY <1>7 DEF PutEndSignal, taskVars
  <2>3. QueueCurrent(queue', trainerVersion)
    BY <1>2, <2>1, <2>2, PutCurrent DEF CurrentInv
  <2>4. QED
    BY <1>3, <2>2, <2>3 DEF CurrentInv
<1>8. CASE Feeder \/ \E s \in Samples : CancelGeneration(s) \/ FailGeneration(s)
  BY <1>4, <1>8 DEF Feeder, FeedSample, FeedDone, CancelGeneration, FailGeneration, queueVars,
                    taskVars
<1>9. CASE Processor
  BY <1>4, <1>9
     DEF Processor, DecideToPause, SetPaused, BeginWait, EndWait, Park, Reacquire,
         TakeFromCancelQueue, AwaitPending, TakeFromPendingQueue, SubmitSample, queueVars,
         taskVars
<1>10. CASE Monitor \/ StopRunning \/ RemoteCall
  BY <1>4, <1>10
     DEF Monitor, MonitorCheck, MonitorTick, MonitorReset, StopRunning, RemoteCall, PauseBegin,
         PauseEnd, CallArrives, UpdateBegin, ResetStaleness, ReportValidation, Resume,
         MQ!PutValidate, queueVars, taskVars
<1>11. CASE SyncStep \/ UNCHANGED vars
  BY <1>4, <1>11 DEF SyncStep, TellQueue, MQ!UpdateVersion, vars, rollouterVars, queueVars,
                     taskVars
<1>12. CASE CleanUp
  BY <1>12 DEF CleanUp, RunOver, InLoop
<1>13. CASE Trainer
  BY <1>1, <1>4, <1>13
     DEF Trainer, StartFit, WaitForQueue, CollectSample, CollectEndSignal, TrainBatch, CallSync,
         EndSync, LogStep, FinalWait, LastWait, MQ!WaitForSample, trainerVars, rollouterVars,
         taskVars
<1>14. QED
  BY <1>5, <1>6, <1>7, <1>8, <1>9, <1>10, <1>11, <1>12, <1>13
     DEF Next, RollouterStep, SampleTask, EndGeneration, Main, Terminated

\* The trainer does not come back to its loop.
LEMMA LoopLeft ==
    ASSUME StageInv, [Next]_vars, InLoop'
    PROVE  InLoop
<1>1. CASE Trainer
  BY <1>1
     DEF Trainer, StartFit, WaitForQueue, CollectSample, CollectEndSignal, TrainBatch, CallSync,
         EndSync, LogStep, FinalWait, LastWait, trainerVars, StageInv, InLoop
<1>2. CASE UNCHANGED trainerVars
  BY <1>2 DEF trainerVars, InLoop
<1>3. QED
  BY <1>1, <1>2 DEF Next, RollouterStep, SyncStep, CleanUp, Terminated, vars

\* The trainer's steps.
LEMMA PolicyTrainer ==
    ASSUME TypeInv, TypeInv', PlaceInv, StageInv, MaxRequiredSamples = Interval, BudgetInv,
           CurrentInv, InLoop', [Next]_vars, Trainer
    PROVE  BudgetInv' /\ CurrentInv'
<1>1. PICK o0 \in Nat : Outstanding = o0
  BY Sized DEF Sizes
<1>2. PICK o1 \in Nat : Outstanding' = o1
  BY SizedNext DEF Sizes
<1>3. /\ staleness \in Nat /\ MaxRequiredSamples \in Nat \ {0} /\ Collected \in Nat
      /\ Before \in Nat /\ Len(batch) \in Nat /\ trainerVersion \in Nat /\ queue \in Seq(Entry)
      /\ batch \in Seq([id : Samples, ver : Versions])
      /\ localStep = TriggerSyncStep => Before + RequiredSamples = Interval
      /\ RequiredSamples \in Nat \ {0} /\ TriggerSyncStep \in Nat \ {0}
      /\ localStep \in 1 .. TriggerSyncStep
  BY AgeTypes, CollectedBounded DEF TypeInv, TypeOK, FlagTypeOK
<1>4. UNCHANGED <<staleness, processor, delivering>>
  BY DEF Trainer, StartFit, WaitForQueue, CollectSample, CollectEndSignal, TrainBatch, CallSync,
         BeginSync, EndSync, TransferWeights, LogStep, FinalWait, LastWait, rollouterVars,
         flagVars, procVars, taskVars
<1>5. o1 <= o0
  <2>1. ~TakeFromPendingQueue
    BY <1>3, <1>4 DEF TakeFromPendingQueue
  <2>2. QED
    BY <1>1, <1>2, <2>1, OutstandingStep
<1>6. CASE StartFit \/ WaitForQueue \/ LogStep
  <2>1. /\ UNCHANGED <<call, batch, localStep, trainerVersion, queue>>
    BY <1>6 DEF StartFit, WaitForQueue, LogStep, LogValidation, MQ!GetValidate,
                MQ!WaitForSample, trainerVars, rollouterVars, callVars
  <2>2. /\ trainer \in {"start", "collect", "log"} /\ trainer' = "collect"
    BY <1>6 DEF StartFit, WaitForQueue, LogStep, trainerVars
  <2>3. /\ Collected' = Collected /\ (Awaited' <=> Awaited) /\ (Renewing' <=> Renewing)
    BY <2>1, <2>2 DEF Collected, Before, Awaited, Renewing
  <2>4. BudgetInv'
    <3>1. CASE Renewing
      BY <1>1, <1>2, <1>3, <1>4, <1>5, <2>2, <2>3, <3>1 DEF BudgetInv
    <3>2. CASE ~Renewing
      BY <1>1, <1>2, <1>3, <1>4, <1>5, <2>2, <2>3, <3>2 DEF BudgetInv
    <3>3. QED
      BY <3>1, <3>2
  <2>5. CurrentInv'
    BY <1>4, <2>1 DEF CurrentInv, Current, QueueCurrent
  <2>6. QED
    BY <2>4, <2>5
<1>7. CASE CollectSample
  <2>1. /\ trainer = "collect" /\ trainer' \in {"collect", "train"} /\ queue # <<>>
        /\ Head(queue).id # EndSignal
        /\ queue' = Tail(queue) /\ batch' = Append(batch, Head(queue))
        /\ UNCHANGED <<call, localStep, trainerVersion>>
    BY <1>7 DEF CollectSample, MQ!GetSample, rollouterVars, callVars
  <2>2. Head(queue).id \in InQueue
    BY <1>7, CollectMoves, PlaceNames
  <2>3. ~Renewing
    BY <2>2, NothingOutstanding DEF BudgetInv
  <2>4. ~Renewing' /\ ~Awaited'
    BY <2>1, <2>3 DEF Renewing, Awaited
  <2>5. o1 = o0 - 1
    BY <1>1, <1>2, <1>7, CollectedOne
  <2>6. Collected' = Collected + 1
    <3>1. Len(batch') = Len(batch) + 1
      BY <1>7, CollectMoves
    <3>2. QED
      BY <1>3, <2>1, <3>1 DEF Collected, Before
  <2>7. Collected' + o1 = Collected + o0
    BY <1>1, <1>2, <1>3, <2>5, <2>6
  <2>8. BudgetInv'
    BY <1>1, <1>2, <1>4, <2>3, <2>4, <2>7 DEF BudgetInv
  <2>9. QueueCurrent(queue', trainerVersion) /\ Head(queue).ver = trainerVersion
    <3>1. /\ Tail(queue) \in Seq(Entry) /\ Head(queue) = queue[1] /\ Len(queue) \in Nat \ {0}
          /\ Len(Tail(queue)) = Len(queue) - 1
          /\ \A k \in 1 .. Len(Tail(queue)) : Tail(queue)[k] = queue[k + 1]
      BY <1>3, <2>1, TailFacts
    <3>2. ASSUME NEW k \in DOMAIN Tail(queue)
          PROVE  k + 1 \in DOMAIN queue /\ Tail(queue)[k] = queue[k + 1]
      BY <1>3, <3>1
    <3>3. 1 \in DOMAIN queue
      BY <1>3, <3>1
    <3>4. QED
      BY <2>1, <3>1, <3>2, <3>3 DEF CurrentInv, QueueCurrent
  <2>10. QueueCurrent(batch', trainerVersion)
    <3>1. Head(queue) \in [id : Samples, ver : Versions]
      <4>1. Head(queue) \in Entry
        BY <1>3, <2>1, TailFacts
      <4>2. QED
        BY <2>1, <4>1 DEF Entry
    <3>2. /\ Append(batch, Head(queue)) \in Seq([id : Samples, ver : Versions])
          /\ Len(Append(batch, Head(queue))) = Len(batch) + 1
          /\ \A k \in 1 .. Len(Append(batch, Head(queue))) :
                Append(batch, Head(queue))[k] = IF k <= Len(batch) THEN batch[k] ELSE Head(queue)
      <4> DEFINE S == [id : Samples, ver : Versions]
                 x == Head(queue)
      <4>1. batch \in Seq(S) /\ x \in S
        BY <1>3, <3>1
      <4> HIDE DEF S, x
      <4>2. /\ Append(batch, x) \in Seq(S) /\ Len(Append(batch, x)) = Len(batch) + 1
            /\ \A k \in 1 .. Len(Append(batch, x)) :
                  Append(batch, x)[k] = IF k <= Len(batch) THEN batch[k] ELSE x
        BY <4>1, AppendFacts
      <4>3. QED
        BY <4>2 DEF S, x
    <3>3. ASSUME NEW k \in DOMAIN batch'
          PROVE  batch'[k] = Head(queue) \/ (k \in DOMAIN batch /\ batch'[k] = batch[k])
      BY <1>3, <2>1, <3>2
    <3>4. QED
      BY <2>9, <3>3 DEF CurrentInv, QueueCurrent
  <2>11. QED
    BY <1>4, <2>1, <2>8, <2>9, <2>10 DEF CurrentInv, Current
<1>8. CASE TrainBatch
  <2>1. /\ trainer = "train" /\ batch' = <<>> /\ UNCHANGED <<queue, call>>
        /\ Len(batch) = RequiredSamples /\ Len(batch') = 0
    BY <1>8, EmptyFacts DEF TrainBatch, queueVars, rollouterVars, callVars, PlaceInv, EmptyInv
  <2>2. /\ ~Renewing /\ ~Awaited /\ ~Awaited' /\ Collected = Before + RequiredSamples
        /\ Collected + o0 <= staleness /\ Collected + o0 <= MaxRequiredSamples
        /\ processor = "take" => Collected + o0 < MaxRequiredSamples
    BY <1>1, <2>1 DEF BudgetInv, Renewing, Awaited, Collected
  <2>3. CASE localStep < TriggerSyncStep
    <3>1. localStep' = localStep + 1 /\ trainerVersion' = trainerVersion /\ trainer' = "log"
      BY <1>8, <2>3 DEF TrainBatch
    <3>2. Collected' = Collected
      <4>1. Before' = Before + RequiredSamples
        BY <1>3, <3>1, Products DEF Before
      <4>2. QED
        BY <1>3, <2>1, <2>2, <4>1 DEF Collected
    <3>3. ~Renewing'
      BY <2>2, <3>1 DEF Renewing
    <3>4. BudgetInv'
      BY <1>1, <1>2, <1>3, <1>4, <1>5, <2>2, <3>2, <3>3 DEF BudgetInv
    <3>5. CurrentInv'
      BY <1>4, <2>1, <3>1 DEF CurrentInv, Current, QueueCurrent
    <3>6. QED
      BY <3>4, <3>5
  <2>4. CASE ~(localStep < TriggerSyncStep)
    <3>1. localStep' = 1 /\ trainer' = "waitValid" /\ localStep = TriggerSyncStep
      BY <1>3, <1>8, <2>4 DEF TrainBatch
    <3>2. o0 = 0 /\ o1 = 0 /\ staleness >= MaxRequiredSamples /\ processor # "take"
      BY <1>1, <1>2, <1>3, <1>5, <2>2, <3>1
    <3>3. Collected' = 0
      <4>1. Before' = 0
        BY <1>3, <3>1, Products DEF Before
      <4>2. QED
        BY <2>1, <4>1 DEF Collected
    <3>4. Renewing'
      BY <3>1 DEF Renewing
    <3>5. BudgetInv'
      BY <1>2, <1>3, <1>4, <2>2, <3>2, <3>3, <3>4 DEF BudgetInv
    <3>6. \A version : /\ Current(delivering, version) /\ QueueCurrent(queue, version)
      BY <1>1, <3>2, NothingOutstanding DEF Current, QueueCurrent, InQueue, SampleIds
    <3>7. \A version : QueueCurrent(batch', version)
      BY <2>1 DEF QueueCurrent
    <3>8. QED
      BY <1>4, <2>1, <3>5, <3>6, <3>7 DEF CurrentInv
  <2>5. QED
    BY <2>3, <2>4
<1>9. CASE CallSync \/ EndSync
  <2>1. /\ trainer \in {"waitValid", "syncing"} /\ Renewing
        /\ UNCHANGED <<queue, batch, localStep, trainerVersion>>
    BY <1>9 DEF CallSync, BeginSync, EndSync, TransferWeights, Renewing, queueVars
  <2>2. \/ trainer' = "syncing" /\ call' = "pauseLock"
        \/ trainer' = "log" /\ call' = "updateSent"
    <3>1. CASE CallSync
      BY <3>1 DEF CallSync, BeginSync
    <3>2. CASE EndSync
      <4>1. trainer' = "log" \/ trainer' = "lastWait"
        BY <3>2 DEF EndSync
      <4>2. trainer' # "lastWait"
        BY DEF InLoop
      <4>3. QED
        BY <3>2, <4>1, <4>2 DEF EndSync, TransferWeights
    <3>3. QED
      BY <1>9, <3>1, <3>2
  <2>3. /\ Renewing' /\ Collected' = Collected
        /\ Awaited' => trainer' \in {"log", "collect"}
    BY <2>1, <2>2 DEF Renewing, Awaited, Collected, Before
  <2>4. BudgetInv'
    BY <1>1, <1>2, <1>3, <1>4, <1>5, <2>1, <2>3 DEF BudgetInv
  <2>5. CurrentInv'
    BY <1>4, <2>1 DEF CurrentInv, Current, QueueCurrent
  <2>6. QED
    BY <2>4, <2>5
<1>10. CASE CollectEndSignal \/ FinalWait \/ LastWait
  BY <1>10 DEF CollectEndSignal, FinalWait, LastWait, InLoop
<1>11. QED
  BY <1>6, <1>7, <1>8, <1>9, <1>10 DEF Trainer

LEMMA PolicyStep ==
    TypeInv /\ PlaceInv /\ VersionInv /\ StageInv /\ PolicyInv /\ [Next]_vars => PolicyInv'
<1> SUFFICES ASSUME TypeInv, PlaceInv, VersionInv, StageInv, PolicyInv, [Next]_vars,
                    MaxRequiredSamples = Interval, InLoop'
             PROVE  BudgetInv' /\ CurrentInv'
  BY DEF PolicyInv, Interval
<1>1. InLoop /\ BudgetInv /\ CurrentInv /\ TypeInv'
  BY LoopLeft, TypeStep DEF PolicyInv
<1>2. CASE Trainer
  BY <1>1, <1>2, PolicyTrainer
<1>3. CASE UNCHANGED trainerVars
  BY <1>1, <1>3, BudgetRollouter, CurrentRollouter
<1>4. QED
  BY <1>2, <1>3 DEF Next, RollouterStep, SyncStep, CleanUp, Terminated, vars

LEMMA PolicyInit == Init => PolicyInv
<1> SUFFICES ASSUME Init PROVE BudgetInv /\ CurrentInv
  BY DEF PolicyInv
<1>1. /\ generating = {} /\ delivering = {} /\ cancelQueue = <<>> /\ queue = <<>>
      /\ inHand = NoSample /\ staleness = 0 /\ call = "none" /\ processor = "top"
      /\ trainer = "start" /\ batch = <<>> /\ localStep = 1
  BY DEF Init, RollouterInit, TrainerInit
<1>2. InHand = {} /\ InQueue = {}
  BY <1>1, NoIds DEF InHand, InQueue
<1>3. Outstanding = 0
  BY <1>1, <1>2, FS_EmptySet DEF Outstanding
<1>4. Collected = 0 /\ MaxRequiredSamples \in Nat
  BY <1>1, RollouterAssumption DEF Collected, Before
<1>5. QED
  BY <1>1, <1>3, <1>4 DEF BudgetInv, CurrentInv, Current, QueueCurrent, Renewing, Awaited

\* With threshold 0 every sample is trained on under the version it was
\* finished with, for every batch size, trigger step and number of failures,
\* with partial rollout or without.
THEOREM RunIsOnPolicy == Spec => []OnPolicy
<1>1. TypeInv /\ PlaceInv /\ PolicyInv => OnPolicy
  <2> SUFFICES ASSUME TypeInv, PlaceInv, PolicyInv, MaxRequiredSamples = Interval,
                      NEW i \in DOMAIN batch
               PROVE  batch[i].ver = trainerVersion
    BY DEF OnPolicy
  <2>1. batch # <<>>
    BY EmptyFacts
  <2>2. InLoop
    BY <2>1 DEF PlaceInv, EmptyInv, InLoop
  <2>3. batch[i].id # EndSignal
    <3>1. batch[i] \in [id : Samples, ver : Versions]
      BY AgeTypes, ElementFacts
    <3>2. QED
      BY <3>1 DEF Samples, EndSignal
  <2>4. QED
    BY <2>2, <2>3 DEF PolicyInv, CurrentInv, QueueCurrent
<1>2. QED
  BY <1>1, PolicyInit, PolicyStep, AgeInit, StageStep, VersionInit, VersionStep, PlaceInvariant,
     PTL DEF Spec

-----------------------------------------------------------------------------
(* Validation results *)

\* The last version whose validation result the rollouter has put.
Reported ==
    IF call \in {"pauseLock", "gather", "paused", "transfer", "updateSent", "updateLock",
                 "count", "validate"}
      THEN syncVersion - 1 ELSE syncVersion

\* The results from the last one logged to the last one put, none missing.
Consecutive == \A i \in DOMAIN valQueue : valQueue[i] = logged + i

\* Where the trainer's log is behind the synchronizer: by one version, by two
\* from the call of a synchronization to the log after it. The additional
\* synchronization at the end starts with everything logged.
LagInv ==
    /\ trainer \in {"syncing", "log", "lastWait"} => syncVersion <= logged + 2
    /\ trainer \notin {"start", "syncing", "log", "lastWait"} => syncVersion <= logged + 1

EndOfFit ==
    /\ finalSync => trainer \in {"waitValid", "syncing", "lastWait", "finished"}
    /\ finalSync /\ trainer = "waitValid" => logged = syncVersion
    /\ finalSync /\ trainer \in {"syncing", "lastWait"} => logged + 1 = syncVersion
    /\ trainer = "lastWait" => finalSync
    /\ trainer = "finished" => call = "none" /\ valQueue = <<>> /\ logged = syncVersion

LogInv ==
    /\ trainer = "start" => /\ valQueue = <<0>> /\ logged = 0 /\ syncVersion = 0
                            /\ call = "none" /\ ~finalSync
    /\ trainer # "start" => Consecutive /\ logged + Len(valQueue) = Reported
    /\ LagInv /\ EndOfFit

\* The types of what LogInv relates.
LEMMA LogTypes ==
    ASSUME TypeInv
    PROVE  /\ valQueue \in Seq(Nat) /\ Len(valQueue) \in Nat /\ DOMAIN valQueue = 1 .. Len(valQueue)
           /\ logged \in Nat /\ syncVersion \in Nat /\ finalSync \in BOOLEAN
  BY DEF TypeInv, TypeOK, TrainerTypeOK, MQ!MQTypeOK, Versions

\* _log_validation_data logs the oldest result, if there is one.
LEMMA LogTakesOne ==
    ASSUME TypeInv, LogValidation, Consecutive
    PROVE  /\ valQueue = <<>> => valQueue' = <<>> /\ logged' = logged
           /\ valQueue # <<>> => logged' = logged + 1 /\ Len(valQueue') = Len(valQueue) - 1
           /\ Consecutive'
           /\ logged' \in Nat /\ Len(valQueue') \in Nat
           /\ logged' + Len(valQueue') = logged + Len(valQueue)
<1>1. CASE valQueue = <<>>
  <2>1. valQueue' = <<>> /\ logged' = logged
    BY <1>1 DEF LogValidation, MQ!GetValidate
  <2>2. Consecutive'
    BY <1>1, <2>1 DEF Consecutive
  <2>3. QED
    BY <1>1, <2>1, <2>2, LogTypes
<1>2. CASE valQueue # <<>>
  <2>1. valQueue' = Tail(valQueue) /\ logged' = Head(valQueue)
    BY <1>2 DEF LogValidation, MQ!GetValidate
  <2>2. /\ Tail(valQueue) \in Seq(Nat) /\ Head(valQueue) = valQueue[1]
        /\ Len(valQueue) \in Nat \ {0} /\ Len(Tail(valQueue)) = Len(valQueue) - 1
        /\ \A i \in 1 .. Len(Tail(valQueue)) : Tail(valQueue)[i] = valQueue[i + 1]
    BY <1>2, LogTypes, TailFacts
  <2>3. logged' = logged + 1
    BY <2>1, <2>2, LogTypes DEF Consecutive
  <2>4. Consecutive'
    <3>1. DOMAIN valQueue' = 1 .. Len(valQueue) - 1
      BY <2>1, <2>2
    <3>2. ASSUME NEW i \in 1 .. Len(valQueue) - 1
          PROVE  valQueue'[i] = logged' + i
      <4>1. i + 1 \in DOMAIN valQueue /\ valQueue'[i] = valQueue[i + 1]
        BY <2>1, <2>2, LogTypes
      <4>2. valQueue[i + 1] = logged + (i + 1)
        BY <4>1 DEF Consecutive
      <4>3. QED
        BY <2>3, <4>1, <4>2, LogTypes
    <3>3. QED
      BY <3>1, <3>2 DEF Consecutive
  <2>5. QED
    BY <1>2, <2>1, <2>2, <2>3, <2>4, LogTypes
<1>3. QED
  BY <1>1, <1>2

\* With at most one result to log, logging leaves none.
LEMMA EmptiedByLog ==
    ASSUME TypeInv, LogValidation, Consecutive, logged + Len(valQueue) = syncVersion,
           syncVersion <= logged + 1
    PROVE  logged' = syncVersion /\ valQueue' = <<>> /\ Consecutive'
<1>1. CASE valQueue = <<>>
  BY <1>1, LogTakesOne, LogTypes
<1>2. CASE valQueue # <<>>
  <2>1. Len(valQueue) = 1
    BY <1>2, LogTypes, EmptyFacts
  <2>2. valQueue' = Tail(valQueue) /\ Len(Tail(valQueue)) = 0
    BY <1>2, <2>1, LogTypes, TailFacts DEF LogValidation, MQ!GetValidate
  <2>3. Tail(valQueue) = <<>>
    BY <1>2, <2>2, LogTypes, TailFacts, EmptyFacts
  <2>4. QED
    BY <1>2, <2>1, <2>2, <2>3, LogTakesOne, LogTypes
<1>3. QED
  BY <1>1, <1>2

\* A step of the rollouter or the synchronizer that reports nothing.
LEMMA LogKept ==
    ASSUME LogInv, UNCHANGED <<valQueue, logged, syncVersion, trainer, finalSync>>,
           call' = call \/ (call' # "none" /\ call # "none") \/ (call = "resumeLock" /\ call' = "none"),
           Reported' = Reported
    PROVE  LogInv'
  BY DEF LogInv, LagInv, EndOfFit, Consecutive

\* put_validate adds the version after the last one.
LEMMA ReportAddsNext ==
    ASSUME TypeInv, VersionInv, LogInv, ReportValidation, Others
    PROVE  LogInv'
<1>1. /\ call = "validate" /\ call' = "resumeSent" /\ rollVersion = syncVersion
      /\ valQueue' = Append(valQueue, rollVersion)
      /\ UNCHANGED <<logged, syncVersion, trainer, finalSync>>
  BY DEF ReportValidation, MQ!PutValidate, VersionInv, Others, syncVars, trainerVars
<1>2. trainer \notin {"start", "finished"}
  BY <1>1 DEF LogInv, EndOfFit
<1>3. Consecutive /\ logged + Len(valQueue) = syncVersion - 1
  BY <1>1, <1>2 DEF LogInv, Reported
<1>4. /\ Len(valQueue') = Len(valQueue) + 1
      /\ DOMAIN valQueue' = 1 .. Len(valQueue) + 1
      /\ \A i \in 1 .. Len(valQueue) + 1 :
            valQueue'[i] = IF i <= Len(valQueue) THEN valQueue[i] ELSE syncVersion
  BY <1>1, LogTypes, AppendFacts
<1>5. Consecutive'
  <2>1. ASSUME NEW i \in 1 .. Len(valQueue) + 1
        PROVE  valQueue'[i] = logged' + i
    <3>1. CASE i <= Len(valQueue)
      <4>1. valQueue'[i] = valQueue[i]
        BY <1>4, <3>1
      <4>2. i \in DOMAIN valQueue
        BY <3>1, LogTypes
      <4>3. valQueue[i] = logged + i
        BY <1>3, <4>2 DEF Consecutive
      <4>4. QED
        BY <1>1, <4>1, <4>3
    <3>2. CASE i = Len(valQueue) + 1
      <4>1. ~(i <= Len(valQueue))
        BY <3>2, LogTypes
      <4>2. valQueue'[i] = syncVersion
        BY <1>4, <4>1
      <4>3. logged + i = syncVersion
        BY <1>3, <3>2, LogTypes
      <4>4. QED
        BY <1>1, <4>2, <4>3
    <3>3. QED
      BY <3>1, <3>2, LogTypes
  <2>2. QED
    BY <1>4, <2>1 DEF Consecutive
<1>6. logged' + Len(valQueue') = Reported'
  <2>1. Reported' = syncVersion
    BY <1>1 DEF Reported
  <2>2. logged' = logged /\ Len(valQueue') = Len(valQueue) + 1
    BY <1>1, <1>4
  <2>3. logged + Len(valQueue) = syncVersion - 1
    BY <1>3
  <2>4. QED
    BY <2>1, <2>2, <2>3, LogTypes
<1>7. LagInv' /\ EndOfFit'
  BY <1>1, <1>2 DEF LogInv, LagInv, EndOfFit
<1>8. QED
  BY <1>1, <1>2, <1>5, <1>6, <1>7 DEF LogInv

\* The calls on their way move no result.
LEMMA LogRemoteCall ==
    ASSUME TypeInv, VersionInv, LogInv, RemoteCall, Others
    PROVE  LogInv'
<1>1. CASE ReportValidation
  BY <1>1, ReportAddsNext
<1>2. CASE PauseBegin \/ PauseEnd \/ CallArrives \/ UpdateBegin(syncVersion)
           \/ ResetStaleness \/ Resume
  <2>1. UNCHANGED <<valQueue, logged, syncVersion, trainer, finalSync>>
    BY <1>2 DEF PauseBegin, PauseEnd, CallArrives, UpdateBegin, ResetStaleness, Resume,
                queueVars, Others, syncVars, trainerVars
  <2>2. \/ call' # "none" /\ call # "none"
        \/ call = "resumeLock" /\ call' = "none"
    BY <1>2 DEF PauseBegin, PauseEnd, CallArrives, UpdateBegin, ResetStaleness, Resume
  <2>3. Reported' = Reported
    BY <1>2, <2>1 DEF PauseBegin, PauseEnd, CallArrives, UpdateBegin, ResetStaleness, Resume,
                      Reported
  <2>4. QED
    BY <2>1, <2>2, <2>3, LogKept
<1>3. QED
  BY <1>1, <1>2 DEF RemoteCall

\* The steps that log, and those that synchronize, keep pace.
LEMMA LogTrainer ==
    ASSUME TypeInv, VersionInv, LogInv, Trainer
    PROVE  LogInv'
<1>1. CASE StartFit
  <2>1. /\ trainer = "start" /\ trainer' = "collect" /\ LogValidation
        /\ UNCHANGED <<call, syncVersion, finalSync>>
    BY <1>1 DEF StartFit, rollouterVars, callVars, syncVars
  <2>2. valQueue = <<0>> /\ syncVersion = 0 /\ call = "none" /\ ~finalSync
    BY <2>1 DEF LogInv
  <2>3. valQueue' = <<>> /\ logged' = 0
    BY <2>1, <2>2 DEF LogValidation, MQ!GetValidate
  <2>4. Reported' = 0
    BY <2>1, <2>2 DEF Reported
  <2>5. Consecutive' /\ logged' + Len(valQueue') = Reported'
    BY <2>3, <2>4 DEF Consecutive
  <2>6. LagInv' /\ EndOfFit'
    BY <2>1, <2>2, <2>3 DEF LagInv, EndOfFit
  <2>7. QED
    BY <2>1, <2>5, <2>6 DEF LogInv
<1>2. CASE WaitForQueue \/ CollectSample \/ CollectEndSignal \/ TrainBatch
  <2>1. UNCHANGED <<valQueue, logged, syncVersion, finalSync, call>>
    BY <1>2 DEF WaitForQueue, CollectSample, CollectEndSignal, TrainBatch, MQ!WaitForSample,
                MQ!GetSample, rollouterVars, callVars, queueVars, syncVars, trainerVars
  <2>2. /\ trainer \in {"collect", "train"}
        /\ trainer' \in {"collect", "train", "log", "waitValid", "finalWait"}
    BY <1>2 DEF WaitForQueue, CollectSample, CollectEndSignal, TrainBatch, trainerVars
  <2>3. /\ Consecutive => Consecutive'
        /\ Reported' = Reported
    <3>1. Consecutive => Consecutive'
      BY <2>1 DEF Consecutive
    <3>2. Reported' = Reported
      BY <2>1 DEF Reported
    <3>3. QED
      BY <3>1, <3>2
  <2>4. ~finalSync /\ syncVersion <= logged + 1
    BY <2>2 DEF LogInv, LagInv, EndOfFit
  <2>5. LagInv' /\ EndOfFit'
    BY <2>1, <2>2, <2>4, LogTypes DEF LagInv, EndOfFit
  <2>6. QED
    BY <2>1, <2>2, <2>3, <2>5 DEF LogInv, Consecutive
<1>3. CASE CallSync
  <2>1. /\ trainer = "waitValid" /\ trainer' = "syncing" /\ call = "none"
        /\ call' = "pauseLock" /\ syncVersion' = syncVersion + 1
        /\ UNCHANGED <<valQueue, logged, finalSync>>
    BY <1>3, LogTypes DEF CallSync, BeginSync, queueVars, VersionInv
  <2>2. Consecutive' /\ Reported' = Reported
    BY <2>1, LogTypes DEF LogInv, Consecutive, Reported
  <2>3. LagInv' /\ EndOfFit'
    BY <2>1, LogTypes DEF LogInv, LagInv, EndOfFit
  <2>4. QED
    BY <2>1, <2>2, <2>3 DEF LogInv
<1>4. CASE EndSync
  <2>1. /\ trainer = "syncing" /\ trainer' = (IF finalSync THEN "lastWait" ELSE "log")
        /\ call = "transfer" /\ call' = "updateSent"
        /\ UNCHANGED <<valQueue, logged, finalSync, syncVersion>>
    BY <1>4 DEF EndSync, TransferWeights, queueVars
  <2>2. Consecutive' /\ Reported' = Reported
    BY <2>1 DEF LogInv, Consecutive, Reported
  <2>3. LagInv' /\ EndOfFit'
    BY <2>1, LogTypes DEF LogInv, LagInv, EndOfFit
  <2>4. QED
    BY <2>1, <2>2, <2>3 DEF LogInv
<1>5. CASE LogStep
  <2>1. /\ trainer = "log" /\ trainer' = "collect" /\ LogValidation
        /\ UNCHANGED <<call, syncVersion, finalSync>>
    BY <1>5 DEF LogStep, rollouterVars, callVars, syncVars
  <2>2. /\ Consecutive /\ logged + Len(valQueue) = Reported
        /\ syncVersion <= logged + 2 /\ ~finalSync
    BY <2>1 DEF LogInv, LagInv, EndOfFit
  <2>3. /\ valQueue = <<>> => logged' = logged
        /\ valQueue # <<>> => logged' = logged + 1
        /\ Consecutive' /\ logged' + Len(valQueue') = Reported'
    BY <2>1, <2>2, LogTakesOne DEF Reported
  <2>4. syncVersion <= logged' + 1
    <3>1. CASE valQueue = <<>>
      BY <2>2, <2>3, <3>1, LogTypes DEF Reported
    <3>2. CASE valQueue # <<>>
      BY <2>2, <2>3, <3>2, LogTypes
    <3>3. QED
      BY <3>1, <3>2
  <2>5. LagInv' /\ EndOfFit'
    BY <2>1, <2>2, <2>4 DEF LagInv, EndOfFit
  <2>6. QED
    BY <2>1, <2>3, <2>5 DEF LogInv
<1>6. CASE FinalWait
  <2>1. /\ trainer = "finalWait" /\ LogValidation /\ call = "none"
        /\ \/ trainer' = "waitValid" /\ finalSync'
           \/ trainer' = "finished" /\ finalSync' = finalSync
        /\ UNCHANGED <<call, syncVersion>>
    BY <1>6 DEF FinalWait, LastSyncOver, rollouterVars, callVars, syncVars
  <2>2. /\ Consecutive /\ logged + Len(valQueue) = syncVersion
        /\ syncVersion <= logged + 1 /\ ~finalSync
    BY <2>1 DEF LogInv, LagInv, EndOfFit, Reported
  <2>3. logged' = syncVersion /\ valQueue' = <<>> /\ Consecutive'
    BY <2>1, <2>2, EmptiedByLog
  <2>4. logged' + Len(valQueue') = Reported'
    BY <2>1, <2>3, LogTypes DEF Reported
  <2>5. LagInv' /\ EndOfFit'
    BY <2>1, <2>2, <2>3, LogTypes DEF LagInv, EndOfFit
  <2>6. QED
    BY <2>1, <2>3, <2>4, <2>5 DEF LogInv
<1>7. CASE LastWait
  <2>1. /\ trainer = "lastWait" /\ LogValidation /\ call = "none" /\ trainer' = "finished"
        /\ UNCHANGED <<call, syncVersion, finalSync>>
    BY <1>7 DEF LastWait, LastSyncOver, rollouterVars, callVars, syncVars
  <2>2. /\ Consecutive /\ logged + Len(valQueue) = syncVersion
        /\ syncVersion <= logged + 1
    BY <2>1, LogTypes DEF LogInv, LagInv, EndOfFit, Reported
  <2>3. logged' = syncVersion /\ valQueue' = <<>> /\ Consecutive'
    BY <2>1, <2>2, EmptiedByLog
  <2>4. logged' + Len(valQueue') = Reported'
    BY <2>1, <2>3, LogTypes DEF Reported
  <2>5. LagInv' /\ EndOfFit'
    BY <2>1, <2>2, <2>3, LogTypes DEF LagInv, EndOfFit
  <2>6. QED
    BY <2>1, <2>3, <2>4, <2>5 DEF LogInv
<1>8. QED
  BY <1>1, <1>2, <1>3, <1>4, <1>5, <1>6, <1>7 DEF Trainer

\* Nobody else touches a result.
LEMMA LogOther ==
    ASSUME LogInv,
           \/ (Feeder \/ SampleTask \/ Processor \/ Monitor \/ Main) /\ Others
           \/ SyncStep \/ CleanUp \/ UNCHANGED vars
    PROVE  LogInv'
<1>1. CASE (Feeder \/ SampleTask) /\ Others
  <2>1. UNCHANGED <<valQueue, logged, syncVersion, trainer, finalSync, call>>
    BY <1>1 DEF Feeder, FeedSample, FeedDone, SampleTask, EndGeneration, Deliver,
                FinishGeneration, CancelGeneration, FailGeneration, DeliverSample, MQ!PutSample,
                Others, callVars, queueVars, syncVars, trainerVars
  <2>2. QED
    BY <2>1, LogKept DEF Reported
<1>2. CASE (Processor \/ Monitor \/ Main) /\ Others
  <2>1. UNCHANGED <<valQueue, logged, syncVersion, trainer, finalSync, call>>
    BY <1>2 DEF Processor, DecideToPause, SetPaused, BeginWait, EndWait, Park, Reacquire,
                TakeFromCancelQueue, AwaitPending, TakeFromPendingQueue, SubmitSample, Monitor,
                MonitorCheck, MonitorTick, MonitorReset, Main, PutEndSignal, StopRunning,
                MQ!PutSample, Others, callVars, queueVars, syncVars, trainerVars
  <2>2. QED
    BY <2>1, LogKept DEF Reported
<1>3. CASE SyncStep
  <2>1. /\ UNCHANGED <<valQueue, logged, syncVersion, trainer, finalSync>>
        /\ call = "paused" /\ call' = "transfer"
    BY <1>3 DEF SyncStep, TellQueue, MQ!UpdateVersion, syncVars, trainerVars
  <2>2. QED
    BY <2>1, LogKept DEF Reported
<1>4. CASE CleanUp \/ UNCHANGED vars
  <2>1. UNCHANGED <<valQueue, logged, syncVersion, trainer, finalSync, call>>
    BY <1>4 DEF CleanUp, MQ!ClearQueue, vars, rollouterVars, callVars, queueVars, syncVars,
                trainerVars
  <2>2. QED
    BY <2>1, LogKept DEF Reported
<1>5. QED
  BY <1>1, <1>2, <1>3, <1>4

LEMMA LogInit == Init => LogInv
<1> SUFFICES ASSUME Init PROVE LogInv
  OBVIOUS
<1>1. /\ trainer = "start" /\ valQueue = <<0>> /\ logged = 0 /\ syncVersion = 0
      /\ call = "none" /\ finalSync = FALSE
  BY DEF Init, RollouterInit, SyncInit, TrainerInit
<1>2. QED
  BY <1>1 DEF LogInv, LagInv, EndOfFit

LEMMA LogInvStep == TypeInv /\ VersionInv /\ LogInv /\ [Next]_vars => LogInv'
<1> SUFFICES ASSUME TypeInv, VersionInv, LogInv, [Next]_vars PROVE LogInv'
  OBVIOUS
<1>1. QED
  BY LogRemoteCall, LogTrainer, LogOther DEF Next, RollouterStep, Terminated, Others

\* _log_validation_data logs at most one result per call, and yet the trainer
\* logs every result, each once and in order, before its fit returns.
THEOREM ValidationIsLogged == Spec => []ValidationLogged
<1>1. TypeInv /\ VersionInv /\ LogInv => ValidationLogged
  <2> SUFFICES ASSUME TypeInv, VersionInv, LogInv PROVE ValidationLogged
    OBVIOUS
  <2>1. CASE trainer = "start"
    BY <2>1 DEF LogInv, ValidationLogged
  <2>2. CASE trainer # "start"
    <3>1. \A i \in DOMAIN valQueue : valQueue[i] = logged + i /\ i \in Nat /\ i > 0
      BY <2>2, LogTypes DEF LogInv, Consecutive
    <3>2. \A i, j \in DOMAIN valQueue : i < j => valQueue[i] < valQueue[j]
      BY <3>1, LogTypes
    <3>3. \A i \in DOMAIN valQueue : logged < valQueue[i]
      BY <3>1, LogTypes
    <3>4. trainer = "finished" => valQueue = <<>> /\ logged = trainerVersion
      BY LogTypes DEF LogInv, EndOfFit, VersionInv
    <3>5. QED
      BY <3>2, <3>3, <3>4 DEF ValidationLogged
  <2>3. QED
    BY <2>1, <2>2
<1>2. TypeInv /\ VersionInv /\ LogInv /\ [Next]_vars => VersionInv' /\ LogInv'
  BY VersionStep, LogInvStep
<1>3. QED
  BY <1>1, <1>2, LogInit, VersionInit, TypeInvariant, PTL DEF Spec

-----------------------------------------------------------------------------
(* The end signal *)

\* The end signal is in the queue, with fewer entries behind it than the queue
\* holds once the tasks that are left, n, have put theirs.
SignalSafe(q, n) ==
    \E k \in DOMAIN q : q[k].id = EndSignal /\ (Len(q) - k) + n < MaxRequiredSamples

SignalLast(q) == \A i \in DOMAIN q : q[i].id = EndSignal => i = Len(q)

\* put_sample by one of the tasks that are left: if the queue is full, the
\* entry it drops is not the end signal.
LEMMA PutKeepsSignal ==
    ASSUME MQ!MQTypeOK, NEW x \in Entry, MQ!PutSample(x), NEW n \in Nat, n > 0,
           SignalSafe(queue, n)
    PROVE  SignalSafe(queue', n - 1)
<1>1. queue \in Seq(Entry) /\ MaxRequiredSamples \in Nat
  BY RollouterAssumption DEF MQ!MQTypeOK
<1>2. PICK k \in DOMAIN queue :
        queue[k].id = EndSignal /\ (Len(queue) - k) + n < MaxRequiredSamples
  BY DEF SignalSafe
<1>3. k \in 1 .. Len(queue) /\ Len(queue) \in Nat
  BY <1>1
<1>4. queue' = Append(MQ!Room, x)
  BY DEF MQ!PutSample
<1>5. CASE MQ!IsFull
  <2>1. Len(queue) >= MaxRequiredSamples /\ MQ!Room = Tail(queue)
    BY <1>5 DEF MQ!IsFull, MQ!Room
  <2>2. k > 1
    BY <1>1, <1>2, <1>3, <2>1
  <2>3. queue # <<>>
    BY <1>3, <2>2, EmptyFacts
  <2>4. /\ Tail(queue) \in Seq(Entry) /\ Len(Tail(queue)) = Len(queue) - 1
        /\ \A i \in 1 .. Len(Tail(queue)) : Tail(queue)[i] = queue[i + 1]
    BY <1>1, <2>3, TailFacts
  <2>5. /\ queue' \in Seq(Entry) /\ Len(queue') = Len(Tail(queue)) + 1
        /\ \A i \in 1 .. Len(queue') :
              queue'[i] = IF i <= Len(Tail(queue)) THEN Tail(queue)[i] ELSE x
    <3>1. queue' = Append(Tail(queue), x)
      BY <1>4, <2>1
    <3>2. /\ Append(Tail(queue), x) \in Seq(Entry)
          /\ Len(Append(Tail(queue), x)) = Len(Tail(queue)) + 1
          /\ \A i \in 1 .. Len(Append(Tail(queue), x)) :
                Append(Tail(queue), x)[i] = IF i <= Len(Tail(queue)) THEN Tail(queue)[i] ELSE x
      BY <2>4, AppendFacts
    <3>3. QED
      BY <3>1, <3>2, Zenon
  <2>6. Len(queue') = Len(queue) /\ DOMAIN queue' = 1 .. Len(queue)
    BY <1>3, <2>4, <2>5
  <2>7. k - 1 \in 1 .. Len(queue) - 1 /\ (k - 1) + 1 = k
    BY <1>3, <2>2
  <2>8. queue'[k - 1] = queue[k]
    <3>1. queue'[k - 1] = Tail(queue)[k - 1]
      BY <1>3, <2>4, <2>5, <2>6, <2>7
    <3>2. Tail(queue)[k - 1] = queue[k]
      BY <2>4, <2>7
    <3>3. QED
      BY <3>1, <3>2
  <2>9. k - 1 \in DOMAIN queue' /\ (Len(queue) - (k - 1)) + (n - 1) < MaxRequiredSamples
    BY <1>1, <1>2, <1>3, <2>6, <2>7
  <2>10. QED
    BY <1>2, <2>6, <2>8, <2>9 DEF SignalSafe
<1>6. CASE ~MQ!IsFull
  <2>1. MQ!Room = queue
    BY <1>6 DEF MQ!Room
  <2>2. /\ queue' \in Seq(Entry) /\ Len(queue') = Len(queue) + 1
        /\ \A i \in 1 .. Len(queue') : queue'[i] = IF i <= Len(queue) THEN queue[i] ELSE x
    BY <1>1, <1>4, <2>1, AppendFacts
  <2>3. k \in DOMAIN queue' /\ queue'[k] = queue[k]
    BY <1>3, <2>2
  <2>4. (Len(queue') - k) + (n - 1) < MaxRequiredSamples
    BY <1>1, <1>2, <1>3, <2>2
  <2>5. QED
    BY <1>2, <2>3, <2>4 DEF SignalSafe
<1>7. QED
  BY <1>5, <1>6

\* The trainer takes something else.
LEMMA GetKeepsSignal ==
    ASSUME NEW q \in Seq(Entry), q # <<>>, NEW n \in Nat
    PROVE  /\ Head(q).id # EndSignal /\ SignalSafe(q, n) => SignalSafe(Tail(q), n)
           /\ SignalLast(q) => SignalLast(Tail(q))
<1>1. /\ Tail(q) \in Seq(Entry) /\ Head(q) = q[1] /\ Len(q) \in Nat \ {0}
      /\ Len(Tail(q)) = Len(q) - 1
      /\ \A i \in 1 .. Len(Tail(q)) : Tail(q)[i] = q[i + 1]
  BY TailFacts
<1>2. DOMAIN q = 1 .. Len(q) /\ DOMAIN Tail(q) = 1 .. Len(q) - 1
  BY <1>1
<1>3. ASSUME Head(q).id # EndSignal, SignalSafe(q, n) PROVE SignalSafe(Tail(q), n)
  <2>1. PICK k \in DOMAIN q : q[k].id = EndSignal /\ (Len(q) - k) + n < MaxRequiredSamples
    BY <1>3 DEF SignalSafe
  <2>2. k # 1
    BY <1>1, <1>3, <2>1
  <2>3. k - 1 \in 1 .. Len(q) - 1 /\ (k - 1) + 1 = k
    BY <1>1, <1>2, <2>2
  <2>4. Tail(q)[k - 1] = q[k]
    BY <1>1, <2>3
  <2>5. (Len(Tail(q)) - (k - 1)) + n < MaxRequiredSamples
    BY <1>1, <1>2, <2>1, RollouterAssumption
  <2>6. QED
    BY <1>2, <2>1, <2>3, <2>4, <2>5 DEF SignalSafe
<1>4. ASSUME SignalLast(q) PROVE SignalLast(Tail(q))
  <2> SUFFICES ASSUME NEW i \in DOMAIN Tail(q), Tail(q)[i].id = EndSignal
               PROVE  i = Len(Tail(q))
    BY DEF SignalLast
  <2>1. i + 1 \in DOMAIN q /\ q[i + 1].id = EndSignal
    BY <1>1, <1>2
  <2>2. i + 1 = Len(q)
    BY <1>4, <2>1 DEF SignalLast
  <2>3. QED
    BY <1>1, <1>2, <2>2
<1>5. QED
  BY <1>3, <1>4

\* Tasks that end one way or another leave room.
LEMMA FewerKeepSignal ==
    ASSUME NEW q \in Seq(Entry), NEW n \in Nat, NEW m \in Nat, m <= n, SignalSafe(q, n)
    PROVE  SignalSafe(q, m)
<1>1. PICK k \in DOMAIN q : q[k].id = EndSignal /\ (Len(q) - k) + n < MaxRequiredSamples
  BY DEF SignalSafe
<1>2. k \in Nat /\ Len(q) \in Nat
  OBVIOUS
<1>0. MaxRequiredSamples \in Nat
  BY RollouterAssumption
<1>3. (Len(q) - k) + m < MaxRequiredSamples
  BY <1>0, <1>1, <1>2
<1>4. QED
  BY <1>1, <1>3 DEF SignalSafe

\* The end signal joins the queue: it is at the end, and the only one.
LEMMA PutsSignal ==
    ASSUME TypeInv, PlaceInv, PutEndSignal, NEW n \in Nat, n < MaxRequiredSamples
    PROVE  SignalSafe(queue', n) /\ SignalLast(queue')
<1> DEFINE x == [id |-> EndSignal, ver |-> rollVersion]
<1>1. /\ x \in Entry /\ x.id = EndSignal /\ main = "await"
      /\ queue' = Append(MQ!Room, x)
  BY DEF TypeInv, TypeOK, FlagTypeOK, Entry, PutEndSignal, MQ!PutSample
<1>2. MQ!Room \in Seq(Entry) /\ EndSignal \notin SampleIds(MQ!Room)
  <2>1. DistinctIds(queue) /\ EndSignal \notin SampleIds(queue) /\ MQ!MQTypeOK
    BY <1>1 DEF PlaceInv, OnceInv, TypeInv, TypeOK
  <2>2. QED
    BY <2>1, RoomDrops
<1> HIDE DEF x
<1>3. /\ queue' \in Seq(Entry) /\ Len(MQ!Room) \in Nat /\ Len(queue') = Len(MQ!Room) + 1
      /\ \A i \in 1 .. Len(queue') :
            queue'[i] = IF i <= Len(MQ!Room) THEN MQ!Room[i] ELSE x
  BY <1>1, <1>2, AppendFacts
<1>4. /\ Len(queue') \in DOMAIN queue' /\ queue'[Len(queue')].id = EndSignal
  BY <1>1, <1>3
<1>5. SignalSafe(queue', n)
  <2>1. (Len(queue') - Len(queue')) + n < MaxRequiredSamples
    BY <1>3
  <2>2. QED
    BY <1>4, <2>1 DEF SignalSafe
<1>6. SignalLast(queue')
  <2> SUFFICES ASSUME NEW i \in DOMAIN queue', queue'[i].id = EndSignal, i # Len(queue')
               PROVE  FALSE
    BY DEF SignalLast
  <2>1. i \in 1 .. Len(MQ!Room) /\ queue'[i] = MQ!Room[i]
    BY <1>3
  <2>2. MQ!Room[i].id \in SampleIds(MQ!Room)
    BY <1>2, <2>1 DEF SampleIds
  <2>3. QED
    BY <1>2, <2>1, <2>2
<1>7. QED
  BY <1>5, <1>6

\* The tasks that have not put their sample.
Tasks == Cardinality(generating) + Cardinality(delivering)

\* The trainer has received the end signal.
Told == trainer \in {"finalWait", "lastWait", "finished"} \/ finalSync

\* A processor that is finished has waited for every task, one that failed
\* had reaped at least one of the tasks the concurrency limit allows.
EndInv ==
    /\ processor = "finished" => generating = {} /\ delivering = {}
    /\ processor = "failed" => Tasks < MaxRequiredSamples
    /\ main # "await" => processor \in {"finished", "failed"}
    /\ main # "await" /\ ~Told => SignalSafe(queue, Tasks)
    /\ main # "await" /\ processor = "finished" => SignalLast(queue)

LEMMA TasksCounted ==
    TypeInv => /\ Tasks \in Nat /\ Cardinality(generating) \in Nat
               /\ Cardinality(delivering) \in Nat
               /\ (Tasks = 0 <=> generating = {} /\ delivering = {})
<1> SUFFICES ASSUME TypeInv
             PROVE  /\ Tasks \in Nat /\ Cardinality(generating) \in Nat
                    /\ Cardinality(delivering) \in Nat
                    /\ (Tasks = 0 <=> generating = {} /\ delivering = {})
  OBVIOUS
<1>1. /\ IsFiniteSet(generating) /\ Cardinality(generating) \in Nat
      /\ IsFiniteSet(delivering) /\ Cardinality(delivering) \in Nat
  BY Counted
<1>2. /\ Cardinality(generating) = 0 <=> generating = {}
      /\ Cardinality(delivering) = 0 <=> delivering = {}
  BY <1>1, FS_EmptySet
<1>3. QED
  BY <1>1, <1>2 DEF Tasks

\* The size of the set of tasks after a step, by a name of its own.
LEMMA TasksCountedNext ==
    ASSUME TypeInv' PROVE \E n \in Nat : Tasks' = n
<1>1. (TypeInv => Tasks \in Nat)'
  BY TasksCounted, PTL
<1>2. QED
  BY <1>1, Zenon

\* Whoever knows that the stream has ended does not forget it.
LEMMA ToldStays ==
    ASSUME [Next]_vars, Told
    PROVE  Told'
<1>1. CASE Trainer
  BY <1>1 DEF Told, Trainer, StartFit, WaitForQueue, CollectSample, CollectEndSignal, TrainBatch,
              CallSync, EndSync, LogStep, FinalWait, LastWait, trainerVars
<1>2. CASE RollouterStep \/ SyncStep \/ CleanUp \/ UNCHANGED vars
  BY <1>2 DEF Told, RollouterStep, SyncStep, CleanUp, vars, trainerVars
<1>3. QED
  BY <1>1, <1>2 DEF Next, Terminated

\* A generation task ends, or hands its sample over.
LEMMA TaskLeaves ==
    ASSUME TypeInv, TypeInv',
           \/ \E s \in Samples : FinishGeneration(s) \/ CancelGeneration(s) \/ FailGeneration(s)
           \/ Deliver
    PROVE  /\ Tasks' <= Tasks /\ Tasks > 0
           /\ Deliver => Tasks' = Tasks - 1
<1>1. PICK t \in Nat : Tasks' = t
  BY TasksCountedNext
<1>2. /\ IsFiniteSet(generating) /\ Cardinality(generating) \in Nat
      /\ IsFiniteSet(delivering) /\ Cardinality(delivering) \in Nat
  BY Counted
<1>3. t = Cardinality(generating') + Cardinality(delivering')
  BY <1>1 DEF Tasks
<1>4. CASE \E s \in Samples : FinishGeneration(s) \/ CancelGeneration(s) \/ FailGeneration(s)
  <2>1. PICK s \in Samples : FinishGeneration(s) \/ CancelGeneration(s) \/ FailGeneration(s)
    BY <1>4
  <2>2. /\ s \in generating /\ generating' = generating \ {s}
        /\ delivering' = delivering \/ delivering' = delivering \cup {Finished(s)}
    BY <2>1 DEF FinishGeneration, CancelGeneration, FailGeneration
  <2>3. /\ Cardinality(generating') = Cardinality(generating) - 1
        /\ Cardinality(delivering') \in Nat
        /\ Cardinality(delivering') <= Cardinality(delivering) + 1
    <3>1. Cardinality(generating \ {s}) = Cardinality(generating) - 1
      BY <1>2, <2>2, CardinalityFacts
    <3>2. /\ Cardinality(delivering \cup {Finished(s)}) \in Nat
          /\ Cardinality(delivering \cup {Finished(s)}) <= Cardinality(delivering) + 1
      BY <1>2, CardinalityFacts
    <3>3. CASE delivering' = delivering
      BY <1>2, <2>2, <3>1, <3>3
    <3>4. CASE delivering' = delivering \cup {Finished(s)}
      BY <2>2, <3>1, <3>2, <3>4
    <3>5. QED
      BY <2>2, <3>3, <3>4
  <2>4. Cardinality(generating) # 0
    BY <1>2, <2>2, FS_EmptySet
  <2>5. t <= Tasks /\ Tasks > 0
    BY <1>2, <1>3, <2>3, <2>4 DEF Tasks
  <2>6. ~Deliver
    <3>1. generating' # generating
      BY <2>2
    <3>2. QED
      BY <3>1 DEF Deliver, DeliverSample
  <2>7. QED
    BY <1>1, <2>5, <2>6
<1>5. CASE Deliver
  <2>1. PICK e \in delivering : delivering' = delivering \ {e} /\ generating' = generating
    BY <1>5 DEF Deliver, DeliverSample
  <2>2. /\ Cardinality(delivering') = Cardinality(delivering) - 1
        /\ Cardinality(generating') = Cardinality(generating)
    BY <1>2, <2>1, CardinalityFacts
  <2>3. Cardinality(delivering) # 0
    BY <1>2, <2>1, FS_EmptySet
  <2>4. t = Tasks - 1 /\ Tasks > 0
    BY <1>2, <1>3, <2>2, <2>3 DEF Tasks
  <2>5. t <= Tasks
    BY <1>2, <2>4 DEF Tasks
  <2>6. QED
    BY <1>1, <2>4, <2>5
<1>6. QED
  BY <1>4, <1>5

\* A processor that ends has no task left, or fewer than the limit.
LEMMA EndProcessor ==
    ASSUME TypeInv, ConcurrencyInv, EndInv, Processor, Others
    PROVE  EndInv'
<1>1. /\ processor \notin {"finished", "failed"} /\ main' = main
      /\ UNCHANGED <<delivering, queue>>
  BY DEF Processor, DecideToPause, SetPaused, BeginWait, EndWait, Park, Reacquire,
         TakeFromCancelQueue, AwaitPending, TakeFromPendingQueue, SubmitSample, WaitLocks,
         taskVars, queueVars
<1>2. main' = "await"
  BY <1>1 DEF EndInv
<1>3. SUFFICES /\ processor' = "finished" => generating' = {} /\ delivering' = {}
               /\ processor' = "failed" => Tasks' < MaxRequiredSamples
  BY <1>2 DEF EndInv
<1>4. CASE DecideToPause \/ SetPaused \/ Park \/ Reacquire \/ TakeFromCancelQueue
           \/ AwaitPending \/ SubmitSample
  BY <1>4 DEF DecideToPause, SetPaused, Park, Reacquire, TakeFromCancelQueue, AwaitPending,
              SubmitSample, ToSubmit
<1>5. MaxRequiredSamples \in Nat \ {0} /\ MaxConcurrentSamples \in Nat
      /\ MaxConcurrentSamples <= MaxRequiredSamples
  BY RollouterAssumption
<1>6. Tasks \in Nat /\ unreaped \in Nat /\ ActiveTasks = Tasks + unreaped
  BY TasksCounted, Counted DEF Tasks, ActiveTasks
<1>7. CASE BeginWait
  <2>1. UNCHANGED <<generating, delivering>>
    BY <1>7 DEF BeginWait, taskVars
  <2>2. CASE ActiveTasks > 0
    BY <1>7, <2>2 DEF BeginWait, Waiting, WaitLocks
  <2>3. CASE ~(ActiveTasks > 0)
    <3>1. Tasks = 0
      BY <1>6, <2>3
    <3>2. generating = {} /\ delivering = {}
      BY <3>1, TasksCounted
    <3>3. Tasks' = Tasks
      BY <2>1 DEF Tasks
    <3>4. QED
      BY <1>5, <2>1, <3>1, <3>2, <3>3
  <2>4. QED
    BY <2>2, <2>3
<1>8. CASE EndWait
  <2>1. /\ UNCHANGED <<generating, delivering>> /\ unreaped > 0
        /\ processor' = IF unreapedFailed THEN "failed" ELSE AfterWait(processor, Tasks)
        /\ processor \in {"drainWait", "finWait", "limitWait"}
    BY <1>8 DEF EndWait, GoTo, Tasks
  <2>2. Tasks' = Tasks
    BY <2>1 DEF Tasks
  <2>3. ActiveTasks <= MaxConcurrentSamples
    BY DEF ConcurrencyInv
  <2>4. Tasks < MaxRequiredSamples
    BY <1>5, <1>6, <2>1, <2>3
  <2>5. processor' = "finished" => ~(Tasks > 0)
    BY <2>1 DEF AfterWait
  <2>6. processor' = "finished" => generating = {} /\ delivering = {}
    BY <1>6, <2>5, TasksCounted
  <2>7. QED
    BY <2>1, <2>2, <2>4, <2>6
<1>9. CASE TakeFromPendingQueue
  <2>1. /\ UNCHANGED <<generating, delivering>> /\ processor' # "failed"
        /\ processor' = "finished" => ActiveTasks = 0
    BY <1>9 DEF TakeFromPendingQueue, ToSubmit, taskVars
  <2>2. ActiveTasks = 0 => Tasks = 0
    BY <1>6
  <2>3. QED
    BY <2>1, <2>2, TasksCounted
<1>10. QED
  BY <1>4, <1>7, <1>8, <1>9 DEF Processor

\* The tasks that are left when the end signal is in the queue.
LEMMA EndSampleTask ==
    ASSUME TypeInv, TypeInv', EndInv, SampleTask, Others
    PROVE  EndInv'
<1>1. TypeInv'
  OBVIOUS
<1>2. /\ UNCHANGED <<processor, main>> /\ Told' = Told
      /\ ~Deliver => queue' = queue
  BY DEF SampleTask, EndGeneration, Deliver, FinishGeneration, CancelGeneration, FailGeneration,
         DeliverSample, Others, procVars, queueVars, trainerVars, Told
<1>3. Tasks' <= Tasks /\ Tasks > 0 /\ (Deliver => Tasks' = Tasks - 1)
  BY <1>1, TaskLeaves DEF SampleTask, EndGeneration
<1>4. PICK t \in Nat : Tasks' = t
  BY <1>1, TasksCountedNext
<1>5. /\ Tasks \in Nat /\ t <= Tasks /\ (Deliver => t = Tasks - 1)
      /\ queue \in Seq(Entry) /\ MaxRequiredSamples \in Nat
  BY <1>3, <1>4, TasksCounted, RollouterAssumption DEF TypeInv, TypeOK, MQ!MQTypeOK
<1>6. processor # "finished"
  BY <1>3, TasksCounted DEF EndInv
<1>7. processor = "failed" => t < MaxRequiredSamples
  BY <1>5 DEF EndInv
<1>8. ASSUME main # "await", ~Told
      PROVE  SignalSafe(queue', t)
  <2>1. SignalSafe(queue, Tasks)
    BY <1>8 DEF EndInv
  <2>2. CASE Deliver
    <3>1. PICK e \in delivering : MQ!PutSample(e)
      BY <2>2 DEF Deliver, DeliverSample
    <3>2. e \in Entry /\ MQ!MQTypeOK
      BY DEF TypeInv, TypeOK, TaskTypeOK, Entry
    <3>3. SignalSafe(queue', Tasks - 1)
      BY <1>3, <1>5, <2>1, <3>1, <3>2, PutKeepsSignal
    <3>4. QED
      BY <1>5, <2>2, <3>3
  <2>3. CASE ~Deliver
    BY <1>2, <1>5, <2>1, <2>3, FewerKeepSignal
  <2>4. QED
    BY <2>2, <2>3
<1>9. QED
  BY <1>2, <1>4, <1>6, <1>7, <1>8 DEF EndInv

\* Only puts, gets and the clean-up touch the queue.
LEMMA QueueLeftAlone ==
    ASSUME \/ (Feeder \/ Monitor \/ Main \/ RemoteCall) /\ Others
           \/ SyncStep \/ Trainer \/ CleanUp \/ UNCHANGED vars,
           ~(PutEndSignal \/ CollectSample \/ CollectEndSignal \/ CleanUp)
    PROVE  queue' = queue
<1>1. CASE (Feeder \/ Monitor \/ Main \/ RemoteCall) /\ Others
  BY <1>1 DEF Feeder, FeedSample, FeedDone, Monitor, MonitorCheck, MonitorTick, MonitorReset, Main,
              StopRunning, RemoteCall, PauseBegin, PauseEnd, CallArrives, UpdateBegin,
              ResetStaleness, ReportValidation, Resume, MQ!PutValidate, queueVars
<1>2. CASE SyncStep \/ Trainer \/ UNCHANGED vars
  BY <1>2 DEF SyncStep, TellQueue, MQ!UpdateVersion, Trainer, StartFit, WaitForQueue, LogStep,
              FinalWait, LastWait, LogValidation, MQ!GetValidate, MQ!WaitForSample, TrainBatch,
              CallSync, BeginSync, EndSync, TransferWeights, vars, queueVars
<1>3. QED
  BY <1>1, <1>2

\* The other steps create no task and end no processor.
LEMMA EndOther ==
    ASSUME TypeInv, PlaceInv, EndInv, [Next]_vars,
           \/ (Feeder \/ Monitor \/ Main \/ RemoteCall) /\ Others
           \/ SyncStep \/ Trainer \/ CleanUp \/ UNCHANGED vars
    PROVE  EndInv'
<1>1. UNCHANGED <<generating, delivering>>
  <2>1. CASE (Feeder \/ Monitor \/ Main \/ RemoteCall) /\ Others
    BY <2>1 DEF Feeder, FeedSample, FeedDone, Monitor, MonitorCheck, MonitorTick, MonitorReset,
                Main, PutEndSignal, StopRunning, RemoteCall, PauseBegin, PauseEnd, CallArrives,
                UpdateBegin, ResetStaleness, ReportValidation, Resume, taskVars
  <2>2. CASE SyncStep \/ Trainer \/ CleanUp \/ UNCHANGED vars
    BY <2>2 DEF SyncStep, TellQueue, Trainer, StartFit, WaitForQueue, CollectSample,
                CollectEndSignal, TrainBatch, CallSync, BeginSync, EndSync, TransferWeights,
                LogStep, FinalWait, LastWait, CleanUp, vars, rollouterVars, taskVars
  <2>3. QED
    BY <2>1, <2>2
<1>2. /\ processor' = "finished" => processor = "finished"
      /\ processor' = "failed" => processor = "failed"
      /\ processor \in {"finished", "failed"} => processor' = processor
  <2>1. \/ processor' = processor
        \/ processor = "parked" /\ processor' = "parkWoken"
        \/ processor = "submitParked" /\ processor' = "submitWoken"
    <3>1. CASE (Feeder \/ Monitor \/ Main \/ RemoteCall) /\ Others
      BY <3>1 DEF Feeder, FeedSample, FeedDone, Monitor, MonitorCheck, MonitorTick,
                  MonitorReset, Main, PutEndSignal, StopRunning, RemoteCall, PauseBegin,
                  PauseEnd, CallArrives, UpdateBegin, ResetStaleness, ReportValidation, Resume,
                  NotifyAll, procVars
    <3>2. CASE SyncStep \/ Trainer \/ CleanUp \/ UNCHANGED vars
      BY <3>2 DEF SyncStep, TellQueue, Trainer, StartFit, WaitForQueue, CollectSample,
                  CollectEndSignal, TrainBatch, CallSync, BeginSync, EndSync, TransferWeights,
                  LogStep, FinalWait, LastWait, CleanUp, vars, rollouterVars, procVars
    <3>3. QED
      BY <3>1, <3>2
  <2>2. QED
    BY <2>1
<1>3. Tasks' = Tasks /\ Tasks \in Nat /\ queue \in Seq(Entry)
  BY <1>1, TasksCounted DEF Tasks, TypeInv, TypeOK, MQ!MQTypeOK
<1>4. /\ processor' = "finished" => generating' = {} /\ delivering' = {}
      /\ processor' = "failed" => Tasks' < MaxRequiredSamples
  BY <1>1, <1>2, <1>3 DEF EndInv
<1>5. CASE PutEndSignal
  <2>1. processor \in {"finished", "failed"}
    BY <1>5 DEF PutEndSignal
  <2>2. Tasks < MaxRequiredSamples
    <3>1. processor = "finished" => Tasks = 0
      BY TasksCounted DEF EndInv
    <3>2. MaxRequiredSamples \in Nat \ {0}
      BY RollouterAssumption
    <3>3. QED
      BY <2>1, <3>1, <3>2 DEF EndInv
  <2>3. SignalSafe(queue', Tasks) /\ SignalLast(queue')
    BY <1>3, <1>5, <2>2, PutsSignal
  <2>4. QED
    BY <1>2, <1>3, <1>4, <2>1, <2>3 DEF EndInv
<1>6. CASE ~PutEndSignal
  <2>1. main' # "await" => main # "await"
    <3>1. CASE (Feeder \/ Monitor \/ Main \/ RemoteCall) /\ Others
      BY <1>6, <3>1 DEF Feeder, FeedSample, FeedDone, Monitor, MonitorCheck, MonitorTick,
                  MonitorReset, Main, StopRunning, RemoteCall, PauseBegin,
                  PauseEnd, CallArrives, UpdateBegin, ResetStaleness, ReportValidation, Resume
    <3>2. CASE SyncStep \/ Trainer \/ CleanUp \/ UNCHANGED vars
      BY <3>2 DEF SyncStep, TellQueue, Trainer, StartFit, WaitForQueue, CollectSample,
                  CollectEndSignal, TrainBatch, CallSync, BeginSync, EndSync, TransferWeights,
                  LogStep, FinalWait, LastWait, CleanUp, vars, rollouterVars
    <3>3. QED
      BY <3>1, <3>2
  <2>2. ASSUME main # "await", ~Told' PROVE SignalSafe(queue', Tasks)
    <3>1. ~Told /\ SignalSafe(queue, Tasks)
      BY <2>2, ToldStays DEF EndInv
    <3>2. CASE CollectSample
      BY <1>3, <3>1, <3>2, GetKeepsSignal DEF CollectSample, MQ!GetSample
    <3>3. CASE CollectEndSignal \/ CleanUp
      BY <2>2, <3>1, <3>3 DEF CollectEndSignal, CleanUp, RunOver, Told
    <3>4. CASE ~(CollectSample \/ CollectEndSignal \/ CleanUp)
      BY <1>6, <3>1, <3>4, QueueLeftAlone
    <3>5. QED
      BY <3>2, <3>3, <3>4
  <2>3. ASSUME main # "await", processor = "finished" PROVE SignalLast(queue')
    <3>1. SignalLast(queue)
      BY <2>3 DEF EndInv
    <3>2. CASE CollectSample \/ CollectEndSignal
      BY <1>3, <3>1, <3>2, GetKeepsSignal DEF CollectSample, CollectEndSignal, MQ!GetSample
    <3>3. CASE CleanUp
      BY <3>3 DEF CleanUp, MQ!ClearQueue, SignalLast
    <3>4. CASE ~(CollectSample \/ CollectEndSignal \/ CleanUp)
      BY <1>6, <3>1, <3>4, QueueLeftAlone
    <3>5. QED
      BY <3>2, <3>3, <3>4
  <2>4. QED
    BY <1>2, <1>3, <1>4, <2>1, <2>2, <2>3 DEF EndInv
<1>7. QED
  BY <1>5, <1>6

LEMMA EndInit == Init => EndInv
  BY DEF Init, RollouterInit, EndInv

LEMMA EndStep == TypeInv /\ ConcurrencyInv /\ PlaceInv /\ EndInv /\ [Next]_vars => EndInv'
<1> SUFFICES ASSUME TypeInv, ConcurrencyInv, PlaceInv, EndInv, [Next]_vars PROVE EndInv'
  OBVIOUS
<1>1. TypeInv'
  BY TypeStep
<1>2. QED
  BY <1>1, EndProcessor, EndSampleTask, EndOther DEF Next, RollouterStep, Terminated, Others

\* The end signal is never dropped, whatever a failed processor's tasks still
\* put, and without failures it is the last thing the trainer receives.
THEOREM StreamIsAlwaysClosed == Spec => []StreamIsClosed
<1>1. EndInv => StreamIsClosed
  <2> SUFFICES ASSUME EndInv, main # "await"
               PROVE  /\ \/ \E i \in DOMAIN queue : queue[i].id = EndSignal
                         \/ trainer \in {"finalWait", "lastWait", "finished"} \/ finalSync
                      /\ processor = "finished" =>
                            /\ generating = {} /\ delivering = {}
                            /\ \A i \in DOMAIN queue : queue[i].id = EndSignal => i = Len(queue)
    BY DEF StreamIsClosed
  <2>1. QED
    BY DEF EndInv, Told, SignalSafe, SignalLast
<1>2. Init => ConcurrencyInv
  BY FS_EmptySet, RollouterAssumption DEF Init, RollouterInit, ConcurrencyInv, ActiveTasks
<1>3. QED
  BY <1>1, <1>2, ConcurrencyStep, EndInit, EndStep, PlaceInvariant, PTL DEF Spec
================================================================================

----------------------------- MODULE FullyAsync -----------------------------
(***************************************************************************)
(* The fully asynchronous training run: rollouter, message queue,          *)
(* parameter synchronizer and trainer, from the moment                     *)
(* FullyAsyncTaskRunner._run_training_loop starts both fit methods (the    *)
(* components are initialized, version 0 is synchronized and its           *)
(* validation result is queued) to its clean-up.                           *)
(***************************************************************************)
EXTENDS FullyAsyncTrainer

vars == <<rollouterVars, queueVars, syncVars, trainerVars>>

Init ==
    /\ RollouterInit /\ SyncInit /\ TrainerInit
    /\ queue = <<>> /\ mqRunning = TRUE /\ mqVersion = 0 /\ valQueue = <<0>>
    /\ totalProduced = 0 /\ totalConsumed = 0 /\ droppedSamples = 0 /\ cleared = 0
    /\ getter = [c \in {"trainer"} |-> "idle"]

Feeder == FeedSample \/ FeedDone

EndGeneration(s) == FinishGeneration(s) \/ CancelGeneration(s)

Deliver == \E e \in delivering : DeliverSample(e)

SampleTask == (\E s \in Samples : EndGeneration(s) \/ FailGeneration(s)) \/ Deliver

RemoteCall ==
    \/ PauseBegin \/ PauseEnd \/ CallArrives \/ UpdateBegin(syncVersion)
    \/ ResetStaleness \/ ReportValidation \/ Resume

\* What happens on the rollouter's event loop.
RollouterStep ==
    /\ Feeder \/ SampleTask \/ Processor \/ Monitor \/ Main \/ RemoteCall
    /\ UNCHANGED <<syncVars, trainerVars>>

SyncStep == TellQueue /\ UNCHANGED trainerVars

RollouterOver == main = "finished" /\ monitor = "finished"
RunOver == RollouterOver /\ trainer = "finished"

\* _run_training_loop, once both futures are done.
CleanUp ==
    /\ RunOver
    /\ queue # <<>>
    /\ MQ!ClearQueue
    /\ UNCHANGED <<rollouterVars, syncVars, trainerVars>>

\* The run may stop here, and only here.
Terminated == RunOver /\ queue = <<>> /\ UNCHANGED vars

Next == RollouterStep \/ SyncStep \/ Trainer \/ CleanUp \/ Terminated

Others == UNCHANGED <<syncVars, trainerVars>>

(* Coroutines that can run are run by the event loop, generation ends, the *)
(* actors answer, and the monitor wakes up after its sleep. A failure of a *)
(* generation task need not happen.                                        *)
Fairness ==
    /\ WF_vars(Feeder /\ Others)
    /\ \A s \in Samples : WF_vars(EndGeneration(s) /\ Others)
    /\ WF_vars(Deliver /\ Others)
    /\ WF_vars(Processor /\ Others)
    /\ WF_vars(Monitor /\ Others)
    /\ WF_vars(Main /\ Others)
    /\ WF_vars(RemoteCall /\ Others)
    /\ WF_vars(SyncStep)
    /\ WF_vars(Trainer)

Spec == Init /\ [][Next]_vars
FairSpec == Spec /\ Fairness

-----------------------------------------------------------------------------
(* Type invariant *)

Coroutines == {"processor", "monitor", "main", "sync"}

FeedTypeOK ==
    /\ globalSteps \in Samples
    /\ feed \in {"feeding", "closing", "finished"}
    /\ pendingQueue \in Seq(Samples \cup {Done})

TaskTypeOK ==
    /\ cancelQueue \in Seq(Samples)
    /\ generating \in SUBSET Samples
    /\ delivering \in SUBSET [id : Samples, ver : Versions]
    /\ unreaped \in Nat /\ unreapedFailed \in BOOLEAN
    /\ faults \in Nat

ProcTypeOK ==
    /\ processor \in {"top", "pauseLock", "drainLock", "drainWait", "parkLock", "parked",
                      "parkWoken", "take", "finLock", "finWait", "limitLock", "limitWait",
                      "submitLock", "submitParked", "submitWoken", "finished", "failed"}
    /\ inHand \in Samples \cup {NoSample}
    /\ doneBound \in BOOLEAN

FlagTypeOK ==
    /\ paused \in BOOLEAN /\ running \in BOOLEAN /\ monitorTrigger \in BOOLEAN
    /\ staleness \in Nat /\ rollVersion \in Versions /\ serversPaused \in BOOLEAN

ControlTypeOK ==
    /\ call \in {"none", "pauseLock", "gather", "paused", "transfer", "updateSent",
                 "updateLock", "count", "validate", "resumeSent", "resumeLock"}
    /\ counted \in Nat
    /\ monitor \in {"check", "sleep", "reset", "finished"}
    /\ main \in {"await", "stop", "finished"}
    /\ lockQ \in Seq(Coroutines)

TrainerTypeOK ==
    /\ syncVersion \in Versions /\ weightVersion \in Versions
    /\ trainer \in {"start", "collect", "train", "waitValid", "syncing", "log",
                    "finalWait", "lastWait", "finished"}
    /\ batch \in Seq([id : Samples, ver : Versions])
    /\ localStep \in 1 .. TriggerSyncStep
    /\ trainerVersion \in Versions
    /\ finalSync \in BOOLEAN
    /\ logged \in Versions
    /\ trained \in SUBSET Samples

TypeOK ==
    /\ FeedTypeOK /\ TaskTypeOK /\ ProcTypeOK /\ FlagTypeOK /\ ControlTypeOK
    /\ TrainerTypeOK /\ MQ!MQTypeOK

-----------------------------------------------------------------------------
(* Safety *)

\* Where a coroutine holds the rollouter's lock or waits for it.
NeedsLock(p) ==
    CASE p = "processor" -> processor \in {"pauseLock", "parkLock", "submitLock", "drainLock",
                                           "drainWait", "finLock", "finWait", "limitLock",
                                           "limitWait"}
      [] p = "monitor" -> monitor \in {"check", "reset"}
      [] p = "main" -> main = "stop"
      [] p = "sync" -> call \in {"pauseLock", "gather", "updateLock", "count", "validate",
                                 "resumeLock"}

\* Exactly the coroutines in or before a critical section are in the lock's
\* queue, each once, and those that await something with the lock held are
\* at its head: through the nested loops and the waits on the condition no
\* coroutine keeps, forgets or takes the lock twice, and the submission of
\* a task excludes the gathering of pause() and the count of
\* update_param_version.
LockDiscipline ==
    /\ \A i, j \in DOMAIN lockQ : lockQ[i] = lockQ[j] => i = j
    /\ \A p \in Coroutines : NeedsLock(p) <=> \E i \in DOMAIN lockQ : lockQ[i] = p
    /\ processor \in {"drainWait", "finWait", "limitWait"} => Holds("processor")
    /\ call \in {"gather", "count", "validate"} => Holds("sync")

\* sync_weights and its two asynchronous calls move one version through the
\* synchronizer, the queue, the servers and the rollouter in this order, and
\* the next version does not enter before wait_last_valid saw the last one
\* arrive: the rollouter is one version behind during a synchronization, and
\* never two behind the synchronizer however fast the trainer is.
VersionsInOrder ==
    /\ rollVersion <= weightVersion /\ weightVersion <= mqVersion
    /\ mqVersion <= syncVersion /\ syncVersion <= rollVersion + 1
    /\ call \in {"none", "resumeSent", "resumeLock"} => rollVersion = syncVersion
    /\ trainerVersion = syncVersion + (IF trainer = "waitValid" THEN 1 ELSE 0)

\* The processor looks at max_concurrent_samples before it waits for the
\* lock and submits after: the tasks never outnumber it all the same.
ConcurrencyBounded == ActiveTasks <= MaxConcurrentSamples

Unfed == IF feed = "feeding" THEN globalSteps .. TotalRolloutSteps ELSE {}
InPending == {pendingQueue[i] : i \in DOMAIN pendingQueue} \ {Done}
InCancel == {cancelQueue[i] : i \in DOMAIN cancelQueue}
InDelivery == {e.id : e \in delivering}
InHand == {inHand} \ {NoSample}
InQueue == SampleIds(queue) \ {EndSignal}
InBatch == SampleIds(batch)

\* A sample is in one place: through interruptions, resubmissions, drops and
\* pauses no queue, task, batch or hand ever holds a second copy, so nothing
\* is generated concurrently with itself or trained on twice.
SampleInOnePlace ==
    LET places == <<Unfed, InPending, InCancel, generating, InDelivery, InHand, InQueue,
                    InBatch, trained>>
        once(seq) == \A i, j \in DOMAIN seq : seq[i] = seq[j] => i = j
        onceId(seq) == \A i, j \in DOMAIN seq : seq[i].id = seq[j].id => i = j
    IN  /\ \A i, j \in DOMAIN places : i # j => places[i] \cap places[j] = {}
        /\ once(pendingQueue) /\ once(cancelQueue) /\ onceId(queue) /\ onceId(batch)
        /\ Cardinality(delivering) = Cardinality(InDelivery)

\* Samples the rollouter has taken on and the trainer has not yet received.
Outstanding ==
    Cardinality(InHand) + Cardinality(generating) + Cardinality(delivering)
    + Len(cancelQueue) + Cardinality(InQueue)

\* The staleness control: however the resets of staleness_samples interleave
\* with the processor, the rollouter is ahead of the trainer by at most
\* max_required_samples and the one sample the processor had in its hand
\* when update_param_version counted.
RolloutAheadBounded == Outstanding <= MaxRequiredSamples + 1

\* The samples that the trainer collects for one parameter version.
Interval == RequiredSamples * TriggerSyncStep

\* How old a sample can be when it is trained on: in front of it in the queue
\* there is room for max_required_samples, and it got there with a version
\* at most one interval old, or two without partial rollout: the monitor can
\* resume the processor during a synchronization, and a generation that
\* ends before update_param_version keeps the old version until the next
\* pause() waits for its delivery.
StalenessBounded ==
    \A i \in DOMAIN batch :
        (trainerVersion - batch[i].ver) * Interval
            < MaxRequiredSamples + (IF PartialRollout THEN 1 ELSE 2) * Interval

\* With staleness_threshold = 0 (max_required_samples is what one parameter
\* version needs) the run is on policy: whatever is trained on was finished
\* under the version being trained.
OnPolicy ==
    MaxRequiredSamples = Interval =>
        \A i \in DOMAIN batch : batch[i].ver = trainerVersion

\* Once sent, the end signal stays in the queue until the trainer takes it,
\* even if tasks of a failed processor still put samples behind it in a full
\* queue: the trainer is told that the stream ended. And without failures
\* nothing is behind it, because the drain after DONE waited for every task.
StreamIsClosed ==
    main # "await" =>
        /\ \/ \E i \in DOMAIN queue : queue[i].id = EndSignal
           \/ trainer \in {"finalWait", "lastWait", "finished"} \/ finalSync
        /\ (faults = 0 /\ processor = "finished") =>
              /\ generating = {} /\ delivering = {}
              /\ \A i \in DOMAIN queue : queue[i].id = EndSignal => i = Len(queue)

\* The trainer logs the validation results in the order of their versions,
\* without repeating one, and has logged every one when it is finished.
ValidationLogged ==
    /\ \A i, j \in DOMAIN valQueue : i < j => valQueue[i] < valQueue[j]
    /\ trainer # "start" => \A i \in DOMAIN valQueue : logged < valQueue[i]
    /\ trainer = "finished" => valQueue = <<>> /\ logged = trainerVersion

\* While pause() gathers the active tasks under the lock, no other coroutine
\* adds one, and none is left when it returns.
GatherIsComplete ==
    [][call = "gather" => /\ generating' \subseteq generating
                          /\ call' # "gather" => generating' = {} /\ delivering' = {}]_vars

-----------------------------------------------------------------------------
(* The abstract pipeline *)

StageOf(s) ==
    CASE s \in trained -> "trained"
      [] s \in InBatch -> "batched"
      [] s \in InQueue -> "queued"
      [] s \in InHand \cup generating \cup InDelivery \cup InCancel -> "rolling"
      [] s \in InPending \cup Unfed -> "waiting"
      [] OTHER -> "lost"

Pipeline == INSTANCE SamplePipeline WITH
    BatchSize <- RequiredSamples, MayFail <- MaxFaults > 0,
    stage <- [s \in Samples |-> StageOf(s)]

\* Every step of the run moves samples the way the abstract pipeline allows.
ImplementsPipeline == Pipeline!Spec

-----------------------------------------------------------------------------
(* Liveness *)

\* Both fit methods return, whatever fails in the generation tasks: neither
\* a pause that nobody ends, nor a starved trainer, nor a lost notification
\* stops the run.
RunEnds == <>RunOver

\* Each parameter synchronization ends with the rollouter resumed.
SyncEnds == (call # "none") ~> (call = "none")
=============================================================================

------------------------------ MODULE Rollouter ------------------------------
(***************************************************************************)
(* FullyAsyncRollouter (verl/experimental/fully_async_policy/              *)
(* fully_async_rollouter.py): one asyncio event loop on which a feeder, a  *)
(* processor, a monitor, the main coroutine, one task per sample and the   *)
(* remote calls pause, update_param_version and resume interleave at       *)
(* their awaits. An action is what a coroutine does between two awaits     *)
(* that can suspend it.                                                    *)
(*                                                                         *)
(* asyncio.Lock is fair: lockQ is its holder followed by its waiters in    *)
(* order, and a coroutine in its critical section is the head of lockQ.    *)
(***************************************************************************)
EXTENDS Naturals, Sequences, FiniteSets

CONSTANTS
    TotalRolloutSteps,     \* total_rollout_steps
    RequiredSamples,       \* required_samples: one training batch
    TriggerSyncStep,       \* trigger_parameter_sync_step
    MaxRequiredSamples,    \* max_required_samples, also max_queue_size
    MaxConcurrentSamples,  \* max_concurrent_samples
    PendingCapacity,       \* maxsize of pending_queue (128 in the code)
    PartialRollout,        \* async_training.partial_rollout
    MaxFaults              \* bound: generation tasks that raise

\* max_required_samples is int(required_samples * (staleness_threshold + 1)
\* * trigger) with staleness_threshold >= 0, and bounds max_concurrent_samples.
ASSUME RollouterAssumption ==
    /\ {TotalRolloutSteps, RequiredSamples, TriggerSyncStep,
        MaxConcurrentSamples, PendingCapacity} \subseteq Nat \ {0}
    /\ MaxRequiredSamples \in Nat
    /\ RequiredSamples * TriggerSyncStep <= MaxRequiredSamples
    /\ MaxConcurrentSamples <= MaxRequiredSamples
    /\ PartialRollout \in BOOLEAN
    /\ MaxFaults \in Nat

VARIABLES
    globalSteps,      \* self.global_steps: the next sample of the feeder
    feed,             \* the feeder: feeding, closing (DONE to be put), finished
    pendingQueue,     \* self.pending_queue
    cancelQueue,      \* self.cancel_queue
    generating,       \* self.active_tasks that wait for the rollout servers
    delivering,       \* self.active_tasks that wait for put_sample
    unreaped,         \* finished tasks still in self.active_tasks
    unreapedFailed,   \* one of those raised an exception
    processor,        \* where the processor is suspended
    inHand,           \* its rollout_sample, NoSample when it has none
    doneBound,        \* its local variable done_tasks has been assigned
    monitor,          \* where the monitor is suspended
    main,             \* where _streaming_generation_main is suspended
    lockQ,            \* self.lock: its holder, then its waiters
    paused,           \* self.paused
    running,          \* self.running
    monitorTrigger,   \* self.monitor_loop_trigger
    staleness,        \* self.staleness_samples
    rollVersion,      \* self.current_param_version
    serversPaused,    \* the rollout servers are cancelled (partial rollout)
    call,             \* the remote call in progress: pause, update or resume
    counted,          \* update_param_version's sum before it asks the queue
    faults            \* generation tasks that have raised

VARIABLES queue, mqRunning, mqVersion, valQueue, totalProduced, totalConsumed,
          droppedSamples, cleared, getter          \* of MessageQueue

feedVars == <<globalSteps, feed, pendingQueue>>
taskVars == <<cancelQueue, generating, delivering, unreaped, unreapedFailed, faults>>
procVars == <<processor, inHand, doneBound>>
flagVars == <<paused, running, monitorTrigger, staleness, rollVersion, serversPaused>>
callVars == <<call, counted>>
rollouterVars == <<feedVars, taskVars, procVars, flagVars, callVars, monitor,
                   main, lockQ>>
queueVars == <<queue, mqRunning, mqVersion, valQueue, totalProduced,
               totalConsumed, droppedSamples, cleared, getter>>

Samples == 1 .. TotalRolloutSteps      \* a sample is its global step
NoSample == 0
Done == 0                              \* "DONE" in pending_queue
EndSignal == 0                         \* None in the message queue
Versions == Nat

\* What the queue carries: a sample, or None, with its param_version.
Entry == [id : Samples \cup {EndSignal}, ver : Versions]

MQ == INSTANCE MessageQueue WITH
        Sample <- Entry, Version <- Versions, Consumer <- {"trainer"},
        MaxQueueSize <- MaxRequiredSamples, MaxProduced <- TotalRolloutSteps + 1

-----------------------------------------------------------------------------
Holds(p) == lockQ # <<>> /\ Head(lockQ) = p

\* Variants of the definitions below that a plausible mistake would make of
\* them end in _F; no specification uses one.
Requeue_F(p) == Append(lockQ, p)

\* p releases the lock and asks for it again, behind those who wait.
Requeue(p) == Append(Tail(lockQ), p)

\* len(self.active_tasks)
ActiveTasks == Cardinality(generating) + Cardinality(delivering) + unreaped

ShouldPause_F == Len(queue) >= MaxRequiredSamples

\* _should_pause_generation
ShouldPause ==
    \/ Len(queue) >= MaxRequiredSamples
    \/ staleness >= MaxRequiredSamples

\* The waits on self.condition; notify_all ends them.
Parked == {"parked", "submitParked"}

NotifyAll ==
    processor' = CASE processor = "parked" -> "parkWoken"
                   [] processor = "submitParked" -> "submitWoken"
                   [] OTHER -> processor

RollouterInit ==
    /\ globalSteps = 1 /\ feed = "feeding"
    /\ pendingQueue = <<>> /\ cancelQueue = <<>>
    /\ generating = {} /\ delivering = {}
    /\ unreaped = 0 /\ unreapedFailed = FALSE
    /\ processor = "top" /\ inHand = NoSample /\ doneBound = FALSE
    /\ monitor = "check" /\ main = "await" /\ lockQ = <<"monitor">>
    /\ paused = FALSE /\ running = TRUE /\ monitorTrigger = TRUE
    /\ staleness = 0 /\ rollVersion = 0 /\ serversPaused = FALSE
    /\ call = "none" /\ counted = 0 /\ faults = 0

-----------------------------------------------------------------------------
(* _feed_samples *)

FeedSample ==
    /\ feed = "feeding"
    /\ Len(pendingQueue) < PendingCapacity
    /\ pendingQueue' = Append(pendingQueue, globalSteps)
    /\ IF globalSteps >= TotalRolloutSteps
         THEN feed' = "closing" /\ UNCHANGED globalSteps
         ELSE globalSteps' = globalSteps + 1 /\ UNCHANGED feed
    /\ UNCHANGED <<taskVars, procVars, flagVars, callVars, monitor, main, lockQ, queueVars>>

FeedDone ==
    /\ feed = "closing"
    /\ Len(pendingQueue) < PendingCapacity
    /\ pendingQueue' = Append(pendingQueue, Done)
    /\ feed' = "finished"
    /\ UNCHANGED <<globalSteps, taskVars, procVars, flagVars, callVars, monitor, main,
                   lockQ, queueVars>>

-----------------------------------------------------------------------------
(* _process_single_sample_streaming *)

Finished_F(s) == [id |-> s, ver |-> 0]

\* The finished sample takes the version of this moment.
Finished(s) == [id |-> s, ver |-> rollVersion]

\* Generation ends and put_sample is sent. Servers that are paused complete only what they were
\* generating when pause() reached them, which pause() itself waits for.
FinishGeneration(s) ==
    /\ s \in generating
    /\ serversPaused => call = "gather"
    /\ generating' = generating \ {s}
    /\ delivering' = delivering \cup {Finished(s)}
    /\ UNCHANGED <<feedVars, cancelQueue, unreaped, unreapedFailed, faults, procVars,
                   flagVars, callVars, monitor, main, lockQ, queueVars>>

\* cancel_queue.put
Interrupted(s) == Append(cancelQueue, s)

\* Generation is interrupted: the fragment goes to cancel_queue.
CancelGeneration(s) ==
    /\ s \in generating
    /\ serversPaused
    /\ generating' = generating \ {s}
    /\ cancelQueue' = Interrupted(s)
    /\ unreaped' = unreaped + 1
    /\ UNCHANGED <<feedVars, delivering, unreapedFailed, faults, procVars, flagVars,
                   callVars, monitor, main, lockQ, queueVars>>

\* Generation raises: the task finishes with its exception, the sample is gone.
FailGeneration(s) ==
    /\ s \in generating
    /\ faults < MaxFaults
    /\ generating' = generating \ {s}
    /\ unreaped' = unreaped + 1
    /\ unreapedFailed' = TRUE
    /\ faults' = faults + 1
    /\ UNCHANGED <<feedVars, cancelQueue, delivering, procVars, flagVars, callVars,
                   monitor, main, lockQ, queueVars>>

\* The queue actor takes the sample and the task ends.
DeliverSample(e) ==
    /\ e \in delivering
    /\ MQ!PutSample(e)
    /\ delivering' = delivering \ {e}
    /\ unreaped' = unreaped + 1
    /\ UNCHANGED <<feedVars, cancelQueue, generating, unreapedFailed, faults, procVars,
                   flagVars, callVars, monitor, main, lockQ>>

-----------------------------------------------------------------------------
(* _processor_worker *)

\* The head of the loop decides to pause and asks for the lock.
DecideToPause ==
    /\ processor = "top"
    /\ paused \/ ShouldPause
    /\ processor' = "pauseLock"
    /\ lockQ' = Append(lockQ, "processor")
    /\ UNCHANGED <<feedVars, taskVars, inHand, doneBound, flagVars, callVars, monitor,
                   main, queueVars>>

\* self.paused = True; then either the drain of active_tasks or the park,
\* each under a new acquisition of the lock.
SetPaused ==
    /\ processor = "pauseLock" /\ Holds("processor")
    /\ paused' = TRUE
    /\ processor' = IF ActiveTasks > 0 THEN "drainLock" ELSE "parkLock"
    /\ lockQ' = Requeue("processor")
    /\ UNCHANGED <<feedVars, taskVars, inHand, doneBound, running, monitorTrigger,
                   staleness, rollVersion, serversPaused, callVars, monitor, main,
                   queueVars>>

\* The three loops "while active_tasks: async with lock: asyncio.wait": the
\* drain before a pause, the drain after DONE and the concurrency limit.
WaitLocks == {"drainLock", "finLock", "limitLock"}
Waiting(p) == CASE p = "drainLock" -> "drainWait"
                [] p = "finLock" -> "finWait"
                [] p = "limitLock" -> "limitWait"

AfterWait_F(p, active) ==
    CASE p \in {"drainLock", "drainWait"} -> IF active > 0 THEN "drainLock" ELSE "parkLock"
      [] p \in {"finLock", "finWait"} -> "finished"
      [] OTHER -> IF active >= MaxConcurrentSamples THEN "limitLock" ELSE "submitLock"

\* Where a loop goes on to once its condition is false, given len(active_tasks).
AfterWait(p, active) ==
    CASE p \in {"drainLock", "drainWait"} -> IF active > 0 THEN "drainLock" ELSE "parkLock"
      [] p \in {"finLock", "finWait"} -> IF active > 0 THEN "finLock" ELSE "finished"
      [] p \in {"limitLock", "limitWait"} ->
           IF active >= MaxConcurrentSamples THEN "limitLock" ELSE "submitLock"

\* Moves on to p, which needs the lock unless the processor is at its end.
GoTo(p) ==
    /\ processor' = p
    /\ lockQ' = IF p \in {"finished", "failed"} THEN Tail(lockQ) ELSE Requeue("processor")

\* With the lock: active_tasks is looked at again. If pause() emptied it,
\* the for loop runs over the done_tasks of an earlier wait, and raises
\* UnboundLocalError when there has been none.
BeginWait ==
    /\ processor \in WaitLocks /\ Holds("processor")
    /\ IF ActiveTasks > 0
         THEN processor' = Waiting(processor) /\ UNCHANGED lockQ
         ELSE GoTo(IF doneBound THEN AfterWait(processor, 0) ELSE "failed")
    /\ UNCHANGED <<feedVars, taskVars, inHand, doneBound, flagVars, callVars, monitor,
                   main, queueVars>>

\* asyncio.wait(FIRST_COMPLETED) returns, with the lock still held: every
\* finished task leaves active_tasks, and awaiting a failed one raises.
EndWait ==
    /\ processor \in {"drainWait", "finWait", "limitWait"}
    /\ unreaped > 0
    /\ unreaped' = 0 /\ unreapedFailed' = FALSE
    /\ doneBound' = TRUE
    /\ GoTo(IF unreapedFailed THEN "failed"
            ELSE AfterWait(processor, Cardinality(generating) + Cardinality(delivering)))
    /\ UNCHANGED <<feedVars, cancelQueue, generating, delivering, faults, inHand, flagVars,
                   callVars, monitor, main, queueVars>>

\* With the lock: while self.paused: await self.condition.wait().
Park ==
    /\ processor = "parkLock" /\ Holds("processor")
    /\ processor' = IF paused THEN "parked" ELSE "top"
    /\ lockQ' = Tail(lockQ)
    /\ UNCHANGED <<feedVars, taskVars, inHand, doneBound, flagVars, callVars, monitor,
                   main, queueVars>>

\* Condition.wait() reacquires the lock after a notification.
Reacquire ==
    /\ processor \in {"parkWoken", "submitWoken"}
    /\ processor' = IF processor = "parkWoken" THEN "parkLock" ELSE "submitLock"
    /\ lockQ' = Append(lockQ, "processor")
    /\ UNCHANGED <<feedVars, taskVars, inHand, doneBound, flagVars, callVars, monitor,
                   main, queueVars>>

ToSubmit_F ==
    /\ processor' = IF ActiveTasks > MaxConcurrentSamples THEN "limitLock" ELSE "submitLock"
    /\ lockQ' = Append(lockQ, "processor")

\* A sample is in hand: wait at the concurrency limit, or submit it.
ToSubmit ==
    /\ processor' = IF ActiveTasks >= MaxConcurrentSamples THEN "limitLock" ELSE "submitLock"
    /\ lockQ' = Append(lockQ, "processor")

TakeFromCancelQueue_F ==
    /\ processor = "top" /\ ~paused /\ ~ShouldPause
    /\ cancelQueue # <<>>
    /\ inHand' = Head(cancelQueue)
    /\ ToSubmit
    /\ UNCHANGED <<feedVars, taskVars, doneBound, flagVars, callVars, monitor, main,
                   queueVars>>

\* The head of the loop goes on: an interrupted sample comes first, and does
\* not count as a new one; otherwise the processor commits to pending_queue.
TakeFromCancelQueue ==
    /\ processor = "top" /\ ~paused /\ ~ShouldPause
    /\ cancelQueue # <<>>
    /\ inHand' = Head(cancelQueue)
    /\ cancelQueue' = Tail(cancelQueue)
    /\ ToSubmit
    /\ UNCHANGED <<feedVars, generating, delivering, unreaped, unreapedFailed, faults,
                   doneBound, flagVars, callVars, monitor, main, queueVars>>

AwaitPending ==
    /\ processor = "top" /\ ~paused /\ ~ShouldPause
    /\ cancelQueue = <<>>
    /\ processor' = "take"
    /\ UNCHANGED <<feedVars, taskVars, inHand, doneBound, flagVars, callVars, monitor,
                   main, lockQ, queueVars>>

TakeFromPendingQueue ==
    /\ processor = "take"
    /\ pendingQueue # <<>>
    /\ pendingQueue' = Tail(pendingQueue)
    /\ staleness' = staleness + 1
    /\ IF Head(pendingQueue) # Done
         THEN inHand' = Head(pendingQueue) /\ ToSubmit
         ELSE /\ UNCHANGED inHand
              /\ IF ActiveTasks = 0
                   THEN processor' = "finished" /\ UNCHANGED lockQ
                   ELSE processor' = "finLock" /\ lockQ' = Append(lockQ, "processor")
    /\ UNCHANGED <<globalSteps, feed, taskVars, doneBound, paused, running, monitorTrigger,
                   rollVersion, serversPaused, callVars, monitor, main, queueVars>>

\* With the lock: while self.paused: await self.condition.wait(); then the
\* task is created and joins active_tasks.
SubmitSample ==
    /\ processor = "submitLock" /\ Holds("processor")
    /\ lockQ' = Tail(lockQ)
    /\ IF paused
         THEN processor' = "submitParked" /\ UNCHANGED <<inHand, generating>>
         ELSE /\ processor' = "top"
              /\ generating' = generating \cup {inHand}
              /\ inHand' = NoSample
    /\ UNCHANGED <<feedVars, cancelQueue, delivering, unreaped, unreapedFailed, faults,
                   doneBound, flagVars, callVars, monitor, main, queueVars>>

Processor ==
    \/ DecideToPause \/ SetPaused \/ BeginWait \/ EndWait \/ Park \/ Reacquire
    \/ TakeFromCancelQueue \/ AwaitPending \/ TakeFromPendingQueue \/ SubmitSample

-----------------------------------------------------------------------------
(* _async_monitor_loop *)

MonitorCheck ==
    /\ monitor = "check" /\ Holds("monitor")
    /\ monitor' = IF running THEN "sleep" ELSE "finished"
    /\ lockQ' = Tail(lockQ)
    /\ UNCHANGED <<feedVars, taskVars, procVars, flagVars, callVars, main, queueVars>>

\* After the sleep, both conditions of the recovery are read without the lock.
MonitorTick ==
    /\ monitor = "sleep"
    /\ monitor' = IF monitorTrigger /\ ~ShouldPause THEN "reset" ELSE "check"
    /\ lockQ' = Append(lockQ, "monitor")
    /\ UNCHANGED <<feedVars, taskVars, procVars, flagVars, callVars, main, queueVars>>

MonitorReset ==
    /\ monitor = "reset" /\ Holds("monitor")
    /\ paused' = FALSE
    /\ NotifyAll
    /\ monitor' = "check"
    /\ lockQ' = Requeue("monitor")
    /\ UNCHANGED <<feedVars, taskVars, inHand, doneBound, running, monitorTrigger,
                   staleness, rollVersion, serversPaused, callVars, main, queueVars>>

Monitor == MonitorCheck \/ MonitorTick \/ MonitorReset

-----------------------------------------------------------------------------
(* _streaming_generation_main, after the feeder and the processor *)

PutEndSignal ==
    /\ main = "await"
    /\ processor \in {"finished", "failed"}
    /\ MQ!PutSample([id |-> EndSignal, ver |-> rollVersion])
    /\ main' = "stop"
    /\ lockQ' = Append(lockQ, "main")
    /\ UNCHANGED <<feedVars, taskVars, procVars, flagVars, callVars, monitor>>

StopRunning ==
    /\ main = "stop" /\ Holds("main")
    /\ running' = FALSE
    /\ main' = "finished"
    /\ lockQ' = Tail(lockQ)
    /\ UNCHANGED <<feedVars, taskVars, procVars, paused, monitorTrigger, staleness,
                   rollVersion, serversPaused, callVars, monitor, queueVars>>

Main == PutEndSignal \/ StopRunning

-----------------------------------------------------------------------------
(* The remote calls. The synchronizer makes them one after the other.      *)

\* pause(): with the lock, the flag, and the cancellation of the servers.
PauseBegin ==
    /\ call = "pauseLock" /\ Holds("sync")
    /\ paused' = TRUE
    /\ serversPaused' = PartialRollout
    /\ call' = "gather"
    /\ UNCHANGED <<feedVars, taskVars, procVars, running, monitorTrigger, staleness,
                   rollVersion, counted, monitor, main, lockQ, queueVars>>

AllDone_F == generating \cup delivering = {} \/ unreaped > 0

\* asyncio.gather of the active tasks returns.
AllDone == generating = {} /\ delivering = {}

\* pause(): all active tasks are done, whatever they raised; the lock is
\* released only after the monitor has been told to keep quiet.
PauseEnd ==
    /\ call = "gather"
    /\ AllDone
    /\ unreaped' = 0 /\ unreapedFailed' = FALSE
    /\ monitorTrigger' = FALSE
    /\ call' = "paused"
    /\ lockQ' = Tail(lockQ)
    /\ UNCHANGED <<feedVars, cancelQueue, generating, delivering, faults, procVars, paused,
                   running, staleness, rollVersion, serversPaused, counted, monitor, main,
                   queueVars>>

CallArrives_F ==
    /\ call = "resumeSent"
    /\ call' = "resumeLock"
    /\ lockQ' = Append(lockQ, "sync")
    /\ UNCHANGED <<feedVars, taskVars, procVars, flagVars, counted, monitor, main, queueVars>>

\* A call that was started without waiting for it reaches the event loop.
CallArrives ==
    /\ call \in {"updateSent", "resumeSent"}
    /\ call' = IF call = "updateSent" THEN "updateLock" ELSE "resumeLock"
    /\ lockQ' = Append(lockQ, "sync")
    /\ UNCHANGED <<feedVars, taskVars, procVars, flagVars, counted, monitor, main, queueVars>>

\* update_param_version(version), up to its await of the queue's size.
UpdateBegin(version) ==
    /\ call = "updateLock" /\ Holds("sync")
    /\ rollVersion' = version
    /\ counted' = ActiveTasks + Len(cancelQueue)
    /\ call' = "count"
    /\ UNCHANGED <<feedVars, taskVars, procVars, paused, running, monitorTrigger, staleness,
                   serversPaused, monitor, main, lockQ, queueVars>>

\* The queue answers: staleness_samples is reset; validation follows.
ResetStaleness ==
    /\ call = "count"
    /\ staleness' = counted + Len(queue)
    /\ counted' = 0
    /\ call' = "validate"
    /\ UNCHANGED <<feedVars, taskVars, procVars, paused, running, monitorTrigger,
                   rollVersion, serversPaused, monitor, main, lockQ, queueVars>>

\* put_validate, and the end of update_param_version. Ray then starts resume,
\* which depends on it.
ReportValidation ==
    /\ call = "validate"
    /\ MQ!PutValidate(rollVersion)
    /\ call' = "resumeSent"
    /\ lockQ' = Tail(lockQ)
    /\ UNCHANGED <<feedVars, taskVars, procVars, flagVars, counted, monitor, main>>

Resume_F ==
    /\ call = "resumeLock" /\ Holds("sync")
    /\ serversPaused' = FALSE
    /\ paused' = FALSE
    /\ NotifyAll
    /\ call' = "none"
    /\ lockQ' = Tail(lockQ)
    /\ UNCHANGED <<feedVars, taskVars, inHand, doneBound, running, monitorTrigger, staleness,
                   rollVersion, counted, monitor, main, queueVars>>

\* resume(): the servers, the flag, the monitor's permission, the notification.
Resume ==
    /\ call = "resumeLock" /\ Holds("sync")
    /\ serversPaused' = FALSE
    /\ paused' = FALSE
    /\ monitorTrigger' = TRUE
    /\ NotifyAll
    /\ call' = "none"
    /\ lockQ' = Tail(lockQ)
    /\ UNCHANGED <<feedVars, taskVars, inHand, doneBound, running, staleness, rollVersion,
                   counted, monitor, main, queueVars>>
=============================================================================

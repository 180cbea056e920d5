---------------------------- MODULE MessageQueue ----------------------------
(***************************************************************************)
(* The MessageQueue actor of the fully asynchronous trainer                *)
(* (verl/experimental/fully_async_policy/message_queue.py): a bounded      *)
(* first-in first-out queue of rollout samples that drops its oldest       *)
(* element instead of blocking a producer, blocks a consumer on an         *)
(* asyncio.Condition while it is empty, and carries a second, unbounded    *)
(* queue of validation results.                                            *)
(*                                                                         *)
(* Every method body runs under the actor's lock and gives it up only in   *)
(* Condition.wait(), so a method is one action, except get_sample: its     *)
(* wait splits it into the call (GetSample or WaitForSample) and the       *)
(* continuation after a notification (WakeUp followed by one of those).    *)
(***************************************************************************)
EXTENDS Naturals, Sequences

CONSTANTS
    Sample,        \* what a producer may put
    Version,       \* parameter versions
    Consumer,      \* the callers of get_sample
    MaxQueueSize,  \* max_queue_size
    MaxProduced    \* bound: puts the standalone specification makes

ASSUME QueueSizeAssumption == MaxQueueSize \in Nat \ {0}
ASSUME MaxProducedAssumption == MaxProduced \in Nat

VARIABLES
    queue,           \* self.queue, oldest sample first
    mqRunning,       \* self.running
    mqVersion,       \* self.current_param_version
    valQueue,        \* self.val_queue
    totalProduced,   \* self.total_produced
    totalConsumed,   \* self.total_consumed
    droppedSamples,  \* self.dropped_samples
    cleared,         \* the sum of the counts clear_queue logs
    getter           \* each consumer: idle, in Condition.wait(), or notified

mqVars == <<queue, mqRunning, mqVersion, valQueue, totalProduced,
            totalConsumed, droppedSamples, cleared, getter>>

counters == <<totalProduced, totalConsumed, droppedSamples, cleared>>

\* Variants of the definitions below that a plausible mistake would make of
\* them end in _F; no specification uses one.
Notified_F == getter

\* Condition.notify_all: every waiting consumer will look at the queue again.
Notified == [c \in Consumer |->
                IF getter[c] = "waiting" THEN "notified" ELSE getter[c]]

IsFull == Len(queue) >= MaxQueueSize

Room_F == IF IsFull THEN SubSeq(queue, 1, Len(queue) - 1) ELSE queue

\* What put_sample appends to: a full queue without its oldest sample.
Room == IF IsFull THEN Tail(queue) ELSE queue

\* put_sample: a full queue gives up its oldest sample to the new one.
PutSample(x) ==
    /\ queue' = Append(Room, x)
    /\ droppedSamples' = droppedSamples + (IF IsFull THEN 1 ELSE 0)
    /\ totalProduced' = totalProduced + 1
    /\ getter' = Notified
    /\ UNCHANGED <<mqRunning, mqVersion, valQueue, totalConsumed, cleared>>

\* get_sample returns x, at the call or after a notification.
GetSample(c, x) ==
    /\ getter[c] \in {"idle", "notified"}
    /\ queue # <<>>
    /\ x = Head(queue)
    /\ queue' = Tail(queue)
    /\ totalConsumed' = totalConsumed + 1
    /\ getter' = [getter EXCEPT ![c] = "idle"]
    /\ UNCHANGED <<mqRunning, mqVersion, valQueue, totalProduced,
                   droppedSamples, cleared>>

\* get_sample finds the queue empty and the actor running: Condition.wait().
WaitForSample(c) ==
    /\ getter[c] \in {"idle", "notified"}
    /\ queue = <<>> /\ mqRunning
    /\ getter' = [getter EXCEPT ![c] = "waiting"]
    /\ UNCHANGED <<queue, mqRunning, mqVersion, valQueue, counters>>

\* get_sample returns None: the actor is shut down and the queue is empty.
GetClosed(c) ==
    /\ getter[c] \in {"idle", "notified"}
    /\ queue = <<>> /\ ~mqRunning
    /\ getter' = [getter EXCEPT ![c] = "idle"]
    /\ UNCHANGED <<queue, mqRunning, mqVersion, valQueue, counters>>

UpdateVersion(v) ==
    /\ mqVersion' = v
    /\ UNCHANGED <<queue, mqRunning, valQueue, counters, getter>>

ClearQueue ==
    /\ queue' = <<>>
    /\ cleared' = cleared + Len(queue)
    /\ UNCHANGED <<mqRunning, mqVersion, valQueue, totalProduced,
                   totalConsumed, droppedSamples, getter>>

Shutdown ==
    /\ mqRunning' = FALSE
    /\ getter' = Notified
    /\ UNCHANGED <<queue, mqVersion, valQueue, counters>>

PutValidate(v) ==
    /\ valQueue' = Append(valQueue, v)
    /\ UNCHANGED <<queue, mqRunning, mqVersion, counters, getter>>

\* get_validate never waits; its None for an empty queue changes nothing.
GetValidate ==
    /\ valQueue' = IF valQueue = <<>> THEN <<>> ELSE Tail(valQueue)
    /\ UNCHANGED <<queue, mqRunning, mqVersion, counters, getter>>

MQInit ==
    /\ queue = <<>> /\ mqRunning = TRUE
    /\ mqVersion \in Version
    /\ valQueue = <<>>
    /\ totalProduced = 0 /\ totalConsumed = 0
    /\ droppedSamples = 0 /\ cleared = 0
    /\ getter = [c \in Consumer |-> "idle"]

-----------------------------------------------------------------------------
(* The actor on its own. Its producers number the samples in the order in  *)
(* which they put them, which is all that the properties tell apart.       *)

Produce ==
    /\ totalProduced < MaxProduced
    /\ \E x \in Sample : x = totalProduced + 1 /\ PutSample(x)

Take(c) == \E x \in Sample : GetSample(c, x)

\* The part of get_sample that the event loop runs by itself.
Continue(c) ==
    /\ getter[c] = "notified"
    /\ Take(c) \/ WaitForSample(c) \/ GetClosed(c)

MQNext ==
    \/ Produce
    \/ \E c \in Consumer : Take(c) \/ WaitForSample(c) \/ GetClosed(c)
    \/ \E v \in Version : UpdateVersion(v)
    \/ ClearQueue
    \/ Shutdown

MQSpec == /\ MQInit /\ [][MQNext]_mqVars
          /\ \A c \in Consumer : WF_mqVars(Continue(c))

-----------------------------------------------------------------------------
MQTypeOK ==
    /\ queue \in Seq(Sample) /\ Len(queue) <= MaxQueueSize
    /\ mqRunning \in BOOLEAN
    /\ mqVersion \in Version
    /\ valQueue \in Seq(Version)
    /\ totalProduced \in Nat /\ totalConsumed \in Nat
    /\ droppedSamples \in Nat /\ cleared \in Nat
    /\ getter \in [Consumer -> {"idle", "waiting", "notified"}]

\* Every sample put is, in the order of the puts, first among those handed
\* out, dropped or cleared and then among those queued: put_sample and
\* get_sample neither lose a sample the counters do not show, nor hand one
\* out twice, nor reorder the queue, whatever overflows and clears happen.
NothingUnaccounted ==
    LET gone == totalConsumed + droppedSamples + cleared
    IN  /\ totalProduced = gone + Len(queue)
        /\ \A i \in 1 .. Len(queue) : queue[i] = gone + i

\* A consumer stays in Condition.wait() only while there is nothing to
\* return to it: put_sample and shutdown wake every waiter they could serve.
NoLostWakeup ==
    (queue # <<>> \/ ~mqRunning) => \A c \in Consumer : getter[c] # "waiting"
=============================================================================

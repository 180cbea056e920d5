------------------------ MODULE MessageQueue_proofs ------------------------
(***************************************************************************)
(* The invariants of the message queue, for every capacity, every set of   *)
(* consumers and every number of samples.                                  *)
(***************************************************************************)
EXTENDS MessageQueue, TLAPS

\* Tail of a non-empty sequence: type, length and elements.
LEMMA TailFacts ==
    ASSUME NEW S, NEW seq \in Seq(S), seq # <<>>
    PROVE  /\ Tail(seq) \in Seq(S)
           /\ Head(seq) \in S
           /\ Len(seq) \in Nat \ {0}
           /\ Len(Tail(seq)) = Len(seq) - 1
           /\ Head(seq) = seq[1]
           /\ \A i \in 1 .. Len(Tail(seq)) : Tail(seq)[i] = seq[i + 1]
  OBVIOUS

\* Append: type, length and elements.
LEMMA AppendFacts ==
    ASSUME NEW S, NEW seq \in Seq(S), NEW x \in S
    PROVE  /\ Append(seq, x) \in Seq(S)
           /\ Append(seq, x) # <<>>
           /\ Len(seq) \in Nat
           /\ Len(Append(seq, x)) = Len(seq) + 1
           /\ \A i \in 1 .. Len(Append(seq, x)) :
                 Append(seq, x)[i] = IF i <= Len(seq) THEN seq[i] ELSE x
  OBVIOUS

\* The queue put_sample makes room in is at least one below its capacity.
LEMMA RoomFacts ==
    ASSUME queue \in Seq(Sample), Len(queue) <= MaxQueueSize
    PROVE  LET lost == IF IsFull THEN 1 ELSE 0
           IN  /\ Room \in Seq(Sample)
               /\ lost \in {0, 1}
               /\ Len(queue) \in Nat
               /\ Len(Room) = Len(queue) - lost
               /\ Len(Room) < MaxQueueSize
               /\ \A i \in 1 .. Len(Room) : Room[i] = queue[i + lost]
<1>1. CASE IsFull
  <2>1. queue # <<>>
    BY <1>1, QueueSizeAssumption DEF IsFull
  <2>2. QED
    BY <1>1, <2>1, TailFacts, QueueSizeAssumption DEF Room
<1>2. CASE ~IsFull
  BY <1>2, QueueSizeAssumption DEF IsFull, Room
<1>3. QED
  BY <1>1, <1>2

-----------------------------------------------------------------------------
(* Type correctness *)

\* The empty queue has its type.
LEMMA TypeInit == MQInit => MQTypeOK
  BY QueueSizeAssumption DEF MQInit, MQTypeOK

\* put_sample, with a full queue or not.
LEMMA TypePut ==
    ASSUME MQTypeOK, NEW x \in Sample, PutSample(x)
    PROVE  MQTypeOK'
<1>1. Room \in Seq(Sample) /\ Len(Room) \in Nat /\ Len(Room) < MaxQueueSize
  BY RoomFacts DEF MQTypeOK
<1>2. queue' = Append(Room, x)
  BY DEF PutSample
<1>3. queue' \in Seq(Sample) /\ Len(queue') <= MaxQueueSize
  BY <1>1, <1>2, AppendFacts, QueueSizeAssumption
<1>4. getter' \in [Consumer -> {"idle", "waiting", "notified"}]
  BY DEF MQTypeOK, PutSample, Notified
<1>5. totalProduced' \in Nat /\ droppedSamples' \in Nat
  BY DEF MQTypeOK, PutSample
<1>6. UNCHANGED <<mqRunning, mqVersion, valQueue, totalConsumed, cleared>>
  BY DEF PutSample
<1>7. QED
  BY <1>3, <1>4, <1>5, <1>6 DEF MQTypeOK

\* get_sample.
LEMMA TypeGet ==
    ASSUME MQTypeOK, NEW c \in Consumer, NEW x \in Sample, GetSample(c, x)
    PROVE  MQTypeOK'
<1>1. queue' = Tail(queue) /\ queue # <<>>
  BY DEF GetSample
<1>2. queue' \in Seq(Sample) /\ Len(queue') <= MaxQueueSize
  BY <1>1, TailFacts, QueueSizeAssumption DEF MQTypeOK
<1>3. QED
  BY <1>2 DEF MQTypeOK, GetSample

\* The methods that neither put nor get a sample.
LEMMA TypeOther ==
    ASSUME MQTypeOK,
           \/ \E c \in Consumer : WaitForSample(c) \/ GetClosed(c)
           \/ \E v \in Version : UpdateVersion(v)
           \/ ClearQueue
           \/ Shutdown
           \/ UNCHANGED mqVars
    PROVE  MQTypeOK'
<1>1. CASE \E c \in Consumer : WaitForSample(c) \/ GetClosed(c)
  BY <1>1 DEF MQTypeOK, WaitForSample, GetClosed, counters
<1>2. CASE \E v \in Version : UpdateVersion(v)
  BY <1>2 DEF MQTypeOK, UpdateVersion, counters
<1>3. CASE ClearQueue
  BY <1>3, QueueSizeAssumption DEF MQTypeOK, ClearQueue
<1>4. CASE Shutdown
  BY <1>4 DEF MQTypeOK, Shutdown, Notified, counters
<1>5. CASE UNCHANGED mqVars
  BY <1>5 DEF MQTypeOK, mqVars
<1>6. QED
  BY <1>1, <1>2, <1>3, <1>4, <1>5

\* The variables keep their types, and the queue never exceeds its capacity.
THEOREM QueueTypeCorrect == MQSpec => []MQTypeOK
<1>1. MQTypeOK /\ [MQNext]_mqVars => MQTypeOK'
  <2> SUFFICES ASSUME MQTypeOK, [MQNext]_mqVars PROVE MQTypeOK'
    OBVIOUS
  <2>1. CASE Produce
    BY <2>1, TypePut DEF Produce
  <2>2. CASE \E c \in Consumer : Take(c)
    BY <2>2, TypeGet DEF Take
  <2>3. QED
    BY <2>1, <2>2, TypeOther DEF MQNext
<1>2. QED
  BY <1>1, TypeInit, PTL DEF MQSpec

-----------------------------------------------------------------------------
(* Nothing is lost, repeated or reordered *)

\* put_sample keeps the account, also when it drops the oldest sample.
LEMMA AccountPut ==
    ASSUME MQTypeOK, NothingUnaccounted, Produce
    PROVE  NothingUnaccounted'
<1> PICK x \in Sample : x = totalProduced + 1 /\ PutSample(x)
  BY DEF Produce
<1> DEFINE lost == IF IsFull THEN 1 ELSE 0
           gone == totalConsumed + droppedSamples + cleared
<1>1. /\ Room \in Seq(Sample) /\ lost \in {0, 1} /\ Len(queue) \in Nat
      /\ Len(Room) = Len(queue) - lost
      /\ \A i \in 1 .. Len(Room) : Room[i] = queue[i + lost]
  BY RoomFacts DEF MQTypeOK
<1>2. queue' = Append(Room, x) /\ droppedSamples' = droppedSamples + lost
  BY DEF PutSample
<1>3. /\ totalProduced' = totalProduced + 1
      /\ totalConsumed' = totalConsumed /\ cleared' = cleared
  BY DEF PutSample
<1>4. /\ totalConsumed \in Nat /\ droppedSamples \in Nat /\ cleared \in Nat
      /\ totalProduced = gone + Len(queue)
      /\ \A i \in 1 .. Len(queue) : queue[i] = gone + i
  BY DEF MQTypeOK, NothingUnaccounted
<1> HIDE DEF lost
<1>5. /\ Len(queue') = Len(Room) + 1
      /\ \A i \in 1 .. Len(queue') : queue'[i] = IF i <= Len(Room) THEN Room[i] ELSE x
  BY <1>1, <1>2, AppendFacts
<1>6. totalProduced' = (gone + lost) + Len(queue')
  BY <1>1, <1>3, <1>4, <1>5
<1>7. \A i \in 1 .. Len(queue') : queue'[i] = (gone + lost) + i
  <2> TAKE i \in 1 .. Len(queue')
  <2>1. CASE i <= Len(Room)
    BY <1>1, <1>4, <1>5, <2>1
  <2>2. CASE ~(i <= Len(Room))
    <3>1. i = Len(Room) + 1 /\ queue'[i] = x
      BY <1>1, <1>5, <2>2
    <3>2. x = gone + Len(queue) + 1
      BY <1>4
    <3>3. QED
      BY <1>1, <1>4, <3>1, <3>2
  <2>3. QED
    BY <2>1, <2>2
<1>8. (totalConsumed + droppedSamples + cleared)' = gone + lost
  BY <1>1, <1>2, <1>3, <1>4
<1>9. QED
  BY <1>6, <1>7, <1>8 DEF NothingUnaccounted

\* get_sample takes the oldest sample there is.
LEMMA AccountGet ==
    ASSUME MQTypeOK, NothingUnaccounted, NEW c \in Consumer, NEW x, GetSample(c, x)
    PROVE  NothingUnaccounted'
<1>1. /\ queue # <<>> /\ queue' = Tail(queue)
      /\ totalConsumed' = totalConsumed + 1
      /\ totalProduced' = totalProduced /\ droppedSamples' = droppedSamples
      /\ cleared' = cleared
  BY DEF GetSample
<1>2. /\ Len(queue) \in Nat \ {0} /\ Len(queue') = Len(queue) - 1
      /\ \A i \in 1 .. Len(queue') : queue'[i] = queue[i + 1]
  BY <1>1, TailFacts DEF MQTypeOK
<1>3. QED
  BY <1>1, <1>2 DEF MQTypeOK, NothingUnaccounted

\* Whatever overflows, clears and consumers do, the queue holds exactly the
\* youngest samples put and not yet accounted for, in the order of the puts.
THEOREM QueueAccounts == MQSpec => []NothingUnaccounted
<1>1. MQInit => NothingUnaccounted
  BY DEF MQInit, NothingUnaccounted
<1>2. MQTypeOK /\ NothingUnaccounted /\ [MQNext]_mqVars => NothingUnaccounted'
  <2> SUFFICES ASSUME MQTypeOK, NothingUnaccounted, [MQNext]_mqVars
               PROVE  NothingUnaccounted'
    OBVIOUS
  <2>1. CASE Produce
    BY <2>1, AccountPut
  <2>2. CASE \E c \in Consumer : Take(c)
    BY <2>2, AccountGet DEF Take
  <2>3. CASE \E c \in Consumer : WaitForSample(c) \/ GetClosed(c)
    BY <2>3 DEF NothingUnaccounted, WaitForSample, GetClosed, counters
  <2>4. CASE \E v \in Version : UpdateVersion(v)
    BY <2>4 DEF NothingUnaccounted, UpdateVersion, counters
  <2>5. CASE ClearQueue
    BY <2>5 DEF MQTypeOK, NothingUnaccounted, ClearQueue
  <2>6. CASE Shutdown
    BY <2>6 DEF NothingUnaccounted, Shutdown, counters
  <2>7. CASE UNCHANGED mqVars
    BY <2>7 DEF NothingUnaccounted, mqVars
  <2>8. QED
    BY <2>1, <2>2, <2>3, <2>4, <2>5, <2>6, <2>7 DEF MQNext
<1>3. QED
  BY <1>1, <1>2, QueueTypeCorrect, PTL DEF MQSpec

-----------------------------------------------------------------------------
(* No lost wakeup *)

\* notify_all leaves no consumer waiting.
LEMMA NotifiedFacts ==
    ASSUME MQTypeOK
    PROVE  \A c \in Consumer : Notified[c] # "waiting"
  BY DEF MQTypeOK, Notified

\* A consumer waits only while the queue is empty and the actor runs.
THEOREM QueueWakesConsumers == MQSpec => []NoLostWakeup
<1>1. MQInit => NoLostWakeup
  BY DEF MQInit, NoLostWakeup
<1>2. MQTypeOK /\ NoLostWakeup /\ [MQNext]_mqVars => NoLostWakeup'
  <2> SUFFICES ASSUME MQTypeOK, NoLostWakeup, [MQNext]_mqVars
               PROVE  NoLostWakeup'
    OBVIOUS
  <2>1. CASE Produce
    BY <2>1, NotifiedFacts DEF Produce, PutSample, NoLostWakeup
  <2>2. CASE \E c \in Consumer : Take(c)
    BY <2>2 DEF MQTypeOK, NoLostWakeup, Take, GetSample
  <2>3. CASE \E c \in Consumer : WaitForSample(c) \/ GetClosed(c)
    BY <2>3 DEF MQTypeOK, NoLostWakeup, WaitForSample, GetClosed
  <2>4. CASE \E v \in Version : UpdateVersion(v)
    BY <2>4 DEF NoLostWakeup, UpdateVersion
  <2>5. CASE ClearQueue
    BY <2>5 DEF NoLostWakeup, ClearQueue
  <2>6. CASE Shutdown
    BY <2>6, NotifiedFacts DEF NoLostWakeup, Shutdown
  <2>7. CASE UNCHANGED mqVars
    BY <2>7 DEF NoLostWakeup, mqVars
  <2>8. QED
    BY <2>1, <2>2, <2>3, <2>4, <2>5, <2>6, <2>7 DEF MQNext
<1>3. QED
  BY <1>1, <1>2, QueueTypeCorrect, PTL DEF MQSpec
=============================================================================

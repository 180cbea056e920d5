--------------------------- MODULE CheckpointEngine ---------------------------
(***************************************************************************)
(* The transfer of weights from the trainer's to the rollouter's workers   *)
(* by buckets: every actor rank holds a part of the parameters and sends   *)
(* it to all ranks in turn. With overlap_broadcast_and_consume a thread of *)
(* each rank loads one half of a double buffer into the model while the    *)
(* next bucket is broadcast into the other half; the two talk over a       *)
(* REQ/REP socket. Without, the rank loads what it has received itself.    *)
(*                                                                         *)
(* A parameter is its index, its size a number of buffer units. What a     *)
(* buffer holds is the bucket and the version of the weights in it. A      *)
(* broadcast leaves its source at once and reaches a rank when the rank    *)
(* takes part: NCCL promises the ranks no more than the order.             *)
(***************************************************************************)
EXTENDS Integers, Sequences, FiniteSets

CONSTANTS
    NumActors, NumRollouts,   \* workers of the trainer and of the rollouter
    Models,           \* the models considered: sequences of parameter sizes
    DeviceBufferSize, \* checkpoint_engine.device_buffer_size_M
    MaxSyncs          \* bound of this model: transfers in a run

ASSUME EngineAssumption ==
    /\ NumActors \in Nat \ {0} /\ NumRollouts \in Nat \ {0}
    /\ Models \subseteq Seq(Nat \ {0}) \ {<<>>}
    /\ DeviceBufferSize \in Nat \ {0} /\ MaxSyncs \in Nat

VARIABLES
    sizes, overlap,   \* the model and overlap_broadcast_and_consume, fixed
    globalBuckets,    \* global_buckets, computed once by every rank, the same
    version,          \* transfers the synchronizer has begun
    finished,         \* transfers a rank has finished
    pc,               \* where the main thread of a rank is
    slot,             \* gidx + 1: the broadcast of this transfer a rank is at
    memory,           \* memory_buffers: the buckets a rank sends
    h2d,              \* h2d_buffer
    buffer,           \* the halves of broadcast_load_buffer
    net,              \* what has been broadcast in this transfer, in order
    arrived,          \* barriers a rank has come to
    request, reply,   \* the socket between the main thread and the loader
    model             \* the version of each parameter in a rank's model

config == <<sizes, overlap, globalBuckets>>
socket == <<request, reply>>
vars == <<config, version, finished, pc, slot, memory, h2d, buffer, net, arrived, socket, model>>

ActorRanks == 0 .. NumActors - 1
RolloutRanks == NumActors .. NumActors + NumRollouts - 1
Ranks == ActorRanks \cup RolloutRanks

Nothing == [bucket |-> <<>>, version |-> 0]     \* uninitialized memory
NoRequest == 0
Hello == -1
Stop == -2
Mixed == -1           \* the version of a parameter read from the wrong bucket

(* register_checkpoint *)

Total(bucket) ==
    LET Sum[k \in 0 .. Len(bucket)] == IF k = 0 THEN 0 ELSE Sum[k - 1] + sizes[bucket[k]]
    IN  Sum[Len(bucket)]

BucketSize ==
    LET largest == CHOOSE s \in {sizes[p] : p \in DOMAIN sizes} : \A p \in DOMAIN sizes : sizes[p] <= s
    IN  IF largest > DeviceBufferSize THEN largest ELSE DeviceBufferSize

\* A parameter goes to the last bucket of its rank, or begins a new one.
AddTo(buckets, p) ==
    LET last == buckets[Len(buckets)]
    IN  IF Total(last) + sizes[p] > BucketSize
        THEN Append(buckets, <<p>>)
        ELSE [buckets EXCEPT ![Len(buckets)] = Append(last, p)]

\* global_buckets: parameter by parameter, to the actor ranks in turn.
BucketsByRank ==
    LET Register[p \in 0 .. Len(sizes)] ==
            IF p = 0 THEN [a \in ActorRanks |-> << <<>> >>]
            ELSE [Register[p - 1] EXCEPT ![(p - 1) % NumActors] = AddTo(@, p)]
    IN  Register[Len(sizes)]

(* update_checkpoint *)

\* The two nested loops: the i-th bucket of every rank that has one.
Slots ==
    LET Add[k \in 0 .. NumActors * Len(sizes)] ==
            IF k = 0 THEN <<>>
            ELSE LET s == [src |-> (k - 1) % NumActors, i |-> (k - 1) \div NumActors + 1]
                 IN  IF s.i > Len(globalBuckets[s.src]) THEN Add[k - 1] ELSE Append(Add[k - 1], s)
    IN  Add[NumActors * Len(sizes)]

Metas(s) == globalBuckets[s.src][s.i]

\* Faulty: one buffer serves both modes.
Half_F(g) == 0

Half(g) == IF overlap THEN g % 2 ELSE 0

\* What load_weights makes of a model when it reads the parameters of a bucket
\* from a buffer.
Loaded(old, bucket, content) ==
    [p \in DOMAIN old |->
        IF \E k \in DOMAIN bucket : bucket[k] = p
        THEN IF content.bucket = bucket THEN content.version ELSE Mixed
        ELSE old[p]]

\* Workers of the trainer pass no inference_model.
LoadWeights(r, g, content) ==
    model' = IF r \in RolloutRanks
             THEN [model EXCEPT ![r] = Loaded(@, Metas(Slots[g]), content)]
             ELSE model

PassBarrier(r) == \A q \in Ranks : arrived[q] >= arrived[r]
ToBarrier(r) == arrived' = [arrived EXCEPT ![r] = @ + 1]
GoTo(r, place) == pc' = [pc EXCEPT ![r] = place]

Init ==
    /\ sizes \in Models /\ overlap \in BOOLEAN /\ globalBuckets = BucketsByRank
    /\ version = 0 /\ net = <<>>
    /\ finished = [r \in Ranks |-> 0] /\ arrived = [r \in Ranks |-> 0]
    /\ pc = [r \in Ranks |-> "idle"] /\ slot = [r \in Ranks |-> 0]
    /\ memory = [r \in Ranks |-> <<>>]
    /\ h2d = [r \in Ranks |-> Nothing]
    /\ buffer = [r \in Ranks |-> [h \in 0 .. 1 |-> Nothing]]
    /\ request = [r \in Ranks |-> NoRequest] /\ reply = [r \in Ranks |-> FALSE]
    /\ model = [r \in RolloutRanks |-> [p \in DOMAIN sizes |-> 0]]

\* sync_weights of the synchronizer waits for the rollouter's workers only.
CallSync ==
    /\ version < MaxSyncs
    /\ \A r \in RolloutRanks : finished[r] = version
    /\ version' = version + 1 /\ net' = <<>>
    /\ UNCHANGED <<config, finished, pc, slot, memory, h2d, buffer, arrived, socket, model>>

\* sync_rollout_weights_by_checkpoint: the weights of a rank's parameters are
\* cached and copied to its buckets, then the ranks meet.
Register(r) ==
    /\ pc[r] = "idle" /\ finished[r] < version
    /\ memory' = [memory EXCEPT ![r] =
                    IF r \in ActorRanks
                    THEN [i \in DOMAIN globalBuckets[r] |->
                            [bucket |-> globalBuckets[r][i], version |-> finished[r] + 1]]
                    ELSE <<>>]
    /\ ToBarrier(r) /\ GoTo(r, "registered")
    /\ UNCHANGED <<config, version, finished, slot, h2d, buffer, net, socket, model>>

\* The buffers are allocated and the loader is started.
Begin(r) ==
    /\ pc[r] = "registered" /\ PassBarrier(r)
    /\ slot' = [slot EXCEPT ![r] = 1]
    /\ h2d' = [h2d EXCEPT ![r] = Nothing]
    /\ buffer' = [buffer EXCEPT ![r] = [h \in 0 .. 1 |-> Nothing]]
    /\ request' = [request EXCEPT ![r] = IF overlap THEN Hello ELSE NoRequest]
    /\ GoTo(r, "broadcast")
    /\ UNCHANGED <<config, version, finished, memory, net, arrived, reply, model>>

\* The rank has handled its bucket and goes on to the next.
NextSlot(r) ==
    /\ slot' = [slot EXCEPT ![r] = @ + 1]
    /\ IF slot[r] < Len(Slots)
       THEN GoTo(r, "broadcast") /\ UNCHANGED arrived
       ELSE IF overlap THEN GoTo(r, "drain") /\ UNCHANGED arrived
            ELSE GoTo(r, "end") /\ ToBarrier(r)

\* The copy to the device of the bucket to be sent in this round, and the
\* broadcast of a bucket, its own or another rank's.
Broadcast(r) ==
    /\ pc[r] = "broadcast"
    /\ LET g       == slot[r]
           s       == Slots[g]
           device  == IF s.i \in DOMAIN memory[r] THEN memory[r][s.i] ELSE h2d[r]
           content == IF s.src = r THEN device ELSE net[g]
       IN  /\ IF s.src = r THEN net' = Append(net, content)
              ELSE g \in DOMAIN net /\ UNCHANGED net
           /\ h2d' = [h2d EXCEPT ![r] = device]
           /\ buffer' = [buffer EXCEPT ![r][Half(g)] = content]
           /\ IF overlap
              THEN GoTo(r, "reply") /\ UNCHANGED <<slot, arrived, model>>
              ELSE LoadWeights(r, g, content) /\ NextSlot(r)
    /\ UNCHANGED <<config, version, finished, memory, socket>>

\* socket.recv: the loader has finished with the bucket before.
TakeReply(r) ==
    /\ pc[r] = "reply" /\ reply[r]
    /\ reply' = [reply EXCEPT ![r] = FALSE]
    /\ ToBarrier(r) /\ GoTo(r, "barrier")
    /\ UNCHANGED <<config, version, finished, slot, memory, h2d, buffer, net, request, model>>

\* Every rank has the bucket: the loader may read it.
SendMetas(r) ==
    /\ pc[r] = "barrier" /\ PassBarrier(r)
    /\ request' = [request EXCEPT ![r] = slot[r]]
    /\ NextSlot(r)
    /\ UNCHANGED <<config, version, finished, memory, h2d, buffer, net, reply, model>>

Drain(r) ==
    /\ pc[r] = "drain" /\ reply[r]
    /\ reply' = [reply EXCEPT ![r] = FALSE]
    /\ request' = [request EXCEPT ![r] = Stop]
    /\ GoTo(r, "join")
    /\ UNCHANGED <<config, version, finished, slot, memory, h2d, buffer, net, arrived, model>>

Join(r) ==
    /\ pc[r] = "join" /\ reply[r]
    /\ reply' = [reply EXCEPT ![r] = FALSE]
    /\ ToBarrier(r) /\ GoTo(r, "end")
    /\ UNCHANGED <<config, version, finished, slot, memory, h2d, buffer, net, request, model>>

Finish(r) ==
    /\ pc[r] = "end" /\ PassBarrier(r)
    /\ memory' = [memory EXCEPT ![r] = <<>>]
    /\ finished' = [finished EXCEPT ![r] = @ + 1]
    /\ slot' = [slot EXCEPT ![r] = 0] /\ GoTo(r, "idle")
    /\ UNCHANGED <<config, version, h2d, buffer, net, arrived, socket, model>>

\* Faulty: the loader answers only where there is a model to load into.
Loader_F(r) ==
    /\ request[r] # NoRequest
    /\ request' = [request EXCEPT ![r] = NoRequest]
    /\ reply' = [reply EXCEPT ![r] = r \in RolloutRanks]
    /\ IF request[r] \in {Hello, Stop} THEN UNCHANGED model
       ELSE LoadWeights(r, request[r], buffer[r][Half(request[r])])
    /\ UNCHANGED <<config, version, finished, pc, slot, memory, h2d, buffer, net, arrived>>

\* update_weights_from_ipc_: the loader answers what it is asked.
Loader(r) ==
    /\ request[r] # NoRequest
    /\ request' = [request EXCEPT ![r] = NoRequest]
    /\ reply' = [reply EXCEPT ![r] = TRUE]
    /\ IF request[r] \in {Hello, Stop} THEN UNCHANGED model
       ELSE LoadWeights(r, request[r], buffer[r][Half(request[r])])
    /\ UNCHANGED <<config, version, finished, pc, slot, memory, h2d, buffer, net, arrived>>

Main(r) ==
    \/ Register(r) \/ Begin(r) \/ Broadcast(r) \/ TakeReply(r) \/ SendMetas(r)
    \/ Drain(r) \/ Join(r) \/ Finish(r)

Terminated ==
    /\ version = MaxSyncs /\ \A r \in Ranks : finished[r] = MaxSyncs
    /\ UNCHANGED vars

Next == CallSync \/ Terminated \/ \E r \in Ranks : Main(r) \/ Loader(r)

Spec == Init /\ [][Next]_vars

FairSpec == Spec /\ \A r \in Ranks : WF_vars(Main(r)) /\ WF_vars(Loader(r))

(* Properties *)

Transfer == INSTANCE WeightTransfer WITH
    Receivers <- RolloutRanks, parameters <- DOMAIN sizes

\* Whatever the order of ranks and threads, a transfer is what the rest of the
\* system takes it for: every parameter of every rollout model is replaced
\* once, by the weights of this transfer, before the synchronizer goes on. No
\* bucket is overwritten before it is loaded, read under the description of
\* another, sent from the buffer of an earlier one, or left out.
ImplementsTransfer == Transfer!Spec

\* Threads, sockets, broadcasts and barriers never wait for each other in a
\* circle: a transfer that has begun ends at every rank.
TransferEnds == \A r \in Ranks : finished[r] < version ~> finished[r] = version
=============================================================================

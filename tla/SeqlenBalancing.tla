---------------------------- MODULE SeqlenBalancing ----------------------------
(***************************************************************************)
(* verl/utils/seqlen_balancing.py: how a batch is divided by the length of *)
(* its sequences, over the data-parallel ranks (equally many rows each)    *)
(* and, on a rank, over micro-batches (any number of rows each).           *)
(* Rows and partitions are numbered from 1.                                *)
(***************************************************************************)
EXTENDS Integers, Sequences, SequencesExt, FiniteSetsExt

Total(s) ==
    LET Sum[i \in 0..Len(s)] == IF i = 0 THEN 0 ELSE Sum[i - 1] + s[i]
    IN  Sum[Len(s)]

\* The weights of these items together.
TotalOf(items, weights) == Total([i \in 1..Len(weights) |-> IF i \in items THEN weights[i] ELSE 0])

\* The sequence itself; TLC evaluates its elements once, and not at every use.
Evaluated(s) == SubSeq(s, 1, Len(s))

\* The elements of S, in the order of a relation that is total on S.
Ordered(S, before) ==
    Evaluated([i \in 1..Cardinality(S) |->
        CHOOSE x \in S : Cardinality({y \in S : <<y, x>> \in before}) = i - 1])

Ascending(S) == Ordered(S, {e \in S \X S : e[1] < e[2]})

\* sorted with these keys, the smallest first, and by number if they are equal.
AscendingBy(S, keys) ==
    Ordered(S, {e \in S \X S : \/ keys[e[1]] < keys[e[2]]
                               \/ keys[e[1]] = keys[e[2]] /\ e[1] < e[2]})

CalculateWorkload(seqlen) == 24576 * seqlen + seqlen * seqlen

Workloads(seqlens) == [i \in DOMAIN seqlens |-> CalculateWorkload(seqlens[i])]

\* A Set of karmarkar_karp: its items, the one that was added first, their sum.
EmptyBin == [items |-> {}, first |-> 0, sum |-> 0]

Bin(item, weights) == [items |-> {item}, first |-> item, sum |-> weights[item]]

MergeBins(a, b) ==
    [items |-> a.items \union b.items, first |-> IF a.items = {} THEN b.first ELSE a.first,
     sum |-> a.sum + b.sum]

BinLess(a, b) ==
    \/ a.sum < b.sum
    \/ a.sum = b.sum /\ Cardinality(a.items) < Cardinality(b.items)
    \/ a.sum = b.sum /\ Cardinality(a.items) = Cardinality(b.items) /\ a.first < b.first

\* A State: k Sets, the largest first.
Descending(bins) ==
    LET places == 1..Len(bins)
        order  == Ordered(places, {e \in places \X places :
                    \/ BinLess(bins[e[2]], bins[e[1]])
                    \/ ~BinLess(bins[e[1]], bins[e[2]]) /\ e[1] < e[2]})
    IN  Evaluated([i \in places |-> bins[order[i]]])

Spread(state) == state[1].sum - state[Len(state)].sum

\* State.__lt__: the heap yields the widest spread first.
StateLess(s, t) ==
    \/ Spread(s) > Spread(t)
    \/ Spread(s) = Spread(t) /\ BinLess(t[1], s[1])

MergeStates(s, t) ==
    Descending(Evaluated([i \in 1..Len(s) |-> MergeBins(s[i], t[Len(t) + 1 - i])]))

PopMergePush(heap) ==
    LET Least(states) == CHOOSE s \in states : \A t \in states : ~StateLess(t, s)
        first  == Least(heap)
        second == Least(heap \ {first})
    IN  (heap \ {first, second}) \union {MergeStates(first, second)}

\* What is on the heap at first: a State for every item, or for every k consecutive
\* items when the partitions must be of equal size.
States(weights, k, equalSize) ==
    LET items == DOMAIN weights
        order == AscendingBy(items, weights)
    IN  IF equalSize
        THEN {Descending([i \in 1..k |-> Bin(order[o * k + i], weights)]) : o \in 0..(Len(weights) \div k - 1)}
        ELSE {Descending([i \in 1..k |-> IF i = 1 THEN Bin(o, weights) ELSE EmptyBin]) : o \in items}

\* The heap after m rounds of the loop.
HeapAfter(heap, m) ==
    LET Heap[i \in 0..m] == IF i = 0 THEN heap ELSE PopMergePush(Heap[i - 1])
    IN  Heap[m]

KarmarkarKarp(weights, k, equalSize) ==
    LET heap  == States(weights, k, equalSize)
        final == CHOOSE s \in HeapAfter(heap, Cardinality(heap) - 1) : TRUE
    IN  [i \in 1..k |-> final[i].items]

GetSeqlenBalancedPartitions(weights, k, equalSize) ==
    LET partitions == KarmarkarKarp(weights, k, equalSize)
    IN  [i \in 1..k |-> Ascending(partitions[i])]

\* The rows of each uid, which must be consecutive, stay together.
GetGroupBalancedPartitions(seqlens, uids, k) ==
    LET starts    == {i \in DOMAIN uids : i = 1 \/ uids[i - 1] # uids[i]}
        RowsOf(g) == {i \in DOMAIN uids : Cardinality({j \in starts : j <= i}) = g}
        weights   == [g \in 1..Cardinality(starts) |-> TotalOf(RowsOf(g), Workloads(seqlens))]
        groups    == GetSeqlenBalancedPartitions(weights, k, TRUE)
    IN  [p \in 1..k |-> Ascending(UNION {RowsOf(g) : g \in ToSet(groups[p])})]

\* Small ones at both ends, for the pipeline: s[::2] + s[1::2][::-1].
SmallAtBothEnds(s) ==
    [i \in DOMAIN s |-> s[IF 2 * i <= Len(s) + 1 THEN 2 * i - 1 ELSE 2 * (Len(s) + 1 - i)]]

\* Small ones at both ends again, of what is largest first: s[::2][::-1] + s[1::2].
LargeInTheMiddle(s) ==
    LET half == (Len(s) + 1) \div 2
    IN  [i \in DOMAIN s |-> s[IF i <= half THEN 2 * (half - i) + 1 ELSE 2 * (i - half)]]

\* How many micro-batches a rank would like.
NumMicroBatches(seqlens, maxTokenLen) ==
    Min({Len(seqlens), (Total(seqlens) + maxTokenLen - 1) \div maxTokenLen})

\* The parts with the largest load first.
HeaviestFirst(parts, loads) ==
    LET places == 1..Len(parts)
        order  == Ordered(places, {e \in places \X places :
                    \/ loads[e[1]] > loads[e[2]]
                    \/ loads[e[1]] = loads[e[2]] /\ parts[e[1]][1] > parts[e[2]][1]})
    IN  [p \in places |-> parts[order[p]]]

\* rearrange_micro_batches, once the ranks have agreed on their number.
RearrangeMicroBatches(seqlens, number) ==
    LET parts == GetSeqlenBalancedPartitions(Workloads(seqlens), number, FALSE)
        loads == [p \in 1..number |-> TotalOf(ToSet(parts[p]), Workloads(seqlens))]
    IN  Evaluated(LargeInTheMiddle(HeaviestFirst(parts, loads)))

\* Faulty variant: the mapping, not its inverse.
GetReverseIdx_F(idxMap) == idxMap

GetReverseIdx(idxMap) == [j \in DOMAIN idxMap |-> CHOOSE i \in DOMAIN idxMap : idxMap[i] = j]

\* restore_dynamic_batch
RestoreDynamicBatch(rows, batchIdxList) ==
    LET reverse == GetReverseIdx(FlattenSeq(batchIdxList))
    IN  [i \in DOMAIN rows |-> rows[reverse[i]]]
================================================================================

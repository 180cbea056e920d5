--------------------------- MODULE BatchPath_proofs ---------------------------
(***************************************************************************)
(* A batch on its way through a step, for any number of prompts, responses *)
(* and ranks, mini- and micro-batches of any size and any answers of the   *)
(* engines: first what the operations of DataProto do to tables of rows,   *)
(* then what a phase makes of the rows, then the invariant of the step,    *)
(* which says of every phase where the rows are and what their columns are *)
(* made of.                                                                *)
(***************************************************************************)
EXTENDS BatchPath, SeqlenBalancing_proofs

-----------------------------------------------------------------------------
(* Tables: the columns of a DataProto *)

\* Columns of n rows each.
Table(data, n) == DOMAIN data # {} /\ \A c \in DOMAIN data : data[c] = [i \in 1 .. n |-> data[c][i]]

\* len of a table.
LEMMA NumRowsIs ==
    ASSUME NEW data, NEW n \in Nat, Table(data, n)
    PROVE  NumRows(data) = n
<1> DEFINE c == CHOOSE c \in DOMAIN data : TRUE
<1>1. c \in DOMAIN data
  BY DEF Table
<1>2. data[c] = [i \in 1 .. n |-> data[c][i]]
  BY <1>1 DEF Table
<1>3. NumRows(data) = Len(data[c])
  BY DEF NumRows
<1> HIDE DEF c
<1>4. Len(data[c]) = n
  BY <1>2, EvaluatedIs
<1>5. QED
  BY <1>3, <1>4

\* The rows of a table from one place on.
Part(data, start, size) == [c \in DOMAIN data |-> [i \in 1 .. size |-> data[c][start + i]]]

\* A part of a table is a table.
LEMMA PartTable ==
    ASSUME NEW data, NEW n, Table(data, n), NEW start, NEW size
    PROVE  /\ Table(Part(data, start, size), size)
           /\ DOMAIN Part(data, start, size) = DOMAIN data
           /\ \A c \in DOMAIN data : Part(data, start, size)[c] = [i \in 1 .. size |-> data[c][start + i]]
BY DEF Part, Table

\* A slice is the part it says.
LEMMA SliceIs ==
    ASSUME NEW data, NEW start \in Nat, NEW size \in Nat
    PROVE  Slice(data, start + 1, start + size) = Part(data, start, size)
<1>1. (start + size) - (start + 1) + 1 = size
  OBVIOUS
<1>2. \A i \in 1 .. size : start + 1 + i - 1 = start + i
  OBVIOUS
<1>3. [i \in 1 .. (start + size - (start + 1) + 1) |-> start + 1 + i - 1] = [i \in 1 .. size |-> start + i]
  BY <1>1, <1>2
<1>4. QED
  BY <1>3 DEF Slice, SelectIdxs, Part

\* Chunks of equal size are the consecutive parts.
LEMMA ChunkIs ==
    ASSUME NEW data, NEW chunks \in Nat \ {0}, NEW size \in Nat, NEW n, n = chunks * size, Table(data, n)
    PROVE  Chunk(data, chunks) = [k \in 1 .. chunks |-> Part(data, (k - 1) * size, size)]
<1>1. n \in Nat /\ n \div chunks = size
  OBVIOUS
<1>2. NumRows(data) \div chunks = size
  BY <1>1, NumRowsIs
<1>3. Chunk(data, chunks) = [k \in 1 .. chunks |-> Slice(data, (k - 1) * size + 1, k * size)]
  BY <1>2 DEF Chunk
<1>4. ASSUME NEW k \in 1 .. chunks
      PROVE  Slice(data, (k - 1) * size + 1, k * size) = Part(data, (k - 1) * size, size)
  <2>1. (k - 1) * size \in Nat /\ k * size = (k - 1) * size + size
    OBVIOUS
  <2>2. QED
    BY <2>1, SliceIs
<1>5. QED
  BY <1>3, <1>4

-----------------------------------------------------------------------------
(* Ranks and their rows *)

Share == BatchSize \div DpSize

\* The constants are positive.
LEMMA Positive ==
    /\ Prompts \in Nat \ {0} /\ ValPrompts \in Nat \ {0} /\ ValN \in Nat \ {0}
    /\ RolloutN \in Nat \ {0} /\ ResponseLength \in Nat \ {0} /\ NumWorkers \in Nat \ {0}
    /\ DpSize \in Nat \ {0} /\ SpSize \in Nat \ {0} /\ MaxTokenLen \in Nat \ {0}
    /\ MicroBatchSize \in Nat \ {0}
BY BatchPathAssumption

\* A batch has rows.
LEMMA BatchSizeIs == BatchSize \in Nat \ {0}
BY Positive DEF BatchSize

\* Every data-parallel rank has the same number of them.
LEMMA ShareIs == Share \in Nat \ {0} /\ BatchSize = DpSize * Share
<1>1. BatchSize % DpSize = 0
  BY BatchPathAssumption
<1>2. Share \in Nat /\ Share * DpSize = BatchSize
  BY <1>1, BatchSizeIs, Positive, WholeRows DEF Share
<1>3. Share # 0
  BY <1>2, BatchSizeIs, Positive
<1>4. QED
  BY <1>2, <1>3, Positive

\* Every rank is one place of one sequence-parallel group.
LEMMA RankIs ==
    /\ \A g \in Ranks : DpRank(g) \in 0 .. DpSize - 1
    /\ \A d \in 0 .. DpSize - 1 :
          /\ d * SpSize \in Ranks /\ DpRank(d * SpSize) = d /\ IsCollect(d * SpSize)
          /\ \A g \in Ranks : DpRank(g) = d /\ IsCollect(g) => g = d * SpSize
<1>1. DpSize * SpSize \in Nat /\ Numbered(DpSize, SpSize)
  BY Positive, Grid
<1>2. ASSUME NEW g \in Ranks
      PROVE  /\ DpRank(g) \in 0 .. DpSize - 1
             /\ g = DpRank(g) * SpSize + (g % SpSize)
  <2>1. g \in Nat /\ g + 1 \in 1 .. DpSize * SpSize
    BY <1>1 DEF Ranks
  <2>2. PICK o \in 0 .. DpSize - 1, i \in 1 .. SpSize : g + 1 = o * SpSize + i
    BY <1>1, <2>1 DEF Numbered
  <2>3. g = SpSize * (g \div SpSize) + (g % SpSize) /\ g \div SpSize \in Nat /\ g % SpSize \in 0 .. SpSize - 1
    BY <2>1, Positive
  <2> DEFINE q == g \div SpSize
             r == g % SpSize
  <2> HIDE DEF q, r
  <2>4. q \in Nat /\ r \in 0 .. SpSize - 1 /\ g = q * SpSize + r
    BY <2>3, Positive DEF q, r
  <2>5. q < DpSize
    <3>1. SUFFICES ASSUME ~ q < DpSize PROVE FALSE
      OBVIOUS
    <3>2. DpSize <= q
      BY <2>4, <3>1, Positive
    <3>3. DpSize * SpSize <= q * SpSize
      BY <2>4, <3>2, Positive
    <3>4. QED
      BY <1>1, <2>1, <2>4, <3>3, Positive
  <2>6. QED
    BY <2>4, <2>5, Positive DEF q, r, DpRank
<1>3. ASSUME NEW d \in 0 .. DpSize - 1
      PROVE  d * SpSize \in Ranks /\ DpRank(d * SpSize) = d /\ IsCollect(d * SpSize)
  <2>1. d * SpSize + 1 \in 1 .. DpSize * SpSize
    BY <1>1, Positive DEF Numbered
  <2>2. d * SpSize \in Nat
    BY Positive
  <2>3. d * SpSize \in Ranks
    BY <1>1, <2>1, <2>2 DEF Ranks
  <2>4. (d * SpSize) \div SpSize = d /\ (d * SpSize) % SpSize = 0
    BY Positive
  <2>5. QED
    BY <2>3, <2>4 DEF DpRank, IsCollect
<1>4. ASSUME NEW g \in Ranks, IsCollect(g) PROVE g = DpRank(g) * SpSize
  <2>1. g % SpSize = 0
    BY <1>4 DEF IsCollect
  <2>2. DpRank(g) * SpSize \in Nat
    BY <1>2, Positive
  <2>3. QED
    BY <1>2, <2>1, <2>2
<1>5. QED
  BY <1>2, <1>3, <1>4

-----------------------------------------------------------------------------
(* What a worker group is sent, and what is collected *)

\* What a rank is sent: the part of its data-parallel rank.
LEMMA DispatchIs ==
    ASSUME NEW data, Table(data, BatchSize)
    PROVE  /\ Dispatch(data) = [g \in Ranks |-> Part(data, DpRank(g) * Share, Share)]
           /\ \A g \in Ranks : \A i \in 1 .. Share : DpRank(g) * Share + i \in 1 .. BatchSize
<1>1. BatchSize = DpSize * Share /\ Share \in Nat /\ DpSize \in Nat \ {0}
  BY ShareIs, Positive
<1>2. Chunk(data, DpSize) = [k \in 1 .. DpSize |-> Part(data, (k - 1) * Share, Share)]
  BY <1>1, ChunkIs
<1>3. ASSUME NEW g \in Ranks
      PROVE  /\ Chunk(data, DpSize)[DpRank(g) + 1] = Part(data, DpRank(g) * Share, Share)
             /\ \A i \in 1 .. Share : DpRank(g) * Share + i \in 1 .. BatchSize
  <2>1. DpRank(g) \in 0 .. DpSize - 1
    BY RankIs
  <2>2. DpRank(g) + 1 \in 1 .. DpSize /\ (DpRank(g) + 1) - 1 = DpRank(g)
    BY <1>1, <2>1
  <2>3. Chunk(data, DpSize)[DpRank(g) + 1] = Part(data, ((DpRank(g) + 1) - 1) * Share, Share)
    BY <1>2, <2>2
  <2>4. Numbered(DpSize, Share)
    BY <1>1, ShareIs, Grid
  <2>5. QED
    BY <1>1, <2>1, <2>2, <2>3, <2>4 DEF Numbered
<1>4. QED
  BY <1>3 DEF Dispatch

\* Piece after piece of the same size, from the start of a column.
Consecutive(parts, n, size, col) ==
    /\ parts = [d \in 1 .. n |-> parts[d]]
    /\ \A d \in 1 .. n : parts[d] = [i \in 1 .. size |-> col[(d - 1) * size + i]]

\* Consecutive parts of a column, put together, are the column.
LEMMA FlattenConsecutive ==
    ASSUME NEW T, NEW n \in Nat \ {0}, NEW size \in Nat \ {0}, NEW N, N = n * size,
           NEW col \in [1 .. N -> T],
           NEW parts, Consecutive(parts, n, size, col)
    PROVE  FlattenSeq(parts) = col
<1> DEFINE start == [d \in 0 .. n |-> d * size]
<1>1. Numbered(n, size) /\ N \in Nat
  BY Grid
<1>2. ASSUME NEW d \in 1 .. n
      PROVE  /\ parts[d] \in Seq(T) /\ Len(parts[d]) = size
             /\ \A i \in 1 .. size : parts[d][i] = col[(d - 1) * size + i]
  <2> DEFINE o == d - 1
  <2>1. o \in 0 .. n - 1
    OBVIOUS
  <2>2. parts[d] = [i \in 1 .. size |-> col[(d - 1) * size + i]]
    BY DEF Consecutive
  <2> HIDE DEF o
  <2>3. \A i \in 1 .. size : col[(d - 1) * size + i] \in T
    BY <1>1, <2>1 DEF Numbered, o
  <2>4. parts[d] \in [1 .. size -> T]
    BY <2>2, <2>3
  <2>5. parts[d] \in Seq(T) /\ Len(parts[d]) = size
    BY <2>4, FunctionIsSeq
  <2>6. QED
    BY <2>2, <2>5
<1>3. parts \in [1 .. n -> Seq(T)]
  BY <1>2 DEF Consecutive
<1>4. \A d \in 0 .. n : start[d] = d * size
  OBVIOUS
<1> HIDE DEF start
<1>5. col \in Seq(T) /\ Len(col) = N
  BY <1>1, FunctionIsSeq
<1>6. Cuts(parts, start, col, n)
  <2>1. start[0] = 0 /\ Len(col) = start[n]
    BY <1>4, <1>5
  <2>2. ASSUME NEW d \in 1 .. n
        PROVE  /\ start[d] = start[d - 1] + Len(parts[d])
               /\ \A i \in 1 .. Len(parts[d]) : parts[d][i] = col[start[d - 1] + i]
    <3>1. d \in 0 .. n /\ d - 1 \in 0 .. n
      OBVIOUS
    <3>2. start[d - 1] = (d - 1) * size /\ start[d] = d * size
      BY <1>4, <3>1
    <3>3. d * size = (d - 1) * size + size
      OBVIOUS
    <3>4. QED
      BY <1>2, <3>2, <3>3
  <2>3. QED
    BY <2>1, <2>2 DEF Cuts, Begins
<1>7. QED
  BY <1>3, <1>5, <1>6, FlattenPieces

\* Every rank returns its rows of col.
Returned(output, col) ==
    \A g \in Ranks : output[g] = [i \in 1 .. Share |-> col[DpRank(g) * Share + i]]

\* What the ranks return, collected, is the column, if each returns its own part of it.
LEMMA CollectIs ==
    ASSUME NEW T, NEW col \in [1 .. BatchSize -> T], NEW output, Returned(output, col)
    PROVE  Collect(output) = col
<1> DEFINE parts == [d \in 1 .. DpSize |-> output[CHOOSE g \in Ranks : DpRank(g) = d - 1 /\ IsCollect(g)]]
<1>1. BatchSize = DpSize * Share /\ Share \in Nat \ {0} /\ DpSize \in Nat \ {0}
  BY ShareIs, Positive
<1>2. ASSUME NEW d \in 1 .. DpSize
      PROVE  parts[d] = [i \in 1 .. Share |-> col[(d - 1) * Share + i]]
  <2> DEFINE h == CHOOSE g \in Ranks : DpRank(g) = d - 1 /\ IsCollect(g)
             o == d - 1
  <2>1. o \in 0 .. DpSize - 1
    BY <1>1
  <2> HIDE DEF o
  <2>2. o * SpSize \in Ranks /\ DpRank(o * SpSize) = o /\ IsCollect(o * SpSize)
    BY <2>1, RankIs
  <2>3. h \in Ranks /\ DpRank(h) = d - 1
    BY <2>2 DEF o
  <2>4. parts[d] = output[h]
    OBVIOUS
  <2> HIDE DEF h, parts
  <2>5. QED
    BY <2>3, <2>4 DEF Returned
<1>3. Collect(output) = FlattenSeq(parts)
  BY DEF Collect
<1>4. Consecutive(parts, DpSize, Share, col)
  BY <1>2 DEF Consecutive
<1> HIDE DEF parts
<1>5. FlattenSeq(parts) = col
  BY <1>1, <1>4, FlattenConsecutive
<1>6. QED
  BY <1>3, <1>5

-----------------------------------------------------------------------------
(* Mini-batches and micro-batches of a rank *)

\* What rounding up a quotient means.
LEMMA RoundingUp ==
    ASSUME NEW n \in Nat \ {0}, NEW size \in Nat \ {0}, NEW m, m = (n + size - 1) \div size
    PROVE  m \in Nat \ {0} /\ (m - 1) * size < n /\ n <= m * size /\ m * size = (m - 1) * size + size
<1>1. m \in Nat \ {0}
  BY RoundedUp
<1> DEFINE a == n + size - 1
           r == a % size
<1>2. a \in Nat /\ a = size * (a \div size) + r /\ r \in 0 .. size - 1
  OBVIOUS
<1>3. m = a \div size
  OBVIOUS
<1> HIDE DEF r
<1>4. n + size - 1 = size * m + r
  BY <1>2, <1>3
<1>5. m * size = size * m /\ m * size \in Nat /\ m * size = (m - 1) * size + size /\ (m - 1) * size \in Nat
  BY <1>1
<1> HIDE DEF a
<1>6. QED
  BY <1>1, <1>2, <1>4, <1>5

\* split puts every row in one piece, in the order of the rows.
LEMMA PiecesIs ==
    ASSUME NEW n \in Nat \ {0}, NEW size \in Nat \ {0}
    PROVE  \E m \in Nat \ {0} :
              /\ Shares(Pieces(n, size), m, 1 .. n)
              /\ FlattenSeq(Pieces(n, size)) = [i \in 1 .. n |-> i]
<1> DEFINE m == (n + size - 1) \div size
           length(k) == IF k * size <= n THEN size ELSE n - (k - 1) * size
           pieces == Pieces(n, size)
           start == [k \in 0 .. m |-> IF k * size <= n THEN k * size ELSE n]
           rows == [i \in 1 .. n |-> i]
<1>1. m \in Nat \ {0} /\ (m - 1) * size < n /\ n <= m * size
  BY RoundingUp
<1>2. pieces = [k \in 1 .. m |-> [i \in 1 .. length(k) |-> (k - 1) * size + i]]
  BY DEF Pieces
<1>3. start = [k \in 0 .. m |-> IF k * size <= n THEN k * size ELSE n]
  OBVIOUS
<1> HIDE DEF m, pieces, start
<1>4. Numbered(m, size) /\ m * size \in Nat
  BY <1>1, Grid
<1>5. ASSUME NEW k \in 1 .. m
      PROVE  /\ length(k) \in 1 .. size /\ (k - 1) * size + length(k) <= n
             /\ (k - 1) * size \in Nat /\ (k - 1) * size <= n /\ k * size = (k - 1) * size + size
             /\ length(k) = size \/ (k = m /\ (k - 1) * size + length(k) = n)
  <2>1. (k - 1) * size \in Nat /\ k * size = (k - 1) * size + size
    BY <1>1
  <2>2. k - 1 <= m - 1 /\ (m - 1) * size \in Nat
    BY <1>1
  <2>3. (k - 1) * size <= (m - 1) * size
    BY <1>1, <2>2
  <2>4. CASE k * size <= n
    BY <1>1, <2>1, <2>3, <2>4
  <2>5. CASE ~ k * size <= n
    <3>1. k = m
      <4>1. SUFFICES ASSUME k # m PROVE FALSE
        OBVIOUS
      <4>2. k <= m - 1
        BY <1>1, <4>1
      <4>3. k * size <= (m - 1) * size
        BY <1>1, <4>2
      <4>4. QED
        BY <1>1, <2>1, <2>2, <2>5, <4>3
    <3>2. length(k) = n - (k - 1) * size
      BY <2>5
    <3> HIDE DEF length
    <3>3. QED
      BY <1>1, <2>1, <2>2, <2>3, <2>5, <3>1, <3>2
  <2>6. QED
    BY <2>4, <2>5
<1> HIDE DEF length
<1>6. ASSUME NEW k \in 1 .. m
      PROVE  /\ pieces[k] \in Seq(1 .. n) /\ Len(pieces[k]) = length(k)
             /\ \A i \in 1 .. length(k) : pieces[k][i] = (k - 1) * size + i
  <2>1. pieces[k] = [i \in 1 .. length(k) |-> (k - 1) * size + i]
    BY <1>2
  <2>2. \A i \in 1 .. length(k) : (k - 1) * size + i \in 1 .. n
    BY <1>5
  <2>3. pieces[k] \in [1 .. length(k) -> 1 .. n] /\ length(k) \in Nat
    BY <1>5, <2>1, <2>2
  <2>4. pieces[k] \in Seq(1 .. n) /\ Len(pieces[k]) = length(k)
    BY <2>3, FunctionIsSeq
  <2>5. QED
    BY <2>1, <2>4
<1>7. pieces \in [1 .. m -> Seq(1 .. n)]
  BY <1>2, <1>6
<1>8. Shares(pieces, m, 1 .. n)
  <2>1. ASSUME NEW x \in 1 .. n PROVE \E k \in 1 .. m : \E i \in 1 .. Len(pieces[k]) : pieces[k][i] = x
    <3>1. x \in 1 .. m * size
      BY <1>1, <1>4
    <3>2. PICK o \in 0 .. m - 1, i \in 1 .. size : x = o * size + i
      BY <1>4, <3>1 DEF Numbered
    <3>3. PICK k \in 1 .. m : k - 1 = o
      <4>1. o + 1 \in 1 .. m /\ (o + 1) - 1 = o
        BY <1>1
      <4>2. QED
        BY <4>1
    <3>4. x = (k - 1) * size + i
      BY <3>2, <3>3
    <3>5. i \in 1 .. length(k)
      BY <1>5, <3>4
    <3>6. QED
      BY <1>6, <3>4, <3>5
  <2>2. ASSUME NEW k \in 1 .. m, NEW l \in 1 .. m, NEW i \in 1 .. Len(pieces[k]), NEW j \in 1 .. Len(pieces[l]),
               pieces[k][i] = pieces[l][j]
        PROVE  k = l /\ i = j
    <3>1. i \in 1 .. size /\ j \in 1 .. size
      <4>1. Len(pieces[k]) = length(k) /\ Len(pieces[l]) = length(l)
        BY <1>6
      <4>2. length(k) \in 1 .. size /\ length(l) \in 1 .. size
        BY <1>5
      <4>3. i \in 1 .. length(k) /\ j \in 1 .. length(l)
        BY <4>1
      <4>4. QED
        BY <4>2, <4>3
    <3>2. (k - 1) * size + i = (l - 1) * size + j
      BY <1>6, <2>2
    <3>3. k - 1 \in 0 .. m - 1 /\ l - 1 \in 0 .. m - 1
      BY <1>1
    <3>4. k - 1 = l - 1 /\ i = j
      <4>1. PICK o \in 0 .. m - 1 : o = k - 1
        BY <3>3
      <4>2. PICK p \in 0 .. m - 1 : p = l - 1
        BY <3>3
      <4>3. o * size + i = p * size + j
        BY <3>2, <4>1, <4>2
      <4>4. Numbered(m, size)
        BY <1>4
      <4> HIDE DEF m
      <4>5. o = p /\ i = j
        BY <3>1, <4>3, <4>4 DEF Numbered
      <4>6. QED
        BY <4>1, <4>2, <4>5
    <3>5. QED
      BY <3>4
  <2>3. \A k \in 1 .. m : Len(pieces[k]) > 0
    BY <1>5, <1>6
  <2>4. Partitions(pieces, m, 1 .. n)
    BY <1>7, <2>1, <2>2 DEF Partitions
  <2>5. QED
    BY <2>3, <2>4 DEF Shares
<1>9. rows \in Seq(1 .. n) /\ Len(rows) = n /\ \A i \in 1 .. n : rows[i] = i
  OBVIOUS
<1> HIDE DEF rows
<1>10. Cuts(pieces, start, rows, m)
  <2>1. start[0] = 0 /\ start[m] = n
    <3>1. 0 * size = 0 /\ 0 \in 0 .. m /\ m \in 0 .. m
      BY <1>1
    <3>2. start[0] = 0
      BY <1>3, <3>1
    <3>3. start[m] = IF m * size <= n THEN m * size ELSE n
      BY <1>3, <3>1
    <3>4. QED
      BY <1>1, <1>4, <3>2, <3>3
  <2>2. ASSUME NEW k \in 1 .. m
        PROVE  start[k] = start[k - 1] + Len(pieces[k]) /\ start[k - 1] = (k - 1) * size
    <3>1. k \in 0 .. m /\ k - 1 \in 0 .. m
      BY <1>1
    <3>2. start[k - 1] = (k - 1) * size
      BY <1>3, <1>5, <3>1
    <3>3. start[k] = IF k * size <= n THEN k * size ELSE n
      BY <1>3, <3>1
    <3>4. CASE k * size <= n
      BY <1>5, <1>6, <3>2, <3>3, <3>4 DEF length
    <3>5. CASE ~ k * size <= n
      <4>1. length(k) = n - (k - 1) * size
        BY <3>5 DEF length
      <4>2. Len(pieces[k]) = length(k) /\ (k - 1) * size \in Nat
        BY <1>5, <1>6
      <4>3. start[k] = n
        BY <3>3, <3>5
      <4>4. QED
        BY <3>2, <4>1, <4>2, <4>3
    <3>6. QED
      BY <3>2, <3>4, <3>5
  <2>3. ASSUME NEW k \in 1 .. m, NEW i \in 1 .. Len(pieces[k])
        PROVE  pieces[k][i] = rows[start[k - 1] + i]
    <3>1. pieces[k][i] = (k - 1) * size + i /\ pieces[k][i] \in 1 .. n
      BY <1>6
    <3>2. start[k - 1] + i = pieces[k][i]
      BY <2>2, <3>1
    <3>3. QED
      BY <1>9, <3>1, <3>2
  <2>4. QED
    BY <1>9, <2>1, <2>2, <2>3 DEF Cuts, Begins
<1>11. FlattenSeq(pieces) = rows
  BY <1>1, <1>7, <1>9, <1>10, FlattenPieces
<1>12. QED
  BY <1>1, <1>8, <1>11 DEF pieces, rows

\* The ranks have n rows each, of responses.
Locals(locals, n) ==
    \A g \in Ranks : /\ Table(locals[g], n) /\ "responses" \in DOMAIN locals[g]
                     /\ \A i \in 1 .. n : Len(locals[g].responses[i].tokens) \in Nat

\* What a rank makes of its n rows: as many micro-batches as the others.
MicrosOk(micros, m, n, dynamic) ==
    /\ m \in Nat \ {0}
    /\ \A g \in Ranks : /\ Shares(micros[g], m, 1 .. n)
                        /\ ~dynamic => FlattenSeq(micros[g]) = [i \in 1 .. n |-> i]

\* Every rank has as many micro-batches as the others, and every row of it is in one of them.
LEMMA MicroBatchesIs ==
    ASSUME NEW n \in Nat \ {0}, NEW locals, Locals(locals, n), NEW dynamic \in BOOLEAN
    PROVE  /\ MicroBatches(locals, dynamic) = [g \in Ranks |-> MicroBatches(locals, dynamic)[g]]
           /\ \E m : MicrosOk(MicroBatches(locals, dynamic), m, n, dynamic)
<1> DEFINE wish(g) == NumMicroBatches(SeqLens(locals[g]), MaxTokenLen)
           wishes == {wish(g) : g \in Ranks}
           number == Max(wishes)
           micros == MicroBatches(locals, dynamic)
<1>1. micros = [g \in Ranks |-> IF dynamic THEN RearrangeMicroBatches(SeqLens(locals[g]), number)
                                ELSE Pieces(NumRows(locals[g]), MicroBatchSize)]
  BY DEF MicroBatches
<1>2. ASSUME NEW g \in Ranks PROVE SeqLens(locals[g]) \in [1 .. n -> Nat \ {0}] /\ NumRows(locals[g]) = n
  <2>1. Table(locals[g], n) /\ "responses" \in DOMAIN locals[g]
    BY DEF Locals
  <2>2. locals[g].responses = [i \in 1 .. n |-> locals[g].responses[i]]
    BY <2>1 DEF Table
  <2>3. SeqLens(locals[g]) = [i \in 1 .. n |-> 1 + Len(locals[g].responses[i].tokens)]
    BY <2>2 DEF SeqLens
  <2>4. \A i \in 1 .. n : 1 + Len(locals[g].responses[i].tokens) \in Nat \ {0}
    BY DEF Locals
  <2>5. NumRows(locals[g]) = n
    BY <2>1, NumRowsIs
  <2>6. QED
    BY <2>3, <2>4, <2>5
<1> HIDE DEF micros
<1>3. ASSUME NEW g \in Ranks PROVE wish(g) \in 1 .. n
  BY <1>2, Positive, NumMicroBatchesIs
<1>4. 0 \in Ranks
  <2>1. 0 \in 0 .. DpSize - 1 /\ 0 * SpSize = 0
    BY Positive
  <2>2. 0 * SpSize \in Ranks
    BY <2>1, RankIs
  <2>3. QED
    BY <2>1, <2>2
<1>5. number \in 1 .. n
  <2>1. wishes \in SUBSET (1 .. n) /\ wishes # {}
    BY <1>3, <1>4
  <2> HIDE DEF wishes
  <2>2. Max(wishes) \in wishes /\ \A x \in wishes : x <= Max(wishes)
    BY <2>1, MaxIs
  <2>3. QED
    BY <2>1, <2>2
<1> HIDE DEF number
<1>6. CASE dynamic
  <2>1. ASSUME NEW g \in Ranks PROVE Shares(micros[g], number, 1 .. n)
    <3>1. Shares(RearrangeMicroBatches(SeqLens(locals[g]), number), number, 1 .. n)
      BY <1>2, <1>5, RearrangeIs
    <3>2. QED
      BY <1>1, <1>6, <3>1
  <2>2. MicrosOk(micros, number, n, dynamic)
    BY <1>5, <1>6, <2>1 DEF MicrosOk
  <2>3. QED
    BY <1>1, <2>2 DEF micros
<1>7. CASE ~dynamic
  <2>1. \A g \in Ranks : micros[g] = Pieces(n, MicroBatchSize)
    BY <1>1, <1>2, <1>7
  <2>2. PICK m \in Nat \ {0} : /\ Shares(Pieces(n, MicroBatchSize), m, 1 .. n)
                               /\ FlattenSeq(Pieces(n, MicroBatchSize)) = [i \in 1 .. n |-> i]
    BY Positive, PiecesIs
  <2>3. MicrosOk(micros, m, n, dynamic)
    BY <2>1, <2>2 DEF MicrosOk
  <2>4. QED
    BY <1>1, <2>3 DEF micros
<1>8. QED
  BY <1>6, <1>7

-----------------------------------------------------------------------------
(* A computed column *)

\* A table that can be sent to the ranks.
Sendable(data) ==
    /\ Table(data, BatchSize) /\ "responses" \in DOMAIN data
    /\ \A i \in 1 .. BatchSize : Len(data.responses[i].tokens) \in Nat

\* What the ranks are sent are tables of the same number of rows.
LEMMA DispatchLocals ==
    ASSUME NEW data, Sendable(data)
    PROVE  /\ Locals(Dispatch(data), Share)
           /\ \A g \in Ranks : /\ DOMAIN Dispatch(data)[g] = DOMAIN data
                               /\ \A c \in DOMAIN data : Dispatch(data)[g][c]
                                     = [i \in 1 .. Share |-> data[c][DpRank(g) * Share + i]]
<1>1. Table(data, BatchSize)
  BY DEF Sendable
<1>2. ASSUME NEW g \in Ranks
      PROVE  /\ Table(Dispatch(data)[g], Share) /\ DOMAIN Dispatch(data)[g] = DOMAIN data
             /\ \A c \in DOMAIN data : Dispatch(data)[g][c]
                   = [i \in 1 .. Share |-> data[c][DpRank(g) * Share + i]]
  <2>1. Dispatch(data)[g] = Part(data, DpRank(g) * Share, Share)
    BY <1>1, DispatchIs
  <2>2. QED
    BY <1>1, <2>1, PartTable
<1>3. ASSUME NEW g \in Ranks, NEW i \in 1 .. Share PROVE Len(Dispatch(data)[g].responses[i].tokens) \in Nat
  <2>1. DpRank(g) * Share + i \in 1 .. BatchSize
    BY <1>1, DispatchIs
  <2>2. "responses" \in DOMAIN data
    BY DEF Sendable
  <2>3. Dispatch(data)[g].responses = [j \in 1 .. Share |-> data.responses[DpRank(g) * Share + j]]
    BY <1>2, <2>2
  <2>4. Dispatch(data)[g].responses[i] = data.responses[DpRank(g) * Share + i]
    BY <2>3
  <2>5. QED
    BY <2>1, <2>4 DEF Sendable
<1>4. Locals(Dispatch(data), Share)
  BY <1>2, <1>3 DEF Locals, Sendable
<1>5. QED
  BY <1>2, <1>4

\* Whatever is computed of a column by the ranks, in micro-batches of fixed or of
\* balanced size, comes back to the row that it was computed from.
THEOREM ComputeIs ==
    ASSUME NEW data, Sendable(data), NEW column \in DOMAIN data, NEW dynamic \in BOOLEAN
    PROVE  Compute(data, column, dynamic) = data[column]
<1> DEFINE locals == Dispatch(data)
           micros == MicroBatches(locals, dynamic)
           T == {data[column][i] : i \in 1 .. BatchSize}
           Images(g) == [k \in DOMAIN micros[g] |-> SelectIdxs(locals[g], micros[g][k])[column]]
           output == [g \in Ranks |-> IF dynamic THEN RestoreDynamicBatch(FlattenSeq(Images(g)), micros[g])
                                      ELSE FlattenSeq(Images(g))]
<1>1. Compute(data, column, dynamic) = Collect(output)
  BY DEF Compute
<1>2. data[column] \in [1 .. BatchSize -> T]
  <2>1. data[column] = [i \in 1 .. BatchSize |-> data[column][i]]
    BY DEF Sendable, Table
  <2>2. \A i \in 1 .. BatchSize : data[column][i] \in T
    OBVIOUS
  <2> HIDE DEF T
  <2>3. QED
    BY <2>1, <2>2
<1>3. Table(data, BatchSize) /\ Share \in Nat \ {0}
  BY ShareIs DEF Sendable
<1>4. Locals(locals, Share)
  BY DispatchLocals
<1>5. PICK m : MicrosOk(micros, m, Share, dynamic)
  <2> HIDE DEF locals
  <2>1. QED
    BY <1>3, <1>4, MicroBatchesIs
<1>6. ASSUME NEW g \in Ranks
      PROVE  output[g] = [i \in 1 .. Share |-> data[column][DpRank(g) * Share + i]]
  <2> DEFINE col == locals[g][column]
  <2>1. /\ column \in DOMAIN locals[g]
        /\ col = [i \in 1 .. Share |-> data[column][DpRank(g) * Share + i]]
    BY DispatchLocals
  <2>2. \A i \in 1 .. Share : DpRank(g) * Share + i \in 1 .. BatchSize
    BY <1>3, DispatchIs
  <2> HIDE DEF locals, T
  <2>3. col \in [1 .. Share -> T]
    BY <1>2, <2>1, <2>2
  <2>4. Images(g) = [k \in DOMAIN micros[g] |-> [i \in DOMAIN micros[g][k] |-> col[micros[g][k][i]]]]
    BY <2>1 DEF SelectIdxs
  <2>5. Shares(micros[g], m, 1 .. Share) /\ m \in Nat \ {0}
    BY <1>5 DEF MicrosOk
  <2>6. output[g] = IF dynamic THEN RestoreDynamicBatch(FlattenSeq(Images(g)), micros[g])
                    ELSE FlattenSeq(Images(g))
    OBVIOUS
  <2> DEFINE images == Images(g)
             parts == micros[g]
  <2> HIDE DEF col, micros, output, Images
  <2>7. CASE dynamic
    <3>1. RestoreDynamicBatch(FlattenSeq([k \in DOMAIN parts |->
              [i \in DOMAIN parts[k] |-> col[parts[k][i]]]]), parts) = col
      <4> HIDE DEF parts
      <4>1. QED
        BY <1>3, <2>3, <2>5, RestoreIs DEF parts
    <3>2. output[g] = col
      BY <2>4, <2>6, <2>7, <3>1
    <3>3. QED
      BY <2>1, <3>2 DEF col
  <2>8. CASE ~dynamic
    <3>1. parts \in [1 .. m -> Seq(1 .. Share)] /\ DOMAIN parts = 1 .. m
      BY <2>5 DEF Shares, Partitions
    <3>2. FlattenSeq(parts) = [i \in 1 .. Share |-> i]
      BY <1>5, <2>8 DEF MicrosOk
    <3>3. images = [k \in 1 .. m |-> images[k]]
      BY <2>4, <3>1
    <3>4. ASSUME NEW k \in 1 .. m PROVE Looked(images[k], parts[k], col)
      <4>1. parts[k] \in Seq(1 .. Share)
        BY <3>1
      <4>2. DOMAIN parts[k] = 1 .. Len(parts[k])
        BY <4>1
      <4>3. images[k] = [i \in DOMAIN parts[k] |-> col[parts[k][i]]]
        BY <2>4, <3>1
      <4>4. QED
        BY <4>2, <4>3 DEF Looked
    <3> HIDE DEF images, parts
    <3>5. Looked(FlattenSeq(images), FlattenSeq(parts), col)
      BY <2>3, <2>5, <3>1, <3>3, <3>4, FlattenMapped
    <3>6. FlattenSeq(images) = [i \in 1 .. Share |-> col[i]]
      <4>1. Len(FlattenSeq(parts)) = Share /\ \A i \in 1 .. Share : FlattenSeq(parts)[i] = i
        BY <1>3, <3>2
      <4>2. QED
        BY <3>5, <4>1 DEF Looked
    <3>7. FlattenSeq(images) = col
      BY <2>3, <3>6
    <3>8. QED
      BY <2>1, <2>6, <2>8, <3>7 DEF images, col
  <2>9. QED
    BY <2>7, <2>8
<1>7. Returned(output, data[column])
  BY <1>6 DEF Returned
<1> HIDE DEF output, T
<1>8. Collect(output) = data[column]
  BY <1>2, <1>7, CollectIs
<1>9. QED
  BY <1>1, <1>8

-----------------------------------------------------------------------------
(* What the agent loop workers answer *)

Answers(genBatch, draw, n) ==
    [i \in 1 .. n |-> [prompt |-> genBatch.raw_prompt[i], copy |-> i,
                       tokens |-> draw[i].tokens, score |-> draw[i].score]]

\* The workers' answers are in the order of the rows.
LEMMA GenerateIs ==
    ASSUME NEW size \in Nat \ {0}, NEW n, n = NumWorkers * size,
           NEW genBatch, Table(genBatch, n), "raw_prompt" \in DOMAIN genBatch, NEW draw
    PROVE  GenerateSequences(genBatch, draw) = [responses |-> Answers(genBatch, draw, n)]
<1> DEFINE chunks == Chunk(genBatch, NumWorkers)
           answer(w, j) == [prompt |-> chunks[w].raw_prompt[j], copy |-> (w - 1) * size + j,
                            tokens |-> draw[(w - 1) * size + j].tokens,
                            score |-> draw[(w - 1) * size + j].score]
           parts == [w \in 1 .. NumWorkers |->
                        [responses |-> [j \in DOMAIN chunks[w].raw_prompt |-> answer(w, j)]]]
           col == Answers(genBatch, draw, n)
           T == {col[i] : i \in 1 .. n}
           pieces == [w \in 1 .. NumWorkers |-> parts[w].responses]
<1>1. NumWorkers \in Nat \ {0} /\ n \in Nat /\ n \div NumWorkers = size
  BY Positive
<1>2. NumRows(genBatch) = n
  BY <1>1, NumRowsIs
<1>3. GenerateSequences(genBatch, draw) = Concat(parts)
  BY <1>1, <1>2 DEF GenerateSequences
<1>4. Numbered(NumWorkers, size)
  BY <1>1, Grid
<1>5. chunks = [w \in 1 .. NumWorkers |-> Part(genBatch, (w - 1) * size, size)]
  BY <1>1, <1>4, ChunkIs
<1>6. ASSUME NEW w \in 1 .. NumWorkers
      PROVE  chunks[w].raw_prompt = [j \in 1 .. size |-> genBatch.raw_prompt[(w - 1) * size + j]]
  BY <1>5 DEF Part
<1> HIDE DEF chunks
<1>7. ASSUME NEW w \in 1 .. NumWorkers
      PROVE  pieces[w] = [j \in 1 .. size |-> col[(w - 1) * size + j]]
  <2>1. pieces[w] = [j \in 1 .. size |-> answer(w, j)]
    BY <1>6
  <2>2. ASSUME NEW j \in 1 .. size PROVE answer(w, j) = col[(w - 1) * size + j]
    <3>1. (w - 1) * size + j \in 1 .. n
      <4>1. w - 1 \in 0 .. NumWorkers - 1
        BY <1>1
      <4>2. QED
        BY <1>4, <4>1 DEF Numbered
    <3>2. chunks[w].raw_prompt[j] = genBatch.raw_prompt[(w - 1) * size + j]
      <4>1. chunks[w].raw_prompt = [i \in 1 .. size |-> genBatch.raw_prompt[(w - 1) * size + i]]
        BY <1>6
      <4>2. QED
        BY <4>1
    <3>3. QED
      BY <3>1, <3>2 DEF Answers
  <2> HIDE DEF answer, col, pieces
  <2>3. QED
    BY <2>1, <2>2
<1>8. DOMAIN parts = 1 .. NumWorkers /\ 1 \in 1 .. NumWorkers /\ DOMAIN parts[1] = {"responses"}
  BY <1>1
<1>9. Concat(parts) = [c \in {"responses"} |-> FlattenSeq([p \in 1 .. NumWorkers |-> parts[p][c]])]
  BY <1>8 DEF Concat
<1>10. Concat(parts) = [responses |-> FlattenSeq(pieces)]
  BY <1>9
<1>11. pieces = [w \in 1 .. NumWorkers |-> pieces[w]]
  OBVIOUS
<1> HIDE DEF pieces
<1>12. Consecutive(pieces, NumWorkers, size, col)
  BY <1>7, <1>11 DEF Consecutive
<1>13. col \in [1 .. n -> T]
  <2>1. col = [i \in 1 .. n |-> col[i]]
    BY DEF Answers
  <2> HIDE DEF col
  <2>2. QED
    BY <2>1
<1> HIDE DEF col, T
<1>14. FlattenSeq(pieces) = col
  BY <1>1, <1>12, <1>13, FlattenConsecutive, ZenonT(40)
<1>15. QED
  BY <1>3, <1>10, <1>14 DEF col

-----------------------------------------------------------------------------
(* The rows of a batch *)

\* The prompts of a batch, each repeated in place.
LEMMA RepeatIs ==
    ASSUME NEW p \in Nat \ {0}, NEW times \in Nat \ {0}
    PROVE  /\ Repeat(PromptBatch(p), times) = [c \in {"uid", "raw_prompt"} |-> Asked(p, times)]
           /\ times * p \in Nat \ {0}
           /\ Asked(p, times) \in [1 .. (times * p) -> 1 .. p]
<1> DEFINE prompts == PromptBatch(p)
           idx == [i \in 1 .. (times * p) |-> (i - 1) \div times + 1]
<1>1. prompts = [c \in {"uid", "raw_prompt"} |-> [i \in 1 .. p |-> i]]
  BY DEF PromptBatch
<1> HIDE DEF prompts
<1>2. Table(prompts, p)
  BY <1>1 DEF Table
<1>3. NumRows(prompts) = p
  BY <1>2, NumRowsIs
<1>4. times * p \in Nat \ {0} /\ Numbered(p, times) /\ p * times = times * p
  BY Grid
<1>5. ASSUME NEW i \in 1 .. (times * p) PROVE (i - 1) \div times + 1 \in 1 .. p
  <2>1. i \in 1 .. p * times
    BY <1>4
  <2>2. PICK o \in 0 .. p - 1, j \in 1 .. times : i = o * times + j
    BY <1>4, <2>1 DEF Numbered
  <2>3. (i - 1) \div times = o
    <3>1. i - 1 = o * times + (j - 1) /\ j - 1 \in 0 .. times - 1
      BY <2>2
    <3>2. (o * times + (j - 1)) \div times = o
      BY <3>1
    <3>3. QED
      BY <3>1, <3>2
  <2>4. QED
    BY <2>3
<1>6. idx \in [1 .. (times * p) -> 1 .. p] /\ DOMAIN idx = 1 .. (times * p)
  BY <1>5
<1>7. Repeat(prompts, times) = SelectIdxs(prompts, idx)
  BY <1>3 DEF Repeat
<1>8. idx = Asked(p, times)
  BY DEF Asked
<1> HIDE DEF idx
<1>9. SelectIdxs(prompts, idx) = [c \in {"uid", "raw_prompt"} |-> [i \in DOMAIN idx |-> idx[i]]]
  BY <1>1, <1>6 DEF SelectIdxs
<1>10. [i \in DOMAIN idx |-> idx[i]] = idx
  BY <1>6
<1>11. QED
  BY <1>4, <1>6, <1>7, <1>8, <1>9, <1>10 DEF prompts

\* Every row has a response of its own, and the prompt of that response.
WellFormed(data, n) ==
    /\ Table(data, n) /\ {"uid", "raw_prompt", "responses"} \subseteq DOMAIN data
    /\ \A i \in 1 .. n : /\ data.responses[i] \in Response
                         /\ data.uid[i] = data.responses[i].prompt
                         /\ data.raw_prompt[i] = data.responses[i].prompt
    /\ \A i, j \in 1 .. n : data.responses[i] = data.responses[j] => i = j

\* union adds the columns of the second table to those of the first.
LEMMA MergeIs ==
    ASSUME NEW data, NEW other, NEW n, Table(data, n), \A c \in DOMAIN other : other[c] = [i \in 1 .. n |-> other[c][i]]
    PROVE  /\ Table(Merge(data, other), n)
           /\ DOMAIN Merge(data, other) = DOMAIN data \union DOMAIN other
           /\ \A c \in DOMAIN other : Merge(data, other)[c] = other[c]
           /\ \A c \in DOMAIN data \ DOMAIN other : Merge(data, other)[c] = data[c]
BY DEF Table, Merge

\* The rows of gen ask every prompt a number of times, and draw has an answer to each.
Drawn(gen, draw, n, p, times) ==
    /\ n = times * p
    /\ \A i \in 1 .. n : draw[i] \in Draws /\ gen.raw_prompt[i] = Asked(p, times)[i]

\* The answers that can be in a batch of n rows for p prompts.
AnswersTo(n, p) == [prompt : 1 .. p, copy : 1 .. n, tokens : {d.tokens : d \in Draws}, score : {0, 1}]

\* A batch of answers to them.
Answered(data, n, p, times) ==
    /\ WellFormed(data, n) /\ DOMAIN data = {"uid", "raw_prompt", "responses"}
    /\ [i \in DOMAIN data.responses |-> data.responses[i].prompt] = Asked(p, times)
    /\ \A i \in 1 .. n : data.responses[i] \in AnswersTo(n, p)

\* A batch with the answers of the workers is well formed.
LEMMA AnswersFormed ==
    ASSUME NEW p \in Nat \ {0}, NEW times \in Nat \ {0}, NEW n, NEW draw, NEW gen, Drawn(gen, draw, n, p, times),
           NEW other, other = [responses |-> Answers(gen, draw, n)]
    PROVE  Answered(Merge(Repeat(PromptBatch(p), times), other), n, p, times)
<1> DEFINE data == Merge(Repeat(PromptBatch(p), times), other)
<1> DEFINE asked == Repeat(PromptBatch(p), times)
<1>1. asked = [c \in {"uid", "raw_prompt"} |-> Asked(p, times)] /\ n \in Nat \ {0}
      /\ Asked(p, times) \in [1 .. n -> 1 .. p]
  BY RepeatIs DEF Drawn
<1> HIDE DEF asked
<1>2. DOMAIN data = {"uid", "raw_prompt", "responses"} /\ data.uid = Asked(p, times)
      /\ data.raw_prompt = Asked(p, times) /\ data.responses = Answers(gen, draw, n)
  BY <1>1 DEF Merge, asked
<1> HIDE DEF data
<1>3. Table(data, n)
  <2>1. data.uid = [i \in 1 .. n |-> data.uid[i]]
    BY <1>1, <1>2
  <2>2. data.raw_prompt = [i \in 1 .. n |-> data.raw_prompt[i]]
    BY <1>1, <1>2
  <2>3. data.responses = [i \in 1 .. n |-> data.responses[i]]
    BY <1>2 DEF Answers
  <2>4. QED
    BY <1>2, <2>1, <2>2, <2>3 DEF Table
<1>4. ASSUME NEW i \in 1 .. n
      PROVE  /\ data.responses[i] \in Response /\ data.responses[i].copy = i
             /\ data.responses[i].prompt = Asked(p, times)[i]
  <2>1. data.responses[i] = [prompt |-> gen.raw_prompt[i], copy |-> i,
                             tokens |-> draw[i].tokens, score |-> draw[i].score]
    BY <1>2 DEF Answers
  <2>2. gen.raw_prompt[i] = Asked(p, times)[i] /\ Asked(p, times)[i] \in Nat
    BY <1>1 DEF Drawn
  <2>3. draw[i].tokens \in SeqOf({"gen", "tool"}, ResponseLength) \ {<<>>} /\ draw[i].score \in {0, 1}
    BY BatchPathAssumption DEF Drawn
  <2>4. QED
    BY <1>1, <2>1, <2>2, <2>3 DEF Response
<1>5. WellFormed(data, n)
  <2>1. \A i \in 1 .. n : /\ data.responses[i] \in Response
                          /\ data.uid[i] = data.responses[i].prompt
                          /\ data.raw_prompt[i] = data.responses[i].prompt
    BY <1>2, <1>4
  <2>2. \A i, j \in 1 .. n : data.responses[i] = data.responses[j] => i = j
    BY <1>4
  <2>3. QED
    BY <1>2, <1>3, <2>1, <2>2 DEF WellFormed
<1>6. DOMAIN data.responses = 1 .. n
  BY <1>3, <1>2 DEF Table
<1>7. [i \in DOMAIN data.responses |-> data.responses[i].prompt] = Asked(p, times)
  <2>1. [i \in DOMAIN data.responses |-> data.responses[i].prompt] = [i \in 1 .. n |-> Asked(p, times)[i]]
    BY <1>4, <1>6
  <2>2. QED
    BY <1>1, <2>1
<1>8. ASSUME NEW i \in 1 .. n PROVE data.responses[i] \in AnswersTo(n, p)
  <2>1. data.responses[i] = [prompt |-> gen.raw_prompt[i], copy |-> i,
                             tokens |-> draw[i].tokens, score |-> draw[i].score]
    BY <1>2 DEF Answers
  <2>2. gen.raw_prompt[i] \in 1 .. p
    BY <1>1 DEF Drawn
  <2>3. draw[i].tokens \in {d.tokens : d \in Draws} /\ draw[i].score \in {0, 1}
    BY BatchPathAssumption DEF Drawn
  <2>4. QED
    BY <2>1, <2>2, <2>3 DEF AnswersTo
<1>9. QED
  BY <1>2, <1>5, <1>7, <1>8 DEF Answered, data

\* The batch that Generate makes, and the one that Validate makes.
LEMMA GeneratedBatch ==
    ASSUME NEW draw \in [1 .. BatchSize -> Draws], NEW prompts, prompts = PromptBatch(Prompts),
           NEW data, data = Merge(Repeat(prompts, RolloutN), GenerateSequences(Repeat(prompts, RolloutN), draw))
    PROVE  /\ WellFormed(data, BatchSize) /\ DOMAIN data = {"uid", "raw_prompt", "responses"}
           /\ data.uid = Asked(Prompts, RolloutN)
           /\ \A i \in 1 .. BatchSize : data.responses[i] \in TrainingResponse
<1> DEFINE gen == Repeat(prompts, RolloutN)
           size == BatchSize \div NumWorkers
<1>1. BatchSize \in Nat \ {0} /\ BatchSize = RolloutN * Prompts
  BY BatchSizeIs, Positive DEF BatchSize
<1>2. size \in Nat \ {0} /\ BatchSize = NumWorkers * size
  <2>1. BatchSize % NumWorkers = 0
    BY BatchPathAssumption
  <2>2. size \in Nat /\ size * NumWorkers = BatchSize
    BY <1>1, <2>1, Positive, WholeRows
  <2>3. QED
    BY <1>1, <2>2, Positive
<1> HIDE DEF size
<1>3. /\ gen = [c \in {"uid", "raw_prompt"} |-> Asked(Prompts, RolloutN)]
      /\ Asked(Prompts, RolloutN) \in [1 .. BatchSize -> 1 .. Prompts]
  <2>1. Prompts \in Nat \ {0} /\ RolloutN \in Nat \ {0}
    BY Positive
  <2>2. /\ Repeat(PromptBatch(Prompts), RolloutN) = [c \in {"uid", "raw_prompt"} |-> Asked(Prompts, RolloutN)]
        /\ Asked(Prompts, RolloutN) \in [1 .. (RolloutN * Prompts) -> 1 .. Prompts]
    BY <2>1, RepeatIs
  <2>3. QED
    BY <1>1, <2>2
<1> HIDE DEF gen
<1>4. Table(gen, BatchSize) /\ "raw_prompt" \in DOMAIN gen /\ gen.raw_prompt = Asked(Prompts, RolloutN)
  BY <1>3 DEF Table
<1>5. GenerateSequences(gen, draw) = [responses |-> Answers(gen, draw, BatchSize)]
  BY <1>2, <1>4, GenerateIs
<1>6. Drawn(gen, draw, BatchSize, Prompts, RolloutN)
  BY <1>1, <1>4 DEF Drawn
<1>7. Answered(Merge(Repeat(PromptBatch(Prompts), RolloutN), GenerateSequences(gen, draw)),
               BatchSize, Prompts, RolloutN)
  BY <1>5, <1>6, Positive, AnswersFormed
<1>8. Answered(data, BatchSize, Prompts, RolloutN)
  BY <1>7 DEF gen
<1>9. /\ WellFormed(data, BatchSize) /\ DOMAIN data = {"uid", "raw_prompt", "responses"}
      /\ [i \in DOMAIN data.responses |-> data.responses[i].prompt] = Asked(Prompts, RolloutN)
      /\ \A i \in 1 .. BatchSize : data.responses[i] \in TrainingResponse
  BY <1>8 DEF Answered, AnswersTo, TrainingResponse
<1>10. /\ data.uid = [i \in 1 .. BatchSize |-> data.uid[i]] /\ DOMAIN data.responses = 1 .. BatchSize
       /\ \A i \in 1 .. BatchSize : data.uid[i] = data.responses[i].prompt
  BY <1>9 DEF WellFormed, Table
<1>11. data.uid = [i \in 1 .. BatchSize |-> data.responses[i].prompt]
  BY <1>10
<1>12. QED
  BY <1>9, <1>10, <1>11

\* The rows up to the length are not moved by padding.
LEMMA Modulo ==
    ASSUME NEW n \in Nat \ {0}, NEW i \in 1 .. n
    PROVE  ((i - 1) % n) + 1 = i
OBVIOUS

\* So many rows more make a multiple of w.
Fills(pad, n, w) == pad = (w - (n % w)) % w

Multiple(m, w) == \E size \in Nat \ {0} : m = w * size

\* Padding makes the workers' chunks equal.
LEMMA PaddingIs ==
    ASSUME NEW n \in Nat \ {0}, NEW w \in Nat \ {0}, NEW pad, Fills(pad, n, w)
    PROVE  pad \in Nat /\ Multiple(n + pad, w)
<1> DEFINE q == n \div w
           r == n % w
<1>1. q \in Nat /\ r \in 0 .. w - 1 /\ n = w * q + r
  OBVIOUS
<1>2. pad = (w - r) % w
  BY DEF Fills
<1> HIDE DEF q, r
<1>3. CASE r = 0
  <2>1. pad = 0
    BY <1>2, <1>3
  <2>2. n + pad = w * q /\ q # 0
    BY <1>1, <1>3, <2>1
  <2>3. QED
    BY <1>1, <2>1, <2>2 DEF Multiple
<1>4. CASE r # 0
  <2>1. w - r \in 1 .. w - 1
    BY <1>1, <1>4
  <2>2. pad = w - r
    BY <1>2, <2>1
  <2>3. w * (q + 1) = w * q + w
    BY <1>1
  <2>4. n + pad = w * (q + 1) /\ q + 1 \in Nat \ {0} /\ pad \in Nat
    BY <1>1, <2>1, <2>2, <2>3
  <2>5. QED
    BY <2>4 DEF Multiple
<1>5. QED
  BY <1>3, <1>4

\* A validation batch has one answer for every row that was asked, the padding removed.
LEMMA ValidatedBatch ==
    ASSUME NEW test, test = Repeat(PromptBatch(ValPrompts), ValN),
           NEW draw \in [1 .. (ValPrompts * ValN + PadSize(test, NumWorkers)) -> Draws],
           NEW data, data = Merge(test, Unpad(GenerateSequences(PadToDivisor(test, NumWorkers), draw),
                                              PadSize(test, NumWorkers)))
    PROVE  /\ WellFormed(data, ValN * ValPrompts) /\ DOMAIN data = {"uid", "raw_prompt", "responses"}
           /\ [i \in DOMAIN data.responses |-> data.responses[i].prompt] = test.uid
<1> DEFINE n == ValN * ValPrompts
           pad == PadSize(test, NumWorkers)
           padded == PadToDivisor(test, NumWorkers)
           idx == [i \in 1 .. (n + pad) |-> ((i - 1) % n) + 1]
<1>1. /\ test = [c \in {"uid", "raw_prompt"} |-> Asked(ValPrompts, ValN)]
      /\ n \in Nat \ {0} /\ Asked(ValPrompts, ValN) \in [1 .. n -> 1 .. ValPrompts]
  BY Positive, RepeatIs
<1>2. Table(test, n)
  <2> HIDE DEF n
  <2>1. QED
    BY <1>1 DEF Table
<1>3. draw \in [1 .. (n + pad) -> Draws]
  <2>1. ValPrompts * ValN = n
    BY Positive
  <2> HIDE DEF n
  <2>2. QED
    BY <2>1
<1> HIDE DEF n
<1>4. NumRows(test) = n
  BY <1>1, <1>2, NumRowsIs
<1>5. Fills(pad, n, NumWorkers)
  BY <1>4 DEF PadSize, Fills
<1>6. padded = SelectIdxs(test, idx)
  BY <1>4 DEF PadToDivisor
<1> HIDE DEF pad, padded
<1>7. pad \in Nat /\ Multiple(n + pad, NumWorkers)
  BY <1>1, <1>5, Positive, PaddingIs
<1>8. PICK size \in Nat \ {0} : n + pad = NumWorkers * size
  BY <1>7 DEF Multiple
<1>9. DOMAIN idx = 1 .. (n + pad) /\ \A i \in 1 .. (n + pad) : idx[i] = ((i - 1) % n) + 1
  OBVIOUS
<1> HIDE DEF idx
<1>10. ASSUME NEW i \in 1 .. n PROVE i \in 1 .. (n + pad) /\ idx[i] = i
  <2>1. i \in 1 .. (n + pad)
    BY <1>1, <1>7
  <2>2. ((i - 1) % n) + 1 = i
    BY <1>1, Modulo
  <2>3. idx[i] = ((i - 1) % n) + 1
    BY <1>9, <2>1
  <2>4. QED
    BY <2>1, <2>2, <2>3
<1>11. /\ DOMAIN padded = {"uid", "raw_prompt"}
       /\ \A c \in {"uid", "raw_prompt"} : padded[c] = [i \in 1 .. (n + pad) |-> Asked(ValPrompts, ValN)[idx[i]]]
  BY <1>1, <1>6, <1>9 DEF SelectIdxs
<1>12. Table(padded, n + pad) /\ "raw_prompt" \in DOMAIN padded
  BY <1>11 DEF Table
<1>13. \A i \in 1 .. n : padded.raw_prompt[i] = Asked(ValPrompts, ValN)[i]
  <2>1. padded.raw_prompt = [i \in 1 .. (n + pad) |-> Asked(ValPrompts, ValN)[idx[i]]]
    BY <1>11
  <2>2. QED
    BY <1>10, <2>1
<1>14. GenerateSequences(padded, draw) = [responses |-> Answers(padded, draw, n + pad)]
  <2> DEFINE m == n + pad
  <2>1. m = NumWorkers * size /\ Table(padded, m)
    BY <1>8, <1>12
  <2> HIDE DEF m
  <2>2. GenerateSequences(padded, draw) = [responses |-> Answers(padded, draw, m)]
    BY <1>12, <2>1, GenerateIs
  <2>3. QED
    BY <2>2 DEF m
<1> DEFINE generated == GenerateSequences(padded, draw)
           other == Unpad(generated, pad)
<1>15. /\ DOMAIN generated = {"responses"}
       /\ generated.responses = [i \in 1 .. (n + pad) |-> Answers(padded, draw, n + pad)[i]]
       /\ \A i \in 1 .. n : generated.responses[i] = Answers(padded, draw, n)[i]
  BY <1>10, <1>14 DEF Answers
<1>16. other = [responses |-> Answers(padded, draw, n)]
  <2>1. Table(generated, n + pad)
    BY <1>15 DEF Table
  <2>2. NumRows(generated) = n + pad
    BY <1>1, <1>7, <2>1, NumRowsIs
  <2> HIDE DEF generated
  <2>3. other = Slice(generated, 1, (n + pad) - pad)
    BY <2>2 DEF Unpad
  <2>4. (n + pad) - pad = 0 + n /\ 0 + 1 = 1
    BY <1>1, <1>7
  <2>5. Slice(generated, 0 + 1, 0 + n) = Part(generated, 0, n)
    BY <1>1, SliceIs
  <2>6. Part(generated, 0, n) = [responses |-> [i \in 1 .. n |-> generated.responses[0 + i]]]
    <3>1. Part(generated, 0, n) = [c \in {"responses"} |-> [i \in 1 .. n |-> generated[c][0 + i]]]
      BY <1>15 DEF Part
    <3>2. QED
      BY <3>1
  <2>7. [i \in 1 .. n |-> generated.responses[0 + i]] = [i \in 1 .. n |-> Answers(padded, draw, n)[i]]
    BY <1>15
  <2>8. Answers(padded, draw, n) = [i \in 1 .. n |-> Answers(padded, draw, n)[i]]
    BY DEF Answers
  <2>9. QED
    BY <2>3, <2>4, <2>5, <2>6, <2>7, <2>8
<1>17. data = Merge(Repeat(PromptBatch(ValPrompts), ValN), other)
  BY DEF pad, padded
<1> HIDE DEF other, generated
<1>18. Drawn(padded, draw, n, ValPrompts, ValN)
  <2>1. \A i \in 1 .. n : i \in 1 .. (n + pad)
    BY <1>10
  <2>2. QED
    BY <1>3, <1>13, <2>1 DEF Drawn, n
<1>19. Answered(data, n, ValPrompts, ValN)
  BY <1>16, <1>17, <1>18, Positive, AnswersFormed
<1>20. QED
  BY <1>1, <1>19 DEF Answered, n

-----------------------------------------------------------------------------
(* The rows are divided over the ranks *)

\* The types of a response.
LEMMA ResponseIs ==
    ASSUME NEW r \in Response
    PROVE  /\ Len(r.tokens) \in 1 .. ResponseLength /\ r.tokens \in [1 .. Len(r.tokens) -> {"gen", "tool"}]
           /\ r.score \in {0, 1} /\ r.prompt \in Nat /\ r # None
<1>1. r.tokens \in SeqOf({"gen", "tool"}, ResponseLength) \ {<<>>} /\ r.score \in {0, 1} /\ r.prompt \in Nat
  BY DEF Response
<1>2. PICK m \in 0 .. ResponseLength : r.tokens \in [1 .. m -> {"gen", "tool"}]
  BY <1>1 DEF SeqOf
<1>3. Len(r.tokens) = m /\ r.tokens \in Seq({"gen", "tool"})
  BY <1>2, Positive, FunctionIsSeq
<1>4. m # 0
  BY <1>1, <1>3
<1>5. None \notin Response
  BY BatchPathAssumption
<1>6. QED
  BY <1>1, <1>2, <1>3, <1>4, <1>5, Positive

\* A well-formed batch can be dispatched.
LEMMA WellFormedSendable ==
    ASSUME NEW data, WellFormed(data, BatchSize)
    PROVE  Sendable(data)
<1>1. Table(data, BatchSize) /\ "responses" \in DOMAIN data
  BY DEF WellFormed
<1>2. ASSUME NEW i \in 1 .. BatchSize PROVE Len(data.responses[i].tokens) \in Nat
  <2>1. data.responses[i] \in Response
    BY DEF WellFormed
  <2>2. Len(data.responses[i].tokens) \in 1 .. ResponseLength
    BY <2>1, ResponseIs
  <2>3. QED
    BY <2>2, Positive
<1>3. QED
  BY <1>1, <1>2 DEF Sendable

\* The lengths of its rows.
LEMMA LensAre ==
    ASSUME NEW data, NEW n \in Nat, WellFormed(data, n)
    PROVE  /\ SeqLens(data) \in [1 .. n -> Nat \ {0}]
           /\ \A i \in 1 .. n : SeqLens(data)[i] = 1 + Len(data.responses[i].tokens)
<1>1. data.responses = [i \in 1 .. n |-> data.responses[i]]
  BY DEF WellFormed, Table
<1>2. SeqLens(data) = [i \in 1 .. n |-> 1 + Len(data.responses[i].tokens)]
  BY <1>1 DEF SeqLens
<1>3. ASSUME NEW i \in 1 .. n PROVE 1 + Len(data.responses[i].tokens) \in Nat \ {0}
  <2>1. data.responses[i] \in Response
    BY DEF WellFormed
  <2>2. Len(data.responses[i].tokens) \in 1 .. ResponseLength
    BY <2>1, ResponseIs
  <2>3. QED
    BY <2>2, Positive
<1>4. QED
  BY <1>2, <1>3

\* The balance of the parts that the configuration asks for.
AsAsked(sets, w) ==
    /\ config.balance = "tokens" => Balanced(sets, BatchSize, w, DpSize)
    /\ config.balance = "groups" => GroupsBalanced(sets, DpSize, Prompts, RolloutN, w)

Divided(sets, w) ==
    /\ Division(sets, BatchSize, DpSize) /\ Sequenced(GlobalPartitions, sets, BatchSize, DpSize)
    /\ AsAsked(sets, w) /\ \A c, d \in 1 .. DpSize : Cardinality(sets[c]) = Cardinality(sets[d])

\* _balance_batch assigns every row to one rank, in the number that rank will be sent.
LEMMA GlobalPartitionsDivide ==
    ASSUME WellFormed(batch, BatchSize), batch.uid = Asked(Prompts, RolloutN), config \in Configs
    PROVE  config.balance # "none" => \E sets : Divided(sets, Workloads(SeqLens(batch)))
<1> DEFINE lens == SeqLens(batch)
           w == Workloads(lens)
           parts == GetSeqlenBalancedPartitions(w, DpSize, TRUE)
<1>1. lens \in [1 .. BatchSize -> Nat \ {0}]
  BY LensAre, BatchSizeIs
<1> HIDE DEF lens
<1>2. Weighed(BatchSize, w, DpSize)
  BY <1>1, BatchSizeIs, Positive, WorkloadsWeigh
<1>3. config.balance \in {"none", "tokens", "groups"} /\ (config.balance = "groups" => Prompts % DpSize = 0)
  <2>1. Configs \subseteq Config /\ \A c \in Configs : c.balance = "groups" => Prompts % DpSize = 0
    BY BatchPathAssumption
  <2>2. QED
    BY <2>1 DEF Config
<1>4. CASE config.balance = "tokens"
  <2>1. GlobalPartitions = [d \in 1 .. DpSize |-> SmallAtBothEnds(AscendingBy(ToSet(parts[d]), w))]
    BY <1>4 DEF GlobalPartitions, lens
  <2> HIDE DEF w
  <2>2. BatchSize >= DpSize /\ BatchSize % DpSize = 0
    <3>1. DpSize <= DpSize * Share
      BY Positive, ShareIs
    <3>2. BatchSize >= DpSize
      BY <3>1, ShareIs, BatchSizeIs, Positive
    <3>3. BatchSize % DpSize = 0
      BY BatchPathAssumption
    <3>4. QED
      BY <3>2, <3>3
  <2>3. PICK sets : /\ Division(sets, BatchSize, DpSize) /\ Sequenced(parts, sets, BatchSize, DpSize)
                    /\ Balanced(sets, BatchSize, w, DpSize)
    BY <1>2, <2>2, BalancedPartitions
  <2> HIDE DEF parts
  <2>4. w \in [1 .. BatchSize -> Int]
    BY <1>2 DEF Weighed
  <2>5. Sequenced(GlobalPartitions, sets, BatchSize, DpSize)
    BY <2>1, <2>3, <2>4, BatchSizeIs, BothEndsSequenced
  <2>6. \A c, d \in 1 .. DpSize : Cardinality(sets[c]) = Cardinality(sets[d])
    BY <2>3 DEF Balanced
  <2>7. Divided(sets, w)
    BY <1>4, <2>3, <2>5, <2>6 DEF Divided, AsAsked
  <2>8. QED
    BY <2>7 DEF w, lens
<1>5. CASE config.balance = "groups"
  <2>1. GlobalPartitions = GetGroupBalancedPartitions(lens, batch.uid, DpSize)
    BY <1>5 DEF GlobalPartitions, lens
  <2>2. Groups(Prompts, RolloutN, BatchSize, DpSize)
    <3>1. Prompts \in Nat \ {0} /\ RolloutN \in Nat \ {0} /\ BatchSize = RolloutN * Prompts
      BY Positive DEF BatchSize
    <3>2. Prompts % DpSize = 0
      BY <1>3, <1>5
    <3>3. Prompts \div DpSize \in Nat /\ (Prompts \div DpSize) * DpSize = Prompts
      BY <3>2, Positive, WholeRows
    <3> DEFINE q == Prompts \div DpSize
    <3> HIDE DEF q
    <3>4. q \in Nat /\ q * DpSize = Prompts
      BY <3>3 DEF q
    <3>5. q # 0
      BY <3>1, <3>4, Positive
    <3>6. DpSize <= q * DpSize
      BY <3>4, <3>5, Positive
    <3>7. DpSize \in 1 .. Prompts
      BY <3>1, <3>4, <3>6, Positive
    <3>8. QED
      BY <3>1, <3>2, <3>7 DEF Groups
  <2>3. PICK sets : /\ Division(sets, BatchSize, DpSize)
                    /\ Sequenced(GetGroupBalancedPartitions(lens, batch.uid, DpSize), sets, BatchSize, DpSize)
                    /\ GroupsBalanced(sets, DpSize, Prompts, RolloutN, w)
    BY <1>1, <2>2, GroupPartitions
  <2> HIDE DEF w
  <2>4. \A c, d \in 1 .. DpSize : Cardinality(sets[c]) = Cardinality(sets[d])
    BY <2>3 DEF GroupsBalanced
  <2>5. Divided(sets, w)
    BY <1>5, <2>1, <2>3, <2>4 DEF Divided, AsAsked
  <2>6. QED
    BY <2>5 DEF w, lens
<1>6. QED
  BY <1>3, <1>4, <1>5

\* The rows that follow one another on the ranks.
Reordered(idx, parts, sets) ==
    /\ Enumerates(idx, 1 .. BatchSize)
    /\ Placed(idx, parts, DpSize, Share)
    /\ \A d \in 1 .. DpSize : Listed(parts[d], sets[d], BatchSize) /\ Len(parts[d]) = Share

\* The order in which it places the rows is a permutation of them.
LEMMA PartitionsReorder ==
    ASSUME NEW sets, NEW w, Divided(sets, w)
    PROVE  Reordered(FlattenSeq(GlobalPartitions), GlobalPartitions, sets)
<1> DEFINE parts == GlobalPartitions
<1>1. Partitions(parts, DpSize, 1 .. BatchSize) /\ \A d \in 1 .. DpSize : Listed(parts[d], sets[d], BatchSize)
  BY DEF Divided, Sequenced
<1>2. 1 \in 1 .. DpSize
  BY Positive
<1> DEFINE size == Len(parts[1])
<1>3. size \in Nat
  <2>1. parts[1] \in Seq(1 .. BatchSize)
    BY <1>1, <1>2 DEF Listed
  <2> HIDE DEF parts
  <2>2. QED
    BY <2>1
<1>4. \A d \in 1 .. DpSize : Len(parts[d]) = size
  <2>1. \A d \in 1 .. DpSize : Len(parts[d]) = Cardinality(sets[d])
    BY <1>1 DEF Listed
  <2>2. \A d \in 1 .. DpSize : Cardinality(sets[d]) = Cardinality(sets[1])
    BY <1>2 DEF Divided
  <2> HIDE DEF parts
  <2>3. QED
    BY <1>2, <2>1, <2>2
<1> HIDE DEF size, parts
<1>5. /\ BatchSize = DpSize * size /\ Enumerates(FlattenSeq(parts), 1 .. BatchSize)
      /\ Placed(FlattenSeq(parts), parts, DpSize, size)
  <2>1. Aligned(parts, BatchSize, DpSize, size)
    BY <1>1, <1>3, <1>4 DEF Aligned
  <2>2. QED
    BY <2>1, BatchSizeIs, Positive, EqualParts
<1>6. size = Share
  <2>1. (DpSize * size) \div DpSize = size
    BY <1>3, Positive
  <2>2. QED
    BY <1>5, <2>1 DEF Share
<1>7. QED
  BY <1>1, <1>4, <1>5, <1>6 DEF Reordered, parts

\* A batch in another order is well formed.
LEMMA SelectedFormed ==
    ASSUME NEW n \in Nat, NEW data, WellFormed(data, n), NEW idx, Enumerates(idx, 1 .. n)
    PROVE  /\ WellFormed(SelectIdxs(data, idx), n) /\ DOMAIN SelectIdxs(data, idx) = DOMAIN data
           /\ \A c \in DOMAIN data : SelectIdxs(data, idx)[c] = [i \in 1 .. n |-> data[c][idx[i]]]
<1> DEFINE new == SelectIdxs(data, idx)
<1>1. /\ Cardinality(1 .. n) = n
      /\ \A i \in 1 .. n : idx[i] \in 1 .. n
      /\ \A i, j \in 1 .. n : idx[i] = idx[j] => i = j
      /\ DOMAIN idx = 1 .. n
  <2>1. Cardinality(1 .. n) = n
    BY FS_Interval
  <2>2. idx = [i \in 1 .. n |-> idx[i]]
    BY <2>1 DEF Enumerates
  <2>3. QED
    BY <2>1, <2>2 DEF Enumerates
<1>2. DOMAIN new = DOMAIN data /\ \A c \in DOMAIN data : new[c] = [i \in 1 .. n |-> data[c][idx[i]]]
  BY <1>1 DEF SelectIdxs
<1> HIDE DEF new
<1>3. Table(new, n)
  BY <1>2 DEF Table, WellFormed
<1>4. {"uid", "raw_prompt", "responses"} \subseteq DOMAIN data
  BY DEF WellFormed
<1>5. ASSUME NEW i \in 1 .. n
      PROVE  /\ new.responses[i] = data.responses[idx[i]] /\ new.uid[i] = data.uid[idx[i]]
             /\ new.raw_prompt[i] = data.raw_prompt[idx[i]]
  <2>1. /\ new.responses = [j \in 1 .. n |-> data.responses[idx[j]]]
        /\ new.uid = [j \in 1 .. n |-> data.uid[idx[j]]]
        /\ new.raw_prompt = [j \in 1 .. n |-> data.raw_prompt[idx[j]]]
    BY <1>2, <1>4
  <2>2. QED
    BY <2>1
<1>6. ASSUME NEW i \in 1 .. n
      PROVE  /\ new.responses[i] \in Response /\ new.uid[i] = new.responses[i].prompt
             /\ new.raw_prompt[i] = new.responses[i].prompt
  <2>1. PICK k \in 1 .. n : idx[i] = k
    BY <1>1
  <2>2. /\ data.responses[k] \in Response /\ data.uid[k] = data.responses[k].prompt
        /\ data.raw_prompt[k] = data.responses[k].prompt
    BY DEF WellFormed
  <2>3. QED
    BY <1>5, <2>1, <2>2
<1>7. ASSUME NEW i \in 1 .. n, NEW j \in 1 .. n, new.responses[i] = new.responses[j] PROVE i = j
  <2>1. PICK k \in 1 .. n, l \in 1 .. n : idx[i] = k /\ idx[j] = l
    BY <1>1
  <2>2. data.responses[k] = data.responses[l]
    BY <1>5, <1>7, <2>1
  <2>3. k = l
    BY <2>2 DEF WellFormed
  <2>4. QED
    BY <1>1, <2>1, <2>3
<1>8. WellFormed(new, n)
  BY <1>2, <1>3, <1>4, <1>6, <1>7 DEF WellFormed
<1>9. QED
  BY <1>2, <1>8 DEF new

-----------------------------------------------------------------------------
(* The columns of the batch *)

\* What a row has before anything is computed for it.
Asking == {"uid", "raw_prompt", "responses"}

\* A column of a batch with these responses.
Column(name, col, responses) ==
    /\ name \notin Asking /\ col = [i \in 1 .. BatchSize |-> col[i]]
    /\ name \in {"old_log_probs", "values"} => col = responses
    /\ name \in {"teacher_input_ids", "teacher_log_probs"} =>
         \A i \in 1 .. BatchSize : col[i].response = responses[i]

\* A training batch, with what has been computed for its rows.
Faithful(data) ==
    /\ WellFormed(data, BatchSize)
    /\ \A c \in DOMAIN data \ Asking : Column(c, data[c], data.responses)

Columns(other, data) == \A c \in DOMAIN other : Column(c, other[c], data.responses)

\* The columns of data are those of new, but for these.
Extends(new, data, names) ==
    /\ DOMAIN new = DOMAIN data \cup names
    /\ \A c \in DOMAIN data \ names : new[c] = data[c]

\* New columns made of the responses leave the others as they are and the batch faithful.
LEMMA MergeFaithful ==
    ASSUME NEW data, Faithful(data), NEW other, Columns(other, data)
    PROVE  /\ Faithful(Merge(data, other)) /\ Extends(Merge(data, other), data, DOMAIN other)
           /\ \A c \in DOMAIN other : Merge(data, other)[c] = other[c]
           /\ \A c \in Asking : Merge(data, other)[c] = data[c]
<1> DEFINE new == Merge(data, other)
<1>1. WellFormed(data, BatchSize) /\ Table(data, BatchSize) /\ Asking \subseteq DOMAIN data
  BY DEF Faithful, WellFormed, Asking
<1>2. \A c \in DOMAIN other : other[c] = [i \in 1 .. BatchSize |-> other[c][i]] /\ c \notin Asking
  BY DEF Columns, Column
<1>3. /\ Table(new, BatchSize) /\ DOMAIN new = DOMAIN data \cup DOMAIN other
      /\ \A c \in DOMAIN other : new[c] = other[c]
      /\ \A c \in DOMAIN data \ DOMAIN other : new[c] = data[c]
  <2>1. /\ DOMAIN new = DOMAIN data \cup DOMAIN other
        /\ \A c \in DOMAIN other : new[c] = other[c]
        /\ \A c \in DOMAIN data \ DOMAIN other : new[c] = data[c]
    BY DEF Merge
  <2> HIDE DEF new
  <2>2. QED
    BY <1>1, <1>2, <2>1 DEF Table
<1> HIDE DEF new
<1>4. new.uid = data.uid /\ new.raw_prompt = data.raw_prompt /\ new.responses = data.responses
  BY <1>1, <1>2, <1>3 DEF Asking
<1>5. WellFormed(new, BatchSize)
  BY <1>1, <1>3, <1>4 DEF WellFormed
<1>6. ASSUME NEW c \in DOMAIN new \ Asking PROVE Column(c, new[c], new.responses)
  <2>1. CASE c \in DOMAIN other
    BY <1>3, <1>4, <2>1 DEF Columns
  <2>2. CASE c \notin DOMAIN other
    BY <1>3, <1>4, <2>2 DEF Faithful
  <2>3. QED
    BY <2>1, <2>2
<1>7. Faithful(new)
  BY <1>5, <1>6 DEF Faithful
<1>8. \A c \in Asking : new[c] = data[c]
  BY <1>4 DEF Asking
<1>9. QED
  BY <1>3, <1>7, <1>8 DEF new, Extends

\* Columns may be left out.
LEMMA RestrictFaithful ==
    ASSUME NEW data, Faithful(data), NEW kept \in SUBSET DOMAIN data, Asking \subseteq kept
    PROVE  /\ Faithful([c \in kept |-> data[c]]) /\ DOMAIN [c \in kept |-> data[c]] = kept
           /\ \A c \in kept : [b \in kept |-> data[b]][c] = data[c]
<1> DEFINE new == [c \in kept |-> data[c]]
<1>1. DOMAIN new = kept /\ \A c \in kept : new[c] = data[c]
  OBVIOUS
<1> HIDE DEF new
<1>2. new.uid = data.uid /\ new.raw_prompt = data.raw_prompt /\ new.responses = data.responses
  BY <1>1 DEF Asking
<1>3. Table(new, BatchSize)
  BY <1>1 DEF Faithful, WellFormed, Table, Asking
<1>4. WellFormed(new, BatchSize)
  BY <1>1, <1>2, <1>3 DEF Faithful, WellFormed, Asking
<1>5. Faithful(new)
  BY <1>1, <1>2, <1>4 DEF Faithful
<1>6. QED
  BY <1>1, <1>5 DEF new

\* Computing a column of a training batch gives that column.
LEMMA FaithfulComputes ==
    ASSUME NEW data, Faithful(data), NEW column \in DOMAIN data, NEW dynamic \in BOOLEAN
    PROVE  Compute(data, column, dynamic) = data[column]
<1>1. Sendable(data)
  BY WellFormedSendable DEF Faithful
<1>2. QED
  BY <1>1, ComputeIs

\* A batch that has only been answered is faithful.
LEMMA FormedFaithful ==
    ASSUME NEW data, WellFormed(data, BatchSize), DOMAIN data = Asking
    PROVE  Faithful(data)
BY DEF Faithful

-----------------------------------------------------------------------------
(* The inductive invariant *)

Training ==
    {"generated", "balanced", "scored", "old_log_prob", "distillation", "judged", "advantages", "ready", "updated"}

\* The score of a row, at the last token.
ScoresOf(data) ==
    [i \in 1 .. BatchSize |-> [t \in 1 .. ResponseLength |->
        IF t = Len(data.responses[i].tokens) THEN data.responses[i].score ELSE 0]]

Validated(data) ==
    /\ WellFormed(data, ValN * ValPrompts) /\ DOMAIN data = Asking
    /\ [i \in DOMAIN data.responses |-> data.responses[i].prompt] = Repeat(PromptBatch(ValPrompts), ValN).uid

\* What the teacher is shown with a response.
Context(data, i) ==
    LET r == data.responses[i]
        s == data.teacher_input_ids[i].context
    IN  /\ s # None => s \in ToSet(data.responses) /\ s.prompt = r.prompt /\ s.score = 1
        /\ s = r => ~config.dontReprompt \/ (config.selfAsTeacher /\ config.estimator # "sdpo")
        /\ s = None => \A j \in 1 .. BatchSize :
              j # i /\ data.responses[j].prompt = r.prompt => data.responses[j].score = 0
        /\ data.self_distillation_mask[i] \in {0, 1}
        /\ data.self_distillation_mask[i] = 1 <=> s # None \/ data.teacher_input_ids[i].feedback

Taught(data) ==
    "teacher_input_ids" \in DOMAIN data =>
        "self_distillation_mask" \in DOMAIN data /\ \A i \in 1 .. BatchSize : Context(data, i)

\* The columns that are there at a phase.
Present ==
    /\ phase \in {"generated", "balanced"} => DOMAIN batch = Asking
    /\ phase \in Training \ {"generated", "balanced"} =>
         "token_level_scores" \in DOMAIN batch /\ batch.token_level_scores = ScoresOf(batch)
    /\ phase \in Training \ {"generated", "balanced", "scored"} /\ config.estimator = "gae" =>
         "values" \in DOMAIN batch
    /\ phase = "distillation" /\ SelfDistillation => "teacher_input_ids" \in DOMAIN batch
    /\ phase = "judged" => /\ config.estimator \in {"tasd", "sequence"}
                           /\ {"teacher_input_ids", "teacher_log_probs"} \subseteq DOMAIN batch
                           /\ batch.teacher_log_probs = batch.teacher_input_ids
    /\ phase = "advantages" => config.estimator = "sdpo" /\ "teacher_input_ids" \in DOMAIN batch

BatchInvariant ==
    /\ config \in Configs /\ phase \in Training \cup {"idle", "validated"}
    /\ phase = "idle" => batch = <<>>
    /\ phase \in Training => Faithful(batch) /\ Taught(batch)
    /\ phase = "generated" => batch.uid = Asked(Prompts, RolloutN)
    /\ phase = "validated" => Validated(batch)
    /\ Present

\* The types of a configuration.
LEMMA ConfigIs ==
    ASSUME NEW c \in Configs
    PROVE  /\ c.estimator \in {"gae", "grpo", "sdpo", "tasd", "sequence"}
           /\ c.balance \in {"none", "tokens", "groups"}
           /\ c.dynamic \in BOOLEAN /\ c.dontReprompt \in BOOLEAN /\ c.selfAsTeacher \in BOOLEAN
           /\ c.miniBatchSize \in Nat /\ LocalMiniBatchSize(c) \in Nat \ {0}
<1>1. c \in Config /\ LocalMiniBatchSize(c) > 0
  BY BatchPathAssumption
<1>2. c.miniBatchSize \in Nat
  BY <1>1 DEF Config
<1>3. c.miniBatchSize * RolloutN \in Nat
  BY <1>2, Positive
<1>4. LocalMiniBatchSize(c) \in Nat
  BY <1>3, Positive DEF LocalMiniBatchSize
<1>5. LocalMiniBatchSize(c) \in Nat \ {0}
  BY <1>1, <1>4
<1>6. QED
  BY <1>1, <1>5 DEF Config

\* One lemma per action: it preserves the invariant of the batch.
LEMMA InitInvariant ==
    ASSUME Init
    PROVE  BatchInvariant
BY DEF Init, BatchInvariant, Present, Training

LEMMA GenerateInvariant ==
    ASSUME BatchInvariant, Generate
    PROVE  BatchInvariant'
<1> DEFINE prompts == PromptBatch(Prompts)
<1>1. PICK draw \in [1 .. BatchSize -> Draws] :
        batch' = Merge(Repeat(prompts, RolloutN), GenerateSequences(Repeat(prompts, RolloutN), draw))
  BY DEF Generate
<1> HIDE DEF prompts
<1>2. /\ WellFormed(batch', BatchSize) /\ DOMAIN batch' = Asking
      /\ batch'.uid = Asked(Prompts, RolloutN)
  BY <1>1, GeneratedBatch DEF prompts, Asking
<1>3. Faithful(batch')
  BY <1>2, FormedFaithful
<1>4. phase' = "generated" /\ config' = config
  BY DEF Generate
<1>5. Taught(batch)'
  BY <1>2 DEF Taught, Asking
<1>6. Present'
  BY <1>2, <1>4 DEF Present, Training
<1>7. QED
  BY <1>2, <1>3, <1>4, <1>5, <1>6 DEF BatchInvariant, Training

LEMMA BalanceInvariant ==
    ASSUME BatchInvariant, BalanceBatch
    PROVE  BatchInvariant'
<1>1. /\ phase = "generated" /\ phase' = "balanced" /\ config' = config /\ config \in Configs
      /\ Faithful(batch) /\ DOMAIN batch = Asking /\ batch.uid = Asked(Prompts, RolloutN)
  BY DEF BalanceBatch, BatchInvariant, Present, Training
<1>2. WellFormed(batch', BatchSize) /\ DOMAIN batch' = DOMAIN batch
  <2>1. CASE config.balance = "none"
    BY <1>1, <2>1 DEF BalanceBatch, Faithful
  <2>2. CASE config.balance # "none"
    <3>1. batch' = SelectIdxs(batch, FlattenSeq(GlobalPartitions))
      BY <2>2 DEF BalanceBatch
    <3>2. WellFormed(batch, BatchSize)
      BY <1>1 DEF Faithful
    <3>3. PICK sets : Divided(sets, Workloads(SeqLens(batch)))
      BY <1>1, <2>2, <3>2, GlobalPartitionsDivide
    <3>4. Enumerates(FlattenSeq(GlobalPartitions), 1 .. BatchSize)
      BY <3>3, PartitionsReorder DEF Reordered
    <3>5. QED
      BY <3>1, <3>2, <3>4, BatchSizeIs, SelectedFormed
  <2>3. QED
    BY <2>1, <2>2
<1>3. Faithful(batch')
  BY <1>1, <1>2, FormedFaithful
<1>4. Taught(batch)'
  BY <1>1, <1>2 DEF Taught, Asking
<1>5. Present'
  BY <1>1, <1>2 DEF Present, Training
<1>6. QED
  BY <1>1, <1>3, <1>4, <1>5 DEF BatchInvariant, Training

LEMMA ScoreInvariant ==
    ASSUME BatchInvariant, ComputeReward
    PROVE  BatchInvariant'
<1> DEFINE scores == [i \in DOMAIN batch.uid |-> [t \in 1 .. ResponseLength |->
                IF t = Len(batch.responses[i].tokens) THEN batch.responses[i].score ELSE 0]]
           other == [token_level_scores |-> scores]
<1>1. /\ phase = "balanced" /\ phase' = "scored" /\ config' = config /\ config \in Configs
      /\ Faithful(batch) /\ DOMAIN batch = Asking /\ batch' = Merge(batch, other)
  BY DEF ComputeReward, BatchInvariant, Present, Training
<1>2. DOMAIN batch.uid = 1 .. BatchSize
  BY <1>1 DEF Faithful, WellFormed, Table
<1>3. scores = ScoresOf(batch)
  BY <1>2 DEF ScoresOf
<1>4. scores = [i \in 1 .. BatchSize |-> scores[i]]
  BY <1>3 DEF ScoresOf
<1> HIDE DEF scores
<1>5. DOMAIN other = {"token_level_scores"} /\ other.token_level_scores = scores
  OBVIOUS
<1> HIDE DEF other
<1>6. Columns(other, batch)
  BY <1>4, <1>5 DEF Columns, Column, Asking
<1>7. /\ Faithful(batch') /\ Extends(batch', batch, DOMAIN other)
      /\ \A c \in DOMAIN other : batch'[c] = other[c]
      /\ \A c \in Asking : batch'[c] = batch[c]
  BY <1>1, <1>6, MergeFaithful
<1>8. DOMAIN batch' = Asking \cup {"token_level_scores"} /\ batch'.token_level_scores = scores
  BY <1>1, <1>5, <1>7 DEF Extends
<1>9. Taught(batch)'
  BY <1>8 DEF Taught, Asking
<1>10. ScoresOf(batch') = scores
  BY <1>3, <1>7 DEF ScoresOf, Asking
<1>11. Present'
  BY <1>1, <1>8, <1>10 DEF Present, Training
<1>12. QED
  BY <1>1, <1>7, <1>9, <1>11 DEF BatchInvariant, Training

LEMMA OldLogProbInvariant ==
    ASSUME BatchInvariant, ComputeOldLogProb
    PROVE  BatchInvariant'
<1> DEFINE column == Compute(batch, "responses", config.dynamic)
           old == [old_log_probs |-> column]
           values == IF config.estimator = "gae" THEN [values |-> column] ELSE <<>>
           first == Merge(batch, old)
<1>1. /\ phase = "scored" /\ phase' = "old_log_prob" /\ config' = config /\ config \in Configs
      /\ Faithful(batch) /\ Taught(batch) /\ batch' = Merge(first, values)
      /\ "token_level_scores" \in DOMAIN batch /\ batch.token_level_scores = ScoresOf(batch)
  BY DEF ComputeOldLogProb, BatchInvariant, Present, Training
<1>2. config.dynamic \in BOOLEAN /\ "responses" \in DOMAIN batch
  BY <1>1, ConfigIs DEF Faithful, WellFormed
<1>3. column = batch.responses /\ column = [i \in 1 .. BatchSize |-> column[i]]
  <2>1. column = batch.responses
    BY <1>1, <1>2, FaithfulComputes
  <2>2. batch.responses = [i \in 1 .. BatchSize |-> batch.responses[i]]
    BY <1>1, <1>2 DEF Faithful, WellFormed, Table
  <2> HIDE DEF column
  <2>3. QED
    BY <2>1, <2>2
<1> HIDE DEF column
<1>4. DOMAIN old = {"old_log_probs"} /\ old.old_log_probs = column
  OBVIOUS
<1>5. DOMAIN values = (IF config.estimator = "gae" THEN {"values"} ELSE {})
      /\ \A c \in DOMAIN values : c = "values" /\ values[c] = column
  <2>1. CASE config.estimator = "gae"
    BY <2>1
  <2>2. CASE config.estimator # "gae"
    BY <2>2
  <2>3. QED
    BY <2>1, <2>2
<1> HIDE DEF old, values
<1>6. Columns(old, batch)
  BY <1>3, <1>4 DEF Columns, Column, Asking
<1>7. /\ Faithful(first) /\ Extends(first, batch, DOMAIN old)
      /\ \A c \in Asking : first[c] = batch[c]
  BY <1>1, <1>6, MergeFaithful
<1> HIDE DEF first
<1>8. Columns(values, first)
  BY <1>3, <1>5, <1>7 DEF Columns, Column, Asking
<1>9. /\ Faithful(batch') /\ Extends(batch', first, DOMAIN values)
      /\ \A c \in DOMAIN values : batch'[c] = values[c]
      /\ \A c \in Asking : batch'[c] = first[c]
  BY <1>1, <1>7, <1>8, MergeFaithful
<1>10. /\ batch'.responses = batch.responses
       /\ "token_level_scores" \in DOMAIN batch' /\ batch'.token_level_scores = batch.token_level_scores
       /\ config.estimator = "gae" => "values" \in DOMAIN batch'
       /\ "teacher_input_ids" \in DOMAIN batch' => "teacher_input_ids" \in DOMAIN batch
       /\ \A c \in {"teacher_input_ids", "self_distillation_mask"} :
             c \in DOMAIN batch => c \in DOMAIN batch' /\ batch'[c] = batch[c]
  BY <1>1, <1>4, <1>5, <1>7, <1>9 DEF Extends, Asking
<1>11. Taught(batch)'
  BY <1>1, <1>10 DEF Taught, Context
<1>12. ScoresOf(batch') = ScoresOf(batch)
  BY <1>10 DEF ScoresOf
<1>13. Present'
  BY <1>1, <1>10, <1>12 DEF Present, Training, SelfDistillation
<1>14. QED
  BY <1>1, <1>9, <1>11, <1>13 DEF BatchInvariant, Training

-----------------------------------------------------------------------------
(* What the teacher is shown *)

\* The scores of a row add up to the score of its response.
LEMMA ScoreTotal ==
    ASSUME NEW data, Faithful(data), NEW i \in 1 .. BatchSize
    PROVE  Total(ScoresOf(data)[i]) = data.responses[i].score
<1> DEFINE r == data.responses[i]
           row == ScoresOf(data)[i]
<1>1. r \in Response
  BY DEF Faithful, WellFormed
<1>2. Len(r.tokens) \in 1 .. ResponseLength /\ r.score \in {0, 1}
  BY <1>1, ResponseIs
<1>3. row = [t \in 1 .. ResponseLength |-> IF t = Len(r.tokens) THEN r.score ELSE 0]
  BY DEF ScoresOf
<1> HIDE DEF row, r
<1>4. row \in [1 .. ResponseLength -> Int] /\ row[Len(r.tokens)] = r.score
      /\ \A t \in 1 .. ResponseLength : t # Len(r.tokens) => row[t] = 0
  BY <1>2, <1>3
<1>5. ResponseLength \in Nat
  BY Positive
<1>6. Total(row) = row[Len(r.tokens)]
  BY <1>2, <1>4, <1>5, TotalOfOne
<1>7. QED
  BY <1>4, <1>6 DEF row, r

\* The rows with a successful answer to the prompt of a row.
LEMMA SuccessIs ==
    ASSUME Faithful(batch), batch.token_level_scores = ScoresOf(batch), NEW i \in 1 .. BatchSize
    PROVE  SuccessByUid(batch.uid[i]) = {j \in 1 .. BatchSize : /\ batch.responses[j].prompt = batch.responses[i].prompt
                                                              /\ batch.responses[j].score = 1}
<1>1. /\ DOMAIN batch.uid = 1 .. BatchSize
      /\ \A j \in 1 .. BatchSize : /\ batch.uid[j] = batch.responses[j].prompt
                                   /\ batch.responses[j].score \in {0, 1}
  <2>1. DOMAIN batch.uid = 1 .. BatchSize /\ \A j \in 1 .. BatchSize : batch.uid[j] = batch.responses[j].prompt
    BY DEF Faithful, WellFormed, Table
  <2>2. \A j \in 1 .. BatchSize : batch.responses[j] \in Response
    BY DEF Faithful, WellFormed
  <2>3. QED
    BY <2>1, <2>2, ResponseIs
<1>2. \A j \in 1 .. BatchSize : Total(batch.token_level_scores[j]) = batch.responses[j].score
  BY ScoreTotal
<1>3. \A j \in 1 .. BatchSize : Total(batch.token_level_scores[j]) >= 1 <=> batch.responses[j].score = 1
  BY <1>1, <1>2
<1>4. QED
  BY <1>1, <1>3 DEF SuccessByUid

\* The rows a solution is chosen from.
LEMMA SolutionIs ==
    ASSUME Faithful(batch), batch.token_level_scores = ScoresOf(batch), NEW i \in 1 .. BatchSize
    PROVE  /\ \A j \in SolutionIdxs(i) :
                /\ j \in 1 .. BatchSize /\ batch.responses[j].prompt = batch.responses[i].prompt
                /\ batch.responses[j].score = 1
                /\ j = i => ~config.dontReprompt \/ (config.selfAsTeacher /\ config.estimator # "sdpo")
           /\ SolutionIdxs(i) = {} => \A j \in 1 .. BatchSize :
                j # i /\ batch.responses[j].prompt = batch.responses[i].prompt => batch.responses[j].score = 0
<1> DEFINE success == SuccessByUid(batch.uid[i])
           self == config.selfAsTeacher /\ config.estimator # "sdpo"
<1>1. success = {j \in 1 .. BatchSize : /\ batch.responses[j].prompt = batch.responses[i].prompt
                                        /\ batch.responses[j].score = 1}
  BY SuccessIs
<1>2. \A j \in 1 .. BatchSize : batch.responses[j].score \in {0, 1}
  <2>1. \A j \in 1 .. BatchSize : batch.responses[j] \in Response
    BY DEF Faithful, WellFormed
  <2>2. QED
    BY <2>1, ResponseIs
<1>3. SolutionIdxs(i) = IF self /\ i \in success THEN {i}
                        ELSE IF config.dontReprompt THEN success \ {i} ELSE success
  BY DEF SolutionIdxs
<1> HIDE DEF success
<1>4. CASE self /\ i \in success
  <2>1. SolutionIdxs(i) = {i}
    BY <1>3, <1>4
  <2>2. QED
    BY <1>1, <1>4, <2>1
<1>5. CASE ~(self /\ i \in success) /\ config.dontReprompt
  <2>1. SolutionIdxs(i) = success \ {i}
    BY <1>3, <1>5
  <2>2. QED
    BY <1>1, <1>2, <2>1
<1>6. CASE ~(self /\ i \in success) /\ ~config.dontReprompt
  <2>1. SolutionIdxs(i) = success
    BY <1>3, <1>6
  <2>2. QED
    BY <1>1, <1>2, <1>6, <2>1
<1>7. QED
  BY <1>4, <1>5, <1>6

\* The teacher is shown one of these answers, if there is one.
Shows(solution, i) ==
    /\ SolutionIdxs(i) = {} => solution[i] = None
    /\ SolutionIdxs(i) # {} => \E j \in SolutionIdxs(i) : solution[i] = batch.responses[j]

\* _get_solution chooses a successful answer to the same prompt, or none if there is none to choose.
LEMMA ChosenSolution ==
    ASSUME Faithful(batch), batch.token_level_scores = ScoresOf(batch),
           NEW idxs, idxs = Evaluated([i \in 1 .. BatchSize |-> Ascending(SolutionIdxs(i))]),
           NEW pick, pick \in [DOMAIN batch.uid -> 1 .. RolloutN],
           \A i \in DOMAIN batch.uid : pick[i] <= Max({1, Len(idxs[i])}),
           NEW i \in 1 .. BatchSize
    PROVE  Shows([j \in DOMAIN batch.uid |-> IF idxs[j] = <<>> THEN None ELSE batch.responses[idxs[j][pick[j]]]], i)
<1> DEFINE S == SolutionIdxs(i)
           s == Ascending(S)
           lists == [j \in 1 .. BatchSize |-> Ascending(SolutionIdxs(j))]
           solution == [j \in DOMAIN batch.uid |->
                          IF idxs[j] = <<>> THEN None ELSE batch.responses[idxs[j][pick[j]]]]
<1>1. DOMAIN batch.uid = 1 .. BatchSize
  BY DEF Faithful, WellFormed, Table
<1>2. S \in SUBSET (1 .. BatchSize)
  BY SolutionIs
<1> HIDE DEF S
<1>3. IsFiniteSet(S) /\ S \in SUBSET Int
  <2>1. IsFiniteSet(1 .. BatchSize) /\ BatchSize \in Nat
    BY BatchSizeIs, FS_Interval
  <2>2. IsFiniteSet(S)
    BY <1>2, <2>1, FS_Subset
  <2>3. QED
    BY <1>2, <2>2
<1>4. Cardinality(S) \in Nat /\ Enumerates(s, S)
  BY <1>3, AscendingIs
<1>5. idxs[i] = s
  <2>1. lists = [j \in 1 .. BatchSize |-> lists[j]] /\ lists[i] = s
    BY DEF S
  <2>2. idxs = Evaluated(lists)
    OBVIOUS
  <2> HIDE DEF lists, s
  <2>3. Evaluated(lists) = lists
    BY <2>1, BatchSizeIs, EvaluatedIs
  <2>4. QED
    BY <2>1, <2>2, <2>3
<1>6. solution[i] = IF s = <<>> THEN None ELSE batch.responses[s[pick[i]]]
  BY <1>1, <1>5
<1>7. pick[i] \in 1 .. RolloutN /\ pick[i] <= Max({1, Len(s)})
  BY <1>1, <1>5
<1> HIDE DEF s, solution
<1>8. CASE S = {}
  <2>1. Cardinality(S) = 0
    BY <1>8, FS_EmptySet
  <2>2. s = [k \in 1 .. 0 |-> s[k]]
    BY <1>4, <2>1 DEF Enumerates
  <2>3. s \in [1 .. 0 -> {}]
    BY <2>2
  <2>4. s \in Seq({}) /\ Len(s) = 0
    BY <2>3, FunctionIsSeq
  <2>5. s = <<>>
    BY <2>4
  <2>6. QED
    BY <1>6, <1>8, <2>5 DEF Shows, S, solution
<1>9. CASE S # {}
  <2> DEFINE l == Cardinality(S)
  <2>1. l # 0
    BY <1>3, <1>9, FS_EmptySet
  <2>2. Len(s) = l /\ l \in Nat \ {0} /\ \A k \in 1 .. l : s[k] \in S
    BY <1>4, <2>1 DEF Enumerates
  <2> HIDE DEF l
  <2>3. {1, Len(s)} \in SUBSET (1 .. l) /\ {1, Len(s)} # {}
    BY <2>2
  <2>4. Max({1, Len(s)}) \in {1, Len(s)}
    BY <2>2, <2>3, MaxIs
  <2>5. pick[i] \in 1 .. l
    BY <1>7, <2>2, <2>4, Positive
  <2>6. s[pick[i]] \in S
    BY <2>2, <2>5
  <2>7. s # <<>>
    BY <2>2
  <2>8. solution[i] = batch.responses[s[pick[i]]]
    BY <1>6, <2>7
  <2>9. QED
    BY <1>9, <2>6, <2>8 DEF Shows, S, solution
<1>10. QED
  BY <1>8, <1>9

\* That is all the teacher is shown.
LEMMA ShownContext ==
    ASSUME Faithful(batch), batch.token_level_scores = ScoresOf(batch), NEW solution,
           NEW i \in 1 .. BatchSize, Shows(solution, i),
           NEW data, data.responses = batch.responses,
           data.teacher_input_ids[i].context = solution[i],
           data.self_distillation_mask[i]
             = (IF solution[i] # None \/ data.teacher_input_ids[i].feedback THEN 1 ELSE 0)
    PROVE  Context(data, i)
<1> DEFINE r == batch.responses[i]
           s == solution[i]
<1>1. /\ batch.responses = [j \in 1 .. BatchSize |-> batch.responses[j]]
      /\ \A j \in 1 .. BatchSize : batch.responses[j] \in Response
      /\ \A j, k \in 1 .. BatchSize : batch.responses[j] = batch.responses[k] => j = k
  BY DEF Faithful, WellFormed, Table
<1>2. \A j \in 1 .. BatchSize : batch.responses[j] # None
  BY <1>1, ResponseIs
<1>3. s = None <=> SolutionIdxs(i) = {}
  BY <1>2, SolutionIs DEF Shows
<1>4. s # None => s \in ToSet(batch.responses) /\ s.prompt = r.prompt /\ s.score = 1
  <2>1. SUFFICES ASSUME s # None PROVE s \in ToSet(batch.responses) /\ s.prompt = r.prompt /\ s.score = 1
    OBVIOUS
  <2>2. PICK j \in SolutionIdxs(i) : s = batch.responses[j]
    BY <1>3, <2>1 DEF Shows
  <2>3. j \in 1 .. BatchSize /\ s.prompt = r.prompt /\ s.score = 1
    BY <2>2, SolutionIs
  <2>4. s \in ToSet(batch.responses)
    BY <1>1, <2>2, <2>3 DEF ToSet
  <2>5. QED
    BY <2>3, <2>4
<1>5. s = r => ~config.dontReprompt \/ (config.selfAsTeacher /\ config.estimator # "sdpo")
  <2>1. SUFFICES ASSUME s = r PROVE ~config.dontReprompt \/ (config.selfAsTeacher /\ config.estimator # "sdpo")
    OBVIOUS
  <2>2. PICK j \in SolutionIdxs(i) : s = batch.responses[j]
    BY <1>2, <1>3, <2>1 DEF Shows
  <2>3. j = i
    BY <1>1, <2>1, <2>2, SolutionIs
  <2>4. QED
    BY <2>2, <2>3, SolutionIs
<1>6. s = None => \A j \in 1 .. BatchSize :
         j # i /\ batch.responses[j].prompt = r.prompt => batch.responses[j].score = 0
  BY <1>3, SolutionIs
<1> HIDE DEF s
<1>7. data.teacher_input_ids[i].context = s
  BY DEF s
<1>8. data.self_distillation_mask[i] = (IF s # None \/ data.teacher_input_ids[i].feedback THEN 1 ELSE 0)
  BY DEF s
<1>9. data.self_distillation_mask[i] \in {0, 1}
      /\ (data.self_distillation_mask[i] = 1 <=> s # None \/ data.teacher_input_ids[i].feedback)
  BY <1>8
<1>10. QED
  BY <1>4, <1>5, <1>6, <1>7, <1>9 DEF Context

LEMMA DistillInvariant ==
    ASSUME BatchInvariant, BuildSelfDistillationBatch
    PROVE  BatchInvariant'
<1>1. /\ phase = "old_log_prob" /\ phase' = "distillation" /\ config' = config /\ config \in Configs
      /\ Faithful(batch) /\ Taught(batch)
      /\ "token_level_scores" \in DOMAIN batch /\ batch.token_level_scores = ScoresOf(batch)
      /\ config.estimator = "gae" => "values" \in DOMAIN batch
  BY DEF BuildSelfDistillationBatch, BatchInvariant, Present, Training
<1>2. CASE ~SelfDistillation
  <2>1. batch' = batch
    BY <1>2 DEF BuildSelfDistillationBatch
  <2>2. Faithful(batch') /\ Taught(batch)'
    BY <1>1, <2>1 DEF Taught, Context
  <2>3. Present'
    BY <1>1, <1>2, <2>1 DEF Present, Training, SelfDistillation
  <2>4. QED
    BY <1>1, <2>2, <2>3 DEF BatchInvariant, Training
<1>3. CASE SelfDistillation
  <2>1. PICK idxs \in {Evaluated([i \in 1 .. BatchSize |-> Ascending(SolutionIdxs(i))])} :
        \E pick \in [DOMAIN batch.uid -> 1 .. RolloutN] :
           /\ \A i \in DOMAIN batch.uid : pick[i] <= Max({1, Len(idxs[i])})
           /\ batch' = Merge(batch, SelfDistillationBatch([i \in DOMAIN batch.uid |->
                          IF idxs[i] = <<>> THEN None ELSE batch.responses[idxs[i][pick[i]]]]))
    BY <1>3 DEF BuildSelfDistillationBatch
  <2>2. PICK pick \in [DOMAIN batch.uid -> 1 .. RolloutN] :
           /\ \A i \in DOMAIN batch.uid : pick[i] <= Max({1, Len(idxs[i])})
           /\ batch' = Merge(batch, SelfDistillationBatch([i \in DOMAIN batch.uid |->
                          IF idxs[i] = <<>> THEN None ELSE batch.responses[idxs[i][pick[i]]]]))
    BY <2>1
  <2> DEFINE solution == [i \in DOMAIN batch.uid |->
                            IF idxs[i] = <<>> THEN None ELSE batch.responses[idxs[i][pick[i]]]]
             feedback == [i \in DOMAIN batch.uid |-> UsesFeedback(i, solution[i] # None)]
             ids == [i \in DOMAIN batch.uid |->
                       [context |-> solution[i], feedback |-> feedback[i], response |-> batch.responses[i]]]
             mask == [i \in DOMAIN batch.uid |-> IF solution[i] # None \/ feedback[i] THEN 1 ELSE 0]
             other == [teacher_input_ids |-> ids, self_distillation_mask |-> mask]
  <2>3. idxs = Evaluated([i \in 1 .. BatchSize |-> Ascending(SolutionIdxs(i))])
    OBVIOUS
  <2>4. \A i \in 1 .. BatchSize : Shows(solution, i)
    BY <1>1, <2>2, <2>3, ChosenSolution
  <2>5. DOMAIN batch.uid = 1 .. BatchSize
    BY <1>1 DEF Faithful, WellFormed, Table
  <2>6. batch' = Merge(batch, other)
    BY <2>2 DEF SelfDistillationBatch
  <2> HIDE DEF solution
  <2>7. /\ ids = [i \in 1 .. BatchSize |-> ids[i]] /\ mask = [i \in 1 .. BatchSize |-> mask[i]]
        /\ \A i \in 1 .. BatchSize :
             /\ ids[i].context = solution[i] /\ ids[i].response = batch.responses[i]
             /\ mask[i] = (IF solution[i] # None \/ ids[i].feedback THEN 1 ELSE 0)
    BY <2>5
  <2> HIDE DEF ids, mask, feedback
  <2>8. DOMAIN other = {"teacher_input_ids", "self_distillation_mask"} /\ other.teacher_input_ids = ids
        /\ other.self_distillation_mask = mask
    OBVIOUS
  <2> HIDE DEF other
  <2>9. Columns(other, batch)
    BY <2>7, <2>8 DEF Columns, Column, Asking
  <2>10. /\ Faithful(batch') /\ Extends(batch', batch, DOMAIN other)
         /\ \A c \in DOMAIN other : batch'[c] = other[c]
         /\ \A c \in Asking : batch'[c] = batch[c]
    BY <1>1, <2>6, <2>9, MergeFaithful
  <2>11. /\ batch'.responses = batch.responses /\ batch'.teacher_input_ids = ids
         /\ batch'.self_distillation_mask = mask
         /\ {"teacher_input_ids", "self_distillation_mask", "token_level_scores"} \subseteq DOMAIN batch'
         /\ batch'.token_level_scores = batch.token_level_scores
         /\ "values" \in DOMAIN batch => "values" \in DOMAIN batch'
    BY <1>1, <2>8, <2>10 DEF Extends, Asking
  <2>12. ASSUME NEW i \in 1 .. BatchSize PROVE Context(batch', i)
    <3> DEFINE new == batch'
    <3>1. new.responses = batch.responses /\ new.teacher_input_ids = ids /\ new.self_distillation_mask = mask
      BY <2>11
    <3> HIDE DEF new
    <3>2. new.teacher_input_ids[i].context = solution[i]
          /\ new.self_distillation_mask[i]
               = (IF solution[i] # None \/ new.teacher_input_ids[i].feedback THEN 1 ELSE 0)
      BY <2>7, <3>1
    <3>3. Context(new, i)
      BY <1>1, <2>4, <3>1, <3>2, ShownContext
    <3>4. QED
      BY <3>3 DEF new
  <2>13. Taught(batch)'
    BY <1>1, <2>11, <2>12 DEF Taught, Context
  <2>14. ScoresOf(batch') = ScoresOf(batch)
    BY <2>11 DEF ScoresOf
  <2>15. Present'
    BY <1>1, <2>11, <2>14 DEF Present, Training, SelfDistillation
  <2>16. QED
    BY <1>1, <2>10, <2>13, <2>15 DEF BatchInvariant, Training
<1>4. QED
  BY <1>2, <1>3

LEMMA TeacherInvariant ==
    ASSUME BatchInvariant, TeacherLogProbs
    PROVE  BatchInvariant'
<1> DEFINE kept == DOMAIN batch \ (IF config.estimator = "sdpo" THEN {"teacher_input_ids"} ELSE {})
           column == Compute(batch, "teacher_input_ids", FALSE)
           other == [teacher_log_probs |-> column]
           first == [c \in kept |-> batch[c]]
<1>1. /\ phase \in {"distillation", "advantages"}
      /\ phase = "distillation" => config.estimator \in {"tasd", "sequence"}
      /\ phase = "advantages" => config.estimator = "sdpo"
      /\ batch' = Merge(first, other)
      /\ phase' = IF config.estimator = "sdpo" THEN "ready" ELSE "judged"
      /\ config' = config
  BY DEF TeacherLogProbs
<1>2. /\ config \in Configs /\ Faithful(batch) /\ Taught(batch) /\ "teacher_input_ids" \in DOMAIN batch
      /\ "token_level_scores" \in DOMAIN batch /\ batch.token_level_scores = ScoresOf(batch)
  BY <1>1 DEF BatchInvariant, Present, Training, SelfDistillation
<1>3. column = batch.teacher_input_ids
  BY <1>2, FaithfulComputes
<1> HIDE DEF column
<1>4. DOMAIN other = {"teacher_log_probs"} /\ other.teacher_log_probs = column
  OBVIOUS
<1> HIDE DEF other
<1>5. Column("teacher_input_ids", batch.teacher_input_ids, batch.responses)
  BY <1>2 DEF Faithful, Asking
<1>6. /\ kept \in SUBSET DOMAIN batch /\ Asking \subseteq kept
      /\ "token_level_scores" \in kept
      /\ config.estimator # "sdpo" => kept = DOMAIN batch
      /\ config.estimator = "sdpo" => kept = DOMAIN batch \ {"teacher_input_ids"}
  BY <1>2 DEF Asking, Faithful, WellFormed
<1> HIDE DEF kept
<1>7. Faithful(first) /\ DOMAIN first = kept /\ \A c \in kept : first[c] = batch[c]
  BY <1>2, <1>6, RestrictFaithful
<1> HIDE DEF first
<1>8. Columns(other, first)
  BY <1>3, <1>4, <1>5, <1>6, <1>7 DEF Columns, Column, Asking
<1>9. /\ Faithful(batch') /\ Extends(batch', first, DOMAIN other)
      /\ \A c \in DOMAIN other : batch'[c] = other[c]
      /\ \A c \in Asking : batch'[c] = first[c]
  BY <1>1, <1>7, <1>8, MergeFaithful
<1>10. /\ batch'.responses = batch.responses /\ DOMAIN batch' = kept \cup {"teacher_log_probs"}
       /\ batch'.teacher_log_probs = batch.teacher_input_ids
       /\ \A c \in kept : c # "teacher_log_probs" => batch'[c] = batch[c]
  BY <1>3, <1>4, <1>6, <1>7, <1>9 DEF Extends, Asking
<1>11. ScoresOf(batch') = ScoresOf(batch)
  BY <1>10 DEF ScoresOf
<1>12. "token_level_scores" \in DOMAIN batch' /\ batch'.token_level_scores = ScoresOf(batch')
  BY <1>2, <1>6, <1>10, <1>11
<1>13. CASE config.estimator = "sdpo"
  <2>1. phase' = "ready" /\ "teacher_input_ids" \notin DOMAIN batch'
    BY <1>1, <1>6, <1>10, <1>13
  <2>2. Taught(batch)'
    BY <2>1 DEF Taught
  <2>3. Present'
    BY <1>1, <1>12, <1>13, <2>1 DEF Present, Training
  <2>4. QED
    BY <1>1, <1>2, <1>9, <2>1, <2>2, <2>3 DEF BatchInvariant, Training
<1>14. CASE config.estimator # "sdpo"
  <2>1. phase' = "judged" /\ config.estimator \in {"tasd", "sequence"}
    BY <1>1, <1>14
  <2>2. "self_distillation_mask" \in DOMAIN batch
    BY <1>2 DEF Taught
  <2>3. /\ {"teacher_input_ids", "self_distillation_mask"} \subseteq DOMAIN batch'
        /\ batch'.teacher_input_ids = batch.teacher_input_ids
        /\ batch'.self_distillation_mask = batch.self_distillation_mask
    BY <1>2, <1>6, <1>10, <1>14, <2>2
  <2>4. Taught(batch)'
    BY <1>1, <1>2, <1>10, <2>3 DEF Taught, Context
  <2>5. Present'
    BY <1>1, <1>10, <1>12, <2>1, <2>3 DEF Present, Training, SelfDistillation
  <2>6. QED
    BY <1>1, <1>2, <1>9, <2>1, <2>4, <2>5 DEF BatchInvariant, Training
<1>15. QED
  BY <1>13, <1>14

-----------------------------------------------------------------------------
(* The other steps *)

\* The rewards have a row for each response.
LEMMA RewardRows ==
    ASSUME config \in Configs, Faithful(batch), batch.token_level_scores = ScoresOf(batch)
    PROVE  TokenLevelRewards = [i \in 1 .. BatchSize |-> TokenLevelRewards[i]]
<1>1. DOMAIN batch.responses = 1 .. BatchSize
  BY DEF Faithful, WellFormed, Table
<1>2. DOMAIN Masks = 1 .. BatchSize
  BY <1>1 DEF Masks
<1>3. CASE config.estimator = "tasd"
  <2>1. TokenLevelRewards = TokenRewards(Judgements, Masks)
    BY <1>3 DEF TokenLevelRewards
  <2>2. QED
    BY <1>2, <2>1 DEF TokenRewards
<1>4. CASE config.estimator = "sequence"
  <2>1. TokenLevelRewards = SequenceRewards(Judgements, Masks)
    BY <1>4 DEF TokenLevelRewards
  <2>2. SequenceRewards(Judgements, Masks) = [i \in DOMAIN Masks |-> SequenceRewards(Judgements, Masks)[i]]
    BY DEF SequenceRewards
  <2>3. QED
    BY <1>2, <2>1, <2>2
<1>5. CASE config.estimator \notin {"tasd", "sequence"}
  <2>1. TokenLevelRewards = batch.token_level_scores
    BY <1>5 DEF TokenLevelRewards
  <2>2. QED
    BY <2>1 DEF ScoresOf
<1>6. QED
  BY <1>3, <1>4, <1>5

\* What ComputeAdvantage gives.
EstimatorAdvantages(rewards) ==
    CASE config.estimator = "gae" ->
           [i \in DOMAIN batch.uid |-> GaeAdvantage(rewards[i], Values[i], Masks[i], Gamma, Lam)]
      [] config.estimator = "tasd" ->
           TasdAdvantage(rewards, Masks, batch.self_distillation_mask, batch.uid)
      [] OTHER -> GrpoOutcomeAdvantage(rewards, Masks, batch.uid)

\* So have the advantages.
LEMMA AdvantageRows ==
    ASSUME config \in Configs, Faithful(batch), NEW rewards, NEW advantages, advantages = EstimatorAdvantages(rewards)
    PROVE  advantages = [i \in 1 .. BatchSize |-> advantages[i]]
<1>1. DOMAIN batch.uid = 1 .. BatchSize
  BY DEF Faithful, WellFormed, Table
<1>2. CASE config.estimator = "gae"
  <2>1. advantages = [i \in DOMAIN batch.uid |-> GaeAdvantage(rewards[i], Values[i], Masks[i], Gamma, Lam)]
    BY <1>2 DEF EstimatorAdvantages
  <2>2. QED
    BY <1>1, <2>1
<1>3. CASE config.estimator = "tasd"
  <2>1. advantages = TasdAdvantage(rewards, Masks, batch.self_distillation_mask, batch.uid)
    BY <1>3 DEF EstimatorAdvantages
  <2> DEFINE made == TasdAdvantage(rewards, Masks, batch.self_distillation_mask, batch.uid)
  <2>2. made = [i \in DOMAIN batch.uid |-> made[i]]
    BY DEF TasdAdvantage
  <2> HIDE DEF made
  <2>3. QED
    BY <1>1, <2>1, <2>2 DEF made
<1>4. CASE config.estimator \notin {"gae", "tasd"}
  <2>1. advantages = GrpoOutcomeAdvantage(rewards, Masks, batch.uid)
    BY <1>4 DEF EstimatorAdvantages
  <2> DEFINE made == GrpoOutcomeAdvantage(rewards, Masks, batch.uid)
  <2>2. made = [i \in DOMAIN batch.uid |-> made[i]]
    BY DEF GrpoOutcomeAdvantage
  <2> HIDE DEF made
  <2>3. QED
    BY <1>1, <2>1, <2>2 DEF made
<1>5. QED
  BY <1>2, <1>3, <1>4

\* ComputeAdvantage adds two columns, and changes no other.
LEMMA AdvantageColumns ==
    ASSUME BatchInvariant, ComputeAdvantage
    PROVE  /\ Faithful(batch') /\ DOMAIN batch' = DOMAIN batch \cup {"token_level_rewards", "advantages"}
           /\ \A c \in DOMAIN batch \ {"token_level_rewards", "advantages"} : batch'[c] = batch[c]
           /\ batch'.token_level_rewards = TokenLevelRewards
           /\ batch'.advantages = EstimatorAdvantages(TokenLevelRewards)
<1> DEFINE rewards == TokenLevelRewards
           advantages == EstimatorAdvantages(rewards)
           other == [token_level_rewards |-> rewards, advantages |-> advantages]
<1>1. /\ config \in Configs /\ Faithful(batch) /\ batch.token_level_scores = ScoresOf(batch)
      /\ batch' = Merge(batch, other)
  BY DEF ComputeAdvantage, EstimatorAdvantages, BatchInvariant, Present, Training
<1>2. rewards = [i \in 1 .. BatchSize |-> rewards[i]]
  BY <1>1, RewardRows
<1> HIDE DEF rewards
<1>3. advantages = [i \in 1 .. BatchSize |-> advantages[i]]
  BY <1>1, AdvantageRows
<1> HIDE DEF advantages
<1>4. DOMAIN other = {"token_level_rewards", "advantages"} /\ other.token_level_rewards = rewards
      /\ other.advantages = advantages
  OBVIOUS
<1> HIDE DEF other
<1>5. Columns(other, batch)
  BY <1>2, <1>3, <1>4 DEF Columns, Column, Asking
<1>6. /\ Faithful(batch') /\ Extends(batch', batch, DOMAIN other)
      /\ \A c \in DOMAIN other : batch'[c] = other[c]
  BY <1>1, <1>5, MergeFaithful
<1>7. QED
  BY <1>4, <1>6 DEF Extends, rewards, advantages

LEMMA AdvantageInvariant ==
    ASSUME BatchInvariant, ComputeAdvantage
    PROVE  BatchInvariant'
<1>1. /\ phase \in {"distillation", "judged"} /\ config' = config /\ config \in Configs
      /\ phase = IF config.estimator \in {"tasd", "sequence"} THEN "judged" ELSE "distillation"
      /\ phase' = IF config.estimator = "sdpo" THEN "advantages" ELSE "ready"
      /\ Faithful(batch) /\ Taught(batch)
      /\ "token_level_scores" \in DOMAIN batch /\ batch.token_level_scores = ScoresOf(batch)
      /\ config.estimator = "gae" => "values" \in DOMAIN batch
      /\ config.estimator = "sdpo" => "teacher_input_ids" \in DOMAIN batch
  BY DEF ComputeAdvantage, BatchInvariant, Present, Training, SelfDistillation
<1>2. Faithful(batch') /\ DOMAIN batch' = DOMAIN batch \cup {"token_level_rewards", "advantages"}
      /\ \A c \in DOMAIN batch \ {"token_level_rewards", "advantages"} : batch'[c] = batch[c]
  BY AdvantageColumns
<1>3. /\ batch'.responses = batch.responses /\ "token_level_scores" \in DOMAIN batch'
      /\ batch'.token_level_scores = batch.token_level_scores
      /\ "teacher_input_ids" \in DOMAIN batch' <=> "teacher_input_ids" \in DOMAIN batch
      /\ \A c \in {"teacher_input_ids", "self_distillation_mask"} :
            c \in DOMAIN batch => c \in DOMAIN batch' /\ batch'[c] = batch[c]
      /\ "values" \in DOMAIN batch => "values" \in DOMAIN batch'
  BY <1>1, <1>2 DEF Faithful, WellFormed
<1>4. Taught(batch)'
  BY <1>1, <1>3 DEF Taught, Context
<1>5. ScoresOf(batch') = ScoresOf(batch)
  BY <1>3 DEF ScoresOf
<1>6. Present'
  BY <1>1, <1>3, <1>5 DEF Present, Training
<1>7. QED
  BY <1>1, <1>2, <1>4, <1>6 DEF BatchInvariant, Training

LEMMA UpdateInvariant ==
    ASSUME BatchInvariant, UpdateActor
    PROVE  BatchInvariant'
<1>1. /\ phase = "ready" /\ phase' = "updated" /\ config' = config /\ batch' = batch
      /\ config \in Configs /\ Faithful(batch) /\ Taught(batch)
      /\ "token_level_scores" \in DOMAIN batch /\ batch.token_level_scores = ScoresOf(batch)
      /\ config.estimator = "gae" => "values" \in DOMAIN batch
  BY DEF UpdateActor, BatchInvariant, Present, Training
<1>2. Faithful(batch') /\ Taught(batch)'
  BY <1>1 DEF Taught, Context
<1>3. Present'
  BY <1>1 DEF Present, Training
<1>4. QED
  BY <1>1, <1>2, <1>3 DEF BatchInvariant, Training

LEMMA ValidateInvariant ==
    ASSUME BatchInvariant, Validate
    PROVE  BatchInvariant'
<1> DEFINE test == Repeat(PromptBatch(ValPrompts), ValN)
<1>1. PICK draw \in [1 .. (ValPrompts * ValN + PadSize(test, NumWorkers)) -> Draws] :
        batch' = Merge(test, Unpad(GenerateSequences(PadToDivisor(test, NumWorkers), draw),
                                   PadSize(test, NumWorkers)))
  BY DEF Validate
<1>2. phase = "idle" /\ phase' = "validated" /\ config' = config /\ config \in Configs
  BY DEF Validate, BatchInvariant
<1>3. Validated(batch')
  BY <1>1, ValidatedBatch DEF Validated, Asking
<1>4. Validated(batch)'
  BY <1>3 DEF Validated
<1>5. Present'
  BY <1>2 DEF Present, Training
<1>6. QED
  BY <1>2, <1>4, <1>5 DEF BatchInvariant, Training

LEMMA NextBatchInvariant ==
    ASSUME BatchInvariant, NextBatch
    PROVE  BatchInvariant'
BY DEF NextBatch, BatchInvariant, Present, Training

\* Every step preserves the invariant of the batch.
LEMMA BatchStep ==
    ASSUME BatchInvariant, [Next]_vars
    PROVE  BatchInvariant'
<1>1. CASE Next
  BY <1>1, GenerateInvariant, BalanceInvariant, ScoreInvariant, OldLogProbInvariant, DistillInvariant,
     TeacherInvariant, AdvantageInvariant, UpdateInvariant, ValidateInvariant, NextBatchInvariant DEF Next
<1>2. CASE UNCHANGED vars
  <2>1. config' = config /\ phase' = phase /\ batch' = batch
    BY <1>2 DEF vars
  <2>2. Present' <=> Present
    BY <2>1 DEF Present, SelfDistillation
  <2>3. Taught(batch)' <=> Taught(batch)
    BY <2>1 DEF Taught, Context
  <2>4. Validated(batch)' <=> Validated(batch)
    BY <2>1 DEF Validated
  <2>5. QED
    BY <2>1, <2>2, <2>3, <2>4 DEF BatchInvariant
<1>3. QED
  BY <1>1, <1>2

\* The invariant of the batch.
LEMMA BatchInvariantHolds == Spec => []BatchInvariant
<1>1. Init => BatchInvariant
  BY InitInvariant
<1>2. BatchInvariant /\ [Next]_vars => BatchInvariant'
  BY BatchStep
<1>3. QED
  BY <1>1, <1>2, PTL DEF Spec

-----------------------------------------------------------------------------
(* What the invariant says of a row *)

\* It implies that the rows are aligned,
LEMMA AlignedRows ==
    ASSUME BatchInvariant
    PROVE  RowsAligned
<1>1. ASSUME phase # "idle", NEW c \in DOMAIN batch, NEW i \in DOMAIN batch.responses
      PROVE  CASE c \in {"uid", "raw_prompt"}                      -> batch[c][i] = batch.responses[i].prompt
               [] c \in {"old_log_probs", "values"}                -> batch[c][i] = batch.responses[i]
               [] c \in {"teacher_input_ids", "teacher_log_probs"} -> batch[c][i].response = batch.responses[i]
               [] OTHER                                            -> Len(batch[c]) = Len(batch.responses)
  <2>1. PICK n \in Nat : WellFormed(batch, n) /\ (c \notin Asking => n = BatchSize)
    <3>1. CASE phase \in Training
      BY <3>1, BatchSizeIs DEF BatchInvariant, Faithful
    <3>2. CASE phase = "validated"
      <4>1. ValN * ValPrompts \in Nat
        BY Positive
      <4>2. QED
        BY <3>2, <4>1 DEF BatchInvariant, Validated
    <3>3. QED
      BY <1>1, <3>1, <3>2 DEF BatchInvariant
  <2>2. /\ {"uid", "raw_prompt", "responses"} \subseteq DOMAIN batch
        /\ \A a \in DOMAIN batch : batch[a] = [j \in 1 .. n |-> batch[a][j]]
        /\ \A j \in 1 .. n : /\ batch.uid[j] = batch.responses[j].prompt
                             /\ batch.raw_prompt[j] = batch.responses[j].prompt
    BY <2>1 DEF WellFormed, Table
  <2>3. i \in 1 .. n
    <3>1. batch.responses = [j \in 1 .. n |-> batch.responses[j]]
      BY <2>2
    <3>2. DOMAIN batch.responses = 1 .. n
      BY <3>1
    <3>3. QED
      BY <1>1, <3>2
  <2>4. CASE c \in {"uid", "raw_prompt"}
    BY <2>2, <2>3, <2>4
  <2>5. CASE c = "responses"
    BY <2>5
  <2>6. CASE c \notin Asking
    <3>1. Column(c, batch[c], batch.responses) /\ n = BatchSize
      BY <1>1, <2>1, <2>6 DEF BatchInvariant, Faithful, Validated
    <3>2. CASE c \in {"old_log_probs", "values"}
      BY <3>1, <3>2 DEF Column
    <3>3. CASE c \in {"teacher_input_ids", "teacher_log_probs"}
      BY <2>3, <3>1, <3>3 DEF Column
    <3>4. CASE c \notin {"old_log_probs", "values", "teacher_input_ids", "teacher_log_probs"}
      <4>1. batch[c] = [j \in 1 .. n |-> batch[c][j]] /\ batch.responses = [j \in 1 .. n |-> batch.responses[j]]
        BY <2>2
      <4>2. Len(batch[c]) = n /\ Len(batch.responses) = n
        BY <2>1, <4>1, EvaluatedIs
      <4>3. c \notin {"uid", "raw_prompt"}
        BY <2>6 DEF Asking
      <4>4. QED
        BY <3>4, <4>2, <4>3
    <3>5. QED
      BY <3>2, <3>3, <3>4
  <2>7. QED
    BY <2>4, <2>5, <2>6 DEF Asking
<1>2. phase = "validated" =>
        [i \in DOMAIN batch.responses |-> batch.responses[i].prompt] = Repeat(PromptBatch(ValPrompts), ValN).uid
  BY DEF BatchInvariant, Validated
<1>3. QED
  BY <1>1, <1>2 DEF RowsAligned

\* Everything in a row belongs to its response, however the rows were reordered,
\* dispatched, packed in micro-batches and padded; a validation batch has one answer
\* to each row that was asked.
THEOREM RowsStayAligned == Spec => []RowsAligned
<1>1. BatchInvariant => RowsAligned
  BY AlignedRows
<1>2. QED
  BY <1>1, BatchInvariantHolds, PTL

\* and that the teacher has the right context.
LEMMA RightContext ==
    ASSUME BatchInvariant
    PROVE  TeacherContext
<1>1. SUFFICES ASSUME "teacher_input_ids" \in DOMAIN batch, NEW i \in Rows
               PROVE  LET r == batch.responses[i]
                          s == batch.teacher_input_ids[i].context
                      IN  /\ s # None => s \in ToSet(batch.responses) /\ s.prompt = r.prompt /\ s.score = 1
                          /\ s = r => ~config.dontReprompt \/ (config.selfAsTeacher /\ config.estimator # "sdpo")
                          /\ s = None => \A j \in Peers(i) \ {i} : batch.responses[j].score = 0
                          /\ batch.self_distillation_mask[i] = 1 <=>
                               s # None \/ batch.teacher_input_ids[i].feedback
  BY DEF TeacherContext
<1>2. phase \in Training
  <2>1. CASE phase = "idle"
    <3>1. batch = <<>>
      BY <2>1 DEF BatchInvariant
    <3>2. QED
      BY <1>1, <3>1
  <2>2. CASE phase = "validated"
    BY <1>1, <2>2 DEF BatchInvariant, Validated, Asking
  <2>3. QED
    BY <2>1, <2>2 DEF BatchInvariant
<1>3. Rows = 1 .. BatchSize
  BY <1>2 DEF BatchInvariant, Faithful, WellFormed, Table, Rows
<1>4. Context(batch, i)
  BY <1>1, <1>2, <1>3 DEF BatchInvariant, Taught
<1>5. Peers(i) \ {i} = {j \in 1 .. BatchSize : j # i /\ batch.responses[j].prompt = batch.responses[i].prompt}
  BY <1>3 DEF Peers
<1>6. QED
  BY <1>4, <1>5 DEF Context

\* The teacher is shown a successful answer to the same prompt or none, never the one
\* it judges with dont_reprompt_on_self_success unless TASD asks for that; a row is
\* distilled if and only if the teacher knows more than the student.
THEOREM TeacherKnowsMore == Spec => []TeacherContext
<1>1. BatchInvariant => TeacherContext
  BY RightContext
<1>2. QED
  BY <1>1, BatchInvariantHolds, PTL

-----------------------------------------------------------------------------
(* Forward passes and training *)

Forwards(passes) == \E m \in Nat : \A g \in Ranks : passes[g] \in [1 .. m -> Nat \ {0}]

\* Ranks with the same number of micro-batches run the same number of forward passes.
LEMMA NumbersAre ==
    ASSUME NEW micros, NEW n \in Nat \ {0}, NEW dynamic \in BOOLEAN, \E m : MicrosOk(micros, m, n, dynamic)
    PROVE  Forwards(Numbers(micros))
<1>1. PICK m : MicrosOk(micros, m, n, dynamic)
  OBVIOUS
<1>2. ASSUME NEW g \in Ranks PROVE Numbers(micros)[g] \in [1 .. m -> Nat \ {0}]
  <2>1. Shares(micros[g], m, 1 .. n)
    BY <1>1 DEF MicrosOk
  <2>2. micros[g] \in [1 .. m -> Seq(1 .. n)] /\ \A k \in 1 .. m : Len(micros[g][k]) > 0
    BY <2>1 DEF Shares, Partitions
  <2>3. Numbers(micros)[g] = [k \in 1 .. m |-> Len(micros[g][k])]
    BY <2>2 DEF Numbers
  <2>4. \A k \in 1 .. m : Len(micros[g][k]) \in Nat \ {0}
    <3>1. SUFFICES ASSUME NEW k \in 1 .. m PROVE Len(micros[g][k]) \in Nat \ {0}
      OBVIOUS
    <3>2. micros[g][k] \in Seq(1 .. n)
      BY <2>2
    <3>3. Len(micros[g][k]) \in Nat
      BY <3>2
    <3>4. QED
      BY <2>2, <3>3
  <2>5. QED
    BY <2>3, <2>4
<1>3. m \in Nat
  BY <1>1 DEF MicrosOk
<1>4. QED
  BY <1>2, <1>3 DEF Forwards

\* So they do when they compute a column of a faithful batch.
LEMMA FaithfulForwards ==
    ASSUME NEW data, Faithful(data), NEW dynamic \in BOOLEAN
    PROVE  Forwards(Numbers(MicroBatches(Dispatch(data), dynamic)))
<1>1. Locals(Dispatch(data), Share)
  BY WellFormedSendable, DispatchLocals DEF Faithful
<1>2. Share \in Nat \ {0}
  BY ShareIs
<1>3. \E m : MicrosOk(MicroBatches(Dispatch(data), dynamic), m, Share, dynamic)
  BY <1>1, <1>2, MicroBatchesIs
<1>4. QED
  BY <1>2, <1>3, NumbersAre

\* Ranks with the same rows make the same micro-batches of them.
LEMMA MicrosAgree ==
    ASSUME NEW locals, NEW dynamic, NEW g \in Ranks, NEW h \in Ranks, locals[g] = locals[h]
    PROVE  MicroBatches(locals, dynamic)[g] = MicroBatches(locals, dynamic)[h]
BY DEF MicroBatches

\* Every rank trains its share of these responses: in the mini-batches that pieces
\* says, each in the micro-batches that micros says.
Trains(passes, responses, dynamic, K, pieces, micros) ==
    /\ K \in Nat \ {0} /\ Shares(pieces, K, 1 .. Share)
    /\ \A k \in 1 .. K : \E m : MicrosOk(micros[k], m, Len(pieces[k]), dynamic)
    /\ \A k \in 1 .. K : \A g, h \in Ranks : DpRank(g) = DpRank(h) => micros[k][g] = micros[k][h]
    /\ \A g \in Ranks : passes[g] = [k \in 1 .. K |-> [m \in DOMAIN micros[k][g] |->
          [i \in DOMAIN micros[k][g][m] |-> responses[DpRank(g) * Share + pieces[k][micros[k][g][m][i]]]]]]

\* What update_policy trains: the micro-batches of the mini-batches of what was dispatched.
LEMMA UpdateTrains ==
    ASSUME BatchInvariant, UpdateActor
    PROVE  \E K, pieces, micros : Trains(trained', batch.responses, config.dynamic, K, pieces, micros)
<1> DEFINE locals == Dispatch(batch)
           L == LocalMiniBatchSize(config)
           minis == [g \in Ranks |-> Split(locals[g], L)]
           pieces == Pieces(Share, L)
           ours(k) == [g \in Ranks |-> minis[g][k]]
           responses == batch.responses
<1>1. /\ Faithful(batch) /\ config.dynamic \in BOOLEAN /\ L \in Nat \ {0}
      /\ trained' = [g \in Ranks |-> [k \in DOMAIN minis[g] |->
            [m \in DOMAIN MicroBatches(ours(k), config.dynamic)[g] |->
               [i \in DOMAIN MicroBatches(ours(k), config.dynamic)[g][m] |->
                  minis[g][k].responses[MicroBatches(ours(k), config.dynamic)[g][m][i]]]]]]
  BY ConfigIs DEF BatchInvariant, Training, UpdateActor
<1>2. Sendable(batch) /\ Share \in Nat \ {0}
  BY <1>1, WellFormedSendable, ShareIs DEF Faithful
<1>3. /\ Locals(locals, Share)
      /\ \A g \in Ranks : /\ DOMAIN locals[g] = DOMAIN batch /\ "responses" \in DOMAIN batch
                          /\ locals[g].responses = [i \in 1 .. Share |-> responses[DpRank(g) * Share + i]]
  BY <1>2, DispatchLocals DEF Sendable
<1>4. \A g, h \in Ranks : DpRank(g) = DpRank(h) => locals[g] = locals[h]
  BY DEF Dispatch
<1> HIDE DEF L, locals, responses
<1>5. PICK K \in Nat \ {0} : Shares(pieces, K, 1 .. Share)
  BY <1>1, <1>2, PiecesIs
<1>6. pieces \in [1 .. K -> Seq(1 .. Share)] /\ DOMAIN pieces = 1 .. K
  BY <1>5 DEF Shares, Partitions
<1> HIDE DEF pieces
<1>7. ASSUME NEW g \in Ranks PROVE minis[g] = [k \in 1 .. K |-> SelectIdxs(locals[g], pieces[k])]
  <2>1. Table(locals[g], Share)
    BY <1>3 DEF Locals
  <2>2. NumRows(locals[g]) = Share
    BY <1>2, <2>1, NumRowsIs
  <2>3. Split(locals[g], L) = [k \in DOMAIN pieces |-> SelectIdxs(locals[g], pieces[k])]
    BY <2>2 DEF Split, pieces
  <2>4. QED
    BY <1>6, <2>3
<1>8. ASSUME NEW g \in Ranks, NEW k \in 1 .. K
      PROVE  /\ Len(pieces[k]) \in Nat \ {0} /\ Table(minis[g][k], Len(pieces[k]))
             /\ "responses" \in DOMAIN minis[g][k]
             /\ minis[g][k].responses = [i \in 1 .. Len(pieces[k]) |-> responses[DpRank(g) * Share + pieces[k][i]]]
             /\ \A i \in 1 .. Len(pieces[k]) : Len(minis[g][k].responses[i].tokens) \in Nat
  <2> DEFINE piece == pieces[k]
             mini == minis[g][k]
  <2>1. piece \in Seq(1 .. Share) /\ Len(piece) \in Nat \ {0} /\ DOMAIN piece = 1 .. Len(piece)
    <3>1. piece \in Seq(1 .. Share)
      BY <1>6
    <3>2. Len(piece) > 0
      BY <1>5 DEF Shares
    <3> HIDE DEF piece
    <3>3. QED
      BY <3>1, <3>2
  <2>2. \A i \in 1 .. Len(piece) : piece[i] \in 1 .. Share
    <3> HIDE DEF piece
    <3>1. QED
      BY <2>1, SeqIsFunction
  <2>3. mini = SelectIdxs(locals[g], piece)
    BY <1>7
  <2> HIDE DEF piece, mini
  <2>4. DOMAIN mini = DOMAIN batch /\ \A c \in DOMAIN batch : mini[c] = [i \in 1 .. Len(piece) |-> locals[g][c][piece[i]]]
    BY <1>3, <2>1, <2>3 DEF SelectIdxs
  <2>5. Table(mini, Len(piece))
    BY <1>3, <2>4 DEF Table
  <2>6. ASSUME NEW i \in 1 .. Len(piece)
        PROVE  locals[g].responses[piece[i]] = responses[DpRank(g) * Share + piece[i]]
    <3>1. locals[g].responses = [j \in 1 .. Share |-> responses[DpRank(g) * Share + j]]
      BY <1>3
    <3>2. QED
      BY <2>2, <3>1
  <2>7. mini.responses = [i \in 1 .. Len(piece) |-> locals[g].responses[piece[i]]]
    BY <1>3, <2>4
  <2>8. mini.responses = [i \in 1 .. Len(piece) |-> responses[DpRank(g) * Share + piece[i]]]
    BY <2>6, <2>7
  <2>9. \A i \in 1 .. Len(piece) : Len(mini.responses[i].tokens) \in Nat
    <3>1. \A j \in 1 .. Share : Len(locals[g].responses[j].tokens) \in Nat
      BY <1>3 DEF Locals
    <3>2. QED
      BY <2>2, <2>7, <3>1
  <2>10. QED
    BY <1>3, <2>1, <2>4, <2>5, <2>8, <2>9 DEF piece, mini
<1> DEFINE micros == [k \in 1 .. K |-> MicroBatches(ours(k), config.dynamic)]
<1>9. ASSUME NEW k \in 1 .. K PROVE \E m : MicrosOk(micros[k], m, Len(pieces[k]), config.dynamic)
  <2> DEFINE mine == ours(k)
             n == Len(pieces[k])
  <2>1. \A g \in Ranks : mine[g] = minis[g][k]
    OBVIOUS
  <2>2. micros[k] = MicroBatches(mine, config.dynamic)
    OBVIOUS
  <2>3. n \in Nat \ {0}
    <3>1. PICK g : g \in Ranks
      <4>1. 0 \in 0 .. DpSize - 1
        BY Positive
      <4>2. QED
        BY <4>1, RankIs
    <3>2. QED
      BY <1>8, <3>1
  <2>4. Locals(mine, n)
    BY <1>8 DEF Locals
  <2> HIDE DEF mine, n, micros
  <2>5. \E m : MicrosOk(MicroBatches(mine, config.dynamic), m, n, config.dynamic)
    BY <1>1, <2>3, <2>4, MicroBatchesIs
  <2>6. QED
    BY <2>2, <2>5 DEF n
<1>10. ASSUME NEW k \in 1 .. K, NEW g \in Ranks, NEW h \in Ranks, DpRank(g) = DpRank(h)
       PROVE  micros[k][g] = micros[k][h]
  <2>1. ours(k)[g] = ours(k)[h]
    BY <1>4, <1>7, <1>10
  <2> DEFINE mine == ours(k)
  <2>2. micros[k] = MicroBatches(mine, config.dynamic) /\ mine[g] = mine[h]
    BY <2>1
  <2> HIDE DEF mine, micros
  <2>3. QED
    BY <2>2, MicrosAgree
<1>11. ASSUME NEW g \in Ranks
       PROVE  trained'[g] = [k \in 1 .. K |-> [m \in DOMAIN micros[k][g] |-> [i \in DOMAIN micros[k][g][m] |->
                 responses[DpRank(g) * Share + pieces[k][micros[k][g][m][i]]]]]]
  <2>1. trained'[g] = [k \in 1 .. K |-> [m \in DOMAIN micros[k][g] |-> [i \in DOMAIN micros[k][g][m] |->
                 minis[g][k].responses[micros[k][g][m][i]]]]]
    BY <1>1, <1>7
  <2> HIDE DEF micros
  <2>2. ASSUME NEW k \in 1 .. K, NEW m \in DOMAIN micros[k][g], NEW i \in DOMAIN micros[k][g][m]
        PROVE  minis[g][k].responses[micros[k][g][m][i]] = responses[DpRank(g) * Share + pieces[k][micros[k][g][m][i]]]
    <3>1. PICK most : MicrosOk(micros[k], most, Len(pieces[k]), config.dynamic)
      BY <1>9
    <3>2. Shares(micros[k][g], most, 1 .. Len(pieces[k]))
      BY <3>1 DEF MicrosOk
    <3>3. micros[k][g] \in [1 .. most -> Seq(1 .. Len(pieces[k]))]
      BY <3>2 DEF Shares, Partitions
    <3>4. micros[k][g][m] \in Seq(1 .. Len(pieces[k]))
      BY <3>3
    <3>5. micros[k][g][m][i] \in 1 .. Len(pieces[k])
      BY <3>4
    <3>6. minis[g][k].responses = [j \in 1 .. Len(pieces[k]) |-> responses[DpRank(g) * Share + pieces[k][j]]]
      BY <1>8
    <3> HIDE DEF minis
    <3>7. QED
      BY <3>5, <3>6
  <2> HIDE DEF minis
  <2>3. ASSUME NEW k \in 1 .. K, NEW m \in DOMAIN micros[k][g]
        PROVE  [i \in DOMAIN micros[k][g][m] |-> minis[g][k].responses[micros[k][g][m][i]]]
                 = [i \in DOMAIN micros[k][g][m] |->
                      responses[DpRank(g) * Share + pieces[k][micros[k][g][m][i]]]]
    BY <2>2
  <2>4. ASSUME NEW k \in 1 .. K
        PROVE  [m \in DOMAIN micros[k][g] |->
                  [i \in DOMAIN micros[k][g][m] |-> minis[g][k].responses[micros[k][g][m][i]]]]
                 = [m \in DOMAIN micros[k][g] |-> [i \in DOMAIN micros[k][g][m] |->
                      responses[DpRank(g) * Share + pieces[k][micros[k][g][m][i]]]]]
    BY <2>3
  <2>5. QED
    BY <2>1, <2>4
<1> HIDE DEF micros
<1>12. Trains(trained', responses, config.dynamic, K, pieces, micros)
  BY <1>5, <1>9, <1>10, <1>11 DEF Trains
<1>13. QED
  BY <1>12 DEF responses

\* The forward passes of the last inference are the same on every rank.
ForwardsInvariant == Forwards(forwards)

\* No forward passes to begin with.
LEMMA InitForwards ==
    ASSUME Init
    PROVE  ForwardsInvariant
<1>1. \A g \in Ranks : forwards[g] = <<>>
  BY DEF Init
<1>2. <<>> \in [1 .. 0 -> Nat \ {0}]
  OBVIOUS
<1>3. \A g \in Ranks : forwards[g] \in [1 .. 0 -> Nat \ {0}]
  BY <1>1, <1>2
<1>4. QED
  BY <1>3 DEF ForwardsInvariant, Forwards

\* Every step preserves the equality of the numbers of forward passes,
LEMMA ForwardsStep ==
    ASSUME BatchInvariant, ForwardsInvariant, [Next]_vars
    PROVE  ForwardsInvariant'
<1>1. CASE UNCHANGED forwards
  BY <1>1 DEF ForwardsInvariant, Forwards
<1>2. CASE ComputeOldLogProb
  <2>1. Faithful(batch) /\ config.dynamic \in BOOLEAN
        /\ forwards' = Numbers(MicroBatches(Dispatch(batch), config.dynamic))
    BY <1>2, ConfigIs DEF BatchInvariant, Training, ComputeOldLogProb
  <2>2. Forwards(forwards')
    BY <2>1, FaithfulForwards
  <2>3. QED
    BY <2>2 DEF ForwardsInvariant, Forwards
<1>3. CASE TeacherLogProbs
  <2>1. Faithful(batch) /\ forwards' = Numbers(MicroBatches(Dispatch(batch), FALSE))
    BY <1>3 DEF BatchInvariant, Training, TeacherLogProbs
  <2>2. Forwards(forwards')
    BY <2>1, FaithfulForwards
  <2>3. QED
    BY <2>2 DEF ForwardsInvariant, Forwards
<1>4. CASE NextBatch
  <2>1. \A g \in Ranks : forwards'[g] = <<>>
    BY <1>4 DEF NextBatch
  <2>2. <<>> \in [1 .. 0 -> Nat \ {0}]
    OBVIOUS
  <2>3. \A g \in Ranks : forwards'[g] \in [1 .. 0 -> Nat \ {0}]
    BY <2>1, <2>2
  <2>4. QED
    BY <2>3 DEF ForwardsInvariant, Forwards
<1>5. QED
  BY <1>1, <1>2, <1>3, <1>4
     DEF Next, vars, Generate, BalanceBatch, ComputeReward, BuildSelfDistillationBatch, ComputeAdvantage,
         UpdateActor, Validate

\* What the ranks train, once they have.
TrainedInvariant ==
    phase = "updated" => \E K, pieces, micros : Trains(trained, batch.responses, config.dynamic, K, pieces, micros)

\* and the form of what has been trained.
LEMMA TrainedStep ==
    ASSUME BatchInvariant, TrainedInvariant, [Next]_vars
    PROVE  TrainedInvariant'
<1>1. CASE UpdateActor
  <2>1. \E K, pieces, micros : Trains(trained', batch.responses, config.dynamic, K, pieces, micros)
    BY <1>1, UpdateTrains
  <2>2. batch' = batch /\ config' = config
    BY <1>1 DEF UpdateActor
  <2>3. QED
    BY <2>1, <2>2 DEF TrainedInvariant
<1>2. CASE UNCHANGED vars
  <2>1. phase' = phase /\ trained' = trained /\ batch' = batch /\ config' = config
    BY <1>2 DEF vars
  <2>2. QED
    BY <2>1 DEF TrainedInvariant
<1>3. CASE Next /\ ~UpdateActor
  <2>1. phase' # "updated"
    BY <1>3 DEF Next, Generate, BalanceBatch, ComputeReward, ComputeOldLogProb, BuildSelfDistillationBatch,
         TeacherLogProbs, ComputeAdvantage, Validate, NextBatch
  <2>2. QED
    BY <2>1 DEF TrainedInvariant
<1>4. QED
  BY <1>1, <1>2, <1>3

\* The three invariants together.
LEMMA PassesInvariant == Spec => [](BatchInvariant /\ ForwardsInvariant /\ TrainedInvariant)
<1>1. Init => ForwardsInvariant /\ TrainedInvariant
  BY InitForwards DEF Init, TrainedInvariant
<1>2. BatchInvariant /\ ForwardsInvariant /\ TrainedInvariant /\ [Next]_vars
        => ForwardsInvariant' /\ TrainedInvariant'
  BY ForwardsStep, TrainedStep
<1>3. QED
  BY <1>1, <1>2, BatchInvariantHolds, PTL DEF Spec

\* The ranks train the same number of mini-batches, in the same number of micro-batches.
LEMMA TrainsAlike ==
    ASSUME NEW passes, NEW responses, NEW dynamic, NEW K, NEW pieces, NEW micros,
           Trains(passes, responses, dynamic, K, pieces, micros),
           NEW g \in Ranks, NEW h \in Ranks
    PROVE  /\ Len(passes[g]) = K /\ DOMAIN passes[g] = 1 .. K
           /\ \A k \in 1 .. K : Len(passes[g][k]) = Len(passes[h][k])
<1>1. K \in Nat /\ passes[g] = [k \in 1 .. K |-> passes[g][k]]
  BY DEF Trains
<1>2. Len(passes[g]) = K /\ DOMAIN passes[g] = 1 .. K
  BY <1>1, EvaluatedIs
<1>3. ASSUME NEW k \in 1 .. K PROVE Len(passes[g][k]) = Len(passes[h][k])
  <2>1. PICK m : MicrosOk(micros[k], m, Len(pieces[k]), dynamic)
    BY DEF Trains
  <2>2. m \in Nat
    BY <2>1 DEF MicrosOk
  <2>3. ASSUME NEW f \in Ranks PROVE Len(passes[f][k]) = m
    <3>1. Shares(micros[k][f], m, 1 .. Len(pieces[k]))
      BY <2>1 DEF MicrosOk
    <3>2. DOMAIN micros[k][f] = 1 .. m
      BY <3>1 DEF Shares, Partitions
    <3>3. passes[f] = [j \in 1 .. K |-> [l \in DOMAIN micros[j][f] |-> [i \in DOMAIN micros[j][f][l] |->
             responses[DpRank(f) * Share + pieces[j][micros[j][f][l][i]]]]]]
      BY DEF Trains
    <3>4. passes[f][k] = [l \in DOMAIN micros[k][f] |-> [i \in DOMAIN micros[k][f][l] |->
             responses[DpRank(f) * Share + pieces[k][micros[k][f][l][i]]]]]
      BY <3>3
    <3>5. passes[f][k] = [l \in 1 .. m |-> passes[f][k][l]]
      BY <3>2, <3>4
    <3>6. QED
      BY <2>2, <3>5, EvaluatedIs
  <2>4. QED
    BY <2>3
<1>4. QED
  BY <1>2, <1>3

\* Every rank runs as many forward passes as the others, in the inference of a column
\* and in every mini-batch, so that none waits in FSDP for one that is not coming.
THEOREM RanksAgree == Spec => []SameForwards
<1>1. BatchInvariant /\ ForwardsInvariant /\ TrainedInvariant => SameForwards
  <2>1. SUFFICES ASSUME ForwardsInvariant, TrainedInvariant PROVE SameForwards
    OBVIOUS
  <2>2. PICK m \in Nat : \A g \in Ranks : forwards[g] \in [1 .. m -> Nat \ {0}]
    BY <2>1 DEF ForwardsInvariant, Forwards
  <2>3. \A g \in Ranks : Len(forwards[g]) = m /\ DOMAIN forwards[g] = 1 .. m
    BY <2>2, FunctionIsSeq
  <2>4. 0 \in Ranks
    <3>1. 0 \in 0 .. DpSize - 1 /\ 0 * SpSize = 0
      BY Positive
    <3>2. 0 * SpSize \in Ranks
      BY <3>1, RankIs
    <3>3. QED
      BY <3>1, <3>2
  <2>5. \A g \in Ranks, l \in DOMAIN forwards[0] : forwards[g][l] > 0
    BY <2>2, <2>3, <2>4
  <2>6. ASSUME phase = "updated", NEW g \in Ranks, NEW h \in Ranks
        PROVE  /\ Len(trained[g]) = Len(trained[h])
               /\ \A k \in DOMAIN trained[g] : Len(trained[g][k]) = Len(trained[h][k])
    <3>1. PICK K, pieces, micros : Trains(trained, batch.responses, config.dynamic, K, pieces, micros)
      BY <2>1, <2>6 DEF TrainedInvariant
    <3>2. /\ Len(trained[g]) = K /\ DOMAIN trained[g] = 1 .. K
          /\ \A k \in 1 .. K : Len(trained[g][k]) = Len(trained[h][k])
      BY <3>1, TrainsAlike
    <3>3. Len(trained[h]) = K
      BY <3>1, TrainsAlike
    <3>4. QED
      BY <3>2, <3>3
  <2>7. QED
    BY <2>3, <2>5, <2>6 DEF SameForwards
<1>2. QED
  BY <1>1, PassesInvariant, PTL

-----------------------------------------------------------------------------
(* Every row is trained once *)

\* Each of the rows 1..n is at one place.
Exactly(parts, n) ==
    /\ \A m \in DOMAIN parts : \A i \in DOMAIN parts[m] : parts[m][i] \in 1 .. n
    /\ \A a \in 1 .. n : \E m \in DOMAIN parts : \E i \in DOMAIN parts[m] : parts[m][i] = a
    /\ \A m, l \in DOMAIN parts : \A i \in DOMAIN parts[m], j \in DOMAIN parts[l] :
          parts[m][i] = parts[l][j] => m = l /\ i = j

\* Partitions hold every row exactly once.
LEMMA SharesExactly ==
    ASSUME NEW n, NEW k, NEW parts, Shares(parts, k, 1 .. n)
    PROVE  Exactly(parts, n) /\ DOMAIN parts = 1 .. k /\ \A m \in 1 .. k : DOMAIN parts[m] = 1 .. Len(parts[m])
<1>1. /\ parts \in [1 .. k -> Seq(1 .. n)]
      /\ \A x \in 1 .. n : \E m \in 1 .. k : \E i \in 1 .. Len(parts[m]) : parts[m][i] = x
      /\ \A m, l \in 1 .. k : \A i \in 1 .. Len(parts[m]), j \in 1 .. Len(parts[l]) :
            parts[m][i] = parts[l][j] => m = l /\ i = j
  BY DEF Shares, Partitions
<1>2. DOMAIN parts = 1 .. k
  BY <1>1
<1>3. ASSUME NEW m \in 1 .. k
      PROVE  DOMAIN parts[m] = 1 .. Len(parts[m]) /\ \A i \in DOMAIN parts[m] : parts[m][i] \in 1 .. n
  <2>1. parts[m] \in Seq(1 .. n)
    BY <1>1
  <2>2. QED
    BY <2>1, SeqIsFunction
<1>4. QED
  BY <1>1, <1>2, <1>3 DEF Exactly

\* The row of the batch that is trained at a place.
RowAt(pieces, micros, d, k, m, i) == d * Share + pieces[k][micros[k][d * SpSize][m][i]]

\* Where a rank trains its rows.
LEMMA TrainedAt ==
    ASSUME NEW passes, NEW responses, NEW dynamic, NEW K, NEW pieces, NEW micros,
           Trains(passes, responses, dynamic, K, pieces, micros),
           NEW d \in 0 .. DpSize - 1, NEW g, g = d * SpSize
    PROVE  /\ DOMAIN passes[g] = 1 .. K /\ Exactly(pieces, Share) /\ DOMAIN pieces = 1 .. K
           /\ \A k \in 1 .. K : DOMAIN pieces[k] = 1 .. Len(pieces[k]) /\ Exactly(micros[k][g], Len(pieces[k]))
           /\ \A k \in 1 .. K :
                /\ DOMAIN passes[g][k] = DOMAIN micros[k][g]
                /\ \A m \in DOMAIN micros[k][g] :
                     /\ DOMAIN passes[g][k][m] = DOMAIN micros[k][g][m]
                     /\ \A i \in DOMAIN micros[k][g][m] :
                          passes[g][k][m][i] = responses[RowAt(pieces, micros, d, k, m, i)]
<1>1. g \in Ranks /\ DpRank(g) = d
  BY RankIs
<1>2. Shares(pieces, K, 1 .. Share)
  BY DEF Trains
<1>3. Exactly(pieces, Share) /\ DOMAIN pieces = 1 .. K /\ \A k \in 1 .. K : DOMAIN pieces[k] = 1 .. Len(pieces[k])
  BY <1>2, SharesExactly
<1>4. ASSUME NEW k \in 1 .. K PROVE Exactly(micros[k][g], Len(pieces[k]))
  <2>1. PICK m : MicrosOk(micros[k], m, Len(pieces[k]), dynamic)
    BY DEF Trains
  <2>2. Shares(micros[k][g], m, 1 .. Len(pieces[k]))
    BY <1>1, <2>1 DEF MicrosOk
  <2>3. QED
    BY <2>2, SharesExactly
<1>5. passes[g] = [k \in 1 .. K |-> [m \in DOMAIN micros[k][g] |-> [i \in DOMAIN micros[k][g][m] |->
         responses[d * Share + pieces[k][micros[k][g][m][i]]]]]]
  <2>1. passes[g] = [k \in 1 .. K |-> [m \in DOMAIN micros[k][g] |-> [i \in DOMAIN micros[k][g][m] |->
           responses[DpRank(g) * Share + pieces[k][micros[k][g][m][i]]]]]]
    BY <1>1 DEF Trains
  <2>2. DpRank(g) = d
    BY <1>1
  <2>3. QED
    BY <2>1, <2>2
<1>6. ASSUME NEW k \in 1 .. K
      PROVE  passes[g][k] = [m \in DOMAIN micros[k][g] |-> [i \in DOMAIN micros[k][g][m] |->
                 responses[d * Share + pieces[k][micros[k][g][m][i]]]]]
  BY <1>5
<1>7. ASSUME NEW k \in 1 .. K, NEW m \in DOMAIN micros[k][g]
      PROVE  passes[g][k][m] = [i \in DOMAIN micros[k][g][m] |->
                 responses[d * Share + pieces[k][micros[k][g][m][i]]]]
  <2>1. passes[g][k] = [l \in DOMAIN micros[k][g] |-> [i \in DOMAIN micros[k][g][l] |->
                 responses[d * Share + pieces[k][micros[k][g][l][i]]]]]
    BY <1>6
  <2>2. QED
    BY <2>1
<1>8. ASSUME NEW k \in 1 .. K, NEW m \in DOMAIN micros[k][g], NEW i \in DOMAIN micros[k][g][m]
      PROVE  passes[g][k][m][i] = responses[RowAt(pieces, micros, d, k, m, i)]
  <2>1. passes[g][k][m] = [j \in DOMAIN micros[k][g][m] |->
                 responses[d * Share + pieces[k][micros[k][g][m][j]]]]
    BY <1>7
  <2>2. passes[g][k][m][i] = responses[d * Share + pieces[k][micros[k][g][m][i]]]
    BY <2>1
  <2>3. QED
    BY <2>2 DEF RowAt
<1>9. QED
  BY <1>3, <1>4, <1>5, <1>6, <1>7, <1>8

\* The places of the data-parallel ranks.
AllPlaces == UNION {Places(d) : d \in 0 .. DpSize - 1}

PlaceOf(p, d, k, m, i) ==
    /\ p = <<d, k, m, i>> /\ k \in DOMAIN trained[d * SpSize]
    /\ m \in DOMAIN trained[d * SpSize][k] /\ i \in DOMAIN trained[d * SpSize][k][m]

\* The places of the rows in what is trained.
LEMMA PlacesAre ==
    \A p : p \in AllPlaces <=> \E d \in 0 .. DpSize - 1 : \E k, m, i : PlaceOf(p, d, k, m, i)
<1>1. ASSUME NEW p, NEW d PROVE p \in Places(d) <=> \E k, m, i : PlaceOf(p, d, k, m, i)
  BY DEF Places, PlaceOf
<1>2. \A p : p \in AllPlaces <=> \E d \in 0 .. DpSize - 1 : p \in Places(d)
  BY DEF AllPlaces
<1>3. QED
  BY <1>1, <1>2

\* One place of a training, and the row that is trained there.
LEMMA PlaceRow ==
    ASSUME NEW responses, NEW dynamic, NEW K, NEW pieces, NEW micros,
           Trains(trained, responses, dynamic, K, pieces, micros),
           NEW d \in 0 .. DpSize - 1, NEW k, NEW m, NEW i, NEW p, PlaceOf(p, d, k, m, i)
    PROVE  \E j \in 1 .. Share : \E a :
              /\ k \in 1 .. K /\ a \in DOMAIN pieces[k] /\ j = pieces[k][a]
              /\ m \in DOMAIN micros[k][d * SpSize] /\ i \in DOMAIN micros[k][d * SpSize][m]
              /\ a = micros[k][d * SpSize][m][i]
              /\ At(p) = responses[d * Share + j]
<1> DEFINE g == d * SpSize
           a == micros[k][g][m][i]
<1>1. /\ DOMAIN trained[g] = 1 .. K /\ Exactly(pieces, Share) /\ DOMAIN pieces = 1 .. K
      /\ \A l \in 1 .. K : DOMAIN pieces[l] = 1 .. Len(pieces[l]) /\ Exactly(micros[l][g], Len(pieces[l]))
      /\ \A l \in 1 .. K :
           /\ DOMAIN trained[g][l] = DOMAIN micros[l][g]
           /\ \A n \in DOMAIN micros[l][g] :
                /\ DOMAIN trained[g][l][n] = DOMAIN micros[l][g][n]
                /\ \A j \in DOMAIN micros[l][g][n] :
                     trained[g][l][n][j] = responses[RowAt(pieces, micros, d, l, n, j)]
  BY TrainedAt
<1>2. p = <<d, k, m, i>> /\ k \in DOMAIN trained[g] /\ m \in DOMAIN trained[g][k] /\ i \in DOMAIN trained[g][k][m]
  BY DEF PlaceOf
<1>3. k \in 1 .. K /\ m \in DOMAIN micros[k][g] /\ i \in DOMAIN micros[k][g][m]
  BY <1>1, <1>2
<1>4. a \in 1 .. Len(pieces[k]) /\ DOMAIN pieces[k] = 1 .. Len(pieces[k])
  BY <1>1, <1>3 DEF Exactly
<1>5. pieces[k][a] \in 1 .. Share
  BY <1>1, <1>3, <1>4 DEF Exactly
<1>6. At(p) = trained[g][k][m][i]
  BY <1>2 DEF At
<1>7. At(p) = responses[d * Share + pieces[k][a]]
  BY <1>1, <1>3, <1>6 DEF RowAt
<1>8. QED
  BY <1>3, <1>4, <1>5, <1>7

\* Every row is trained at a place.
LEMMA RowPlace ==
    ASSUME NEW responses, NEW dynamic, NEW K, NEW pieces, NEW micros,
           Trains(trained, responses, dynamic, K, pieces, micros),
           NEW d \in 0 .. DpSize - 1, NEW j \in 1 .. Share
    PROVE  \E p \in AllPlaces : At(p) = responses[d * Share + j]
<1> DEFINE g == d * SpSize
<1>1. /\ DOMAIN trained[g] = 1 .. K /\ Exactly(pieces, Share) /\ DOMAIN pieces = 1 .. K
      /\ \A l \in 1 .. K : DOMAIN pieces[l] = 1 .. Len(pieces[l]) /\ Exactly(micros[l][g], Len(pieces[l]))
      /\ \A l \in 1 .. K :
           /\ DOMAIN trained[g][l] = DOMAIN micros[l][g]
           /\ \A n \in DOMAIN micros[l][g] :
                /\ DOMAIN trained[g][l][n] = DOMAIN micros[l][g][n]
                /\ \A i \in DOMAIN micros[l][g][n] :
                     trained[g][l][n][i] = responses[RowAt(pieces, micros, d, l, n, i)]
  BY TrainedAt
<1>2. PICK k \in 1 .. K : \E a \in DOMAIN pieces[k] : pieces[k][a] = j
  BY <1>1 DEF Exactly
<1>10. PICK a \in DOMAIN pieces[k] : pieces[k][a] = j
  BY <1>2
<1>3. a \in 1 .. Len(pieces[k]) /\ Exactly(micros[k][g], Len(pieces[k]))
  BY <1>1
<1>11. PICK m \in DOMAIN micros[k][g] : \E i \in DOMAIN micros[k][g][m] : micros[k][g][m][i] = a
  BY <1>3 DEF Exactly
<1>4. PICK i \in DOMAIN micros[k][g][m] : micros[k][g][m][i] = a
  BY <1>11
<1>5. trained[g][k][m][i] = responses[d * Share + j]
  BY <1>1, <1>2, <1>10, <1>11, <1>4 DEF RowAt
<1> DEFINE p == <<d, k, m, i>>
<1>6. PlaceOf(p, d, k, m, i)
  BY <1>1, <1>2, <1>11, <1>4 DEF PlaceOf
<1>7. At(p) = trained[g][k][m][i]
  BY DEF At
<1>8. p \in AllPlaces
  BY <1>6, PlacesAre
<1>9. QED
  BY <1>5, <1>7, <1>8

\* Two places where the same row is trained are one.
LEMMA SamePlace ==
    ASSUME NEW responses, NEW dynamic, NEW K, NEW pieces, NEW micros,
           Trains(trained, responses, dynamic, K, pieces, micros), WellFormed(batch, BatchSize),
           responses = batch.responses,
           NEW p \in AllPlaces, NEW q \in AllPlaces, At(p) = At(q)
    PROVE  p = q
<1>1. /\ Numbered(DpSize, Share) /\ DpSize * Share = BatchSize
      /\ \A x, y \in 1 .. BatchSize : responses[x] = responses[y] => x = y
  BY Grid, ShareIs, Positive DEF WellFormed
<1>2. PICK d \in 0 .. DpSize - 1 : \E k, m, i : PlaceOf(p, d, k, m, i)
  BY PlacesAre
<1>3. PICK k, m, i : PlaceOf(p, d, k, m, i)
  BY <1>2
<1>4. PICK e \in 0 .. DpSize - 1 : \E l, n, o : PlaceOf(q, e, l, n, o)
  BY PlacesAre
<1>5. PICK l, n, o : PlaceOf(q, e, l, n, o)
  BY <1>4
<1>60. PICK j \in 1 .. Share : \E a :
         /\ k \in 1 .. K /\ a \in DOMAIN pieces[k] /\ j = pieces[k][a]
         /\ m \in DOMAIN micros[k][d * SpSize] /\ i \in DOMAIN micros[k][d * SpSize][m]
         /\ a = micros[k][d * SpSize][m][i]
         /\ At(p) = responses[d * Share + j]
  BY <1>3, PlaceRow
<1>6. PICK a :
         /\ k \in 1 .. K /\ a \in DOMAIN pieces[k] /\ j = pieces[k][a]
         /\ m \in DOMAIN micros[k][d * SpSize] /\ i \in DOMAIN micros[k][d * SpSize][m]
         /\ a = micros[k][d * SpSize][m][i]
         /\ At(p) = responses[d * Share + j]
  BY <1>60
<1>70. PICK h \in 1 .. Share : \E b :
         /\ l \in 1 .. K /\ b \in DOMAIN pieces[l] /\ h = pieces[l][b]
         /\ n \in DOMAIN micros[l][e * SpSize] /\ o \in DOMAIN micros[l][e * SpSize][n]
         /\ b = micros[l][e * SpSize][n][o]
         /\ At(q) = responses[e * Share + h]
  BY <1>5, PlaceRow
<1>7. PICK b :
         /\ l \in 1 .. K /\ b \in DOMAIN pieces[l] /\ h = pieces[l][b]
         /\ n \in DOMAIN micros[l][e * SpSize] /\ o \in DOMAIN micros[l][e * SpSize][n]
         /\ b = micros[l][e * SpSize][n][o]
         /\ At(q) = responses[e * Share + h]
  BY <1>70
<1>8. d * Share + j \in 1 .. BatchSize /\ e * Share + h \in 1 .. BatchSize
  BY <1>1 DEF Numbered
<1>9. d * Share + j = e * Share + h
  BY <1>1, <1>6, <1>7, <1>8
<1>10. d = e /\ j = h
  BY <1>1, <1>9 DEF Numbered
<1>11. Exactly(pieces, Share) /\ DOMAIN pieces = 1 .. K /\ Exactly(micros[k][d * SpSize], Len(pieces[k]))
  BY <1>6, TrainedAt
<1>12. k = l /\ a = b
  BY <1>6, <1>7, <1>10, <1>11 DEF Exactly
<1>13. m = n /\ i = o
  BY <1>6, <1>7, <1>10, <1>11, <1>12 DEF Exactly
<1>14. QED
  BY <1>3, <1>5, <1>10, <1>12, <1>13 DEF PlaceOf

\* update_policy trains every row of the batch once, on the rank it was sent to, and
\* the ranks of one sequence-parallel group train the same rows.
THEOREM EveryRowTrainedOnce == Spec => []TrainedOnce
<1>1. BatchInvariant /\ ForwardsInvariant /\ TrainedInvariant => TrainedOnce
  <2>1. SUFFICES ASSUME BatchInvariant, TrainedInvariant, phase = "updated" PROVE TrainedOnce
    BY DEF TrainedOnce
  <2> DEFINE responses == batch.responses
  <2>2. PICK K, pieces, micros : Trains(trained, responses, config.dynamic, K, pieces, micros)
    BY <2>1 DEF TrainedInvariant
  <2>3. WellFormed(batch, BatchSize)
    BY <2>1 DEF BatchInvariant, Training, Faithful
  <2>4. Numbered(DpSize, Share) /\ DpSize * Share = BatchSize /\ DOMAIN responses = 1 .. BatchSize
    BY <2>3, Grid, ShareIs, Positive DEF WellFormed, Table
  <2> HIDE DEF responses
  <2>5. {At(p) : p \in AllPlaces} = ToSet(responses)
    <3>1. ASSUME NEW p \in AllPlaces PROVE At(p) \in ToSet(responses)
      <4>1. PICK d \in 0 .. DpSize - 1 : \E k, m, i : PlaceOf(p, d, k, m, i)
        BY PlacesAre
      <4>2. PICK k, m, i : PlaceOf(p, d, k, m, i)
        BY <4>1
      <4>3. PICK j \in 1 .. Share : At(p) = responses[d * Share + j]
        BY <2>2, <4>2, PlaceRow
      <4>4. d * Share + j \in 1 .. BatchSize
        BY <2>4 DEF Numbered
      <4>5. QED
        BY <2>4, <4>3, <4>4 DEF ToSet
    <3>2. ASSUME NEW r \in ToSet(responses) PROVE \E p \in AllPlaces : At(p) = r
      <4>1. PICK x \in 1 .. DpSize * Share : r = responses[x]
        BY <2>4 DEF ToSet
      <4>2. PICK d \in 0 .. DpSize - 1, j \in 1 .. Share : x = d * Share + j
        BY <2>4 DEF Numbered
      <4>3. PICK p \in AllPlaces : At(p) = responses[d * Share + j]
        BY <2>2, RowPlace
      <4>4. QED
        BY <4>1, <4>2, <4>3
    <3>3. QED
      BY <3>1, <3>2
  <2>6. ASSUME NEW p \in AllPlaces, NEW q \in AllPlaces, At(p) = At(q) PROVE p = q
    BY <2>2, <2>3, <2>6, SamePlace DEF responses
  <2>7. ASSUME NEW g \in Ranks, NEW h \in Ranks, DpRank(g) = DpRank(h) PROVE trained[g] = trained[h]
    <3>1. \A k \in 1 .. K : micros[k][g] = micros[k][h]
      BY <2>2, <2>7 DEF Trains
    <3>2. /\ trained[g] = [k \in 1 .. K |-> [m \in DOMAIN micros[k][g] |-> [i \in DOMAIN micros[k][g][m] |->
                 responses[DpRank(g) * Share + pieces[k][micros[k][g][m][i]]]]]]
          /\ trained[h] = [k \in 1 .. K |-> [m \in DOMAIN micros[k][h] |-> [i \in DOMAIN micros[k][h][m] |->
                 responses[DpRank(h) * Share + pieces[k][micros[k][h][m][i]]]]]]
      BY <2>2 DEF Trains
    <3>3. QED
      BY <2>7, <3>1, <3>2
  <2>8. QED
    BY <2>5, <2>6, <2>7 DEF TrainedOnce, AllPlaces, responses
<1>2. QED
  BY <1>1, PassesInvariant, PTL

-----------------------------------------------------------------------------
(* Balancing *)

\* The weights of rows in another order.
Permuted(v, w, idx, n) ==
    n \in Nat /\ w \in [1 .. n -> Int] /\ Permutation(idx, n) /\ v = [i \in 1 .. n |-> w[idx[i]]]

Image(idx, A) == {idx[i] : i \in A}

\* The weights of rows that were reordered.
LEMMA TotalOfReordered ==
    ASSUME NEW n, NEW w, NEW idx, NEW v, Permuted(v, w, idx, n), NEW A \in SUBSET (1 .. n)
    PROVE  TotalOf(A, v) = TotalOf(Image(idx, A), w)
<1>0. n \in Nat /\ w \in [1 .. n -> Int] /\ idx \in [1 .. n -> 1 .. n] /\ v = [i \in 1 .. n |-> w[idx[i]]]
      /\ \A i, j \in 1 .. n : idx[i] = idx[j] => i = j
  BY DEF Permuted, Permutation
<1> DEFINE To(m) == A \cap (1 .. m)
           S == {m \in 0 .. n : TotalOf(To(m), v) = TotalOf(Image(idx, To(m)), w)}
<1>1. v \in [1 .. n -> Int]
  BY <1>0
<1>6. \A x \in 1 .. n : TotalOf({x}, v) = v[x] /\ TotalOf({x}, w) = w[x]
  <2>1. ASSUME NEW x \in 1 .. n, NEW u \in [1 .. n -> Int] PROVE TotalOf({x}, u) = u[x]
    BY <1>0, TotalOfSingle
  <2>2. QED
    BY <1>0, <1>1, <2>1
<1>2. 0 \in S
  <2>1. To(0) = {} /\ Image(idx, To(0)) = {}
    BY <1>0 DEF Image
  <2>2. TotalOf({}, v) = 0 /\ TotalOf({}, w) = 0
    BY <1>0, <1>1, TotalOfEmpty
  <2>3. TotalOf(To(0), v) = TotalOf(Image(idx, To(0)), w)
    <3> HIDE DEF To
    <3>1. QED
      BY <2>1, <2>2
  <2>4. 0 \in 0 .. n
    BY <1>0
  <2>5. QED
    BY <2>3, <2>4
<1>3. ASSUME NEW m \in 0 .. n - 1, m \in S PROVE m + 1 \in S
  <2> DEFINE g == m + 1
             B == To(m)
  <2>1. g \in 1 .. n /\ m + 1 \in 0 .. n /\ n \in Nat /\ m \in Nat
    BY <1>0
  <2>2. TotalOf(B, v) = TotalOf(Image(idx, B), w)
    BY <1>3
  <2>3. CASE g \notin A
    <3>1. To(g) = B
      BY <2>1, <2>3
    <3> HIDE DEF To
    <3>2. QED
      BY <2>1, <2>2, <3>1
  <2>4. CASE g \in A
    <3>1. To(g) = B \cup {g} /\ B \cap {g} = {}
      <4>1. \A i \in 1 .. g : i \in 1 .. m \/ i = g
        BY <2>1
      <4>2. \A i \in 1 .. m : i \in 1 .. g /\ i # g
        BY <2>1
      <4>3. g \in 1 .. g
        BY <2>1
      <4> HIDE DEF g
      <4>4. QED
        BY <2>4, <4>1, <4>2, <4>3
    <3>2. Image(idx, To(g)) = Image(idx, B) \cup {idx[g]} /\ Image(idx, B) \cap {idx[g]} = {} /\ idx[g] \in 1 .. n
      <4>1. \A i \in B : i \in 1 .. n
        OBVIOUS
      <4> HIDE DEF g, To
      <4>2. Image(idx, To(g)) = Image(idx, B) \cup {idx[g]}
        BY <3>1 DEF Image
      <4>3. \A i \in B : idx[i] # idx[g]
        BY <1>0, <2>1, <3>1, <4>1
      <4>4. Image(idx, B) \cap {idx[g]} = {}
        BY <4>3 DEF Image
      <4>5. idx[g] \in 1 .. n
        BY <1>0, <2>1
      <4>6. QED
        BY <4>2, <4>4, <4>5
    <3> HIDE DEF To
    <3>3. v[g] = w[idx[g]]
      BY <1>0, <2>1
    <3>4. TotalOf({g}, v) = v[g] /\ TotalOf({idx[g]}, w) = w[idx[g]]
      <4> HIDE DEF g
      <4>1. QED
        BY <1>6, <2>1, <3>2
    <3>5. TotalOf(B \cup {g}, v) = TotalOf(B, v) + TotalOf({g}, v)
      BY <1>0, <1>1, <3>1, TotalOfUnion
    <3>6. TotalOf(Image(idx, B) \cup {idx[g]}, w) = TotalOf(Image(idx, B), w) + TotalOf({idx[g]}, w)
      BY <1>0, <3>2, TotalOfUnion
    <3>7. TotalOf(To(g), v) = TotalOf(Image(idx, To(g)), w)
      BY <2>2, <3>1, <3>2, <3>3, <3>4, <3>5, <3>6
    <3>8. QED
      BY <2>1, <3>7
  <2>5. QED
    BY <2>3, <2>4
<1>4. n \in S
  <2> HIDE DEF S
  <2>1. \A m \in 0 .. n : m \in S
    BY <1>0, <1>2, <1>3, Induct
  <2>2. QED
    BY <1>0, <2>1
<1>5. To(n) = A
  OBVIOUS
<1> HIDE DEF To
<1>7. QED
  BY <1>4, <1>5

RowsOfRank(d) == ((d - 1) * Share + 1) .. (d * Share)

PeersIn(data, i) == {j \in DOMAIN data.responses : data.responses[j].prompt = data.responses[i].prompt}

\* The loads of the ranks differ by no more than two of the units do.
EvenLoads(w, units) ==
    \A c, d \in 1 .. DpSize : \E i, j \in 1 .. BatchSize :
        TotalOf(RowsOfRank(c), w) - TotalOf(RowsOfRank(d), w) <= TotalOf(units[i], w) - TotalOf(units[j], w)

RowAlone(n) == [i \in 1 .. n |-> {i}]

WithPeers(data, n) == [i \in 1 .. n |-> PeersIn(data, i)]

EvenRanks(data, balance) ==
    /\ balance = "tokens" => EvenLoads(Workloads(SeqLens(data)), RowAlone(BatchSize))
    /\ balance = "groups" => EvenLoads(Workloads(SeqLens(data)), WithPeers(data, BatchSize))
    /\ balance = "groups" => \A d \in 1 .. DpSize : \A i \in RowsOfRank(d) : PeersIn(data, i) \subseteq RowsOfRank(d)

\* The rows a rank gets are those of its part.
LEMMA RankRows ==
    ASSUME NEW idx, NEW parts, NEW sets, Reordered(idx, parts, sets), NEW d \in 1 .. DpSize
    PROVE  RowsOfRank(d) \in SUBSET (1 .. BatchSize) /\ Image(idx, RowsOfRank(d)) = sets[d]
<1> DEFINE o == (d - 1) * Share
<1>1. Numbered(DpSize, Share) /\ DpSize * Share = BatchSize /\ Share \in Nat \ {0}
  BY Grid, ShareIs, Positive
<1>2. o \in Nat /\ d * Share = o + Share /\ d - 1 \in 0 .. DpSize - 1
  <2>1. d - 1 \in Nat /\ d = (d - 1) + 1 /\ d - 1 \in 0 .. DpSize - 1
    BY Positive
  <2>2. \A e \in Nat : (e + 1) * Share = e * Share + Share /\ e * Share \in Nat
    BY <1>1
  <2>3. QED
    BY <2>1, <2>2
<1>3. \A j \in 1 .. Share : o + j \in 1 .. BatchSize
  BY <1>1, <1>2 DEF Numbered
<1>4. \A i \in 1 .. Share : idx[o + i] = parts[d][i]
  BY DEF Reordered, Placed
<1>5. Len(parts[d]) = Share /\ ToSet(parts[d]) = sets[d] /\ parts[d] \in Seq(1 .. BatchSize)
  BY DEF Reordered, Listed
<1> HIDE DEF o
<1>6. RowsOfRank(d) = (o + 1) .. (o + Share)
  BY <1>2 DEF RowsOfRank, o
<1>7. \A i : i \in RowsOfRank(d) <=> \E j \in 1 .. Share : i = o + j
  <2>1. ASSUME NEW i \in (o + 1) .. (o + Share) PROVE \E j \in 1 .. Share : i = o + j
    <3>1. i - o \in 1 .. Share /\ i = o + (i - o)
      BY <1>1, <1>2
    <3>2. QED
      BY <3>1
  <2>2. \A j \in 1 .. Share : o + j \in (o + 1) .. (o + Share)
    BY <1>1, <1>2
  <2>3. QED
    BY <1>6, <2>1, <2>2
<1>8. DOMAIN parts[d] = 1 .. Share
  BY <1>5
<1>9. sets[d] = {parts[d][j] : j \in 1 .. Share}
  BY <1>5, <1>8 DEF ToSet
<1>10. {idx[i] : i \in RowsOfRank(d)} = {parts[d][j] : j \in 1 .. Share}
  BY <1>4, <1>7
<1>11. QED
  BY <1>3, <1>7, <1>9, <1>10 DEF Image

\* The rows with an answer to the same prompt as a row that was reordered.
SamePrompt(data, idx) ==
    \A i \in 1 .. BatchSize : \A j : j \in PeersIn(data, i) <=>
        j \in 1 .. BatchSize /\ Asked(Prompts, RolloutN)[idx[j]] = Asked(Prompts, RolloutN)[idx[i]]

\* The columns of the rows that were reordered.
LEMMA ReorderedRows ==
    ASSUME NEW old, WellFormed(old, BatchSize), old.uid = Asked(Prompts, RolloutN),
           NEW idx, Enumerates(idx, 1 .. BatchSize), NEW new, new = SelectIdxs(old, idx)
    PROVE  /\ Permuted(Workloads(SeqLens(new)), Workloads(SeqLens(old)), idx, BatchSize)
           /\ SamePrompt(new, idx)
<1> DEFINE n == BatchSize
<1>1. n \in Nat /\ n \in Nat \ {0}
  BY BatchSizeIs
<1> HIDE DEF n
<1>2. /\ idx = [i \in 1 .. n |-> idx[i]] /\ \A i \in 1 .. n : idx[i] \in 1 .. n
      /\ \A i, j \in 1 .. n : idx[i] = idx[j] => i = j
      /\ \A x \in 1 .. n : \E i \in 1 .. n : idx[i] = x
  <2>1. Cardinality(1 .. n) = n
    BY <1>1, FS_Interval
  <2>2. QED
    BY <2>1 DEF Enumerates, n
<1>3. WellFormed(old, n) /\ WellFormed(new, n)
      /\ \A c \in DOMAIN old : new[c] = [i \in 1 .. n |-> old[c][idx[i]]]
  BY <1>1, SelectedFormed DEF n
<1>4. "responses" \in DOMAIN old /\ "uid" \in DOMAIN old /\ DOMAIN new.responses = 1 .. n
      /\ old.uid = Asked(Prompts, RolloutN)
  BY <1>3 DEF WellFormed, Table
<1>5. ASSUME NEW i \in 1 .. n PROVE new.responses[i] = old.responses[idx[i]] /\ new.uid[i] = old.uid[idx[i]]
  <2>1. new.responses = [j \in 1 .. n |-> old.responses[idx[j]]] /\ new.uid = [j \in 1 .. n |-> old.uid[idx[j]]]
    BY <1>3, <1>4
  <2>2. QED
    BY <2>1
<1>6. /\ SeqLens(old) \in [1 .. n -> Nat \ {0}] /\ SeqLens(new) \in [1 .. n -> Nat \ {0}]
      /\ \A i \in 1 .. n : SeqLens(old)[i] = 1 + Len(old.responses[i].tokens)
      /\ \A i \in 1 .. n : SeqLens(new)[i] = 1 + Len(new.responses[i].tokens)
  BY <1>1, <1>3, LensAre
<1>7. ASSUME NEW i \in 1 .. n PROVE SeqLens(new)[i] = SeqLens(old)[idx[i]]
  <2>1. SeqLens(new)[i] = 1 + Len(new.responses[i].tokens)
    BY <1>6
  <2>2. idx[i] \in 1 .. n
    BY <1>2
  <2>3. SeqLens(old)[idx[i]] = 1 + Len(old.responses[idx[i]].tokens)
    BY <1>6, <2>2
  <2>4. QED
    BY <1>5, <2>1, <2>3
<1>8. /\ Workloads(SeqLens(old)) = [i \in 1 .. n |-> CalculateWorkload(SeqLens(old)[i])]
      /\ Workloads(SeqLens(new)) = [i \in 1 .. n |-> CalculateWorkload(SeqLens(new)[i])]
  <2>1. DOMAIN SeqLens(old) = 1 .. n /\ DOMAIN SeqLens(new) = 1 .. n
    BY <1>6
  <2>2. QED
    BY <2>1 DEF Workloads
<1>9. Workloads(SeqLens(old)) \in [1 .. n -> Int]
  <2>0. SeqLens(old) \in [1 .. n -> Nat \ {0}] /\ 1 \in Nat \ {0}
    BY <1>6
  <2>1. Weighed(n, Workloads(SeqLens(old)), 1)
    BY <1>1, <2>0, WorkloadsWeigh
  <2>2. QED
    BY <2>1 DEF Weighed
<1>10. Workloads(SeqLens(new)) = [i \in 1 .. n |-> Workloads(SeqLens(old))[idx[i]]]
  <2>1. ASSUME NEW i \in 1 .. n PROVE CalculateWorkload(SeqLens(new)[i]) = Workloads(SeqLens(old))[idx[i]]
    <3>1. idx[i] \in 1 .. n /\ SeqLens(new)[i] = SeqLens(old)[idx[i]]
      BY <1>2, <1>7
    <3>2. Workloads(SeqLens(old))[idx[i]] = CalculateWorkload(SeqLens(old)[idx[i]])
      BY <1>8, <3>1
    <3>3. QED
      BY <3>1, <3>2
  <2>2. QED
    BY <1>8, <2>1
<1>11. \A i \in 1 .. n : new.responses[i].prompt = Asked(Prompts, RolloutN)[idx[i]]
  BY <1>2, <1>3, <1>4, <1>5 DEF WellFormed
<1>12. \A i \in 1 .. n : \A j : j \in PeersIn(new, i) <=>
          j \in 1 .. n /\ Asked(Prompts, RolloutN)[idx[j]] = Asked(Prompts, RolloutN)[idx[i]]
  BY <1>4, <1>11 DEF PeersIn
<1>13. idx \in [1 .. n -> 1 .. n]
  BY <1>2
<1>14. Permuted(Workloads(SeqLens(new)), Workloads(SeqLens(old)), idx, n)
  BY <1>1, <1>2, <1>9, <1>10, <1>13 DEF Permuted, Permutation
<1>15. QED
  BY <1>12, <1>14 DEF SamePrompt, n

\* A batch in the order of the partitions gives every rank the rows of one partition.
LEMMA BalancingEvens ==
    ASSUME NEW old, WellFormed(old, BatchSize), old.uid = Asked(Prompts, RolloutN),
           NEW sets, Division(sets, BatchSize, DpSize), AsAsked(sets, Workloads(SeqLens(old))),
           NEW idx, NEW parts, Reordered(idx, parts, sets), NEW new, new = SelectIdxs(old, idx)
    PROVE  EvenRanks(new, config.balance)
<1> DEFINE n == BatchSize
           w == Workloads(SeqLens(old))
           v == Workloads(SeqLens(new))
           prompt == Asked(Prompts, RolloutN)
<1>1. n \in Nat /\ Prompts \in Nat \ {0} /\ RolloutN \in Nat \ {0} /\ n = RolloutN * Prompts
  BY BatchSizeIs, Positive DEF BatchSize
<1>3. Permuted(v, w, idx, n) /\ SamePrompt(new, idx)
  <2>1. Enumerates(idx, 1 .. BatchSize)
    BY DEF Reordered
  <2>2. QED
    BY <2>1, ReorderedRows
<1> HIDE DEF w, v, prompt, n
<1>2. /\ idx \in [1 .. n -> 1 .. n] /\ \A i, j \in 1 .. n : idx[i] = idx[j] => i = j
      /\ \A x \in 1 .. n : \E i \in 1 .. n : idx[i] = x
      /\ w \in [1 .. n -> Int] /\ v = [i \in 1 .. n |-> w[idx[i]]]
  BY <1>3 DEF Permuted, Permutation
<1>10. \A i \in 1 .. n : \A j : j \in PeersIn(new, i) <=> j \in 1 .. n /\ prompt[idx[j]] = prompt[idx[i]]
  BY <1>3 DEF SamePrompt, prompt, n
<1>4. ASSUME NEW d \in 1 .. DpSize PROVE RowsOfRank(d) \in SUBSET (1 .. n) /\ Image(idx, RowsOfRank(d)) = sets[d]
  BY RankRows DEF n
<1>5. ASSUME NEW d \in 1 .. DpSize PROVE TotalOf(RowsOfRank(d), v) = TotalOf(sets[d], w)
  BY <1>3, <1>4, TotalOfReordered
<1>6. ASSUME config.balance = "tokens" PROVE EvenLoads(v, RowAlone(n))
  <2>1. \A x \in 1 .. n : \E i \in 1 .. n : TotalOf(RowAlone(n)[i], v) = w[x]
    <3>1. SUFFICES ASSUME NEW x \in 1 .. n PROVE \E i \in 1 .. n : TotalOf(RowAlone(n)[i], v) = w[x]
      OBVIOUS
    <3>2. PICK i \in 1 .. n : idx[i] = x
      BY <1>2
    <3>3. RowAlone(n)[i] = {i} /\ v[i] = w[x]
      BY <1>2, <3>2 DEF RowAlone
    <3>4. v \in [1 .. n -> Int]
      BY <1>2
    <3>5. TotalOf({i}, v) = v[i]
      BY <1>1, <3>4, TotalOfSingle
    <3>6. QED
      BY <3>3, <3>5
  <2>2. \A c, d \in 1 .. DpSize : \E x, y \in 1 .. n : TotalOf(sets[c], w) - TotalOf(sets[d], w) <= w[x] - w[y]
    BY <1>6 DEF AsAsked, Balanced, w, n
  <2>3. ASSUME NEW c \in 1 .. DpSize, NEW d \in 1 .. DpSize
        PROVE  \E i, j \in 1 .. n : TotalOf(RowsOfRank(c), v) - TotalOf(RowsOfRank(d), v)
                                      <= TotalOf(RowAlone(n)[i], v) - TotalOf(RowAlone(n)[j], v)
    <3>1. PICK x \in 1 .. n, y \in 1 .. n : TotalOf(sets[c], w) - TotalOf(sets[d], w) <= w[x] - w[y]
      BY <2>2
    <3>2. PICK i \in 1 .. n : TotalOf(RowAlone(n)[i], v) = w[x]
      BY <2>1
    <3>3. PICK j \in 1 .. n : TotalOf(RowAlone(n)[j], v) = w[y]
      BY <2>1
    <3>4. QED
      BY <1>5, <3>1, <3>2, <3>3
  <2>4. QED
    BY <2>3 DEF EvenLoads, n
<1>7. ASSUME config.balance = "groups" PROVE EvenLoads(v, WithPeers(new, n))
  <2> DEFINE Group(g) == RowsOfGroup(g, Prompts, RolloutN)
  <2>1. \A g \in 1 .. Prompts : \E i \in 1 .. n : TotalOf(WithPeers(new, n)[i], v) = TotalOf(Group(g), w)
    <3>1. SUFFICES ASSUME NEW g \in 1 .. Prompts
                   PROVE  \E i \in 1 .. n : TotalOf(WithPeers(new, n)[i], v) = TotalOf(Group(g), w)
      OBVIOUS
    <3>2. \A x : x \in Group(g) <=> x \in 1 .. n /\ prompt[x] = g
      BY <1>1 DEF RowsOfGroup, prompt
    <3>3. PICK x : x \in Group(g)
      BY <1>1, GroupIs
    <3>4. PICK i \in 1 .. n : idx[i] = x
      BY <1>2, <3>2, <3>3
    <3>5. /\ \A j : j \in PeersIn(new, i) <=> j \in 1 .. n /\ prompt[idx[j]] = g
          /\ WithPeers(new, n)[i] = PeersIn(new, i)
      BY <1>10, <3>2, <3>3, <3>4 DEF WithPeers
    <3> HIDE DEF Group
    <3>6. Image(idx, PeersIn(new, i)) = Group(g)
      <4>1. ASSUME NEW j \in PeersIn(new, i) PROVE idx[j] \in Group(g)
        BY <1>2, <3>2, <3>5
      <4>2. ASSUME NEW y \in Group(g) PROVE \E j \in PeersIn(new, i) : idx[j] = y
        <5>1. PICK j \in 1 .. n : idx[j] = y
          BY <1>2, <3>2
        <5>2. QED
          BY <3>2, <3>5, <5>1
      <4>3. QED
        BY <4>1, <4>2 DEF Image
    <3>7. PeersIn(new, i) \in SUBSET (1 .. n)
      BY <3>5
    <3>8. TotalOf(PeersIn(new, i), v) = TotalOf(Image(idx, PeersIn(new, i)), w)
      BY <1>3, <3>7, TotalOfReordered
    <3>9. QED
      BY <3>5, <3>6, <3>8
  <2> HIDE DEF Group
  <2>2. \A c, d \in 1 .. DpSize : \E g, h \in 1 .. Prompts :
           TotalOf(sets[c], w) - TotalOf(sets[d], w) <= TotalOf(Group(g), w) - TotalOf(Group(h), w)
    BY <1>7 DEF AsAsked, GroupsBalanced, w, Group
  <2>3. ASSUME NEW c \in 1 .. DpSize, NEW d \in 1 .. DpSize
        PROVE  \E i, j \in 1 .. n : TotalOf(RowsOfRank(c), v) - TotalOf(RowsOfRank(d), v)
                                      <= TotalOf(WithPeers(new, n)[i], v) - TotalOf(WithPeers(new, n)[j], v)
    <3>1. PICK g \in 1 .. Prompts, h \in 1 .. Prompts :
             TotalOf(sets[c], w) - TotalOf(sets[d], w) <= TotalOf(Group(g), w) - TotalOf(Group(h), w)
      BY <2>2
    <3>2. PICK i \in 1 .. n : TotalOf(WithPeers(new, n)[i], v) = TotalOf(Group(g), w)
      BY <2>1
    <3>3. PICK j \in 1 .. n : TotalOf(WithPeers(new, n)[j], v) = TotalOf(Group(h), w)
      BY <2>1
    <3>4. QED
      BY <1>5, <3>1, <3>2, <3>3
  <2>4. QED
    BY <2>3 DEF EvenLoads, n
<1>8. ASSUME config.balance = "groups", NEW d \in 1 .. DpSize, NEW i \in RowsOfRank(d), NEW j \in PeersIn(new, i)
      PROVE  j \in RowsOfRank(d)
  <2>1. i \in 1 .. n /\ idx[i] \in sets[d]
    BY <1>4 DEF Image
  <2>2. j \in 1 .. n /\ prompt[idx[j]] = prompt[idx[i]] /\ idx[j] \in 1 .. n
    BY <1>2, <1>10, <2>1
  <2>3. \A x \in sets[d] : \A y \in 1 .. n : prompt[y] = prompt[x] => y \in sets[d]
    BY <1>1, <1>8 DEF AsAsked, GroupsBalanced, prompt
  <2>4. idx[j] \in sets[d]
    BY <2>1, <2>2, <2>3
  <2>5. PICK l \in RowsOfRank(d) : idx[l] = idx[j]
    BY <1>4, <2>4 DEF Image
  <2>6. QED
    BY <1>2, <1>4, <2>2, <2>5
<1>9. QED
  BY <1>6, <1>7, <1>8 DEF EvenRanks, v, n

\* Then the loads of the ranks are balanced.
LEMMA EvenIsBalanced ==
    ASSUME WellFormed(batch, BatchSize), config.balance \in {"tokens", "groups"}, EvenRanks(batch, config.balance)
    PROVE  RanksBalanced
<1> DEFINE share   == BatchSize \div DpSize
           weights == [i \in Rows |-> CalculateWorkload(1 + Len(batch.responses[i].tokens))]
           Of(d)   == ((d - 1) * share + 1) .. (d * share)
           Unit(i) == TotalOf(IF config.balance = "groups" THEN Peers(i) ELSE {i}, weights)
           Load(d) == TotalOf(Of(d), weights)
<1>1. share = Share /\ Rows = 1 .. BatchSize /\ \A i : Peers(i) = PeersIn(batch, i)
  BY DEF Share, Rows, Peers, PeersIn, WellFormed, Table
<1>2. weights = Workloads(SeqLens(batch))
  <2>1. /\ SeqLens(batch) \in [1 .. BatchSize -> Nat \ {0}]
        /\ \A i \in 1 .. BatchSize : SeqLens(batch)[i] = 1 + Len(batch.responses[i].tokens)
    BY BatchSizeIs, LensAre
  <2>2. DOMAIN SeqLens(batch) = 1 .. BatchSize
    BY <2>1
  <2>3. Workloads(SeqLens(batch)) = [i \in 1 .. BatchSize |-> CalculateWorkload(SeqLens(batch)[i])]
    BY <2>2 DEF Workloads
  <2>4. QED
    BY <1>1, <2>1, <2>3
<1>3. \A d : Of(d) = RowsOfRank(d)
  BY <1>1 DEF RowsOfRank
<1> HIDE DEF weights, share, Of
<1>4. ASSUME NEW c \in 1 .. DpSize, NEW d \in 1 .. DpSize
      PROVE  \E i, j \in Rows : Load(c) - Load(d) <= Unit(i) - Unit(j)
  <2>1. CASE config.balance = "tokens"
    <3>1. PICK i \in 1 .. BatchSize, j \in 1 .. BatchSize :
            TotalOf(RowsOfRank(c), weights) - TotalOf(RowsOfRank(d), weights)
              <= TotalOf(RowAlone(BatchSize)[i], weights) - TotalOf(RowAlone(BatchSize)[j], weights)
      BY <1>2, <2>1 DEF EvenRanks, EvenLoads
    <3>2. RowAlone(BatchSize)[i] = {i} /\ RowAlone(BatchSize)[j] = {j}
      BY DEF RowAlone
    <3>3. Unit(i) = TotalOf({i}, weights) /\ Unit(j) = TotalOf({j}, weights)
      BY <2>1
    <3>4. QED
      BY <1>1, <1>3, <3>1, <3>2, <3>3
  <2>2. CASE config.balance = "groups"
    <3>1. PICK i \in 1 .. BatchSize, j \in 1 .. BatchSize :
            TotalOf(RowsOfRank(c), weights) - TotalOf(RowsOfRank(d), weights)
              <= TotalOf(WithPeers(batch, BatchSize)[i], weights) - TotalOf(WithPeers(batch, BatchSize)[j], weights)
      BY <1>2, <2>2 DEF EvenRanks, EvenLoads
    <3>2. WithPeers(batch, BatchSize)[i] = PeersIn(batch, i) /\ WithPeers(batch, BatchSize)[j] = PeersIn(batch, j)
      BY DEF WithPeers
    <3>3. Unit(i) = TotalOf(PeersIn(batch, i), weights) /\ Unit(j) = TotalOf(PeersIn(batch, j), weights)
      BY <1>1, <2>2
    <3>4. QED
      BY <1>1, <1>3, <3>1, <3>2, <3>3
  <2>3. QED
    BY <2>1, <2>2
<1>5. config.balance = "groups" => \A d \in 1 .. DpSize : \A i \in Of(d) : Peers(i) \subseteq Of(d)
  BY <1>1, <1>3 DEF EvenRanks
<1>6. QED
  BY <1>4, <1>5 DEF RanksBalanced, weights, share, Of

BalancedInvariant ==
    phase = "balanced" /\ config.balance \in {"tokens", "groups"} => EvenRanks(batch, config.balance)

\* Balancing makes the loads of the ranks differ by no more than two rows do; with groups, by
\* no more than two groups do, and the rows of a prompt stay together on one rank.
THEOREM LoadsAreBalanced == Spec => []RanksBalanced
<1>1. BatchInvariant /\ BalancedInvariant => RanksBalanced
  <2>1. SUFFICES ASSUME BatchInvariant, BalancedInvariant, phase = "balanced", config.balance # "none"
                 PROVE  RanksBalanced
    BY DEF RanksBalanced
  <2>2. config.balance \in {"tokens", "groups"}
    BY <2>1, ConfigIs DEF BatchInvariant
  <2>3. WellFormed(batch, BatchSize)
    BY <2>1 DEF BatchInvariant, Training, Faithful
  <2>4. QED
    BY <2>1, <2>2, <2>3, EvenIsBalanced DEF BalancedInvariant
<1>2. Init => BalancedInvariant
  BY DEF Init, BalancedInvariant
<1>3. BatchInvariant /\ BalancedInvariant /\ [Next]_vars => BalancedInvariant'
  <2>1. SUFFICES ASSUME BatchInvariant, BalancedInvariant, [Next]_vars PROVE BalancedInvariant'
    OBVIOUS
  <2>2. CASE BalanceBatch
    <3>1. /\ phase = "generated" /\ config' = config /\ WellFormed(batch, BatchSize)
          /\ batch.uid = Asked(Prompts, RolloutN) /\ config \in Configs
      BY <2>1, <2>2 DEF BalanceBatch, BatchInvariant, Training, Faithful
    <3>2. SUFFICES ASSUME config.balance \in {"tokens", "groups"} PROVE EvenRanks(batch', config.balance)
      BY <3>1 DEF BalancedInvariant
    <3>3. PICK sets : Divided(sets, Workloads(SeqLens(batch)))
      BY <3>1, <3>2, GlobalPartitionsDivide
    <3>4. Reordered(FlattenSeq(GlobalPartitions), GlobalPartitions, sets)
      BY <3>3, PartitionsReorder
    <3>5. batch' = SelectIdxs(batch, FlattenSeq(GlobalPartitions))
      BY <2>2, <3>2 DEF BalanceBatch
    <3>6. Division(sets, BatchSize, DpSize) /\ AsAsked(sets, Workloads(SeqLens(batch)))
      BY <3>3 DEF Divided
    <3>7. QED
      BY <3>1, <3>4, <3>5, <3>6, BalancingEvens
  <2>3. CASE ~BalanceBatch
    <3>1. phase' = "balanced" => UNCHANGED vars
      BY <2>1, <2>3 DEF Next, vars, Generate, ComputeReward, ComputeOldLogProb, BuildSelfDistillationBatch,
           TeacherLogProbs, ComputeAdvantage, UpdateActor, Validate, NextBatch
    <3>2. QED
      BY <2>1, <3>1 DEF BalancedInvariant, vars
  <2>4. QED
    BY <2>2, <2>3
<1>4. QED
  BY <1>1, <1>2, <1>3, BatchInvariantHolds, PTL DEF Spec

-----------------------------------------------------------------------------
(* Sums over what is generated *)

\* The mask of a set of positions.
Indicator(G, n) == [t \in 1 .. n |-> IF t \in G THEN 1 ELSE 0]

\* A mask adds up to the number of positions it marks.
LEMMA TotalCounts ==
    ASSUME NEW n \in Nat, NEW G \in SUBSET (1 .. n)
    PROVE  Total(Indicator(G, n)) = Cardinality(G) /\ Cardinality(G) \in Nat
           /\ (Cardinality(G) = 0 <=> G = {})
<1> DEFINE s == Indicator(G, n)
<1>1. s \in [1 .. n -> Int] /\ \A k \in 1 .. n : s[k] = IF k \in G THEN 1 ELSE 0
  BY DEF Indicator
<1> HIDE DEF s
<1>2. PICK f \in [0 .. n -> Int] :
         f[0] = 0 /\ (\A k \in 1 .. n : f[k] = f[k - 1] + s[k]) /\ Total(s) = f[n]
  BY <1>1, TotalIs
<1>3. ASSUME NEW A \in SUBSET (1 .. n) PROVE IsFiniteSet(A) /\ Cardinality(A) \in Nat
  <2>1. IsFiniteSet(1 .. n)
    BY FS_Interval
  <2>2. IsFiniteSet(A)
    BY <2>1, FS_Subset
  <2>3. QED
    BY <2>2, FS_CardinalityType
<1>4. \A t \in G : t \in 1 .. n
  OBVIOUS
<1> DEFINE upto == [k \in 0 .. n |-> {t \in G : t <= k}]
           g == [k \in 0 .. n |-> Cardinality(upto[k])]
<1>5. g[0] = 0
  <2>1. upto[0] = {}
    <3>1. 0 \in 0 .. n
      OBVIOUS
    <3>2. upto[0] = {t \in G : t <= 0}
      BY <3>1
    <3> HIDE DEF upto
    <3>3. \A t \in G : ~(t <= 0)
      BY <1>4
    <3>4. QED
      BY <3>2, <3>3
  <2> HIDE DEF upto
  <2>2. Cardinality({}) = 0
    BY FS_EmptySet
  <2>3. 0 \in 0 .. n
    OBVIOUS
  <2>4. g[0] = Cardinality(upto[0])
    BY <2>3
  <2> HIDE DEF g
  <2>5. QED
    BY <2>1, <2>2, <2>4
<1>6. ASSUME NEW k \in 1 .. n PROVE g[k] = g[k - 1] + s[k]
  <2>1. k \in 0 .. n /\ k - 1 \in 0 .. n
    OBVIOUS
  <2>2. upto[k] = {t \in G : t <= k} /\ upto[k - 1] = {t \in G : t <= k - 1}
    BY <2>1
  <2>3. g[k] = Cardinality(upto[k]) /\ g[k - 1] = Cardinality(upto[k - 1])
    <3> HIDE DEF upto
    <3>1. QED
      BY <2>1
  <2> HIDE DEF upto, g
  <2>4. IsFiniteSet(upto[k - 1]) /\ Cardinality(upto[k - 1]) \in Nat
    <3>1. upto[k - 1] \in SUBSET (1 .. n)
      BY <1>4, <2>2
    <3>2. QED
      BY <1>3, <3>1
  <2>5. CASE k \in G
    <3>1. upto[k] = upto[k - 1] \cup {k} /\ k \notin upto[k - 1]
      <4>1. \A t \in G : t \in Int /\ (t <= k <=> t <= k - 1 \/ t = k)
        BY <1>4
      <4>2. k \notin upto[k - 1]
        BY <2>2
      <4>3. \A t : t \in upto[k] <=> t \in upto[k - 1] \/ t = k
        BY <2>2, <2>5, <4>1
      <4>4. QED
        BY <4>2, <4>3
    <3>2. Cardinality(upto[k - 1] \cup {k}) = Cardinality(upto[k - 1]) + 1
      BY <2>4, <3>1, FS_AddElement
    <3>3. s[k] = 1
      BY <1>1, <2>5
    <3>4. QED
      BY <2>3, <3>1, <3>2, <3>3
  <2>6. CASE k \notin G
    <3>1. upto[k] = upto[k - 1]
      <4>1. \A t \in G : t <= k <=> t <= k - 1
        BY <1>4, <2>6
      <4>2. QED
        BY <2>2, <4>1
    <3>2. s[k] = 0
      BY <1>1, <2>6
    <3>3. QED
      BY <2>3, <2>4, <3>1, <3>2
  <2>7. QED
    BY <2>5, <2>6
<1>7. f[n] = Cardinality(G)
  <2>1. upto[n] = G
    <3>1. n \in 0 .. n
      OBVIOUS
    <3>2. upto[n] = {t \in G : t <= n}
      BY <3>1
    <3> HIDE DEF upto
    <3>3. QED
      BY <1>4, <3>2
  <2>2. g[n] = Cardinality(upto[n])
    <3>1. n \in 0 .. n
      OBVIOUS
    <3> HIDE DEF upto
    <3>2. QED
      BY <3>1
  <2> HIDE DEF upto, g
  <2>3. f[0] = g[0] /\ Sums(f, s, n) /\ Sums(g, s, n)
    BY <1>2, <1>5, <1>6 DEF Sums
  <2>4. f[n] = g[n]
    BY <2>3, SumsAgree
  <2>5. QED
    BY <2>1, <2>2, <2>4
<1>8. IsFiniteSet(G) /\ Cardinality(G) \in Nat
  BY <1>3
<1>9. Cardinality(G) = 0 <=> G = {}
  BY <1>8, FS_EmptySet
<1>10. QED
  BY <1>2, <1>7, <1>8, <1>9 DEF s

\* Masked terms add up to the sum over the positions of the mask.
LEMMA MaskedTotal ==
    ASSUME NEW n \in Nat, NEW w \in [1 .. n -> Int], NEW G, NEW s, s = [t \in 1 .. n |-> IF t \in G THEN w[t] ELSE 0]
    PROVE  Total(s) = TotalOf(G, w) /\ TotalOf(G, w) \in Int
<1>1. s = Chosen(G, w, n)
  BY DEF Chosen
<1>2. QED
  BY <1>1, TotalOfIs

\* Zeros add up to zero.
LEMMA TotalOfZeros ==
    ASSUME NEW n \in Nat, NEW s, s = [t \in 1 .. n |-> 0]
    PROVE  Total(s) = 0
<1>1. s \in [1 .. n -> Int] /\ s = Chosen({}, s, n)
  BY DEF Chosen
<1>2. TotalOf({}, s) = Total(Chosen({}, s, n)) /\ TotalOf({}, s) = 0
  BY <1>1, TotalOfIs, TotalOfEmpty
<1>3. QED
  BY <1>1, <1>2

\* No clip changes 0.
LEMMA ZeroBounded == \A a : Bounded(0, a) = 0
<1>1. ClipAdvValue \in Nat
  BY AdvantagesAssumption
<1>2. ASSUME NEW c \in Nat PROVE Min({0, c}) = 0 /\ Max({-c, 0}) = 0
  BY DEF Min, Max
<1>3. Clamp(0, -ClipAdvValue, ClipAdvValue) = 0
  BY <1>1, <1>2 DEF Clamp
<1>4. ~(0 < 0)
  OBVIOUS
<1>5. QED
  BY <1>3, <1>4 DEF Bounded

-----------------------------------------------------------------------------
(* The advantages *)

\* The rows of a training batch, their masks and their groups.
LEMMA RowsAre ==
    ASSUME Faithful(batch)
    PROVE  /\ Rows = 1 .. BatchSize /\ DOMAIN batch.uid = 1 .. BatchSize /\ Len(batch.uid) = BatchSize
           /\ Masks = [j \in 1 .. BatchSize |-> Indicator(Generated(j), ResponseLength)]
           /\ \A i \in 1 .. BatchSize :
                /\ Generated(i) \in SUBSET (1 .. ResponseLength)
                /\ RowsWith(batch.uid, batch.uid[i]) = Peers(i) /\ i \in Peers(i)
                /\ Peers(i) \in SUBSET (1 .. BatchSize) /\ batch.responses[i].score \in {0, 1}
<1>1. /\ batch.responses = [j \in 1 .. BatchSize |-> batch.responses[j]]
      /\ batch.uid = [j \in 1 .. BatchSize |-> batch.uid[j]]
      /\ \A j \in 1 .. BatchSize : batch.responses[j] \in Response /\ batch.uid[j] = batch.responses[j].prompt
  BY DEF Faithful, WellFormed, Table
<1>2. Rows = 1 .. BatchSize /\ DOMAIN batch.uid = 1 .. BatchSize
  BY <1>1 DEF Rows
<1>3. Len(batch.uid) = BatchSize
  BY <1>1, BatchSizeIs, EvaluatedIs
<1>4. ASSUME NEW i \in 1 .. BatchSize
      PROVE  /\ Generated(i) \in SUBSET (1 .. ResponseLength) /\ batch.responses[i].score \in {0, 1}
             /\ Mask(batch.responses[i]) = Indicator(Generated(i), ResponseLength)
  <2> DEFINE r == batch.responses[i]
  <2>1. /\ Len(r.tokens) \in 1 .. ResponseLength /\ r.tokens \in [1 .. Len(r.tokens) -> {"gen", "tool"}]
        /\ r.score \in {0, 1}
    BY <1>1, ResponseIs
  <2>2. Generated(i) = {t \in 1 .. Len(r.tokens) : r.tokens[t] = "gen"}
    BY <2>1 DEF Generated
  <2> HIDE DEF r
  <2>3. \A t \in 1 .. ResponseLength : t \in Generated(i) <=> t <= Len(r.tokens) /\ r.tokens[t] = "gen"
    BY <2>1, <2>2, Positive
  <2>4. Generated(i) \in SUBSET (1 .. ResponseLength)
    BY <2>1, <2>2, Positive
  <2>5. Mask(r) = Indicator(Generated(i), ResponseLength)
    BY <2>3 DEF Mask, Indicator
  <2>6. QED
    BY <2>1, <2>4, <2>5 DEF r
<1>5. Masks = [j \in 1 .. BatchSize |-> Indicator(Generated(j), ResponseLength)]
  <2>1. Masks = [j \in 1 .. BatchSize |-> Mask(batch.responses[j])]
    BY <1>2 DEF Masks, Rows
  <2>2. \A j \in 1 .. BatchSize : Mask(batch.responses[j]) = Indicator(Generated(j), ResponseLength)
    BY <1>4
  <2>3. QED
    BY <2>1, <2>2
<1>6. ASSUME NEW i \in 1 .. BatchSize
      PROVE  /\ RowsWith(batch.uid, batch.uid[i]) = Peers(i) /\ i \in Peers(i)
             /\ Peers(i) \in SUBSET (1 .. BatchSize)
  BY <1>1, <1>2 DEF RowsWith, Peers
<1>7. QED
  BY <1>2, <1>3, <1>4, <1>5, <1>6

\* The scores of the responses.
Scores == [j \in 1 .. BatchSize |-> batch.responses[j].score]

\* With GRPO, the score of a row against the mean of its group.
LEMMA GrpoIs ==
    ASSUME Faithful(batch), NEW i \in 1 .. BatchSize, NEW t \in 1 .. ResponseLength
    PROVE  GrpoOutcomeAdvantage(ScoresOf(batch), Masks, batch.uid)[i][t]
             = IF t \in Generated(i) THEN AgainstPeers(i) ELSE 0
<1> DEFINE totals == [j \in DOMAIN batch.uid |-> Total(ScoresOf(batch)[j])]
           rows == RowsWith(batch.uid, batch.uid[i])
           mean == IF Cardinality(rows) = 1 THEN 0 ELSE Mean(TotalOf(rows, totals), Cardinality(rows))
<1>1. totals = Scores
  <2>1. \A j \in 1 .. BatchSize : Total(ScoresOf(batch)[j]) = batch.responses[j].score
    BY ScoreTotal
  <2>2. QED
    BY <2>1, RowsAre DEF Scores
<1>2. rows = Peers(i) /\ i \in Peers(i) /\ Peers(i) \in SUBSET (1 .. BatchSize)
  BY RowsAre
<1>3. Scores \in [1 .. BatchSize -> Int]
  BY RowsAre DEF Scores
<1>4. /\ DOMAIN Masks[i] = 1 .. ResponseLength
      /\ Masks[i][t] = IF t \in Generated(i) THEN 1 ELSE 0
  <2>1. Masks[i] = Indicator(Generated(i), ResponseLength)
    BY RowsAre
  <2>2. QED
    BY <2>1 DEF Indicator
<1>5. GrpoOutcomeAdvantage(ScoresOf(batch), Masks, batch.uid)[i][t] = (Scale * totals[i] - mean) * Masks[i][t]
  <2>1. i \in DOMAIN batch.uid
    BY RowsAre
  <2>2. QED
    BY <1>4, <2>1 DEF GrpoOutcomeAdvantage
<1>6. mean = IF Peers(i) = {i} THEN 0 ELSE (Scale * TotalOf(Peers(i), Scores)) \div Cardinality(Peers(i))
  <2>1. Cardinality(Peers(i)) = 1 <=> Peers(i) = {i}
    <3>1. IsFiniteSet(Peers(i))
      <4>1. IsFiniteSet(1 .. BatchSize)
        BY FS_Interval, BatchSizeIs
      <4>2. QED
        BY <1>2, <4>1, FS_Subset
    <3>2. Cardinality({i}) = 1
      BY FS_Singleton
    <3>3. ASSUME Cardinality(Peers(i)) = 1 PROVE Peers(i) = {i}
      <4>1. PICK x : Peers(i) = {x}
        BY <3>1, <3>3, FS_Singleton
      <4>2. QED
        BY <1>2, <4>1
    <3>4. QED
      BY <3>2, <3>3
  <2> HIDE DEF totals, rows
  <2>2. QED
    BY <1>1, <1>2, <2>1 DEF Mean
<1>7. AgainstPeers(i) = IF Peers(i) = {i} THEN Scale * Scores[i] ELSE Scale * Scores[i] - mean
  <2>1. [j \in Rows |-> batch.responses[j].score] = Scores
    BY RowsAre DEF Scores
  <2> HIDE DEF mean
  <2>2. QED
    BY <1>6, <2>1 DEF AgainstPeers
<1>8. mean \in Int /\ Scale * Scores[i] \in Int
  <2>1. Scale \in Nat /\ TotalOf(Peers(i), Scores) \in Int /\ Scores[i] \in Int
    BY <1>3, TotalOfIs, AdvantagesAssumption, BatchSizeIs
  <2>2. Cardinality(Peers(i)) \in Nat \ {0}
    <3>1. Cardinality(Peers(i)) \in Nat /\ (Cardinality(Peers(i)) = 0 <=> Peers(i) = {})
      BY <1>2, TotalCounts, BatchSizeIs
    <3>2. QED
      BY <1>2, <3>1
  <2> HIDE DEF mean
  <2>3. Scale * TotalOf(Peers(i), Scores) \in Int /\ Scale * Scores[i] \in Int
    BY <2>1
  <2>4. (Scale * TotalOf(Peers(i), Scores)) \div Cardinality(Peers(i)) \in Int
    BY <2>2, <2>3
  <2>5. QED
    BY <1>6, <2>3, <2>4
<1> HIDE DEF mean, totals, rows
<1>9. CASE t \in Generated(i)
  <2>1. GrpoOutcomeAdvantage(ScoresOf(batch), Masks, batch.uid)[i][t] = (Scale * Scores[i] - mean) * 1
    BY <1>1, <1>4, <1>5, <1>9
  <2>2. AgainstPeers(i) = Scale * Scores[i] - mean
    <3>1. CASE Peers(i) = {i}
      BY <1>6, <1>7, <1>8, <3>1
    <3>2. CASE Peers(i) # {i}
      BY <1>7, <3>2
    <3>3. QED
      BY <3>1, <3>2
  <2>3. QED
    BY <1>8, <1>9, <2>1, <2>2
<1>10. CASE t \notin Generated(i)
  <2>1. GrpoOutcomeAdvantage(ScoresOf(batch), Masks, batch.uid)[i][t] = (Scale * Scores[i] - mean) * 0
    BY <1>1, <1>4, <1>5, <1>10
  <2>2. QED
    BY <1>8, <1>10, <2>1
<1>11. QED
  BY <1>9, <1>10

\* Responses that were drawn for the prompts of a training batch.
FromDraws(responses) == \A i \in 1 .. BatchSize : responses[i] \in TrainingResponse

\* What the teacher says of the tokens of a row.
Approvals(i) == [t \in 1 .. ResponseLength |-> Approval(i, t)]

\* The teacher has judged the batch.
Judged ==
    /\ Faithful(batch) /\ Taught(batch) /\ FromDraws(batch.responses)
    /\ "teacher_input_ids" \in DOMAIN batch /\ batch.teacher_log_probs = batch.teacher_input_ids

\* The judgements are those of the responses, and a row is distilled if the teacher
\* was shown something.
LEMMA JudgedRow ==
    ASSUME Judged, NEW i \in 1 .. BatchSize
    PROVE  /\ Judgements[i] = Approvals(i) /\ Approvals(i) \in [1 .. ResponseLength -> Int]
           /\ batch.self_distillation_mask[i] \in {0, 1}
           /\ batch.self_distillation_mask[i] = 1 <=> Shown(i).context # None \/ Shown(i).feedback
<1>1. Context(batch, i) /\ DOMAIN batch.uid = 1 .. BatchSize /\ batch.responses[i] \in TrainingResponse
  BY RowsAre DEF Judged, Taught, FromDraws
<1>2. Shown(i) = batch.teacher_input_ids[i] /\ Shown(i).response = batch.responses[i]
  <2>1. Column("teacher_input_ids", batch.teacher_input_ids, batch.responses)
    BY DEF Judged, Faithful, Asking
  <2>2. QED
    BY <2>1 DEF Judged, Shown, Column
<1>3. Shown(i).context \in TrainingResponse \cup {None}
  <2>1. Shown(i).context # None => Shown(i).context \in ToSet(batch.responses)
    BY <1>1, <1>2 DEF Context
  <2>2. ASSUME NEW s \in ToSet(batch.responses) PROVE s \in TrainingResponse
    <3>1. DOMAIN batch.responses = 1 .. BatchSize
      BY RowsAre DEF Judged, Rows
    <3>2. QED
      BY <2>2, <3>1 DEF ToSet, Judged, FromDraws
  <2>3. QED
    BY <2>1, <2>2
<1>4. \A t \in 1 .. ResponseLength : Approval(i, t) \in Int
  BY <1>1, <1>3, ScoringAssumption DEF Approval
<1>5. Judgements[i] = [t \in 1 .. ResponseLength |->
        Judgement(batch.teacher_log_probs[i].response, batch.teacher_log_probs[i].context, t)]
  BY <1>1 DEF Judgements
<1>6. Judgements[i] = Approvals(i)
  BY <1>2, <1>5 DEF Approvals, Approval, Shown
<1>7. Approvals(i) \in [1 .. ResponseLength -> Int]
  BY <1>4 DEF Approvals
<1>8. /\ batch.self_distillation_mask[i] \in {0, 1}
      /\ batch.self_distillation_mask[i] = 1 <=> Shown(i).context # None \/ Shown(i).feedback
  BY <1>1, <1>2 DEF Context
<1>9. QED
  BY <1>6, <1>7, <1>8

\* The masked rewards of a row and the mask of its tokens, if the row is distilled.
MaskedRow(reward, effective, product, G, a, d, n) ==
    /\ reward = [t \in 1 .. n |-> a[t] * Indicator(G, n)[t]]
    /\ effective = [t \in 1 .. n |-> Indicator(G, n)[t] * d]
    /\ product = [t \in 1 .. n |-> reward[t] * effective[t]]

\* What they add up to.
MaskedSums(reward, effective, product, G, a, d, n) ==
    /\ Total(effective) = IF d = 1 THEN Cardinality(G) ELSE 0
    /\ Total(product) = IF d = 1 THEN TotalOf(G, a) ELSE 0
    /\ \A t \in 1 .. n : effective[t] = IF d = 1 /\ t \in G THEN 1 ELSE 0
    /\ \A t \in G : reward[t] = a[t]

LEMMA MaskedTotals ==
    ASSUME NEW n \in Nat, NEW G \in SUBSET (1 .. n), NEW a \in [1 .. n -> Int], NEW d \in {0, 1},
           NEW reward, NEW effective, NEW product, MaskedRow(reward, effective, product, G, a, d, n)
    PROVE  MaskedSums(reward, effective, product, G, a, d, n)
<1>1. \A t \in 1 .. n : Indicator(G, n)[t] = IF t \in G THEN 1 ELSE 0
  BY DEF Indicator
<1>2. \A t \in 1 .. n : a[t] \in Int
  OBVIOUS
<1>3. \A t \in 1 .. n : effective[t] = IF d = 1 /\ t \in G THEN 1 ELSE 0
  <2>1. \A t \in 1 .. n : effective[t] = Indicator(G, n)[t] * d
    BY DEF MaskedRow
  <2>2. QED
    BY <1>1, <2>1
<1>4. \A t \in 1 .. n : reward[t] = IF t \in G THEN a[t] ELSE 0
  <2>1. \A t \in 1 .. n : reward[t] = a[t] * Indicator(G, n)[t]
    BY DEF MaskedRow
  <2>2. QED
    BY <1>1, <1>2, <2>1
<1>5. \A t \in 1 .. n : product[t] = IF d = 1 /\ t \in G THEN a[t] ELSE 0
  <2>1. \A t \in 1 .. n : product[t] = reward[t] * effective[t]
    BY DEF MaskedRow
  <2>2. QED
    BY <1>2, <1>3, <1>4, <2>1
<1>6. effective = [t \in 1 .. n |-> effective[t]] /\ product = [t \in 1 .. n |-> product[t]]
  BY DEF MaskedRow
<1>7. CASE d = 1
  <2>1. effective = Indicator(G, n)
    BY <1>3, <1>6, <1>7 DEF Indicator
  <2>2. product = [t \in 1 .. n |-> IF t \in G THEN a[t] ELSE 0]
    BY <1>5, <1>6, <1>7
  <2>3. Total(effective) = Cardinality(G) /\ Total(product) = TotalOf(G, a)
    <3>1. Total(effective) = Cardinality(G)
      BY <2>1, TotalCounts
    <3>2. Total(product) = TotalOf(G, a)
      BY <2>2, MaskedTotal
    <3>3. QED
      BY <3>1, <3>2
  <2>4. QED
    BY <1>3, <1>4, <1>7, <2>3 DEF MaskedSums
<1>8. CASE d = 0
  <2>1. effective = [t \in 1 .. n |-> 0] /\ product = [t \in 1 .. n |-> 0]
    BY <1>3, <1>5, <1>6, <1>8
  <2>2. Total(effective) = 0 /\ Total(product) = 0
    BY <2>1, TotalOfZeros
  <2>3. QED
    BY <1>3, <1>4, <1>8, <2>2 DEF MaskedSums
<1>9. QED
  BY <1>7, <1>8

\* The numbers and the totals of rows, with 0 for a row that is not distilled.
Distilled(counts, sums, numbers, totals, d, n) ==
    /\ \A j \in 1 .. n : numbers[j] >= 0 /\ (numbers[j] = 0 => totals[j] = 0)
    /\ \A j \in 1 .. n : /\ counts[j] = IF d[j] = 1 THEN numbers[j] ELSE 0
                         /\ sums[j] = IF d[j] = 1 THEN totals[j] ELSE 0

\* The sums over the rows of a group with tokens, and over those that are distilled.
SameSums(counts, sums, numbers, totals, d, group) ==
    LET rows  == {j \in group : counts[j] > 0}
        shown == {j \in group : d[j] = 1}
    IN  TotalOf(rows, counts) = TotalOf(shown, numbers) /\ TotalOf(rows, sums) = TotalOf(shown, totals)

\* They add up to those of the rows with a context, over any group.
LEMMA DistilledTotals ==
    ASSUME NEW n \in Nat, NEW numbers \in [1 .. n -> Int], NEW totals \in [1 .. n -> Int],
           NEW counts \in [1 .. n -> Int], NEW sums \in [1 .. n -> Int], NEW d,
           Distilled(counts, sums, numbers, totals, d, n),
           NEW group \in SUBSET (1 .. n)
    PROVE  SameSums(counts, sums, numbers, totals, d, group)
<1> DEFINE rows  == {j \in group : counts[j] > 0}
           shown == {j \in group : d[j] = 1}
<1>1. \A j \in 1 .. n : /\ counts[j] = IF d[j] = 1 THEN numbers[j] ELSE 0
                        /\ sums[j] = IF d[j] = 1 THEN totals[j] ELSE 0
                        /\ numbers[j] \in Int /\ numbers[j] >= 0
  BY DEF Distilled
<1>2. \A j \in 1 .. n : j \in rows <=> j \in group /\ d[j] = 1 /\ numbers[j] # 0
  BY <1>1
<1>3. \A j \in 1 .. n : j \in shown <=> j \in group /\ d[j] = 1
  OBVIOUS
<1> HIDE DEF rows, shown
<1>4. Chosen(rows, counts, n) = Chosen(shown, numbers, n)
  BY <1>1, <1>2, <1>3 DEF Chosen
<1>5. Chosen(rows, sums, n) = Chosen(shown, totals, n)
  <2>1. ASSUME NEW j \in 1 .. n
        PROVE  (IF j \in rows THEN sums[j] ELSE 0) = (IF j \in shown THEN totals[j] ELSE 0)
    <3>1. numbers[j] = 0 => totals[j] = 0
      BY DEF Distilled
    <3>2. QED
      BY <1>1, <1>2, <1>3, <3>1
  <2>2. QED
    BY <2>1 DEF Chosen
<1>6. TotalOf(rows, counts) = TotalOf(shown, numbers)
  <2>1. TotalOf(rows, counts) = Total(Chosen(rows, counts, n))
    BY TotalOfIs
  <2>2. TotalOf(shown, numbers) = Total(Chosen(shown, numbers, n))
    BY TotalOfIs
  <2>3. QED
    BY <1>4, <2>1, <2>2
<1>7. TotalOf(rows, sums) = TotalOf(shown, totals)
  <2>1. TotalOf(rows, sums) = Total(Chosen(rows, sums, n))
    BY TotalOfIs
  <2>2. TotalOf(shown, totals) = Total(Chosen(shown, totals, n))
    BY TotalOfIs
  <2>3. QED
    BY <1>5, <2>1, <2>2
<1>8. QED
  BY <1>6, <1>7 DEF rows, shown, SameSums

\* How many tokens of a row were generated, and what the teacher says of them.
TokenNumbers == [j \in 1 .. BatchSize |-> Cardinality(Generated(j))]
ApprovalTotals == [j \in 1 .. BatchSize |-> TotalOf(Generated(j), Approvals(j))]

\* Whether the teacher was shown something.
ShownRows(i) == {j \in Peers(i) : batch.self_distillation_mask[j] = 1}

\* The mean that a token is compared with.
LEMMA AgainstTokensIs ==
    ASSUME Judged, NEW i \in 1 .. BatchSize, NEW t \in 1 .. ResponseLength
    PROVE  AgainstTokens(i, t) =
             IF batch.self_distillation_mask[i] = 1
             THEN Scale * Approval(i, t) - (Scale * TotalOf(ShownRows(i), ApprovalTotals)) \div TotalOf(ShownRows(i), TokenNumbers)
             ELSE 0
<1>1. Rows = 1 .. BatchSize /\ Peers(i) \in SUBSET (1 .. BatchSize) /\ i \in Peers(i)
  BY RowsAre DEF Judged
<1>2. \A j \in 1 .. BatchSize : batch.self_distillation_mask[j] = 1 <=> Shown(j).context # None \/ Shown(j).feedback
  BY JudgedRow
<1>3. ShownRows(i) = {j \in Peers(i) : Shown(j).context # None \/ Shown(j).feedback}
  BY <1>1, <1>2 DEF ShownRows
<1>4. [j \in Rows |-> Cardinality(Generated(j))] = TokenNumbers
  BY <1>1 DEF TokenNumbers
<1>5. [j \in Rows |-> TotalOf(Generated(j), [u \in 1 .. ResponseLength |-> Approval(j, u)])] = ApprovalTotals
  BY <1>1 DEF ApprovalTotals, Approvals
<1>6. i \in ShownRows(i) <=> batch.self_distillation_mask[i] = 1
  BY <1>1 DEF ShownRows
<1>7. AgainstTokens(i, t) =
        IF i \in ShownRows(i)
        THEN Scale * Approval(i, t) - (Scale * TotalOf(ShownRows(i), ApprovalTotals)) \div TotalOf(ShownRows(i), TokenNumbers)
        ELSE 0
  BY <1>3, <1>4, <1>5, Zenon DEF AgainstTokens
<1>8. QED
  BY <1>6, <1>7

\* The rewards of the tokens with a context add up to what the teacher says of them,
\* so a token is below the threshold when its approval is low.
LEMMA ThresholdIs ==
    ASSUME Judged, NEW sums,
           sums = [j \in 1 .. BatchSize |-> IF batch.self_distillation_mask[j] = 1 THEN ApprovalTotals[j] ELSE 0],
           ApprovalTotals \in [1 .. BatchSize -> Int], NEW a \in Int
    PROVE  SafetyThreshold(Total(sums)) # 0 /\ a < SafetyThreshold(Total(sums)) <=> Low(a)
<1> DEFINE shown == {j \in 1 .. BatchSize : batch.self_distillation_mask[j] = 1}
<1>1. Rows = 1 .. BatchSize
  BY RowsAre DEF Judged
<1>2. {j \in Rows : Shown(j).context # None \/ Shown(j).feedback} = shown
  BY <1>1, JudgedRow
<1>3. [j \in Rows |-> TotalOf(Generated(j), [u \in 1 .. ResponseLength |-> Approval(j, u)])] = ApprovalTotals
  BY <1>1 DEF ApprovalTotals, Approvals
<1>4. Disapproved <=> TotalOf(shown, ApprovalTotals) < 0
  BY <1>2, <1>3, Zenon DEF Disapproved
<1>5. sums = Chosen(shown, ApprovalTotals, BatchSize)
  BY DEF Chosen
<1> HIDE DEF shown
<1>6. TotalOf(shown, ApprovalTotals) = Total(sums) /\ Total(sums) \in Int
  <2>1. BatchSize \in Nat
    BY BatchSizeIs
  <2> DEFINE weights == ApprovalTotals
  <2>2. weights \in [1 .. BatchSize -> Int]
    OBVIOUS
  <2> HIDE DEF weights
  <2>3. TotalOf(shown, weights) = Total(Chosen(shown, weights, BatchSize)) /\ TotalOf(shown, weights) \in Int
    BY <2>1, <2>2, TotalOfIs
  <2>4. QED
    BY <1>5, <2>3 DEF weights
<1>7. SafetyThresh \in Int
  BY AdvantagesAssumption
<1>8. CASE SafetyThresh > 0 /\ Total(sums) < 0
  <2>1. SafetyThreshold(Total(sums)) = -10 * SafetyThresh
    BY <1>7, <1>8 DEF SafetyThreshold
  <2>2. Low(a) <=> a < -10 * SafetyThresh
    <3>1. SafetyThresh # 0 /\ (a < -10 * SafetyThresh => a < SafetyThresh)
      BY <1>7, <1>8
    <3>2. Disapproved
      BY <1>4, <1>6, <1>8
    <3>3. QED
      BY <1>8, <3>1, <3>2 DEF Low
  <2>3. -10 * SafetyThresh # 0
    BY <1>7, <1>8
  <2>4. QED
    BY <2>1, <2>2, <2>3
<1>9. CASE ~(SafetyThresh > 0 /\ Total(sums) < 0)
  <2>1. SafetyThreshold(Total(sums)) = SafetyThresh
    BY <1>9 DEF SafetyThreshold
  <2>2. Low(a) <=> SafetyThresh # 0 /\ a < SafetyThresh
    BY <1>4, <1>6, <1>9 DEF Low
  <2>3. QED
    BY <2>1, <2>2
<1>10. QED
  BY <1>8, <1>9

\* With TASD, the approval of a token against that of the tokens with a context.
LEMMA TasdIs ==
    ASSUME Judged, NEW i \in 1 .. BatchSize, NEW t \in 1 .. ResponseLength
    PROVE  TasdAdvantage(TokenRewards(Judgements, Masks), Masks, batch.self_distillation_mask, batch.uid)[i][t]
             = IF t \in Generated(i) THEN Bounded(AgainstTokens(i, t), Approval(i, t)) ELSE 0
<1> DEFINE d == [j \in 1 .. BatchSize |-> batch.self_distillation_mask[j]]
           rewards == TokenRewards(Judgements, Masks)
           effective == [j \in DOMAIN batch.uid |->
                           [u \in DOMAIN Masks[j] |-> Masks[j][u] * batch.self_distillation_mask[j]]]
           product(j) == [u \in 1 .. Len(Masks[j]) |-> rewards[j][u] * effective[j][u]]
           counts == Evaluated([j \in 1 .. Len(batch.uid) |-> Total(effective[j])])
           sums == Evaluated([j \in 1 .. Len(batch.uid) |-> Total(product(j))])
           rows == {j \in RowsWith(batch.uid, batch.uid[i]) : counts[j] > 0}
           mean == Mean(TotalOf(rows, sums), TotalOf(rows, counts))
           threshold == SafetyThreshold(Total(sums))
           clipped == Clamp(Scale * rewards[i][t] - mean, -ClipAdvValue, ClipAdvValue)
<1>1. /\ DOMAIN batch.uid = 1 .. BatchSize /\ Len(batch.uid) = BatchSize /\ DOMAIN Masks = 1 .. BatchSize
      /\ \A j \in 1 .. BatchSize : /\ Masks[j] = Indicator(Generated(j), ResponseLength)
                                   /\ Generated(j) \in SUBSET (1 .. ResponseLength)
      /\ RowsWith(batch.uid, batch.uid[i]) = Peers(i) /\ Peers(i) \in SUBSET (1 .. BatchSize)
  BY RowsAre DEF Judged
<1>2. ResponseLength \in Nat /\ BatchSize \in Nat
  BY Positive, BatchSizeIs
<1>3. ASSUME NEW j \in 1 .. BatchSize
      PROVE  /\ MaskedRow(rewards[j], effective[j], product(j), Generated(j), Approvals(j), d[j], ResponseLength)
             /\ DOMAIN Masks[j] = 1 .. ResponseLength
  <2>1. DOMAIN Masks[j] = 1 .. ResponseLength /\ Len(Masks[j]) = ResponseLength
    <3>1. Masks[j] = Indicator(Generated(j), ResponseLength)
      BY <1>1
    <3>2. Masks[j] = [u \in 1 .. ResponseLength |-> Masks[j][u]]
      BY <3>1 DEF Indicator
    <3>3. QED
      BY <1>2, <3>2, EvaluatedIs
  <2>2. rewards[j] = [u \in 1 .. ResponseLength |-> Approvals(j)[u] * Masks[j][u]]
    <3>1. Judgements[j] = Approvals(j)
      BY JudgedRow
    <3>2. rewards[j] = [u \in DOMAIN Masks[j] |-> Judgements[j][u] * Masks[j][u]]
      BY <1>1 DEF TokenRewards
    <3> HIDE DEF rewards
    <3>3. QED
      BY <2>1, <3>1, <3>2
  <2>3. effective[j] = [u \in 1 .. ResponseLength |-> Masks[j][u] * d[j]]
    BY <1>1, <2>1
  <2> HIDE DEF rewards, effective
  <2>4. product(j) = [u \in 1 .. ResponseLength |-> rewards[j][u] * effective[j][u]]
    BY <2>1
  <2> HIDE DEF product, d
  <2>5. Masks[j] = Indicator(Generated(j), ResponseLength)
    BY <1>1
  <2>6. QED
    BY <2>1, <2>2, <2>3, <2>4, <2>5 DEF MaskedRow
<1>4. ASSUME NEW j \in 1 .. BatchSize
      PROVE  /\ Approvals(j) \in [1 .. ResponseLength -> Int] /\ d[j] \in {0, 1}
             /\ Cardinality(Generated(j)) \in Nat /\ TotalOf(Generated(j), Approvals(j)) \in Int
             /\ Cardinality(Generated(j)) = 0 => TotalOf(Generated(j), Approvals(j)) = 0
  <2>1. Approvals(j) \in [1 .. ResponseLength -> Int] /\ d[j] \in {0, 1}
    BY JudgedRow
  <2> HIDE DEF d
  <2>2. /\ Cardinality(Generated(j)) \in Nat
        /\ Cardinality(Generated(j)) = 0 <=> Generated(j) = {}
    BY <1>1, <1>2, TotalCounts
  <2>3. TotalOf(Generated(j), Approvals(j)) \in Int /\ TotalOf({}, Approvals(j)) = 0
    BY <1>2, <2>1, TotalOfIs, TotalOfEmpty
  <2>4. QED
    BY <2>1, <2>2, <2>3
<1>5. ASSUME NEW j \in 1 .. BatchSize
      PROVE  /\ Total(effective[j]) = IF d[j] = 1 THEN TokenNumbers[j] ELSE 0
             /\ Total(product(j)) = IF d[j] = 1 THEN ApprovalTotals[j] ELSE 0
             /\ \A u \in 1 .. ResponseLength : effective[j][u] = IF d[j] = 1 /\ u \in Generated(j) THEN 1 ELSE 0
             /\ \A u \in Generated(j) : rewards[j][u] = Approvals(j)[u]
  <2> DEFINE e == effective[j]
             p == product(j)
             r == rewards[j]
             m == d[j]
  <2>1. MaskedRow(r, e, p, Generated(j), Approvals(j), m, ResponseLength)
    BY <1>3
  <2>2. m \in {0, 1} /\ Approvals(j) \in [1 .. ResponseLength -> Int] /\ Generated(j) \in SUBSET (1 .. ResponseLength)
    BY <1>1, <1>4
  <2> HIDE DEF e, p, r, m
  <2>3. MaskedSums(r, e, p, Generated(j), Approvals(j), m, ResponseLength)
    BY <1>2, <2>1, <2>2, MaskedTotals
  <2>4. /\ Total(e) = IF m = 1 THEN Cardinality(Generated(j)) ELSE 0
        /\ Total(p) = IF m = 1 THEN TotalOf(Generated(j), Approvals(j)) ELSE 0
        /\ \A u \in 1 .. ResponseLength : e[u] = IF m = 1 /\ u \in Generated(j) THEN 1 ELSE 0
        /\ \A u \in Generated(j) : r[u] = Approvals(j)[u]
    BY <2>3 DEF MaskedSums
  <2>5. TokenNumbers[j] = Cardinality(Generated(j)) /\ ApprovalTotals[j] = TotalOf(Generated(j), Approvals(j))
    BY DEF TokenNumbers, ApprovalTotals
  <2>6. /\ Total(e) = IF m = 1 THEN TokenNumbers[j] ELSE 0
        /\ Total(p) = IF m = 1 THEN ApprovalTotals[j] ELSE 0
    BY <2>4, <2>5
  <2>7. QED
    BY <2>4, <2>6 DEF e, p, r, m
<1>6. TasdAdvantage(TokenRewards(Judgements, Masks), Masks, batch.self_distillation_mask, batch.uid)[i][t]
        = IF effective[i][t] = 0 THEN 0
          ELSE IF clipped < 0 /\ threshold # 0 /\ rewards[i][t] < threshold
               THEN Clamp(clipped, -SafetyClipValue, 0)
          ELSE clipped
  <2>1. i \in DOMAIN batch.uid /\ t \in DOMAIN Masks[i]
    BY <1>1, <1>3
  <2>2. QED
    BY <2>1 DEF TasdAdvantage
<1> HIDE DEF effective, rewards, product, d
<1>7. /\ counts = [j \in 1 .. BatchSize |-> IF d[j] = 1 THEN TokenNumbers[j] ELSE 0]
      /\ sums = [j \in 1 .. BatchSize |-> IF d[j] = 1 THEN ApprovalTotals[j] ELSE 0]
  <2> DEFINE c == [j \in 1 .. Len(batch.uid) |-> Total(effective[j])]
             s == [j \in 1 .. Len(batch.uid) |-> Total(product(j))]
  <2>1. /\ c = [j \in 1 .. BatchSize |-> IF d[j] = 1 THEN TokenNumbers[j] ELSE 0]
        /\ s = [j \in 1 .. BatchSize |-> IF d[j] = 1 THEN ApprovalTotals[j] ELSE 0]
    BY <1>1, <1>5
  <2>2. c = [j \in 1 .. BatchSize |-> c[j]] /\ s = [j \in 1 .. BatchSize |-> s[j]]
    BY <1>1
  <2>3. counts = Evaluated(c) /\ sums = Evaluated(s)
    OBVIOUS
  <2> HIDE DEF c, s, counts, sums
  <2>4. Evaluated(c) = c /\ Evaluated(s) = s
    BY <1>2, <2>2, EvaluatedIs
  <2>5. QED
    BY <2>1, <2>3, <2>4
<1> HIDE DEF counts, sums
<1>8. /\ counts \in [1 .. BatchSize -> Int] /\ sums \in [1 .. BatchSize -> Int]
      /\ TokenNumbers \in [1 .. BatchSize -> Int] /\ ApprovalTotals \in [1 .. BatchSize -> Int]
      /\ Distilled(counts, sums, TokenNumbers, ApprovalTotals, d, BatchSize)
  <2>1. \A j \in 1 .. BatchSize : /\ TokenNumbers[j] = Cardinality(Generated(j))
                                  /\ ApprovalTotals[j] = TotalOf(Generated(j), Approvals(j))
    BY DEF TokenNumbers, ApprovalTotals
  <2>2. \A j \in 1 .. BatchSize : /\ TokenNumbers[j] \in Nat /\ ApprovalTotals[j] \in Int
                                  /\ TokenNumbers[j] = 0 => ApprovalTotals[j] = 0
    BY <1>4, <2>1
  <2>3. TokenNumbers = [j \in 1 .. BatchSize |-> TokenNumbers[j]]
        /\ ApprovalTotals = [j \in 1 .. BatchSize |-> ApprovalTotals[j]]
    BY DEF TokenNumbers, ApprovalTotals
  <2>4. TokenNumbers \in [1 .. BatchSize -> Int] /\ ApprovalTotals \in [1 .. BatchSize -> Int]
    BY <2>2, <2>3
  <2>5. counts \in [1 .. BatchSize -> Int] /\ sums \in [1 .. BatchSize -> Int]
    BY <1>7, <2>2
  <2>6. Distilled(counts, sums, TokenNumbers, ApprovalTotals, d, BatchSize)
    BY <1>7, <2>2 DEF Distilled
  <2>7. QED
    BY <2>4, <2>5, <2>6
<1>9. /\ TotalOf(rows, counts) = TotalOf(ShownRows(i), TokenNumbers)
      /\ TotalOf(rows, sums) = TotalOf(ShownRows(i), ApprovalTotals)
  <2>1. rows = {j \in Peers(i) : counts[j] > 0}
    BY <1>1
  <2>2. ShownRows(i) = {j \in Peers(i) : d[j] = 1}
    BY <1>1 DEF ShownRows, d
  <2> DEFINE group == Peers(i)
  <2>3. group \in SUBSET (1 .. BatchSize)
    BY <1>1
  <2> HIDE DEF group, rows
  <2>4. SameSums(counts, sums, TokenNumbers, ApprovalTotals, d, group)
    BY <1>2, <1>8, <2>3, DistilledTotals
  <2>5. QED
    BY <2>1, <2>2, <2>4 DEF group, SameSums
<1> DEFINE all == (Scale * TotalOf(ShownRows(i), ApprovalTotals)) \div TotalOf(ShownRows(i), TokenNumbers)
<1>10. mean = all
  <2> HIDE DEF rows
  <2>1. QED
    BY <1>9 DEF Mean
<1>11. AgainstTokens(i, t) = IF d[i] = 1 THEN Scale * Approval(i, t) - all ELSE 0
  BY AgainstTokensIs DEF d
<1>12. Approvals(i)[t] = Approval(i, t)
  BY DEF Approvals
<1> DEFINE low == threshold # 0 /\ rewards[i][t] < threshold
<1>13. ASSUME d[i] = 1, t \in Generated(i) PROVE low <=> Low(Approval(i, t))
  <2>1. rewards[i][t] = Approval(i, t)
    BY <1>5, <1>12, <1>13
  <2>2. sums = [j \in 1 .. BatchSize |-> IF batch.self_distillation_mask[j] = 1 THEN ApprovalTotals[j] ELSE 0]
    BY <1>7 DEF d
  <2>3. SafetyThreshold(Total(sums)) # 0 /\ Approval(i, t) < SafetyThreshold(Total(sums)) <=> Low(Approval(i, t))
    <3>1. Approval(i, t) \in Int
      BY <1>4, <1>12
    <3>2. QED
      BY <1>8, <2>2, <3>1, ThresholdIs
  <2>4. QED
    BY <2>1, <2>3
<1>14. TasdAdvantage(TokenRewards(Judgements, Masks), Masks, batch.self_distillation_mask, batch.uid)[i][t]
         = IF effective[i][t] = 0 THEN 0
           ELSE IF clipped < 0 /\ low THEN Clamp(clipped, -SafetyClipValue, 0) ELSE clipped
  BY <1>6
<1> HIDE DEF mean, all, low
<1>15. CASE d[i] = 1 /\ t \in Generated(i)
  <2>1. effective[i][t] = 1 /\ rewards[i][t] = Approval(i, t)
    BY <1>5, <1>12, <1>15
  <2>2. clipped = Clamp(AgainstTokens(i, t), -ClipAdvValue, ClipAdvValue)
    BY <1>10, <1>11, <1>15, <2>1
  <2> HIDE DEF clipped
  <2>3. low <=> Low(Approval(i, t))
    BY <1>15, <1>13
  <2>4. QED
    BY <1>15, <1>14, <2>1, <2>2, <2>3 DEF Bounded
<1>16. CASE t \notin Generated(i)
  <2>1. effective[i][t] = 0
    BY <1>5, <1>16
  <2>2. QED
    BY <1>6, <1>16, <2>1
<1>17. CASE d[i] # 1 /\ t \in Generated(i)
  <2>1. effective[i][t] = 0 /\ AgainstTokens(i, t) = 0
    BY <1>5, <1>11, <1>17
  <2>2. Bounded(AgainstTokens(i, t), Approval(i, t)) = 0
    BY <2>1, ZeroBounded
  <2>3. QED
    BY <1>6, <1>17, <2>1, <2>2
<1>18. QED
  BY <1>15, <1>16, <1>17

-----------------------------------------------------------------------------
(* GAE *)

\* The recursion of compute_gae_advantage_return, and that of the sums it promises,
\* over the positions G that are generated.
GaePair == [nextvalue : Int, lastgaelam : Int]

GaeStep(r, v, m, gamma, lam, t, later) ==
    LET delta == r[t] + gamma * later.nextvalue - v[t]
    IN  IF m[t] = 1
        THEN [nextvalue |-> v[t], lastgaelam |-> delta + gamma * lam * later.lastgaelam]
        ELSE later

GaeFrom(f, r, v, m, gamma, lam, n) ==
    f = [t \in 1 .. (n + 1) |->
            IF t = n + 1 THEN [nextvalue |-> 0, lastgaelam |-> 0]
            ELSE GaeStep(r, v, m, gamma, lam, t, f[t + 1])]

LaterIn(G, t) == {u \in G : u > t}

Differences(r, v, G, gamma, lam, t, rest) ==
    IF LaterIn(G, t) = {} THEN r[t] - v[t]
    ELSE r[t] + gamma * v[Min(LaterIn(G, t))] - v[t] + gamma * lam * rest

DifferencesFrom(h, r, v, G, gamma, lam, n) ==
    h = [t \in 1 .. n |-> Differences(r, v, G, gamma, lam, t, h[Min(LaterIn(G, t))])]

\* A row to estimate.
Estimated(r, v, m, G, n) ==
    /\ r \in [1 .. n -> Int] /\ v \in [1 .. n -> Int]
    /\ G \in SUBSET (1 .. n) /\ m = Indicator(G, n)

\* The first of them is defined,
LEMMA GaeExists ==
    ASSUME NEW n \in Nat, NEW gamma \in Int, NEW lam \in Int, NEW r, NEW v, NEW m, NEW G, Estimated(r, v, m, G, n)
    PROVE  \E f : GaeFrom(f, r, v, m, gamma, lam, n)
<1> DEFINE zero == [nextvalue |-> 0, lastgaelam |-> 0]
           step == [k \in 1 .. n |-> [x \in GaePair |-> GaeStep(r, v, m, gamma, lam, n + 1 - k, x)]]
<1>1. ASSUME NEW t \in 1 .. n, NEW x \in GaePair PROVE GaeStep(r, v, m, gamma, lam, t, x) \in GaePair
  <2>1. /\ r[t] \in Int /\ v[t] \in Int /\ x.nextvalue \in Int /\ x.lastgaelam \in Int
    BY DEF Estimated, GaePair
  <2>2. PICK a \in Int, b \in Int, c \in Int : a = gamma * x.nextvalue /\ b = gamma * lam /\ c = b * x.lastgaelam
    <3>1. gamma * x.nextvalue \in Int /\ gamma * lam \in Int
      BY <2>1
    <3>2. (gamma * lam) * x.lastgaelam \in Int
      BY <2>1, <3>1
    <3>3. QED
      BY <3>1, <3>2
  <2>3. r[t] + a - v[t] + c \in Int
    BY <2>1, <2>2
  <2>4. GaeStep(r, v, m, gamma, lam, t, x)
          = IF m[t] = 1 THEN [nextvalue |-> v[t], lastgaelam |-> r[t] + a - v[t] + c] ELSE x
    BY <2>2 DEF GaeStep
  <2>5. QED
    BY <2>1, <2>3, <2>4 DEF GaePair
<1>2. \A k \in 1 .. n : n + 1 - k \in 1 .. n
  OBVIOUS
<1>3. zero \in GaePair
  BY DEF GaePair
<1>4. step \in [1 .. n -> [GaePair -> GaePair]]
      /\ \A k \in 1 .. n, x \in GaePair : step[k][x] = GaeStep(r, v, m, gamma, lam, n + 1 - k, x)
  <2> DEFINE at(k) == [x \in GaePair |-> GaeStep(r, v, m, gamma, lam, n + 1 - k, x)]
  <2>1. ASSUME NEW k \in 1 .. n
        PROVE  /\ at(k) \in [GaePair -> GaePair]
               /\ \A x \in GaePair : at(k)[x] = GaeStep(r, v, m, gamma, lam, n + 1 - k, x)
    <3>1. \A x \in GaePair : GaeStep(r, v, m, gamma, lam, n + 1 - k, x) \in GaePair
      BY <1>1, <1>2
    <3>2. QED
      BY <3>1
  <2>2. step = [k \in 1 .. n |-> at(k)]
    OBVIOUS
  <2> HIDE DEF at, step
  <2>3. QED
    BY <2>1, <2>2
<1> HIDE DEF zero, step
<1>5. PICK g \in [0 .. n -> GaePair] : g[0] = zero /\ \A k \in 1 .. n : g[k] = step[k][g[k - 1]]
  <2>1. Steps(n, GaePair, zero, step)
    BY <1>3, <1>4 DEF Steps
  <2>2. PICK V, s, z : V = GaePair /\ s = step /\ z = zero
    OBVIOUS
  <2>3. \E g \in [0 .. n -> V] : g[0] = z /\ \A k \in 1 .. n : g[k] = s[k][g[k - 1]]
    <3>1. Steps(n, V, z, s)
      BY <2>1, <2>2
    <3>2. QED
      BY <3>1, Recursion
  <2>4. QED
    BY <2>2, <2>3
<1> DEFINE f == [t \in 1 .. (n + 1) |-> g[n + 1 - t]]
<1>6. ASSUME NEW t \in 1 .. (n + 1)
      PROVE  f[t] = IF t = n + 1 THEN zero ELSE GaeStep(r, v, m, gamma, lam, t, f[t + 1])
  <2>1. CASE t = n + 1
    <3>1. n + 1 - t = 0
      BY <2>1
    <3>2. QED
      BY <1>5, <2>1, <3>1
  <2>2. CASE t # n + 1
    <3>1. PICK k \in 1 .. n : k = n + 1 - t
      BY <2>2
    <3>2. n + 1 - k = t /\ n + 1 - (t + 1) = k - 1 /\ t + 1 \in 1 .. (n + 1) /\ k - 1 \in 0 .. n
      BY <2>2, <3>1
    <3>3. f[t] = g[k] /\ f[t + 1] = g[k - 1]
      BY <3>1, <3>2
    <3> HIDE DEF f
    <3>4. g[k - 1] \in GaePair /\ g[k] = step[k][g[k - 1]]
      BY <1>5, <3>2
    <3>5. step[k][g[k - 1]] = GaeStep(r, v, m, gamma, lam, n + 1 - k, g[k - 1])
      BY <1>4, <3>4
    <3>6. QED
      BY <2>2, <3>2, <3>3, <3>4, <3>5
  <2>3. QED
    BY <2>1, <2>2
<1>7. f = [t \in 1 .. (n + 1) |-> f[t]]
  OBVIOUS
<1> HIDE DEF f
<1>8. GaeFrom(f, r, v, m, gamma, lam, n)
  BY <1>6, <1>7 DEF GaeFrom, zero
<1>9. QED
  BY <1>8

\* The next position that is generated.
LEMMA NextGenerated ==
    ASSUME NEW G \in SUBSET Nat, NEW t, LaterIn(G, t) # {}
    PROVE  Min(LaterIn(G, t)) \in G /\ Min(LaterIn(G, t)) > t
<1> DEFINE L == LaterIn(G, t)
<1>1. L \in SUBSET Nat /\ L # {} /\ \A u \in L : u \in G /\ u > t
  <2>1. \A u \in L : u \in G /\ u > t
    BY DEF LaterIn
  <2> HIDE DEF L
  <2>2. L \in SUBSET Nat
    BY <2>1
  <2>3. QED
    BY <2>1, <2>2 DEF L
<1> HIDE DEF L
<1>2. PICK m \in L : \A k \in L : m <= k
  BY <1>1, Least
<1>3. Min(L) \in L /\ \A k \in L : Min(L) <= k
  BY <1>2 DEF Min
<1>4. QED
  BY <1>1, <1>3 DEF L

\* What the recursion carries over the positions that are skipped.
Carried(f, v, G, t) ==
    f[t + 1] = IF LaterIn(G, t) = {} THEN [nextvalue |-> 0, lastgaelam |-> 0]
               ELSE [nextvalue |-> v[Min(LaterIn(G, t))], lastgaelam |-> f[Min(LaterIn(G, t))].lastgaelam]

LEMMA GaeCarries ==
    ASSUME NEW n \in Nat, NEW gamma, NEW lam, NEW r, NEW v, NEW m, NEW G, Estimated(r, v, m, G, n),
           NEW f, GaeFrom(f, r, v, m, gamma, lam, n)
    PROVE  \A t \in 0 .. n : Carried(f, v, G, t)
<1>1. G \in SUBSET (1 .. n) /\ (\A u \in G : u \in 1 .. n) /\ \A t \in 1 .. n : m[t] = IF t \in G THEN 1 ELSE 0
  BY DEF Estimated, Indicator
<1> DEFINE S == {k \in 0 .. n : Carried(f, v, G, n - k)}
<1>2. 0 \in S
  <2>1. LaterIn(G, n) = {}
    <3>1. \A u \in G : ~(u > n)
      BY <1>1
    <3>2. QED
      BY <3>1 DEF LaterIn
  <2>2. f[n + 1] = [nextvalue |-> 0, lastgaelam |-> 0]
    BY DEF GaeFrom
  <2>3. Carried(f, v, G, n)
    BY <2>1, <2>2 DEF Carried
  <2>4. n - 0 = n /\ 0 \in 0 .. n
    OBVIOUS
  <2>5. QED
    BY <2>3, <2>4
<1>3. ASSUME NEW k \in 0 .. n - 1, k \in S PROVE k + 1 \in S
  <2>1. PICK t \in 1 .. n : t = n - k
    OBVIOUS
  <2>2. k + 1 \in 0 .. n /\ n - (k + 1) = t - 1 /\ t - 1 + 1 = t /\ t - 1 \in Int
    BY <2>1
  <2>3. Carried(f, v, G, t)
    BY <1>3, <2>1
  <2>4. f[t] = GaeStep(r, v, m, gamma, lam, t, f[t + 1])
    BY DEF GaeFrom
  <2>5. Carried(f, v, G, t - 1)
    <3>1. CASE t \in G
      <4>1. t \in LaterIn(G, t - 1) /\ \A u \in LaterIn(G, t - 1) : t <= u
        BY <1>1, <3>1 DEF LaterIn
      <4>2. Min(LaterIn(G, t - 1)) = t
        <5> DEFINE L == LaterIn(G, t - 1)
                   u == Min(L)
        <5>1. u \in L /\ \A x \in L : u <= x
          BY <4>1 DEF Min
        <5>2. \A x \in L : x \in Int
          BY <1>1 DEF LaterIn
        <5> HIDE DEF L, u
        <5>3. u <= t /\ t <= u
          BY <4>1, <5>1 DEF L
        <5>4. QED
          BY <5>1, <5>2, <5>3 DEF u, L
      <4>3. m[t] = 1
        BY <1>1, <3>1
      <4>4. f[t] = [nextvalue |-> v[t], lastgaelam |-> f[t].lastgaelam]
        <5>1. PICK x : f[t] = [nextvalue |-> v[t], lastgaelam |-> x]
          BY <2>4, <4>3 DEF GaeStep
        <5>2. QED
          BY <5>1
      <4>5. QED
        BY <2>2, <4>1, <4>2, <4>4 DEF Carried
    <3>2. CASE t \notin G
      <4>1. LaterIn(G, t - 1) = LaterIn(G, t)
        <5>1. \A u \in G : u > t - 1 <=> u > t
          BY <1>1, <3>2
        <5>2. QED
          BY <5>1 DEF LaterIn
      <4>2. f[t] = f[t + 1]
        <5>1. m[t] = 0
          BY <1>1, <3>2
        <5>2. QED
          BY <2>4, <5>1 DEF GaeStep
      <4>3. QED
        BY <2>2, <2>3, <4>1, <4>2 DEF Carried
    <3>3. QED
      BY <3>1, <3>2
  <2>6. QED
    BY <2>2, <2>5
<1>4. ASSUME NEW t \in 0 .. n PROVE Carried(f, v, G, t)
  <2>1. n - t \in 0 .. n /\ n - (n - t) = t
    OBVIOUS
  <2> HIDE DEF S
  <2>2. \A k \in 0 .. n : k \in S
    BY <1>2, <1>3, Induct
  <2>3. n - t \in S
    BY <2>1, <2>2
  <2>4. QED
    BY <2>1, <2>3 DEF S
<1>5. QED
  BY <1>4

\* The recursion at a position that is generated.
LEMMA GaeDifference ==
    ASSUME NEW n \in Nat, NEW gamma \in Int, NEW lam \in Int, NEW r, NEW v, NEW m, NEW G, Estimated(r, v, m, G, n),
           NEW f, GaeFrom(f, r, v, m, gamma, lam, n), NEW t \in G
    PROVE  f[t].lastgaelam = Differences(r, v, G, gamma, lam, t, f[Min(LaterIn(G, t))].lastgaelam)
<1>1. t \in 1 .. n /\ m[t] = 1 /\ r[t] \in Int /\ v[t] \in Int
  BY DEF Estimated, Indicator
<1>2. t \in 0 .. n /\ t \in 1 .. (n + 1) /\ t # n + 1
  BY <1>1
<1>3. f[t] = GaeStep(r, v, m, gamma, lam, t, f[t + 1])
  BY <1>2 DEF GaeFrom
<1>4. f[t].lastgaelam = r[t] + gamma * f[t + 1].nextvalue - v[t] + gamma * lam * f[t + 1].lastgaelam
  BY <1>1, <1>3 DEF GaeStep
<1>5. Carried(f, v, G, t)
  BY <1>2, GaeCarries
<1>6. CASE LaterIn(G, t) = {}
  <2>1. f[t + 1].nextvalue = 0 /\ f[t + 1].lastgaelam = 0
    BY <1>5, <1>6 DEF Carried
  <2>2. f[t].lastgaelam = r[t] + gamma * 0 - v[t] + gamma * lam * 0
    BY <1>4, <2>1
  <2>3. gamma * 0 = 0 /\ gamma * lam * 0 = 0
    OBVIOUS
  <2>4. f[t].lastgaelam = r[t] - v[t]
    BY <1>1, <2>2, <2>3
  <2>5. QED
    BY <1>6, <2>4 DEF Differences
<1>7. CASE LaterIn(G, t) # {}
  <2> DEFINE u == Min(LaterIn(G, t))
  <2>1. f[t + 1] = [nextvalue |-> v[u], lastgaelam |-> f[u].lastgaelam]
    BY <1>5, <1>7 DEF Carried
  <2> HIDE DEF u
  <2>2. f[t + 1].nextvalue = v[u] /\ f[t + 1].lastgaelam = f[u].lastgaelam
    BY <2>1
  <2>3. f[t].lastgaelam = r[t] + gamma * v[u] - v[t] + gamma * lam * f[u].lastgaelam
    BY <1>4, <2>2
  <2>4. QED
    BY <1>7, <2>3 DEF Differences, u
<1>8. QED
  BY <1>6, <1>7

\* The sums are defined too,
LEMMA DifferencesExist ==
    ASSUME NEW n \in Nat, NEW gamma \in Int, NEW lam \in Int, NEW r, NEW v, NEW m, NEW G, Estimated(r, v, m, G, n),
           NEW f, GaeFrom(f, r, v, m, gamma, lam, n)
    PROVE  \E h : DifferencesFrom(h, r, v, G, gamma, lam, n)
<1> DEFINE h == [t \in 1 .. n |-> Differences(r, v, G, gamma, lam, t, f[Min(LaterIn(G, t))].lastgaelam)]
<1>1. G \in SUBSET (1 .. n) /\ G \in SUBSET Nat
  BY DEF Estimated
<1>2. ASSUME NEW t \in G PROVE h[t] = f[t].lastgaelam
  <2>1. t \in 1 .. n
    BY <1>1
  <2>2. h[t] = Differences(r, v, G, gamma, lam, t, f[Min(LaterIn(G, t))].lastgaelam)
    BY <2>1
  <2> HIDE DEF h
  <2>3. QED
    BY <2>2, GaeDifference
<1>3. ASSUME NEW t \in 1 .. n PROVE h[t] = Differences(r, v, G, gamma, lam, t, h[Min(LaterIn(G, t))])
  <2>1. h[t] = Differences(r, v, G, gamma, lam, t, f[Min(LaterIn(G, t))].lastgaelam)
    OBVIOUS
  <2> HIDE DEF h
  <2>2. CASE LaterIn(G, t) = {}
    BY <2>1, <2>2 DEF Differences
  <2>3. CASE LaterIn(G, t) # {}
    <3>1. Min(LaterIn(G, t)) \in G
      BY <1>1, <2>3, NextGenerated
    <3>2. h[Min(LaterIn(G, t))] = f[Min(LaterIn(G, t))].lastgaelam
      BY <1>2, <3>1
    <3>3. QED
      BY <2>1, <3>2
  <2>4. QED
    BY <2>2, <2>3
<1>4. h = [t \in 1 .. n |-> h[t]]
  OBVIOUS
<1> HIDE DEF h
<1>5. DifferencesFrom(h, r, v, G, gamma, lam, n)
  BY <1>3, <1>4 DEF DifferencesFrom
<1>6. QED
  BY <1>5

\* and they are what the recursion gives for every position that is generated.
LEMMA GaeSums ==
    ASSUME NEW n \in Nat, NEW gamma \in Int, NEW lam \in Int, NEW r, NEW v, NEW m, NEW G, Estimated(r, v, m, G, n),
           NEW f, GaeFrom(f, r, v, m, gamma, lam, n), NEW h, DifferencesFrom(h, r, v, G, gamma, lam, n)
    PROVE  \A t \in G : f[t].lastgaelam = h[t]
<1>1. G \in SUBSET Nat /\ \A t \in G : t \in 1 .. n
  BY DEF Estimated
<1> DEFINE S == {k \in 0 .. n : \A t \in G : t > n - k => f[t].lastgaelam = h[t]}
<1>2. 0 \in S
  <2>1. \A t \in G : ~(t > n - 0)
    BY <1>1
  <2>2. QED
    BY <2>1
<1>3. ASSUME NEW k \in 0 .. n - 1, k \in S PROVE k + 1 \in S
  <2>1. \A t \in G : t > n - k => f[t].lastgaelam = h[t]
    BY <1>3
  <2>2. ASSUME NEW t \in G, t > n - (k + 1) PROVE f[t].lastgaelam = h[t]
    <3>1. t \in 1 .. n
      BY <1>1
    <3>2. f[t].lastgaelam = Differences(r, v, G, gamma, lam, t, f[Min(LaterIn(G, t))].lastgaelam)
      BY GaeDifference
    <3>3. h[t] = Differences(r, v, G, gamma, lam, t, h[Min(LaterIn(G, t))])
      BY <3>1 DEF DifferencesFrom
    <3>4. CASE LaterIn(G, t) = {}
      BY <3>2, <3>3, <3>4 DEF Differences
    <3>5. CASE LaterIn(G, t) # {}
      <4> DEFINE u == Min(LaterIn(G, t))
      <4>1. u \in G /\ u > t
        BY <1>1, <3>1, <3>5, NextGenerated
      <4> HIDE DEF u
      <4>2. u \in 1 .. n
        BY <1>1, <4>1
      <4>3. u > n - k
        BY <2>2, <3>1, <4>1, <4>2
      <4>4. f[u].lastgaelam = h[u]
        BY <2>1, <4>1, <4>3
      <4>5. QED
        BY <3>2, <3>3, <4>4 DEF u
    <3>6. QED
      BY <3>4, <3>5
  <2>3. k + 1 \in 0 .. n
    OBVIOUS
  <2>4. QED
    BY <2>2, <2>3
<1>4. \A t \in G : t > n - n
  BY <1>1
<1> HIDE DEF S
<1>5. n \in S
  <2>1. \A k \in 0 .. n : k \in S
    BY <1>2, <1>3, Induct
  <2>2. QED
    BY <2>1
<1>6. \A t \in G : t > n - n => f[t].lastgaelam = h[t]
  BY <1>5 DEF S
<1>7. QED
  BY <1>4, <1>6

\* GAE gives the sums.
LEMMA GaeAdvantageIs ==
    ASSUME NEW n \in Nat, NEW gamma \in Int, NEW lam \in Int, NEW r, NEW v, NEW m, NEW G, Estimated(r, v, m, G, n),
           NEW h, DifferencesFrom(h, r, v, G, gamma, lam, n), NEW t \in G
    PROVE  GaeAdvantage(r, v, m, gamma, lam)[t] = h[t]
<1> DEFINE f == CHOOSE g : GaeFrom(g, r, v, m, gamma, lam, n)
<1>1. Len(r) = n /\ t \in 1 .. n
  BY DEF Estimated
<1>2. GaeFrom(f, r, v, m, gamma, lam, n)
  <2>1. \E g : GaeFrom(g, r, v, m, gamma, lam, n)
    BY GaeExists
  <2>2. QED
    BY <2>1
<1>3. GaeAdvantage(r, v, m, gamma, lam) = [u \in 1 .. n |-> f[u].lastgaelam]
  <2>1. GaeAdvantage(r, v, m, gamma, lam)
          = [u \in 1 .. Len(r) |->
               (CHOOSE g : g = [s \in 1 .. (Len(r) + 1) |->
                    IF s = Len(r) + 1 THEN [nextvalue |-> 0, lastgaelam |-> 0]
                    ELSE LET later == g[s + 1]
                             delta == r[s] + gamma * later.nextvalue - v[s]
                         IN  IF m[s] = 1
                             THEN [nextvalue |-> v[s], lastgaelam |-> delta + gamma * lam * later.lastgaelam]
                             ELSE later])[u].lastgaelam]
    BY DEF GaeAdvantage
  <2>2. f = CHOOSE g : g = [s \in 1 .. (n + 1) |->
                    IF s = n + 1 THEN [nextvalue |-> 0, lastgaelam |-> 0]
                    ELSE LET later == g[s + 1]
                             delta == r[s] + gamma * later.nextvalue - v[s]
                         IN  IF m[s] = 1
                             THEN [nextvalue |-> v[s], lastgaelam |-> delta + gamma * lam * later.lastgaelam]
                             ELSE later]
    BY DEF GaeFrom, GaeStep
  <2> HIDE DEF f
  <2>3. QED
    BY <1>1, <2>1, <2>2
<1> HIDE DEF f
<1>4. f[t].lastgaelam = h[t]
  BY <1>2, GaeSums
<1>5. QED
  BY <1>1, <1>3, <1>4

\* With GAE, the temporal differences of the row.
LEMMA GaeIs ==
    ASSUME Faithful(batch), FromDraws(batch.responses), "values" \in DOMAIN batch,
           NEW i \in 1 .. BatchSize, NEW t \in Generated(i)
    PROVE  GaeAdvantage(ScoresOf(batch)[i], Values[i], Masks[i], Gamma, Lam)[t] = TemporalDifferences(i)[t]
<1> DEFINE n == ResponseLength
           r == ScoresOf(batch)[i]
           G == Generated(i)
           Reward(s) == IF s = Len(batch.responses[i].tokens) THEN batch.responses[i].score ELSE 0
           Value(s) == Estimate(batch.responses[i], s)
           Good(h) == h = [s \in 1 .. n |->
               IF LaterIn(G, s) = {} THEN Reward(s) - Value(s)
               ELSE Reward(s) + Gamma * Value(Min(LaterIn(G, s))) - Value(s) + Gamma * Lam * h[Min(LaterIn(G, s))]]
<1>1. /\ DOMAIN batch.uid = 1 .. BatchSize /\ G \in SUBSET (1 .. n) /\ Masks[i] = Indicator(G, n)
      /\ batch.responses[i].score \in {0, 1} /\ n \in Nat /\ Gamma \in Int /\ Lam \in Int
  BY RowsAre, Positive, ScoringAssumption
<1>2. batch.values[i] = batch.responses[i]
  <2>1. Column("values", batch.values, batch.responses)
    BY DEF Faithful, Asking
  <2>2. QED
    BY <2>1 DEF Column
<1>3. r = [s \in 1 .. n |-> Reward(s)] /\ Values[i] = [s \in 1 .. n |-> Value(s)]
  <2>1. r = [s \in 1 .. n |-> Reward(s)]
    BY DEF ScoresOf
  <2>2. Values[i] = [s \in 1 .. n |-> Estimate(batch.values[i], s)]
    BY <1>1 DEF Values
  <2>3. QED
    BY <1>2, <2>1, <2>2
<1>4. \A s \in 1 .. n : Reward(s) \in Int /\ Value(s) \in Int
  <2>1. batch.responses[i] \in TrainingResponse
    BY DEF FromDraws
  <2>2. \A s \in 1 .. n : Estimate(batch.responses[i], s) \in Int
    BY <2>1, ScoringAssumption
  <2>3. \A s \in 1 .. n : Reward(s) \in Int
    BY <1>1
  <2>4. QED
    BY <2>2, <2>3
<1>5. TemporalDifferences(i) = CHOOSE h : Good(h)
  BY DEF TemporalDifferences, LaterIn
<1> DEFINE v == Values[i]
           m == Masks[i]
<1>6. \A s \in 1 .. n : r[s] = Reward(s) /\ v[s] = Value(s)
  BY <1>3
<1>7. \A s \in 1 .. n : LaterIn(G, s) # {} => v[Min(LaterIn(G, s))] = Value(Min(LaterIn(G, s)))
  <2>1. G \in SUBSET Nat /\ \A s \in G : s \in 1 .. n
    BY <1>1
  <2> HIDE DEF G, n, v, Value
  <2>2. \A s \in 1 .. n : LaterIn(G, s) # {} => Min(LaterIn(G, s)) \in G
    BY <2>1, NextGenerated
  <2>3. QED
    BY <1>6, <2>1, <2>2
<1>8. Estimated(r, v, m, G, n)
  <2> HIDE DEF G, n, Value, Reward
  <2>1. r \in [1 .. n -> Int] /\ v \in [1 .. n -> Int]
    BY <1>3, <1>4
  <2> HIDE DEF r, v
  <2>2. QED
    BY <1>1, <2>1 DEF Estimated
<1> HIDE DEF r, v, m, G, Reward, Value, n
<1>9. \A h : Good(h) <=> DifferencesFrom(h, r, v, G, Gamma, Lam, n)
  <2>1. ASSUME NEW h, NEW s \in 1 .. n
        PROVE  Differences(r, v, G, Gamma, Lam, s, h[Min(LaterIn(G, s))])
                 = IF LaterIn(G, s) = {} THEN Reward(s) - Value(s)
                   ELSE Reward(s) + Gamma * Value(Min(LaterIn(G, s))) - Value(s)
                        + Gamma * Lam * h[Min(LaterIn(G, s))]
    BY <1>6, <1>7 DEF Differences
  <2>2. ASSUME NEW h
        PROVE  [s \in 1 .. n |-> Differences(r, v, G, Gamma, Lam, s, h[Min(LaterIn(G, s))])]
                 = [s \in 1 .. n |->
                      IF LaterIn(G, s) = {} THEN Reward(s) - Value(s)
                      ELSE Reward(s) + Gamma * Value(Min(LaterIn(G, s))) - Value(s)
                           + Gamma * Lam * h[Min(LaterIn(G, s))]]
    BY <2>1
  <2>3. QED
    BY <2>2 DEF DifferencesFrom
<1>10. DifferencesFrom(TemporalDifferences(i), r, v, G, Gamma, Lam, n)
  <2>1. PICK f : GaeFrom(f, r, v, m, Gamma, Lam, n)
    BY <1>1, <1>8, GaeExists
  <2>2. PICK h : DifferencesFrom(h, r, v, G, Gamma, Lam, n)
    BY <1>1, <1>8, <2>1, DifferencesExist
  <2>3. Good(h)
    BY <1>9, <2>2
  <2> HIDE DEF Good
  <2>4. Good(TemporalDifferences(i))
    BY <1>5, <2>3
  <2>5. QED
    BY <1>9, <2>4
<1>11. t \in G
  BY DEF G
<1> HIDE DEF Good
<1>12. GaeAdvantage(r, v, m, Gamma, Lam)[t] = TemporalDifferences(i)[t]
  BY <1>1, <1>8, <1>10, <1>11, GaeAdvantageIs
<1>13. QED
  BY <1>12 DEF r, v, m

-----------------------------------------------------------------------------
(* The advantages through a step of training *)

\* A column that is not merged stays what it is.
LEMMA MergeKeeps ==
    ASSUME NEW data, NEW other, NEW c \in DOMAIN data, c \notin DOMAIN other
    PROVE  c \in DOMAIN Merge(data, other) /\ Merge(data, other)[c] = data[c]
BY DEF Merge

\* The steps between the balancing and the next batch keep the responses.
SameResponses == batch'.responses = batch.responses

LEMMA ResponsesKept ==
    ASSUME BatchInvariant, phase \in Training, Faithful(batch),
           \/ ComputeReward \/ ComputeOldLogProb \/ BuildSelfDistillationBatch \/ TeacherLogProbs
           \/ ComputeAdvantage \/ UpdateActor
    PROVE  SameResponses
<1>1. "responses" \in DOMAIN batch
  BY DEF Faithful, WellFormed
<1>2. ASSUME NEW other, "responses" \notin DOMAIN other, batch' = Merge(batch, other) PROVE SameResponses
  BY <1>1, <1>2, MergeKeeps DEF SameResponses
<1>3. CASE ComputeReward
  <2>1. PICK scores : batch' = Merge(batch, [token_level_scores |-> scores])
    BY <1>3 DEF ComputeReward
  <2>2. "responses" \notin DOMAIN [token_level_scores |-> scores]
    OBVIOUS
  <2>3. QED
    BY <1>2, <2>1, <2>2
<1>4. CASE ComputeOldLogProb
  <2> DEFINE column == Compute(batch, "responses", config.dynamic)
             old == [old_log_probs |-> column]
             values == IF config.estimator = "gae" THEN [values |-> column] ELSE <<>>
             first == Merge(batch, old)
  <2>1. batch' = Merge(first, values)
    BY <1>4 DEF ComputeOldLogProb
  <2>2. "responses" \notin DOMAIN old
    OBVIOUS
  <2>3. "responses" \notin DOMAIN values
    <3> HIDE DEF column
    <3>1. CASE config.estimator = "gae"
      BY <3>1
    <3>2. CASE config.estimator # "gae"
      BY <3>2
    <3>3. QED
      BY <3>1, <3>2
  <2> HIDE DEF old, values
  <2>4. "responses" \in DOMAIN first /\ first.responses = batch.responses
    BY <1>1, <2>2, MergeKeeps
  <2> HIDE DEF first
  <2>5. QED
    BY <2>1, <2>3, <2>4, MergeKeeps DEF SameResponses
<1>5. CASE BuildSelfDistillationBatch
  <2>1. CASE SelfDistillation
    <3>1. PICK solution : batch' = Merge(batch, SelfDistillationBatch(solution))
      BY <1>5, <2>1 DEF BuildSelfDistillationBatch
    <3>2. "responses" \notin DOMAIN SelfDistillationBatch(solution)
      BY DEF SelfDistillationBatch
    <3>3. QED
      BY <1>2, <3>1, <3>2
  <2>2. CASE ~SelfDistillation
    BY <1>5, <2>2 DEF BuildSelfDistillationBatch, SameResponses
  <2>3. QED
    BY <2>1, <2>2
<1>6. CASE TeacherLogProbs
  <2> DEFINE kept == DOMAIN batch \ (IF config.estimator = "sdpo" THEN {"teacher_input_ids"} ELSE {})
             first == [c \in kept |-> batch[c]]
             other == [teacher_log_probs |-> Compute(batch, "teacher_input_ids", FALSE)]
  <2>1. batch' = Merge(first, other)
    BY <1>6 DEF TeacherLogProbs
  <2>2. "responses" \notin DOMAIN other
    OBVIOUS
  <2>3. "responses" \in kept
    BY <1>1
  <2> HIDE DEF kept, other
  <2>4. "responses" \in DOMAIN first /\ first.responses = batch.responses
    BY <2>3
  <2> HIDE DEF first
  <2>5. QED
    BY <2>1, <2>2, <2>4, MergeKeeps DEF SameResponses
<1>7. CASE ComputeAdvantage
  BY <1>1, <1>7, AdvantageColumns DEF SameResponses
<1>8. CASE UpdateActor
  BY <1>8 DEF UpdateActor, SameResponses
<1>9. QED
  BY <1>3, <1>4, <1>5, <1>6, <1>7, <1>8

\* The responses of a training batch are those that were drawn.
DrawnInvariant == phase \in Training => FromDraws(batch.responses)

LEMMA DrawnStep ==
    ASSUME BatchInvariant, DrawnInvariant, [Next]_vars
    PROVE  DrawnInvariant'
<1>1. CASE Generate
  <2> DEFINE prompts == PromptBatch(Prompts)
  <2>1. PICK draw \in [1 .. BatchSize -> Draws] :
          batch' = Merge(Repeat(prompts, RolloutN), GenerateSequences(Repeat(prompts, RolloutN), draw))
    BY <1>1 DEF Generate
  <2> HIDE DEF prompts
  <2>2. \A i \in 1 .. BatchSize : batch'.responses[i] \in TrainingResponse
    BY <2>1, GeneratedBatch DEF prompts
  <2>3. QED
    BY <2>2 DEF DrawnInvariant, FromDraws
<1>2. CASE BalanceBatch
  <2>1. /\ phase = "generated" /\ config' = config /\ WellFormed(batch, BatchSize)
        /\ batch.uid = Asked(Prompts, RolloutN) /\ config \in Configs /\ FromDraws(batch.responses)
    BY <1>2 DEF BalanceBatch, BatchInvariant, Training, Faithful, DrawnInvariant
  <2>2. CASE config.balance = "none"
    BY <1>2, <2>1, <2>2 DEF BalanceBatch, DrawnInvariant
  <2>3. CASE config.balance # "none"
    <3>1. PICK sets : Divided(sets, Workloads(SeqLens(batch)))
      BY <2>1, <2>3, GlobalPartitionsDivide
    <3>2. Enumerates(FlattenSeq(GlobalPartitions), 1 .. BatchSize)
      BY <3>1, PartitionsReorder DEF Reordered
    <3>3. PICK idx : idx = FlattenSeq(GlobalPartitions)
      OBVIOUS
    <3>4. batch' = SelectIdxs(batch, idx)
      BY <1>2, <2>3, <3>3 DEF BalanceBatch
    <3>5. batch'.responses = [i \in 1 .. BatchSize |-> batch.responses[idx[i]]]
      <4>1. Enumerates(idx, 1 .. BatchSize) /\ "responses" \in DOMAIN batch
        BY <2>1, <3>2, <3>3 DEF WellFormed
      <4>2. QED
        BY <2>1, <3>4, <4>1, BatchSizeIs, SelectedFormed
    <3>6. \A i \in 1 .. BatchSize : idx[i] \in 1 .. BatchSize
      <4>1. Cardinality(1 .. BatchSize) = BatchSize
        BY FS_Interval, BatchSizeIs
      <4>2. QED
        BY <3>2, <3>3, <4>1 DEF Enumerates
    <3>7. QED
      BY <2>1, <3>5, <3>6 DEF DrawnInvariant, FromDraws
  <2>4. QED
    BY <2>2, <2>3
<1>3. CASE ComputeReward \/ ComputeOldLogProb \/ BuildSelfDistillationBatch \/ TeacherLogProbs
           \/ ComputeAdvantage \/ UpdateActor
  <2>1. phase \in Training
    BY <1>3 DEF Training, ComputeReward, ComputeOldLogProb, BuildSelfDistillationBatch, TeacherLogProbs,
       ComputeAdvantage, UpdateActor
  <2>2. Faithful(batch) /\ FromDraws(batch.responses)
    BY <2>1 DEF BatchInvariant, DrawnInvariant
  <2>3. SameResponses
    BY <1>3, <2>1, <2>2, ResponsesKept
  <2>4. QED
    BY <2>2, <2>3 DEF DrawnInvariant, SameResponses
<1>4. CASE Validate \/ NextBatch
  <2>1. phase' \notin Training
    BY <1>4 DEF Validate, NextBatch, Training
  <2>2. QED
    BY <2>1 DEF DrawnInvariant
<1>5. CASE UNCHANGED vars
  BY <1>5 DEF vars, DrawnInvariant
<1>6. QED
  BY <1>1, <1>2, <1>3, <1>4, <1>5 DEF Next

\* What AdvantagesByPrompt asks of a row.
AsPromised(i) ==
    \A t \in 1 .. ResponseLength :
        \/ config.estimator = "gae" /\ t \notin Generated(i)
        \/ batch.advantages[i][t] = Promised(i, t)

\* ComputeAdvantage gives what is promised: the lemma of each estimator.
LEMMA AdvantagesGiven ==
    ASSUME BatchInvariant, DrawnInvariant, ComputeAdvantage, config.estimator # "sequence", NEW i \in 1 .. BatchSize,
           NEW t \in 1 .. ResponseLength, config.estimator # "gae" \/ t \in Generated(i)
    PROVE  EstimatorAdvantages(TokenLevelRewards)[i][t] = Promised(i, t)
<1>1. /\ phase \in Training /\ config \in Configs /\ Faithful(batch) /\ Taught(batch)
      /\ FromDraws(batch.responses) /\ batch.token_level_scores = ScoresOf(batch)
      /\ config.estimator = "gae" => "values" \in DOMAIN batch
      /\ config.estimator = "tasd" =>
           "teacher_input_ids" \in DOMAIN batch /\ batch.teacher_log_probs = batch.teacher_input_ids
  BY DEF ComputeAdvantage, BatchInvariant, DrawnInvariant, Present, Training
<1>2. CASE config.estimator = "gae"
  <2>1. EstimatorAdvantages(TokenLevelRewards)
          = [j \in DOMAIN batch.uid |-> GaeAdvantage(ScoresOf(batch)[j], Values[j], Masks[j], Gamma, Lam)]
    BY <1>1, <1>2 DEF EstimatorAdvantages, TokenLevelRewards
  <2>2. i \in DOMAIN batch.uid
    BY <1>1, RowsAre
  <2>3. EstimatorAdvantages(TokenLevelRewards)[i]
          = GaeAdvantage(ScoresOf(batch)[i], Values[i], Masks[i], Gamma, Lam)
    BY <2>1, <2>2
  <2>4. Promised(i, t) = TemporalDifferences(i)[t]
    BY <1>2 DEF Promised
  <2>5. GaeAdvantage(ScoresOf(batch)[i], Values[i], Masks[i], Gamma, Lam)[t] = TemporalDifferences(i)[t]
    BY <1>1, <1>2, GaeIs
  <2>6. QED
    BY <2>3, <2>4, <2>5
<1>3. CASE config.estimator = "tasd"
  <2>1. Judged
    BY <1>1, <1>3 DEF Judged
  <2>2. EstimatorAdvantages(TokenLevelRewards)
          = TasdAdvantage(TokenRewards(Judgements, Masks), Masks, batch.self_distillation_mask, batch.uid)
    BY <1>3 DEF EstimatorAdvantages, TokenLevelRewards
  <2>3. Promised(i, t) = IF t \in Generated(i) THEN Bounded(AgainstTokens(i, t), Approval(i, t)) ELSE 0
    BY <1>3 DEF Promised
  <2>4. QED
    BY <2>1, <2>2, <2>3, TasdIs
<1>4. CASE config.estimator \notin {"gae", "tasd"}
  <2>1. EstimatorAdvantages(TokenLevelRewards) = GrpoOutcomeAdvantage(ScoresOf(batch), Masks, batch.uid)
    BY <1>1, <1>4 DEF EstimatorAdvantages, TokenLevelRewards
  <2>2. Promised(i, t) = IF t \in Generated(i) THEN AgainstPeers(i) ELSE 0
    BY <1>4 DEF Promised
  <2>3. QED
    BY <1>1, <2>1, <2>2, GrpoIs
<1>5. QED
  BY <1>2, <1>3, <1>4

\* From there until the next batch, the advantages are those.
AdvantagesInvariant ==
    phase \in {"advantages", "ready", "updated"} =>
        /\ "advantages" \in DOMAIN batch
        /\ config.estimator # "sequence" => \A i \in 1 .. BatchSize : AsPromised(i)

\* What is promised follows from the responses and, for TASD, from what the teacher says.
LEMMA PromiseKept ==
    ASSUME SameResponses, config' = config, NEW i, NEW t,
           config.estimator = "tasd" => batch'.teacher_log_probs = batch.teacher_log_probs
    PROVE  Promised(i, t)' = Promised(i, t) /\ Generated(i)' = Generated(i)
<1>1. Generated(i)' = Generated(i)
  BY DEF SameResponses, Generated
<1>2. AgainstPeers(i)' = AgainstPeers(i)
  BY DEF SameResponses, AgainstPeers, Peers, Rows
<1>3. TemporalDifferences(i)' = TemporalDifferences(i)
  BY DEF SameResponses, TemporalDifferences, Generated
<1>4. CASE config.estimator = "tasd"
  <2>1. batch'.teacher_log_probs = batch.teacher_log_probs
    BY <1>4
  <2>2. Approval(i, t)' = Approval(i, t)
    BY <2>1 DEF SameResponses, Approval, Shown
  <2>3. AgainstTokens(i, t)' = AgainstTokens(i, t)
    BY <2>1 DEF SameResponses, AgainstTokens, Peers, Rows, Approval, Shown, Generated
  <2>4. Disapproved' <=> Disapproved
    BY <2>1 DEF SameResponses, Disapproved, Rows, Approval, Shown, Generated
  <2>5. \A a, b : Bounded(a, b)' = Bounded(a, b)
    BY <2>4 DEF Bounded, Low
  <2>6. QED
    BY <1>1, <1>4, <2>2, <2>3, <2>5 DEF Promised
<1>5. CASE config.estimator # "tasd"
  BY <1>1, <1>2, <1>3, <1>5 DEF Promised
<1>6. QED
  BY <1>1, <1>4, <1>5

\* So it stays promised as long as the advantages and what it follows from do.
LEMMA PromisesStay ==
    ASSUME SameResponses, config' = config,
           config.estimator = "tasd" => batch'.teacher_log_probs = batch.teacher_log_probs,
           batch'.advantages = batch.advantages, NEW i, AsPromised(i)
    PROVE  AsPromised(i)'
<1>1. \A t : Promised(i, t)' = Promised(i, t) /\ Generated(i)' = Generated(i)
  BY PromiseKept
<1>2. QED
  BY <1>1 DEF AsPromised

LEMMA AdvantagesStep ==
    ASSUME BatchInvariant, DrawnInvariant, AdvantagesInvariant, [Next]_vars
    PROVE  AdvantagesInvariant'
<1>1. CASE ComputeAdvantage
  <2>1. /\ "advantages" \in DOMAIN batch' /\ batch'.advantages = EstimatorAdvantages(TokenLevelRewards)
        /\ config' = config
    BY <1>1, AdvantageColumns DEF ComputeAdvantage
  <2>2. phase \in Training /\ Faithful(batch)
    BY <1>1 DEF ComputeAdvantage, BatchInvariant, Training
  <2>3. SameResponses
    BY <1>1, <2>2, ResponsesKept
  <2>4. ASSUME config.estimator = "tasd" PROVE batch'.teacher_log_probs = batch.teacher_log_probs
    <3>1. "teacher_log_probs" \in DOMAIN batch
      BY <1>1, <2>4 DEF ComputeAdvantage, BatchInvariant, Present
    <3>2. QED
      BY <1>1, <3>1, AdvantageColumns
  <2>5. ASSUME config.estimator # "sequence", NEW i \in 1 .. BatchSize PROVE AsPromised(i)'
    <3>1. \A t : Promised(i, t)' = Promised(i, t) /\ Generated(i)' = Generated(i)
      BY <2>1, <2>3, <2>4, PromiseKept
    <3>2. ASSUME NEW t \in 1 .. ResponseLength, config.estimator # "gae" \/ t \in Generated(i)
          PROVE  batch'.advantages[i][t] = Promised(i, t)
      BY <1>1, <2>1, <2>5, <3>2, AdvantagesGiven
    <3>3. QED
      BY <2>1, <3>1, <3>2 DEF AsPromised
  <2>6. QED
    BY <2>1, <2>5 DEF AdvantagesInvariant
<1>2. CASE TeacherLogProbs
  <2>1. SUFFICES ASSUME config.estimator = "sdpo" PROVE AdvantagesInvariant'
    BY <1>2 DEF TeacherLogProbs, AdvantagesInvariant
  <2>2. /\ phase = "advantages" /\ config' = config
        /\ "advantages" \in DOMAIN batch /\ \A i \in 1 .. BatchSize : AsPromised(i)
    BY <1>2, <2>1 DEF TeacherLogProbs, AdvantagesInvariant
  <2>3. Faithful(batch) /\ phase \in Training
    BY <2>2 DEF BatchInvariant, Training
  <2>4. SameResponses
    BY <1>2, <2>3, ResponsesKept
  <2>5. "advantages" \in DOMAIN batch' /\ batch'.advantages = batch.advantages
    <3> DEFINE kept == DOMAIN batch \ {"teacher_input_ids"}
               first == [c \in kept |-> batch[c]]
               other == [teacher_log_probs |-> Compute(batch, "teacher_input_ids", FALSE)]
    <3>1. batch' = Merge(first, other)
      BY <1>2, <2>1 DEF TeacherLogProbs
    <3>2. "advantages" \notin DOMAIN other /\ "advantages" \in kept
      BY <2>2
    <3> HIDE DEF kept, other
    <3>3. "advantages" \in DOMAIN first /\ first.advantages = batch.advantages
      BY <3>2
    <3> HIDE DEF first
    <3>4. QED
      BY <3>1, <3>2, <3>3, MergeKeeps
  <2>6. \A i \in 1 .. BatchSize : AsPromised(i)'
    BY <2>1, <2>2, <2>4, <2>5, PromisesStay
  <2>7. QED
    BY <2>2, <2>5, <2>6 DEF AdvantagesInvariant
<1>3. CASE UpdateActor \/ UNCHANGED vars
  <2>1. batch' = batch /\ config' = config
        /\ (phase' \in {"advantages", "ready", "updated"} => phase \in {"advantages", "ready", "updated"})
    BY <1>3 DEF UpdateActor, vars
  <2>2. \A i : AsPromised(i) => AsPromised(i)'
    BY <2>1, PromisesStay DEF SameResponses
  <2>3. QED
    BY <2>1, <2>2 DEF AdvantagesInvariant
<1>4. CASE ~(ComputeAdvantage \/ TeacherLogProbs \/ UpdateActor \/ UNCHANGED vars)
  <2>1. phase' \notin {"advantages", "ready", "updated"}
    BY <1>4 DEF Next, Generate, BalanceBatch, ComputeReward, ComputeOldLogProb, BuildSelfDistillationBatch,
       Validate, NextBatch
  <2>2. QED
    BY <2>1 DEF AdvantagesInvariant
<1>5. QED
  BY <1>1, <1>2, <1>3, <1>4

\* The advantages of a response are those its estimator promises, from the set of responses
\* to the same prompt and wherever balancing put them: compute_grpo_outcome_advantage, the
\* group means of TASD over the tokens its teacher had a context for, with its clips, and
\* the temporal differences of compute_gae_advantage_return over the generated tokens.
THEOREM AdvantagesArePromised == Spec => []AdvantagesByPrompt
<1>1. BatchInvariant /\ AdvantagesInvariant => AdvantagesByPrompt
  <2>1. SUFFICES ASSUME BatchInvariant, AdvantagesInvariant, phase \in {"advantages", "ready", "updated"},
                        config.estimator # "sequence", NEW i \in Rows, NEW t \in 1 .. ResponseLength
                 PROVE  \/ config.estimator = "gae" /\ t \notin Generated(i)
                        \/ batch.advantages[i][t] = Promised(i, t)
    BY DEF AdvantagesByPrompt
  <2>2. i \in 1 .. BatchSize
    BY <2>1, RowsAre DEF BatchInvariant, Training
  <2>3. AsPromised(i)
    BY <2>1, <2>2 DEF AdvantagesInvariant
  <2>4. QED
    BY <2>3 DEF AsPromised
<1>2. Init => DrawnInvariant /\ AdvantagesInvariant
  BY DEF Init, DrawnInvariant, AdvantagesInvariant, Training
<1>3. BatchInvariant /\ DrawnInvariant /\ AdvantagesInvariant /\ [Next]_vars => DrawnInvariant' /\ AdvantagesInvariant'
  BY DrawnStep, AdvantagesStep
<1>4. QED
  BY <1>1, <1>2, <1>3, BatchInvariantHolds, PTL DEF Spec
================================================================================

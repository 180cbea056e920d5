------------------------------- MODULE DataProto -------------------------------
(***************************************************************************)
(* The batch of verl/protocol.py, as columns of equal length: tensors and  *)
(* non-tensors alike are sequences of rows, indexed by the column's name.  *)
(***************************************************************************)
EXTENDS Integers, Sequences, SequencesExt

NumRows(data) == Len(data[CHOOSE c \in DOMAIN data : TRUE])

\* data[idx], and reorder
SelectIdxs(data, idx) == [c \in DOMAIN data |-> [i \in DOMAIN idx |-> data[c][idx[i]]]]

Slice(data, first, last) == SelectIdxs(data, [i \in 1..(last - first + 1) |-> first + i - 1])

Concat(parts) == [c \in DOMAIN parts[1] |-> FlattenSeq([p \in DOMAIN parts |-> parts[p][c]])]

\* The columns of both; those in common are asserted to be equal.
Merge(data, other) ==
    [c \in DOMAIN data \union DOMAIN other |-> IF c \in DOMAIN other THEN other[c] ELSE data[c]]

Chunk(data, chunks) ==
    LET size == NumRows(data) \div chunks
    IN  [k \in 1..chunks |-> Slice(data, (k - 1) * size + 1, k * size)]

\* The numbers of n rows, in pieces of a size.
Pieces(n, size) ==
    [k \in 1..((n + size - 1) \div size) |->
        [i \in 1..(IF k * size <= n THEN size ELSE n - (k - 1) * size) |-> (k - 1) * size + i]]

\* Faulty variant: a part has the first row of the next one too.
Split_F(data, size) ==
    LET n == NumRows(data)
    IN  [k \in 1..((n + size - 1) \div size) |->
            Slice(data, (k - 1) * size + 1, IF k * size < n THEN k * size + 1 ELSE n)]

Split(data, size) ==
    LET pieces == Pieces(NumRows(data), size)
    IN  [k \in DOMAIN pieces |-> SelectIdxs(data, pieces[k])]

\* interleave = True
Repeat(data, times) ==
    SelectIdxs(data, [i \in 1..(times * NumRows(data)) |-> (i - 1) \div times + 1])

\* pad_dataproto_to_divisor fills up with rows from the start, as often as needed.
PadSize(data, divisor) == (divisor - (NumRows(data) % divisor)) % divisor

PadToDivisor(data, divisor) ==
    LET n == NumRows(data)
    IN  SelectIdxs(data, [i \in 1..(n + PadSize(data, divisor)) |-> ((i - 1) % n) + 1])

Unpad(data, padSize) == Slice(data, 1, NumRows(data) - padSize)
================================================================================

------------------------ MODULE CheckpointEngine_proofs ------------------------
(***************************************************************************)
(* Theorems about CheckpointEngine: for every model, size of the buffers   *)
(* and number of ranks, the transfer in buckets is what the rest of the    *)
(* system takes it for.                                                    *)
(***************************************************************************)
EXTENDS CheckpointEngine, WellFoundedInduction, TLAPS

-----------------------------------------------------------------------------
(* Induction and recursion over a bounded range *)

LEMMA Least ==
    ASSUME NEW T \in SUBSET Nat, T # {}
    PROVE  \E m \in T : \A n \in T : m <= n
<1> DEFINE R == OpToRel(<, Nat)
<1>1. IsWellFoundedOn(R, Nat)
  BY NatLessThanWellFounded
<1>2. PICK m \in T : \A n \in T : <<n, m>> \notin R
  <2> HIDE DEF R
  <2>1. QED
    BY <1>1, WFMin
<1>3. ASSUME NEW n \in T PROVE m <= n
  <2>1. <<n, m>> \notin R
    BY <1>2
  <2>2. n \in Nat /\ m \in Nat
    OBVIOUS
  <2>3. n < m => <<n, m>> \in R
    BY <2>2 DEF OpToRel
  <2>4. ~ n < m
    <3> HIDE DEF R
    <3>1. QED
      BY <2>1, <2>3
  <2>5. QED
    BY <2>2, <2>4
<1>4. QED
  BY <1>3

\* A set that holds 0, and with n the next number up to N, holds all to N.
LEMMA Induct ==
    ASSUME NEW N \in Nat, NEW S, 0 \in S, \A n \in 0 .. N - 1 : n \in S => n + 1 \in S
    PROVE  \A n \in 0 .. N : n \in S
<1> SUFFICES ASSUME NEW n \in 0 .. N, n \notin S PROVE FALSE
  OBVIOUS
<1> DEFINE T == {k \in 0 .. N : k \notin S}
<1>1. T \in SUBSET Nat /\ T # {}
  OBVIOUS
<1>2. PICK m \in T : \A k \in T : m <= k
  <2> HIDE DEF T
  <2>1. QED
    BY <1>1, Least
<1>3. m \in 1 .. N /\ m \notin S
  BY <1>2
<1>4. m - 1 \in 0 .. N - 1 /\ (m - 1) + 1 = m /\ m - 1 \in S
  BY <1>2, <1>3
<1>5. QED
  BY <1>3, <1>4

\* There is a function that a first value and a step define.
Steps(N, V, v, step) == N \in Nat /\ v \in V /\ step \in [1 .. N -> [V -> V]]

LEMMA Recursion ==
    ASSUME NEW N, NEW V, NEW v, NEW step, Steps(N, V, v, step)
    PROVE  \E f \in [0 .. N -> V] : f[0] = v /\ \A k \in 1 .. N : f[k] = step[k][f[k - 1]]
<1> USE DEF Steps
<1> DEFINE Good(f, n) == f[0] = v /\ \A k \in 1 .. n : f[k] = step[k][f[k - 1]]
           S == {n \in 0 .. N : \E f \in [0 .. n -> V] : Good(f, n)}
<1>1. 0 \in S
  <2>1. [k \in 0 .. 0 |-> v] \in [0 .. 0 -> V] /\ Good([k \in 0 .. 0 |-> v], 0)
    OBVIOUS
  <2> HIDE DEF Good
  <2>2. QED
    BY <2>1
<1>2. ASSUME NEW n \in 0 .. N - 1, n \in S PROVE n + 1 \in S
  <2>1. PICK f \in [0 .. n -> V] : Good(f, n)
    BY <1>2
  <2>2. PICK w \in V : w = step[n + 1][f[n]]
    <3>1. n + 1 \in 1 .. N /\ f[n] \in V
      OBVIOUS
    <3>2. QED
      BY <3>1
  <2> DEFINE g == [k \in 0 .. n + 1 |-> IF k = n + 1 THEN w ELSE f[k]]
  <2>3. g \in [0 .. n + 1 -> V]
    OBVIOUS
  <2>4. Good(g, n + 1)
    <3>1. g[n + 1] = w /\ \A k \in 0 .. n : g[k] = f[k]
      OBVIOUS
    <3> HIDE DEF g
    <3>2. g[0] = v
      <4>1. 0 \in 0 .. n
        OBVIOUS
      <4>2. QED
        BY <2>1, <3>1, <4>1
    <3>3. ASSUME NEW k \in 1 .. n + 1 PROVE g[k] = step[k][g[k - 1]]
      <4>1. CASE k = n + 1
        <5>1. k - 1 = n /\ n \in 0 .. n
          BY <4>1
        <5>2. QED
          BY <2>2, <3>1, <4>1, <5>1
      <4>2. CASE k # n + 1
        <5>1. k \in 1 .. n /\ k - 1 \in 0 .. n
          BY <4>2
        <5>2. g[k - 1] = f[k - 1] /\ g[k] = f[k]
          BY <3>1, <5>1
        <5>3. QED
          BY <2>1, <5>1, <5>2
      <4>3. QED
        BY <4>1, <4>2
    <3>4. QED
      BY <3>2, <3>3
  <2>5. n + 1 \in 0 .. N
    OBVIOUS
  <2> HIDE DEF g, Good
  <2>6. QED
    BY <2>3, <2>4, <2>5
<1>3. N \in S
  <2> HIDE DEF S
  <2>1. \A n \in 0 .. N : n \in S
    BY <1>1, <1>2, Induct
  <2>2. QED
    BY <2>1
<1>4. QED
  BY <1>3

-----------------------------------------------------------------------------
(* The buckets *)

Parameters == 1 .. Len(sizes)
Buckets == Seq(Parameters)
Has(bucket, p) == \E j \in DOMAIN bucket : bucket[j] = p

LEMMA SizesType ==
    ASSUME sizes \in Models
    PROVE  /\ Len(sizes) \in Nat \ {0} /\ DOMAIN sizes = Parameters
           /\ \A p \in Parameters : sizes[p] \in Nat \ {0}
<1>1. sizes \in Seq(Nat \ {0}) /\ sizes # <<>>
  BY EngineAssumption
<1>2. QED
  BY <1>1 DEF Parameters

\* One parameter is the largest, so the size of a bucket is enough for each.
LEMMA LargestFits ==
    ASSUME sizes \in Models
    PROVE  BucketSize \in Nat /\ \A p \in Parameters : sizes[p] <= BucketSize
<1> DEFINE n == Len(sizes)
           S == {k \in 0 .. n : k = 0 \/ \E m \in 1 .. k : \A p \in 1 .. k : sizes[p] <= sizes[m]}
<1>1. n \in Nat \ {0} /\ DOMAIN sizes = 1 .. n /\ \A p \in 1 .. n : sizes[p] \in Nat
  BY SizesType DEF Parameters
<1> HIDE DEF n
<1>2. 0 \in S
  BY <1>1
<1>3. ASSUME NEW k \in 0 .. n - 1, k \in S PROVE k + 1 \in S
  <2>1. CASE k = 0
    <3>1. \A p \in 1 .. k + 1 : sizes[p] <= sizes[1]
      BY <1>1, <2>1
    <3>2. QED
      BY <1>1, <2>1, <3>1
  <2>2. CASE k # 0
    <3>1. PICK m \in 1 .. k : \A p \in 1 .. k : sizes[p] <= sizes[m]
      BY <1>3, <2>2
    <3>2. m \in 1 .. n /\ k + 1 \in 1 .. n
      BY <1>1
    <3>3. CASE sizes[k + 1] <= sizes[m]
      <4>1. \A p \in 1 .. k + 1 : sizes[p] <= sizes[m]
        BY <3>1, <3>3
      <4>2. QED
        BY <1>1, <4>1
    <3>4. CASE ~ sizes[k + 1] <= sizes[m]
      <4>1. \A p \in 1 .. k + 1 : sizes[p] <= sizes[k + 1]
        BY <1>1, <3>1, <3>2, <3>4
      <4>2. QED
        BY <1>1, <4>1
    <3>5. QED
      BY <3>3, <3>4
  <2>3. QED
    BY <2>1, <2>2
<1>4. n \in S
  <2> HIDE DEF S
  <2>1. \A k \in 0 .. n : k \in S
    BY <1>1, <1>2, <1>3, Induct
  <2>2. QED
    BY <1>1, <2>1
<1>5. PICK m \in 1 .. n : \A p \in 1 .. n : sizes[p] <= sizes[m]
  BY <1>1, <1>4
<1> DEFINE Values == {sizes[p] : p \in DOMAIN sizes}
           largest == CHOOSE s \in Values : \A p \in DOMAIN sizes : sizes[p] <= s
<1>6. largest \in Nat /\ \A p \in 1 .. n : sizes[p] <= largest
  BY <1>1, <1>5
<1>7. BucketSize = IF largest > DeviceBufferSize THEN largest ELSE DeviceBufferSize
  BY DEF BucketSize
<1> HIDE DEF largest
<1>8. QED
  BY <1>1, <1>6, <1>7, EngineAssumption DEF n, Parameters

\* What the recursion in Total computes.
LEMMA TotalIs ==
    ASSUME sizes \in Models, NEW b \in Buckets
    PROVE  \E f \in [0 .. Len(b) -> Nat] :
               /\ f[0] = 0 /\ \A k \in 1 .. Len(b) : f[k] = f[k - 1] + sizes[b[k]]
               /\ Total(b) = f[Len(b)]
<1> DEFINE n == Len(b)
           Good(f) == f = [k \in 0 .. n |-> IF k = 0 THEN 0 ELSE f[k - 1] + sizes[b[k]]]
           step == [k \in 1 .. n |-> [x \in Nat |-> x + sizes[b[k]]]]
<1>1. n \in Nat /\ \A k \in 1 .. n : sizes[b[k]] \in Nat
  BY SizesType DEF Buckets
<1> HIDE DEF n
<1>2. step \in [1 .. n -> [Nat -> Nat]]
  BY <1>1
<1>3. \A k \in 1 .. n, x \in Nat : step[k][x] = x + sizes[b[k]]
  BY <1>1
<1> HIDE DEF step
<1>4. PICK g \in [0 .. n -> Nat] : g[0] = 0 /\ \A k \in 1 .. n : g[k] = step[k][g[k - 1]]
  <2>1. Steps(n, Nat, 0, step)
    BY <1>1, <1>2 DEF Steps
  <2>2. QED
    BY <2>1, Recursion
<1>5. Good(g)
  <2>1. ASSUME NEW k \in 0 .. n PROVE g[k] = IF k = 0 THEN 0 ELSE g[k - 1] + sizes[b[k]]
    <3>1. CASE k = 0
      BY <1>4, <3>1
    <3>2. CASE k # 0
      <4>1. k \in 1 .. n /\ k - 1 \in 0 .. n
        BY <1>1, <3>2
      <4>2. g[k - 1] \in Nat
        BY <4>1
      <4>3. QED
        BY <1>3, <1>4, <3>2, <4>1, <4>2
    <3>3. QED
      BY <3>1, <3>2
  <2>2. QED
    BY <2>1
<1> DEFINE f == CHOOSE h : Good(h)
<1>6. Total(b) = f[n]
  BY DEF Total, n
<1>7. Good(f)
  <2> HIDE DEF Good
  <2>1. QED
    BY <1>5
<1> HIDE DEF f
<1>8. f[0] = 0 /\ \A k \in 1 .. n : f[k] = f[k - 1] + sizes[b[k]]
  BY <1>1, <1>7
<1>9. \A k \in 0 .. n : f[k] \in Nat
  <2> DEFINE S == {k \in 0 .. n : f[k] \in Nat}
  <2>1. 0 \in S
    BY <1>1, <1>8
  <2>2. ASSUME NEW k \in 0 .. n - 1, k \in S PROVE k + 1 \in S
    <3>1. k + 1 \in 1 .. n /\ (k + 1) - 1 = k /\ f[k] \in Nat
      BY <1>1, <2>2
    <3>2. f[k + 1] = f[k] + sizes[b[k + 1]]
      BY <1>8, <3>1
    <3>3. f[k + 1] \in Nat
      BY <1>1, <3>1, <3>2
    <3>4. k + 1 \in 0 .. n
      BY <3>1
    <3>5. QED
      BY <3>3, <3>4
  <2> HIDE DEF S
  <2>3. \A k \in 0 .. n : k \in S
    BY <1>1, <2>1, <2>2, Induct
  <2>4. QED
    BY <2>3 DEF S
<1>10. f \in [0 .. n -> Nat]
  BY <1>7, <1>9
<1> HIDE DEF Good
<1>11. QED
  BY <1>6, <1>8, <1>10 DEF n

LEMMA TotalEmpty ==
    ASSUME sizes \in Models
    PROVE  Total(<<>>) = 0
<1>1. <<>> \in Buckets /\ Len(<<>>) = 0
  BY DEF Buckets
<1>2. QED
  BY <1>1, TotalIs

\* A parameter more adds its size.
LEMMA TotalAppend ==
    ASSUME sizes \in Models, NEW b \in Buckets, NEW p \in Parameters
    PROVE  Total(b) \in Nat /\ Total(Append(b, p)) = Total(b) + sizes[p]
<1> DEFINE n == Len(b)
           c == Append(b, p)
<1>1. n \in Nat /\ c \in Buckets /\ Len(c) = n + 1 /\ c[n + 1] = p /\ \A k \in 1 .. n : c[k] = b[k]
  BY DEF Buckets
<1>2. \A k \in 1 .. n : sizes[b[k]] \in Nat
  BY SizesType DEF Buckets
<1>3. PICK f \in [0 .. n -> Nat] :
         /\ f[0] = 0 /\ \A k \in 1 .. n : f[k] = f[k - 1] + sizes[b[k]]
         /\ Total(b) = f[n]
  BY TotalIs
<1> HIDE DEF c
<1>4. PICK g \in [0 .. n + 1 -> Nat] :
         /\ g[0] = 0 /\ \A k \in 1 .. n + 1 : g[k] = g[k - 1] + sizes[c[k]]
         /\ Total(c) = g[n + 1]
  BY <1>1, TotalIs
<1> HIDE DEF n
<1> DEFINE S == {k \in 0 .. n : g[k] = f[k]}
<1>5. 0 \in S
  BY <1>1, <1>3, <1>4
<1>6. ASSUME NEW k \in 0 .. n - 1, k \in S PROVE k + 1 \in S
  <2>1. /\ k + 1 \in 1 .. n /\ k + 1 \in 1 .. n + 1 /\ (k + 1) - 1 = k /\ k + 1 \in 0 .. n
        /\ g[k] = f[k]
    BY <1>1, <1>6
  <2>2. f[k + 1] = f[k] + sizes[b[k + 1]] /\ g[k + 1] = g[k] + sizes[c[k + 1]]
    BY <1>3, <1>4, <2>1
  <2>3. g[k + 1] = f[k + 1]
    BY <1>1, <2>1, <2>2
  <2>4. QED
    BY <2>1, <2>3
<1>7. g[n] = f[n]
  <2> HIDE DEF S
  <2>1. \A k \in 0 .. n : k \in S
    BY <1>1, <1>5, <1>6, Induct
  <2>2. n \in S
    BY <1>1, <2>1
  <2>3. QED
    BY <2>2 DEF S
<1>8. g[n + 1] = g[n] + sizes[p]
  <2>1. n + 1 \in 1 .. n + 1 /\ (n + 1) - 1 = n
    BY <1>1
  <2>2. QED
    BY <1>1, <1>4, <2>1
<1>9. f[n] \in Nat
  BY <1>1
<1>10. QED
  BY <1>3, <1>4, <1>7, <1>8, <1>9 DEF c

LEMMA HasAppend ==
    ASSUME NEW T, NEW b \in Seq(T), NEW p, NEW q
    PROVE  Has(Append(b, p), q) <=> (Has(b, q) \/ q = p)
<1> DEFINE c == Append(b, p)
           n == Len(b)
<1>1. n \in Nat /\ DOMAIN b = 1 .. n /\ DOMAIN c = 1 .. n + 1 /\ c[n + 1] = p
      /\ \A k \in 1 .. n : c[k] = b[k]
  OBVIOUS
<1> HIDE DEF c, n
<1>2. Has(c, q) <=> \E k \in 1 .. n + 1 : c[k] = q
  BY <1>1 DEF Has
<1>3. (\E k \in 1 .. n + 1 : c[k] = q) <=> ((\E k \in 1 .. n : b[k] = q) \/ q = p)
  BY <1>1
<1>4. (\E k \in 1 .. n : b[k] = q) <=> Has(b, q)
  BY <1>1 DEF Has
<1>5. QED
  BY <1>2, <1>3, <1>4 DEF c

Fits(buckets) == \A i \in 1 .. Len(buckets) : Total(buckets[i]) <= BucketSize

\* Adding a parameter to the list of a rank: it is in the last bucket, and the
\* others are as they were. A new bucket is begun only after one with contents.
LEMMA AddToList ==
    ASSUME sizes \in Models, NEW bs \in Seq(Buckets), bs # <<>>, NEW p \in Parameters, Fits(bs)
    PROVE  /\ AddTo(bs, p) \in Seq(Buckets)
           /\ Len(AddTo(bs, p)) \in {Len(bs), Len(bs) + 1}
           /\ bs = << <<>> >> => Len(AddTo(bs, p)) = 1
           /\ Fits(AddTo(bs, p))
           /\ \A i \in 1 .. Len(AddTo(bs, p)), q \in Parameters :
                 Has(AddTo(bs, p)[i], q) <=> (\/ (i <= Len(bs) /\ Has(bs[i], q))
                                             \/ (i = Len(AddTo(bs, p)) /\ q = p))
<1> DEFINE n == Len(bs)
           last == bs[n]
<1>1. n \in Nat \ {0} /\ \A i \in 1 .. n : bs[i] \in Buckets
  OBVIOUS
<1>2. last \in Buckets /\ <<>> \in Buckets /\ Append(last, p) \in Buckets
  BY <1>1 DEF Buckets
<1>3. /\ Total(last) \in Nat /\ sizes[p] \in Nat /\ BucketSize \in Nat /\ sizes[p] <= BucketSize
      /\ Total(Append(last, p)) = Total(last) + sizes[p]
  BY <1>2, TotalAppend, SizesType, LargestFits
<1>4. CASE Total(last) + sizes[p] > BucketSize
  <2> DEFINE c == Append(bs, <<p>>)
  <2>1. AddTo(bs, p) = c
    BY <1>4 DEF AddTo
  <2>2. <<p>> = Append(<<>>, p) /\ <<p>> \in Buckets
    BY DEF Buckets
  <2>3. Total(<<p>>) <= BucketSize
    <3>1. Total(Append(<<>>, p)) = Total(<<>>) + sizes[p]
      BY <1>2, TotalAppend
    <3>2. QED
      BY <1>3, <2>2, <3>1, TotalEmpty
  <2>4. /\ c \in Seq(Buckets) /\ Len(c) = n + 1 /\ c[n + 1] = <<p>>
        /\ \A i \in 1 .. n : c[i] = bs[i]
    BY <1>1, <2>2
  <2>5. bs # << <<>> >>
    <3>1. Total(last) # 0
      BY <1>3, <1>4
    <3>2. QED
      BY <3>1, TotalEmpty
  <2> HIDE DEF c
  <2>6. Fits(c)
    BY <1>1, <2>3, <2>4 DEF Fits
  <2>7. ASSUME NEW i \in 1 .. Len(c), NEW q \in Parameters
        PROVE  Has(c[i], q) <=> ((i <= n /\ Has(bs[i], q)) \/ (i = Len(c) /\ q = p))
    <3>1. CASE i <= n
      <4>1. i \in 1 .. n /\ i # Len(c)
        BY <1>1, <2>4, <3>1
      <4>2. QED
        BY <2>4, <3>1, <4>1
    <3>2. CASE i > n
      <4>1. i = n + 1 /\ c[i] = <<p>>
        BY <1>1, <2>4, <3>2
      <4>2. Has(<<p>>, q) <=> q = p
        BY DEF Has
      <4>3. QED
        <5>1. ~ i <= n /\ i = Len(c)
          BY <1>1, <2>4, <4>1
        <5>2. QED
          BY <4>1, <4>2, <5>1
    <3>3. QED
      BY <1>1, <3>1, <3>2
  <2>8. QED
    BY <2>1, <2>4, <2>5, <2>6, <2>7
<1>5. CASE ~ (Total(last) + sizes[p] > BucketSize)
  <2> DEFINE c == [bs EXCEPT ![n] = Append(last, p)]
  <2>1. AddTo(bs, p) = c
    BY <1>5 DEF AddTo
  <2>2. /\ c \in Seq(Buckets) /\ Len(c) = n /\ c[n] = Append(last, p)
        /\ \A i \in 1 .. n : i # n => c[i] = bs[i]
    BY <1>1, <1>2
  <2> HIDE DEF c
  <2>3. Fits(c)
    <3>1. Total(c[n]) <= BucketSize
      BY <1>3, <1>5, <2>2
    <3>2. QED
      BY <1>1, <2>2, <3>1 DEF Fits
  <2>4. ASSUME NEW i \in 1 .. Len(c), NEW q \in Parameters
        PROVE  Has(c[i], q) <=> ((i <= n /\ Has(bs[i], q)) \/ (i = Len(c) /\ q = p))
    <3>1. CASE i # n
      <4>1. i \in 1 .. n /\ i <= n /\ i # Len(c) /\ c[i] = bs[i]
        BY <1>1, <2>2, <3>1
      <4>2. QED
        BY <4>1
    <3>2. CASE i = n
      <4>1. Has(Append(last, p), q) <=> (Has(last, q) \/ q = p)
        <5>1. last \in Seq(Parameters)
          BY <1>2 DEF Buckets
        <5>2. QED
          BY <5>1, HasAppend
      <4>2. i <= n /\ i = Len(c) /\ c[i] = Append(last, p) /\ last = bs[i]
        BY <1>1, <2>2, <3>2
      <4>3. QED
        BY <4>1, <4>2
    <3>3. QED
      BY <3>1, <3>2
  <2>5. bs = << <<>> >> => n = 1
    OBVIOUS
  <2>6. QED
    BY <2>1, <2>2, <2>3, <2>4, <2>5
<1>6. QED
  BY <1>4, <1>5

\* What a rank's list of buckets is while the parameters are registered.
Lists == {bs \in Seq(Buckets) : bs # <<>> /\ Fits(bs)}

\* The parameters up to p are each in one bucket of one rank, the others in none.
Spread(B, p) ==
    /\ \A a \in ActorRanks : \A i \in 1 .. Len(B[a]), q \in Parameters : Has(B[a][i], q) => q <= p
    /\ \A q \in 1 .. p : \E a \in ActorRanks : \E i \in 1 .. Len(B[a]) : Has(B[a][i], q)
    /\ \A a, b \in ActorRanks : \A i \in 1 .. Len(B[a]), j \in 1 .. Len(B[b]), q \in Parameters :
          Has(B[a][i], q) /\ Has(B[b][j], q) => a = b /\ i = j
    /\ \A a \in ActorRanks : Len(B[a]) <= IF p = 0 THEN 1 ELSE p
    /\ p = 0 => \A a \in ActorRanks : B[a] = << <<>> >>

LEMMA FirstList ==
    ASSUME sizes \in Models
    PROVE  << <<>> >> \in Lists
<1>1. << <<>> >> \in Seq(Buckets) /\ Len(<< <<>> >>) = 1 /\ << <<>> >>[1] = <<>>
  BY DEF Buckets
<1>2. Total(<<>>) <= BucketSize
  BY TotalEmpty, LargestFits
<1>3. QED
  BY <1>1, <1>2 DEF Lists, Fits

LEMMA SpreadFirst ==
    ASSUME sizes \in Models
    PROVE  Spread([a \in ActorRanks |-> << <<>> >>], 0)
<1>1. Len(<< <<>> >>) = 1 /\ << <<>> >>[1] = <<>> /\ \A q : ~ Has(<<>>, q)
  BY DEF Has
<1>2. QED
  BY <1>1 DEF Spread

LEMMA SpreadStep ==
    ASSUME sizes \in Models, NEW B \in [ActorRanks -> Lists], NEW p \in 0 .. Len(sizes) - 1,
           Spread(B, p), NEW o \in ActorRanks
    PROVE  LET C == [B EXCEPT ![o] = AddTo(@, p + 1)]
           IN  C \in [ActorRanks -> Lists] /\ Spread(C, p + 1)
<1> DEFINE C == [B EXCEPT ![o] = AddTo(@, p + 1)]
<1>1. p \in Nat /\ p + 1 \in Parameters /\ Len(sizes) \in Nat
  BY SizesType DEF Parameters
<1>2. \A a \in ActorRanks : B[a] \in Seq(Buckets) /\ B[a] # <<>> /\ Fits(B[a]) /\ Len(B[a]) \in Nat \ {0}
  BY DEF Lists
<1> DEFINE c == AddTo(B[o], p + 1)
<1>3. /\ c \in Seq(Buckets) /\ Len(c) \in {Len(B[o]), Len(B[o]) + 1} /\ Fits(c)
      /\ B[o] = << <<>> >> => Len(c) = 1
      /\ \A i \in 1 .. Len(c), q \in Parameters :
            Has(c[i], q) <=> (\/ (i <= Len(B[o]) /\ Has(B[o][i], q))
                              \/ (i = Len(c) /\ q = p + 1))
  BY <1>1, <1>2, AddToList
<1>4. C[o] = c /\ \A a \in ActorRanks : a # o => C[a] = B[a]
  OBVIOUS
<1> HIDE DEF c
<1>5. Len(c) \in Nat \ {0} /\ c # <<>>
  BY <1>2, <1>3
<1>6. C \in [ActorRanks -> Lists]
  <2>1. c \in Lists
    BY <1>3, <1>5 DEF Lists
  <2>2. QED
    BY <2>1 DEF c
<1> HIDE DEF C
<1>7. ASSUME NEW a \in ActorRanks
      PROVE  /\ Len(C[a]) \in Nat /\ Len(B[a]) \in Nat \ {0} /\ Len(B[a]) <= Len(C[a])
             /\ \A i \in 1 .. Len(C[a]), q \in Parameters :
                   Has(C[a][i], q) <=> (\/ (i \in 1 .. Len(B[a]) /\ Has(B[a][i], q))
                                        \/ (a = o /\ i = Len(C[a]) /\ q = p + 1))
  <2>1. CASE a = o
    BY <1>2, <1>3, <1>4, <1>5, <2>1
  <2>2. CASE a # o
    BY <1>2, <1>4, <2>2
  <2>3. QED
    BY <2>1, <2>2
<1>8. \A a \in ActorRanks : \A i \in 1 .. Len(B[a]), q \in Parameters : Has(B[a][i], q) => q <= p
  BY DEF Spread
<1>9. ASSUME NEW a \in ActorRanks, NEW i \in 1 .. Len(C[a]), NEW q \in Parameters, Has(C[a][i], q)
      PROVE  q <= p + 1
  <2>1. q \in Nat /\ (q <= p \/ q = p + 1)
    BY <1>7, <1>8, <1>9, <1>1 DEF Parameters
  <2>2. QED
    BY <1>1, <2>1
<1>10. ASSUME NEW q \in 1 .. p + 1
       PROVE  \E a \in ActorRanks : \E i \in 1 .. Len(C[a]) : Has(C[a][i], q)
  <2>1. q \in Parameters
    BY <1>1 DEF Parameters
  <2>2. CASE q = p + 1
    <3>1. Len(C[o]) \in 1 .. Len(C[o])
      BY <1>4, <1>5
    <3>2. Has(C[o][Len(C[o])], q)
      BY <1>7, <2>1, <2>2, <3>1
    <3>3. QED
      BY <3>1, <3>2
  <2>3. CASE q # p + 1
    <3>1. q \in 1 .. p
      BY <1>1, <2>3
    <3>2. PICK a \in ActorRanks : \E i \in 1 .. Len(B[a]) : Has(B[a][i], q)
      BY <3>1 DEF Spread
    <3>3. PICK i \in 1 .. Len(B[a]) : Has(B[a][i], q)
      BY <3>2
    <3>4. i \in 1 .. Len(C[a])
      BY <1>7
    <3>5. Has(C[a][i], q)
      BY <1>7, <2>1, <3>3, <3>4
    <3>6. QED
      BY <3>4, <3>5
  <2>4. QED
    BY <2>2, <2>3
<1>11. ASSUME NEW a \in ActorRanks, NEW b \in ActorRanks, NEW i \in 1 .. Len(C[a]),
              NEW j \in 1 .. Len(C[b]), NEW q \in Parameters, Has(C[a][i], q), Has(C[b][j], q)
       PROVE  a = b /\ i = j
  <2>1. CASE q = p + 1
    <3>1. \A d \in ActorRanks : \A k \in 1 .. Len(B[d]) : ~ Has(B[d][k], q)
      <4>1. ~ q <= p
        BY <1>1, <2>1
      <4>2. QED
        BY <1>8, <4>1
    <3>2. a = o /\ i = Len(C[a])
      BY <1>7, <1>11, <3>1
    <3>3. b = o /\ j = Len(C[b])
      BY <1>7, <1>11, <3>1
    <3>4. QED
      BY <3>2, <3>3
  <2>2. CASE q # p + 1
    <3>1. i \in 1 .. Len(B[a]) /\ Has(B[a][i], q)
      BY <1>7, <1>11, <2>2
    <3>2. j \in 1 .. Len(B[b]) /\ Has(B[b][j], q)
      BY <1>7, <1>11, <2>2
    <3>3. QED
      BY <3>1, <3>2 DEF Spread
  <2>3. QED
    BY <2>1, <2>2
<1>12. ASSUME NEW a \in ActorRanks PROVE Len(C[a]) <= p + 1
  <2>1. Len(B[a]) <= (IF p = 0 THEN 1 ELSE p) /\ (p = 0 => B[a] = << <<>> >>)
    BY DEF Spread
  <2>2. CASE p = 0
    <3>1. Len(B[a]) = 1
      BY <2>1, <2>2
    <3>2. CASE a = o
      <4>1. Len(C[a]) = 1
        BY <1>3, <1>4, <2>1, <2>2, <3>2
      <4>2. QED
        BY <1>1, <4>1
    <3>3. CASE a # o
      <4>1. Len(C[a]) = 1
        BY <1>4, <3>1, <3>3
      <4>2. QED
        BY <1>1, <4>1
    <3>4. QED
      BY <3>2, <3>3
  <2>3. CASE p # 0
    <3>1. Len(B[a]) <= p /\ Len(B[a]) \in Nat
      BY <1>2, <2>1, <2>3
    <3>2. Len(C[a]) \in {Len(B[a]), Len(B[a]) + 1}
      BY <1>3, <1>4
    <3>3. QED
      BY <1>1, <3>1, <3>2
  <2>4. QED
    BY <2>2, <2>3
<1>13. p + 1 # 0
  BY <1>1
<1>14. Spread(C, p + 1)
  BY <1>9, <1>10, <1>11, <1>12, <1>13 DEF Spread
<1>15. QED
  BY <1>6, <1>14 DEF C

\* What register_checkpoint has done when it returns: every parameter is in one
\* bucket of one rank, and every bucket fits the buffer.
LEMMA BucketsAre ==
    ASSUME sizes \in Models
    PROVE  BucketsByRank \in [ActorRanks -> Lists] /\ Spread(BucketsByRank, Len(sizes))
<1> DEFINE n == Len(sizes)
           V == [ActorRanks -> Lists]
           first == [a \in ActorRanks |-> << <<>> >>]
           Good(f) == f = [p \in 0 .. n |->
                             IF p = 0 THEN first
                             ELSE [f[p - 1] EXCEPT ![(p - 1) % NumActors] = AddTo(@, p)]]
           step == [p \in 1 .. n |-> [B \in V |-> [B EXCEPT ![(p - 1) % NumActors] = AddTo(@, p)]]]
<1>1. n \in Nat \ {0}
  BY SizesType
<1>2. first \in V
  BY FirstList
<1>3. ASSUME NEW p \in 1 .. n PROVE (p - 1) % NumActors \in ActorRanks
  BY EngineAssumption, <1>1 DEF ActorRanks
<1>4. ASSUME NEW p \in 1 .. n, NEW B \in V
      PROVE  [B EXCEPT ![(p - 1) % NumActors] = AddTo(@, p)] \in V
  <2>1. B[(p - 1) % NumActors] \in Seq(Buckets) /\ B[(p - 1) % NumActors] # <<>>
        /\ Fits(B[(p - 1) % NumActors])
    BY <1>3 DEF Lists
  <2>2. AddTo(B[(p - 1) % NumActors], p) \in Lists
    <3> DEFINE c == AddTo(B[(p - 1) % NumActors], p)
               b == B[(p - 1) % NumActors]
    <3>1. c \in Seq(Buckets) /\ Len(c) \in {Len(b), Len(b) + 1} /\ Fits(c)
      BY <2>1, AddToList DEF Parameters
    <3>2. Len(b) \in Nat \ {0}
      BY <2>1
    <3> HIDE DEF c, b
    <3>3. c # <<>>
      BY <3>1, <3>2
    <3>4. QED
      BY <3>1, <3>3 DEF Lists, c
  <2>3. QED
    BY <2>2
<1> HIDE DEF n, V, first
<1>5. step \in [1 .. n -> [V -> V]]
  BY <1>4
<1>6. \A p \in 1 .. n, B \in V : step[p][B] = [B EXCEPT ![(p - 1) % NumActors] = AddTo(@, p)]
  OBVIOUS
<1> HIDE DEF step
<1>7. PICK g \in [0 .. n -> V] : g[0] = first /\ \A p \in 1 .. n : g[p] = step[p][g[p - 1]]
  <2>1. Steps(n, V, first, step)
    BY <1>1, <1>2, <1>5 DEF Steps
  <2>2. QED
    BY <2>1, Recursion
<1>8. Good(g)
  <2>1. ASSUME NEW p \in 0 .. n
        PROVE  g[p] = IF p = 0 THEN first ELSE [g[p - 1] EXCEPT ![(p - 1) % NumActors] = AddTo(@, p)]
    <3>1. CASE p = 0
      BY <1>7, <3>1
    <3>2. CASE p # 0
      <4>1. p \in 1 .. n /\ p - 1 \in 0 .. n
        BY <1>1, <3>2
      <4>2. g[p - 1] \in V /\ g[p] = step[p][g[p - 1]]
        BY <1>7, <4>1
      <4>3. QED
        BY <1>6, <3>2, <4>1, <4>2
    <3>3. QED
      BY <3>1, <3>2
  <2>2. QED
    BY <2>1
<1> DEFINE f == CHOOSE h : Good(h)
<1>9. BucketsByRank = f[n]
  BY DEF BucketsByRank, n, first
<1>10. Good(f)
  <2> HIDE DEF Good
  <2>1. QED
    BY <1>8
<1> HIDE DEF f
<1>11. f[0] = first
  BY <1>1, <1>10
<1>12. ASSUME NEW p \in 1 .. n
       PROVE  f[p] = [f[p - 1] EXCEPT ![(p - 1) % NumActors] = AddTo(@, p)]
  <2>1. p \in 0 .. n /\ p # 0
    BY <1>1
  <2>2. QED
    BY <1>10, <2>1
<1> HIDE DEF Good
<1> DEFINE S == {p \in 0 .. n : f[p] \in V /\ Spread(f[p], p)}
<1>13. 0 \in S
  BY <1>1, <1>2, <1>11, SpreadFirst DEF first
<1>14. ASSUME NEW p \in 0 .. n - 1, p \in S PROVE p + 1 \in S
  <2>1. p + 1 \in 1 .. n /\ (p + 1) - 1 = p /\ p + 1 \in 0 .. n /\ f[p] \in V /\ Spread(f[p], p)
    BY <1>1, <1>14
  <2>2. p % NumActors \in ActorRanks
    BY <1>3, <2>1
  <2>3. f[p + 1] = [f[p] EXCEPT ![p % NumActors] = AddTo(@, p + 1)]
    BY <1>12, <2>1
  <2>4. f[p + 1] \in V /\ Spread(f[p + 1], p + 1)
    BY <2>1, <2>2, <2>3, SpreadStep DEF V, n
  <2>5. QED
    BY <2>1, <2>4
<1>15. n \in S
  <2> HIDE DEF S
  <2>1. \A p \in 0 .. n : p \in S
    BY <1>1, <1>13, <1>14, Induct
  <2>2. QED
    BY <1>1, <2>1
<1>16. QED
  BY <1>9, <1>15 DEF V, n

-----------------------------------------------------------------------------
(* The order of the broadcasts *)

NumSlots == Len(Slots)

\* The parameters of the bucket that is broadcast as number k.
Holds(p, k) == Has(Metas(Slots[k]), p)

\* Quotient and remainder name a round and a rank.
LEMMA DivMod ==
    ASSUME NEW n \in Nat \ {0}, NEW k \in Nat
    PROVE  k % n \in 0 .. n - 1 /\ k \div n \in Nat /\ k = n * (k \div n) + (k % n)
  OBVIOUS

LEMMA RoundAndRank ==
    ASSUME NEW n \in Nat \ {0}, NEW r \in 0 .. n - 1, NEW i \in Nat
    PROVE  (i * n + r) % n = r /\ (i * n + r) \div n = i /\ i * n + r \in Nat
<1> DEFINE k == i * n + r
           q == k \div n
           s == k % n
<1>1. k \in Nat
  OBVIOUS
<1>2. s \in 0 .. n - 1 /\ q \in Nat /\ k = q * n + s
  BY <1>1
<1> HIDE DEF q, s
<1>3. \A x, y \in Nat : x < y => x * n + n <= y * n
  OBVIOUS
<1>4. q = i
  <2> DEFINE a == q * n
             b == i * n
  <2>1. a \in Nat /\ b \in Nat /\ b + r = a + s
    BY <1>1, <1>2
  <2>2. (q < i => a + n <= b) /\ (i < q => b + n <= a)
    BY <1>2, <1>3
  <2> HIDE DEF a, b
  <2>3. ~ q < i /\ ~ i < q
    BY <1>2, <2>1, <2>2
  <2>4. QED
    BY <1>2, <2>3
<1>5. s = r
  BY <1>2, <1>4
<1>6. QED
  BY <1>1, <1>4, <1>5 DEF q, s

\* The two loops of update_checkpoint come to every bucket of every rank once.
LEMMA SlotsAre ==
    ASSUME sizes \in Models, globalBuckets \in [ActorRanks -> Lists],
           \A a \in ActorRanks : Len(globalBuckets[a]) <= Len(sizes)
    PROVE  /\ NumSlots \in Nat
           /\ \A k \in 1 .. NumSlots :
                 Slots[k].src \in ActorRanks /\ Slots[k].i \in 1 .. Len(globalBuckets[Slots[k].src])
           /\ \A a \in ActorRanks : \A i \in 1 .. Len(globalBuckets[a]) :
                 \E k \in 1 .. NumSlots : Slots[k].src = a /\ Slots[k].i = i
           /\ \A k, l \in 1 .. NumSlots :
                 Slots[k].src = Slots[l].src /\ Slots[k].i = Slots[l].i => k = l
<1> DEFINE n == NumActors
           m == NumActors * Len(sizes)
           Item(k) == [src |-> (k - 1) % n, i |-> (k - 1) \div n + 1]
           Over(s) == s.i > Len(globalBuckets[s.src])
           All == [src : ActorRanks, i : Nat \ {0}]
           V == Seq(All)
           Good(f) == f = [k \in 0 .. m |->
                             IF k = 0 THEN <<>>
                             ELSE IF Over(Item(k)) THEN f[k - 1]
                                  ELSE Append(f[k - 1], Item(k))]
           step == [k \in 1 .. m |-> [s \in V |->
                                        IF Over(Item(k)) THEN s ELSE Append(s, Item(k))]]
<1>1. /\ n \in Nat \ {0} /\ ActorRanks = 0 .. n - 1 /\ Len(sizes) \in Nat \ {0} /\ m \in Nat
      /\ \A a \in ActorRanks : Len(globalBuckets[a]) \in Nat
  BY SizesType, EngineAssumption DEF ActorRanks, Lists
<1>2. ASSUME NEW k \in 1 .. m PROVE Item(k) \in All
  <2>1. k - 1 \in Nat
    BY <1>1
  <2>2. (k - 1) % n \in 0 .. n - 1 /\ (k - 1) \div n \in Nat
    BY <1>1, <2>1, DivMod
  <2>3. QED
    BY <1>1, <2>2
<1>3. \A k, l \in 1 .. m : Item(k) = Item(l) => k = l
  <2> SUFFICES ASSUME NEW k \in 1 .. m, NEW l \in 1 .. m, Item(k) = Item(l) PROVE k = l
    OBVIOUS
  <2>1. k - 1 \in Nat /\ l - 1 \in Nat
    BY <1>1
  <2>2. (k - 1) % n = (l - 1) % n /\ (k - 1) \div n = (l - 1) \div n
    <3>1. Item(k).src = Item(l).src /\ Item(k).i = Item(l).i
      OBVIOUS
    <3>2. (k - 1) \div n \in Nat /\ (l - 1) \div n \in Nat
      BY <1>1, <2>1, DivMod
    <3>3. QED
      BY <3>1, <3>2
  <2>3. /\ k - 1 = n * ((k - 1) \div n) + ((k - 1) % n)
        /\ l - 1 = n * ((l - 1) \div n) + ((l - 1) % n)
    BY <1>1, <2>1, DivMod
  <2>4. k - 1 = l - 1
    BY <2>2, <2>3
  <2>5. QED
    BY <1>1, <2>4
<1>4. ASSUME NEW a \in ActorRanks, NEW i \in 1 .. Len(sizes)
      PROVE  \E k \in 1 .. m : Item(k) = [src |-> a, i |-> i]
  <2> DEFINE k == ((i - 1) * n + a) + 1
  <2>1. (i - 1) \in Nat /\ a \in 0 .. n - 1 /\ (i - 1) + 1 = i
    BY <1>1
  <2>2. /\ ((i - 1) * n + a) % n = a /\ ((i - 1) * n + a) \div n = i - 1
        /\ (i - 1) * n + a \in Nat
    BY <1>1, <2>1, RoundAndRank
  <2>3. k \in 1 .. m
    <3>1. (i - 1) * n + n <= Len(sizes) * n
      BY <1>1
    <3>2. n * Len(sizes) = Len(sizes) * n /\ Len(sizes) * n \in Nat /\ (i - 1) * n \in Nat
      BY <1>1, <2>1
    <3> DEFINE x == (i - 1) * n
               y == Len(sizes) * n
    <3>3. x \in Nat /\ y \in Nat /\ x + n <= y /\ m = y /\ k = x + a + 1
      BY <2>1, <3>1, <3>2
    <3> HIDE DEF x, y, k, m
    <3>4. QED
      BY <1>1, <2>1, <3>3
  <2>4. k - 1 = (i - 1) * n + a
    BY <2>2
  <2> HIDE DEF k, m
  <2>5. Item(k) = [src |-> a, i |-> i]
    BY <2>1, <2>2, <2>4
  <2>6. QED
    BY <2>3, <2>5
<1> DEFINE f == CHOOSE h : Good(h)
<1>5. Slots = f[m]
  BY DEF Slots
<1>6. \A s \in All : ~ Over(s) <=> s.i \in 1 .. Len(globalBuckets[s.src])
  BY <1>1
<1> HIDE DEF m, All, V, Item, Over
<1>7. step \in [1 .. m -> [V -> V]]
  BY <1>2 DEF V
<1>8. \A k \in 1 .. m, s \in V : step[k][s] = IF Over(Item(k)) THEN s ELSE Append(s, Item(k))
  OBVIOUS
<1> HIDE DEF step
<1>9. PICK g \in [0 .. m -> V] : g[0] = <<>> /\ \A k \in 1 .. m : g[k] = step[k][g[k - 1]]
  <2>1. Steps(m, V, <<>>, step)
    BY <1>1, <1>7 DEF Steps, V
  <2>2. QED
    BY <2>1, Recursion
<1>10. Good(g)
  <2>1. ASSUME NEW k \in 0 .. m
        PROVE  g[k] = IF k = 0 THEN <<>>
                      ELSE IF Over(Item(k)) THEN g[k - 1] ELSE Append(g[k - 1], Item(k))
    <3>1. CASE k = 0
      BY <1>9, <3>1
    <3>2. CASE k # 0
      <4>1. k \in 1 .. m /\ k - 1 \in 0 .. m
        BY <1>1, <3>2
      <4>2. g[k - 1] \in V /\ g[k] = step[k][g[k - 1]]
        BY <1>9, <4>1
      <4>3. QED
        BY <1>8, <3>2, <4>1, <4>2
    <3>3. QED
      BY <3>1, <3>2
  <2>2. QED
    BY <2>1
<1>11. Good(f)
  <2> HIDE DEF Good
  <2>1. QED
    BY <1>10
<1> HIDE DEF f
<1>12. f[0] = <<>>
  BY <1>1, <1>11
<1>13. ASSUME NEW k \in 1 .. m
       PROVE  f[k] = IF Over(Item(k)) THEN f[k - 1] ELSE Append(f[k - 1], Item(k))
  <2>1. k \in 0 .. m /\ k # 0
    BY <1>1
  <2>2. QED
    BY <1>11, <2>1
<1> HIDE DEF Good
<1> DEFINE Listed(s, k) ==
             /\ \A x \in 1 .. Len(s) : ~ Over(s[x]) /\ \E j \in 1 .. k : s[x] = Item(j)
             /\ \A j \in 1 .. k : ~ Over(Item(j)) => \E x \in 1 .. Len(s) : s[x] = Item(j)
             /\ \A x, y \in 1 .. Len(s) : s[x] = s[y] => x = y
           S == {k \in 0 .. m : f[k] \in V /\ Listed(f[k], k)}
<1>14. 0 \in S
  <2>1. <<>> \in V /\ Len(<<>>) = 0
    BY DEF V
  <2>2. QED
    BY <1>1, <1>12, <2>1
<1>15. ASSUME NEW k \in 0 .. m - 1, k \in S PROVE k + 1 \in S
  <2> DEFINE s == f[k]
  <2>1. /\ k + 1 \in 1 .. m /\ (k + 1) - 1 = k /\ k + 1 \in 0 .. m /\ k \in Nat
        /\ s \in V /\ Listed(s, k)
    <3>1. k \in 0 .. m /\ f[k] \in V /\ Listed(f[k], k)
      BY <1>15
    <3> HIDE DEF Listed
    <3>2. QED
      BY <1>1, <3>1
  <2>2. f[k + 1] = IF Over(Item(k + 1)) THEN s ELSE Append(s, Item(k + 1))
    BY <1>13, <2>1
  <2>3. Item(k + 1) \in All
    BY <1>2, <2>1
  <2> HIDE DEF s
  <2>4. CASE Over(Item(k + 1))
    <3>1. Listed(s, k + 1)
      <4>1. \A j \in 1 .. k + 1 : j \in 1 .. k \/ j = k + 1
        BY <2>1
      <4>2. \A j \in 1 .. k : j \in 1 .. k + 1
        BY <2>1
      <4>3. QED
        BY <2>1, <2>4, <4>1, <4>2
    <3>2. QED
      BY <2>1, <2>2, <2>4, <3>1
  <2>5. CASE ~ Over(Item(k + 1))
    <3> DEFINE t == Append(s, Item(k + 1))
               l == Len(s)
    <3>1. /\ l \in Nat /\ t \in V /\ Len(t) = l + 1 /\ t[l + 1] = Item(k + 1)
          /\ \A x \in 1 .. l : t[x] = s[x]
      BY <2>1, <2>3 DEF V
    <3> HIDE DEF t
    <3>2. ASSUME NEW x \in 1 .. l + 1
          PROVE  ~ Over(t[x]) /\ \E j \in 1 .. k + 1 : t[x] = Item(j)
      <4>1. CASE x = l + 1
        <5>1. k + 1 \in 1 .. k + 1
          BY <2>1
        <5>2. QED
          BY <2>5, <3>1, <4>1, <5>1
      <4>2. CASE x # l + 1
        <5>1. x \in 1 .. l
          BY <3>1, <4>2
        <5>2. PICK j \in 1 .. k : s[x] = Item(j)
          BY <2>1, <5>1
        <5>3. j \in 1 .. k + 1
          BY <2>1
        <5>4. QED
          BY <2>1, <3>1, <5>1, <5>2, <5>3
      <4>3. QED
        BY <4>1, <4>2
    <3>3. ASSUME NEW j \in 1 .. k + 1, ~ Over(Item(j))
          PROVE  \E x \in 1 .. l + 1 : t[x] = Item(j)
      <4>1. CASE j = k + 1
        <5>1. l + 1 \in 1 .. l + 1
          BY <3>1
        <5>2. QED
          BY <3>1, <4>1, <5>1
      <4>2. CASE j # k + 1
        <5>1. j \in 1 .. k
          BY <2>1, <4>2
        <5>2. PICK x \in 1 .. l : s[x] = Item(j)
          BY <2>1, <3>3, <5>1
        <5>3. x \in 1 .. l + 1
          BY <3>1
        <5>4. QED
          BY <3>1, <5>2, <5>3
      <4>3. QED
        BY <4>1, <4>2
    <3>4. \A x \in 1 .. l : s[x] # Item(k + 1)
      <4> SUFFICES ASSUME NEW x \in 1 .. l, s[x] = Item(k + 1) PROVE FALSE
        OBVIOUS
      <4>1. PICK j \in 1 .. k : s[x] = Item(j)
        BY <2>1
      <4>2. j \in 1 .. m /\ j # k + 1
        BY <1>1, <2>1
      <4>3. QED
        BY <1>3, <2>1, <4>1, <4>2
    <3>5. ASSUME NEW x \in 1 .. l + 1, NEW y \in 1 .. l + 1, t[x] = t[y]
          PROVE  x = y
      <4>1. x \in 1 .. l \/ x = l + 1
        BY <3>1
      <4>2. y \in 1 .. l \/ y = l + 1
        BY <3>1
      <4>3. QED
        BY <2>1, <3>1, <3>4, <3>5, <4>1, <4>2
    <3>6. Listed(t, k + 1)
      BY <3>1, <3>2, <3>3, <3>5
    <3>7. f[k + 1] = t
      BY <2>2, <2>5 DEF t
    <3>8. QED
      BY <2>1, <3>1, <3>6, <3>7
  <2>6. QED
    BY <2>4, <2>5
<1>16. Slots \in V /\ Listed(Slots, m)
  <2>1. m \in S
    <3> HIDE DEF S
    <3>1. \A k \in 0 .. m : k \in S
      BY <1>1, <1>14, <1>15, Induct
    <3>2. QED
      BY <1>1, <3>1
  <2>2. QED
    BY <1>5, <2>1
<1>17. NumSlots \in Nat /\ \A k \in 1 .. NumSlots : Slots[k] \in All
  BY <1>16 DEF V, NumSlots
<1>18. \A k \in 1 .. NumSlots : Slots[k].src \in ActorRanks /\ Slots[k].i \in 1 .. Len(globalBuckets[Slots[k].src])
  BY <1>6, <1>16, <1>17 DEF All, NumSlots
<1>19. ASSUME NEW a \in ActorRanks, NEW i \in 1 .. Len(globalBuckets[a])
       PROVE  \E k \in 1 .. NumSlots : Slots[k].src = a /\ Slots[k].i = i
  <2>1. i \in 1 .. Len(sizes)
    BY <1>1
  <2>2. PICK j \in 1 .. m : Item(j) = [src |-> a, i |-> i]
    BY <1>4, <2>1
  <2>3. ~ Over(Item(j))
    BY <1>1, <2>2 DEF Over
  <2>4. PICK k \in 1 .. NumSlots : Slots[k] = Item(j)
    BY <1>16, <2>3 DEF NumSlots
  <2>5. QED
    BY <2>2, <2>4
<1>20. ASSUME NEW k \in 1 .. NumSlots, NEW l \in 1 .. NumSlots,
              Slots[k].src = Slots[l].src, Slots[k].i = Slots[l].i
       PROVE  k = l
  <2>1. Slots[k] = Slots[l]
    BY <1>17, <1>20 DEF All
  <2>2. QED
    BY <1>16, <2>1 DEF NumSlots
<1>21. QED
  BY <1>17, <1>18, <1>19, <1>20

\* What the ranks allocate for a bucket is enough: the device buffer of
\* bucket_size it is copied to, and its half of the double buffer.
BucketsFit ==
    \A a \in ActorRanks : \A i \in DOMAIN globalBuckets[a] : Total(globalBuckets[a][i]) <= BucketSize

\* What is fixed when the run begins.
Plan ==
    /\ sizes \in Models /\ overlap \in BOOLEAN /\ globalBuckets \in [ActorRanks -> Seq(Buckets)]
    /\ BucketsFit /\ NumSlots \in Nat \ {0}
    /\ \A k \in 1 .. NumSlots :
          Slots[k].src \in ActorRanks /\ Slots[k].i \in DOMAIN globalBuckets[Slots[k].src]
    /\ \A p \in Parameters : \E k \in 1 .. NumSlots : Holds(p, k)
    /\ \A k, l \in 1 .. NumSlots, p \in Parameters : Holds(p, k) /\ Holds(p, l) => k = l

LEMMA PlanInit ==
    ASSUME Init
    PROVE  Plan
<1>1. sizes \in Models /\ overlap \in BOOLEAN /\ globalBuckets = BucketsByRank
  BY DEF Init
<1>2. /\ globalBuckets \in [ActorRanks -> Lists] /\ Spread(globalBuckets, Len(sizes))
      /\ Len(sizes) \in Nat \ {0}
  BY <1>1, BucketsAre, SizesType
<1>3. \A a \in ActorRanks : /\ Len(globalBuckets[a]) <= Len(sizes)
                             /\ DOMAIN globalBuckets[a] = 1 .. Len(globalBuckets[a])
  <2>1. Len(sizes) # 0
    BY <1>2
  <2>2. QED
    BY <1>2, <2>1 DEF Spread, Lists
<1>4. /\ NumSlots \in Nat
      /\ \A k \in 1 .. NumSlots :
            Slots[k].src \in ActorRanks /\ Slots[k].i \in 1 .. Len(globalBuckets[Slots[k].src])
      /\ \A a \in ActorRanks : \A i \in 1 .. Len(globalBuckets[a]) :
            \E k \in 1 .. NumSlots : Slots[k].src = a /\ Slots[k].i = i
      /\ \A k, l \in 1 .. NumSlots :
            Slots[k].src = Slots[l].src /\ Slots[k].i = Slots[l].i => k = l
  BY <1>1, <1>2, <1>3, SlotsAre
<1>5. ASSUME NEW p \in Parameters PROVE \E k \in 1 .. NumSlots : Holds(p, k)
  <2>1. PICK a \in ActorRanks : \E i \in 1 .. Len(globalBuckets[a]) : Has(globalBuckets[a][i], p)
    BY <1>2 DEF Spread, Parameters
  <2>2. PICK i \in 1 .. Len(globalBuckets[a]) : Has(globalBuckets[a][i], p)
    BY <2>1
  <2>3. PICK k \in 1 .. NumSlots : Slots[k].src = a /\ Slots[k].i = i
    BY <1>4
  <2>4. QED
    BY <2>2, <2>3 DEF Holds, Metas
<1>6. ASSUME NEW k \in 1 .. NumSlots, NEW l \in 1 .. NumSlots, NEW p \in Parameters,
             Holds(p, k), Holds(p, l)
      PROVE  k = l
  <2> DEFINE a == Slots[k].src
             b == Slots[l].src
             i == Slots[k].i
             j == Slots[l].i
  <2>1. a \in ActorRanks /\ b \in ActorRanks /\ i \in 1 .. Len(globalBuckets[a]) /\ j \in 1 .. Len(globalBuckets[b])
    BY <1>4
  <2>2. Has(globalBuckets[a][i], p) /\ Has(globalBuckets[b][j], p)
    BY <1>6 DEF Holds, Metas
  <2> HIDE DEF a, b, i, j
  <2>3. a = b /\ i = j
    BY <1>2, <2>1, <2>2 DEF Spread
  <2>4. QED
    BY <1>4, <2>3 DEF a, b, i, j
<1>7. NumSlots # 0
  <2>1. 1 \in Parameters
    BY <1>2 DEF Parameters
  <2>2. QED
    BY <1>4, <1>5, <2>1
<1>8. BucketsFit
  BY <1>2, <1>3 DEF BucketsFit, Lists, Fits
<1>9. QED
  BY <1>1, <1>2, <1>3, <1>4, <1>5, <1>6, <1>7, <1>8 DEF Plan, Lists

LEMMA Kept ==
    ASSUME UNCHANGED config
    PROVE  /\ sizes' = sizes /\ overlap' = overlap /\ globalBuckets' = globalBuckets
           /\ Slots' = Slots /\ NumSlots' = NumSlots /\ Parameters' = Parameters
           /\ \A s : Metas(s)' = Metas(s)
           /\ \A p, k : Holds(p, k)' <=> Holds(p, k)
           /\ BucketsFit' <=> BucketsFit
<1>1. sizes' = sizes /\ overlap' = overlap /\ globalBuckets' = globalBuckets
  BY DEF config
<1>2. Slots' = Slots
  BY <1>1 DEF Slots
<1>3. BucketsFit' <=> BucketsFit
  <2>1. BucketSize' = BucketSize
    BY <1>1 DEF BucketSize
  <2>2. \A b : Total(b)' = Total(b)
    BY <1>1 DEF Total
  <2>3. QED
    BY <1>1, <2>1, <2>2 DEF BucketsFit, Total
<1>4. QED
  BY <1>1, <1>2, <1>3 DEF NumSlots, Parameters, Metas, Holds

LEMMA PlanKept ==
    ASSUME Plan, UNCHANGED config
    PROVE  Plan'
  BY Kept DEF Plan, Buckets

-----------------------------------------------------------------------------
(* The inductive invariant *)

Contents == [bucket : Buckets, version : Nat]
Places == {"idle", "registered", "broadcast", "reply", "barrier", "drain", "join", "end"}

TypeInv ==
    /\ version \in Nat /\ net \in Seq(Contents)
    /\ finished \in [Ranks -> Nat] /\ arrived \in [Ranks -> Nat] /\ slot \in [Ranks -> Nat]
    /\ pc \in [Ranks -> Places]
    /\ memory \in [Ranks -> Seq(Contents)] /\ h2d \in [Ranks -> Contents]
    /\ buffer \in [Ranks -> [0 .. 1 -> Contents]]
    /\ request \in [Ranks -> Int] /\ reply \in [Ranks -> BOOLEAN]
    /\ model \in [RolloutRanks -> [Parameters -> Int]]

PlaceInv ==
    \A r \in Ranks :
        /\ pc[r] \in {"idle", "registered"} => slot[r] = 0
        /\ pc[r] \in {"broadcast", "reply", "barrier"} => slot[r] \in 1 .. NumSlots
        /\ pc[r] \in {"drain", "join", "end"} => slot[r] = NumSlots + 1
        /\ pc[r] \in {"reply", "barrier", "drain", "join"} => overlap

\* The main thread of a rank waits for an answer, or has it, in these places; a
\* bucket the loader is asked to load is the one before that at which the rank is.
Awaiting(r) == overlap /\ pc[r] \in {"broadcast", "reply", "drain", "join"}

SocketInv ==
    \A r \in Ranks :
        /\ ~ Awaiting(r) => request[r] = NoRequest /\ ~ reply[r]
        /\ Awaiting(r) => (reply[r] <=> request[r] = NoRequest)
        /\ request[r] # NoRequest =>
             request[r] = IF pc[r] = "join" THEN Stop ELSE IF slot[r] = 1 THEN Hello ELSE slot[r] - 1

\* The barriers of a transfer, and those of them a rank has come to.
Barriers == IF overlap THEN NumSlots + 2 ELSE 2

Passed(r) ==
    IF pc[r] = "idle" THEN 0
    ELSE IF pc[r] = "registered" THEN 1
    ELSE IF pc[r] = "end" THEN Barriers
    ELSE IF ~ overlap THEN 1
    ELSE IF pc[r] \in {"broadcast", "reply"} THEN slot[r]
    ELSE IF pc[r] = "barrier" THEN slot[r] + 1
    ELSE NumSlots + 1

BarrierInv == \A r \in Ranks : arrived[r] = finished[r] * Barriers + Passed(r)

\* Ranks may be a transfer apart, and a rank that is behind has only to leave
\* its last barrier. So no rank of the rollouter is still in a transfer when
\* the next begins, and no rank of the trainer takes part in one any more.
OrderInv ==
    /\ \A r \in Ranks :
        /\ pc[r] = "idle" => finished[r] \in {version - 1, version}
        /\ pc[r] \notin {"idle", "end"} => finished[r] = version - 1
        /\ pc[r] = "end" => finished[r] \in {version - 2, version - 1}
    /\ \A r \in RolloutRanks : finished[r] \in {version - 1, version}
    /\ \A q, r \in Ranks : finished[q] < finished[r] => finished[r] = finished[q] + 1 /\ pc[q] = "end"

\* The broadcasts of its transfer a rank has taken part in.
Taken(r) == IF slot[r] = 0 THEN 0 ELSE IF pc[r] \in {"reply", "barrier"} THEN slot[r] ELSE slot[r] - 1

Content(g, v) == [bucket |-> Metas(Slots[g]), version |-> v]

\* What is on the net was sent in the order of the slots, in this transfer.
NetInv ==
    /\ Len(net) <= NumSlots /\ \A g \in 1 .. Len(net) : net[g] = Content(g, version)
    /\ \A r \in Ranks : finished[r] = version - 1 => Taken(r) <= Len(net)
    /\ \A r \in Ranks : finished[r] < version =>
        \A g \in 1 .. Len(net) : Slots[g].src = r => finished[r] = version - 1 /\ g <= Taken(r)

MemoryInv ==
    \A r \in ActorRanks : pc[r] # "idle" =>
        memory[r] = [i \in DOMAIN globalBuckets[r] |->
                        [bucket |-> globalBuckets[r][i], version |-> finished[r] + 1]]

\* The half a rank has received into, and the half its loader reads.
BufferInv ==
    overlap => \A r \in Ranks :
        /\ pc[r] \in {"reply", "barrier"} => buffer[r][slot[r] % 2] = Content(slot[r], finished[r] + 1)
        /\ request[r] > 0 => buffer[r][request[r] % 2] = Content(request[r], finished[r] + 1)

\* The slots whose buckets a rank has loaded.
LoadedTo(r) == IF slot[r] = 0 THEN 0 ELSE IF request[r] > 0 THEN slot[r] - 2 ELSE slot[r] - 1

ModelInv ==
    \A r \in RolloutRanks, p \in Parameters, k \in 1 .. NumSlots :
        Holds(p, k) => model[r][p] = IF k <= LoadedTo(r) THEN finished[r] + 1 ELSE finished[r]

Inv ==
    /\ Plan /\ TypeInv /\ PlaceInv /\ SocketInv /\ BarrierInv /\ OrderInv
    /\ NetInv /\ MemoryInv /\ BufferInv /\ ModelInv

LEMMA InvInit ==
    ASSUME Init
    PROVE  Inv
<1>1. Plan
  BY PlanInit
<1>2. TypeInv
  <2>1. Nothing \in Contents /\ <<>> \in Seq(Contents)
    BY DEF Nothing, Contents, Buckets
  <2>2. DOMAIN sizes = Parameters
    BY <1>1, SizesType DEF Plan
  <2>3. QED
    BY <2>1, <2>2 DEF Init, TypeInv, NoRequest, Places
<1>3. PlaceInv /\ SocketInv
  BY DEF Init, PlaceInv, SocketInv, Awaiting
<1>4. BarrierInv
  <2>1. Barriers \in Nat
    BY <1>1 DEF Barriers, Plan
  <2>2. 0 * Barriers = 0
    BY <2>1
  <2>3. QED
    BY <2>2 DEF Init, BarrierInv, Passed
<1>5. OrderInv /\ MemoryInv
  BY DEF Init, OrderInv, MemoryInv, Ranks
<1>6. NetInv
  BY <1>1 DEF Init, NetInv, Taken, Plan
<1>7. BufferInv /\ ModelInv
  <2>1. DOMAIN sizes = Parameters
    BY <1>1, SizesType DEF Plan
  <2>2. QED
    BY <1>1, <2>1 DEF Init, BufferInv, ModelInv, LoadedTo, NoRequest, Plan, Ranks
<1>8. QED
  BY <1>1, <1>2, <1>3, <1>4, <1>5, <1>6, <1>7 DEF Inv

LEMMA RanksAre ==
    /\ ActorRanks \subseteq Ranks /\ RolloutRanks \subseteq Ranks
    /\ ActorRanks \cap RolloutRanks = {} /\ RolloutRanks # {}
<1>1. NumActors \in RolloutRanks
  BY EngineAssumption DEF RolloutRanks
<1>2. ActorRanks \subseteq Ranks /\ RolloutRanks \subseteq Ranks
  BY DEF Ranks
<1>3. \A a \in ActorRanks : a \notin RolloutRanks
  BY EngineAssumption DEF ActorRanks, RolloutRanks
<1>4. QED
  BY <1>1, <1>2, <1>3

-----------------------------------------------------------------------------
(* Types *)

\* What a rank reads of a buffer in its model is a version or Mixed.
LEMMA LoadType ==
    ASSUME Plan, TypeInv, NEW r \in Ranks, NEW g \in 1 .. NumSlots, NEW c \in Contents,
           LoadWeights(r, g, c)
    PROVE  model' \in [RolloutRanks -> [Parameters -> Int]]
<1>1. CASE r \notin RolloutRanks
  BY <1>1 DEF LoadWeights, TypeInv
<1>2. CASE r \in RolloutRanks
  <2>1. model[r] \in [Parameters -> Int] /\ c.version \in Nat
    BY <1>2 DEF TypeInv, Contents
  <2>2. Loaded(model[r], Metas(Slots[g]), c) \in [Parameters -> Int]
    BY <2>1 DEF Loaded, Mixed
  <2>3. model' = [model EXCEPT ![r] = Loaded(model[r], Metas(Slots[g]), c)]
    BY <1>2 DEF LoadWeights
  <2>4. QED
    BY <2>2, <2>3 DEF TypeInv
<1>3. QED
  BY <1>1, <1>2

LEMMA RegisterType ==
    ASSUME Inv, NEW r \in Ranks, Register(r)
    PROVE  TypeInv'
<1> USE DEF Inv
<1>1. UNCHANGED config /\ Parameters' = Parameters
  BY Kept DEF Register
<1> DEFINE buckets == IF r \in ActorRanks
                      THEN [i \in DOMAIN globalBuckets[r] |->
                              [bucket |-> globalBuckets[r][i], version |-> finished[r] + 1]]
                      ELSE <<>>
<1>2. buckets \in Seq(Contents)
  <2>1. finished[r] + 1 \in Nat
    BY DEF TypeInv
  <2>2. CASE r \in ActorRanks
    <3>1. globalBuckets[r] \in Seq(Buckets)
      BY <2>2 DEF Plan
    <3>2. \A i \in 1 .. Len(globalBuckets[r]) :
             [bucket |-> globalBuckets[r][i], version |-> finished[r] + 1] \in Contents
      BY <2>1, <3>1 DEF Contents
    <3>3. DOMAIN globalBuckets[r] = 1 .. Len(globalBuckets[r]) /\ Len(globalBuckets[r]) \in Nat
      BY <3>1
    <3>4. QED
      BY <2>2, <3>2, <3>3
  <2>3. CASE r \notin ActorRanks
    BY <2>3
  <2>4. QED
    BY <2>2, <2>3
<1>3. memory' = [memory EXCEPT ![r] = buckets]
  BY DEF Register
<1> HIDE DEF buckets
<1>4. memory' \in [Ranks -> Seq(Contents)]
  BY <1>2, <1>3 DEF TypeInv
<1>5. Contents' = Contents
  BY <1>1 DEF Contents, Buckets
<1>6. arrived' \in [Ranks -> Nat] /\ pc' \in [Ranks -> Places]
  BY DEF Register, TypeInv, ToBarrier, GoTo, Places
<1>7. QED
  BY <1>1, <1>4, <1>5, <1>6 DEF Register, TypeInv, socket

LEMMA NextSlotType ==
    ASSUME Inv, NEW r \in Ranks, NextSlot(r)
    PROVE  /\ slot' \in [Ranks -> Nat] /\ arrived' \in [Ranks -> Nat]
           /\ pc' \in [Ranks -> Places]
<1>1. slot \in [Ranks -> Nat] /\ arrived \in [Ranks -> Nat] /\ pc \in [Ranks -> Places]
  BY DEF Inv, TypeInv
<1>2. slot[r] + 1 \in Nat /\ arrived[r] + 1 \in Nat
  BY <1>1
<1>3. slot' = [slot EXCEPT ![r] = slot[r] + 1]
  BY DEF NextSlot
<1>4. arrived' = arrived \/ arrived' = [arrived EXCEPT ![r] = arrived[r] + 1]
  BY DEF NextSlot, ToBarrier
<1>5. \E place \in Places : pc' = [pc EXCEPT ![r] = place]
  BY DEF NextSlot, GoTo, Places
<1>6. QED
  BY <1>1, <1>2, <1>3, <1>4, <1>5

LEMMA BroadcastType ==
    ASSUME Inv, NEW r \in Ranks, Broadcast(r)
    PROVE  TypeInv'
<1> USE DEF Inv
<1>1. UNCHANGED config /\ Parameters' = Parameters
  BY Kept DEF Broadcast
<1> DEFINE g       == slot[r]
           s       == Slots[g]
           device  == IF s.i \in DOMAIN memory[r] THEN memory[r][s.i] ELSE h2d[r]
           content == IF s.src = r THEN device ELSE net[g]
<1>2. g \in 1 .. NumSlots
  BY DEF Broadcast, PlaceInv
<1>3. device \in Contents
  <2>1. memory[r] \in Seq(Contents) /\ h2d[r] \in Contents
    BY DEF TypeInv
  <2>2. QED
    BY <2>1
<1>4. /\ IF s.src = r THEN net' = Append(net, content) ELSE g \in DOMAIN net /\ UNCHANGED net
      /\ h2d' = [h2d EXCEPT ![r] = device] /\ buffer' = [buffer EXCEPT ![r][Half(g)] = content]
      /\ IF overlap
         THEN GoTo(r, "reply") /\ UNCHANGED <<slot, arrived, model>>
         ELSE LoadWeights(r, g, content) /\ NextSlot(r)
  BY DEF Broadcast
<1> HIDE DEF g, s, device
<1>5. content \in Contents /\ net' \in Seq(Contents)
  <2>1. net \in Seq(Contents)
    BY DEF TypeInv
  <2>2. CASE s.src = r
    <3>1. content = device
      BY <2>2
    <3> HIDE DEF content
    <3>2. net' = Append(net, content)
      BY <1>4, <2>2
    <3>3. QED
      BY <1>3, <2>1, <3>1, <3>2
  <2>3. CASE s.src # r
    <3>1. g \in DOMAIN net /\ net' = net
      BY <1>4, <2>3
    <3>2. content = net[g]
      BY <2>3
    <3> HIDE DEF content
    <3>3. QED
      BY <2>1, <3>1, <3>2
  <2>4. QED
    BY <2>2, <2>3
<1> HIDE DEF content
<1>6. Half(g) \in 0 .. 1
  BY <1>2 DEF Half
<1>7. h2d' \in [Ranks -> Contents] /\ buffer' \in [Ranks -> [0 .. 1 -> Contents]]
  BY <1>3, <1>4, <1>5, <1>6 DEF TypeInv
<1>8. /\ model' \in [RolloutRanks -> [Parameters -> Int]] /\ slot' \in [Ranks -> Nat]
      /\ arrived' \in [Ranks -> Nat]
      /\ pc' \in [Ranks -> Places]
  <2>1. CASE overlap
    <3>1. pc' = [pc EXCEPT ![r] = "reply"] /\ slot' = slot /\ arrived' = arrived /\ model' = model
      BY <1>4, <2>1 DEF GoTo
    <3>2. "reply" \in Places
      BY DEF Places
    <3>3. QED
      BY <3>1, <3>2 DEF TypeInv
  <2>2. CASE ~ overlap
    <3>1. LoadWeights(r, g, content) /\ NextSlot(r)
      BY <1>4, <2>2
    <3>2. model' \in [RolloutRanks -> [Parameters -> Int]]
      BY <1>2, <1>5, <3>1, LoadType
    <3>3. QED
      BY <3>1, <3>2, NextSlotType
  <2>3. QED
    BY <2>1, <2>2
<1>9. Contents' = Contents
  BY <1>1 DEF Contents, Buckets
<1>10. QED
  BY <1>1, <1>5, <1>7, <1>8, <1>9 DEF Broadcast, TypeInv, socket

\* What the main thread has asked of the loader.
LEMMA RequestIs ==
    ASSUME Inv, NEW r \in Ranks, request[r] # NoRequest
    PROVE  /\ overlap /\ Awaiting(r)
           /\ pc[r] = "join" => request[r] = Stop
           /\ pc[r] # "join" /\ slot[r] = 1 => request[r] = Hello
           /\ request[r] \notin {Hello, Stop} =>
                 request[r] = slot[r] - 1 /\ request[r] \in 1 .. NumSlots /\ pc[r] # "join"
<1>1. Awaiting(r) /\ overlap
  BY DEF Inv, SocketInv, Awaiting
<1>2. request[r] = IF pc[r] = "join" THEN Stop ELSE IF slot[r] = 1 THEN Hello ELSE slot[r] - 1
  BY DEF Inv, SocketInv
<1>3. NumSlots \in Nat /\ slot[r] \in Nat
  BY DEF Inv, Plan, TypeInv
<1>4. pc[r] = "join" \/ slot[r] \in 1 .. NumSlots \/ slot[r] = NumSlots + 1
  BY <1>1 DEF Inv, PlaceInv, Awaiting
<1>5. QED
  BY <1>1, <1>2, <1>3, <1>4 DEF Hello, Stop

LEMMA LoaderType ==
    ASSUME Inv, NEW r \in Ranks, Loader(r)
    PROVE  TypeInv'
<1> USE DEF Inv
<1>1. UNCHANGED config /\ Parameters' = Parameters
  BY Kept DEF Loader
<1>2. Contents' = Contents
  BY <1>1 DEF Contents, Buckets
<1>3. model' \in [RolloutRanks -> [Parameters -> Int]]
  <2>1. CASE request[r] \in {Hello, Stop}
    BY <2>1 DEF Loader, TypeInv
  <2>2. CASE request[r] \notin {Hello, Stop}
    <3>1. request[r] \in 1 .. NumSlots /\ overlap
      BY <2>2, RequestIs DEF Loader
    <3>2. Half(request[r]) \in 0 .. 1
      BY <3>1 DEF Half
    <3>5. buffer[r] \in [0 .. 1 -> Contents]
      BY DEF TypeInv
    <3>6. buffer[r][Half(request[r])] \in Contents
      BY <3>2, <3>5
    <3>3. LoadWeights(r, request[r], buffer[r][Half(request[r])])
      BY <2>2 DEF Loader
    <3>4. QED
      BY <3>1, <3>3, <3>6, LoadType
  <2>3. QED
    BY <2>1, <2>2
<1>4. request' \in [Ranks -> Int]
  BY DEF Loader, TypeInv, NoRequest
<1>5. reply' \in [Ranks -> BOOLEAN]
  BY Zenon DEF Loader, TypeInv
<1>6. QED
  BY <1>1, <1>2, <1>3, <1>4, <1>5 DEF Loader, TypeInv

LEMMA TypeStep ==
    ASSUME Inv, NEW r \in Ranks, Main(r)
    PROVE  TypeInv'
<1> USE DEF Inv
<1>1. UNCHANGED config
  BY DEF Main, Register, Begin, Broadcast, TakeReply, SendMetas, Drain, Join, Finish
<1>2. Parameters' = Parameters /\ Contents' = Contents
  BY <1>1, Kept DEF Contents, Buckets
<1>3. Nothing \in Contents
  BY DEF Nothing, Contents, Buckets
<1>4. CASE Register(r) \/ Broadcast(r)
  BY <1>4, RegisterType, BroadcastType
<1>5. CASE Begin(r)
  <2>1. slot' \in [Ranks -> Nat] /\ h2d' \in [Ranks -> Contents]
    BY <1>3, <1>5 DEF Begin, TypeInv
  <2>2. [h \in 0 .. 1 |-> Nothing] \in [0 .. 1 -> Contents]
    BY <1>3
  <2>3. buffer' \in [Ranks -> [0 .. 1 -> Contents]]
    BY <1>5, <2>2 DEF Begin, TypeInv
  <2>4. request' \in [Ranks -> Int]
    BY <1>5 DEF Begin, TypeInv, NoRequest, Hello
  <2>5. pc' \in [Ranks -> Places]
    BY <1>5 DEF Begin, TypeInv, GoTo, Places
  <2>6. QED
    BY <1>2, <1>5, <2>1, <2>3, <2>4, <2>5 DEF Begin, TypeInv
<1>6. CASE SendMetas(r)
  <2>1. slot' \in [Ranks -> Nat] /\ arrived' \in [Ranks -> Nat] /\ pc' \in [Ranks -> Places]
    BY <1>6, NextSlotType DEF SendMetas
  <2>2. slot[r] \in Int
    BY DEF TypeInv
  <2>3. request' \in [Ranks -> Int]
    BY <1>6, <2>2 DEF SendMetas, TypeInv
  <2>4. QED
    BY <1>2, <1>6, <2>1, <2>3 DEF SendMetas, TypeInv
<1>7. CASE TakeReply(r) \/ Drain(r) \/ Join(r)
  <2>1. reply' \in [Ranks -> BOOLEAN]
    BY <1>7, Zenon DEF TakeReply, Drain, Join, TypeInv
  <2>2. request' \in [Ranks -> Int]
    BY <1>7 DEF TakeReply, Drain, Join, TypeInv, Stop
  <2>3. pc' \in [Ranks -> Places]
    BY <1>7 DEF TakeReply, Drain, Join, TypeInv, GoTo, Places
  <2>4. arrived' \in [Ranks -> Nat]
    <3>1. arrived \in [Ranks -> Nat] /\ arrived[r] + 1 \in Nat
      BY DEF TypeInv
    <3>2. arrived' = arrived \/ arrived' = [arrived EXCEPT ![r] = arrived[r] + 1]
      BY <1>7 DEF TakeReply, Drain, Join, ToBarrier
    <3>3. QED
      BY <3>1, <3>2
  <2>5. QED
    BY <1>2, <1>7, <2>1, <2>2, <2>3, <2>4 DEF TakeReply, Drain, Join, TypeInv
<1>8. CASE Finish(r)
  <2>1. pc' \in [Ranks -> Places]
    BY <1>8 DEF Finish, TypeInv, GoTo, Places
  <2>2. slot' \in [Ranks -> Nat] /\ finished' \in [Ranks -> Nat]
    BY <1>8 DEF Finish, TypeInv
  <2>3. memory' \in [Ranks -> Seq(Contents)]
    BY <1>8 DEF Finish, TypeInv
  <2>4. QED
    BY <1>2, <1>8, <2>1, <2>2, <2>3 DEF Finish, TypeInv, socket
<1>9. QED
  BY <1>4, <1>5, <1>6, <1>7, <1>8 DEF Main

-----------------------------------------------------------------------------
(* What the step of a rank does to its own state, and leaves of the others' *)

LEMMA Fixed ==
    ASSUME NEW r \in Ranks, Main(r) \/ Loader(r)
    PROVE  UNCHANGED config /\ version' = version
  BY DEF Main, Register, Begin, Broadcast, TakeReply, SendMetas, Drain, Join, Finish, Loader

LEMMA Others ==
    ASSUME Inv, NEW r \in Ranks, Main(r) \/ Loader(r), NEW q \in Ranks, q # r
    PROVE  /\ pc'[q] = pc[q] /\ slot'[q] = slot[q] /\ arrived'[q] = arrived[q]
           /\ finished'[q] = finished[q] /\ request'[q] = request[q] /\ reply'[q] = reply[q]
           /\ memory'[q] = memory[q] /\ buffer'[q] = buffer[q]
           /\ q \in RolloutRanks => model'[q] = model[q]
<1> USE DEF Inv, TypeInv
<1>1. pc'[q] = pc[q]
  BY DEF Main, Register, Begin, Broadcast, TakeReply, SendMetas, Drain, Join, Finish, Loader, GoTo, NextSlot
<1>2. slot'[q] = slot[q]
  BY DEF Main, Register, Begin, Broadcast, TakeReply, SendMetas, Drain, Join, Finish, Loader, NextSlot
<1>3. arrived'[q] = arrived[q]
  BY DEF Main, Register, Begin, Broadcast, TakeReply, SendMetas, Drain, Join, Finish, Loader, NextSlot, ToBarrier
<1>4. finished'[q] = finished[q] /\ memory'[q] = memory[q]
  BY DEF Main, Register, Begin, Broadcast, TakeReply, SendMetas, Drain, Join, Finish, Loader
<1>5. request'[q] = request[q]
  BY DEF Main, Register, Begin, Broadcast, TakeReply, SendMetas, Drain, Join, Finish, Loader, socket
<1>6. reply'[q] = reply[q]
  BY DEF Main, Register, Begin, Broadcast, TakeReply, SendMetas, Drain, Join, Finish, Loader, socket
<1>7. buffer'[q] = buffer[q]
  BY DEF Main, Register, Begin, Broadcast, TakeReply, SendMetas, Drain, Join, Finish, Loader
<1>8. q \in RolloutRanks => model'[q] = model[q]
  BY DEF Main, Register, Begin, Broadcast, TakeReply, SendMetas, Drain, Join, Finish, Loader, LoadWeights
<1>9. QED
  BY <1>1, <1>2, <1>3, <1>4, <1>5, <1>6, <1>7, <1>8

At(r, place, s, barriers, req, answered) ==
    /\ pc'[r] = place /\ slot'[r] = s /\ arrived'[r] = arrived[r] + barriers
    /\ request'[r] = req /\ (reply'[r] <=> answered)

Moved(r) ==
    \/ /\ pc[r] = "idle" /\ finished[r] < version
       /\ At(r, "registered", slot[r], 1, request[r], reply[r])
    \/ /\ pc[r] = "registered"
       /\ At(r, "broadcast", 1, 0, IF overlap THEN Hello ELSE NoRequest, reply[r])
    \/ /\ pc[r] = "broadcast" /\ overlap
       /\ At(r, "reply", slot[r], 0, request[r], reply[r])
    \/ /\ pc[r] = "broadcast" /\ ~ overlap /\ slot[r] < NumSlots
       /\ At(r, "broadcast", slot[r] + 1, 0, request[r], reply[r])
    \/ /\ pc[r] = "broadcast" /\ ~ overlap /\ slot[r] = NumSlots
       /\ At(r, "end", slot[r] + 1, 1, request[r], reply[r])
    \/ /\ pc[r] = "reply" /\ reply[r]
       /\ At(r, "barrier", slot[r], 1, request[r], FALSE)
    \/ /\ pc[r] = "barrier" /\ slot[r] < NumSlots
       /\ At(r, "broadcast", slot[r] + 1, 0, slot[r], reply[r])
    \/ /\ pc[r] = "barrier" /\ slot[r] = NumSlots
       /\ At(r, "drain", slot[r] + 1, 0, slot[r], reply[r])
    \/ /\ pc[r] = "drain" /\ reply[r]
       /\ At(r, "join", slot[r], 0, Stop, FALSE)
    \/ /\ pc[r] = "join" /\ reply[r]
       /\ At(r, "end", slot[r], 1, request[r], FALSE)
    \/ /\ pc[r] = "end"
       /\ At(r, "idle", 0, 0, request[r], reply[r])

LEMMA NextSlotIs ==
    ASSUME Inv, NEW r \in Ranks, pc[r] \in {"broadcast", "barrier"}, NextSlot(r)
    PROVE  /\ slot'[r] = slot[r] + 1
           /\ \/ slot[r] < NumSlots /\ pc'[r] = "broadcast" /\ arrived'[r] = arrived[r]
              \/ slot[r] = NumSlots /\ overlap /\ pc'[r] = "drain" /\ arrived'[r] = arrived[r]
              \/ slot[r] = NumSlots /\ ~ overlap /\ pc'[r] = "end" /\ arrived'[r] = arrived[r] + 1
<1> USE DEF Inv
<1>1. slot[r] \in 1 .. NumSlots /\ NumSlots \in Nat
  BY DEF PlaceInv, Plan
<1>2. slot'[r] = slot[r] + 1
  BY DEF NextSlot, TypeInv
<1>3. CASE slot[r] < NumSlots
  BY <1>2, <1>3 DEF NextSlot, NumSlots, GoTo, TypeInv
<1>4. CASE slot[r] = NumSlots
  <2>1. ~ slot[r] < Len(Slots)
    BY <1>1, <1>4 DEF NumSlots
  <2>2. CASE overlap
    BY <1>2, <1>4, <2>1, <2>2 DEF NextSlot, GoTo, TypeInv
  <2>3. CASE ~ overlap
    BY <1>2, <1>4, <2>1, <2>3 DEF NextSlot, GoTo, TypeInv, ToBarrier
  <2>4. QED
    BY <2>2, <2>3
<1>5. QED
  BY <1>1, <1>3, <1>4

LEMMA MainMoves ==
    ASSUME Inv, NEW r \in Ranks, Main(r)
    PROVE  /\ Moved(r)
           /\ finished'[r] = IF pc[r] = "end" THEN finished[r] + 1 ELSE finished[r]
<1> USE DEF Inv
<1>1. /\ pc \in [Ranks -> Places] /\ slot \in [Ranks -> Nat] /\ arrived \in [Ranks -> Nat]
      /\ finished \in [Ranks -> Nat] /\ request \in [Ranks -> Int]
  BY DEF TypeInv
<1>2. DOMAIN reply = Ranks
  BY DEF TypeInv
<1>3. arrived[r] + 0 = arrived[r]
  BY <1>1
<1>4. CASE Register(r)
  BY <1>1, <1>4 DEF Register, ToBarrier, GoTo, socket, Moved, At
<1>5. CASE Begin(r)
  BY <1>1, <1>3, <1>5 DEF Begin, GoTo, Moved, At
<1>6. CASE Broadcast(r) /\ overlap
  <2>1. pc[r] = "broadcast" /\ GoTo(r, "reply") /\ UNCHANGED <<slot, arrived>>
    BY <1>6 DEF Broadcast
  <2>2. UNCHANGED <<finished, request, reply>>
    BY <1>6 DEF Broadcast, socket
  <2>3. QED
    BY <1>1, <1>3, <1>6, <2>1, <2>2 DEF GoTo, Moved, At
<1>7. CASE Broadcast(r) /\ ~ overlap
  <2>1. pc[r] = "broadcast" /\ NextSlot(r)
    BY <1>7 DEF Broadcast
  <2>2. UNCHANGED <<finished, request, reply>>
    BY <1>7 DEF Broadcast, socket
  <2>3. QED
    BY <1>1, <1>3, <1>7, <2>1, <2>2, NextSlotIs DEF Moved, At
<1>8. CASE TakeReply(r)
  <2>1. ~ reply'[r]
    BY <1>2, <1>8 DEF TakeReply
  <2>2. QED
    BY <1>1, <1>8, <2>1 DEF TakeReply, ToBarrier, GoTo, Moved, At
<1>9. CASE SendMetas(r)
  <2>1. pc[r] = "barrier" /\ NextSlot(r) /\ overlap
    BY <1>9 DEF SendMetas, PlaceInv
  <2>2. request'[r] = slot[r] /\ UNCHANGED <<finished, reply>>
    BY <1>1, <1>9 DEF SendMetas
  <2>3. QED
    BY <1>1, <1>3, <2>1, <2>2, NextSlotIs DEF Moved, At
<1>10. CASE Drain(r)
  <2>1. ~ reply'[r]
    BY <1>2, <1>10 DEF Drain
  <2>2. QED
    BY <1>1, <1>3, <1>10, <2>1 DEF Drain, GoTo, Moved, At
<1>11. CASE Join(r)
  <2>1. ~ reply'[r]
    BY <1>2, <1>11 DEF Join
  <2>2. QED
    BY <1>1, <1>11, <2>1 DEF Join, ToBarrier, GoTo, Moved, At
<1>12. CASE Finish(r)
  BY <1>1, <1>3, <1>12 DEF Finish, GoTo, socket, Moved, At
<1>13. QED
  BY <1>4, <1>5, <1>6, <1>7, <1>8, <1>9, <1>10, <1>11, <1>12 DEF Main

-----------------------------------------------------------------------------
(* Where the ranks are *)

LEMMA PlaceStep ==
    ASSUME Inv, NEW r \in Ranks, Main(r)
    PROVE  PlaceInv' /\ SocketInv'
<1> USE DEF Inv
<1>1. overlap' = overlap /\ NumSlots' = NumSlots /\ NumSlots \in Nat \ {0}
  BY Fixed, Kept DEF Plan
<1>2. /\ slot[r] \in Nat /\ request[r] \in Int
      /\ pc[r] \in {"idle", "registered"} => slot[r] = 0
      /\ pc[r] \in {"broadcast", "reply", "barrier"} => slot[r] \in 1 .. NumSlots
      /\ pc[r] \in {"drain", "join", "end"} => slot[r] = NumSlots + 1
      /\ pc[r] \in {"reply", "barrier", "drain", "join"} => overlap
  BY DEF TypeInv, PlaceInv
<1>3. /\ ~ Awaiting(r) => request[r] = NoRequest /\ ~ reply[r]
      /\ Awaiting(r) => (reply[r] <=> request[r] = NoRequest)
      /\ request[r] # NoRequest =>
           request[r] = IF pc[r] = "join" THEN Stop ELSE IF slot[r] = 1 THEN Hello ELSE slot[r] - 1
  BY DEF SocketInv
<1>4. Moved(r)
  BY MainMoves
<1>5. /\ pc'[r] \in {"idle", "registered"} => slot'[r] = 0
      /\ pc'[r] \in {"broadcast", "reply", "barrier"} => slot'[r] \in 1 .. NumSlots
      /\ pc'[r] \in {"drain", "join", "end"} => slot'[r] = NumSlots + 1
      /\ pc'[r] \in {"reply", "barrier", "drain", "join"} => overlap
  BY <1>1, <1>2, <1>4 DEF Moved, At
<1>6. Awaiting(r)' <=> overlap /\ pc'[r] \in {"broadcast", "reply", "drain", "join"}
  BY <1>1 DEF Awaiting
<1>7. /\ ~ Awaiting(r)' => request'[r] = NoRequest /\ ~ reply'[r]
      /\ Awaiting(r)' => (reply'[r] <=> request'[r] = NoRequest)
      /\ request'[r] # NoRequest =>
           request'[r] = IF pc'[r] = "join" THEN Stop ELSE IF slot'[r] = 1 THEN Hello ELSE slot'[r] - 1
  BY <1>1, <1>2, <1>3, <1>4, <1>6 DEF Moved, At, Awaiting, NoRequest, Hello, Stop
<1>8. ASSUME NEW q \in Ranks, q # r
      PROVE  /\ pc'[q] = pc[q] /\ slot'[q] = slot[q] /\ request'[q] = request[q] /\ reply'[q] = reply[q]
             /\ Awaiting(q)' <=> Awaiting(q)
  BY <1>1, <1>8, Others DEF Awaiting
<1>9. PlaceInv'
  BY <1>1, <1>5, <1>8 DEF PlaceInv
<1>10. SocketInv'
  BY <1>7, <1>8 DEF SocketInv, NoRequest, Stop, Hello
<1>11. QED
  BY <1>9, <1>10

LEMMA LoaderPlace ==
    ASSUME Inv, NEW r \in Ranks, Loader(r)
    PROVE  PlaceInv' /\ SocketInv'
<1> USE DEF Inv
<1>1. /\ overlap' = overlap /\ NumSlots' = NumSlots
      /\ pc' = pc /\ slot' = slot /\ request[r] # NoRequest
  BY Fixed, Kept DEF Loader
<1>2. PlaceInv'
  BY <1>1 DEF PlaceInv
<1>3. Awaiting(r) /\ \A q \in Ranks : Awaiting(q)' <=> Awaiting(q)
  BY <1>1, RequestIs DEF Awaiting
<1>4. request'[r] = NoRequest /\ reply'[r]
  <2>1. DOMAIN request = Ranks /\ DOMAIN reply = Ranks
    BY DEF TypeInv
  <2>2. QED
    BY <2>1 DEF Loader
<1>5. \A q \in Ranks : q # r => request'[q] = request[q] /\ reply'[q] = reply[q]
  BY Others
<1>6. SocketInv'
  BY <1>1, <1>3, <1>4, <1>5 DEF SocketInv
<1>7. QED
  BY <1>2, <1>6

-----------------------------------------------------------------------------
(* Barriers, and the order of the ranks *)

LEMMA BarriersType ==
    ASSUME Plan
    PROVE  /\ Barriers \in Nat /\ Barriers >= 2
           /\ \A n \in Nat : n * Barriers \in Nat /\ (n + 1) * Barriers = n * Barriers + Barriers
<1>1. Barriers \in Nat /\ Barriers >= 2
  BY DEF Barriers, Plan
<1> HIDE DEF Barriers
<1>2. \A n \in Nat : n * Barriers \in Nat /\ (n + 1) * Barriers = n * Barriers + Barriers
  BY <1>1
<1>3. QED
  BY <1>1, <1>2

LEMMA PassedIs ==
    ASSUME Inv, NEW r \in Ranks
    PROVE  /\ Passed(r) \in 0 .. Barriers
           /\ Passed(r) = Barriers => pc[r] = "end"
           /\ Passed(r) = 0 => pc[r] = "idle"
<1>1. NumSlots \in Nat \ {0} /\ slot[r] \in Nat /\ pc[r] \in Places
  BY DEF Inv, Plan, TypeInv
<1>2. /\ pc[r] \in {"broadcast", "reply", "barrier"} => slot[r] \in 1 .. NumSlots
      /\ pc[r] \in {"reply", "barrier", "drain", "join"} => overlap
  BY DEF Inv, PlaceInv
<1>3. QED
  BY <1>1, <1>2 DEF Passed, Barriers, Places

LEMMA BarrierStep ==
    ASSUME Inv, NEW r \in Ranks, Main(r)
    PROVE  BarrierInv'
<1> USE DEF Inv
<1>1. overlap' = overlap /\ NumSlots' = NumSlots /\ NumSlots \in Nat \ {0} /\ Barriers' = Barriers
  BY Fixed, Kept DEF Plan, Barriers
<1>2. ASSUME NEW q \in Ranks, q # r
      PROVE  arrived'[q] = finished'[q] * Barriers' + Passed(q)'
  <2>1. /\ arrived'[q] = arrived[q] /\ finished'[q] = finished[q]
        /\ pc'[q] = pc[q] /\ slot'[q] = slot[q]
    BY <1>2, Others
  <2>2. Passed(q)' = Passed(q)
    BY <1>1, <2>1 DEF Passed
  <2>3. QED
    BY <1>1, <2>1, <2>2 DEF BarrierInv
<1>3. arrived'[r] = finished'[r] * Barriers' + Passed(r)'
  <2>1. /\ Moved(r) /\ finished'[r] = IF pc[r] = "end" THEN finished[r] + 1 ELSE finished[r]
    BY MainMoves
  <2>2. arrived[r] = finished[r] * Barriers + Passed(r) /\ Passed(r) \in Nat
    BY PassedIs DEF BarrierInv
  <2>3. arrived[r] \in Nat /\ finished[r] \in Nat /\ slot[r] \in Nat
    BY DEF TypeInv
  <2>4. /\ pc[r] \in {"broadcast", "reply", "barrier"} => slot[r] \in 1 .. NumSlots
        /\ pc[r] \in {"drain", "join", "end"} => slot[r] = NumSlots + 1
        /\ pc[r] \in {"reply", "barrier", "drain", "join"} => overlap
    BY DEF PlaceInv
  <2>5. CASE pc[r] = "end"
    <3>1. Passed(r) = Barriers /\ Passed(r)' = 0 /\ arrived'[r] = arrived[r]
      BY <2>1, <2>3, <2>5 DEF Moved, At, Passed
    <3>2. (finished[r] + 1) * Barriers = finished[r] * Barriers + Barriers
      BY <2>3, BarriersType
    <3>3. finished'[r] = finished[r] + 1
      BY <2>1, <2>5
    <3>4. finished[r] * Barriers \in Nat /\ Barriers \in Nat
      BY <2>3, BarriersType
    <3>5. arrived'[r] = (finished[r] + 1) * Barriers + 0
      BY <2>2, <3>1, <3>2, <3>4
    <3>6. QED
      BY <1>1, <3>1, <3>3, <3>5
  <2>6. CASE pc[r] # "end"
    <3>1. \E n \in 0 .. 1 : Passed(r)' = Passed(r) + n /\ arrived'[r] = arrived[r] + n
      <4>1. CASE overlap
        BY <1>1, <2>1, <2>3, <2>4, <2>6, <4>1 DEF Moved, At, Passed, Barriers
      <4>2. CASE ~ overlap
        BY <1>1, <2>1, <2>3, <2>4, <2>6, <4>2 DEF Moved, At, Passed, Barriers
      <4>3. QED
        BY <4>1, <4>2
    <3>2. finished'[r] = finished[r]
      BY <2>1, <2>6
    <3>3. finished[r] * Barriers \in Nat
      BY <2>3, BarriersType
    <3>4. QED
      BY <1>1, <2>2, <2>3, <3>1, <3>2, <3>3
  <2>7. QED
    BY <2>5, <2>6
<1>4. QED
  BY <1>2, <1>3 DEF BarrierInv

LEMMA LoaderBarrier ==
    ASSUME Inv, NEW r \in Ranks, Loader(r)
    PROVE  BarrierInv' /\ OrderInv'
<1>1. /\ overlap' = overlap /\ NumSlots' = NumSlots /\ version' = version
      /\ pc' = pc /\ slot' = slot /\ arrived' = arrived /\ finished' = finished
  BY Fixed, Kept DEF Loader
<1>2. Barriers' = Barriers /\ \A q \in Ranks : Passed(q)' = Passed(q)
  BY <1>1 DEF Barriers, Passed
<1>3. BarrierInv'
  BY <1>1, <1>2 DEF Inv, BarrierInv
<1>4. OrderInv'
  BY <1>1 DEF Inv, OrderInv
<1>5. QED
  BY <1>3, <1>4

\* A rank that leaves a barrier has met every other there, in the same
\* transfer or a later one.
LEMMA Meeting ==
    ASSUME Inv, NEW q \in Ranks, NEW r \in Ranks, arrived[q] >= arrived[r], pc[r] # "idle"
    PROVE  finished[q] > finished[r] \/ (finished[q] = finished[r] /\ Passed(q) >= Passed(r))
<1> USE DEF Inv
<1>1. /\ arrived[q] = finished[q] * Barriers + Passed(q)
      /\ arrived[r] = finished[r] * Barriers + Passed(r)
  BY DEF BarrierInv
<1>2. finished[q] \in Nat /\ finished[r] \in Nat
  BY DEF TypeInv
<1>3. Barriers \in Nat /\ finished[q] * Barriers \in Nat /\ finished[r] * Barriers \in Nat
  BY <1>2, BarriersType
<1>4. Passed(q) \in 0 .. Barriers /\ Passed(r) \in 1 .. Barriers
  <2>1. Passed(r) # 0
    BY PassedIs
  <2>2. QED
    BY <1>3, <2>1, PassedIs
<1>5. CASE finished[q] = finished[r]
  BY <1>1, <1>3, <1>4, <1>5
<1>6. CASE finished[q] < finished[r]
  <2>1. finished[r] = finished[q] + 1
    BY <1>6 DEF OrderInv
  <2>2. finished[r] * Barriers = finished[q] * Barriers + Barriers
    BY <1>2, <2>1, BarriersType
  <2>3. FALSE
    BY <1>1, <1>3, <1>4, <2>2
  <2>4. QED
    BY <2>3
<1>7. QED
  BY <1>2, <1>5, <1>6

LEMMA OrderStep ==
    ASSUME Inv, NEW r \in Ranks, Main(r)
    PROVE  OrderInv'
<1> USE DEF Inv
<1>1. version' = version /\ version \in Nat /\ finished \in [Ranks -> Nat] /\ pc[r] \in Places
  BY Fixed DEF TypeInv
<1>2. /\ Moved(r) /\ finished'[r] = IF pc[r] = "end" THEN finished[r] + 1 ELSE finished[r]
  BY MainMoves
<1>3. \A q \in Ranks : q # r => finished'[q] = finished[q] /\ pc'[q] = pc[q]
  BY Others
<1>4. CASE pc[r] # "end"
  <2>1. \A q \in Ranks : finished'[q] = finished[q]
    BY <1>2, <1>3, <1>4
  <2>2. finished[r] \in {version - 1, version} /\ (finished[r] < version => finished[r] = version - 1)
    BY <1>1, <1>4 DEF OrderInv
  <2>3. pc[r] = "idle" => finished[r] < version
    BY <1>2 DEF Moved
  <2>4. finished[r] = version - 1 /\ pc'[r] # "idle"
    BY <1>2, <1>4, <2>2, <2>3 DEF Moved, At, OrderInv
  <2>5. \A q \in Ranks :
          /\ pc'[q] = "idle" => finished'[q] \in {version - 1, version}
          /\ pc'[q] \notin {"idle", "end"} => finished'[q] = version - 1
          /\ pc'[q] = "end" => finished'[q] \in {version - 2, version - 1}
    BY <1>1, <1>3, <2>1, <2>4 DEF OrderInv
  <2>6. \A q \in RolloutRanks : finished'[q] \in {version - 1, version}
    BY <2>1, RanksAre DEF OrderInv
  <2>7. \A p, q \in Ranks : finished'[p] < finished'[q] => finished'[q] = finished'[p] + 1 /\ pc'[p] = "end"
    BY <1>3, <1>4, <2>1 DEF OrderInv
  <2>8. QED
    BY <1>1, <2>5, <2>6, <2>7 DEF OrderInv
<1>5. CASE pc[r] = "end"
  <2>1. Finish(r)
    BY <1>5 DEF Main, Register, Begin, Broadcast, TakeReply, SendMetas, Drain, Join
  <2>2. \A q \in Ranks : arrived[q] >= arrived[r]
    BY <2>1 DEF Finish, PassBarrier
  <2>3. finished'[r] = finished[r] + 1 /\ pc'[r] = "idle"
    BY <1>2, <1>5 DEF Moved, At
  <2>4. finished[r] \in {version - 2, version - 1} /\ (r \in RolloutRanks => finished[r] = version - 1)
    <3>1. finished[r] \in {version - 2, version - 1}
      BY <1>5 DEF OrderInv
    <3>2. r \in RolloutRanks => finished[r] \in {version - 1, version}
      BY DEF OrderInv
    <3>3. QED
      BY <1>1, <3>1, <3>2
  <2>5. ASSUME NEW q \in Ranks
        PROVE  finished[q] > finished[r] \/ (finished[q] = finished[r] /\ pc[q] = "end")
    <3>1. Passed(r) = Barriers
      BY <1>5 DEF Passed
    <3>2. finished[q] > finished[r] \/ (finished[q] = finished[r] /\ Passed(q) >= Passed(r))
      BY <1>5, <2>2, Meeting
    <3>3. Passed(q) \in 0 .. Barriers /\ Barriers \in Nat /\ (Passed(q) = Barriers => pc[q] = "end")
      BY PassedIs, BarriersType
    <3>4. QED
      BY <3>1, <3>2, <3>3
  <2>6. \A q \in Ranks :
          /\ pc'[q] = "idle" => finished'[q] \in {version - 1, version}
          /\ pc'[q] \notin {"idle", "end"} => finished'[q] = version - 1
          /\ pc'[q] = "end" => finished'[q] \in {version - 2, version - 1}
    BY <1>1, <1>3, <2>3, <2>4 DEF OrderInv
  <2>7. ASSUME NEW q \in RolloutRanks PROVE finished'[q] \in {version - 1, version}
    <3>1. q \in Ranks /\ finished[q] \in {version - 1, version}
      BY RanksAre DEF OrderInv
    <3>2. QED
      BY <1>1, <1>3, <2>3, <2>4, <3>1
  <2>8. ASSUME NEW p \in Ranks, NEW q \in Ranks, finished'[p] < finished'[q]
        PROVE  finished'[q] = finished'[p] + 1 /\ pc'[p] = "end"
    <3>1. finished[p] < finished[q] => finished[q] = finished[p] + 1 /\ pc[p] = "end"
      BY DEF OrderInv
    <3>2. finished[r] < finished[q] => finished[q] = finished[r] + 1
      BY DEF OrderInv
    <3>3. QED
      BY <1>1, <1>3, <2>3, <2>5, <2>8, <3>1, <3>2
  <2>9. QED
    BY <1>1, <2>6, <2>7, <2>8 DEF OrderInv
<1>6. QED
  BY <1>4, <1>5

\* Nothing is left of the transfer before when the synchronizer begins one.
LEMMA CallOrder ==
    ASSUME Inv, CallSync
    PROVE  /\ \A r \in Ranks : /\ finished[r] \in {version - 1, version}
                               /\ finished[r] = version => pc[r] = "idle" /\ slot[r] = 0
                               /\ finished[r] # version => pc[r] = "end"
           /\ OrderInv'
<1> USE DEF Inv
<1>1. version' = version + 1 /\ version \in Nat /\ finished' = finished /\ pc' = pc /\ finished \in [Ranks -> Nat]
  BY DEF CallSync, TypeInv
<1>2. PICK h \in RolloutRanks : finished[h] = version /\ h \in Ranks
  BY RanksAre DEF CallSync
<1>3. ASSUME NEW r \in Ranks
      PROVE  /\ finished[r] \in {version - 1, version}
             /\ finished[r] = version => pc[r] = "idle" /\ slot[r] = 0
             /\ finished[r] # version => pc[r] = "end"
  <2>1. /\ finished[r] < finished[h] => finished[h] = finished[r] + 1 /\ pc[r] = "end"
        /\ finished[r] \in Nat
    BY <1>1, <1>2 DEF OrderInv
  <2>2. finished[r] \in {version - 2, version - 1, version}
    BY <1>1 DEF OrderInv
  <2>3. finished[r] = version => pc[r] = "idle"
    BY <1>1 DEF OrderInv
  <2>4. pc[r] = "idle" => slot[r] = 0
    BY DEF PlaceInv
  <2>5. QED
    BY <1>1, <1>2, <2>1, <2>2, <2>3, <2>4
<1>4. OrderInv'
  <2>1. \A r \in RolloutRanks : finished[r] = version
    BY DEF CallSync
  <2>2. \A q, r \in Ranks : finished[q] < finished[r] => finished[r] = finished[q] + 1 /\ pc[q] = "end"
    BY DEF OrderInv
  <2>3. QED
    BY <1>1, <1>3, <2>1, <2>2 DEF OrderInv
<1>5. QED
  BY <1>3, <1>4

-----------------------------------------------------------------------------
(* What is on the net and in the buffers *)

\* A rank sends the bucket of its slot, with the weights of this transfer, and
\* takes from the net the bucket of its slot, with the weights of this transfer.
LEMMA BroadcastIs ==
    ASSUME Inv, NEW r \in Ranks, Broadcast(r)
    PROVE  /\ pc[r] = "broadcast" /\ slot[r] \in 1 .. NumSlots /\ finished[r] + 1 = version
           /\ buffer' = [buffer EXCEPT ![r][Half(slot[r])] = Content(slot[r], version)]
           /\ IF Slots[slot[r]].src = r
              THEN slot[r] = Len(net) + 1 /\ net' = Append(net, Content(slot[r], version))
              ELSE slot[r] \in 1 .. Len(net) /\ net' = net
           /\ IF overlap
              THEN model' = model
              ELSE LoadWeights(r, slot[r], Content(slot[r], version)) /\ NextSlot(r)
<1> USE DEF Inv
<1> DEFINE g       == slot[r]
           s       == Slots[g]
           device  == IF s.i \in DOMAIN memory[r] THEN memory[r][s.i] ELSE h2d[r]
           content == IF s.src = r THEN device ELSE net[g]
<1>1. pc[r] = "broadcast"
  BY DEF Broadcast
<1>2. g \in 1 .. NumSlots /\ version \in Nat /\ finished[r] \in Nat /\ NumSlots \in Nat
  BY <1>1 DEF PlaceInv, TypeInv, Plan
<1>3. finished[r] = version - 1
  BY <1>1 DEF OrderInv
<1>4. /\ IF s.src = r THEN net' = Append(net, content) ELSE g \in DOMAIN net /\ UNCHANGED net
      /\ buffer' = [buffer EXCEPT ![r][Half(g)] = content]
      /\ IF overlap
         THEN GoTo(r, "reply") /\ UNCHANGED <<slot, arrived, model>>
         ELSE LoadWeights(r, g, content) /\ NextSlot(r)
  BY DEF Broadcast
<1>5. Taken(r) = g - 1 /\ Taken(r) <= Len(net) /\ Len(net) \in Nat /\ DOMAIN net = 1 .. Len(net)
  <2>1. Taken(r) = g - 1
    BY <1>1, <1>2 DEF Taken
  <2>2. Taken(r) <= Len(net)
    BY <1>3 DEF NetInv
  <2>3. QED
    BY <2>1, <2>2 DEF TypeInv
<1>6. s.src \in ActorRanks /\ s.i \in DOMAIN globalBuckets[s.src]
  BY <1>2 DEF Plan
<1>7. CASE s.src = r
  <2>1. memory[r] = [i \in DOMAIN globalBuckets[r] |->
                        [bucket |-> globalBuckets[r][i], version |-> finished[r] + 1]]
    BY <1>1, <1>6, <1>7 DEF MemoryInv
  <2>2. s.i \in DOMAIN globalBuckets[r]
    BY <1>6, <1>7
  <2> DEFINE i == s.i
  <2> HIDE DEF i
  <2>3. i \in DOMAIN memory[r] /\ memory[r][i] = [bucket |-> globalBuckets[r][i], version |-> finished[r] + 1]
    BY <2>1, <2>2 DEF i
  <2>4. content = [bucket |-> globalBuckets[r][i], version |-> finished[r] + 1]
    BY <1>7, <2>3 DEF i
  <2>5. content = Content(g, version)
    <3>1. Metas(s) = globalBuckets[r][i]
      BY <1>7 DEF Metas, i
    <3>2. finished[r] + 1 = version
      BY <1>2, <1>3
    <3>3. QED
      BY <2>4, <3>1, <3>2 DEF Content
  <2>6. g = Len(net) + 1
    <3>1. ~ g \in 1 .. Len(net)
      BY <1>2, <1>3, <1>5, <1>7 DEF NetInv
    <3>2. QED
      BY <1>2, <1>5, <3>1
  <2> HIDE DEF content, device, s, g
  <2>7. QED
    BY <1>1, <1>2, <1>3, <1>4, <1>7, <2>5, <2>6 DEF s, g
<1>8. CASE s.src # r
  <2>1. g \in 1 .. Len(net) /\ net' = net
    BY <1>4, <1>5, <1>8
  <2>2. content = net[g]
    BY <1>8
  <2>3. net[g] = Content(g, version)
    BY <2>1 DEF NetInv
  <2> HIDE DEF content, device, s, g
  <2>4. QED
    BY <1>1, <1>2, <1>3, <1>4, <1>8, <2>1, <2>2, <2>3 DEF s, g
<1>9. QED
  BY <1>7, <1>8

LEMMA TakenStep ==
    ASSUME Inv, NEW r \in Ranks, Main(r)
    PROVE  /\ Taken(r) \in Nat
           /\ pc[r] = "broadcast" => Taken(r) = slot[r] - 1
           /\ Taken(r)' = IF pc[r] = "end" THEN 0 ELSE IF pc[r] = "broadcast" THEN slot[r] ELSE Taken(r)
<1>1. Moved(r)
  BY MainMoves
<1>2. slot[r] \in Nat /\ pc[r] \in Places /\ NumSlots \in Nat
  BY DEF Inv, TypeInv, Plan
<1>3. /\ pc[r] \in {"idle", "registered"} => slot[r] = 0
      /\ pc[r] \in {"broadcast", "reply", "barrier"} => slot[r] \in 1 .. NumSlots
      /\ pc[r] \in {"drain", "join", "end"} => slot[r] = NumSlots + 1
  BY DEF Inv, PlaceInv
<1>4. QED
  BY <1>1, <1>2, <1>3 DEF Moved, At, Taken, Places

LEMMA NetStep ==
    ASSUME Inv, NEW r \in Ranks, Main(r)
    PROVE  NetInv'
<1> USE DEF Inv
<1>1. /\ version' = version /\ NumSlots' = NumSlots /\ Slots' = Slots /\ globalBuckets' = globalBuckets
      /\ version \in Nat /\ NumSlots \in Nat /\ finished[r] \in Nat /\ net \in Seq(Contents)
  BY Fixed, Kept DEF Plan, TypeInv
<1>2. \A g : Content(g, version)' = Content(g, version)
  BY <1>1 DEF Content, Metas
<1>3. \A q \in Ranks : q # r => finished'[q] = finished[q] /\ Taken(q)' = Taken(q)
  BY Others DEF Taken
<1>4. /\ finished'[r] = IF pc[r] = "end" THEN finished[r] + 1 ELSE finished[r]
      /\ Taken(r) \in Nat
      /\ Taken(r)' = IF pc[r] = "end" THEN 0 ELSE IF pc[r] = "broadcast" THEN slot[r] ELSE Taken(r)
  BY MainMoves, TakenStep
<1>5. /\ Len(net) <= NumSlots /\ \A g \in 1 .. Len(net) : net[g] = Content(g, version)
      /\ \A q \in Ranks : finished[q] = version - 1 => Taken(q) <= Len(net)
      /\ \A q \in Ranks : finished[q] < version =>
            \A g \in 1 .. Len(net) : Slots[g].src = q => finished[q] = version - 1 /\ g <= Taken(q)
  BY DEF NetInv
<1>6. CASE pc[r] = "broadcast"
  <2>1. Broadcast(r)
    BY <1>6 DEF Main, Register, Begin, TakeReply, SendMetas, Drain, Join, Finish
  <2>2. /\ slot[r] \in 1 .. NumSlots /\ finished[r] + 1 = version
        /\ IF Slots[slot[r]].src = r
           THEN slot[r] = Len(net) + 1 /\ net' = Append(net, Content(slot[r], version))
           ELSE slot[r] \in 1 .. Len(net) /\ net' = net
    BY <2>1, BroadcastIs
  <2>3. Taken(r) = slot[r] - 1 /\ Taken(r)' = slot[r] /\ finished'[r] = finished[r]
    BY <1>4, <1>6, TakenStep
  <2>4. CASE Slots[slot[r]].src = r
    <3> DEFINE c == Content(slot[r], version)
    <3> HIDE DEF c
    <3>1. slot[r] = Len(net) + 1 /\ net' = Append(net, c)
      BY <2>2, <2>4 DEF c
    <3>2. /\ Len(net') = Len(net) + 1 /\ net'[Len(net) + 1] = c /\ Len(net) \in Nat
          /\ \A g \in 1 .. Len(net) : net'[g] = net[g]
      BY <1>1, <3>1
    <3>3. \A g \in 1 .. Len(net') : g \in 1 .. Len(net) \/ g = slot[r]
      BY <3>1, <3>2
    <3>4. \A g \in 1 .. Len(net') : net'[g] = Content(g, version)
      BY <1>5, <3>1, <3>2, <3>3 DEF c
    <3>5. Len(net') <= NumSlots
      BY <1>1, <2>2, <3>1, <3>2
    <3>6. \A q \in Ranks : finished'[q] = version - 1 => Taken(q)' <= Len(net')
      <4>1. ASSUME NEW q \in Ranks, q # r, finished[q] = version - 1
            PROVE  Taken(q) <= Len(net) + 1
        <5>1. Taken(q) <= Len(net) /\ slot[q] \in Nat
          BY <1>5, <4>1 DEF TypeInv
        <5>2. Taken(q) \in Int
          BY <5>1 DEF Taken
        <5>3. QED
          BY <3>2, <5>1, <5>2
      <4>2. QED
        BY <1>1, <1>3, <2>2, <2>3, <3>1, <3>2, <4>1
    <3>7. ASSUME NEW q \in Ranks, finished'[q] < version, NEW g \in 1 .. Len(net'), Slots[g].src = q
          PROVE  finished'[q] = version - 1 /\ g <= Taken(q)'
      <4>1. CASE q = r
        BY <1>1, <2>2, <2>3, <3>1, <3>2, <4>1
      <4>2. CASE q # r
        <5>1. g \in 1 .. Len(net)
          BY <2>4, <3>3, <3>7, <4>2
        <5>2. QED
          BY <1>3, <1>5, <3>7, <4>2, <5>1
      <4>3. QED
        BY <4>1, <4>2
    <3>8. QED
      BY <1>1, <1>2, <3>4, <3>5, <3>6, <3>7 DEF NetInv
  <2>5. CASE Slots[slot[r]].src # r
    <3>1. slot[r] \in 1 .. Len(net) /\ net' = net
      BY <2>2, <2>5
    <3>2. \A q \in Ranks : finished'[q] = finished[q]
      BY <1>3, <2>3
    <3>3. \A q \in Ranks : finished'[q] = version - 1 => Taken(q)' <= Len(net)
      BY <1>1, <1>3, <1>5, <2>3, <3>1, <3>2
    <3>4. ASSUME NEW q \in Ranks, finished'[q] < version, NEW g \in 1 .. Len(net), Slots[g].src = q
          PROVE  finished'[q] = version - 1 /\ g <= Taken(q)'
      <4>1. finished[q] = version - 1 /\ g <= Taken(q)
        BY <1>5, <3>2, <3>4
      <4>2. QED
        BY <1>3, <2>2, <2>3, <3>2, <4>1
    <3>5. QED
      BY <1>1, <1>2, <1>5, <3>1, <3>3, <3>4 DEF NetInv
  <2>6. QED
    BY <2>4, <2>5
<1>7. CASE pc[r] # "broadcast"
  <2>1. net' = net
    BY <1>7 DEF Main, Register, Begin, Broadcast, TakeReply, SendMetas, Drain, Join, Finish
  <2>2. CASE pc[r] # "end"
    <3>1. \A q \in Ranks : finished'[q] = finished[q] /\ Taken(q)' = Taken(q)
      BY <1>3, <1>4, <1>7, <2>2
    <3>2. QED
      BY <1>1, <1>2, <1>5, <2>1, <3>1 DEF NetInv
  <2>3. CASE pc[r] = "end"
    <3>1. Taken(r)' = 0 /\ finished'[r] = finished[r] + 1 /\ Len(net) \in Nat
      BY <1>1, <1>4, <2>3
    <3>2. \A q \in Ranks : finished'[q] = version - 1 => Taken(q)' <= Len(net)
      BY <1>3, <1>5, <3>1
    <3>3. ASSUME NEW q \in Ranks, finished'[q] < version, NEW g \in 1 .. Len(net), Slots[g].src = q
          PROVE  finished'[q] = version - 1 /\ g <= Taken(q)'
      <4>1. CASE q = r
        <5>1. finished[r] < version /\ finished[r] # version - 1
          BY <1>1, <3>1, <3>3, <4>1
        <5>2. QED
          BY <1>5, <3>3, <4>1, <5>1
      <4>2. CASE q # r
        BY <1>3, <1>5, <3>3, <4>2
      <4>3. QED
        BY <4>1, <4>2
    <3>4. QED
      BY <1>1, <1>2, <1>5, <2>1, <3>2, <3>3 DEF NetInv
  <2>4. QED
    BY <2>2, <2>3
<1>8. QED
  BY <1>6, <1>7

LEMMA MemoryStep ==
    ASSUME Inv, NEW r \in Ranks, Main(r)
    PROVE  MemoryInv'
<1> USE DEF Inv
<1>1. globalBuckets' = globalBuckets
  BY Fixed, Kept
<1>2. ASSUME NEW a \in ActorRanks, a # r, pc'[a] # "idle"
      PROVE  memory'[a] = [i \in DOMAIN globalBuckets[a] |->
                             [bucket |-> globalBuckets[a][i], version |-> finished'[a] + 1]]
  <2>1. /\ pc'[a] = pc[a] /\ finished'[a] = finished[a] /\ memory'[a] = memory[a]
    BY <1>2, Others, RanksAre
  <2>2. QED
    BY <1>2, <2>1 DEF MemoryInv
<1>3. ASSUME r \in ActorRanks, pc'[r] # "idle"
      PROVE  memory'[r] = [i \in DOMAIN globalBuckets[r] |->
                             [bucket |-> globalBuckets[r][i], version |-> finished'[r] + 1]]
  <2>1. /\ Moved(r) /\ finished'[r] = IF pc[r] = "end" THEN finished[r] + 1 ELSE finished[r]
    BY MainMoves
  <2>2. pc[r] # "end" /\ finished'[r] = finished[r]
    BY <1>3, <2>1 DEF Moved, At
  <2>3. CASE Register(r)
    <3>1. r \in DOMAIN memory
      BY DEF TypeInv
    <3>2. memory'[r] = [i \in DOMAIN globalBuckets[r] |->
                          [bucket |-> globalBuckets[r][i], version |-> finished[r] + 1]]
      BY <1>3, <2>3, <3>1 DEF Register
    <3>3. QED
      BY <2>2, <3>2
  <2>4. CASE ~ Register(r)
    <3>1. memory' = memory /\ pc[r] # "idle"
      BY <2>2, <2>4 DEF Main, Begin, Broadcast, TakeReply, SendMetas, Drain, Join, Finish
    <3>2. QED
      BY <1>3, <2>2, <3>1 DEF MemoryInv
  <2>5. QED
    BY <2>3, <2>4
<1>4. QED
  BY <1>1, <1>2, <1>3 DEF MemoryInv

LEMMA BufferStep ==
    ASSUME Inv, NEW r \in Ranks, Main(r)
    PROVE  BufferInv'
<1> USE DEF Inv
<1>1. overlap' = overlap /\ globalBuckets' = globalBuckets /\ Slots' = Slots
  BY Fixed, Kept
<1> SUFFICES ASSUME overlap
             PROVE  \A q \in Ranks :
                      /\ pc'[q] \in {"reply", "barrier"} =>
                           buffer'[q][slot'[q] % 2] = Content(slot'[q], finished'[q] + 1)
                      /\ request'[q] > 0 =>
                           buffer'[q][request'[q] % 2] = Content(request'[q], finished'[q] + 1)
  BY <1>1 DEF BufferInv, Content, Metas
<1>2. ASSUME NEW q \in Ranks, q # r
      PROVE  /\ pc'[q] \in {"reply", "barrier"} =>
                  buffer'[q][slot'[q] % 2] = Content(slot'[q], finished'[q] + 1)
             /\ request'[q] > 0 =>
                  buffer'[q][request'[q] % 2] = Content(request'[q], finished'[q] + 1)
  BY <1>2, Others DEF BufferInv
<1>3. /\ Moved(r) /\ finished'[r] = IF pc[r] = "end" THEN finished[r] + 1 ELSE finished[r]
  BY MainMoves
<1>4. /\ slot[r] \in Nat /\ request[r] \in Int
      /\ pc[r] \in {"broadcast", "reply", "barrier"} => slot[r] \in 1 .. NumSlots
      /\ NumSlots \in Nat
  BY DEF TypeInv, PlaceInv, Plan
<1>5. /\ ~ Awaiting(r) => request[r] = NoRequest
      /\ request[r] # NoRequest /\ pc[r] # "join" =>
           request[r] = IF slot[r] = 1 THEN Hello ELSE slot[r] - 1
      /\ request[r] # NoRequest /\ pc[r] = "join" => request[r] = Stop
  BY DEF SocketInv
<1>6. /\ pc[r] \in {"reply", "barrier"} => buffer[r][slot[r] % 2] = Content(slot[r], finished[r] + 1)
      /\ request[r] > 0 => buffer[r][request[r] % 2] = Content(request[r], finished[r] + 1)
  BY DEF BufferInv
<1>7. CASE pc[r] = "broadcast"
  <2> DEFINE g == slot[r]
             c == Content(slot[r], finished[r] + 1)
  <2>1. Broadcast(r)
    BY <1>7 DEF Main, Register, Begin, TakeReply, SendMetas, Drain, Join, Finish
  <2>2. finished'[r] = finished[r] /\ slot'[r] = g /\ request'[r] = request[r] /\ pc'[r] = "reply"
    BY <1>3, <1>7 DEF Moved, At
  <2>3. buffer' = [buffer EXCEPT ![r][g % 2] = c]
    BY <2>1, BroadcastIs DEF Half
  <2>4. buffer[r] \in [0 .. 1 -> Contents] /\ r \in DOMAIN buffer
    BY DEF TypeInv
  <2>5. g \in Nat /\ g % 2 \in 0 .. 1
    BY <1>4
  <2>6. buffer'[r][g % 2] = c /\ \A h \in 0 .. 1 : h # g % 2 => buffer'[r][h] = buffer[r][h]
    <3> HIDE DEF c, g
    <3>1. QED
      BY <2>3, <2>4, <2>5
  <2>7. ASSUME request'[r] > 0
        PROVE  buffer'[r][request'[r] % 2] = Content(request'[r], finished'[r] + 1)
    <3>1. request[r] = g - 1 /\ request[r] \in Nat
      BY <1>4, <1>5, <1>7, <2>2, <2>7 DEF NoRequest, Hello
    <3>2. request[r] % 2 \in 0 .. 1 /\ request[r] % 2 # g % 2
      BY <2>5, <3>1
    <3>3. buffer'[r][request[r] % 2] = buffer[r][request[r] % 2]
      BY <2>6, <3>2
    <3>4. QED
      BY <1>6, <2>2, <2>7, <3>3
  <2>8. QED
    BY <1>2, <2>2, <2>6, <2>7
<1>8. CASE pc[r] = "registered"
  <2>1. pc'[r] = "broadcast" /\ request'[r] = Hello
    BY <1>3, <1>8 DEF Moved, At
  <2>2. QED
    BY <1>2, <2>1 DEF Hello
<1>9. CASE pc[r] \notin {"broadcast", "registered"}
  <2>1. buffer' = buffer
    BY <1>9 DEF Main, Register, Begin, Broadcast, TakeReply, SendMetas, Drain, Join, Finish
  <2>2. CASE pc[r] \in {"idle", "drain", "join", "end"}
    <3>1. request'[r] \in {NoRequest, Stop} /\ pc'[r] \notin {"reply", "barrier"}
      BY <1>3, <1>5, <2>2 DEF Moved, At, Awaiting
    <3>2. QED
      BY <1>2, <3>1 DEF NoRequest, Stop
  <2>3. CASE pc[r] = "reply"
    <3>1. pc'[r] = "barrier" /\ slot'[r] = slot[r] /\ request'[r] = request[r] /\ finished'[r] = finished[r]
      BY <1>3, <2>3 DEF Moved, At
    <3>2. QED
      BY <1>2, <1>6, <2>1, <2>3, <3>1
  <2>4. CASE pc[r] = "barrier"
    <3>1. /\ pc'[r] \notin {"reply", "barrier"} /\ request'[r] = slot[r] /\ finished'[r] = finished[r]
      BY <1>3, <2>4 DEF Moved, At
    <3>2. QED
      BY <1>2, <1>6, <2>1, <2>4, <3>1
  <2>5. pc[r] \in Places
    BY DEF TypeInv
  <2>6. QED
    BY <1>9, <2>2, <2>3, <2>4, <2>5 DEF Places
<1>10. QED
  BY <1>7, <1>8, <1>9

LEMMA LoaderBuffer ==
    ASSUME Inv, NEW r \in Ranks, Loader(r)
    PROVE  NetInv' /\ MemoryInv' /\ BufferInv'
<1> USE DEF Inv
<1>1. /\ overlap' = overlap /\ globalBuckets' = globalBuckets /\ Slots' = Slots /\ NumSlots' = NumSlots
      /\ version' = version
  BY Fixed, Kept
<1>2. /\ pc' = pc /\ slot' = slot /\ finished' = finished /\ net' = net /\ memory' = memory /\ buffer' = buffer
  BY DEF Loader
<1>3. request'[r] = NoRequest
  BY DEF Loader, TypeInv
<1>4. \A q \in Ranks : q # r => request'[q] = request[q]
  BY Others
<1>5. NetInv'
  BY <1>1, <1>2 DEF NetInv, Taken, Content, Metas
<1>6. MemoryInv'
  BY <1>1, <1>2 DEF MemoryInv
<1>7. BufferInv'
  <2> SUFFICES ASSUME overlap
               PROVE  \A q \in Ranks :
                        /\ pc[q] \in {"reply", "barrier"} =>
                             buffer[q][slot[q] % 2] = Content(slot[q], finished[q] + 1)
                        /\ request'[q] > 0 =>
                             buffer[q][request'[q] % 2] = Content(request'[q], finished[q] + 1)
    BY <1>1, <1>2 DEF BufferInv, Content, Metas
  <2>1. ~ request'[r] > 0
    BY <1>3 DEF NoRequest
  <2>2. \A q \in Ranks : request'[q] > 0 => request'[q] = request[q]
    BY <1>4, <2>1
  <2>3. QED
    BY <2>2 DEF BufferInv
<1>8. QED
  BY <1>5, <1>6, <1>7

-----------------------------------------------------------------------------
(* The models *)

\* A bucket read under its own description puts the version of its weights in
\* its parameters, and leaves the others.
LEMMA LoadIs ==
    ASSUME Inv, NEW r \in RolloutRanks, NEW g \in 1 .. NumSlots, NEW v,
           LoadWeights(r, g, Content(g, v))
    PROVE  /\ \A q \in RolloutRanks : q # r => model'[q] = model[q]
           /\ model'[r] = [p \in Parameters |-> IF Holds(p, g) THEN v ELSE model[r][p]]
<1> DEFINE m == model[r]
<1>1. m \in [Parameters -> Int] /\ model \in [RolloutRanks -> [Parameters -> Int]]
  BY DEF Inv, TypeInv
<1>2. Loaded(m, Metas(Slots[g]), Content(g, v)) = [p \in Parameters |-> IF Holds(p, g) THEN v ELSE m[p]]
  BY <1>1 DEF Loaded, Content, Holds, Has
<1>3. model' = [model EXCEPT ![r] = Loaded(m, Metas(Slots[g]), Content(g, v))]
  BY DEF LoadWeights
<1>4. QED
  BY <1>1, <1>2, <1>3

LEMMA LoadedStep ==
    ASSUME Inv, NEW r \in Ranks, Main(r)
    PROVE  /\ LoadedTo(r) \in Nat
           /\ pc[r] = "end" => LoadedTo(r) = NumSlots /\ LoadedTo(r)' = 0
           /\ pc[r] = "broadcast" /\ ~ overlap => LoadedTo(r) = slot[r] - 1 /\ LoadedTo(r)' = slot[r]
           /\ pc[r] # "end" /\ (pc[r] # "broadcast" \/ overlap) => LoadedTo(r)' = LoadedTo(r)
<1> USE DEF Inv
<1>1. Moved(r)
  BY MainMoves
<1>2. /\ slot[r] \in Nat /\ request[r] \in Int /\ NumSlots \in Nat \ {0} /\ pc[r] \in Places
      /\ pc[r] \in {"idle", "registered"} => slot[r] = 0
      /\ pc[r] \in {"broadcast", "reply", "barrier"} => slot[r] \in 1 .. NumSlots
      /\ pc[r] \in {"drain", "join", "end"} => slot[r] = NumSlots + 1
      /\ pc[r] \in {"reply", "barrier", "drain", "join"} => overlap
  BY DEF TypeInv, PlaceInv, Plan
<1>3. /\ ~ Awaiting(r) => request[r] = NoRequest
      /\ Awaiting(r) => (reply[r] <=> request[r] = NoRequest)
      /\ request[r] # NoRequest =>
           request[r] = IF pc[r] = "join" THEN Stop ELSE IF slot[r] = 1 THEN Hello ELSE slot[r] - 1
  BY DEF SocketInv
<1>4. LoadedTo(r) \in Nat
  BY <1>2, <1>3 DEF LoadedTo, Stop, Hello, NoRequest
<1>5. /\ pc[r] = "end" => LoadedTo(r) = NumSlots /\ LoadedTo(r)' = 0
      /\ pc[r] = "broadcast" /\ ~ overlap => LoadedTo(r) = slot[r] - 1 /\ LoadedTo(r)' = slot[r]
  BY <1>1, <1>2, <1>3 DEF LoadedTo, Awaiting, NoRequest, Moved, At
<1>6. ASSUME pc[r] # "end", pc[r] # "broadcast" \/ overlap PROVE LoadedTo(r)' = LoadedTo(r)
  BY <1>1, <1>2, <1>3, <1>6 DEF LoadedTo, Awaiting, NoRequest, Hello, Stop, Places, Moved, At
<1>7. QED
  BY <1>4, <1>5, <1>6

LEMMA ModelStep ==
    ASSUME Inv, NEW r \in Ranks, Main(r)
    PROVE  ModelInv'
<1> USE DEF Inv
<1>1. /\ overlap' = overlap /\ NumSlots' = NumSlots /\ Parameters' = Parameters /\ NumSlots \in Nat
      /\ \A p, k : Holds(p, k)' <=> Holds(p, k)
  BY Fixed, Kept DEF Plan
<1>2. ASSUME NEW q \in RolloutRanks, q # r
      PROVE  model'[q] = model[q] /\ LoadedTo(q)' = LoadedTo(q) /\ finished'[q] = finished[q]
  BY <1>2, Others, RanksAre DEF LoadedTo
<1>3. ASSUME NEW p \in Parameters, NEW k \in 1 .. NumSlots, Holds(p, k), r \in RolloutRanks
      PROVE  model'[r][p] = IF k <= LoadedTo(r)' THEN finished'[r] + 1 ELSE finished'[r]
  <2>1. model[r][p] = IF k <= LoadedTo(r) THEN finished[r] + 1 ELSE finished[r]
    BY <1>3 DEF ModelInv
  <2>2. /\ finished'[r] = IF pc[r] = "end" THEN finished[r] + 1 ELSE finished[r]
        /\ finished[r] \in Nat
    BY MainMoves DEF TypeInv
  <2>3. CASE pc[r] = "broadcast" /\ ~ overlap
    <3>1. Broadcast(r)
      BY <2>3 DEF Main, Register, Begin, TakeReply, SendMetas, Drain, Join, Finish
    <3>2. slot[r] \in 1 .. NumSlots /\ LoadWeights(r, slot[r], Content(slot[r], version)) /\ finished[r] + 1 = version
      BY <2>3, <3>1, BroadcastIs
    <3>3. model'[r] = [x \in Parameters |-> IF Holds(x, slot[r]) THEN version ELSE model[r][x]]
      BY <1>3, <3>2, LoadIs
    <3>4. LoadedTo(r) = slot[r] - 1 /\ LoadedTo(r)' = slot[r]
      BY <2>3, LoadedStep
    <3>5. Holds(p, slot[r]) => k = slot[r]
      BY <1>3, <3>2 DEF Plan
    <3>6. QED
      BY <1>3, <2>1, <2>2, <2>3, <3>2, <3>3, <3>4, <3>5
  <2>4. CASE pc[r] = "end"
    <3>1. model' = model
      BY <2>4 DEF Main, Register, Begin, Broadcast, TakeReply, SendMetas, Drain, Join, Finish
    <3>2. LoadedTo(r) = NumSlots /\ LoadedTo(r)' = 0
      BY <2>4, LoadedStep
    <3>3. QED
      BY <1>1, <2>1, <2>2, <2>4, <3>1, <3>2
  <2>5. CASE pc[r] # "end" /\ (pc[r] # "broadcast" \/ overlap)
    <3>1. model' = model
      BY <2>5 DEF Main, Register, Begin, Broadcast, TakeReply, SendMetas, Drain, Join, Finish
    <3>2. LoadedTo(r)' = LoadedTo(r)
      BY <2>5, LoadedStep
    <3>3. QED
      BY <2>1, <2>2, <2>5, <3>1, <3>2
  <2>6. QED
    BY <2>3, <2>4, <2>5
<1>4. ASSUME NEW q \in RolloutRanks, NEW p \in Parameters, NEW k \in 1 .. NumSlots, Holds(p, k)
      PROVE  model'[q][p] = IF k <= LoadedTo(q)' THEN finished'[q] + 1 ELSE finished'[q]
  <2>1. CASE q = r
    BY <1>3, <1>4, <2>1
  <2>2. CASE q # r
    <3>1. model[q][p] = IF k <= LoadedTo(q) THEN finished[q] + 1 ELSE finished[q]
      BY <1>4 DEF ModelInv
    <3>2. QED
      BY <1>2, <2>2, <3>1
  <2>3. QED
    BY <2>1, <2>2
<1>5. QED
  BY <1>1, <1>4 DEF ModelInv

\* The loader reads the bucket it is asked for: the next, of this transfer.
LEMMA LoaderIs ==
    ASSUME Inv, NEW r \in Ranks, Loader(r)
    PROVE  /\ finished[r] + 1 = version
           /\ \/ model' = model /\ LoadedTo(r)' = LoadedTo(r)
              \/ \E g \in 1 .. NumSlots : /\ LoadedTo(r) = g - 1 /\ LoadedTo(r)' = g
                                          /\ LoadWeights(r, g, Content(g, version))
<1> USE DEF Inv
<1>1. /\ slot' = slot /\ request[r] # NoRequest /\ request'[r] = NoRequest
      /\ IF request[r] \in {Hello, Stop} THEN model' = model
         ELSE LoadWeights(r, request[r], buffer[r][Half(request[r])])
  BY DEF Loader, TypeInv
<1>2. slot[r] \in Nat /\ version \in Nat /\ finished[r] \in Nat /\ NumSlots \in Nat
  BY DEF TypeInv, Plan
<1>3. /\ overlap /\ Awaiting(r)
      /\ request[r] \notin {Hello, Stop} => request[r] = slot[r] - 1 /\ request[r] \in 1 .. NumSlots
  BY <1>1, RequestIs
<1>4. finished[r] + 1 = version
  BY <1>2, <1>3 DEF Awaiting, OrderInv
<1>5. CASE request[r] \in {Hello, Stop}
  BY <1>1, <1>4, <1>5 DEF LoadedTo, Hello, Stop, NoRequest
<1>6. CASE request[r] \notin {Hello, Stop}
  <2> DEFINE g == request[r]
  <2>1. g \in 1 .. NumSlots /\ g = slot[r] - 1
    BY <1>3, <1>6
  <2>2. LoadedTo(r) = g - 1 /\ LoadedTo(r)' = g
    BY <1>1, <1>2, <2>1 DEF LoadedTo, NoRequest
  <2>3. buffer[r][Half(g)] = Content(g, version)
    <3>1. g > 0 /\ Half(g) = g % 2
      BY <1>3, <2>1 DEF Half
    <3>2. buffer[r][g % 2] = Content(g, finished[r] + 1)
      BY <1>3, <3>1 DEF BufferInv
    <3>3. QED
      BY <1>4, <3>1, <3>2
  <2>4. LoadWeights(r, g, Content(g, version))
    BY <1>1, <1>6, <2>3
  <2> HIDE DEF g
  <2>5. QED
    BY <1>4, <2>1, <2>2, <2>4
<1>7. QED
  BY <1>5, <1>6

LEMMA LoaderModel ==
    ASSUME Inv, NEW r \in Ranks, Loader(r)
    PROVE  ModelInv'
<1> USE DEF Inv
<1>1. /\ NumSlots' = NumSlots /\ Parameters' = Parameters /\ NumSlots \in Nat /\ finished' = finished
      /\ \A p, k : Holds(p, k)' <=> Holds(p, k)
  BY Fixed, Kept DEF Plan, Loader
<1>2. ASSUME NEW q \in RolloutRanks, NEW p \in Parameters, NEW k \in 1 .. NumSlots, Holds(p, k)
      PROVE  model'[q][p] = IF k <= LoadedTo(q)' THEN finished[q] + 1 ELSE finished[q]
  <2>1. model[q][p] = IF k <= LoadedTo(q) THEN finished[q] + 1 ELSE finished[q]
    BY <1>2 DEF ModelInv
  <2>2. CASE q # r
    <3>1. model'[q] = model[q] /\ LoadedTo(q)' = LoadedTo(q)
      BY <2>2, Others, RanksAre DEF LoadedTo
    <3>2. QED
      BY <2>1, <3>1
  <2>3. CASE q = r /\ model' = model /\ LoadedTo(r)' = LoadedTo(r)
    BY <2>1, <2>3
  <2>4. ASSUME q = r, NEW g \in 1 .. NumSlots, LoadedTo(r) = g - 1, LoadedTo(r)' = g,
               LoadWeights(r, g, Content(g, version))
        PROVE  model'[q][p] = IF k <= LoadedTo(q)' THEN finished[q] + 1 ELSE finished[q]
    <3>1. model'[r] = [x \in Parameters |-> IF Holds(x, g) THEN version ELSE model[r][x]]
      BY <1>2, <2>4, LoadIs
    <3>2. Holds(p, g) => k = g
      BY <1>2, <2>4 DEF Plan
    <3>3. finished[r] + 1 = version
      BY LoaderIs
    <3>4. QED
      BY <1>2, <2>1, <2>4, <3>1, <3>2, <3>3
  <2>5. QED
    BY <2>2, <2>3, <2>4, LoaderIs
<1>3. QED
  BY <1>1, <1>2 DEF ModelInv

-----------------------------------------------------------------------------
(* Every step *)

LEMMA CallInv ==
    ASSUME Inv, CallSync
    PROVE  Inv'
<1> USE DEF Inv
<1>1. /\ UNCHANGED config /\ version' = version + 1 /\ net' = <<>> /\ version \in Nat
      /\ finished' = finished /\ pc' = pc /\ slot' = slot /\ memory' = memory /\ h2d' = h2d /\ buffer' = buffer
      /\ arrived' = arrived /\ request' = request /\ reply' = reply /\ model' = model
  BY DEF CallSync, socket, TypeInv
<1>2. /\ sizes' = sizes /\ overlap' = overlap /\ globalBuckets' = globalBuckets
      /\ Slots' = Slots /\ NumSlots' = NumSlots /\ Parameters' = Parameters
      /\ \A p, k : Holds(p, k)' <=> Holds(p, k)
  BY <1>1, Kept
<1>3. Plan'
  BY <1>1, PlanKept
<1>4. TypeInv'
  <2>1. Contents' = Contents
    BY <1>2 DEF Contents, Buckets
  <2>2. QED
    BY <1>1, <1>2, <2>1 DEF TypeInv
<1>5. PlaceInv' /\ SocketInv'
  BY <1>1, <1>2 DEF PlaceInv, SocketInv, Awaiting
<1>6. BarrierInv'
  BY <1>1, <1>2 DEF BarrierInv, Barriers, Passed
<1>7. OrderInv'
  BY CallOrder
<1>8. NetInv'
  <2>1. Len(net') = 0 /\ NumSlots \in Nat /\ 1 .. 0 = {}
    BY <1>1 DEF Plan
  <2>2. ASSUME NEW r \in Ranks, finished[r] = (version + 1) - 1 PROVE Taken(r)' <= 0
    <3>1. slot[r] = 0
      BY <1>1, <2>2, CallOrder
    <3>2. QED
      BY <1>1, <3>1 DEF Taken
  <2>3. QED
    BY <1>1, <1>2, <2>1, <2>2 DEF NetInv
<1>9. MemoryInv'
  BY <1>1, <1>2 DEF MemoryInv
<1>10. BufferInv'
  BY <1>1, <1>2 DEF BufferInv, Content, Metas
<1>11. ModelInv'
  BY <1>1, <1>2 DEF ModelInv, LoadedTo
<1>12. QED
  BY <1>3, <1>4, <1>5, <1>6, <1>7, <1>8, <1>9, <1>10, <1>11

LEMMA InvNext ==
    ASSUME Inv, [Next]_vars
    PROVE  Inv'
<1>1. CASE CallSync
  BY <1>1, CallInv
<1>2. ASSUME NEW r \in Ranks, Main(r) PROVE Inv'
  <2>1. Plan'
    BY <1>2, Fixed, PlanKept DEF Inv
  <2>2. QED
    BY <1>2, <2>1, TypeStep, PlaceStep, BarrierStep, OrderStep, NetStep, MemoryStep, BufferStep,
       ModelStep DEF Inv
<1>3. ASSUME NEW r \in Ranks, Loader(r) PROVE Inv'
  <2>1. Plan'
    BY <1>3, Fixed, PlanKept DEF Inv
  <2>2. QED
    BY <1>3, <2>1, LoaderType, LoaderPlace, LoaderBarrier, LoaderBuffer, LoaderModel DEF Inv
<1>4. CASE UNCHANGED vars
  <2>1. UNCHANGED config /\ UNCHANGED <<version, finished, pc, slot, memory, h2d, buffer, net, arrived, request, reply, model>>
    BY <1>4 DEF vars, socket
  <2>2. /\ sizes' = sizes /\ overlap' = overlap /\ globalBuckets' = globalBuckets
        /\ Slots' = Slots /\ NumSlots' = NumSlots /\ Parameters' = Parameters
        /\ \A p, k : Holds(p, k)' <=> Holds(p, k)
    BY <2>1, Kept
  <2>3. Plan'
    BY <2>1, PlanKept DEF Inv
  <2>4. TypeInv' /\ PlaceInv' /\ SocketInv' /\ BarrierInv' /\ OrderInv'
    <3>1. Contents' = Contents
      BY <2>2 DEF Contents, Buckets
    <3>2. TypeInv'
      BY <2>1, <2>2, <3>1 DEF Inv, TypeInv
    <3>3. PlaceInv' /\ SocketInv'
      BY <2>1, <2>2 DEF Inv, PlaceInv, SocketInv, Awaiting
    <3>4. BarrierInv' /\ OrderInv'
      BY <2>1, <2>2 DEF Inv, BarrierInv, Barriers, Passed, OrderInv
    <3>5. QED
      BY <3>2, <3>3, <3>4
  <2>5. NetInv' /\ MemoryInv' /\ BufferInv' /\ ModelInv'
    BY <2>1, <2>2 DEF Inv, NetInv, Taken, Content, Metas, MemoryInv, BufferInv, ModelInv, LoadedTo
  <2>6. QED
    BY <2>3, <2>4, <2>5 DEF Inv
<1>5. QED
  BY <1>1, <1>2, <1>3, <1>4 DEF Next, Terminated

LEMMA Invariant == Spec => []Inv
<1>1. QED
  BY InvInit, InvNext, PTL DEF Spec

\* The variables have their types. What the actor ranks send are buckets of
\* parameters with the version of the weights in them.
THEOREM TypeCorrect == Spec => []TypeInv
<1>1. Inv => TypeInv
  BY DEF Inv
<1>2. QED
  BY <1>1, Invariant, PTL

\* Whatever the sizes of the parameters, no bucket exceeds bucket_size: neither
\* h2d_buffer nor a half of broadcast_load_buffer is too small for one.
THEOREM NoBufferOverrun == Spec => []BucketsFit
<1>1. Inv => BucketsFit
  BY DEF Inv, Plan
<1>2. QED
  BY <1>1, Invariant, PTL

-----------------------------------------------------------------------------
(* The transfer in buckets is a weight transfer *)

LEMMA ParametersAre ==
    ASSUME Plan
    PROVE  DOMAIN sizes = Parameters /\ Parameters \subseteq Nat
  BY SizesType DEF Plan, Parameters

\* What the load of the next bucket is to the rest of the system.
LEMMA DeliverIs ==
    ASSUME Inv, NEW r \in RolloutRanks, NEW g \in 1 .. NumSlots, LoadedTo(r) = g - 1,
           finished[r] + 1 = version, LoadWeights(r, g, Content(g, version)),
           UNCHANGED config, version' = version
    PROVE  Transfer!Deliver(r)
<1> USE DEF Inv
<1>1. DOMAIN sizes = Parameters /\ sizes' = sizes
  BY ParametersAre, Kept
<1> DEFINE S == {p \in Parameters : Holds(p, g)}
<1>2. ASSUME NEW p \in S PROVE model[r][p] = version - 1
  <2>1. p \in Parameters /\ Holds(p, g)
    OBVIOUS
  <2>2. finished[r] \in Nat
    BY RanksAre DEF TypeInv
  <2>3. model[r][p] = IF g <= LoadedTo(r) THEN finished[r] + 1 ELSE finished[r]
    BY <2>1 DEF ModelInv
  <2>4. QED
    BY <2>2, <2>3
<1>3. model' = [model EXCEPT ![r] = [p \in DOMAIN sizes |-> IF p \in S THEN version ELSE model[r][p]]]
  <2> DEFINE new == [p \in Parameters |-> IF Holds(p, g) THEN version ELSE model[r][p]]
  <2>1. Loaded(model[r], Metas(Slots[g]), Content(g, version)) = new
    <3>1. model[r] \in [Parameters -> Int]
      BY DEF TypeInv
    <3>2. QED
      BY <3>1 DEF Loaded, Content, Holds, Has
  <2>2. model' = [model EXCEPT ![r] = new]
    BY <2>1 DEF LoadWeights
  <2>3. new = [p \in DOMAIN sizes |-> IF p \in S THEN version ELSE model[r][p]]
    BY <1>1
  <2>4. QED
    BY <2>2, <2>3
<1>4. S \in SUBSET {p \in DOMAIN sizes : model[r][p] = version - 1}
  BY <1>1, <1>2
<1> HIDE DEF S
<1>5. QED
  BY <1>1, <1>3, <1>4 DEF Transfer!Deliver

LEMMA BeginIs ==
    ASSUME Inv, CallSync
    PROVE  Transfer!Begin
<1> USE DEF Inv
<1>1. /\ version' = version + 1 /\ model' = model /\ sizes' = sizes /\ version \in Nat
      /\ \A r \in RolloutRanks : finished[r] = version
  BY Kept DEF CallSync, TypeInv
<1>2. ASSUME NEW r \in RolloutRanks, NEW p \in Parameters PROVE model[r][p] = version
  <2>1. PICK k \in 1 .. NumSlots : Holds(p, k)
    BY DEF Plan
  <2>2. slot[r] = 0
    BY <1>1, CallOrder, RanksAre
  <2>3. LoadedTo(r) = 0
    BY <2>2 DEF LoadedTo
  <2>4. model[r][p] = IF k <= LoadedTo(r) THEN finished[r] + 1 ELSE finished[r]
    BY <2>1 DEF ModelInv
  <2>5. k \in Nat /\ k # 0
    BY DEF Plan
  <2>6. QED
    BY <1>1, <2>3, <2>4, <2>5
<1>3. DOMAIN sizes = Parameters
  BY ParametersAre
<1>4. QED
  BY <1>1, <1>2, <1>3 DEF Transfer!Begin

LEMMA TransferStep ==
    ASSUME Inv, [Next]_vars
    PROVE  [Transfer!Next]_(Transfer!vars)
<1>1. CASE CallSync
  BY <1>1, BeginIs DEF Transfer!Next
<1>2. ASSUME NEW r \in Ranks, Main(r) PROVE [Transfer!Next]_(Transfer!vars)
  <2>1. UNCHANGED config /\ version' = version /\ sizes' = sizes
    BY <1>2, Fixed, Kept
  <2>2. CASE model' = model
    BY <2>1, <2>2 DEF Transfer!vars
  <2>3. CASE model' # model
    <3>1. Broadcast(r)
      BY <1>2, <2>3 DEF Main, Register, Begin, TakeReply, SendMetas, Drain, Join, Finish
    <3>2. ~ overlap
      BY <2>3, <3>1, BroadcastIs
    <3>3. /\ pc[r] = "broadcast" /\ slot[r] \in 1 .. NumSlots /\ finished[r] + 1 = version
          /\ LoadWeights(r, slot[r], Content(slot[r], version))
      BY <3>1, <3>2, BroadcastIs
    <3>4. r \in RolloutRanks
      BY <2>3, <3>3 DEF LoadWeights
    <3>5. LoadedTo(r) = slot[r] - 1
      BY <1>2, <3>2, <3>3, LoadedStep
    <3>6. Transfer!Deliver(r)
      BY <2>1, <3>3, <3>4, <3>5, DeliverIs
    <3>7. QED
      BY <3>4, <3>6 DEF Transfer!Next
  <2>4. QED
    BY <2>2, <2>3
<1>3. ASSUME NEW r \in Ranks, Loader(r) PROVE [Transfer!Next]_(Transfer!vars)
  <2>1. UNCHANGED config /\ version' = version /\ sizes' = sizes
    BY <1>3, Fixed, Kept
  <2>2. CASE model' = model
    BY <2>1, <2>2 DEF Transfer!vars
  <2>3. CASE model' # model
    <3>1. PICK g \in 1 .. NumSlots : LoadedTo(r) = g - 1 /\ LoadWeights(r, g, Content(g, version))
      BY <1>3, <2>3, LoaderIs
    <3>2. r \in RolloutRanks
      BY <2>3, <3>1 DEF LoadWeights
    <3>3. finished[r] + 1 = version
      BY <1>3, LoaderIs
    <3>4. Transfer!Deliver(r)
      BY <2>1, <3>1, <3>2, <3>3, DeliverIs
    <3>5. QED
      BY <3>2, <3>4 DEF Transfer!Next
  <2>4. QED
    BY <2>2, <2>3
<1>4. CASE UNCHANGED vars
  BY <1>4 DEF vars, config, Transfer!vars
<1>5. QED
  BY <1>1, <1>2, <1>3, <1>4 DEF Next, Terminated

\* Whatever the order of ranks and threads, with or without the loader thread,
\* a transfer in buckets is what the rest of the system takes it for: every
\* parameter of every rollout model goes from one version to the next, once,
\* before the synchronizer begins the next transfer.
THEOREM ImplementsWeightTransfer == Spec => ImplementsTransfer
<1>1. Init => Transfer!Init
  <2> SUFFICES ASSUME Init PROVE Transfer!Init
    OBVIOUS
  <2>1. DOMAIN sizes \subseteq Nat
    BY PlanInit, ParametersAre
  <2>2. QED
    BY <2>1 DEF Init, Transfer!Init
<1>2. Inv /\ [Next]_vars => [Transfer!Next]_(Transfer!vars)
  BY TransferStep
<1>3. QED
  BY <1>1, <1>2, Invariant, PTL DEF Spec, ImplementsTransfer, Transfer!Spec
=============================================================================

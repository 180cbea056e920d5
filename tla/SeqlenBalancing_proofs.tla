------------------------ MODULE SeqlenBalancing_proofs ------------------------
(***************************************************************************)
(* What the balancing algorithms return, for any number of rows of any     *)
(* length and any number of partitions: karmarkar_karp places every row    *)
(* once, leaves no partition empty, and with equal sizes leaves the loads  *)
(* no further apart than two rows are; the micro-batches made of it and    *)
(* the way back from them lose nothing.                                    *)
(*                                                                         *)
(* Loops and folds are reasoned about with Induct and Recursion: the least *)
(* number at which a claim fails, with a set of numbers for the claim.     *)
(***************************************************************************)
EXTENDS SeqlenBalancing, FiniteSetTheorems, WellFoundedInduction, TLAPS

-----------------------------------------------------------------------------
(* Induction and recursion over a bounded range *)

\* A set of natural numbers that is not empty has a least element.
LEMMA Least ==
    ASSUME NEW T \in SUBSET Nat, T # {}
    PROVE  \E m \in T : \A n \in T : m <= n
<1> DEFINE R == OpToRel(<, Nat)
<1>1. IsWellFoundedOn(R, Nat)
  BY NatLessThanWellFounded
<1>2. PICK m \in T : \A n \in T : <<n, m>> \notin R
  <2> HIDE DEF R
  <2>1. QED
    BY <1>1, WFMin
<1>3. ASSUME NEW n \in T PROVE m <= n
  <2>1. <<n, m>> \notin R
    BY <1>2
  <2>2. n \in Nat /\ m \in Nat
    OBVIOUS
  <2>3. n < m => <<n, m>> \in R
    BY <2>2 DEF OpToRel
  <2>4. ~ n < m
    <3> HIDE DEF R
    <3>1. QED
      BY <2>1, <2>3
  <2>5. QED
    BY <2>2, <2>4
<1>4. QED
  BY <1>3

\* A set that holds 0, and with n the next number up to N, holds all to N.
LEMMA Induct ==
    ASSUME NEW N \in Nat, NEW S, 0 \in S, \A n \in 0 .. N - 1 : n \in S => n + 1 \in S
    PROVE  \A n \in 0 .. N : n \in S
<1> SUFFICES ASSUME NEW n \in 0 .. N, n \notin S PROVE FALSE
  OBVIOUS
<1> DEFINE T == {k \in 0 .. N : k \notin S}
<1>1. T \in SUBSET Nat /\ T # {}
  OBVIOUS
<1>2. PICK m \in T : \A k \in T : m <= k
  <2> HIDE DEF T
  <2>1. QED
    BY <1>1, Least
<1>3. m \in 1 .. N /\ m \notin S
  BY <1>2
<1>4. m - 1 \in 0 .. N - 1 /\ (m - 1) + 1 = m /\ m - 1 \in S
  BY <1>2, <1>3
<1>5. QED
  BY <1>3, <1>4

\* There is a function that a first value and a step define.
Steps(N, V, v, step) == N \in Nat /\ v \in V /\ step \in [1 .. N -> [V -> V]]

\* A recursive definition over a range of numbers has a solution.
LEMMA Recursion ==
    ASSUME NEW N, NEW V, NEW v, NEW step, Steps(N, V, v, step)
    PROVE  \E f \in [0 .. N -> V] : f[0] = v /\ \A k \in 1 .. N : f[k] = step[k][f[k - 1]]
<1> USE DEF Steps
<1> DEFINE Good(f, n) == f[0] = v /\ \A k \in 1 .. n : f[k] = step[k][f[k - 1]]
           S == {n \in 0 .. N : \E f \in [0 .. n -> V] : Good(f, n)}
<1>1. 0 \in S
  <2>1. [k \in 0 .. 0 |-> v] \in [0 .. 0 -> V] /\ Good([k \in 0 .. 0 |-> v], 0)
    OBVIOUS
  <2> HIDE DEF Good
  <2>2. QED
    BY <2>1
<1>2. ASSUME NEW n \in 0 .. N - 1, n \in S PROVE n + 1 \in S
  <2>1. PICK f \in [0 .. n -> V] : Good(f, n)
    BY <1>2
  <2>2. PICK w \in V : w = step[n + 1][f[n]]
    <3>1. n + 1 \in 1 .. N /\ f[n] \in V
      OBVIOUS
    <3>2. QED
      BY <3>1
  <2> DEFINE g == [k \in 0 .. n + 1 |-> IF k = n + 1 THEN w ELSE f[k]]
  <2>3. g \in [0 .. n + 1 -> V]
    OBVIOUS
  <2>4. Good(g, n + 1)
    <3>1. g[n + 1] = w /\ \A k \in 0 .. n : g[k] = f[k]
      OBVIOUS
    <3> HIDE DEF g
    <3>2. g[0] = v
      <4>1. 0 \in 0 .. n
        OBVIOUS
      <4>2. QED
        BY <2>1, <3>1, <4>1
    <3>3. ASSUME NEW k \in 1 .. n + 1 PROVE g[k] = step[k][g[k - 1]]
      <4>1. CASE k = n + 1
        <5>1. k - 1 = n /\ n \in 0 .. n
          BY <4>1
        <5>2. QED
          BY <2>2, <3>1, <4>1, <5>1
      <4>2. CASE k # n + 1
        <5>1. k \in 1 .. n /\ k - 1 \in 0 .. n
          BY <4>2
        <5>2. g[k - 1] = f[k - 1] /\ g[k] = f[k]
          BY <3>1, <5>1
        <5>3. QED
          BY <2>1, <5>1, <5>2
      <4>3. QED
        BY <4>1, <4>2
    <3>4. QED
      BY <3>2, <3>3
  <2>5. n + 1 \in 0 .. N
    OBVIOUS
  <2> HIDE DEF g, Good
  <2>6. QED
    BY <2>3, <2>4, <2>5
<1>3. N \in S
  <2> HIDE DEF S
  <2>1. \A n \in 0 .. N : n \in S
    BY <1>1, <1>2, Induct
  <2>2. QED
    BY <2>1
<1>4. QED
  BY <1>3

-----------------------------------------------------------------------------
(* Sequences *)

\* Evaluated is the identity on sequences.
LEMMA EvaluatedIs ==
    ASSUME NEW s, NEW n \in Nat, s = [i \in 1 .. n |-> s[i]]
    PROVE  Evaluated(s) = s /\ Len(s) = n
<1> DEFINE T == {s[i] : i \in 1 .. n}
<1>1. s \in Seq(T)
  <2>1. \A i \in 1 .. n : s[i] \in T
    OBVIOUS
  <2>2. s \in [1 .. n -> T]
    BY <2>1
  <2> HIDE DEF T
  <2>3. QED
    BY <2>2
<1>2. Len(s) = n
  <2>1. DOMAIN s = 1 .. n
    OBVIOUS
  <2> HIDE DEF T
  <2>2. QED
    BY <1>1, <2>1
<1> HIDE DEF T
<1>3. SubSeq(s, 1, Len(s)) = s
  BY <1>1
<1>4. QED
  BY <1>2, <1>3 DEF Evaluated

-----------------------------------------------------------------------------
(* Orders *)

\* A relation that is a strict total order on S.
Orders(before, S) ==
    /\ \A x \in S : <<x, x>> \notin before
    /\ \A x, y, z \in S : <<x, y>> \in before /\ <<y, z>> \in before => <<x, z>> \in before
    /\ \A x, y \in S : x = y \/ <<x, y>> \in before \/ <<y, x>> \in before

\* Every element of S once, an earlier one before a later one.
Enumerates(s, S) ==
    /\ s = [i \in 1 .. Cardinality(S) |-> s[i]] /\ Len(s) = Cardinality(S)
    /\ \A i \in 1 .. Cardinality(S) : s[i] \in S
    /\ \A i, j \in 1 .. Cardinality(S) : s[i] = s[j] => i = j
    /\ \A x \in S : \E i \in 1 .. Cardinality(S) : s[i] = x

\* Ordered lists a finite set in the given strict order.
LEMMA OrderedIs ==
    ASSUME NEW S, IsFiniteSet(S), NEW before, Orders(before, S)
    PROVE  /\ Cardinality(S) \in Nat
           /\ Enumerates(Ordered(S, before), S)
           /\ \A i, j \in 1 .. Cardinality(S) :
                 i < j => <<Ordered(S, before)[i], Ordered(S, before)[j]>> \in before
<1> DEFINE n == Cardinality(S)
           Below(x) == {y \in S : <<y, x>> \in before}
           rank == [x \in S |-> Cardinality(Below(x)) + 1]
<1>1. n \in Nat
  BY FS_CardinalityType
<1>2. ASSUME NEW x \in S
      PROVE  /\ IsFiniteSet(Below(x)) /\ Cardinality(Below(x)) \in Nat
             /\ Cardinality(Below(x)) < n
  <2>1. Below(x) \in SUBSET S /\ x \notin Below(x)
    BY DEF Orders
  <2> HIDE DEF Below
  <2>2. IsFiniteSet(Below(x)) /\ Cardinality(Below(x)) <= n /\ (n = Cardinality(Below(x)) => S = Below(x))
    BY <2>1, FS_Subset
  <2>3. Cardinality(Below(x)) \in Nat
    BY <2>2, FS_CardinalityType
  <2>4. Cardinality(Below(x)) # n
    BY <2>1, <2>2
  <2>5. QED
    BY <1>1, <2>2, <2>3, <2>4
<1>3. ASSUME NEW x \in S, NEW y \in S, <<x, y>> \in before
      PROVE  Cardinality(Below(x)) < Cardinality(Below(y))
  <2>1. Below(x) \in SUBSET Below(y)
    BY <1>3 DEF Orders
  <2>2. x \in Below(y) /\ x \notin Below(x)
    BY <1>3 DEF Orders
  <2>3. IsFiniteSet(Below(y)) /\ Cardinality(Below(x)) \in Nat /\ Cardinality(Below(y)) \in Nat
    BY <1>2
  <2> HIDE DEF Below
  <2>4. Cardinality(Below(x)) <= Cardinality(Below(y))
        /\ (Cardinality(Below(y)) = Cardinality(Below(x)) => Below(y) = Below(x))
    BY <2>1, <2>3, FS_Subset
  <2>5. Cardinality(Below(x)) # Cardinality(Below(y))
    BY <2>2, <2>4
  <2>6. QED
    BY <2>3, <2>4, <2>5
<1>4. rank \in [S -> 1 .. n] /\ \A x \in S : rank[x] = Cardinality(Below(x)) + 1
  <2>1. ASSUME NEW x \in S PROVE Cardinality(Below(x)) + 1 \in 1 .. n
    <3> HIDE DEF Below
    <3>1. QED
      BY <1>1, <1>2
  <2> HIDE DEF Below
  <2>2. QED
    BY <2>1
<1>5. \A x, y \in S : <<x, y>> \in before => rank[x] < rank[y]
  <2>1. SUFFICES ASSUME NEW x \in S, NEW y \in S, <<x, y>> \in before PROVE rank[x] < rank[y]
    BY Zenon
  <2> HIDE DEF Below, rank
  <2>2. Cardinality(Below(x)) < Cardinality(Below(y)) /\ Cardinality(Below(x)) \in Nat /\ Cardinality(Below(y)) \in Nat
    BY <1>2, <1>3, <2>1
  <2>3. QED
    BY <1>4, <2>2
<1>6. \A x, y \in S : rank[x] = rank[y] => x = y
  <2>1. SUFFICES ASSUME NEW x \in S, NEW y \in S, rank[x] = rank[y], x # y PROVE FALSE
    BY Zenon
  <2> HIDE DEF Below, rank
  <2>2. <<x, y>> \in before \/ <<y, x>> \in before
    BY <2>1 DEF Orders
  <2>3. rank[x] < rank[y] \/ rank[y] < rank[x]
    BY <1>5, <2>2
  <2>4. rank[x] \in Int /\ rank[y] \in Int
    BY <1>1, <1>4
  <2>5. QED
    BY <2>1, <2>3, <2>4
<1>7. \A i \in 1 .. n : \E x \in S : rank[x] = i
  <2> HIDE DEF rank
  <2>1. rank \in Injection(S, 1 .. n)
    BY <1>4, <1>6 DEF Injection, IsInjective
  <2>2. IsFiniteSet(1 .. n) /\ Cardinality(1 .. n) = n
    BY <1>1, FS_Interval
  <2>3. rank \in Surjection(S, 1 .. n)
    BY <2>1, <2>2, FS_Injection
  <2>4. QED
    BY <2>3 DEF Surjection
<1> DEFINE Pick(i) == CHOOSE x \in S : Cardinality(Below(x)) = i - 1
           s == [i \in 1 .. n |-> Pick(i)]
<1>8. ASSUME NEW i \in 1 .. n PROVE Pick(i) \in S /\ rank[Pick(i)] = i
  <2>1. PICK x \in S : rank[x] = i
    BY <1>7
  <2>2. Cardinality(Below(x)) \in Nat /\ rank[x] = Cardinality(Below(x)) + 1
    <3> HIDE DEF Below, rank
    <3>1. QED
      BY <1>2, <1>4
  <2>3. Cardinality(Below(x)) = i - 1
    <3> HIDE DEF Below, rank
    <3>1. QED
      BY <1>1, <2>1, <2>2
  <2>4. Pick(i) \in S /\ Cardinality(Below(Pick(i))) = i - 1
    <3> HIDE DEF Below, rank
    <3>1. QED
      BY <2>3
  <2>5. rank[Pick(i)] = Cardinality(Below(Pick(i))) + 1
    <3> HIDE DEF Below, rank, Pick
    <3>1. QED
      BY <1>4, <2>4
  <2> HIDE DEF Below, rank, Pick
  <2>6. QED
    BY <1>1, <2>4, <2>5
<1>9. Ordered(S, before) = s /\ Len(s) = n
  <2>1. s = [i \in 1 .. n |-> s[i]]
    <3> HIDE DEF Pick
    <3>1. QED
      OBVIOUS
  <2>2. Ordered(S, before) = Evaluated(s)
    BY DEF Ordered
  <2> HIDE DEF s
  <2>3. QED
    BY <1>1, <2>1, <2>2, EvaluatedIs
<1>10. s = [i \in 1 .. n |-> s[i]] /\ \A i \in 1 .. n : s[i] \in S /\ rank[s[i]] = i
  <2> HIDE DEF Pick, rank
  <2>1. QED
    BY <1>8
<1> HIDE DEF s, rank, Below, Pick
<1>11. \A i, j \in 1 .. n : s[i] = s[j] => i = j
  BY <1>10
<1>12. ASSUME NEW x \in S PROVE \E i \in 1 .. n : s[i] = x
  <2>1. rank[x] \in 1 .. n
    BY <1>4
  <2>2. s[rank[x]] \in S /\ rank[s[rank[x]]] = rank[x]
    BY <1>10, <2>1
  <2>3. QED
    BY <1>6, <2>1, <2>2
<1>13. ASSUME NEW i \in 1 .. n, NEW j \in 1 .. n, i < j PROVE <<s[i], s[j]>> \in before
  <2>1. s[i] \in S /\ s[j] \in S /\ rank[s[i]] = i /\ rank[s[j]] = j
    BY <1>10
  <2>2. i \in Int /\ j \in Int /\ ~ j < i /\ i # j
    BY <1>1, <1>13
  <2>3. <<s[j], s[i]>> \notin before
    BY <1>5, <2>1, <2>2
  <2>4. s[i] # s[j]
    BY <2>1, <2>2
  <2>5. QED
    BY <2>1, <2>3, <2>4 DEF Orders
<1>14. QED
  BY <1>1, <1>9, <1>10, <1>11, <1>12, <1>13 DEF Enumerates, n

\* The order of Ascending is a strict and total one.
LEMMA AscendingOrders ==
    ASSUME NEW S \in SUBSET Int
    PROVE  Orders({e \in S \X S : e[1] < e[2]}, S)
BY DEF Orders

\* So is the order by key and number of AscendingBy.
LEMMA AscendingByOrders ==
    ASSUME NEW S \in SUBSET Int, NEW keys, \A x \in S : keys[x] \in Int
    PROVE  Orders({e \in S \X S : \/ keys[e[1]] < keys[e[2]]
                                  \/ keys[e[1]] = keys[e[2]] /\ e[1] < e[2]}, S)
BY DEF Orders

\* Ascending lists a finite set of numbers from the least to the greatest.
LEMMA AscendingIs ==
    ASSUME NEW S \in SUBSET Int, IsFiniteSet(S)
    PROVE  /\ Cardinality(S) \in Nat /\ Enumerates(Ascending(S), S)
           /\ \A i, j \in 1 .. Cardinality(S) : i < j => Ascending(S)[i] < Ascending(S)[j]
<1> DEFINE R == {e \in S \X S : e[1] < e[2]}
<1>1. Orders(R, S)
  BY AscendingOrders
<1>2. \A e \in R : e[1] < e[2]
  OBVIOUS
<1>3. Ascending(S) = Ordered(S, R)
  BY DEF Ascending
<1> HIDE DEF R
<1>4. QED
  <2>1. /\ Cardinality(S) \in Nat /\ Enumerates(Ordered(S, R), S)
        /\ \A i, j \in 1 .. Cardinality(S) : i < j => <<Ordered(S, R)[i], Ordered(S, R)[j]>> \in R
    BY <1>1, OrderedIs
  <2>2. QED
    BY <1>2, <1>3, <2>1

\* AscendingBy lists it by key.
LEMMA AscendingByIs ==
    ASSUME NEW S \in SUBSET Int, IsFiniteSet(S), NEW keys, \A x \in S : keys[x] \in Int
    PROVE  /\ Cardinality(S) \in Nat /\ Enumerates(AscendingBy(S, keys), S)
           /\ \A i, j \in 1 .. Cardinality(S) :
                 i < j => keys[AscendingBy(S, keys)[i]] <= keys[AscendingBy(S, keys)[j]]
<1> DEFINE R == {e \in S \X S : \/ keys[e[1]] < keys[e[2]]
                                \/ keys[e[1]] = keys[e[2]] /\ e[1] < e[2]}
<1>1. Orders(R, S)
  BY AscendingByOrders
<1>2. \A e \in R : keys[e[1]] <= keys[e[2]]
  <2>1. SUFFICES ASSUME NEW x \in S, NEW y \in S, keys[x] < keys[y] \/ keys[x] = keys[y]
                 PROVE  keys[x] <= keys[y]
    OBVIOUS
  <2>2. QED
    BY <2>1
<1>3. AscendingBy(S, keys) = Ordered(S, R)
  BY DEF AscendingBy
<1> HIDE DEF R
<1>4. QED
  <2>1. /\ Cardinality(S) \in Nat /\ Enumerates(Ordered(S, R), S)
        /\ \A i, j \in 1 .. Cardinality(S) : i < j => <<Ordered(S, R)[i], Ordered(S, R)[j]>> \in R
    BY <1>1, OrderedIs
  <2>2. QED
    BY <1>2, <1>3, <2>1

-----------------------------------------------------------------------------
(* Sums *)

\* What the recursion in Total computes.
LEMMA TotalIs ==
    ASSUME NEW n \in Nat, NEW s \in [1 .. n -> Int]
    PROVE  \E f \in [0 .. n -> Int] :
               /\ f[0] = 0 /\ \A k \in 1 .. n : f[k] = f[k - 1] + s[k]
               /\ Total(s) = f[n]
<1> DEFINE Good(f) == f = [i \in 0 .. n |-> IF i = 0 THEN 0 ELSE f[i - 1] + s[i]]
           step == [k \in 1 .. n |-> [x \in Int |-> x + s[k]]]
<1>1. step \in [1 .. n -> [Int -> Int]] /\ \A k \in 1 .. n, x \in Int : step[k][x] = x + s[k]
  OBVIOUS
<1>2. Len(s) = n
  OBVIOUS
<1> HIDE DEF step
<1>3. PICK g \in [0 .. n -> Int] : g[0] = 0 /\ \A k \in 1 .. n : g[k] = step[k][g[k - 1]]
  <2>1. Steps(n, Int, 0, step)
    BY <1>1 DEF Steps
  <2>2. QED
    BY <2>1, Recursion
<1>4. Good(g)
  <2>1. ASSUME NEW k \in 0 .. n PROVE g[k] = IF k = 0 THEN 0 ELSE g[k - 1] + s[k]
    <3>1. CASE k = 0
      BY <1>3, <3>1
    <3>2. CASE k # 0
      <4>1. k \in 1 .. n /\ k - 1 \in 0 .. n
        BY <3>2
      <4>2. g[k - 1] \in Int
        BY <4>1
      <4>3. QED
        BY <1>1, <1>3, <3>2, <4>1, <4>2
    <3>3. QED
      BY <3>1, <3>2
  <2>2. QED
    BY <2>1
<1> DEFINE f == CHOOSE h : Good(h)
<1>5. Total(s) = f[n]
  BY <1>2 DEF Total
<1>6. Good(f)
  <2> HIDE DEF Good
  <2>1. QED
    BY <1>4
<1> HIDE DEF f
<1>7. f[0] = 0 /\ \A k \in 1 .. n : f[k] = f[k - 1] + s[k]
  BY <1>6
<1>8. \A k \in 0 .. n : f[k] \in Int
  <2> DEFINE S == {k \in 0 .. n : f[k] \in Int}
  <2>1. 0 \in S
    BY <1>7
  <2>2. ASSUME NEW k \in 0 .. n - 1, k \in S PROVE k + 1 \in S
    <3>1. k + 1 \in 1 .. n /\ (k + 1) - 1 = k /\ f[k] \in Int /\ k + 1 \in 0 .. n
      BY <2>2
    <3>2. f[k + 1] = f[k] + s[k + 1]
      BY <1>7, <3>1
    <3>3. QED
      BY <3>1, <3>2
  <2> HIDE DEF S
  <2>3. \A k \in 0 .. n : k \in S
    BY <2>1, <2>2, Induct
  <2>4. QED
    BY <2>3 DEF S
<1>9. f \in [0 .. n -> Int]
  BY <1>6, <1>8
<1> HIDE DEF Good
<1>10. QED
  BY <1>5, <1>7, <1>9

\* The sums of a sequence, as far as n.
Sums(f, s, n) == \A k \in 1 .. n : f[k] = f[k - 1] + s[k]

\* Two running sums of the same sequence agree.
LEMMA SumsAgree ==
    ASSUME NEW n \in Nat, NEW f, NEW g, NEW s, f[0] = g[0], Sums(f, s, n), Sums(g, s, n)
    PROVE  f[n] = g[n]
<1> DEFINE S == {k \in 0 .. n : f[k] = g[k]}
<1>1. 0 \in S
  OBVIOUS
<1>2. ASSUME NEW k \in 0 .. n - 1, k \in S PROVE k + 1 \in S
  <2>1. k + 1 \in 1 .. n /\ (k + 1) - 1 = k /\ f[k] = g[k] /\ k + 1 \in 0 .. n
    BY <1>2
  <2>2. f[k + 1] = f[k] + s[k + 1] /\ g[k + 1] = g[k] + s[k + 1]
    BY <2>1 DEF Sums
  <2>3. QED
    BY <2>1, <2>2
<1> HIDE DEF S
<1>3. \A k \in 0 .. n : k \in S
  BY <1>1, <1>2, Induct
<1>4. QED
  BY <1>3 DEF S

Adds(u, s, t, n) == \A k \in 1 .. n : u[k] = s[k] + t[k]

\* The total of a sum by places is the sum of the totals.
LEMMA TotalAdds ==
    ASSUME NEW n \in Nat, NEW s \in [1 .. n -> Int], NEW t \in [1 .. n -> Int], NEW u \in [1 .. n -> Int],
           Adds(u, s, t, n)
    PROVE  Total(u) = Total(s) + Total(t)
<1>1. PICK f \in [0 .. n -> Int] :
         f[0] = 0 /\ (\A k \in 1 .. n : f[k] = f[k - 1] + s[k]) /\ Total(s) = f[n]
  BY TotalIs
<1>2. PICK g \in [0 .. n -> Int] :
         g[0] = 0 /\ (\A k \in 1 .. n : g[k] = g[k - 1] + t[k]) /\ Total(t) = g[n]
  BY TotalIs
<1>3. PICK h \in [0 .. n -> Int] :
         h[0] = 0 /\ (\A k \in 1 .. n : h[k] = h[k - 1] + u[k]) /\ Total(u) = h[n]
  BY TotalIs
<1> DEFINE e == [k \in 0 .. n |-> f[k] + g[k]]
<1>4. e[0] = h[0] /\ e[n] = f[n] + g[n]
  BY <1>1, <1>2, <1>3
<1>5. ASSUME NEW k \in 1 .. n PROVE e[k] = e[k - 1] + u[k]
  <2>1. k - 1 \in 0 .. n /\ k \in 0 .. n
    OBVIOUS
  <2>2. e[k] = f[k] + g[k] /\ e[k - 1] = f[k - 1] + g[k - 1]
    BY <2>1
  <2>3. f[k - 1] \in Int /\ g[k - 1] \in Int /\ s[k] \in Int /\ t[k] \in Int
    BY <2>1
  <2> HIDE DEF e
  <2>4. u[k] = s[k] + t[k]
    BY DEF Adds
  <2>5. f[k] = f[k - 1] + s[k] /\ g[k] = g[k - 1] + t[k]
    BY <1>1, <1>2
  <2>6. QED
    BY <2>2, <2>3, <2>4, <2>5
<1> HIDE DEF e
<1>6. e[n] = h[n]
  <2>1. Sums(e, u, n)
    BY <1>5 DEF Sums
  <2>2. Sums(h, u, n)
    BY <1>3 DEF Sums
  <2>3. QED
    BY <1>4, <2>1, <2>2, SumsAgree
<1>7. QED
  BY <1>1, <1>2, <1>3, <1>4, <1>6

\* No total of numbers that are not negative is negative.
LEMMA TotalBounds ==
    ASSUME NEW n \in Nat, NEW s \in [1 .. n -> Int], \A k \in 1 .. n : s[k] >= 0
    PROVE  Total(s) \in Nat
<1>1. PICK f \in [0 .. n -> Int] :
         f[0] = 0 /\ (\A k \in 1 .. n : f[k] = f[k - 1] + s[k]) /\ Total(s) = f[n]
  BY TotalIs
<1> DEFINE S == {k \in 0 .. n : f[k] >= 0}
<1>2. 0 \in S
  BY <1>1
<1>3. ASSUME NEW k \in 0 .. n - 1, k \in S PROVE k + 1 \in S
  <2>1. k + 1 \in 1 .. n /\ (k + 1) - 1 = k /\ f[k] >= 0 /\ k + 1 \in 0 .. n /\ f[k] \in Int
    BY <1>3
  <2>2. f[k + 1] = f[k] + s[k + 1] /\ s[k + 1] \in Int /\ s[k + 1] >= 0
    BY <1>1, <2>1
  <2>3. f[k + 1] >= 0
    BY <2>1, <2>2
  <2>4. QED
    BY <2>1, <2>3
<1>4. n \in S
  <2> HIDE DEF S
  <2>1. \A k \in 0 .. n : k \in S
    BY <1>2, <1>3, Induct
  <2>2. QED
    BY <2>1
<1>5. QED
  BY <1>1, <1>4

\* A sum with a single term.
LEMMA TotalOfOne ==
    ASSUME NEW n \in Nat, NEW s \in [1 .. n -> Int], NEW x \in 1 .. n, \A k \in 1 .. n : k # x => s[k] = 0
    PROVE  Total(s) = s[x]
<1>1. PICK f \in [0 .. n -> Int] :
         f[0] = 0 /\ (\A k \in 1 .. n : f[k] = f[k - 1] + s[k]) /\ Total(s) = f[n]
  BY TotalIs
<1> DEFINE S == {k \in 0 .. n : f[k] = IF k < x THEN 0 ELSE s[x]}
<1>2. 0 \in S
  BY <1>1
<1>3. ASSUME NEW k \in 0 .. n - 1, k \in S PROVE k + 1 \in S
  <2>1. k + 1 \in 1 .. n /\ (k + 1) - 1 = k /\ k + 1 \in 0 .. n /\ f[k] \in Int
        /\ f[k] = IF k < x THEN 0 ELSE s[x]
    BY <1>3
  <2>2. f[k + 1] = f[k] + s[k + 1] /\ s[k + 1] \in Int
    BY <1>1, <2>1
  <2>3. f[k + 1] = IF k + 1 < x THEN 0 ELSE s[x]
    <3>1. CASE k + 1 = x
      <4>1. f[k] = 0
        BY <2>1, <3>1
      <4>2. f[k + 1] = s[x]
        BY <2>2, <3>1, <4>1
      <4>3. QED
        BY <3>1, <4>2
    <3>2. CASE k + 1 # x
      <4>1. s[k + 1] = 0
        BY <2>1, <3>2
      <4>2. QED
        BY <2>1, <2>2, <3>2, <4>1
    <3>3. QED
      BY <3>1, <3>2
  <2>4. QED
    BY <2>1, <2>3
<1>4. n \in S
  <2> HIDE DEF S
  <2>1. \A k \in 0 .. n : k \in S
    BY <1>2, <1>3, Induct
  <2>2. QED
    BY <2>1
<1>5. QED
  BY <1>1, <1>4

\* The weights of the items, and 0 for the others.
Chosen(items, weights, n) == [i \in 1 .. n |-> IF i \in items THEN weights[i] ELSE 0]

\* TotalOf is the total of the weights with zero outside of the items.
LEMMA TotalOfIs ==
    ASSUME NEW n \in Nat, NEW weights \in [1 .. n -> Int], NEW items
    PROVE  /\ TotalOf(items, weights) = Total(Chosen(items, weights, n))
           /\ Chosen(items, weights, n) \in [1 .. n -> Int]
           /\ TotalOf(items, weights) \in Int
<1> DEFINE s == Chosen(items, weights, n)
<1>1. Len(weights) = n /\ s \in [1 .. n -> Int]
  BY DEF Chosen
<1>2. TotalOf(items, weights) = Total(s)
  BY <1>1 DEF TotalOf, Chosen
<1> HIDE DEF s
<1>3. PICK f \in [0 .. n -> Int] : Total(s) = f[n]
  BY <1>1, TotalIs
<1>4. QED
  BY <1>1, <1>2, <1>3 DEF s

\* The weights of disjoint sets add up.
LEMMA TotalOfUnion ==
    ASSUME NEW n \in Nat, NEW weights \in [1 .. n -> Int], NEW A, NEW B, A \cap B = {}
    PROVE  TotalOf(A \cup B, weights) = TotalOf(A, weights) + TotalOf(B, weights)
<1> DEFINE a == Chosen(A, weights, n)
           b == Chosen(B, weights, n)
           c == Chosen(A \cup B, weights, n)
<1>1. Adds(c, a, b, n)
  <2>1. ASSUME NEW i \in 1 .. n PROVE c[i] = a[i] + b[i]
    <3>0. weights[i] \in Int
      OBVIOUS
    <3>1. CASE i \in A
      BY <3>0, <3>1 DEF Chosen
    <3>2. CASE i \in B
      BY <3>0, <3>2 DEF Chosen
    <3>3. CASE i \notin A /\ i \notin B
      BY <3>3 DEF Chosen
    <3>4. QED
      BY <3>1, <3>2, <3>3
  <2> HIDE DEF a, b, c
  <2>2. QED
    BY <2>1 DEF Adds
<1>2. /\ a \in [1 .. n -> Int] /\ b \in [1 .. n -> Int] /\ c \in [1 .. n -> Int]
      /\ TotalOf(A, weights) = Total(a) /\ TotalOf(B, weights) = Total(b)
      /\ TotalOf(A \cup B, weights) = Total(c)
  <2> HIDE DEF a, b, c
  <2>1. a \in [1 .. n -> Int] /\ TotalOf(A, weights) = Total(a)
    BY TotalOfIs DEF a
  <2>2. b \in [1 .. n -> Int] /\ TotalOf(B, weights) = Total(b)
    BY TotalOfIs DEF b
  <2>3. c \in [1 .. n -> Int] /\ TotalOf(A \cup B, weights) = Total(c)
    BY TotalOfIs DEF c
  <2>4. QED
    BY <2>1, <2>2, <2>3
<1> HIDE DEF a, b, c
<1>3. Total(c) = Total(a) + Total(b)
  BY <1>1, <1>2, TotalAdds
<1>4. QED
  BY <1>2, <1>3

\* The weight of a single item.
LEMMA TotalOfSingle ==
    ASSUME NEW n \in Nat, NEW weights \in [1 .. n -> Int], NEW x \in 1 .. n
    PROVE  TotalOf({x}, weights) = weights[x]
<1> DEFINE s == Chosen({x}, weights, n)
<1>1. s[x] = weights[x] /\ \A k \in 1 .. n : k # x => s[k] = 0
  BY DEF Chosen
<1>2. TotalOf({x}, weights) = Total(s) /\ s \in [1 .. n -> Int]
  BY TotalOfIs
<1> HIDE DEF s
<1>3. QED
  BY <1>1, <1>2, TotalOfOne

\* The weight of no item.
LEMMA TotalOfEmpty ==
    ASSUME NEW n \in Nat, NEW weights \in [1 .. n -> Int]
    PROVE  TotalOf({}, weights) = 0
<1>1. TotalOf({}, weights) \in Int
  BY TotalOfIs
<1>2. TotalOf({} \cup {}, weights) = TotalOf({}, weights) + TotalOf({}, weights)
  BY TotalOfUnion
<1>3. {} \cup {} = {}
  OBVIOUS
<1>4. QED
  BY <1>1, <1>2, <1>3

\* With positive weights, the sum over some items is positive.
LEMMA TotalOfPositive ==
    ASSUME NEW n \in Nat, NEW weights \in [1 .. n -> Int], \A i \in 1 .. n : weights[i] > 0,
           NEW items \in SUBSET (1 .. n)
    PROVE  TotalOf(items, weights) \in Nat /\ (items # {} => TotalOf(items, weights) > 0)
<1>1. ASSUME NEW S PROVE TotalOf(S, weights) \in Nat
  <2> DEFINE s == Chosen(S, weights, n)
  <2>1. \A k \in 1 .. n : s[k] >= 0
    BY DEF Chosen
  <2>2. TotalOf(S, weights) = Total(s) /\ s \in [1 .. n -> Int]
    BY TotalOfIs
  <2> HIDE DEF s
  <2>3. QED
    BY <2>1, <2>2, TotalBounds
<1>2. ASSUME NEW x \in items PROVE TotalOf(items, weights) > 0
  <2>1. {x} \cap (items \ {x}) = {} /\ {x} \cup (items \ {x}) = items /\ x \in 1 .. n
    OBVIOUS
  <2>2. TotalOf(items, weights) = TotalOf({x}, weights) + TotalOf(items \ {x}, weights)
    <3>1. TotalOf({x} \cup (items \ {x}), weights) = TotalOf({x}, weights) + TotalOf(items \ {x}, weights)
      BY <2>1, TotalOfUnion
    <3>2. QED
      BY <2>1, <3>1
  <2>3. TotalOf({x}, weights) = weights[x]
    BY <2>1, TotalOfSingle
  <2>4. TotalOf(items \ {x}, weights) \in Nat /\ weights[x] \in Int /\ weights[x] > 0
    BY <1>1, <2>1
  <2>5. QED
    BY <2>2, <2>3, <2>4
<1>3. QED
  BY <1>1, <1>2

\* The sum over the elements of a sequence without repetitions.
LEMMA TotalOfRange ==
    ASSUME NEW n \in Nat, NEW weights \in [1 .. n -> Int],
           NEW m \in Nat, NEW p \in [1 .. m -> 1 .. n], \A i, j \in 1 .. m : p[i] = p[j] => i = j
    PROVE  Total([i \in 1 .. m |-> weights[p[i]]]) = TotalOf({p[i] : i \in 1 .. m}, weights)
<1> DEFINE s == [i \in 1 .. m |-> weights[p[i]]]
           g == [k \in 0 .. m |-> TotalOf({p[i] : i \in 1 .. k}, weights)]
<1>1. s \in [1 .. m -> Int] /\ \A k \in 1 .. m : s[k] = weights[p[k]]
  OBVIOUS
<1>2. g[0] = 0
  <2>1. {p[i] : i \in 1 .. 0} = {}
    OBVIOUS
  <2>2. g[0] = TotalOf({}, weights)
    <3>1. 0 \in 0 .. m
      OBVIOUS
    <3>2. g[0] = TotalOf({p[i] : i \in 1 .. 0}, weights)
      BY <3>1
    <3> HIDE DEF g
    <3>3. QED
      BY <2>1, <3>2
  <2>3. QED
    BY <2>2, TotalOfEmpty
<1>3. ASSUME NEW k \in 1 .. m PROVE g[k] = g[k - 1] + s[k]
  <2> DEFINE A == {p[i] : i \in 1 .. k - 1}
  <2>1. {p[i] : i \in 1 .. k} = A \cup {p[k]} /\ A \cap {p[k]} = {}
    <3>1. \A i \in 1 .. k : i \in 1 .. k - 1 \/ i = k
      OBVIOUS
    <3>2. \A i \in 1 .. k - 1 : i \in 1 .. m /\ i # k /\ i \in 1 .. k
      OBVIOUS
    <3>3. QED
      BY <3>1, <3>2
  <2>2. g[k] = TotalOf(A \cup {p[k]}, weights)
    <3>1. k \in 0 .. m
      OBVIOUS
    <3>2. g[k] = TotalOf({p[i] : i \in 1 .. k}, weights)
      BY <3>1
    <3> HIDE DEF A, g
    <3>3. QED
      BY <2>1, <3>2
  <2>3. g[k - 1] = TotalOf(A, weights)
    <3>1. k - 1 \in 0 .. m
      OBVIOUS
    <3>2. QED
      BY <3>1
  <2> HIDE DEF A, g, s
  <2>4. TotalOf(A \cup {p[k]}, weights) = TotalOf(A, weights) + TotalOf({p[k]}, weights)
    BY <2>1, TotalOfUnion
  <2>5. TotalOf({p[k]}, weights) = weights[p[k]]
    <3>1. p[k] \in 1 .. n
      OBVIOUS
    <3>2. QED
      BY <3>1, TotalOfSingle
  <2>6. QED
    BY <1>1, <2>2, <2>3, <2>4, <2>5
<1>4. g[m] = TotalOf({p[i] : i \in 1 .. m}, weights)
  OBVIOUS
<1> HIDE DEF s, g
<1>5. PICK f \in [0 .. m -> Int] :
         f[0] = 0 /\ (\A k \in 1 .. m : f[k] = f[k - 1] + s[k]) /\ Total(s) = f[m]
  BY <1>1, TotalIs
<1>6. f[m] = g[m]
  <2>1. f[0] = g[0]
    BY <1>2, <1>5
  <2>2. Sums(f, s, m) /\ Sums(g, s, m)
    BY <1>3, <1>5 DEF Sums
  <2>3. QED
    BY <2>1, <2>2, SumsAgree
<1>7. QED
  BY <1>4, <1>5, <1>6 DEF s

-----------------------------------------------------------------------------
(* Flattening *)

\* A function on a range of numbers from 1 is a sequence.
LEMMA FunctionIsSeq ==
    ASSUME NEW T, NEW m \in Nat, NEW s \in [1 .. m -> T]
    PROVE  s \in Seq(T) /\ Len(s) = m /\ DOMAIN s = 1 .. m
<1>1. s \in Seq(T)
  OBVIOUS
<1>2. DOMAIN s = 1 .. m
  OBVIOUS
<1>3. QED
  BY <1>1, <1>2

\* What two concatenated sequences hold.
LEMMA ConcatIs ==
    ASSUME NEW T, NEW a \in Seq(T), NEW b \in Seq(T)
    PROVE  /\ a \o b \in Seq(T) /\ Len(a) \in Nat /\ Len(b) \in Nat /\ Len(a \o b) = Len(a) + Len(b)
           /\ \A i \in 1 .. Len(a) : (a \o b)[i] = a[i]
           /\ \A i \in 1 .. Len(b) : (a \o b)[Len(a) + i] = b[i]
OBVIOUS

\* A sequence is a function on the range of its length.
LEMMA SeqIsFunction ==
    ASSUME NEW T, NEW s \in Seq(T)
    PROVE  /\ Len(s) \in Nat /\ s = [i \in 1 .. Len(s) |-> s[i]] /\ \A i \in 1 .. Len(s) : s[i] \in T
           /\ DOMAIN s = 1 .. Len(s)
OBVIOUS

\* The parts so far, one after the other.
Joins(f, parts, n) == f[0] = <<>> /\ \A k \in 1 .. n : f[k] = f[k - 1] \o parts[k]

\* FlattenSeq is the last of the concatenations of the first parts.
LEMMA JoinsExist ==
    ASSUME NEW T, NEW n \in Nat \ {0}, NEW parts \in [1 .. n -> Seq(T)]
    PROVE  \E f \in [0 .. n -> Seq(T)] : Joins(f, parts, n) /\ FlattenSeq(parts) = f[n]
<1> DEFINE Good(f) == f = [i \in 1 .. n |-> IF i = 1 THEN parts[i] ELSE f[i - 1] \o parts[i]]
           step == [k \in 1 .. n |-> [x \in Seq(T) |-> x \o parts[k]]]
<1>1. step \in [1 .. n -> [Seq(T) -> Seq(T)]] /\ \A k \in 1 .. n, x \in Seq(T) : step[k][x] = x \o parts[k]
  OBVIOUS
<1>2. Len(parts) = n
  OBVIOUS
<1> HIDE DEF step
<1>3. PICK g \in [0 .. n -> Seq(T)] : g[0] = <<>> /\ \A k \in 1 .. n : g[k] = step[k][g[k - 1]]
  <2>1. n \in Nat /\ <<>> \in Seq(T)
    OBVIOUS
  <2>2. Steps(n, Seq(T), <<>>, step)
    BY <1>1, <2>1, Zenon DEF Steps
  <2>3. QED
    BY <2>2, Recursion
<1>4. ASSUME NEW k \in 1 .. n PROVE g[k - 1] \in Seq(T) /\ parts[k] \in Seq(T) /\ g[k] = g[k - 1] \o parts[k]
  <2>1. k - 1 \in 0 .. n
    OBVIOUS
  <2>2. g[k - 1] \in Seq(T)
    BY <2>1
  <2>3. QED
    BY <1>1, <1>3, <2>2
<1>5. Joins(g, parts, n)
  BY <1>3, <1>4 DEF Joins
<1>6. g[1] = parts[1] /\ 1 \in 1 .. n
  <2>1. 1 \in 1 .. n /\ 1 - 1 = 0
    OBVIOUS
  <2>2. parts[1] \in Seq(T) /\ g[1] = g[1 - 1] \o parts[1]
    BY <1>4, <2>1, Zenon
  <2>3. g[1] = <<>> \o parts[1]
    BY <1>3, <2>1, <2>2, Zenon
  <2>4. <<>> \o parts[1] = parts[1]
    BY <2>2
  <2>5. QED
    BY <2>1, <2>3, <2>4, Zenon
<1> DEFINE h == [i \in 1 .. n |-> g[i]]
<1>7. Good(h)
  <2>1. ASSUME NEW i \in 1 .. n PROVE g[i] = IF i = 1 THEN parts[i] ELSE h[i - 1] \o parts[i]
    <3>1. CASE i = 1
      BY <1>6, <3>1
    <3>2. CASE i # 1
      <4>1. i - 1 \in 1 .. n
        BY <3>2
      <4>2. h[i - 1] = g[i - 1]
        BY <4>1
      <4> HIDE DEF h
      <4>3. QED
        BY <1>4, <3>2, <4>2
    <3>3. QED
      BY <3>1, <3>2
  <2>2. QED
    BY <2>1, Zenon
<1> DEFINE f == CHOOSE x : Good(x)
<1>8. FlattenSeq(parts) = f[n]
  BY <1>2 DEF FlattenSeq
<1>9. Good(f)
  <2> HIDE DEF Good
  <2>1. QED
    BY <1>7
<1>10. f[n] = g[n]
  <2>1. \A i \in 1 .. n : f[i] = IF i = 1 THEN parts[i] ELSE f[i - 1] \o parts[i]
    <3> HIDE DEF f
    <3>1. QED
      BY <1>9
  <2> HIDE DEF f, h, Good
  <2> DEFINE S == {i \in 0 .. n : i = 0 \/ f[i] = g[i]}
  <2>2. 0 \in S
    OBVIOUS
  <2>3. ASSUME NEW i \in 0 .. n - 1, i \in S PROVE i + 1 \in S
    <3>1. i + 1 \in 1 .. n /\ (i + 1) - 1 = i /\ i + 1 \in 0 .. n
      OBVIOUS
    <3>2. CASE i = 0
      <4>1. f[1] = parts[1]
        BY <1>6, <2>1
      <4>2. QED
        BY <1>6, <3>1, <3>2, <4>1
    <3>3. CASE i # 0
      <4>1. f[i] = g[i] /\ i + 1 # 1
        BY <2>3, <3>3
      <4>2. f[i + 1] = f[i] \o parts[i + 1]
        BY <2>1, <3>1, <4>1
      <4>3. g[i + 1] = g[i] \o parts[i + 1]
        BY <1>4, <3>1
      <4>4. QED
        BY <3>1, <4>1, <4>2, <4>3
    <3>4. QED
      BY <3>2, <3>3
  <2>4. n \in S
    <3> HIDE DEF S
    <3>1. \A i \in 0 .. n : i \in S
      BY <2>2, <2>3, Induct
    <3>2. QED
      BY <3>1
  <2>5. QED
    BY <2>4
<1> HIDE DEF f, Good
<1>11. QED
  BY <1>5, <1>8, <1>10

\* F has the elements of k parts, each part after the one before.
Lays(F, parts, off, k) ==
    /\ \A l \in 1 .. k : \A i \in 1 .. Len(parts[l]) :
          off[l - 1] + i \in 1 .. off[k] /\ F[off[l - 1] + i] = parts[l][i]
    /\ \A j \in 1 .. off[k] : \E l \in 1 .. k : \E i \in 1 .. Len(parts[l]) : j = off[l - 1] + i

\* Where the parts begin.
Begins(off, parts, n) == off[0] = 0 /\ \A k \in 1 .. n : off[k] = off[k - 1] + Len(parts[k])

Offsets(off, parts, n) == off \in [0 .. n -> Nat] /\ Begins(off, parts, n)

\* FlattenSeq lays out its parts one after the other, each at its offset.
LEMMA FlattenIs ==
    ASSUME NEW T, NEW n \in Nat \ {0}, NEW parts \in [1 .. n -> Seq(T)]
    PROVE  \E off : /\ Offsets(off, parts, n) /\ Lays(FlattenSeq(parts), parts, off, n)
                    /\ FlattenSeq(parts) \in Seq(T) /\ Len(FlattenSeq(parts)) = off[n]
<1>1. PICK f \in [0 .. n -> Seq(T)] : Joins(f, parts, n) /\ FlattenSeq(parts) = f[n]
  BY JoinsExist
<1> DEFINE off == [k \in 0 .. n |-> Len(f[k])]
<1>2. off \in [0 .. n -> Nat] /\ \A k \in 0 .. n : off[k] = Len(f[k]) /\ f[k] \in Seq(T) /\ off[k] \in Nat
  OBVIOUS
<1> HIDE DEF off
<1>3. ASSUME NEW k \in 0 .. n - 1
      PROVE  /\ k + 1 \in 1 .. n /\ (k + 1) - 1 = k /\ k + 1 \in 0 .. n
             /\ f[k + 1] = f[k] \o parts[k + 1] /\ parts[k + 1] \in Seq(T)
  <2>1. k + 1 \in 1 .. n /\ (k + 1) - 1 = k /\ k + 1 \in 0 .. n
    OBVIOUS
  <2>2. QED
    BY <1>1, <2>1 DEF Joins
<1>4. Offsets(off, parts, n)
  <2>1. ASSUME NEW k \in 1 .. n PROVE off[k] = off[k - 1] + Len(parts[k])
    <3>1. k - 1 \in 0 .. n - 1 /\ (k - 1) + 1 = k /\ k - 1 \in 0 .. n /\ k \in 0 .. n
      OBVIOUS
    <3>2. f[k] = f[k - 1] \o parts[k] /\ parts[k] \in Seq(T)
      BY <1>3, <3>1
    <3>3. f[k - 1] \in Seq(T) /\ off[k] = Len(f[k]) /\ off[k - 1] = Len(f[k - 1])
      BY <1>2, <3>1
    <3>4. QED
      BY <3>2, <3>3, ConcatIs
  <2>2. off[0] = 0
    <3>1. 0 \in 0 .. n
      OBVIOUS
    <3>2. QED
      BY <1>1, <1>2, <3>1 DEF Joins
  <2>3. QED
    BY <1>2, <2>1, <2>2 DEF Offsets, Begins
<1> DEFINE P == {k \in 0 .. n : Lays(f[k], parts, off, k)}
<1>5. 0 \in P
  <2>1. off[0] = 0 /\ 0 \in 0 .. n
    BY <1>4 DEF Offsets, Begins
  <2>2. QED
    BY <2>1 DEF Lays
<1>6. ASSUME NEW k \in 0 .. n - 1, k \in P PROVE k + 1 \in P
  <2> DEFINE a == f[k]
             b == parts[k + 1]
             c == f[k + 1]
  <2>1. /\ Lays(a, parts, off, k) /\ a \in Seq(T) /\ off[k] = Len(a) /\ off[k + 1] = Len(c) /\ off[k] \in Nat
        /\ c = a \o b /\ b \in Seq(T) /\ k + 1 \in 0 .. n
    <3>1. k \in 0 .. n /\ k + 1 \in 0 .. n
      OBVIOUS
    <3>2. QED
      BY <1>2, <1>3, <1>6, <3>1
  <2> HIDE DEF a, c
  <2>2. /\ Len(c) = off[k] + Len(b) /\ Len(b) \in Nat
        /\ \A i \in 1 .. off[k] : c[i] = a[i]
        /\ \A i \in 1 .. Len(b) : c[off[k] + i] = b[i]
    <3> HIDE DEF b
    <3>1. QED
      BY <2>1, ConcatIs
  <2>3. ASSUME NEW l \in 1 .. k + 1, NEW i \in 1 .. Len(parts[l])
        PROVE  off[l - 1] + i \in 1 .. off[k + 1] /\ c[off[l - 1] + i] = parts[l][i]
    <3>1. CASE l = k + 1
      <4>1. l - 1 = k /\ parts[l] = b /\ i \in 1 .. Len(b)
        BY <3>1
      <4> HIDE DEF b
      <4>2. off[k] + i \in 1 .. off[k + 1]
        BY <2>1, <2>2, <4>1
      <4>3. QED
        BY <2>2, <4>1, <4>2
    <3>2. CASE l # k + 1
      <4>1. l \in 1 .. k
        BY <3>2
      <4>2. off[l - 1] + i \in 1 .. off[k] /\ a[off[l - 1] + i] = parts[l][i]
        BY <2>1, <4>1 DEF Lays
      <4> HIDE DEF b
      <4>3. \A j \in 1 .. off[k] : j \in 1 .. off[k + 1]
        BY <2>1, <2>2
      <4>4. QED
        BY <2>2, <4>2, <4>3
    <3>3. QED
      BY <3>1, <3>2
  <2>4. ASSUME NEW j \in 1 .. off[k + 1]
        PROVE  \E l \in 1 .. k + 1 : \E i \in 1 .. Len(parts[l]) : j = off[l - 1] + i
    <3>1. CASE j <= off[k]
      <4>1. j \in 1 .. off[k]
        BY <2>1, <3>1
      <4>2. PICK l \in 1 .. k : \E i \in 1 .. Len(parts[l]) : j = off[l - 1] + i
        BY <2>1, <4>1 DEF Lays
      <4>3. l \in 1 .. k + 1
        OBVIOUS
      <4>4. QED
        BY <4>2, <4>3
    <3>2. CASE ~ j <= off[k]
      <4> DEFINE i == j - off[k]
      <4>1. i \in 1 .. Len(b) /\ j = off[k] + i
        <5> HIDE DEF b
        <5>1. QED
          BY <2>1, <2>2, <3>2
      <4>2. k + 1 \in 1 .. k + 1 /\ (k + 1) - 1 = k
        OBVIOUS
      <4> HIDE DEF i
      <4>3. QED
        BY <4>1, <4>2
    <3>3. QED
      BY <3>1, <3>2
  <2>5. Lays(c, parts, off, k + 1)
    BY <2>3, <2>4, Zenon DEF Lays
  <2>6. QED
    BY <2>1, <2>5 DEF c
<1>7. n \in P
  <2> HIDE DEF P
  <2>1. \A k \in 0 .. n : k \in P
    BY <1>5, <1>6, Induct
  <2>2. QED
    BY <2>1
<1>8. n \in 0 .. n
  OBVIOUS
<1>9. Lays(FlattenSeq(parts), parts, off, n) /\ FlattenSeq(parts) \in Seq(T) /\ Len(FlattenSeq(parts)) = off[n]
  BY <1>1, <1>2, <1>7, <1>8, Zenon
<1>10. QED
  BY <1>4, <1>9, Zenon

\* The lengths of the parts determine the offsets.
LEMMA OffsetsAgree ==
    ASSUME NEW n \in Nat, NEW off, NEW parts, NEW start, Begins(off, parts, n), Begins(start, parts, n)
    PROVE  \A k \in 0 .. n : off[k] = start[k]
<1> DEFINE S == {k \in 0 .. n : off[k] = start[k]}
<1>1. 0 \in S
  BY DEF Begins
<1>2. ASSUME NEW k \in 0 .. n - 1, k \in S PROVE k + 1 \in S
  <2>1. k + 1 \in 1 .. n /\ (k + 1) - 1 = k /\ off[k] = start[k] /\ k + 1 \in 0 .. n
    BY <1>2
  <2>2. off[k + 1] = off[k] + Len(parts[k + 1]) /\ start[k + 1] = start[k] + Len(parts[k + 1])
    BY <2>1 DEF Begins
  <2>3. QED
    BY <2>1, <2>2
<1> HIDE DEF S
<1>3. \A k \in 0 .. n : k \in S
  BY <1>1, <1>2, Induct
<1>4. QED
  BY <1>3 DEF S

\* Pieces that begin where the one before ends are the whole.
\* The parts are s, cut in pieces.
Cuts(parts, start, s, n) ==
    /\ Begins(start, parts, n) /\ Len(s) = start[n]
    /\ \A k \in 1 .. n : \A i \in 1 .. Len(parts[k]) : parts[k][i] = s[start[k - 1] + i]

\* What has been cut into consecutive pieces is put together again.
LEMMA FlattenPieces ==
    ASSUME NEW T, NEW n \in Nat \ {0}, NEW start, NEW s \in Seq(T),
           NEW parts \in [1 .. n -> Seq(T)], Cuts(parts, start, s, n)
    PROVE  FlattenSeq(parts) = s
<1> DEFINE F == FlattenSeq(parts)
<1>1. PICK off : /\ Offsets(off, parts, n) /\ Lays(F, parts, off, n)
                 /\ F \in Seq(T) /\ Len(F) = off[n]
  BY FlattenIs
<1> HIDE DEF F
<1>2. \A k \in 0 .. n : off[k] = start[k]
  <2>1. n \in Nat /\ Begins(start, parts, n)
    BY DEF Cuts
  <2>2. Begins(off, parts, n)
    BY <1>1 DEF Offsets
  <2>3. QED
    BY <2>1, <2>2, OffsetsAgree
<1>3. Len(F) = Len(s)
  <2>1. n \in 0 .. n
    OBVIOUS
  <2>2. QED
    BY <1>1, <1>2, <2>1 DEF Cuts
<1>4. ASSUME NEW j \in 1 .. Len(F) PROVE F[j] = s[j]
  <2>1. PICK k \in 1 .. n : \E i \in 1 .. Len(parts[k]) : j = off[k - 1] + i
    BY <1>1 DEF Lays
  <2>2. PICK i \in 1 .. Len(parts[k]) : j = off[k - 1] + i
    BY <2>1
  <2>3. F[j] = parts[k][i]
    BY <1>1, <2>2 DEF Lays
  <2>4. k - 1 \in 0 .. n
    OBVIOUS
  <2>5. off[k - 1] = start[k - 1]
    BY <1>2, <2>4
  <2>6. QED
    BY <2>2, <2>3, <2>5 DEF Cuts
<1>5. F = [j \in 1 .. Len(F) |-> F[j]] /\ s = [j \in 1 .. Len(s) |-> s[j]]
  BY <1>1, SeqIsFunction
<1>6. F = s
  BY <1>3, <1>4, <1>5
<1>7. QED
  BY <1>6 DEF F

\* What col says of every element of idx.
Looked(row, idx, col) == row = [i \in 1 .. Len(idx) |-> col[idx[i]]]

\* Flattening commutes with what is done to every element.
LEMMA FlattenMapped ==
    ASSUME NEW S, NEW T, NEW n \in Nat \ {0}, NEW parts \in [1 .. n -> Seq(S)], NEW col \in [S -> T],
           NEW images, images = [k \in 1 .. n |-> images[k]],
           \A k \in 1 .. n : Looked(images[k], parts[k], col)
    PROVE  FlattenSeq(parts) \in Seq(S) /\ Looked(FlattenSeq(images), FlattenSeq(parts), col)
<1>1. ASSUME NEW k \in 1 .. n
      PROVE  /\ parts[k] \in Seq(S) /\ images[k] \in Seq(T) /\ Len(images[k]) = Len(parts[k])
             /\ \A i \in 1 .. Len(parts[k]) : images[k][i] = col[parts[k][i]]
  <2>1. parts[k] \in Seq(S) /\ images[k] = [i \in 1 .. Len(parts[k]) |-> col[parts[k][i]]]
    BY DEF Looked
  <2>2. \A i \in 1 .. Len(parts[k]) : col[parts[k][i]] \in T
    BY <2>1
  <2>3. images[k] \in [1 .. Len(parts[k]) -> T] /\ Len(parts[k]) \in Nat
    BY <2>1, <2>2
  <2>4. images[k] \in Seq(T) /\ Len(images[k]) = Len(parts[k])
    BY <2>3, FunctionIsSeq
  <2>5. QED
    BY <2>1, <2>4
<1>2. images \in [1 .. n -> Seq(T)]
  <2>1. images = [k \in 1 .. n |-> images[k]]
    OBVIOUS
  <2>2. QED
    BY <1>1, <2>1
<1> DEFINE F == FlattenSeq(parts)
           G == FlattenSeq(images)
<1>3. PICK off : /\ Offsets(off, parts, n) /\ Lays(F, parts, off, n) /\ F \in Seq(S) /\ Len(F) = off[n]
  BY FlattenIs
<1>4. PICK gff : /\ Offsets(gff, images, n) /\ Lays(G, images, gff, n) /\ G \in Seq(T) /\ Len(G) = gff[n]
  BY <1>2, FlattenIs
<1> HIDE DEF F, G
<1>5. \A k \in 0 .. n : off[k] = gff[k]
  <2>1. n \in Nat
    OBVIOUS
  <2>2. Begins(gff, parts, n)
    BY <1>1, <1>4 DEF Offsets, Begins
  <2>3. Begins(off, parts, n)
    BY <1>3 DEF Offsets
  <2>4. QED
    BY <2>1, <2>2, <2>3, OffsetsAgree
<1>6. Len(F) = Len(G)
  <2>1. n \in 0 .. n
    OBVIOUS
  <2>2. QED
    BY <1>3, <1>4, <1>5, <2>1
<1>7. ASSUME NEW j \in 1 .. Len(F) PROVE G[j] = col[F[j]]
  <2>1. PICK k \in 1 .. n : \E i \in 1 .. Len(parts[k]) : j = off[k - 1] + i
    BY <1>3 DEF Lays
  <2>2. PICK i \in 1 .. Len(parts[k]) : j = off[k - 1] + i
    BY <2>1
  <2>3. F[j] = parts[k][i]
    BY <1>3, <2>2 DEF Lays
  <2>4. k - 1 \in 0 .. n /\ i \in 1 .. Len(images[k])
    BY <1>1
  <2>5. off[k - 1] = gff[k - 1]
    BY <1>5, <2>4
  <2>6. G[j] = images[k][i]
    <3>1. gff[k - 1] + i = j
      BY <2>2, <2>5
    <3>2. G[gff[k - 1] + i] = images[k][i]
      BY <1>4, <2>4 DEF Lays
    <3>3. QED
      BY <3>1, <3>2
  <2>7. QED
    BY <1>1, <2>3, <2>6
<1>8. G = [j \in 1 .. Len(G) |-> G[j]]
  BY <1>4, SeqIsFunction
<1>9. G = [j \in 1 .. Len(F) |-> col[F[j]]]
  BY <1>6, <1>7, <1>8, Zenon
<1>10. QED
  BY <1>3, <1>9 DEF F, G, Looked

\* Every element of S is at one place of one part.
Partitions(parts, n, S) ==
    /\ parts \in [1 .. n -> Seq(S)]
    /\ \A x \in S : \E k \in 1 .. n : \E i \in 1 .. Len(parts[k]) : parts[k][i] = x
    /\ \A k, l \in 1 .. n : \A i \in 1 .. Len(parts[k]), j \in 1 .. Len(parts[l]) :
          parts[k][i] = parts[l][j] => k = l /\ i = j

\* The partitions of a set, one after the other, list the set.
LEMMA FlattenPartitions ==
    ASSUME NEW S, IsFiniteSet(S), NEW n \in Nat \ {0}, NEW parts, Partitions(parts, n, S)
    PROVE  Cardinality(S) \in Nat /\ Enumerates(FlattenSeq(parts), S)
<1> DEFINE c == FlattenSeq(parts)
           N == Len(c)
<1>1. parts \in [1 .. n -> Seq(S)]
  BY DEF Partitions
<1>2. PICK off : /\ Offsets(off, parts, n) /\ Lays(c, parts, off, n) /\ c \in Seq(S) /\ Len(c) = off[n]
  BY <1>1, FlattenIs
<1> HIDE DEF c
<1>3. /\ N \in Nat /\ c = [i \in 1 .. N |-> c[i]] /\ \A i \in 1 .. N : c[i] \in S
  BY <1>2, SeqIsFunction
<1>4. N = off[n]
  BY <1>2
<1> HIDE DEF N
<1>5. ASSUME NEW i \in 1 .. N, NEW j \in 1 .. N, c[i] = c[j] PROVE i = j
  <2>1. PICK k \in 1 .. n : \E x \in 1 .. Len(parts[k]) : i = off[k - 1] + x
    BY <1>2, <1>4 DEF Lays
  <2>2. PICK x \in 1 .. Len(parts[k]) : i = off[k - 1] + x
    BY <2>1
  <2>3. PICK l \in 1 .. n : \E y \in 1 .. Len(parts[l]) : j = off[l - 1] + y
    BY <1>2, <1>4 DEF Lays
  <2>4. PICK y \in 1 .. Len(parts[l]) : j = off[l - 1] + y
    BY <2>3
  <2>5. c[i] = parts[k][x] /\ c[j] = parts[l][y]
    BY <1>2, <2>2, <2>4 DEF Lays
  <2>6. k = l /\ x = y
    <3>1. parts[k][x] = parts[l][y]
      BY <1>5, <2>5
    <3>2. QED
      BY <3>1 DEF Partitions
  <2>7. QED
    BY <2>2, <2>4, <2>6
<1>6. ASSUME NEW x \in S PROVE \E i \in 1 .. N : c[i] = x
  <2>1. PICK k \in 1 .. n : \E i \in 1 .. Len(parts[k]) : parts[k][i] = x
    BY DEF Partitions
  <2>2. PICK i \in 1 .. Len(parts[k]) : parts[k][i] = x
    BY <2>1
  <2>3. off[k - 1] + i \in 1 .. N /\ c[off[k - 1] + i] = x
    BY <1>2, <1>4, <2>2 DEF Lays
  <2>4. QED
    BY <2>3
<1>7. Cardinality(S) = N
  <2>1. c \in [1 .. N -> S]
    BY <1>3
  <2>2. c \in Bijection(1 .. N, S)
    BY <1>5, <1>6, <2>1 DEF Bijection, Injection, Surjection, IsInjective
  <2>3. ExistsBijection(1 .. N, S)
    BY <2>2 DEF ExistsBijection
  <2>4. QED
    BY <1>3, <2>3, FS_CountingElements
<1>8. Enumerates(c, S)
  <2>1. Len(c) = N
    BY DEF N
  <2>2. QED
    BY <1>3, <1>5, <1>6, <1>7, <2>1, Zenon DEF Enumerates
<1>9. QED
  BY <1>3, <1>7, <1>8 DEF c

-----------------------------------------------------------------------------
(* The bins of karmarkar_karp, and their order *)

\* n items of positive weights w, for k bins.
Weighed(n, w, k) == n \in Nat /\ w \in [1 .. n -> Nat \ {0}] /\ k \in Nat \ {0}

Bins(n, w) == {b \in [items : SUBSET (1 .. n), first : Int, sum : Int] : b.sum = TotalOf(b.items, w)}

\* The types of a bin, and that it weighs something unless it is empty.
LEMMA BinIs ==
    ASSUME NEW n, NEW w, NEW k, Weighed(n, w, k), NEW b \in Bins(n, w)
    PROVE  /\ b.items \in SUBSET (1 .. n) /\ b.first \in Int /\ b.sum \in Nat
           /\ b.sum = TotalOf(b.items, w) /\ IsFiniteSet(b.items) /\ Cardinality(b.items) \in Nat
           /\ b.items # {} <=> b.sum > 0
<1>1. n \in Nat /\ w \in [1 .. n -> Int] /\ \A i \in 1 .. n : w[i] > 0
  BY DEF Weighed
<1>2. b.items \in SUBSET (1 .. n) /\ b.first \in Int /\ b.sum \in Int /\ b.sum = TotalOf(b.items, w)
  BY DEF Bins
<1>3. TotalOf(b.items, w) \in Nat /\ (b.items # {} => TotalOf(b.items, w) > 0)
  BY <1>1, <1>2, TotalOfPositive
<1>4. b.items = {} => b.sum = 0
  BY <1>1, <1>2, TotalOfEmpty
<1>5. IsFiniteSet(1 .. n)
  BY <1>1, FS_Interval
<1>6. IsFiniteSet(b.items)
  BY <1>2, <1>5, FS_Subset
<1>7. Cardinality(b.items) \in Nat
  BY <1>6, FS_CardinalityType
<1>8. QED
  BY <1>2, <1>3, <1>4, <1>6, <1>7

Lexical(s, c, f, t, d, g) == s < t \/ (s = t /\ (c < d \/ (c = d /\ f < g)))

Precedes(i, s, c, f, j, t, d, g) == Lexical(t, d, g, s, c, f) \/ (~Lexical(s, c, f, t, d, g) /\ i < j)

\* The comparison of bins by place, weight, number and first item is transitive.
LEMMA LexicalOrders ==
    ASSUME NEW i \in Int, NEW s \in Int, NEW c \in Int, NEW f \in Int,
           NEW j \in Int, NEW t \in Int, NEW d \in Int, NEW g \in Int,
           NEW l \in Int, NEW u \in Int, NEW e \in Int, NEW h \in Int,
           Precedes(i, s, c, f, j, t, d, g), Precedes(j, t, d, g, l, u, e, h)
    PROVE  Precedes(i, s, c, f, l, u, e, h)
BY DEF Precedes, Lexical

\* The order of a State.
BinOrder(bins, k) ==
    {e \in (1 .. k) \X (1 .. k) :
        \/ BinLess(bins[e[2]], bins[e[1]])
        \/ ~BinLess(bins[e[1]], bins[e[2]]) /\ e[1] < e[2]}

\* The order in which a state keeps its bins is strict and total.
LEMMA BinsOrder ==
    ASSUME NEW n, NEW w, NEW k, Weighed(n, w, k), NEW bins \in [1 .. k -> Bins(n, w)]
    PROVE  Orders(BinOrder(bins, k), 1 .. k)
<1> DEFINE s == [i \in 1 .. k |-> bins[i].sum]
           c == [i \in 1 .. k |-> Cardinality(bins[i].items)]
           f == [i \in 1 .. k |-> bins[i].first]
           Less(i, j) == Lexical(s[i], c[i], f[i], s[j], c[j], f[j])
           Before(i, j) == Precedes(i, s[i], c[i], f[i], j, s[j], c[j], f[j])
           R == BinOrder(bins, k)
<1>1. \A i \in 1 .. k : s[i] \in Int /\ c[i] \in Int /\ f[i] \in Int
  <2>1. SUFFICES ASSUME NEW i \in 1 .. k PROVE s[i] \in Int /\ c[i] \in Int /\ f[i] \in Int
    OBVIOUS
  <2>2. bins[i] \in Bins(n, w)
    OBVIOUS
  <2>3. bins[i].sum \in Nat /\ Cardinality(bins[i].items) \in Nat /\ bins[i].first \in Int
    BY <2>2, BinIs
  <2>4. QED
    BY <2>3
<1>2. ASSUME NEW i \in 1 .. k, NEW j \in 1 .. k PROVE BinLess(bins[i], bins[j]) <=> Less(i, j)
  <2>1. /\ s[i] = bins[i].sum /\ c[i] = Cardinality(bins[i].items) /\ f[i] = bins[i].first
        /\ s[j] = bins[j].sum /\ c[j] = Cardinality(bins[j].items) /\ f[j] = bins[j].first
    OBVIOUS
  <2> HIDE DEF s, c, f
  <2>2. QED
    BY <2>1 DEF BinLess, Lexical
<1> HIDE DEF s, c, f
<1>3. ASSUME NEW i \in 1 .. k, NEW j \in 1 .. k PROVE <<i, j>> \in R <=> Before(i, j)
  <2>1. <<i, j>> \in R <=> (BinLess(bins[j], bins[i]) \/ (~BinLess(bins[i], bins[j]) /\ i < j))
    BY DEF BinOrder
  <2>2. Before(i, j) <=> (Less(j, i) \/ (~Less(i, j) /\ i < j))
    BY DEF Precedes
  <2> HIDE DEF Less, R, Before
  <2>3. QED
    BY <1>2, <2>1, <2>2
<1> HIDE DEF R
<1>4. \A i, j, l \in 1 .. k : Before(i, j) /\ Before(j, l) => Before(i, l)
  <2>1. SUFFICES ASSUME NEW i \in 1 .. k, NEW j \in 1 .. k, NEW l \in 1 .. k, Before(i, j), Before(j, l)
                 PROVE  Before(i, l)
    <3> HIDE DEF Before
    <3>1. QED
      OBVIOUS
  <2>2. /\ s[i] \in Int /\ c[i] \in Int /\ f[i] \in Int /\ s[j] \in Int /\ c[j] \in Int /\ f[j] \in Int
        /\ s[l] \in Int /\ c[l] \in Int /\ f[l] \in Int /\ i \in Int /\ j \in Int /\ l \in Int
    BY <1>1
  <2>3. QED
    BY <2>1, <2>2, LexicalOrders
<1>5. \A i \in 1 .. k : ~Before(i, i)
  BY <1>1 DEF Lexical, Precedes
<1>6. \A i, j \in 1 .. k : i = j \/ Before(i, j) \/ Before(j, i)
  <2>1. SUFFICES ASSUME NEW i \in 1 .. k, NEW j \in 1 .. k PROVE i = j \/ Before(i, j) \/ Before(j, i)
    <3> HIDE DEF Before
    <3>1. QED
      OBVIOUS
  <2>2. /\ s[i] \in Int /\ c[i] \in Int /\ f[i] \in Int /\ s[j] \in Int /\ c[j] \in Int /\ f[j] \in Int
        /\ i \in Int /\ j \in Int
    BY <1>1
  <2>3. QED
    BY <2>2 DEF Lexical, Precedes
<1> HIDE DEF Before
<1>7. Orders(R, 1 .. k)
  BY <1>3, <1>4, <1>5, <1>6 DEF Orders
<1>8. QED
  BY <1>7 DEF R

\* The bins of s are those of bins, each at one place.
Permutes(s, bins, p, k) ==
    /\ p \in [1 .. k -> 1 .. k] /\ \A i, j \in 1 .. k : p[i] = p[j] => i = j
    /\ \A j \in 1 .. k : \E i \in 1 .. k : p[i] = j
    /\ s = [i \in 1 .. k |-> bins[p[i]]]

Falling(s, k) == \A i, j \in 1 .. k : i <= j => s[i].sum >= s[j].sum

\* Descending permutes the bins and leaves none before a heavier one.
LEMMA DescendingIs ==
    ASSUME NEW n, NEW w, NEW k, Weighed(n, w, k), NEW bins \in [1 .. k -> Bins(n, w)]
    PROVE  /\ \E p : Permutes(Descending(bins), bins, p, k)
           /\ Descending(bins) \in [1 .. k -> Bins(n, w)] /\ Falling(Descending(bins), k)
<1> DEFINE R == BinOrder(bins, k)
           p == Ordered(1 .. k, R)
           s == [i \in 1 .. k |-> bins[p[i]]]
<1>1. k \in Nat /\ Len(bins) = k
  BY DEF Weighed
<1>2. Orders(R, 1 .. k)
  BY BinsOrder
<1>3. \A i, j \in 1 .. k : <<i, j>> \in R => BinLess(bins[j], bins[i]) \/ ~BinLess(bins[i], bins[j])
  BY DEF BinOrder
<1>4. Descending(bins) = Evaluated(s)
  BY <1>1, Zenon DEF Descending, BinOrder
<1> HIDE DEF R
<1>5. IsFiniteSet(1 .. k) /\ Cardinality(1 .. k) = k
  BY <1>1, FS_Interval
<1>6. Enumerates(p, 1 .. k) /\ \A i, j \in 1 .. k : i < j => <<p[i], p[j]>> \in R
  <2>1. /\ Enumerates(p, 1 .. k)
        /\ \A i, j \in 1 .. Cardinality(1 .. k) : i < j => <<p[i], p[j]>> \in R
    BY <1>2, <1>5, OrderedIs
  <2> HIDE DEF p
  <2>2. QED
    BY <1>5, <2>1
<1> HIDE DEF p
<1>7. Evaluated(s) = s
  <2>1. s = [i \in 1 .. k |-> s[i]]
    OBVIOUS
  <2> HIDE DEF s
  <2>2. QED
    BY <1>1, <2>1, EvaluatedIs
<1>8. Permutes(s, bins, p, k)
  BY <1>5, <1>6 DEF Enumerates, Permutes
<1>9. s \in [1 .. k -> Bins(n, w)]
  BY <1>8 DEF Permutes
<1>10. Falling(s, k)
  <2>1. SUFFICES ASSUME NEW i \in 1 .. k, NEW j \in 1 .. k, i < j PROVE s[i].sum >= s[j].sum
    <3>1. \A i \in 1 .. k : s[i].sum \in Nat
      <4> HIDE DEF s
      <4>1. QED
        BY <1>9, BinIs
    <3> HIDE DEF s
    <3>2. QED
      BY <1>1, <3>1 DEF Falling
  <2>2. p[i] \in 1 .. k /\ p[j] \in 1 .. k /\ <<p[i], p[j]>> \in R /\ s[i] = bins[p[i]] /\ s[j] = bins[p[j]]
    BY <1>6, <1>8, <2>1 DEF Permutes
  <2> HIDE DEF s
  <2>3. BinLess(s[j], s[i]) \/ ~BinLess(s[i], s[j])
    BY <1>3, <2>2
  <2>4. s[i] \in Bins(n, w) /\ s[j] \in Bins(n, w)
    BY <1>9
  <2>5. s[i].sum \in Nat /\ s[j].sum \in Nat
    BY <2>4, BinIs
  <2>6. QED
    BY <2>3, <2>5 DEF BinLess
<1> HIDE DEF s
<1>11. QED
  BY <1>4, <1>7, <1>8, <1>9, <1>10

-----------------------------------------------------------------------------
(* The least state *)

\* A finite set has a minimal element in any strict order.
LEMMA MinimalExists ==
    ASSUME NEW S, IsFiniteSet(S), S # {}, NEW before, \A x \in S : <<x, x>> \notin before,
           \A x, y, z \in S : <<x, y>> \in before /\ <<y, z>> \in before => <<x, z>> \in before
    PROVE  \E x \in S : \A y \in S : <<y, x>> \notin before
<1> DEFINE Below(x) == {y \in S : <<y, x>> \in before}
           T == {Cardinality(Below(x)) : x \in S}
<1>1. ASSUME NEW x \in S PROVE IsFiniteSet(Below(x)) /\ Cardinality(Below(x)) \in Nat
  <2>1. Below(x) \in SUBSET S
    OBVIOUS
  <2> HIDE DEF Below
  <2>2. IsFiniteSet(Below(x))
    BY <2>1, FS_Subset
  <2>3. QED
    BY <2>2, FS_CardinalityType
<1>2. PICK x \in S : \A y \in S : Cardinality(Below(x)) <= Cardinality(Below(y))
  <2> HIDE DEF Below
  <2>1. T \in SUBSET Nat /\ T # {}
    BY <1>1
  <2>2. PICK m \in T : \A j \in T : m <= j
    <3> HIDE DEF T
    <3>1. QED
      BY <2>1, Least
  <2>3. QED
    BY <2>2
<1>3. ASSUME NEW y \in S, <<y, x>> \in before PROVE FALSE
  <2>1. Below(y) \in SUBSET Below(x) /\ y \in Below(x) /\ y \notin Below(y)
    BY <1>3
  <2> HIDE DEF Below
  <2>2. Cardinality(Below(y)) <= Cardinality(Below(x))
        /\ (Cardinality(Below(x)) = Cardinality(Below(y)) => Below(x) = Below(y))
    BY <1>1, <2>1, FS_Subset
  <2>3. Cardinality(Below(x)) \in Nat /\ Cardinality(Below(y)) \in Nat
    BY <1>1
  <2>4. Cardinality(Below(x)) <= Cardinality(Below(y))
    BY <1>2
  <2>5. Cardinality(Below(x)) = Cardinality(Below(y))
    BY <2>2, <2>3, <2>4
  <2>6. QED
    BY <2>1, <2>2, <2>5
<1>4. QED
  BY <1>3

\* Hence a heap of states has one that none is less than.
LEMMA LeastStateExists ==
    ASSUME NEW n, NEW w, NEW k, Weighed(n, w, k), NEW S \in SUBSET [1 .. k -> Bins(n, w)],
           IsFiniteSet(S), S # {}
    PROVE  \E s \in S : \A t \in S : ~StateLess(t, s)
<1> DEFINE d == [s \in S |-> Spread(s)]
           a == [s \in S |-> s[1].sum]
           c == [s \in S |-> Cardinality(s[1].items)]
           f == [s \in S |-> s[1].first]
           Less(s, t) == d[s] > d[t] \/ (d[s] = d[t] /\
               (a[t] < a[s] \/ (a[t] = a[s] /\ (c[t] < c[s] \/ (c[t] = c[s] /\ f[t] < f[s])))))
           R == {e \in S \X S : StateLess(e[1], e[2])}
<1>1. k \in Nat \ {0}
  BY DEF Weighed
<1>2. \A s \in S : d[s] \in Int /\ a[s] \in Int /\ c[s] \in Int /\ f[s] \in Int
  <2>1. SUFFICES ASSUME NEW s \in S PROVE d[s] \in Int /\ a[s] \in Int /\ c[s] \in Int /\ f[s] \in Int
    OBVIOUS
  <2>2. 1 \in 1 .. k /\ k \in 1 .. k /\ Len(s) = k
    BY <1>1
  <2>3. s[1] \in Bins(n, w) /\ s[k] \in Bins(n, w)
    BY <2>2
  <2>4. s[1].sum \in Nat /\ s[k].sum \in Nat /\ Cardinality(s[1].items) \in Nat /\ s[1].first \in Int
    BY <2>3, BinIs
  <2>5. Spread(s) \in Int
    BY <2>2, <2>4 DEF Spread
  <2>6. QED
    BY <2>4, <2>5
<1>3. ASSUME NEW s \in S, NEW t \in S PROVE StateLess(s, t) <=> Less(s, t)
  <2>1. /\ d[s] = Spread(s) /\ a[s] = s[1].sum /\ c[s] = Cardinality(s[1].items) /\ f[s] = s[1].first
        /\ d[t] = Spread(t) /\ a[t] = t[1].sum /\ c[t] = Cardinality(t[1].items) /\ f[t] = t[1].first
    OBVIOUS
  <2> HIDE DEF d, a, c, f
  <2>2. QED
    BY <2>1 DEF StateLess, BinLess
<1>4. \A s, t \in S : <<s, t>> \in R <=> Less(s, t)
  <2> HIDE DEF Less
  <2>1. QED
    BY <1>3
<1> HIDE DEF d, a, c, f, R
<1>5. \A s, t, u \in S : Less(s, t) /\ Less(t, u) => Less(s, u)
  BY <1>2
<1>6. \A s \in S : ~Less(s, s)
  BY <1>2
<1> HIDE DEF Less
<1>7. PICK s \in S : \A t \in S : <<t, s>> \notin R
  <2>1. /\ \A x \in S : <<x, x>> \notin R
        /\ \A x, y, z \in S : <<x, y>> \in R /\ <<y, z>> \in R => <<x, z>> \in R
    BY <1>4, <1>5, <1>6
  <2>2. QED
    BY <2>1, MinimalExists
<1>8. QED
  BY <1>3, <1>4, <1>7
-----------------------------------------------------------------------------
(* Two states merged *)

ItemsOf(s, k) == UNION {s[i].items : i \in 1 .. k}

Apart(s, k) == \A i, j \in 1 .. k : i # j => s[i].items \cap s[j].items = {}

StateOk(s, n, w, k) ==
    s \in [1 .. k -> Bins(n, w)] /\ Falling(s, k) /\ Apart(s, k) /\ ItemsOf(s, k) # {}

\* With equal sizes: as many items in each bin, and no two sums further apart than
\* two weights are.
Even(s, n, w, k) ==
    /\ \A i, j \in 1 .. k : Cardinality(s[i].items) = Cardinality(s[j].items)
    /\ \E x, y \in 1 .. n : Spread(s) <= w[x] - w[y]

\* Without: a second item is put in a bin only when none is empty.
Sparse(s, k) ==
    (\E i \in 1 .. k : s[i].items = {}) => \A i \in 1 .. k : \A x, y \in s[i].items : x = y

Kept(s, n, w, k, equalSize) == IF equalSize THEN Even(s, n, w, k) ELSE Sparse(s, k)

Paired(s, t, k) == [i \in 1 .. k |-> MergeBins(s[i], t[(k + 1) - i])]

\* The bins of two states joined, the heaviest of one with the lightest of the other.
LEMMA PairedIs ==
    ASSUME NEW n, NEW w, NEW k, Weighed(n, w, k), NEW s, NEW t, StateOk(s, n, w, k), StateOk(t, n, w, k),
           ItemsOf(s, k) \cap ItemsOf(t, k) = {}
    PROVE  /\ Paired(s, t, k) \in [1 .. k -> Bins(n, w)] /\ Apart(Paired(s, t, k), k)
           /\ \A i \in 1 .. k :
                 /\ (k + 1) - i \in 1 .. k
                 /\ Paired(s, t, k)[i].items = s[i].items \cup t[(k + 1) - i].items
                 /\ Paired(s, t, k)[i].sum = s[i].sum + t[(k + 1) - i].sum
                 /\ s[i].items \cap t[(k + 1) - i].items = {}
<1> DEFINE m == Paired(s, t, k)
<1>1. k \in Nat \ {0} /\ n \in Nat /\ w \in [1 .. n -> Int]
  BY DEF Weighed
<1>2. \A i \in 1 .. k : s[i] \in Bins(n, w) /\ t[i] \in Bins(n, w)
  BY DEF StateOk
<1>3. \A i, j \in 1 .. k : s[i].items \cap t[j].items = {}
  BY DEF ItemsOf
<1>4. \A i \in 1 .. k : (k + 1) - i \in 1 .. k
  BY <1>1
<1>5. ASSUME NEW i \in 1 .. k
      PROVE  /\ m[i] \in Bins(n, w)
             /\ m[i].items = s[i].items \cup t[(k + 1) - i].items
             /\ m[i].sum = s[i].sum + t[(k + 1) - i].sum
  <2> DEFINE a == s[i]
             b == t[(k + 1) - i]
  <2>1. m[i] = MergeBins(a, b)
    BY DEF Paired
  <2>2. a \in Bins(n, w) /\ b \in Bins(n, w) /\ a.items \cap b.items = {}
    BY <1>2, <1>3, <1>4
  <2> HIDE DEF a, b, m
  <2>3. /\ a.items \in SUBSET (1 .. n) /\ a.first \in Int /\ a.sum \in Int /\ a.sum = TotalOf(a.items, w)
        /\ b.items \in SUBSET (1 .. n) /\ b.first \in Int /\ b.sum \in Int /\ b.sum = TotalOf(b.items, w)
    BY <2>2 DEF Bins
  <2>4. TotalOf(a.items \cup b.items, w) = a.sum + b.sum
    BY <1>1, <2>2, <2>3, TotalOfUnion
  <2>5. /\ m[i].items = a.items \cup b.items /\ m[i].sum = a.sum + b.sum
        /\ m[i] \in [items : SUBSET (1 .. n), first : Int, sum : Int]
    BY <2>1, <2>3 DEF MergeBins
  <2>6. m[i] \in Bins(n, w)
    BY <2>4, <2>5 DEF Bins
  <2>7. QED
    BY <2>5, <2>6 DEF a, b
<1>6. m \in [1 .. k -> Bins(n, w)]
  <2>1. m = [i \in 1 .. k |-> m[i]]
    BY DEF Paired
  <2> HIDE DEF m
  <2>2. QED
    BY <1>5, <2>1
<1> HIDE DEF m
<1>7. Apart(m, k)
  <2>1. SUFFICES ASSUME NEW i \in 1 .. k, NEW j \in 1 .. k, i # j
                 PROVE  m[i].items \cap m[j].items = {}
    BY DEF Apart
  <2>2. (k + 1) - i # (k + 1) - j
    BY <1>1, <2>1
  <2>3. s[i].items \cap s[j].items = {} /\ t[(k + 1) - i].items \cap t[(k + 1) - j].items = {}
    BY <1>4, <2>1, <2>2 DEF StateOk, Apart
  <2>4. s[i].items \cap t[(k + 1) - j].items = {} /\ s[j].items \cap t[(k + 1) - i].items = {}
    BY <1>3, <1>4
  <2>5. QED
    BY <1>5, <2>3, <2>4
<1>8. QED
  BY <1>3, <1>4, <1>5, <1>6, <1>7 DEF m

\* Reordering the bins keeps what is said of all of them.
LEMMA PermutedIs ==
    ASSUME NEW k, NEW r, NEW bins, NEW p, Permutes(r, bins, p, k)
    PROVE  /\ \A i \in 1 .. k : p[i] \in 1 .. k /\ r[i] = bins[p[i]]
           /\ ItemsOf(r, k) = ItemsOf(bins, k)
           /\ Apart(bins, k) => Apart(r, k)
<1>1. \A i \in 1 .. k : p[i] \in 1 .. k /\ r[i] = bins[p[i]]
  BY DEF Permutes
<1>2. \A j \in 1 .. k : \E i \in 1 .. k : p[i] = j
  BY DEF Permutes
<1>3. ItemsOf(r, k) = ItemsOf(bins, k)
  <2>1. \A j \in 1 .. k : \E i \in 1 .. k : r[i] = bins[j]
    BY <1>1, <1>2
  <2>2. {r[i].items : i \in 1 .. k} = {bins[i].items : i \in 1 .. k}
    BY <1>1, <2>1
  <2>3. QED
    BY <2>2 DEF ItemsOf
<1>4. Apart(bins, k) => Apart(r, k)
  <2>1. \A i, j \in 1 .. k : p[i] = p[j] => i = j
    BY DEF Permutes
  <2>2. QED
    BY <1>1, <2>1 DEF Apart
<1>5. QED
  BY <1>1, <1>3, <1>4

\* Bins joined in opposite orders differ by no more than those of one of the two states.
LEMMA SpreadOfMerged ==
    ASSUME NEW n, NEW w, NEW k, Weighed(n, w, k), NEW s, NEW t, StateOk(s, n, w, k), StateOk(t, n, w, k),
           NEW i \in 1 .. k, NEW j \in 1 .. k
    PROVE  \/ (s[i].sum + t[(k + 1) - i].sum) - (s[j].sum + t[(k + 1) - j].sum) <= Spread(s)
           \/ (s[i].sum + t[(k + 1) - i].sum) - (s[j].sum + t[(k + 1) - j].sum) <= Spread(t)
<1> DEFINE a == (k + 1) - i
           b == (k + 1) - j
<1>1. k \in Nat \ {0}
  BY DEF Weighed
<1>2. a \in 1 .. k /\ b \in 1 .. k /\ 1 \in 1 .. k /\ k \in 1 .. k
  BY <1>1
<1>3. s[i].sum \in Nat /\ s[j].sum \in Nat /\ s[1].sum \in Nat /\ s[k].sum \in Nat
  <2>1. s[i] \in Bins(n, w) /\ s[j] \in Bins(n, w) /\ s[1] \in Bins(n, w) /\ s[k] \in Bins(n, w)
    BY <1>2 DEF StateOk
  <2>2. QED
    BY <2>1, BinIs
<1>4. t[a].sum \in Nat /\ t[b].sum \in Nat /\ t[1].sum \in Nat /\ t[k].sum \in Nat
  <2>1. t[a] \in Bins(n, w) /\ t[b] \in Bins(n, w) /\ t[1] \in Bins(n, w) /\ t[k] \in Bins(n, w)
    BY <1>2 DEF StateOk
  <2> HIDE DEF a, b
  <2>2. QED
    BY <2>1, BinIs
<1>5. Spread(s) = s[1].sum - s[k].sum /\ Spread(t) = t[1].sum - t[k].sum
  <2>1. Len(s) = k /\ Len(t) = k
    BY <1>1 DEF StateOk
  <2>2. QED
    BY <2>1 DEF Spread
<1>6. s[1].sum >= s[i].sum /\ s[j].sum >= s[k].sum /\ t[1].sum >= t[a].sum /\ t[b].sum >= t[k].sum
  <2>1. 1 <= i /\ j <= k /\ 1 <= a /\ b <= k
    BY <1>1, <1>2
  <2> HIDE DEF a, b
  <2>2. QED
    BY <1>2, <2>1 DEF StateOk, Falling
<1>7. (i <= j /\ b <= a) \/ (j <= i /\ a <= b)
  BY <1>1
<1>8. (i <= j => s[i].sum >= s[j].sum) /\ (j <= i => s[j].sum >= s[i].sum)
      /\ (a <= b => t[a].sum >= t[b].sum) /\ (b <= a => t[b].sum >= t[a].sum)
  <2> HIDE DEF a, b
  <2>1. QED
    BY <1>2 DEF StateOk, Falling
<1> HIDE DEF a, b
<1>9. \/ (s[i].sum + t[a].sum) - (s[j].sum + t[b].sum) <= Spread(s)
      \/ (s[i].sum + t[a].sum) - (s[j].sum + t[b].sum) <= Spread(t)
  <2>1. CASE i <= j /\ b <= a
    BY <1>3, <1>4, <1>5, <1>6, <1>8, <2>1
  <2>2. CASE j <= i /\ a <= b
    BY <1>3, <1>4, <1>5, <1>6, <1>8, <2>2
  <2>3. QED
    BY <1>7, <2>1, <2>2
<1>10. QED
  BY <1>9 DEF a, b

\* Merging two states keeps the items, the order and, with equal sizes, the numbers and the spread.
LEMMA MergedIs ==
    ASSUME NEW n, NEW w, NEW k, Weighed(n, w, k), NEW s, NEW t, StateOk(s, n, w, k), StateOk(t, n, w, k),
           ItemsOf(s, k) \cap ItemsOf(t, k) = {},
           NEW equalSize \in BOOLEAN, Kept(s, n, w, k, equalSize), Kept(t, n, w, k, equalSize)
    PROVE  /\ StateOk(MergeStates(s, t), n, w, k) /\ Kept(MergeStates(s, t), n, w, k, equalSize)
           /\ ItemsOf(MergeStates(s, t), k) = ItemsOf(s, k) \cup ItemsOf(t, k)
<1> DEFINE m == Paired(s, t, k)
           r == MergeStates(s, t)
<1>1. k \in Nat \ {0} /\ s \in [1 .. k -> Bins(n, w)] /\ t \in [1 .. k -> Bins(n, w)]
  BY DEF Weighed, StateOk
<1>2. /\ m \in [1 .. k -> Bins(n, w)] /\ Apart(m, k)
      /\ \A i \in 1 .. k :
            /\ (k + 1) - i \in 1 .. k
            /\ m[i].items = s[i].items \cup t[(k + 1) - i].items
            /\ m[i].sum = s[i].sum + t[(k + 1) - i].sum
            /\ s[i].items \cap t[(k + 1) - i].items = {}
  BY PairedIs
<1>3. r = Descending(m)
  <2> DEFINE q == [i \in 1 .. k |-> MergeBins(s[i], t[k + 1 - i])]
  <2>1. Len(s) = k /\ Len(t) = k
    BY <1>1
  <2>2. r = Descending(Evaluated(q))
    BY <2>1 DEF MergeStates
  <2>3. q = m
    <3>1. \A i \in 1 .. k : k + 1 - i = (k + 1) - i
      BY <1>1
    <3>2. QED
      BY <3>1 DEF Paired
  <2>4. Evaluated(m) = m
    <3>1. m = [i \in 1 .. k |-> m[i]]
      BY <1>2
    <3> HIDE DEF m
    <3>2. QED
      BY <1>1, <3>1, EvaluatedIs
  <2>5. QED
    BY <2>2, <2>3, <2>4
<1> HIDE DEF m, r
<1>4. r \in [1 .. k -> Bins(n, w)] /\ Falling(r, k) /\ \E p : Permutes(r, m, p, k)
  BY <1>2, <1>3, DescendingIs
<1>5. PICK p : Permutes(r, m, p, k)
  BY <1>4
<1>6. /\ \A i \in 1 .. k : p[i] \in 1 .. k /\ r[i] = m[p[i]]
      /\ ItemsOf(r, k) = ItemsOf(m, k) /\ Apart(r, k)
  <2>1. /\ \A i \in 1 .. k : p[i] \in 1 .. k /\ r[i] = m[p[i]]
        /\ ItemsOf(r, k) = ItemsOf(m, k) /\ (Apart(m, k) => Apart(r, k))
    BY <1>5, PermutedIs, Zenon
  <2>2. QED
    BY <1>2, <2>1, Zenon
<1>7. ItemsOf(m, k) = ItemsOf(s, k) \cup ItemsOf(t, k)
  <2>1. ASSUME NEW x \in ItemsOf(m, k) PROVE x \in ItemsOf(s, k) \cup ItemsOf(t, k)
    <3>1. PICK i \in 1 .. k : x \in m[i].items
      BY DEF ItemsOf
    <3>2. (k + 1) - i \in 1 .. k /\ x \in s[i].items \cup t[(k + 1) - i].items
      BY <1>2, <3>1
    <3>3. QED
      BY <3>2 DEF ItemsOf
  <2>2. ASSUME NEW x \in ItemsOf(s, k) PROVE x \in ItemsOf(m, k)
    <3>1. PICK i \in 1 .. k : x \in s[i].items
      BY DEF ItemsOf
    <3>2. x \in m[i].items
      BY <1>2, <3>1
    <3>3. QED
      BY <3>2 DEF ItemsOf
  <2>3. ASSUME NEW x \in ItemsOf(t, k) PROVE x \in ItemsOf(m, k)
    <3>1. PICK j \in 1 .. k : x \in t[j].items
      BY DEF ItemsOf
    <3>2. (k + 1) - j \in 1 .. k /\ (k + 1) - ((k + 1) - j) = j
      BY <1>1
    <3>3. x \in m[(k + 1) - j].items
      BY <1>2, <3>1, <3>2
    <3>4. QED
      BY <3>2, <3>3 DEF ItemsOf
  <2>4. QED
    BY <2>1, <2>2, <2>3
<1>8. StateOk(r, n, w, k)
  <2>1. ItemsOf(s, k) # {}
    BY DEF StateOk
  <2>2. QED
    BY <1>4, <1>6, <1>7, <2>1 DEF StateOk
<1>9. ASSUME Even(s, n, w, k), Even(t, n, w, k) PROVE Even(r, n, w, k)
  <2>1. ASSUME NEW i \in 1 .. k
        PROVE  Cardinality(m[i].items) = Cardinality(s[1].items) + Cardinality(t[1].items)
    <3> DEFINE j == (k + 1) - i
    <3>1. 1 \in 1 .. k /\ j \in 1 .. k
      BY <1>1
    <3>2. m[i].items = s[i].items \cup t[j].items /\ s[i].items \cap t[j].items = {}
      BY <1>2
    <3>3. Cardinality(s[i].items) = Cardinality(s[1].items) /\ Cardinality(t[j].items) = Cardinality(t[1].items)
      BY <1>9, <3>1 DEF Even
    <3>4. s[i] \in Bins(n, w) /\ t[j] \in Bins(n, w)
      BY <1>1, <3>1
    <3> HIDE DEF j
    <3>5. /\ IsFiniteSet(s[i].items) /\ Cardinality(s[i].items) \in Nat
          /\ IsFiniteSet(t[j].items) /\ Cardinality(t[j].items) \in Nat
      BY <3>4, BinIs
    <3>6. Cardinality(s[i].items \cup t[j].items)
             = Cardinality(s[i].items) + Cardinality(t[j].items) - Cardinality(s[i].items \cap t[j].items)
      BY <3>5, FS_Union
    <3>7. Cardinality({}) = 0
      BY FS_EmptySet
    <3>8. Cardinality(m[i].items)
             = Cardinality(s[i].items) + Cardinality(t[j].items) - Cardinality({})
      BY <3>2, <3>6, Zenon
    <3>9. Cardinality(m[i].items) = Cardinality(s[i].items) + Cardinality(t[j].items)
      BY <3>5, <3>7, <3>8
    <3>10. QED
      BY <3>3, <3>9, Zenon
  <2>2. \A i, j \in 1 .. k : Cardinality(r[i].items) = Cardinality(r[j].items)
    BY <1>6, <2>1
  <2>3. Spread(r) <= Spread(s) \/ Spread(r) <= Spread(t)
    <3>1. Len(r) = k /\ 1 \in 1 .. k /\ k \in 1 .. k
      BY <1>1, <1>4
    <3>2. Spread(r) = m[p[1]].sum - m[p[k]].sum
      BY <1>6, <3>1 DEF Spread
    <3>3. p[1] \in 1 .. k /\ p[k] \in 1 .. k
      BY <1>6, <3>1
    <3>4. /\ m[p[1]].sum = s[p[1]].sum + t[(k + 1) - p[1]].sum
          /\ m[p[k]].sum = s[p[k]].sum + t[(k + 1) - p[k]].sum
      BY <1>2, <3>3
    <3>5. QED
      BY <3>2, <3>3, <3>4, SpreadOfMerged
  <2>4. Spread(r) \in Int /\ Spread(s) \in Int /\ Spread(t) \in Int
    <3>1. ASSUME NEW u \in [1 .. k -> Bins(n, w)] PROVE Spread(u) \in Int
      <4>1. Len(u) = k /\ u[1] \in Bins(n, w) /\ u[k] \in Bins(n, w)
        BY <1>1
      <4>2. u[1].sum \in Nat /\ u[k].sum \in Nat
        BY <4>1, BinIs
      <4>3. QED
        BY <4>1, <4>2 DEF Spread
    <3>2. QED
      BY <1>1, <1>4, <3>1
  <2>5. \E x, y \in 1 .. n : Spread(r) <= w[x] - w[y]
    <3>1. ASSUME NEW u, Even(u, n, w, k), Spread(u) \in Int, Spread(r) <= Spread(u)
          PROVE  \E x, y \in 1 .. n : Spread(r) <= w[x] - w[y]
      <4>1. PICK x \in 1 .. n, y \in 1 .. n : Spread(u) <= w[x] - w[y]
        BY <3>1 DEF Even
      <4>2. w[x] \in Nat /\ w[y] \in Nat
        BY DEF Weighed
      <4>3. Spread(r) <= w[x] - w[y]
        BY <2>4, <3>1, <4>1, <4>2
      <4>4. QED
        BY <4>3
    <3>2. QED
      BY <1>9, <2>3, <2>4, <3>1
  <2>6. QED
    BY <2>2, <2>5 DEF Even
<1>10. ASSUME Sparse(s, k), Sparse(t, k) PROVE Sparse(r, k)
  <2>1. SUFFICES ASSUME NEW e \in 1 .. k, r[e].items = {}, NEW i \in 1 .. k,
                        NEW x \in r[i].items, NEW y \in r[i].items
                 PROVE  x = y
    BY DEF Sparse
  <2> DEFINE a == p[e]
             b == p[i]
             c == (k + 1) - a
             d == (k + 1) - b
  <2>2. a \in 1 .. k /\ b \in 1 .. k /\ c \in 1 .. k /\ d \in 1 .. k
    BY <1>2, <1>6
  <2>3. /\ s[a].items = {} /\ t[c].items = {}
        /\ x \in s[b].items \cup t[d].items /\ y \in s[b].items \cup t[d].items
    <3>1. r[e] = m[a] /\ r[i] = m[b]
      BY <1>6
    <3>2. m[a].items = s[a].items \cup t[c].items /\ m[b].items = s[b].items \cup t[d].items
      BY <1>2, <2>2
    <3> HIDE DEF a, b, c, d
    <3>3. s[a].items \cup t[c].items = {}
      BY <2>1, <3>1, <3>2
    <3>4. x \in s[b].items \cup t[d].items /\ y \in s[b].items \cup t[d].items
      BY <2>1, <3>1, <3>2
    <3>5. QED
      BY <3>3, <3>4
  <2>4. (b <= a \/ d <= c) /\ (a <= b \/ c <= d) /\ ~(a <= b /\ c <= d /\ a # b)
    BY <1>1, <2>2
  <2> HIDE DEF a, b, c, d
  <2>5. ASSUME NEW u, NEW f \in 1 .. k, NEW g \in 1 .. k, StateOk(u, n, w, k), u[f].items = {}, f <= g
        PROVE  u[g].items = {}
    <3>1. u[f] \in Bins(n, w) /\ u[g] \in Bins(n, w) /\ u[f].sum >= u[g].sum
      BY <2>5 DEF StateOk, Falling
    <3>2. u[f].sum \in Nat /\ u[g].sum \in Nat /\ ~ u[f].sum > 0
      BY <2>5, <3>1, BinIs
    <3>3. ~ u[g].sum > 0
      BY <3>1, <3>2
    <3>4. QED
      BY <3>1, <3>3, BinIs
  <2>6. s[b].items = {} \/ t[d].items = {}
    <3>1. a <= b => s[b].items = {}
      BY <2>2, <2>3, <2>5
    <3>2. c <= d => t[d].items = {}
      BY <2>2, <2>3, <2>5
    <3>3. QED
      BY <2>4, <3>1, <3>2
  <2>7. CASE s[b].items = {}
    <3>1. x \in t[d].items /\ y \in t[d].items
      BY <2>3, <2>7
    <3>2. QED
      BY <1>10, <2>2, <2>3, <3>1 DEF Sparse
  <2>8. CASE t[d].items = {}
    <3>1. x \in s[b].items /\ y \in s[b].items
      BY <2>3, <2>8
    <3>2. QED
      BY <1>10, <2>2, <2>3, <3>1 DEF Sparse
  <2>9. QED
    BY <2>6, <2>7, <2>8
<1>11. Kept(r, n, w, k, equalSize)
  BY <1>9, <1>10 DEF Kept
<1>12. QED
  BY <1>6, <1>7, <1>8, <1>11 DEF r

-----------------------------------------------------------------------------
(* The heap *)

HeapOk(H, n, w, k, equalSize) ==
    /\ IsFiniteSet(H) /\ H # {}
    /\ \A s \in H : StateOk(s, n, w, k) /\ Kept(s, n, w, k, equalSize)
    /\ \A s, t \in H : s # t => ItemsOf(s, k) \cap ItemsOf(t, k) = {}
    /\ UNION {ItemsOf(s, k) : s \in H} = 1 .. n

\* Each round of the heap replaces two states by their merge and keeps the items.
LEMMA PopMergePushIs ==
    ASSUME NEW n, NEW w, NEW k, Weighed(n, w, k), NEW equalSize \in BOOLEAN,
           NEW H, HeapOk(H, n, w, k, equalSize), Cardinality(H) > 1
    PROVE  /\ HeapOk(PopMergePush(H), n, w, k, equalSize)
           /\ Cardinality(PopMergePush(H)) = Cardinality(H) - 1
<1> DEFINE Lowest(S) == CHOOSE s \in S : \A t \in S : ~StateLess(t, s)
           a == Lowest(H)
           b == Lowest(H \ {a})
           c == MergeStates(a, b)
           rest == H \ {a, b}
           P == rest \cup {c}
<1>1. PopMergePush(H) = P
  BY DEF PopMergePush
<1>2. ASSUME NEW S \in SUBSET H, S # {} PROVE Lowest(S) \in S
  <2>1. IsFiniteSet(S)
    BY FS_Subset DEF HeapOk
  <2>2. S \in SUBSET [1 .. k -> Bins(n, w)]
    BY DEF HeapOk, StateOk
  <2>3. \E s \in S : \A t \in S : ~StateLess(t, s)
    BY <1>2, <2>1, <2>2, LeastStateExists
  <2>4. QED
    BY <2>3
<1> HIDE DEF Lowest
<1>3. a \in H
  BY <1>2 DEF HeapOk
<1> HIDE DEF a
<1>4. IsFiniteSet(H) /\ Cardinality(H) \in Nat
  BY FS_CardinalityType DEF HeapOk
<1>5. IsFiniteSet(H \ {a}) /\ Cardinality(H \ {a}) = Cardinality(H) - 1
  BY <1>3, <1>4, FS_RemoveElement
<1>6. b \in H /\ b # a
  <2>1. H \ {a} # {}
    <3>1. Cardinality(H \ {a}) # 0
      BY <1>4, <1>5
    <3>2. QED
      BY <3>1, FS_EmptySet
  <2>2. b \in H \ {a}
    BY <1>2, <2>1
  <2> HIDE DEF b
  <2>3. QED
    BY <2>2
<1> HIDE DEF b
<1>7. IsFiniteSet(rest) /\ Cardinality(rest) = Cardinality(H) - 2 /\ Cardinality(rest) \in Nat
  <2>1. rest = (H \ {a}) \ {b} /\ b \in H \ {a}
    BY <1>6
  <2>2. IsFiniteSet((H \ {a}) \ {b}) /\ Cardinality((H \ {a}) \ {b}) = Cardinality(H \ {a}) - 1
    BY <1>5, <2>1, FS_RemoveElement
  <2>3. QED
    <3>1. IsFiniteSet(rest) /\ Cardinality(rest) = Cardinality(H \ {a}) - 1
      BY <2>1, <2>2, Zenon
    <3>2. Cardinality(rest) \in Nat
      BY <3>1, FS_CardinalityType
    <3> HIDE DEF rest
    <3>3. QED
      BY <1>4, <1>5, <3>1, <3>2
<1>8. /\ StateOk(c, n, w, k) /\ Kept(c, n, w, k, equalSize)
      /\ ItemsOf(c, k) = ItemsOf(a, k) \cup ItemsOf(b, k)
  <2>1. /\ StateOk(a, n, w, k) /\ Kept(a, n, w, k, equalSize) /\ StateOk(b, n, w, k) /\ Kept(b, n, w, k, equalSize)
        /\ ItemsOf(a, k) \cap ItemsOf(b, k) = {}
    BY <1>3, <1>6 DEF HeapOk
  <2>2. QED
    BY <2>1, MergedIs
<1> HIDE DEF c
<1>9. \A s \in rest : s \in H /\ ItemsOf(s, k) \cap ItemsOf(c, k) = {}
  <2>1. SUFFICES ASSUME NEW s \in rest PROVE s \in H /\ ItemsOf(s, k) \cap ItemsOf(c, k) = {}
    OBVIOUS
  <2>2. s \in H /\ s # a /\ s # b
    OBVIOUS
  <2>3. ItemsOf(s, k) \cap ItemsOf(a, k) = {} /\ ItemsOf(s, k) \cap ItemsOf(b, k) = {}
    BY <1>3, <1>6, <2>2 DEF HeapOk
  <2>4. QED
    BY <1>8, <2>2, <2>3
<1>10. c \notin rest
  BY <1>8, <1>9 DEF StateOk
<1>11. IsFiniteSet(P) /\ Cardinality(P) = Cardinality(H) - 1
  <2> HIDE DEF rest
  <2>1. IsFiniteSet(rest \cup {c}) /\ Cardinality(rest \cup {c}) = Cardinality(rest) + 1
    BY <1>7, <1>10, FS_AddElement
  <2>2. QED
    BY <1>4, <1>7, <2>1
<1>12. \A s \in P : StateOk(s, n, w, k) /\ Kept(s, n, w, k, equalSize)
  BY <1>8, <1>9 DEF HeapOk
<1>13. \A s, t \in P : s # t => ItemsOf(s, k) \cap ItemsOf(t, k) = {}
  <2>1. SUFFICES ASSUME NEW s \in P, NEW t \in P, s # t PROVE ItemsOf(s, k) \cap ItemsOf(t, k) = {}
    BY Zenon
  <2>2. CASE s \in rest /\ t \in rest
    BY <1>9, <2>1, <2>2 DEF HeapOk
  <2>3. CASE s \notin rest \/ t \notin rest
    <3>1. (s = c /\ t \in rest) \/ (t = c /\ s \in rest)
      BY <2>1, <2>3
    <3>2. QED
      BY <1>9, <3>1
  <2>4. QED
    BY <2>2, <2>3
<1>14. UNION {ItemsOf(s, k) : s \in P} = 1 .. n
  <2>1. ASSUME NEW x, NEW s \in P, x \in ItemsOf(s, k) PROVE \E t \in H : x \in ItemsOf(t, k)
    <3>1. CASE s = c
      BY <1>3, <1>6, <1>8, <2>1, <3>1
    <3>2. CASE s # c
      BY <1>9, <2>1, <3>2
    <3>3. QED
      BY <3>1, <3>2
  <2>2. ASSUME NEW x, NEW t \in H, x \in ItemsOf(t, k) PROVE \E s \in P : x \in ItemsOf(s, k)
    <3>1. CASE t \in rest
      BY <2>2, <3>1
    <3>2. CASE t \notin rest
      <4>1. t = a \/ t = b
        BY <3>2
      <4>2. x \in ItemsOf(c, k) /\ c \in P
        BY <1>8, <2>2, <4>1
      <4>3. QED
        BY <4>2
    <3>3. QED
      BY <3>1, <3>2
  <2> HIDE DEF P
  <2>3. UNION {ItemsOf(s, k) : s \in P} = UNION {ItemsOf(s, k) : s \in H}
    BY <2>1, <2>2
  <2>4. QED
    BY <2>3 DEF HeapOk
<1>15. P # {}
  OBVIOUS
<1> HIDE DEF P
<1>16. HeapOk(P, n, w, k, equalSize)
  BY <1>11, <1>12, <1>13, <1>14, <1>15 DEF HeapOk
<1>17. QED
  BY <1>1, <1>11, <1>16

\* With as many rounds as there are states but one, one is left.
LEMMA HeapAfterIs ==
    ASSUME NEW n, NEW w, NEW k, Weighed(n, w, k), NEW equalSize \in BOOLEAN,
           NEW H, HeapOk(H, n, w, k, equalSize)
    PROVE  /\ HeapOk(HeapAfter(H, Cardinality(H) - 1), n, w, k, equalSize)
           /\ Cardinality(HeapAfter(H, Cardinality(H) - 1)) = 1
<1> DEFINE m == Cardinality(H) - 1
           V == {X \in SUBSET [1 .. k -> Bins(n, w)] : HeapOk(X, n, w, k, equalSize)}
           step == [i \in 1 .. m |-> [X \in V |-> IF Cardinality(X) > 1 THEN PopMergePush(X) ELSE X]]
<1>1. Cardinality(H) \in Nat /\ m \in Nat
  <2>1. IsFiniteSet(H) /\ H # {}
    BY DEF HeapOk
  <2>2. Cardinality(H) \in Nat /\ Cardinality(H) # 0
    BY <2>1, FS_CardinalityType, FS_EmptySet
  <2>3. QED
    BY <2>2
<1>2. \A X : HeapOk(X, n, w, k, equalSize) => X \in V
  BY DEF HeapOk, StateOk
<1>3. \A X \in V : HeapOk(X, n, w, k, equalSize)
  OBVIOUS
<1> HIDE DEF V
<1>4. \A X \in V : (IF Cardinality(X) > 1 THEN PopMergePush(X) ELSE X) \in V
  BY <1>2, <1>3, PopMergePushIs
<1>5. /\ step \in [1 .. m -> [V -> V]]
      /\ \A i \in 1 .. m, X \in V : step[i][X] = IF Cardinality(X) > 1 THEN PopMergePush(X) ELSE X
  <2> HIDE DEF m
  <2>1. QED
    BY <1>4
<1> HIDE DEF step
<1>6. PICK g \in [0 .. m -> V] : g[0] = H /\ \A i \in 1 .. m : g[i] = step[i][g[i - 1]]
  <2>1. Steps(m, V, H, step)
    BY <1>1, <1>2, <1>5, Zenon DEF Steps
  <2> HIDE DEF m
  <2>2. QED
    BY <2>1, Recursion
<1> DEFINE S == {i \in 0 .. m : Cardinality(g[i]) = Cardinality(H) - i}
<1>7. 0 \in S
  BY <1>1, <1>6
<1>8. ASSUME NEW i \in 0 .. m - 1, Cardinality(g[i]) = Cardinality(H) - i
      PROVE  g[i + 1] = PopMergePush(g[i]) /\ Cardinality(g[i + 1]) = Cardinality(H) - (i + 1)
  <2>1. i + 1 \in 1 .. m /\ (i + 1) - 1 = i /\ i \in 0 .. m
    BY <1>1
  <2>2. g[i + 1] = step[i + 1][g[i]] /\ g[i] \in V
    BY <1>6, <2>1
  <2>3. Cardinality(g[i]) > 1
    BY <1>1, <1>8
  <2>4. g[i + 1] = PopMergePush(g[i])
    BY <1>5, <2>1, <2>2, <2>3
  <2>5. Cardinality(PopMergePush(g[i])) = Cardinality(g[i]) - 1
    BY <1>3, <2>2, <2>3, PopMergePushIs
  <2>6. QED
    BY <1>1, <1>8, <2>4, <2>5
<1>9. ASSUME NEW i \in 0 .. m - 1, i \in S PROVE i + 1 \in S
  <2>1. i + 1 \in 0 .. m
    BY <1>1
  <2>2. QED
    BY <1>8, <1>9, <2>1
<1>10. \A i \in 0 .. m : Cardinality(g[i]) = Cardinality(H) - i
  <2> HIDE DEF S
  <2>1. \A i \in 0 .. m : i \in S
    <3> HIDE DEF m
    <3>1. QED
      BY <1>1, <1>7, <1>9, Induct
  <2>2. QED
    BY <2>1 DEF S
<1>11. \A i \in 1 .. m : g[i] = PopMergePush(g[i - 1])
  <2>1. SUFFICES ASSUME NEW i \in 1 .. m PROVE g[i] = PopMergePush(g[i - 1])
    OBVIOUS
  <2>2. i - 1 \in 0 .. m - 1 /\ (i - 1) + 1 = i /\ i - 1 \in 0 .. m
    BY <1>1
  <2>3. QED
    BY <1>8, <1>10, <2>2
<1> HIDE DEF S
<1> DEFINE Good(f) == f = [i \in 0 .. m |-> IF i = 0 THEN H ELSE PopMergePush(f[i - 1])]
           f == CHOOSE x : Good(x)
<1>12. HeapAfter(H, m) = f[m]
  BY DEF HeapAfter
<1> HIDE DEF m
<1>13. Good(g)
  <2>1. g = [i \in 0 .. m |-> g[i]]
    OBVIOUS
  <2>2. \A i \in 0 .. m : i = 0 \/ i \in 1 .. m
    BY <1>1
  <2>3. \A i \in 0 .. m : g[i] = IF i = 0 THEN H ELSE PopMergePush(g[i - 1])
    BY <1>6, <1>11, <2>2
  <2>4. QED
    BY <2>1, <2>3, Zenon
<1>14. Good(f)
  <2> HIDE DEF Good
  <2>1. QED
    BY <1>13
<1> HIDE DEF f
<1>15. f[m] = g[m]
  <2> DEFINE E == {i \in 0 .. m : f[i] = g[i]}
  <2>1. 0 \in E
    BY <1>1, <1>6, <1>14
  <2>2. ASSUME NEW i \in 0 .. m - 1, i \in E PROVE i + 1 \in E
    <3>1. i + 1 \in 1 .. m /\ (i + 1) - 1 = i /\ i + 1 \in 0 .. m /\ i + 1 # 0
      BY <1>1
    <3>2. f[i + 1] = PopMergePush(f[i])
      BY <1>14, <3>1
    <3> HIDE DEF Good
    <3>3. QED
      BY <1>11, <2>2, <3>1, <3>2
  <2>3. m \in E
    <3> HIDE DEF E
    <3>1. \A i \in 0 .. m : i \in E
      BY <1>1, <2>1, <2>2, Induct
    <3>2. QED
      BY <1>1, <3>1
  <2>4. QED
    BY <2>3
<1>16. m \in 0 .. m
  BY <1>1
<1>17. HeapOk(g[m], n, w, k, equalSize) /\ Cardinality(g[m]) = 1
  BY <1>1, <1>3, <1>6, <1>10, <1>16 DEF m
<1>18. QED
  BY <1>12, <1>15, <1>17 DEF m

-----------------------------------------------------------------------------
(* What is on the heap at first *)

StartOk(start, B, O, n, w, k, equalSize) ==
    /\ start = {Descending(B[o]) : o \in O} /\ IsFiniteSet(O) /\ O # {}
    /\ B \in [O -> [1 .. k -> Bins(n, w)]]
    /\ \A o \in O : /\ Apart(B[o], k) /\ ItemsOf(B[o], k) # {}
                    /\ Kept(Descending(B[o]), n, w, k, equalSize)
    /\ \A o, p \in O : o # p => ItemsOf(B[o], k) \cap ItemsOf(B[p], k) = {}
    /\ \A x \in 1 .. n : \E o \in O : x \in ItemsOf(B[o], k)

\* The states the heap starts with, one for each batch of items.
LEMMA HeapOfDescending ==
    ASSUME NEW n, NEW w, NEW k, Weighed(n, w, k), NEW equalSize \in BOOLEAN,
           NEW start, NEW B, NEW O, StartOk(start, B, O, n, w, k, equalSize)
    PROVE  HeapOk(start, n, w, k, equalSize)
<1> DEFINE D == [o \in O |-> Descending(B[o])]
           H == {D[o] : o \in O}
<1>1. ASSUME NEW o \in O
      PROVE  /\ StateOk(D[o], n, w, k) /\ Kept(D[o], n, w, k, equalSize)
             /\ ItemsOf(D[o], k) = ItemsOf(B[o], k)
  <2>1. B[o] \in [1 .. k -> Bins(n, w)] /\ D[o] = Descending(B[o])
    BY DEF StartOk
  <2>2. /\ D[o] \in [1 .. k -> Bins(n, w)] /\ Falling(D[o], k) /\ \E p : Permutes(D[o], B[o], p, k)
    BY <2>1, DescendingIs
  <2> HIDE DEF D
  <2>3. PICK p : Permutes(D[o], B[o], p, k)
    BY <2>2
  <2>4. ItemsOf(D[o], k) = ItemsOf(B[o], k) /\ (Apart(B[o], k) => Apart(D[o], k))
    BY <2>3, PermutedIs, Zenon
  <2>5. QED
    BY <2>1, <2>2, <2>4 DEF StateOk, StartOk
<1> HIDE DEF D
<1>2. IsFiniteSet(H) /\ H # {}
  <2> DEFINE f == [o \in O |-> D[o]]
  <2>1. f \in Surjection(O, H)
    BY DEF Surjection
  <2>2. H # {}
    <3>1. O # {}
      BY DEF StartOk
    <3>2. PICK o : o \in O
      BY <3>1
    <3>3. D[o] \in H
      BY <3>2
    <3>4. QED
      BY <3>3
  <2>3. IsFiniteSet(O)
    BY DEF StartOk
  <2> HIDE DEF f, H
  <2>4. IsFiniteSet(H)
    BY <2>1, <2>3, FS_Surjection
  <2>5. QED
    BY <2>2, <2>4
<1>3. \A s, t \in H : s # t => ItemsOf(s, k) \cap ItemsOf(t, k) = {}
  BY <1>1 DEF StartOk
<1>4. UNION {ItemsOf(s, k) : s \in H} = 1 .. n
  <2>1. ASSUME NEW s \in H, NEW x \in ItemsOf(s, k) PROVE x \in 1 .. n
    <3>1. s \in [1 .. k -> Bins(n, w)]
      BY <1>1 DEF StateOk
    <3>2. PICK i \in 1 .. k : x \in s[i].items
      BY <2>1 DEF ItemsOf
    <3>3. s[i] \in Bins(n, w)
      BY <3>1
    <3>4. QED
      BY <3>2, <3>3 DEF Bins
  <2>2. ASSUME NEW x \in 1 .. n PROVE \E s \in H : x \in ItemsOf(s, k)
    BY <1>1 DEF StartOk
  <2> HIDE DEF H
  <2>3. QED
    BY <2>1, <2>2
<1>5. \A s \in H : StateOk(s, n, w, k) /\ Kept(s, n, w, k, equalSize)
  BY <1>1
<1>6. H = start
  BY DEF D, StartOk
<1> HIDE DEF H
<1>7. HeapOk(H, n, w, k, equalSize)
  BY <1>2, <1>3, <1>4, <1>5 DEF HeapOk
<1>8. QED
  BY <1>6, <1>7, Zenon

\* The bins of no item and of one.
LEMMA SingleBins ==
    ASSUME NEW n, NEW w, NEW k, Weighed(n, w, k)
    PROVE  /\ EmptyBin \in Bins(n, w) /\ EmptyBin.items = {} /\ EmptyBin.sum = 0
           /\ \A x \in 1 .. n : Bin(x, w) \in Bins(n, w) /\ Bin(x, w).items = {x} /\ Bin(x, w).sum = w[x]
<1>1. n \in Nat /\ w \in [1 .. n -> Int]
  BY DEF Weighed
<1>2. EmptyBin \in Bins(n, w) /\ EmptyBin.items = {} /\ EmptyBin.sum = 0
  <2>1. TotalOf({}, w) = 0
    BY <1>1, TotalOfEmpty
  <2>2. QED
    BY <2>1 DEF Bins, EmptyBin
<1>3. ASSUME NEW x \in 1 .. n PROVE Bin(x, w) \in Bins(n, w) /\ Bin(x, w).items = {x} /\ Bin(x, w).sum = w[x]
  <2>1. TotalOf({x}, w) = w[x] /\ w[x] \in Int /\ x \in Int
    BY <1>1, TotalOfSingle
  <2>2. QED
    BY <2>1 DEF Bins, Bin
<1>4. QED
  BY <1>2, <1>3

\* Without equal sizes the heap starts with a state for every item.
LEMMA StatesOfOne ==
    ASSUME NEW n, NEW w, NEW k, Weighed(n, w, k), n > 0
    PROVE  HeapOk(States(w, k, FALSE), n, w, k, FALSE)
<1> DEFINE B == [o \in 1 .. n |-> [i \in 1 .. k |-> IF i = 1 THEN Bin(o, w) ELSE EmptyBin]]
<1>1. n \in Nat \ {0} /\ k \in Nat \ {0} /\ DOMAIN w = 1 .. n
  BY DEF Weighed
<1>2. States(w, k, FALSE) = {Descending(B[o]) : o \in 1 .. n}
  <2>1. States(w, k, FALSE)
          = {Descending([i \in 1 .. k |-> IF i = 1 THEN Bin(o, w) ELSE EmptyBin]) : o \in 1 .. n}
    BY <1>1 DEF States
  <2>2. QED
    BY <2>1
<1>3. ASSUME NEW o \in 1 .. n
      PROVE  /\ B[o] \in [1 .. k -> Bins(n, w)]
             /\ \A i \in 1 .. k : B[o][i].items = IF i = 1 THEN {o} ELSE {}
  <2> DEFINE b == B[o]
  <2>1. b = [i \in 1 .. k |-> IF i = 1 THEN Bin(o, w) ELSE EmptyBin]
    OBVIOUS
  <2> HIDE DEF b, B
  <2>2. /\ EmptyBin \in Bins(n, w) /\ EmptyBin.items = {}
        /\ Bin(o, w) \in Bins(n, w) /\ Bin(o, w).items = {o}
    BY SingleBins
  <2>3. b \in [1 .. k -> Bins(n, w)]
    BY <2>1, <2>2
  <2>4. ASSUME NEW i \in 1 .. k PROVE b[i].items = IF i = 1 THEN {o} ELSE {}
    <3>1. CASE i = 1
      BY <2>1, <2>2, <3>1
    <3>2. CASE i # 1
      <4>1. b[i] = EmptyBin
        BY <2>1, <3>2
      <4>2. QED
        BY <2>2, <3>2, <4>1
    <3>3. QED
      BY <3>1, <3>2
  <2>5. QED
    BY <2>3, <2>4, Zenon DEF b
<1>4. B \in [1 .. n -> [1 .. k -> Bins(n, w)]]
  <2>1. B = [o \in 1 .. n |-> B[o]]
    OBVIOUS
  <2> HIDE DEF B
  <2>2. QED
    BY <1>3, <2>1
<1> HIDE DEF B
<1>5. ASSUME NEW o \in 1 .. n PROVE ItemsOf(B[o], k) = {o}
  <2>1. 1 \in 1 .. k /\ B[o][1].items = {o}
    <3>1. 1 \in 1 .. k
      BY <1>1
    <3>2. B[o][1].items = IF 1 = 1 THEN {o} ELSE {}
      BY <1>3, <3>1, Zenon
    <3>3. QED
      BY <3>1, <3>2
  <2>2. \A i \in 1 .. k : B[o][i].items \in SUBSET {o}
    BY <1>3
  <2>3. QED
    BY <2>1, <2>2 DEF ItemsOf
<1>6. ASSUME NEW o \in 1 .. n PROVE Apart(B[o], k)
  <2>1. \A i \in 1 .. k : B[o][i].items = IF i = 1 THEN {o} ELSE {}
    BY <1>3
  <2>2. QED
    BY <2>1 DEF Apart
<1>7. ASSUME NEW o \in 1 .. n PROVE Kept(Descending(B[o]), n, w, k, FALSE)
  <2> DEFINE b == B[o]
             d == Descending(b)
  <2>1. b \in [1 .. k -> Bins(n, w)] /\ \A i \in 1 .. k : b[i].items \in SUBSET {o}
    BY <1>3
  <2> HIDE DEF b
  <2>2. \E p : Permutes(d, b, p, k)
    BY <2>1, DescendingIs
  <2> HIDE DEF d
  <2>3. PICK p : Permutes(d, b, p, k)
    BY <2>2
  <2>4. /\ \A i \in 1 .. k : p[i] \in 1 .. k /\ d[i] = b[p[i]]
        /\ ItemsOf(d, k) = ItemsOf(b, k) /\ (Apart(b, k) => Apart(d, k))
    BY <2>3, PermutedIs, Zenon
  <2>5. \A i \in 1 .. k : \A x, y \in d[i].items : x = y
    BY <2>1, <2>4
  <2>6. Kept(d, n, w, k, FALSE)
    BY <2>5 DEF Kept, Sparse
  <2>7. QED
    BY <2>6 DEF d, b
<1>8. IsFiniteSet(1 .. n) /\ 1 .. n # {}
  <2>1. IsFiniteSet(1 .. n)
    BY <1>1, FS_Interval
  <2>2. 1 \in 1 .. n
    BY <1>1
  <2>3. QED
    BY <2>1, <2>2
<1>9. \A o \in 1 .. n : /\ Apart(B[o], k) /\ ItemsOf(B[o], k) # {}
                        /\ Kept(Descending(B[o]), n, w, k, FALSE)
  BY <1>5, <1>6, <1>7
<1>10. \A o, p \in 1 .. n : o # p => ItemsOf(B[o], k) \cap ItemsOf(B[p], k) = {}
  BY <1>5
<1>11. \A x \in 1 .. n : \E o \in 1 .. n : x \in ItemsOf(B[o], k)
  BY <1>5
<1>12. StartOk(States(w, k, FALSE), B, 1 .. n, n, w, k, FALSE)
  BY <1>2, <1>4, <1>8, <1>9, <1>10, <1>11 DEF StartOk
<1>13. FALSE \in BOOLEAN
  OBVIOUS
<1>14. QED
  BY <1>12, <1>13, HeapOfDescending

\* The numbers up to m * k, in m rows of k.
Numbered(m, k) ==
    /\ \A o \in 0 .. m - 1, i \in 1 .. k : o * k + i \in 1 .. m * k
    /\ \A y \in 1 .. m * k : \E o \in 0 .. m - 1, i \in 1 .. k : y = o * k + i
    /\ \A o, p \in 0 .. m - 1 : \A i, j \in 1 .. k : o * k + i = p * k + j => o = p /\ i = j

\* The numbers up to m * k are those in m rows of k.
LEMMA Grid ==
    ASSUME NEW k \in Nat \ {0}, NEW m \in Nat
    PROVE  m * k \in Nat /\ Numbered(m, k)
<1>1. m * k \in Nat
  OBVIOUS
<1>2. \A a, b \in Nat : a < b => a * k + k <= b * k
  <2>1. SUFFICES ASSUME NEW a \in Nat, NEW b \in Nat, a < b PROVE a * k + k <= b * k
    OBVIOUS
  <2>2. a + 1 <= b
    BY <2>1
  <2>3. (a + 1) * k <= b * k
    BY <2>2
  <2>4. (a + 1) * k = a * k + k
    OBVIOUS
  <2>5. QED
    BY <2>3, <2>4
<1>3. ASSUME NEW o \in 0 .. m - 1, NEW i \in 1 .. k PROVE o * k + i \in 1 .. m * k
  <2>1. o * k + k <= m * k /\ o * k \in Nat
    BY <1>2
  <2>2. QED
    BY <1>1, <2>1
<1>4. ASSUME NEW y \in 1 .. m * k PROVE \E o \in 0 .. m - 1, i \in 1 .. k : y = o * k + i
  <2> DEFINE o == (y - 1) \div k
             r == (y - 1) % k
  <2>1. o \in Nat /\ r \in 0 .. k - 1 /\ y - 1 = k * o + r
    OBVIOUS
  <2> HIDE DEF o, r
  <2>2. o < m
    <3>1. SUFFICES ASSUME ~ o < m PROVE FALSE
      OBVIOUS
    <3>2. m <= o
      BY <2>1, <3>1
    <3>3. m * k <= o * k
      BY <2>1, <3>2
    <3>4. o * k = k * o
      BY <2>1
    <3>5. QED
      BY <1>1, <2>1, <3>3, <3>4
  <2>3. o \in 0 .. m - 1 /\ r + 1 \in 1 .. k /\ y = o * k + (r + 1)
    BY <2>1, <2>2
  <2>4. QED
    BY <2>3
<1>5. ASSUME NEW o \in 0 .. m - 1, NEW p \in 0 .. m - 1, NEW i \in 1 .. k, NEW j \in 1 .. k, o * k + i = p * k + j
      PROVE  o = p /\ i = j
  <2>1. o * k \in Nat /\ p * k \in Nat
    OBVIOUS
  <2>2. ~ o < p
    <3>1. o < p => o * k + k <= p * k
      BY <1>2
    <3>2. QED
      BY <1>5, <2>1, <3>1
  <2>3. ~ p < o
    <3>1. p < o => p * k + k <= o * k
      BY <1>2
    <3>2. QED
      BY <1>5, <2>1, <3>1
  <2>4. o = p
    BY <2>2, <2>3
  <2>5. QED
    BY <1>5, <2>1, <2>4
<1>6. QED
  BY <1>1, <1>3, <1>4, <1>5 DEF Numbered

\* Division without remainder.
LEMMA WholeRows ==
    ASSUME NEW n \in Nat, NEW k \in Nat \ {0}, n % k = 0
    PROVE  n \div k \in Nat /\ (n \div k) * k = n
<1>1. n \div k \in Nat /\ n = k * (n \div k) + (n % k)
  OBVIOUS
<1> DEFINE m == n \div k
<1> HIDE DEF m
<1>2. m \in Nat /\ n = k * m
  BY <1>1 DEF m
<1>3. k * m = m * k
  BY <1>2
<1>4. QED
  BY <1>2, <1>3 DEF m

\* With equal sizes it starts with a state for every k items.
LEMMA StatesOfMany ==
    ASSUME NEW n, NEW w, NEW k, Weighed(n, w, k), n > 0, n % k = 0
    PROVE  HeapOk(States(w, k, TRUE), n, w, k, TRUE)
<1> DEFINE order == AscendingBy(1 .. n, w)
           m == n \div k
           q == [o \in 0 .. m - 1 |-> [i \in 1 .. k |-> order[o * k + i]]]
           B == [o \in 0 .. m - 1 |-> [i \in 1 .. k |-> Bin(order[o * k + i], w)]]
           O == 0 .. m - 1
<1>1. n \in Nat \ {0} /\ k \in Nat \ {0} /\ w \in [1 .. n -> Nat \ {0}] /\ DOMAIN w = 1 .. n /\ Len(w) = n
  BY DEF Weighed
<1>2. States(w, k, TRUE) = {Descending(B[o]) : o \in O}
  <2>1. States(w, k, TRUE)
          = {Descending([i \in 1 .. k |-> Bin(order[o * k + i], w)]) : o \in 0 .. m - 1}
    BY <1>1 DEF States
  <2> HIDE DEF order, m
  <2>2. QED
    BY <2>1
<1>3. Enumerates(order, 1 .. n) /\ Cardinality(1 .. n) = n /\ IsFiniteSet(1 .. n)
  <2>1. 1 .. n \in SUBSET Int /\ \A x \in 1 .. n : w[x] \in Int
    BY <1>1
  <2>2. IsFiniteSet(1 .. n) /\ Cardinality(1 .. n) = n
    BY <1>1, FS_Interval
  <2>3. Enumerates(order, 1 .. n)
    BY <2>1, <2>2, AscendingByIs
  <2>4. QED
    BY <2>2, <2>3
<1> HIDE DEF order
<1>4. m \in Nat /\ m * k = n
  BY <1>1, WholeRows
<1>5. \A o \in O : B[o] = [i \in 1 .. k |-> Bin(q[o][i], w)]
  <2> HIDE DEF m
  <2>1. QED
    OBVIOUS
<1>6. \A o \in O : \A i \in 1 .. k : q[o][i] = order[o * k + i]
  <2> HIDE DEF m
  <2>1. QED
    OBVIOUS
<1>7. B = [o \in O |-> B[o]]
  <2> HIDE DEF m
  <2>1. QED
    OBVIOUS
<1> HIDE DEF q, B, m
<1>8. /\ \A o \in O, i \in 1 .. k : o * k + i \in 1 .. n
      /\ \A y \in 1 .. n : \E o \in O, i \in 1 .. k : y = o * k + i
      /\ \A o, p \in O : \A i, j \in 1 .. k : o * k + i = p * k + j => o = p /\ i = j
  <2>1. /\ \A o \in 0 .. m - 1, i \in 1 .. k : o * k + i \in 1 .. m * k
        /\ \A y \in 1 .. m * k : \E o \in 0 .. m - 1, i \in 1 .. k : y = o * k + i
        /\ \A o, p \in 0 .. m - 1 : \A i, j \in 1 .. k : o * k + i = p * k + j => o = p /\ i = j
    <3>1. Numbered(m, k)
      BY <1>1, <1>4, Grid
    <3>2. QED
      BY <3>1 DEF Numbered
  <2>2. QED
    BY <1>4, <2>1
<1>9. IsFiniteSet(O) /\ O # {}
  <2>1. IsFiniteSet(O)
    BY <1>4, FS_Interval
  <2>2. m # 0
    BY <1>1, <1>4
  <2>3. 0 \in O
    BY <1>4, <2>2
  <2>4. QED
    BY <2>1, <2>3
<1> HIDE DEF O
<1>10. /\ \A o \in O, i \in 1 .. k : q[o][i] \in 1 .. n
       /\ \A x \in 1 .. n : \E o \in O, i \in 1 .. k : q[o][i] = x
       /\ \A o, p \in O : \A i, j \in 1 .. k : q[o][i] = q[p][j] => o = p /\ i = j
  <2>1. /\ \A y \in 1 .. n : order[y] \in 1 .. n
        /\ \A y, z \in 1 .. n : order[y] = order[z] => y = z
        /\ \A x \in 1 .. n : \E y \in 1 .. n : order[y] = x
    BY <1>3 DEF Enumerates
  <2>2. \A o \in O, i \in 1 .. k : q[o][i] \in 1 .. n
    BY <1>6, <1>8, <2>1
  <2>3. ASSUME NEW x \in 1 .. n PROVE \E o \in O, i \in 1 .. k : q[o][i] = x
    <3>1. PICK y \in 1 .. n : order[y] = x
      BY <2>1
    <3>2. PICK o \in O, i \in 1 .. k : y = o * k + i
      BY <1>8
    <3>3. QED
      BY <1>6, <3>1, <3>2
  <2>4. ASSUME NEW o \in O, NEW p \in O, NEW i \in 1 .. k, NEW j \in 1 .. k, q[o][i] = q[p][j]
        PROVE  o = p /\ i = j
    <3>1. o * k + i \in 1 .. n /\ p * k + j \in 1 .. n
      BY <1>8
    <3>2. order[o * k + i] = order[p * k + j]
      BY <1>6, <2>4
    <3>3. o * k + i = p * k + j
      BY <2>1, <3>1, <3>2
    <3>4. QED
      BY <1>8, <3>3
  <2>5. QED
    BY <2>2, <2>3, <2>4
<1>11. ASSUME NEW o \in O
       PROVE  /\ B[o] \in [1 .. k -> Bins(n, w)]
              /\ \A i \in 1 .. k : B[o][i].items = {q[o][i]} /\ B[o][i].sum = w[q[o][i]]
  <2> DEFINE b == B[o]
             r == q[o]
  <2>1. b = [i \in 1 .. k |-> Bin(r[i], w)] /\ \A i \in 1 .. k : r[i] \in 1 .. n
    BY <1>5, <1>10
  <2> HIDE DEF b, r
  <2>2. \A x \in 1 .. n : Bin(x, w) \in Bins(n, w) /\ Bin(x, w).items = {x} /\ Bin(x, w).sum = w[x]
    BY SingleBins
  <2>3. \A i \in 1 .. k : b[i] = Bin(r[i], w)
    BY <2>1
  <2>4. \A i \in 1 .. k : b[i] \in Bins(n, w) /\ b[i].items = {r[i]} /\ b[i].sum = w[r[i]]
    BY <2>1, <2>2, <2>3
  <2>5. b \in [1 .. k -> Bins(n, w)]
    BY <2>1, <2>2
  <2>6. QED
    BY <2>4, <2>5 DEF b, r
<1>12. B \in [O -> [1 .. k -> Bins(n, w)]]
  BY <1>7, <1>11
<1>13. ASSUME NEW o \in O PROVE ItemsOf(B[o], k) = {q[o][i] : i \in 1 .. k}
  BY <1>11 DEF ItemsOf
<1>14. ASSUME NEW o \in O PROVE Apart(B[o], k) /\ ItemsOf(B[o], k) # {}
  <2>1. Apart(B[o], k)
    <3>1. \A i, j \in 1 .. k : i # j => q[o][i] # q[o][j]
      BY <1>10
    <3>2. \A i \in 1 .. k : B[o][i].items = {q[o][i]}
      BY <1>11
    <3>3. QED
      BY <3>1, <3>2 DEF Apart
  <2>2. 1 \in 1 .. k
    BY <1>1
  <2>3. QED
    BY <1>13, <2>1, <2>2
<1>15. ASSUME NEW o \in O PROVE Kept(Descending(B[o]), n, w, k, TRUE)
  <2> DEFINE b == B[o]
             d == Descending(b)
             r == q[o]
  <2>1. /\ b \in [1 .. k -> Bins(n, w)] /\ \A i \in 1 .. k : b[i].items = {r[i]} /\ b[i].sum = w[r[i]]
        /\ \A i \in 1 .. k : r[i] \in 1 .. n
    BY <1>10, <1>11
  <2> HIDE DEF b, r
  <2>2. d \in [1 .. k -> Bins(n, w)] /\ \E p : Permutes(d, b, p, k)
    BY <2>1, DescendingIs
  <2> HIDE DEF d
  <2>3. PICK p : Permutes(d, b, p, k)
    BY <2>2
  <2>4. /\ \A i \in 1 .. k : p[i] \in 1 .. k /\ d[i] = b[p[i]]
        /\ ItemsOf(d, k) = ItemsOf(b, k) /\ (Apart(b, k) => Apart(d, k))
    BY <2>3, PermutedIs, Zenon
  <2>5. ASSUME NEW i \in 1 .. k PROVE Cardinality(d[i].items) = 1
    <3>1. d[i].items = {r[p[i]]}
      BY <2>1, <2>4
    <3>2. QED
      BY <3>1, FS_Singleton, Zenon
  <2>6. Spread(d) = w[r[p[1]]] - w[r[p[k]]] /\ r[p[1]] \in 1 .. n /\ r[p[k]] \in 1 .. n
    <3>1. Len(d) = k /\ 1 \in 1 .. k /\ k \in 1 .. k
      BY <1>1, <2>2
    <3>2. p[1] \in 1 .. k /\ p[k] \in 1 .. k /\ d[1] = b[p[1]] /\ d[k] = b[p[k]]
      BY <2>4, <3>1
    <3>3. d[1].sum = w[r[p[1]]] /\ d[k].sum = w[r[p[k]]]
      BY <2>1, <3>2
    <3>4. Spread(d) = d[1].sum - d[k].sum
      BY <3>1, Zenon DEF Spread
    <3>5. r[p[1]] \in 1 .. n /\ r[p[k]] \in 1 .. n
      BY <2>1, <3>2
    <3>6. QED
      BY <3>3, <3>4, <3>5
  <2>7. \E x, y \in 1 .. n : Spread(d) <= w[x] - w[y]
    <3>1. w[r[p[1]]] - w[r[p[k]]] \in Int
      BY <1>1, <2>6
    <3>2. Spread(d) <= w[r[p[1]]] - w[r[p[k]]]
      BY <2>6, <3>1
    <3>3. QED
      BY <2>6, <3>2
  <2>8. Kept(d, n, w, k, TRUE)
    BY <2>5, <2>7 DEF Kept, Even
  <2>9. QED
    BY <2>8 DEF d, b
<1>16. StartOk(States(w, k, TRUE), B, O, n, w, k, TRUE)
  <2>1. ASSUME NEW o \in O, NEW p \in O, o # p PROVE ItemsOf(B[o], k) \cap ItemsOf(B[p], k) = {}
    <3>1. ItemsOf(B[o], k) = {q[o][j] : j \in 1 .. k} /\ ItemsOf(B[p], k) = {q[p][j] : j \in 1 .. k}
      BY <1>13
    <3>2. QED
      BY <1>10, <2>1, <3>1
  <2>2. ASSUME NEW x \in 1 .. n PROVE \E o \in O : x \in ItemsOf(B[o], k)
    <3>1. PICK o \in O, i \in 1 .. k : q[o][i] = x
      BY <1>10
    <3>2. ItemsOf(B[o], k) = {q[o][j] : j \in 1 .. k}
      BY <1>13
    <3>3. QED
      BY <3>1, <3>2
  <2>3. QED
    BY <1>2, <1>9, <1>12, <1>14, <1>15, <2>1, <2>2 DEF StartOk
<1>17. TRUE \in BOOLEAN
  OBVIOUS
<1>18. QED
  BY <1>16, <1>17, HeapOfDescending

-----------------------------------------------------------------------------
(* What karmarkar_karp returns *)

\* The items of each partition: none is empty, and every item is in one of them.
Division(parts, n, k) ==
    /\ parts = [p \in 1 .. k |-> parts[p]]
    /\ \A p \in 1 .. k : parts[p] \in SUBSET (1 .. n) /\ parts[p] # {}
    /\ \A p, q \in 1 .. k : p # q => parts[p] \cap parts[q] = {}
    /\ \A x \in 1 .. n : \E p \in 1 .. k : x \in parts[p]

\* karmarkar_karp places every item once and leaves no partition empty; with equal sizes the
\* numbers are equal and no loads differ by more than two items do.
LEMMA KarmarkarKarpIs ==
    ASSUME NEW n, NEW w, NEW k, Weighed(n, w, k), NEW equalSize \in BOOLEAN,
           n >= k, equalSize => n % k = 0
    PROVE  /\ Division(KarmarkarKarp(w, k, equalSize), n, k)
           /\ equalSize => \A p, q \in 1 .. k :
                 /\ Cardinality(KarmarkarKarp(w, k, equalSize)[p]) = Cardinality(KarmarkarKarp(w, k, equalSize)[q])
                 /\ \E x, y \in 1 .. n :
                       TotalOf(KarmarkarKarp(w, k, equalSize)[p], w)
                         - TotalOf(KarmarkarKarp(w, k, equalSize)[q], w) <= w[x] - w[y]
<1> DEFINE H == States(w, k, equalSize)
           F == HeapAfter(H, Cardinality(H) - 1)
           s == CHOOSE t \in F : TRUE
           parts == KarmarkarKarp(w, k, equalSize)
<1>1. n \in Nat \ {0} /\ k \in Nat \ {0} /\ w \in [1 .. n -> Nat \ {0}]
  BY DEF Weighed
<1>2. HeapOk(H, n, w, k, equalSize)
  <2>1. n > 0
    BY <1>1
  <2>2. CASE equalSize
    BY <2>1, <2>2, StatesOfMany
  <2>3. CASE ~equalSize
    <3>1. equalSize = FALSE
      BY <2>3
    <3>2. QED
      BY <2>1, <3>1, StatesOfOne
  <2>4. QED
    BY <2>2, <2>3
<1>3. parts = [p \in 1 .. k |-> s[p].items]
  BY DEF KarmarkarKarp
<1> HIDE DEF H, parts
<1>4. HeapOk(F, n, w, k, equalSize) /\ Cardinality(F) = 1
  BY <1>2, HeapAfterIs
<1> HIDE DEF F
<1>5. s \in F /\ \A t \in F : t = s
  <2>1. IsFiniteSet(F)
    BY <1>4 DEF HeapOk
  <2>2. PICK x : F = {x}
    BY <1>4, <2>1, FS_Singleton
  <2>3. QED
    BY <2>2
<1> HIDE DEF s
<1>6. StateOk(s, n, w, k) /\ Kept(s, n, w, k, equalSize) /\ ItemsOf(s, k) = 1 .. n
  BY <1>4, <1>5 DEF HeapOk
<1>7. \A p \in 1 .. k : parts[p] = s[p].items /\ s[p] \in Bins(n, w)
  BY <1>3, <1>6 DEF StateOk
<1>8. \A x \in 1 .. n : \E p \in 1 .. k : x \in s[p].items
  BY <1>6 DEF ItemsOf
<1>9. \A p, q \in 1 .. k : p # q => s[p].items \cap s[q].items = {}
  BY <1>6 DEF StateOk, Apart
<1>10. ASSUME NEW e \in 1 .. k, s[e].items = {} PROVE FALSE
  <2>1. CASE equalSize
    <3>1. 1 \in 1 .. n
      BY <1>1
    <3>2. PICK p \in 1 .. k : 1 \in s[p].items
      BY <1>8, <3>1
    <3>3. Cardinality(s[p].items) = Cardinality(s[e].items)
      BY <1>6, <2>1 DEF Kept, Even
    <3>4. IsFiniteSet(s[p].items) /\ IsFiniteSet(s[e].items)
      BY <1>7, BinIs
    <3>5. QED
      BY <1>10, <3>2, <3>3, <3>4, FS_EmptySet
  <2>2. CASE ~equalSize
    <3> DEFINE T == (1 .. k) \ {e}
               f == [x \in 1 .. n |-> CHOOSE p \in 1 .. k : x \in s[p].items]
    <3>1. ASSUME NEW x \in 1 .. n PROVE f[x] \in T /\ x \in s[f[x]].items
      BY <1>8, <1>10
    <3>2. f \in [1 .. n -> T]
      BY <3>1
    <3> HIDE DEF f
    <3>3. IsFiniteSet(1 .. n) /\ Cardinality(1 .. n) = n /\ IsFiniteSet(1 .. k) /\ Cardinality(1 .. k) = k
      BY <1>1, FS_Interval
    <3>4. IsFiniteSet(T) /\ Cardinality(T) = k - 1
      BY <3>3, FS_RemoveElement
    <3> HIDE DEF T
    <3>5. Cardinality(T) < Cardinality(1 .. n)
      BY <1>1, <3>3, <3>4
    <3>6. PICK x \in 1 .. n, y \in 1 .. n : x # y /\ f[x] = f[y]
      BY <3>2, <3>3, <3>4, <3>5, FS_PigeonHole
    <3>7. f[x] \in 1 .. k /\ x \in s[f[x]].items /\ y \in s[f[x]].items
      BY <3>1, <3>6 DEF T
    <3>8. Sparse(s, k)
      BY <1>6, <2>2 DEF Kept
    <3>9. QED
      BY <1>10, <3>6, <3>7, <3>8 DEF Sparse
  <2>3. QED
    BY <2>1, <2>2
<1>11. Division(parts, n, k)
  <2>1. parts = [p \in 1 .. k |-> parts[p]]
    BY <1>3
  <2>2. \A p \in 1 .. k : parts[p] \in SUBSET (1 .. n) /\ parts[p] # {}
    BY <1>7, <1>10 DEF Bins
  <2>3. QED
    BY <1>7, <1>8, <1>9, <2>1, <2>2 DEF Division
<1>12. ASSUME equalSize, NEW p \in 1 .. k, NEW q \in 1 .. k
       PROVE  /\ Cardinality(parts[p]) = Cardinality(parts[q])
              /\ \E x, y \in 1 .. n : TotalOf(parts[p], w) - TotalOf(parts[q], w) <= w[x] - w[y]
  <2>1. Even(s, n, w, k)
    BY <1>6, <1>12 DEF Kept
  <2>2. Cardinality(parts[p]) = Cardinality(parts[q])
    BY <1>7, <2>1 DEF Even
  <2>3. PICK x \in 1 .. n, y \in 1 .. n : Spread(s) <= w[x] - w[y]
    BY <2>1 DEF Even
  <2>4. Len(s) = k /\ 1 \in 1 .. k /\ k \in 1 .. k
    BY <1>1, <1>6 DEF StateOk
  <2>5. Spread(s) = s[1].sum - s[k].sum
    BY <2>4 DEF Spread
  <2>6. s[1].sum >= s[p].sum /\ s[q].sum >= s[k].sum
    <3>1. 1 <= p /\ q <= k
      BY <1>1
    <3>2. QED
      BY <1>6, <2>4, <3>1 DEF StateOk, Falling
  <2>7. /\ s[1].sum \in Nat /\ s[k].sum \in Nat /\ s[p].sum \in Nat /\ s[q].sum \in Nat
        /\ s[p].sum = TotalOf(parts[p], w) /\ s[q].sum = TotalOf(parts[q], w)
    <3>1. s[1] \in Bins(n, w) /\ s[k] \in Bins(n, w) /\ s[p] \in Bins(n, w) /\ s[q] \in Bins(n, w)
      BY <1>7, <2>4
    <3>2. /\ s[1].sum \in Nat /\ s[k].sum \in Nat /\ s[p].sum \in Nat /\ s[q].sum \in Nat
          /\ s[p].sum = TotalOf(s[p].items, w) /\ s[q].sum = TotalOf(s[q].items, w)
      BY <3>1, BinIs
    <3>3. QED
      BY <1>7, <3>2
  <2>8. w[x] \in Nat /\ w[y] \in Nat
    BY <1>1
  <2>9. TotalOf(parts[p], w) - TotalOf(parts[q], w) <= w[x] - w[y]
    BY <2>3, <2>5, <2>6, <2>7, <2>8
  <2>10. QED
    BY <2>2, <2>9
<1>13. QED
  BY <1>11, <1>12 DEF parts

-----------------------------------------------------------------------------
(* Permutations of places *)

Permutation(p, m) ==
    /\ p \in [1 .. m -> 1 .. m]
    /\ \A i, j \in 1 .. m : p[i] = p[j] => i = j
    /\ \A j \in 1 .. m : \E i \in 1 .. m : p[i] = j

\* An injection of a range into itself is a permutation.
LEMMA InjectionPermutes ==
    ASSUME NEW m \in Nat, NEW p \in [1 .. m -> 1 .. m], \A i, j \in 1 .. m : p[i] = p[j] => i = j
    PROVE  Permutation(p, m)
<1>1. IsFiniteSet(1 .. m)
  BY FS_Interval
<1>2. p \in Injection(1 .. m, 1 .. m)
  BY DEF Injection, IsInjective
<1>3. p \in Surjection(1 .. m, 1 .. m)
  BY <1>1, <1>2, FS_Injection
<1>4. QED
  BY <1>3 DEF Permutation, Surjection

\* Every element of S in one of n parts, once, and something in each.
Shares(parts, n, S) == Partitions(parts, n, S) /\ \A p \in 1 .. n : Len(parts[p]) > 0

\* Partitions in another order are partitions.
LEMMA SharesPermuted ==
    ASSUME NEW S, NEW m, NEW parts, NEW p, Shares(parts, m, S), Permutation(p, m)
    PROVE  Shares([i \in 1 .. m |-> parts[p[i]]], m, S)
<1> DEFINE images == [i \in 1 .. m |-> parts[p[i]]]
<1>1. \A i \in 1 .. m : /\ p[i] \in 1 .. m /\ images[i] = parts[p[i]] /\ parts[i] \in Seq(S)
                        /\ Len(parts[i]) > 0
  BY DEF Permutation, Partitions, Shares
<1>2. images \in [1 .. m -> Seq(S)]
  BY <1>1
<1> HIDE DEF images
<1>3. ASSUME NEW x \in S PROVE \E k \in 1 .. m : \E i \in 1 .. Len(images[k]) : images[k][i] = x
  <2>1. PICK l \in 1 .. m : \E i \in 1 .. Len(parts[l]) : parts[l][i] = x
    BY DEF Partitions, Shares
  <2>2. PICK k \in 1 .. m : p[k] = l
    BY DEF Permutation
  <2>3. QED
    BY <1>1, <2>1, <2>2
<1>4. ASSUME NEW k \in 1 .. m, NEW l \in 1 .. m, NEW i \in 1 .. Len(images[k]), NEW j \in 1 .. Len(images[l]),
             images[k][i] = images[l][j]
      PROVE  k = l /\ i = j
  <2>1. PICK a \in 1 .. m, b \in 1 .. m : a = p[k] /\ b = p[l]
    BY <1>1
  <2>2. i \in 1 .. Len(parts[a]) /\ j \in 1 .. Len(parts[b]) /\ parts[a][i] = parts[b][j]
    BY <1>1, <1>4, <2>1
  <2>3. a = b /\ i = j
    BY <2>2 DEF Partitions, Shares
  <2>4. QED
    BY <2>1, <2>3 DEF Permutation
<1>5. Partitions(images, m, S)
  BY <1>2, <1>3, <1>4 DEF Partitions
<1>6. Shares(images, m, S)
  BY <1>1, <1>5 DEF Shares
<1>7. QED
  BY <1>6 DEF images

\* The elements of s in another order.
Rearranges(t, s, m) == \E p : Permutation(p, m) /\ t = [i \in 1 .. m |-> s[p[i]]]

\* LargeInTheMiddle changes the order and nothing else.
LEMMA MiddlePermutes ==
    ASSUME NEW T, NEW m \in Nat, NEW s \in [1 .. m -> T]
    PROVE  Rearranges(LargeInTheMiddle(s), s, m)
<1> DEFINE half == (m + 1) \div 2
           p == [i \in 1 .. m |-> IF i <= half THEN 2 * (half - i) + 1 ELSE 2 * (i - half)]
<1>1. Len(s) = m /\ DOMAIN s = 1 .. m
  OBVIOUS
<1>2. half \in Nat /\ m <= 2 * half /\ 2 * half <= m + 1
  OBVIOUS
<1>3. LargeInTheMiddle(s) = [i \in 1 .. m |-> s[IF i <= half THEN 2 * (half - i) + 1 ELSE 2 * (i - half)]]
  BY <1>1 DEF LargeInTheMiddle
<1> HIDE DEF half
<1>4. \A i \in 1 .. m : (IF i <= half THEN 2 * (half - i) + 1 ELSE 2 * (i - half)) \in 1 .. m
  BY <1>2
<1>5. p \in [1 .. m -> 1 .. m]
  BY <1>4
<1>6. \A i \in 1 .. m : p[i] = IF i <= half THEN 2 * (half - i) + 1 ELSE 2 * (i - half)
  OBVIOUS
<1>7. LargeInTheMiddle(s) = [i \in 1 .. m |-> s[p[i]]]
  BY <1>3, <1>6
<1> HIDE DEF p
<1>8. \A i, j \in 1 .. m : p[i] = p[j] => i = j
  BY <1>2, <1>6
<1>9. Permutation(p, m)
  BY <1>5, <1>8, InjectionPermutes
<1>10. QED
  BY <1>7, <1>9 DEF Rearranges

\* So does SmallAtBothEnds.
LEMMA BothEndsPermutes ==
    ASSUME NEW T, NEW m \in Nat, NEW s \in [1 .. m -> T]
    PROVE  Rearranges(SmallAtBothEnds(s), s, m)
<1> DEFINE p == [i \in 1 .. m |-> IF 2 * i <= m + 1 THEN 2 * i - 1 ELSE 2 * ((m + 1) - i)]
<1>1. Len(s) = m /\ DOMAIN s = 1 .. m
  OBVIOUS
<1>2. \A i \in 1 .. m : m + 1 - i = (m + 1) - i
  OBVIOUS
<1>3. SmallAtBothEnds(s) = [i \in 1 .. m |-> s[IF 2 * i <= m + 1 THEN 2 * i - 1 ELSE 2 * ((m + 1) - i)]]
  BY <1>1, <1>2 DEF SmallAtBothEnds
<1>4. p \in [1 .. m -> 1 .. m]
  OBVIOUS
<1>5. \A i \in 1 .. m : p[i] = IF 2 * i <= m + 1 THEN 2 * i - 1 ELSE 2 * ((m + 1) - i)
  OBVIOUS
<1>6. SmallAtBothEnds(s) = [i \in 1 .. m |-> s[p[i]]]
  BY <1>3, <1>5
<1> HIDE DEF p
<1>7. \A i, j \in 1 .. m : p[i] = p[j] => i = j
  BY <1>5
<1>8. Permutation(p, m)
  BY <1>4, <1>7, InjectionPermutes
<1>9. QED
  BY <1>6, <1>8 DEF Rearranges

-----------------------------------------------------------------------------
(* What get_seqlen_balanced_partitions and rearrange_micro_batches return *)

\* A sequence of the elements of a set of numbers up to n.
Listed(s, S, n) ==
    /\ s \in Seq(1 .. n) /\ Len(s) = Cardinality(S) /\ Len(s) > 0
    /\ \A i \in 1 .. Len(s) : s[i] \in S
    /\ \A i, j \in 1 .. Len(s) : s[i] = s[j] => i = j
    /\ \A x \in S : \E i \in 1 .. Len(s) : s[i] = x
    /\ ToSet(s) = S

\* A sequence that enumerates a set of rows lists it.
LEMMA EnumeratesListed ==
    ASSUME NEW n \in Nat, NEW S \in SUBSET (1 .. n), S # {}, NEW s, Enumerates(s, S)
    PROVE  Listed(s, S, n)
<1> DEFINE c == Cardinality(S)
<1>1. IsFiniteSet(1 .. n)
  BY FS_Interval
<1>2. IsFiniteSet(S)
  BY <1>1, FS_Subset
<1>3. c \in Nat
  BY <1>2, FS_CardinalityType
<1>4. c # 0
  BY <1>2, FS_EmptySet
<1>5. /\ s = [i \in 1 .. c |-> s[i]] /\ Len(s) = c /\ \A i \in 1 .. c : s[i] \in S
      /\ \A i, j \in 1 .. c : s[i] = s[j] => i = j
      /\ \A x \in S : \E i \in 1 .. c : s[i] = x
  BY DEF Enumerates
<1> HIDE DEF c
<1>6. s \in [1 .. c -> 1 .. n]
  BY <1>5
<1>7. s \in Seq(1 .. n) /\ DOMAIN s = 1 .. c
  BY <1>3, <1>6, FunctionIsSeq
<1>8. ToSet(s) = S
  BY <1>5, <1>7 DEF ToSet
<1>9. Len(s) > 0
  BY <1>3, <1>4, <1>5
<1>10. QED
  BY <1>5, <1>7, <1>8, <1>9 DEF Listed, c

\* Ascending lists a set of rows.
LEMMA AscendingListed ==
    ASSUME NEW n \in Nat, NEW S \in SUBSET (1 .. n), S # {}
    PROVE  Listed(Ascending(S), S, n)
<1>1. IsFiniteSet(1 .. n)
  BY FS_Interval
<1>2. IsFiniteSet(S)
  BY <1>1, FS_Subset
<1>3. S \in SUBSET Int
  OBVIOUS
<1>4. Enumerates(Ascending(S), S)
  BY <1>2, <1>3, AscendingIs
<1>5. QED
  BY <1>4, EnumeratesListed

\* In another order it is still listed.
LEMMA ListedPermuted ==
    ASSUME NEW n \in Nat, NEW S, NEW s, NEW t, Listed(s, S, n), Rearranges(t, s, Len(s))
    PROVE  Listed(t, S, n)
<1> DEFINE c == Len(s)
<1>1. PICK p : Permutation(p, c) /\ t = [i \in 1 .. c |-> s[p[i]]]
  BY DEF Rearranges
<1>2. c \in Nat /\ c > 0 /\ c = Cardinality(S) /\ \A i \in 1 .. c : s[i] \in S /\ s[i] \in 1 .. n
  BY DEF Listed
<1>3. /\ \A i, j \in 1 .. c : s[i] = s[j] => i = j
      /\ \A x \in S : \E i \in 1 .. c : s[i] = x
  BY DEF Listed
<1> HIDE DEF c
<1>4. \A i \in 1 .. c : p[i] \in 1 .. c /\ t[i] = s[p[i]]
  BY <1>1 DEF Permutation
<1>5. t \in [1 .. c -> 1 .. n]
  BY <1>1, <1>2, <1>4
<1>6. t \in Seq(1 .. n) /\ Len(t) = c /\ DOMAIN t = 1 .. c
  BY <1>2, <1>5, FunctionIsSeq
<1>7. \A i, j \in 1 .. c : t[i] = t[j] => i = j
  BY <1>1, <1>3, <1>4 DEF Permutation
<1>8. ASSUME NEW x \in S PROVE \E i \in 1 .. c : t[i] = x
  <2>1. PICK j \in 1 .. c : s[j] = x
    BY <1>3
  <2>2. PICK i \in 1 .. c : p[i] = j
    BY <1>1 DEF Permutation
  <2>3. QED
    BY <1>4, <2>1, <2>2
<1>9. \A i \in 1 .. c : t[i] \in S
  BY <1>2, <1>4
<1>10. ToSet(t) = S
  BY <1>6, <1>8, <1>9 DEF ToSet
<1>11. QED
  BY <1>2, <1>6, <1>7, <1>8, <1>9, <1>10 DEF Listed

Sequenced(seqs, parts, n, k) ==
    /\ Partitions(seqs, k, 1 .. n)
    /\ \A p \in 1 .. k : Listed(seqs[p], parts[p], n)

\* Sets that divide the rows, each of them listed, are partitions.
LEMMA ListedSequenced ==
    ASSUME NEW n \in Nat, NEW k, NEW parts, Division(parts, n, k),
           NEW seqs, seqs = [p \in 1 .. k |-> seqs[p]], \A p \in 1 .. k : Listed(seqs[p], parts[p], n)
    PROVE  Sequenced(seqs, parts, n, k)
<1>1. seqs \in [1 .. k -> Seq(1 .. n)]
  <2>1. \A p \in 1 .. k : seqs[p] \in Seq(1 .. n)
    BY DEF Listed
  <2>2. QED
    BY <2>1
<1>2. ASSUME NEW x \in 1 .. n PROVE \E p \in 1 .. k : \E i \in 1 .. Len(seqs[p]) : seqs[p][i] = x
  <2>1. PICK p \in 1 .. k : x \in parts[p]
    BY DEF Division
  <2>2. QED
    BY <2>1 DEF Listed
<1>3. ASSUME NEW p \in 1 .. k, NEW q \in 1 .. k, NEW i \in 1 .. Len(seqs[p]), NEW j \in 1 .. Len(seqs[q]),
             seqs[p][i] = seqs[q][j]
      PROVE  p = q /\ i = j
  <2>1. seqs[p][i] \in parts[p] /\ seqs[q][j] \in parts[q]
    BY DEF Listed
  <2>2. p = q
    BY <1>3, <2>1 DEF Division
  <2>3. QED
    BY <1>3, <2>2 DEF Listed
<1>4. Partitions(seqs, k, 1 .. n)
  BY <1>1, <1>2, <1>3 DEF Partitions
<1>5. QED
  BY <1>4 DEF Sequenced

\* Sets that divide the rows, each of them sorted, are partitions.
LEMMA AscendingPartitions ==
    ASSUME NEW n \in Nat, NEW k, NEW parts, Division(parts, n, k)
    PROVE  Sequenced([p \in 1 .. k |-> Ascending(parts[p])], parts, n, k)
<1> DEFINE seqs == [p \in 1 .. k |-> Ascending(parts[p])]
<1>1. ASSUME NEW p \in 1 .. k
      PROVE  Listed(seqs[p], parts[p], n)
  <2>1. parts[p] \in SUBSET (1 .. n) /\ parts[p] # {}
    BY DEF Division
  <2>2. Listed(Ascending(parts[p]), parts[p], n)
    BY <2>1, AscendingListed
  <2>3. QED
    BY <2>2
<1>2. seqs = [p \in 1 .. k |-> seqs[p]]
  OBVIOUS
<1> HIDE DEF seqs
<1>3. Sequenced(seqs, parts, n, k)
  BY <1>1, <1>2, ListedSequenced
<1>4. QED
  BY <1>3 DEF seqs

\* Parts of equal size, whose weights differ by no more than two rows do.
Balanced(parts, n, w, k) ==
    \A p, q \in 1 .. k :
        /\ Cardinality(parts[p]) = Cardinality(parts[q])
        /\ \E x, y \in 1 .. n : TotalOf(parts[p], w) - TotalOf(parts[q], w) <= w[x] - w[y]

\* get_seqlen_balanced_partitions: every row in one partition, none empty; with
\* equal_size the partitions have as many rows each, and no two loads differ by more
\* than two of the rows do.
THEOREM BalancedPartitions ==
    ASSUME NEW n, NEW w, NEW k, Weighed(n, w, k), NEW equalSize \in BOOLEAN,
           n >= k, equalSize => n % k = 0
    PROVE  \E parts : /\ Division(parts, n, k)
                      /\ Sequenced(GetSeqlenBalancedPartitions(w, k, equalSize), parts, n, k)
                      /\ equalSize => Balanced(parts, n, w, k)
<1> DEFINE parts == KarmarkarKarp(w, k, equalSize)
           seqs == GetSeqlenBalancedPartitions(w, k, equalSize)
<1>1. /\ Division(parts, n, k)
      /\ equalSize => \A p, q \in 1 .. k :
            /\ Cardinality(parts[p]) = Cardinality(parts[q])
            /\ \E x, y \in 1 .. n : TotalOf(parts[p], w) - TotalOf(parts[q], w) <= w[x] - w[y]
  BY KarmarkarKarpIs
<1>2. seqs = [p \in 1 .. k |-> Ascending(parts[p])] /\ n \in Nat
  BY DEF GetSeqlenBalancedPartitions, Weighed
<1> HIDE DEF parts, seqs
<1>3. Sequenced([p \in 1 .. k |-> Ascending(parts[p])], parts, n, k)
  BY <1>1, <1>2, AscendingPartitions
<1>4. equalSize => Balanced(parts, n, w, k)
  BY <1>1 DEF Balanced
<1>5. Sequenced(seqs, parts, n, k)
  BY <1>2, <1>3
<1>6. QED
  BY <1>1, <1>4, <1>5 DEF seqs

\* The workload of a sequence that is not empty is positive.
LEMMA WorkloadsWeigh ==
    ASSUME NEW n \in Nat, NEW lens \in [1 .. n -> Nat \ {0}], NEW k \in Nat \ {0}
    PROVE  Weighed(n, Workloads(lens), k)
<1>1. \A i \in 1 .. n : CalculateWorkload(lens[i]) \in Nat \ {0}
  <2>1. SUFFICES ASSUME NEW x \in Nat \ {0} PROVE CalculateWorkload(x) \in Nat \ {0}
    OBVIOUS
  <2>2. x * x \in Nat
    OBVIOUS
  <2>3. QED
    BY <2>2 DEF CalculateWorkload
<1>2. Workloads(lens) \in [1 .. n -> Nat \ {0}]
  BY <1>1 DEF Workloads
<1>3. QED
  BY <1>2 DEF Weighed

\* Evaluated is the identity on partitions.
LEMMA SharesEvaluated ==
    ASSUME NEW S, NEW m \in Nat, NEW parts, Shares(parts, m, S)
    PROVE  Evaluated(parts) = parts
<1>1. parts = [p \in 1 .. m |-> parts[p]]
  BY DEF Shares, Partitions
<1>2. QED
  BY <1>1, EvaluatedIs

\* Listed partitions share the rows and none is empty.
LEMMA SequencedShares ==
    ASSUME NEW n, NEW k, NEW seqs, NEW parts, Sequenced(seqs, parts, n, k)
    PROVE  Shares(seqs, k, 1 .. n)
BY DEF Sequenced, Listed, Shares

\* What enumerates a range is a permutation of it.
LEMMA EnumeratesPermutes ==
    ASSUME NEW m \in Nat, NEW order, Enumerates(order, 1 .. m)
    PROVE  Permutation(order, m)
<1>1. Cardinality(1 .. m) = m
  BY FS_Interval
<1>2. order \in [1 .. m -> 1 .. m]
  BY <1>1 DEF Enumerates
<1>3. QED
  BY <1>1, <1>2 DEF Enumerates, Permutation

\* rearrange_micro_batches puts every row in one micro-batch, once, and leaves none
\* of them empty.
THEOREM RearrangeIs ==
    ASSUME NEW n \in Nat \ {0}, NEW lens \in [1 .. n -> Nat \ {0}], NEW number \in 1 .. n
    PROVE  Shares(RearrangeMicroBatches(lens, number), number, 1 .. n)
<1> DEFINE w == Workloads(lens)
           parts == GetSeqlenBalancedPartitions(w, number, FALSE)
           loads == [p \in 1 .. number |-> TotalOf(ToSet(parts[p]), w)]
           heads == [p \in 1 .. number |-> parts[p][1]]
           before == {e \in (1 .. number) \X (1 .. number) :
                          \/ loads[e[1]] > loads[e[2]]
                          \/ loads[e[1]] = loads[e[2]] /\ parts[e[1]][1] > parts[e[2]][1]}
           order == Ordered(1 .. number, before)
           sorted == [p \in 1 .. number |-> parts[order[p]]]
<1>1. Weighed(n, w, number) /\ number \in Nat
  BY WorkloadsWeigh
<1>2. Shares(parts, number, 1 .. n)
  <2> HIDE DEF w
  <2>1. n >= number
    OBVIOUS
  <2>2. PICK sets : /\ Division(sets, n, number)
                    /\ Sequenced(GetSeqlenBalancedPartitions(w, number, FALSE), sets, n, number)
    BY <1>1, <2>1, BalancedPartitions
  <2>3. QED
    BY <2>2, SequencedShares
<1>3. RearrangeMicroBatches(lens, number) = Evaluated(LargeInTheMiddle(sorted))
  <2>1. RearrangeMicroBatches(lens, number) = Evaluated(LargeInTheMiddle(HeaviestFirst(parts, loads)))
    BY DEF RearrangeMicroBatches
  <2>2. HeaviestFirst(parts, loads) = sorted
    <3> HIDE DEF w, loads, parts
    <3>1. parts = [p \in 1 .. number |-> parts[p]]
      BY <1>2 DEF Shares, Partitions
    <3>2. Len(parts) = number
      BY <1>1, <3>1
    <3>3. QED
      BY <3>2 DEF HeaviestFirst
  <2>3. QED
    BY <2>1, <2>2
<1>4. \A p \in 1 .. number : loads[p] \in Int
  <2>1. w \in [1 .. n -> Int]
    BY <1>1 DEF Weighed
  <2> HIDE DEF w, parts
  <2>2. ASSUME NEW p \in 1 .. number PROVE TotalOf(ToSet(parts[p]), w) \in Int
    BY <2>1, TotalOfIs
  <2>3. QED
    BY <2>2
<1> HIDE DEF loads
<1>5. /\ \A p \in 1 .. number : heads[p] \in Int
      /\ \A p, q \in 1 .. number : heads[p] = heads[q] => p = q
  <2> HIDE DEF parts
  <2>1. \A p \in 1 .. number : parts[p] \in Seq(1 .. n) /\ Len(parts[p]) > 0 /\ 1 \in 1 .. Len(parts[p])
    <3>1. parts \in [1 .. number -> Seq(1 .. n)] /\ \A p \in 1 .. number : Len(parts[p]) > 0
      BY <1>2 DEF Shares, Partitions
    <3>2. ASSUME NEW p \in 1 .. number
          PROVE  parts[p] \in Seq(1 .. n) /\ Len(parts[p]) > 0 /\ 1 \in 1 .. Len(parts[p])
      <4>1. parts[p] \in Seq(1 .. n) /\ Len(parts[p]) > 0
        BY <3>1
      <4>2. Len(parts[p]) \in Nat
        BY <4>1
      <4>3. QED
        BY <4>1, <4>2
    <3>3. QED
      BY <3>2
  <2>2. \A p \in 1 .. number : parts[p][1] \in 1 .. n
    BY <2>1
  <2>3. ASSUME NEW p \in 1 .. number, NEW q \in 1 .. number, parts[p][1] = parts[q][1]
        PROVE  p = q
    <3>1. 1 \in 1 .. Len(parts[p]) /\ 1 \in 1 .. Len(parts[q])
      BY <2>1
    <3>2. QED
      BY <1>2, <2>3, <3>1 DEF Shares, Partitions
  <2>4. QED
    BY <2>2, <2>3
<1>6. before = {e \in (1 .. number) \X (1 .. number) :
                    \/ loads[e[1]] > loads[e[2]]
                    \/ loads[e[1]] = loads[e[2]] /\ heads[e[1]] > heads[e[2]]}
  OBVIOUS
<1> HIDE DEF heads, before, parts
<1>7. Orders(before, 1 .. number)
  <2>1. \A x, y \in 1 .. number : <<x, y>> \in before <=>
            (loads[x] > loads[y] \/ (loads[x] = loads[y] /\ heads[x] > heads[y]))
    BY <1>6
  <2> HIDE DEF before
  <2>2. \A x \in 1 .. number : <<x, x>> \notin before
    BY <1>4, <1>5, <2>1
  <2>3. ASSUME NEW x \in 1 .. number, NEW y \in 1 .. number, NEW z \in 1 .. number,
               <<x, y>> \in before, <<y, z>> \in before
        PROVE  <<x, z>> \in before
    <3>1. /\ loads[x] > loads[y] \/ (loads[x] = loads[y] /\ heads[x] > heads[y])
          /\ loads[y] > loads[z] \/ (loads[y] = loads[z] /\ heads[y] > heads[z])
      BY <2>1, <2>3
    <3>2. loads[x] \in Int /\ loads[y] \in Int /\ loads[z] \in Int
      BY <1>4
    <3>3. heads[x] \in Int /\ heads[y] \in Int /\ heads[z] \in Int
      BY <1>5
    <3>4. loads[x] > loads[z] \/ (loads[x] = loads[z] /\ heads[x] > heads[z])
      BY <3>1, <3>2, <3>3
    <3>5. QED
      BY <2>1, <3>4
  <2>4. ASSUME NEW x \in 1 .. number, NEW y \in 1 .. number, x # y
        PROVE  <<x, y>> \in before \/ <<y, x>> \in before
    <3>1. heads[x] # heads[y]
      BY <1>5, <2>4
    <3>2. loads[x] \in Int /\ loads[y] \in Int
      BY <1>4
    <3>3. heads[x] \in Int /\ heads[y] \in Int
      BY <1>5
    <3>4. QED
      BY <2>1, <3>1, <3>2, <3>3
  <2>5. QED
    BY <2>2, <2>3, <2>4 DEF Orders
<1>8. IsFiniteSet(1 .. number)
  BY <1>1, FS_Interval
<1>9. Enumerates(order, 1 .. number)
  BY <1>7, <1>8, OrderedIs
<1> HIDE DEF order
<1>10. Permutation(order, number)
  BY <1>1, <1>9, EnumeratesPermutes
<1>11. Shares(sorted, number, 1 .. n)
  BY <1>2, <1>10, SharesPermuted
<1> HIDE DEF sorted
<1>12. sorted \in [1 .. number -> Seq(1 .. n)]
  BY <1>11 DEF Shares, Partitions
<1>13. Rearranges(LargeInTheMiddle(sorted), sorted, number)
  BY <1>1, <1>12, MiddlePermutes
<1>14. Shares(LargeInTheMiddle(sorted), number, 1 .. n)
  BY <1>11, <1>13, SharesPermuted DEF Rearranges
<1>15. QED
  BY <1>1, <1>3, <1>14, SharesEvaluated

\* get_reverse_idx inverts a permutation.
LEMMA ReverseIs ==
    ASSUME NEW n \in Nat, NEW idx, Enumerates(idx, 1 .. n), NEW i \in 1 .. n
    PROVE  GetReverseIdx(idx)[i] \in 1 .. n /\ idx[GetReverseIdx(idx)[i]] = i
<1>1. Cardinality(1 .. n) = n
  BY FS_Interval
<1>2. DOMAIN idx = 1 .. n /\ \E j \in 1 .. n : idx[j] = i
  BY <1>1 DEF Enumerates
<1>3. GetReverseIdx(idx)[i] = CHOOSE j \in 1 .. n : idx[j] = i
  BY <1>2 DEF GetReverseIdx
<1>4. QED
  BY <1>2, <1>3

\* What was computed from the rows of the micro-batches, one after the other, is put
\* back in the order of the rows.
THEOREM RestoreIs ==
    ASSUME NEW T, NEW n \in Nat \ {0}, NEW col \in [1 .. n -> T],
           NEW m \in Nat \ {0}, NEW micros, Shares(micros, m, 1 .. n)
    PROVE  RestoreDynamicBatch(FlattenSeq([k \in DOMAIN micros |->
               [i \in DOMAIN micros[k] |-> col[micros[k][i]]]]), micros) = col
<1> DEFINE images == [k \in 1 .. m |-> [i \in 1 .. Len(micros[k]) |-> col[micros[k][i]]]]
           idx == FlattenSeq(micros)
           rows == FlattenSeq(images)
<1>1. micros \in [1 .. m -> Seq(1 .. n)] /\ DOMAIN micros = 1 .. m
  BY DEF Shares, Partitions
<1>2. [k \in DOMAIN micros |-> [i \in DOMAIN micros[k] |-> col[micros[k][i]]]] = images
  <2>1. ASSUME NEW k \in 1 .. m
        PROVE  DOMAIN micros[k] = 1 .. Len(micros[k])
    <3>1. micros[k] \in Seq(1 .. n)
      BY <1>1
    <3>2. QED
      BY <3>1
  <2>2. QED
    BY <1>1, <2>1
<1>3. IsFiniteSet(1 .. n) /\ Cardinality(1 .. n) = n
  BY FS_Interval
<1>4. Enumerates(idx, 1 .. n)
  <2>1. Partitions(micros, m, 1 .. n)
    BY DEF Shares
  <2>2. QED
    BY <1>3, <2>1, FlattenPartitions
<1>5. rows = [i \in 1 .. Len(idx) |-> col[idx[i]]]
  <2>1. images = [k \in 1 .. m |-> images[k]] /\ \A k \in 1 .. m : Looked(images[k], micros[k], col)
    BY DEF Looked
  <2> HIDE DEF images
  <2>2. Looked(FlattenSeq(images), FlattenSeq(micros), col)
    BY <1>1, <2>1, FlattenMapped
  <2>3. QED
    BY <2>2 DEF Looked
<1> HIDE DEF images, rows
<1>6. RestoreDynamicBatch(rows, micros) = [i \in DOMAIN rows |-> rows[GetReverseIdx(idx)[i]]]
  BY DEF RestoreDynamicBatch
<1> HIDE DEF idx
<1>7. Len(idx) = n /\ \A i \in 1 .. n : idx[i] \in 1 .. n
  BY <1>3, <1>4 DEF Enumerates
<1>8. DOMAIN rows = 1 .. n /\ \A i \in 1 .. n : rows[i] = col[idx[i]]
  BY <1>5, <1>7
<1>9. ASSUME NEW i \in 1 .. n PROVE rows[GetReverseIdx(idx)[i]] = col[i]
  <2>1. GetReverseIdx(idx)[i] \in 1 .. n /\ idx[GetReverseIdx(idx)[i]] = i
    BY <1>4, ReverseIs
  <2>2. QED
    BY <1>8, <2>1
<1>10. RestoreDynamicBatch(rows, micros) = col
  BY <1>6, <1>8, <1>9
<1>11. QED
  BY <1>2, <1>10 DEF rows

\* The tokens of rows that are not empty are some.
LEMMA TotalAtLeastOne ==
    ASSUME NEW n \in Nat \ {0}, NEW lens \in [1 .. n -> Nat \ {0}]
    PROVE  Total(lens) \in Nat \ {0}
<1>1. lens \in [1 .. n -> Int] /\ \A i \in 1 .. n : lens[i] > 0
  OBVIOUS
<1>2. TotalOf(1 .. n, lens) = Total(Chosen(1 .. n, lens, n))
  BY <1>1, TotalOfIs
<1>3. Chosen(1 .. n, lens, n) = lens
  BY DEF Chosen
<1>4. TotalOf(1 .. n, lens) \in Nat /\ (1 .. n # {} => TotalOf(1 .. n, lens) > 0)
  <2>1. 1 .. n \in SUBSET (1 .. n)
    OBVIOUS
  <2>2. QED
    BY <1>1, <2>1, TotalOfPositive
<1>5. 1 \in 1 .. n
  OBVIOUS
<1>6. QED
  BY <1>2, <1>3, <1>4, <1>5

\* Rounding up a positive quotient leaves a positive number.
LEMMA RoundedUp ==
    ASSUME NEW a \in Nat \ {0}, NEW b \in Nat \ {0}
    PROVE  (a + b - 1) \div b \in Nat \ {0}
<1>1. (a + b - 1) \div b = ((a - 1) + b) \div b
  OBVIOUS
<1>2. ((a - 1) + b) \div b = (a - 1) \div b + 1
  OBVIOUS
<1>3. (a - 1) \div b \in Nat
  OBVIOUS
<1>4. QED
  BY <1>1, <1>2, <1>3

\* There is at least one micro-batch and at most one per row.
LEMMA NumMicroBatchesIs ==
    ASSUME NEW n \in Nat \ {0}, NEW lens \in [1 .. n -> Nat \ {0}], NEW most \in Nat \ {0}
    PROVE  NumMicroBatches(lens, most) \in 1 .. n
<1> DEFINE c == (Total(lens) + most - 1) \div most
<1>1. Total(lens) \in Nat \ {0}
  BY TotalAtLeastOne
<1>2. c \in Nat \ {0}
  BY <1>1, RoundedUp
<1>3. Len(lens) = n
  OBVIOUS
<1>4. NumMicroBatches(lens, most) = Min({n, c})
  BY <1>3 DEF NumMicroBatches
<1> HIDE DEF c
<1>5. Min({n, c}) \in {n, c} /\ Min({n, c}) <= n
  <2>1. \E x \in {n, c} : \A y \in {n, c} : x <= y
    BY <1>2
  <2>2. QED
    BY <2>1 DEF Min
<1>6. QED
  BY <1>2, <1>4, <1>5

\* The largest of some numbers up to n.
LEMMA MaxIs ==
    ASSUME NEW n \in Nat, NEW S \in SUBSET (1 .. n), S # {}
    PROVE  Max(S) \in S /\ \A x \in S : x <= Max(S)
<1> DEFINE T == {n - x : x \in S}
<1>1. T \in SUBSET Nat /\ T # {}
  <2>1. \A x \in S : n - x \in Nat
    OBVIOUS
  <2>2. QED
    BY <2>1
<1> HIDE DEF T
<1>2. PICK m \in T : \A k \in T : m <= k
  BY <1>1, Least
<1>3. PICK y \in S : m = n - y
  BY <1>2 DEF T
<1>4. \A x \in S : x <= y
  <2>1. SUFFICES ASSUME NEW x \in S PROVE x <= y
    OBVIOUS
  <2>2. n - x \in T
    BY DEF T
  <2>3. m <= n - x /\ x \in Int /\ y \in Int
    BY <1>2, <2>2
  <2>4. QED
    BY <1>3, <2>3
<1>5. QED
  BY <1>4 DEF Max

\* As many rows in every part.
Aligned(parts, n, k, size) ==
    /\ Partitions(parts, k, 1 .. n) /\ size \in Nat
    /\ \A p \in 1 .. k : Len(parts[p]) = size

\* Every part has its place in the sequence of them all.
Placed(s, parts, k, size) ==
    \A p \in 1 .. k : \A i \in 1 .. size : s[(p - 1) * size + i] = parts[p][i]

\* Parts that are all as long as each other follow one another at equal distances.
LEMMA EqualParts ==
    ASSUME NEW n \in Nat, NEW k \in Nat \ {0}, NEW parts, NEW size, Aligned(parts, n, k, size)
    PROVE  n = k * size /\ Enumerates(FlattenSeq(parts), 1 .. n) /\ Placed(FlattenSeq(parts), parts, k, size)
<1>0. Partitions(parts, k, 1 .. n) /\ size \in Nat /\ \A p \in 1 .. k : Len(parts[p]) = size
  BY DEF Aligned
<1> DEFINE F == FlattenSeq(parts)
           start == [d \in 0 .. k |-> d * size]
<1>1. parts \in [1 .. k -> Seq(1 .. n)]
  BY <1>0 DEF Partitions
<1>2. PICK off : Offsets(off, parts, k) /\ Lays(F, parts, off, k) /\ F \in Seq(1 .. n) /\ Len(F) = off[k]
  BY <1>1, FlattenIs
<1>3. IsFiniteSet(1 .. n) /\ Cardinality(1 .. n) = n
  BY FS_Interval
<1>4. Enumerates(F, 1 .. n)
  BY <1>0, <1>3, FlattenPartitions
<1>5. Len(F) = n
  BY <1>3, <1>4 DEF Enumerates
<1> HIDE DEF F
<1>6. \A d \in 0 .. k : start[d] = d * size
  OBVIOUS
<1> HIDE DEF start
<1>7. Begins(start, parts, k)
  <2>1. start[0] = 0
    BY <1>0, <1>6
  <2>2. ASSUME NEW d \in 1 .. k PROVE start[d] = start[d - 1] + Len(parts[d])
    <3>1. d \in 0 .. k /\ d - 1 \in 0 .. k
      OBVIOUS
    <3>2. start[d - 1] = (d - 1) * size /\ start[d] = d * size
      BY <1>6, <3>1
    <3>3. d * size = (d - 1) * size + size
      BY <1>0
    <3>4. QED
      BY <1>0, <3>2, <3>3
  <2>3. QED
    BY <2>1, <2>2 DEF Begins
<1>8. \A d \in 0 .. k : off[d] = d * size
  <2>1. k \in Nat /\ Begins(off, parts, k)
    BY <1>2 DEF Offsets
  <2>2. \A d \in 0 .. k : off[d] = start[d]
    BY <1>7, <2>1, OffsetsAgree
  <2>3. QED
    BY <1>6, <2>2
<1>9. n = k * size
  <2>1. k \in 0 .. k
    OBVIOUS
  <2>2. QED
    BY <1>2, <1>5, <1>8, <2>1
<1>10. ASSUME NEW p \in 1 .. k, NEW i \in 1 .. size PROVE F[(p - 1) * size + i] = parts[p][i]
  <2>1. p - 1 \in 0 .. k /\ i \in 1 .. Len(parts[p])
    BY <1>0
  <2>2. F[off[p - 1] + i] = parts[p][i]
    BY <1>2, <2>1 DEF Lays
  <2>3. off[p - 1] = (p - 1) * size
    BY <1>8, <2>1
  <2>4. QED
    BY <2>2, <2>3
<1>11. QED
  BY <1>4, <1>9, <1>10 DEF F, Placed

\* Placing the short rows of every rank at both ends moves no row to another rank.
LEMMA BothEndsSequenced ==
    ASSUME NEW n \in Nat, NEW k, NEW sets, Division(sets, n, k), NEW seqs, Sequenced(seqs, sets, n, k),
           NEW w \in [1 .. n -> Int]
    PROVE  Sequenced([d \in 1 .. k |-> SmallAtBothEnds(AscendingBy(ToSet(seqs[d]), w))], sets, n, k)
<1> DEFINE parts == [d \in 1 .. k |-> SmallAtBothEnds(AscendingBy(ToSet(seqs[d]), w))]
<1>1. ASSUME NEW d \in 1 .. k PROVE Listed(parts[d], sets[d], n)
  <2> DEFINE S == sets[d]
             s == AscendingBy(S, w)
  <2>1. ToSet(seqs[d]) = S
    BY DEF Sequenced, Listed
  <2>2. S \in SUBSET (1 .. n) /\ S # {}
    BY DEF Division
  <2> HIDE DEF S
  <2>3. IsFiniteSet(1 .. n)
    BY FS_Interval
  <2>4. IsFiniteSet(S)
    BY <2>2, <2>3, FS_Subset
  <2>5. S \in SUBSET Int /\ \A x \in S : w[x] \in Int
    BY <2>2
  <2>6. Enumerates(s, S)
    BY <2>4, <2>5, AscendingByIs
  <2>7. parts[d] = SmallAtBothEnds(s)
    BY <2>1
  <2> HIDE DEF s, parts
  <2>8. Listed(s, S, n)
    BY <2>2, <2>6, EnumeratesListed
  <2>9. Len(s) \in Nat /\ s \in [1 .. Len(s) -> 1 .. n]
    <3>1. s \in Seq(1 .. n)
      BY <2>8 DEF Listed
    <3>2. QED
      BY <3>1, SeqIsFunction
  <2>10. Rearranges(SmallAtBothEnds(s), s, Len(s))
    BY <2>9, BothEndsPermutes
  <2>11. Listed(SmallAtBothEnds(s), S, n)
    BY <2>8, <2>10, ListedPermuted
  <2>12. QED
    BY <2>7, <2>11 DEF S
<1>2. parts = [d \in 1 .. k |-> parts[d]]
  OBVIOUS
<1> HIDE DEF parts
<1>3. Sequenced(parts, sets, n, k)
  BY <1>1, <1>2, ListedSequenced
<1>4. QED
  BY <1>3 DEF parts

-----------------------------------------------------------------------------
(* Groups of rows that stay together *)

\* p groups of as many rows, one after the other.
Asked(p, times) == [i \in 1 .. (times * p) |-> (i - 1) \div times + 1]

Heads(q, times) == {o * times + 1 : o \in 0 .. q - 1}

\* As many rows begin a group as there are groups.
LEMMA HeadsNumber ==
    ASSUME NEW q \in Nat, NEW times \in Nat \ {0}
    PROVE  IsFiniteSet(Heads(q, times)) /\ Cardinality(Heads(q, times)) = q
<1> DEFINE f == [x \in 1 .. q |-> (x - 1) * times + 1]
           H == Heads(q, times)
<1>1. IsFiniteSet(1 .. q) /\ Cardinality(1 .. q) = q
  BY FS_Interval
<1>2. Numbered(q, times)
  BY Grid
<1>3. f \in [1 .. q -> H]
  <2>1. ASSUME NEW x \in 1 .. q PROVE (x - 1) * times + 1 \in H
    <3>1. PICK o \in 0 .. q - 1 : o = x - 1
      OBVIOUS
    <3>2. o * times + 1 \in H
      BY DEF Heads
    <3>3. QED
      BY <3>1, <3>2
  <2>2. QED
    BY <2>1
<1>4. \A x \in 1 .. q : f[x] = (x - 1) * times + 1
  OBVIOUS
<1> HIDE DEF f
<1>5. ASSUME NEW x \in 1 .. q, NEW y \in 1 .. q, f[x] = f[y] PROVE x = y
  <2>1. PICK a \in 0 .. q - 1, b \in 0 .. q - 1 : a = x - 1 /\ b = y - 1
    OBVIOUS
  <2>2. a * times + 1 = b * times + 1 /\ 1 \in 1 .. times
    BY <1>4, <1>5, <2>1
  <2>3. a = b
    BY <1>2, <2>2 DEF Numbered
  <2>4. QED
    BY <2>1, <2>3
<1>6. ASSUME NEW h \in H PROVE \E x \in 1 .. q : f[x] = h
  <2>1. PICK o \in 0 .. q - 1 : h = o * times + 1
    BY DEF Heads
  <2>2. PICK x \in 1 .. q : x - 1 = o
    <3>1. o + 1 \in 1 .. q /\ (o + 1) - 1 = o
      OBVIOUS
    <3>2. QED
      BY <3>1
  <2>3. QED
    BY <1>4, <2>1, <2>2
<1>7. f \in Bijection(1 .. q, H)
  BY <1>3, <1>5, <1>6 DEF Bijection, Injection, Surjection, IsInjective
<1>8. ExistsBijection(1 .. q, H)
  BY <1>7 DEF ExistsBijection
<1>9. QED
  BY <1>1, <1>8, FS_Bijection

\* The rows of a group.
RowsOfGroup(g, p, times) == {i \in 1 .. (times * p) : Asked(p, times)[i] = g}

Begin(uids) == {i \in DOMAIN uids : i = 1 \/ uids[i - 1] # uids[i]}

\* The prompts of a batch in which each was repeated, row by row.
LEMMA AskedIs ==
    ASSUME NEW p \in Nat \ {0}, NEW times \in Nat \ {0}
    PROVE  /\ p * times = times * p /\ times * p \in Nat \ {0} /\ Numbered(p, times)
           /\ DOMAIN Asked(p, times) = 1 .. (times * p)
           /\ \A o \in 0 .. p - 1 : \A j \in 1 .. times :
                 o * times + j \in 1 .. (times * p) /\ Asked(p, times)[o * times + j] = o + 1
<1>1. p * times = times * p /\ times * p \in Nat \ {0} /\ Numbered(p, times)
  BY Grid
<1>2. ASSUME NEW o \in 0 .. p - 1, NEW j \in 1 .. times
      PROVE  o * times + j \in 1 .. (times * p) /\ Asked(p, times)[o * times + j] = o + 1
  <2> DEFINE i == o * times + j
  <2>1. i \in 1 .. (times * p)
    BY <1>1 DEF Numbered
  <2>2. o * times \in Nat /\ i - 1 = o * times + (j - 1) /\ j - 1 \in 0 .. times - 1
    OBVIOUS
  <2>3. (o * times + (j - 1)) \div times = o
    BY <2>2
  <2> HIDE DEF i
  <2>4. Asked(p, times)[i] = (i - 1) \div times + 1
    BY <2>1 DEF Asked
  <2>5. Asked(p, times)[i] = o + 1
    BY <2>2, <2>3, <2>4
  <2>6. QED
    BY <2>1, <2>5 DEF i
<1>3. QED
  BY <1>1, <1>2 DEF Asked

\* A row begins a group if and only if it is the first of the rows of a prompt.
LEMMA BeginIs ==
    ASSUME NEW p \in Nat \ {0}, NEW times \in Nat \ {0}
    PROVE  Begin(Asked(p, times)) = Heads(p, times)
<1> DEFINE A == Asked(p, times)
           n == times * p
<1>1. p * times = n /\ n \in Nat \ {0} /\ Numbered(p, times) /\ DOMAIN A = 1 .. n
      /\ \A o \in 0 .. p - 1 : \A j \in 1 .. times : o * times + j \in 1 .. n /\ A[o * times + j] = o + 1
  BY AskedIs
<1> HIDE DEF A, n
<1>2. ASSUME NEW i \in 1 .. n, NEW o \in 0 .. p - 1, NEW j \in 1 .. times, i = o * times + j
      PROVE  (i = 1 \/ A[i - 1] # A[i]) <=> j = 1
  <2>1. A[i] = o + 1 /\ o * times \in Nat
    BY <1>1, <1>2
  <2>2. CASE j # 1
    <3>1. j - 1 \in 1 .. times /\ i - 1 = o * times + (j - 1) /\ i # 1
      BY <1>2, <2>1, <2>2
    <3>2. A[i - 1] = o + 1
      BY <1>1, <3>1
    <3>3. QED
      BY <2>1, <2>2, <3>1, <3>2
  <2>3. CASE j = 1 /\ o # 0
    <3>1. PICK a \in 0 .. p - 1 : a = o - 1
      BY <2>3
    <3>2. a * times + times = o * times
      BY <3>1
    <3>3. i - 1 = a * times + times /\ times \in 1 .. times
      BY <1>2, <2>1, <2>3, <3>2
    <3>4. A[i - 1] = a + 1
      BY <1>1, <3>3
    <3>5. QED
      BY <2>1, <2>3, <3>1, <3>4
  <2>4. CASE j = 1 /\ o = 0
    <3>1. 0 * times = 0
      OBVIOUS
    <3>2. i = 1
      BY <1>2, <2>4, <3>1
    <3>3. QED
      BY <2>4, <3>2
  <2>5. QED
    BY <2>2, <2>3, <2>4
<1>3. ASSUME NEW i \in Begin(A) PROVE i \in Heads(p, times)
  <2>1. i \in 1 .. n /\ (i = 1 \/ A[i - 1] # A[i])
    BY <1>1 DEF Begin
  <2>2. i \in 1 .. p * times
    BY <1>1, <2>1
  <2>3. PICK o \in 0 .. p - 1, j \in 1 .. times : i = o * times + j
    BY <1>1, <2>2 DEF Numbered
  <2>4. j = 1
    BY <1>2, <2>1, <2>3
  <2>5. QED
    BY <2>3, <2>4 DEF Heads
<1>4. ASSUME NEW i \in Heads(p, times) PROVE i \in Begin(A)
  <2>1. PICK o \in 0 .. p - 1 : i = o * times + 1
    BY DEF Heads
  <2>2. 1 \in 1 .. times
    OBVIOUS
  <2>3. i \in 1 .. n
    BY <1>1, <2>1, <2>2
  <2>4. i = 1 \/ A[i - 1] # A[i]
    BY <1>2, <2>1, <2>2, <2>3
  <2>5. QED
    BY <1>1, <2>3, <2>4 DEF Begin
<1>5. QED
  BY <1>3, <1>4 DEF A

\* How many groups begin up to a row says which group it is in.
LEMMA BeginsCount ==
    ASSUME NEW p \in Nat \ {0}, NEW times \in Nat \ {0}, NEW i \in 1 .. (times * p)
    PROVE  Cardinality({j \in Heads(p, times) : j <= i}) = Asked(p, times)[i]
<1>1. p * times = times * p /\ Numbered(p, times)
      /\ \A o \in 0 .. p - 1 : \A j \in 1 .. times :
            o * times + j \in 1 .. (times * p) /\ Asked(p, times)[o * times + j] = o + 1
  BY AskedIs
<1>2. i \in 1 .. p * times
  BY <1>1
<1>3. PICK o \in 0 .. p - 1, r \in 1 .. times : i = o * times + r
  BY <1>1, <1>2 DEF Numbered
<1>4. Asked(p, times)[i] = o + 1 /\ o + 1 \in Nat
  BY <1>1, <1>3
<1>5. {j \in Heads(p, times) : j <= i} = Heads(o + 1, times)
  <2>1. \A a \in 0 .. p - 1 : a * times + 1 <= i <=> a <= o
    <3>1. SUFFICES ASSUME NEW a \in 0 .. p - 1 PROVE a * times + 1 <= i <=> a <= o
      OBVIOUS
    <3>2. a * times \in Nat /\ o * times \in Nat
      OBVIOUS
    <3>3. a <= o => a * times <= o * times
      OBVIOUS
    <3>4. o < a => o * times + times <= a * times
      <4>1. SUFFICES ASSUME o < a PROVE o * times + times <= a * times
        OBVIOUS
      <4>2. o + 1 <= a
        BY <4>1
      <4>3. (o + 1) * times <= a * times
        BY <4>2
      <4>4. (o + 1) * times = o * times + times
        OBVIOUS
      <4>5. QED
        BY <4>3, <4>4
    <3>5. QED
      BY <1>3, <3>2, <3>3, <3>4
  <2>2. ASSUME NEW j \in Heads(p, times), j <= i PROVE j \in Heads(o + 1, times)
    <3>1. PICK a \in 0 .. p - 1 : j = a * times + 1
      BY DEF Heads
    <3>2. a \in 0 .. (o + 1) - 1
      BY <2>1, <2>2, <3>1
    <3>3. QED
      BY <3>1, <3>2 DEF Heads
  <2>3. ASSUME NEW j \in Heads(o + 1, times) PROVE j \in Heads(p, times) /\ j <= i
    <3>1. PICK a \in 0 .. (o + 1) - 1 : j = a * times + 1
      BY DEF Heads
    <3>2. a \in 0 .. p - 1 /\ a <= o
      OBVIOUS
    <3>3. j <= i
      BY <2>1, <3>1, <3>2
    <3>4. QED
      BY <3>1, <3>2, <3>3 DEF Heads
  <2>4. QED
    BY <2>2, <2>3
<1>6. QED
  BY <1>4, <1>5, HeadsNumber

\* So many rows hold these groups, and so much work.
Holds(rows, groups, times, w, loads) ==
    /\ IsFiniteSet(rows) /\ IsFiniteSet(groups) /\ Cardinality(groups) \in Nat
    /\ Cardinality(rows) = times * Cardinality(groups)
    /\ TotalOf(rows, w) = TotalOf(groups, loads)

RowsIn(groups, p, times) == {i \in 1 .. (times * p) : Asked(p, times)[i] \in groups}

\* What the rows of every group weigh.
GroupLoads(p, times, w) == [g \in 1 .. p |-> TotalOf(RowsOfGroup(g, p, times), w)]

\* Every prompt has as many rows as it was repeated.
LEMMA GroupIs ==
    ASSUME NEW p \in Nat \ {0}, NEW times \in Nat \ {0}, NEW g \in 1 .. p
    PROVE  /\ IsFiniteSet(RowsOfGroup(g, p, times)) /\ Cardinality(RowsOfGroup(g, p, times)) = times
           /\ RowsOfGroup(g, p, times) # {}
<1> DEFINE n == times * p
           R == RowsOfGroup(g, p, times)
<1>1. p * times = n /\ n \in Nat \ {0} /\ Numbered(p, times)
      /\ \A o \in 0 .. p - 1 : \A j \in 1 .. times : o * times + j \in 1 .. n /\ Asked(p, times)[o * times + j] = o + 1
  BY AskedIs
<1>2. PICK o \in 0 .. p - 1 : o + 1 = g
  <2>1. g - 1 \in 0 .. p - 1 /\ (g - 1) + 1 = g
    OBVIOUS
  <2>2. QED
    BY <2>1
<1> HIDE DEF n
<1>3. o * times \in Nat
  OBVIOUS
<1> DEFINE first == o * times
<1>4. R = (first + 1) .. (first + times)
  <2>1. ASSUME NEW i \in R PROVE i \in (first + 1) .. (first + times)
    <3>1. i \in 1 .. n /\ Asked(p, times)[i] = g
      BY DEF RowsOfGroup, n
    <3>2. i \in 1 .. p * times
      BY <1>1, <3>1
    <3>3. PICK a \in 0 .. p - 1, j \in 1 .. times : i = a * times + j
      BY <1>1, <3>2 DEF Numbered
    <3>4. a + 1 = g
      BY <1>1, <3>1, <3>3
    <3>5. a = o
      BY <1>2, <3>4
    <3>6. i = first + j
      BY <3>3, <3>5
    <3> HIDE DEF first
    <3>7. QED
      BY <1>3, <3>6 DEF first
  <2>2. ASSUME NEW i \in (first + 1) .. (first + times) PROVE i \in R
    <3>1. PICK j \in 1 .. times : i = first + j
      <4> HIDE DEF first
      <4>1. first \in Nat
        BY <1>3 DEF first
      <4>2. i - first \in 1 .. times /\ i = first + (i - first)
        BY <4>1
      <4>3. QED
        BY <4>2
    <3>2. i \in 1 .. n /\ Asked(p, times)[i] = g
      BY <1>1, <1>2, <3>1
    <3>3. QED
      BY <3>2 DEF RowsOfGroup, n
  <2> HIDE DEF R, first
  <2>3. QED
    BY <2>1, <2>2
<1> HIDE DEF R, first
<1>5. first \in Nat
  BY <1>3 DEF first
<1>6. IsFiniteSet((first + 1) .. (first + times))
      /\ Cardinality((first + 1) .. (first + times))
           = IF first + 1 > first + times THEN 0 ELSE (first + times) - (first + 1) + 1
  BY <1>5, FS_Interval
<1>7. (IF first + 1 > first + times THEN 0 ELSE (first + times) - (first + 1) + 1) = times
  BY <1>5
<1>8. first + 1 \in R
  BY <1>4, <1>5
<1>9. QED
  BY <1>4, <1>6, <1>7, <1>8 DEF R

\* The rows of a set of prompts: their number and their load.
LEMMA GroupsHold ==
    ASSUME NEW p \in Nat \ {0}, NEW times \in Nat \ {0}, NEW n \in Nat, n = times * p, NEW w \in [1 .. n -> Int],
           NEW groups \in SUBSET (1 .. p)
    PROVE  Holds(RowsIn(groups, p, times), groups, times, w, GroupLoads(p, times, w))
<1> DEFINE loads == GroupLoads(p, times, w)
           To(m) == groups \cap (1 .. m)
           S == {m \in 0 .. p : Holds(RowsIn(To(m), p, times), To(m), times, w, loads)}
<1>1. loads \in [1 .. p -> Int]
  <2>1. \A g \in 1 .. p : TotalOf(RowsOfGroup(g, p, times), w) \in Int
    BY TotalOfIs
  <2>2. QED
    BY <2>1 DEF GroupLoads
<1>2. 0 \in S
  <2>1. To(0) = {} /\ RowsIn(To(0), p, times) = {}
    BY DEF RowsIn
  <2> HIDE DEF loads
  <2>2. TotalOf({}, w) = 0 /\ TotalOf({}, loads) = 0
    BY <1>1, TotalOfEmpty
  <2>3. IsFiniteSet({}) /\ Cardinality({}) = 0 /\ times * 0 = 0
    BY FS_EmptySet
  <2> HIDE DEF To
  <2>4. Holds({}, {}, times, w, loads)
    BY <2>2, <2>3 DEF Holds
  <2> HIDE DEF loads
  <2>5. Holds(RowsIn(To(0), p, times), To(0), times, w, loads)
    BY <2>1, <2>4
  <2>6. 0 \in 0 .. p
    OBVIOUS
  <2>7. QED
    BY <2>5, <2>6
<1>3. ASSUME NEW m \in 0 .. p - 1, m \in S PROVE m + 1 \in S
  <2> DEFINE g == m + 1
             A == To(m)
             R == RowsIn(A, p, times)
  <2>1. g \in 1 .. p /\ m + 1 \in 0 .. p
    OBVIOUS
  <2>2. Holds(R, A, times, w, loads)
    BY <1>3
  <2>3. CASE g \notin groups
    <3>1. To(g) = A
      BY <2>1, <2>3
    <3>2. QED
      BY <2>1, <2>2, <3>1
  <2>4. CASE g \in groups
    <3> DEFINE B == A \cup {g}
               Q == RowsOfGroup(g, p, times)
    <3>1. To(g) = B
      BY <2>1, <2>4
    <3>2. g \notin A
      OBVIOUS
    <3>3. RowsIn(B, p, times) = R \cup Q /\ R \cap Q = {}
      BY <3>2 DEF RowsIn, RowsOfGroup
    <3>4. IsFiniteSet(Q) /\ Cardinality(Q) = times
      BY <2>1, GroupIs
    <3>5. loads[g] = TotalOf(Q, w)
      BY <2>1 DEF GroupLoads
    <3> HIDE DEF Q, R, A, loads
    <3>6. IsFiniteSet(R) /\ IsFiniteSet(A) /\ Cardinality(A) \in Nat /\ Cardinality(R) = times * Cardinality(A)
          /\ TotalOf(R, w) = TotalOf(A, loads)
      BY <2>2 DEF Holds
    <3>7. IsFiniteSet(B) /\ Cardinality(B) = Cardinality(A) + 1
      BY <3>2, <3>6, FS_AddElement
    <3>8. IsFiniteSet(R \cup Q) /\ Cardinality(R \cup Q) = Cardinality(R) + times
      <4>1. Cardinality(R \cap Q) = 0
        BY <3>3, FS_EmptySet
      <4>2. IsFiniteSet(R \cup Q) /\ Cardinality(R \cup Q) = Cardinality(R) + Cardinality(Q) - Cardinality(R \cap Q)
        BY <3>4, <3>6, FS_Union
      <4>3. Cardinality(R) \in Nat
        BY <3>6, FS_CardinalityType
      <4>4. QED
        BY <3>4, <4>1, <4>2, <4>3
    <3>9. times * (Cardinality(A) + 1) = times * Cardinality(A) + times
      BY <3>6
    <3>10. TotalOf(R \cup Q, w) = TotalOf(R, w) + TotalOf(Q, w)
      BY <3>3, TotalOfUnion
    <3>11. TotalOf(B, loads) = TotalOf(A, loads) + TotalOf({g}, loads) /\ TotalOf({g}, loads) = loads[g]
      <4>1. A \cap {g} = {}
        BY <3>2
      <4> HIDE DEF g
      <4>2. TotalOf({g}, loads) = loads[g]
        BY <1>1, <2>1, TotalOfSingle
      <4>3. QED
        BY <1>1, <4>1, <4>2, TotalOfUnion
    <3> HIDE DEF B
    <3>12. Holds(R \cup Q, B, times, w, loads)
      BY <3>5, <3>6, <3>7, <3>8, <3>9, <3>10, <3>11 DEF Holds
    <3>13. RowsIn(To(g), p, times) = R \cup Q
      BY <3>1, <3>3
    <3> HIDE DEF To
    <3>14. Holds(RowsIn(To(g), p, times), To(g), times, w, loads)
      BY <3>1, <3>12, <3>13
    <3>15. QED
      BY <2>1, <3>14
  <2>5. QED
    BY <2>3, <2>4
<1>4. p \in S
  <2> HIDE DEF S
  <2>1. \A m \in 0 .. p : m \in S
    BY <1>2, <1>3, Induct
  <2>2. QED
    BY <2>1
<1>5. To(p) = groups
  OBVIOUS
<1>6. QED
  BY <1>4, <1>5

\* The parts are made of whole groups, equally many, and weigh the same but for a group.
GroupsBalanced(sets, k, p, times, w) ==
    /\ \A d \in 1 .. k : \E q \in Nat : Cardinality(sets[d]) = times * q
    /\ \A c, d \in 1 .. k :
         /\ Cardinality(sets[c]) = Cardinality(sets[d])
         /\ \E g, h \in 1 .. p : TotalOf(sets[c], w) - TotalOf(sets[d], w)
              <= TotalOf(RowsOfGroup(g, p, times), w) - TotalOf(RowsOfGroup(h, p, times), w)
    /\ \A d \in 1 .. k : \A i \in sets[d] : \A j \in 1 .. (times * p) :
         Asked(p, times)[j] = Asked(p, times)[i] => j \in sets[d]

Groups(p, times, n, k) == p \in Nat \ {0} /\ times \in Nat \ {0} /\ n = times * p /\ k \in 1 .. p /\ p % k = 0

\* get_group_balanced_partitions: every row on one rank, with all rows of its prompt;
\* as many rows on each, and no two loads differ by more than two of the prompts do.
THEOREM GroupPartitions ==
    ASSUME NEW p, NEW times, NEW n, NEW k, Groups(p, times, n, k), NEW lens \in [1 .. n -> Nat \ {0}],
           NEW uids, uids = Asked(p, times)
    PROVE  \E sets : /\ Division(sets, n, k)
                     /\ Sequenced(GetGroupBalancedPartitions(lens, uids, k), sets, n, k)
                     /\ GroupsBalanced(sets, k, p, times, Workloads(lens))
<1> DEFINE w == Workloads(lens)
           starts == {i \in DOMAIN uids : i = 1 \/ uids[i - 1] # uids[i]}
           RowsOf(g) == {i \in DOMAIN uids : Cardinality({j \in starts : j <= i}) = g}
           weights == [g \in 1 .. Cardinality(starts) |-> TotalOf(RowsOf(g), w)]
           loads == GroupLoads(p, times, w)
           groups == GetSeqlenBalancedPartitions(loads, k, TRUE)
           parts == GetGroupBalancedPartitions(lens, uids, k)
<1>1. /\ p \in Nat \ {0} /\ times \in Nat \ {0} /\ k \in 1 .. p /\ k \in Nat \ {0} /\ p >= k
      /\ n \in Nat /\ n = times * p
  BY DEF Groups
<1>0. p % k = 0
  BY DEF Groups
<1>2. Weighed(n, w, k)
  BY <1>1, WorkloadsWeigh
<1>3. n \in Nat /\ w \in [1 .. n -> Nat \ {0}] /\ w \in [1 .. n -> Int] /\ \A i \in 1 .. n : w[i] > 0
  <2> HIDE DEF w
  <2>1. n \in Nat /\ w \in [1 .. n -> Nat \ {0}]
    BY <1>2 DEF Weighed
  <2>2. \A i \in 1 .. n : w[i] \in Nat \ {0}
    BY <2>1
  <2>3. QED
    BY <2>1, <2>2
<1>4. DOMAIN uids = 1 .. n
  BY <1>1, AskedIs
<1>5. starts = Heads(p, times)
  <2>1. starts = Begin(uids)
    BY DEF Begin
  <2>2. QED
    BY <1>1, <2>1, BeginIs
<1>6. Cardinality(starts) = p
  BY <1>1, <1>5, HeadsNumber
<1> HIDE DEF starts
<1>7. ASSUME NEW g PROVE RowsOf(g) = RowsOfGroup(g, p, times)
  <2>1. \A i \in 1 .. n : Cardinality({j \in starts : j <= i}) = Asked(p, times)[i]
    BY <1>1, <1>5, BeginsCount
  <2>2. QED
    BY <1>1, <1>4, <2>1 DEF RowsOfGroup
<1>8. weights = loads
  <2>1. loads = [g \in 1 .. p |-> TotalOf(RowsOfGroup(g, p, times), w)]
    BY DEF GroupLoads
  <2> HIDE DEF w, RowsOf
  <2>2. QED
    BY <1>6, <1>7, <2>1
<1>9. parts = [q \in 1 .. k |-> Ascending(UNION {RowsOf(g) : g \in ToSet(groups[q])})]
  <2>1. parts = [q \in 1 .. k |->
           Ascending(UNION {RowsOf(g) : g \in ToSet(GetSeqlenBalancedPartitions(weights, k, TRUE)[q])})]
    BY DEF GetGroupBalancedPartitions, starts
  <2>2. QED
    BY <1>8, <2>1
<1> HIDE DEF weights, parts
<1>10. Weighed(p, loads, k)
  <2>1. ASSUME NEW g \in 1 .. p PROVE TotalOf(RowsOfGroup(g, p, times), w) \in Nat \ {0}
    <3>0. RowsOfGroup(g, p, times) # {}
      BY <1>1, GroupIs
    <3>1. RowsOfGroup(g, p, times) \in SUBSET (1 .. n) /\ RowsOfGroup(g, p, times) # {}
      BY <1>1, <3>0 DEF RowsOfGroup
    <3> HIDE DEF w
    <3>2. /\ TotalOf(RowsOfGroup(g, p, times), w) \in Nat
          /\ RowsOfGroup(g, p, times) # {} => TotalOf(RowsOfGroup(g, p, times), w) > 0
      BY <1>3, <3>1, TotalOfPositive
    <3>3. QED
      BY <3>1, <3>2
  <2> HIDE DEF w
  <2>2. loads \in [1 .. p -> Nat \ {0}]
    BY <2>1 DEF GroupLoads
  <2>3. QED
    BY <1>1, <2>2 DEF Weighed
<1> HIDE DEF w, loads
<1>11. PICK cut : Division(cut, p, k) /\ Sequenced(groups, cut, p, k) /\ Balanced(cut, p, loads, k)
  BY <1>0, <1>1, <1>10, BalancedPartitions
<1> DEFINE sets == [d \in 1 .. k |-> RowsIn(cut[d], p, times)]
<1>12. ASSUME NEW d \in 1 .. k PROVE cut[d] \in SUBSET (1 .. p) /\ cut[d] # {} /\ ToSet(groups[d]) = cut[d]
  BY <1>11 DEF Division, Sequenced, Listed
<1> HIDE DEF groups
<1>13. ASSUME NEW d \in 1 .. k PROVE UNION {RowsOf(g) : g \in ToSet(groups[d])} = sets[d]
  <2>1. {RowsOf(g) : g \in ToSet(groups[d])} = {RowsOfGroup(g, p, times) : g \in cut[d]}
    <3> HIDE DEF RowsOf
    <3>1. QED
      BY <1>7, <1>12
  <2>2. UNION {RowsOfGroup(g, p, times) : g \in cut[d]} = RowsIn(cut[d], p, times)
    BY DEF RowsOfGroup, RowsIn
  <2>3. QED
    BY <2>1, <2>2
<1>14. parts = [d \in 1 .. k |-> Ascending(sets[d])]
  <2> HIDE DEF RowsOf, sets
  <2>1. QED
    BY <1>9, <1>13
<1>15. \A i \in 1 .. n : Asked(p, times)[i] \in 1 .. p
  <2>1. SUFFICES ASSUME NEW i \in 1 .. n PROVE Asked(p, times)[i] \in 1 .. p
    OBVIOUS
  <2>2. p * times = times * p /\ Numbered(p, times)
        /\ \A o \in 0 .. p - 1 : \A j \in 1 .. times :
              o * times + j \in 1 .. (times * p) /\ Asked(p, times)[o * times + j] = o + 1
    BY <1>1, AskedIs
  <2>3. i \in 1 .. p * times
    BY <1>1, <2>2
  <2>4. PICK o \in 0 .. p - 1, j \in 1 .. times : i = o * times + j
    BY <2>2, <2>3 DEF Numbered
  <2>5. Asked(p, times)[i] = o + 1
    BY <2>2, <2>4
  <2>6. o + 1 \in 1 .. p
    BY <1>1
  <2>7. QED
    BY <2>5, <2>6
<1>16. Division(sets, n, k)
  <2>1. ASSUME NEW d \in 1 .. k PROVE sets[d] \in SUBSET (1 .. n) /\ sets[d] # {}
    <3>1. PICK g \in cut[d] : g \in 1 .. p
      BY <1>12
    <3>2. PICK i : i \in RowsOfGroup(g, p, times)
      BY <1>1, <3>1, GroupIs
    <3>3. i \in RowsIn(cut[d], p, times)
      BY <3>1, <3>2 DEF RowsIn, RowsOfGroup
    <3>4. RowsIn(cut[d], p, times) \subseteq 1 .. n
      BY <1>1 DEF RowsIn
    <3>5. sets[d] = RowsIn(cut[d], p, times)
      OBVIOUS
    <3>6. QED
      BY <3>3, <3>4, <3>5
  <2>2. ASSUME NEW c \in 1 .. k, NEW d \in 1 .. k, c # d PROVE sets[c] \cap sets[d] = {}
    <3>1. cut[c] \cap cut[d] = {}
      BY <1>11, <2>2 DEF Division
    <3>2. QED
      BY <3>1 DEF RowsIn
  <2>3. ASSUME NEW x \in 1 .. n PROVE \E d \in 1 .. k : x \in sets[d]
    <3>1. PICK d \in 1 .. k : Asked(p, times)[x] \in cut[d]
      BY <1>11, <1>15 DEF Division
    <3>2. QED
      BY <1>1, <3>1 DEF RowsIn
  <2>4. sets = [d \in 1 .. k |-> sets[d]]
    OBVIOUS
  <2> HIDE DEF sets
  <2>5. QED
    BY <2>1, <2>2, <2>3, <2>4 DEF Division
<1>17. ASSUME NEW d \in 1 .. k PROVE Holds(sets[d], cut[d], times, w, loads)
  BY <1>1, <1>3, <1>12, GroupsHold DEF loads
<1>18. \A d \in 1 .. k : \A i \in sets[d] : \A j \in 1 .. (times * p) :
          Asked(p, times)[j] = Asked(p, times)[i] => j \in sets[d]
  BY DEF RowsIn
<1> HIDE DEF sets
<1>19. \A d \in 1 .. k : \E q \in Nat : Cardinality(sets[d]) = times * q
  BY <1>17 DEF Holds
<1>20. ASSUME NEW c \in 1 .. k, NEW d \in 1 .. k
       PROVE  /\ Cardinality(sets[c]) = Cardinality(sets[d])
              /\ \E g, h \in 1 .. p : TotalOf(sets[c], w) - TotalOf(sets[d], w)
                   <= TotalOf(RowsOfGroup(g, p, times), w) - TotalOf(RowsOfGroup(h, p, times), w)
  <2>1. Cardinality(cut[c]) = Cardinality(cut[d])
        /\ \E x, y \in 1 .. p : TotalOf(cut[c], loads) - TotalOf(cut[d], loads) <= loads[x] - loads[y]
    BY <1>11 DEF Balanced
  <2>2. \A g \in 1 .. p : loads[g] = TotalOf(RowsOfGroup(g, p, times), w)
    BY DEF loads, GroupLoads
  <2>3. /\ Cardinality(sets[c]) = times * Cardinality(cut[c]) /\ Cardinality(sets[d]) = times * Cardinality(cut[d])
        /\ TotalOf(sets[c], w) = TotalOf(cut[c], loads) /\ TotalOf(sets[d], w) = TotalOf(cut[d], loads)
    BY <1>17 DEF Holds
  <2>4. QED
    BY <2>1, <2>2, <2>3
<1>21. GroupsBalanced(sets, k, p, times, w)
  BY <1>18, <1>19, <1>20 DEF GroupsBalanced
<1>22. Sequenced(parts, sets, n, k)
  BY <1>3, <1>14, <1>16, AscendingPartitions
<1>23. QED
  BY <1>16, <1>21, <1>22 DEF w, parts
================================================================================

---------------------------- MODULE Foundations ----------------------------
(***************************************************************************)
(* Facts about numbers and sequences that the proofs of several components *)
(* rest on.                                                                *)
(***************************************************************************)
EXTENDS Integers, Subsequences, FiniteSetTheorems, WellFoundedInduction, TLAPS

\* A set of naturals that is not empty has a least element.
LEMMA LeastElement ==
  ASSUME NEW S \in SUBSET Nat, S # {}
  PROVE  \E k \in S : \A j \in S : k <= j
<1>1. PICK k \in S : \A j \in S : ~ (<<j, k>> \in OpToRel(<, Nat))
  BY NatLessThanWellFounded, WFMin
<1>2. \A j \in S : ~ (j < k)
  BY <1>1 DEF OpToRel
<1> QED
  BY <1>2

\* A bounded one has a greatest.
LEMMA GreatestElement ==
  ASSUME NEW m \in Nat, NEW K \in SUBSET (0 .. m), K # {}
  PROVE  \E k \in K : \A j \in K : j <= k
<1> DEFINE S == {n \in Nat : n <= m /\ m - n \in K}
<1>1. S \in SUBSET Nat
  OBVIOUS
<1>2. S # {}
  <2>1. PICK k \in K : TRUE
    OBVIOUS
  <2>2. m - k \in Nat /\ m - k <= m /\ m - (m - k) = k
    BY <2>1
  <2> QED
    BY <2>1, <2>2
<1>3. PICK n \in S : \A i \in S : n <= i
  <2> HIDE DEF S
  <2> QED
    BY <1>1, <1>2, LeastElement
<1>4. \A j \in K : m - j \in S
  <2> SUFFICES ASSUME NEW j \in K PROVE m - j \in S
    OBVIOUS
  <2>1. j \in Nat /\ j <= m /\ m - (m - j) = j
    OBVIOUS
  <2> QED
    BY <2>1
<1>5. \A j \in K : j <= m - n
  <2> SUFFICES ASSUME NEW j \in K PROVE j <= m - n
    OBVIOUS
  <2>1. n <= m - j
    BY <1>3, <1>4
  <2>2. j \in Nat /\ n \in Nat
    BY <1>3
  <2> QED
    BY <2>1, <2>2
<1> QED
  BY <1>3, <1>5

\* Induction, with the statement as a set: the library's theorem takes an
\* operator, which the provers cannot instantiate.
LEMMA Inductive ==
  ASSUME NEW S, 0 \in S, \A n \in Nat : n \in S => n + 1 \in S
  PROVE  Nat \subseteq S
<1> SUFFICES ASSUME Nat \ S # {} PROVE FALSE
  OBVIOUS
<1>1. PICK k \in Nat \ S : \A j \in Nat \ S : k <= j
  BY LeastElement
<1>2. k # 0 /\ k - 1 \in Nat
  BY <1>1
<1>3. k - 1 \in S
  BY <1>1, <1>2
<1> QED
  BY <1>1, <1>2, <1>3

\* e counts the numbers K upwards.
Counts(e, K) ==
  /\ e \in [1 .. Cardinality(K) -> K]
  /\ \A i, j \in DOMAIN e : i < j => e[i] < e[j]
  /\ \A n \in DOMAIN e : Cardinality({j \in K : j <= e[n]}) = n
  /\ \A k \in K : \E n \in DOMAIN e : e[n] = k

\* Counting goes on to a number above the others.
LEMMA CountsOn ==
  ASSUME NEW n \in Nat, NEW H \in SUBSET (1 .. n), NEW e, Counts(e, H)
  PROVE  \E g : Counts(g, H \cup {n + 1})
<1> DEFINE c == Cardinality(H)
           L == H \cup {n + 1}
           g == [i \in 1 .. c + 1 |-> IF i = c + 1 THEN n + 1 ELSE e[i]]
<1>1. c \in Nat /\ Cardinality(L) = c + 1
  <2>1. IsFiniteSet(1 .. n)
    BY FS_Interval
  <2>2. IsFiniteSet(H) /\ n + 1 \notin H
    <3>1. IsFiniteSet(H)
      BY <2>1, FS_Subset
    <3> QED
      BY <3>1
  <2> QED
    BY <2>2, FS_CardinalityType, FS_AddElement
<1>2. /\ DOMAIN e = 1 .. c
      /\ \A i \in 1 .. c : e[i] \in H /\ e[i] \in 1 .. n
      /\ \A i, j \in 1 .. c : i < j => e[i] < e[j]
      /\ \A i \in 1 .. c : Cardinality({j \in H : j <= e[i]}) = i
      /\ \A k \in H : \E i \in 1 .. c : e[i] = k
  BY DEF Counts
<1> HIDE DEF c
<1>3. DOMAIN g = 1 .. c + 1 /\ g[c + 1] = n + 1 /\ \A i \in 1 .. c : g[i] = e[i]
  BY <1>1
<1>4. g \in [1 .. c + 1 -> L]
  BY <1>1, <1>2
<1> HIDE DEF g
<1>5. ASSUME NEW i \in 1 .. c + 1, NEW j \in 1 .. c + 1, i < j PROVE g[i] < g[j]
  <2>1. i \in 1 .. c
    BY <1>1, <1>5
  <2>2. CASE j = c + 1
    <3>1. e[i] < n + 1
      BY <2>1, <1>2
    <3> QED
      BY <2>1, <2>2, <3>1, <1>3
  <2>3. CASE j # c + 1
    <3>1. j \in 1 .. c
      BY <1>1, <2>3
    <3> QED
      BY <2>1, <3>1, <1>2, <1>3, <1>5
  <2> QED
    BY <2>2, <2>3
<1>6. ASSUME NEW i \in 1 .. c + 1 PROVE Cardinality({j \in L : j <= g[i]}) = i
  <2>1. CASE i = c + 1
    <3>1. \A j \in L : j <= n + 1
      OBVIOUS
    <3>2. g[i] = n + 1
      BY <2>1, <1>3
    <3>3. {j \in L : j <= g[i]} = L
      BY <3>1, <3>2
    <3> QED
      BY <3>3, <2>1, <1>1
  <2>2. CASE i # c + 1
    <3>1. i \in 1 .. c /\ g[i] = e[i] /\ e[i] \in 1 .. n
      BY <2>2, <1>1, <1>2, <1>3
    <3>2. {j \in L : j <= e[i]} = {j \in H : j <= e[i]}
      BY <3>1
    <3> QED
      BY <3>1, <3>2, <1>2
  <2> QED
    BY <2>1, <2>2
<1>7. ASSUME NEW k \in L PROVE \E i \in 1 .. c + 1 : g[i] = k
  <2>1. CASE k = n + 1
    BY <2>1, <1>1, <1>3
  <2>2. CASE k # n + 1
    <3>1. PICK i \in 1 .. c : e[i] = k
      BY <2>2, <1>2
    <3>2. i \in 1 .. c + 1 /\ g[i] = k
      BY <3>1, <1>1, <1>3
    <3> QED
      BY <3>2
  <2> QED
    BY <2>1, <2>2
<1> HIDE DEF L
<1>8. Counts(g, L)
  BY <1>1, <1>3, <1>4, <1>5, <1>6, <1>7 DEF Counts
<1> QED
  BY <1>8 DEF L

\* Any bounded set of numbers can be counted upwards.
LEMMA CountedOff ==
  ASSUME NEW m \in Nat, NEW K \in SUBSET (1 .. m)
  PROVE  \E e : Counts(e, K)
<1> DEFINE P == {n \in Nat : \A L \in SUBSET (1 .. n) : \E e : Counts(e, L)}
<1>1. 0 \in P
  <2> SUFFICES ASSUME NEW L \in SUBSET (1 .. 0) PROVE \E e : Counts(e, L)
    OBVIOUS
  <2>1. L = {}
    OBVIOUS
  <2>2. Cardinality(L) = 0
    BY <2>1, FS_EmptySet
  <2>3. Counts([n \in {} |-> n], L)
    BY <2>1, <2>2 DEF Counts
  <2> QED
    BY <2>3
<1>2. ASSUME NEW n \in Nat, n \in P PROVE n + 1 \in P
  <2> SUFFICES ASSUME NEW L \in SUBSET (1 .. n + 1) PROVE \E e : Counts(e, L)
    OBVIOUS
  <2>1. PICK e : Counts(e, L \ {n + 1})
    <3>1. L \ {n + 1} \in SUBSET (1 .. n)
      OBVIOUS
    <3> QED
      BY <3>1, <1>2
  <2>2. CASE n + 1 \notin L
    <3>1. L \ {n + 1} = L
      BY <2>2
    <3> QED
      BY <2>1, <3>1
  <2>3. CASE n + 1 \in L
    <3>1. (L \ {n + 1}) \cup {n + 1} = L /\ L \ {n + 1} \in SUBSET (1 .. n)
      BY <2>3
    <3> QED
      BY <2>1, <3>1, CountsOn
  <2> QED
    BY <2>2, <2>3
<1> HIDE DEF P
<1>3. Nat \subseteq P
  BY <1>1, <1>2, Inductive
<1>4. m \in P
  BY <1>3
<1> QED
  BY <1>4 DEF P

\* And Nth is how.
LEMMA NthCounts ==
  ASSUME NEW m \in Nat, NEW K \in SUBSET (1 .. m)
  PROVE  /\ Cardinality(K) \in 0 .. m
         /\ \A n \in 1 .. Cardinality(K) : Nth(K, n) \in K
         /\ \A i, j \in 1 .. Cardinality(K) : i < j => Nth(K, i) < Nth(K, j)
         /\ \A k \in K : \E n \in 1 .. Cardinality(K) : Nth(K, n) = k
<1>1. PICK e : Counts(e, K)
  BY CountedOff
<1>2. ASSUME NEW n \in 1 .. Cardinality(K) PROVE Nth(K, n) = e[n]
  <2>1. e[n] \in K /\ Cardinality({j \in K : j <= e[n]}) = n
    BY <1>1 DEF Counts
  <2>2. ASSUME NEW i \in K, Cardinality({j \in K : j <= i}) = n PROVE i = e[n]
    <3>1. PICK l \in 1 .. Cardinality(K) : e[l] = i
      BY <1>1 DEF Counts
    <3>2. Cardinality({j \in K : j <= e[l]}) = l
      BY <1>1 DEF Counts
    <3> QED
      BY <2>2, <3>1, <3>2
  <2> QED
    BY <2>1, <2>2 DEF Nth
<1>3. Cardinality(K) \in 0 .. m
  <2>1. IsFiniteSet(1 .. m) /\ Cardinality(1 .. m) = m
    BY FS_Interval
  <2>2. IsFiniteSet(K) /\ Cardinality(K) <= Cardinality(1 .. m)
    BY <2>1, FS_Subset
  <2>3. Cardinality(K) \in Nat
    BY <2>2, FS_CardinalityType
  <2> QED
    BY <2>1, <2>2, <2>3
<1> QED
  BY <1>1, <1>2, <1>3 DEF Counts

\* A subsequence has one entry for each of its positions, in their order.
LEMMA SubsequenceTells ==
  ASSUME NEW X, NEW s \in Seq(X), NEW K \in SUBSET DOMAIN s
  PROVE  /\ Subsequence(s, K) \in Seq(X)
         /\ Len(Subsequence(s, K)) = Cardinality(K)
         /\ Cardinality(K) \in 0 .. Len(s)
         /\ \A n \in 1 .. Cardinality(K) :
              Nth(K, n) \in K /\ Subsequence(s, K)[n] = s[Nth(K, n)]
         /\ \A i, j \in 1 .. Cardinality(K) : i < j => Nth(K, i) < Nth(K, j)
         /\ \A k \in K : \E n \in 1 .. Cardinality(K) : Nth(K, n) = k
<1>1. Len(s) \in Nat /\ DOMAIN s = 1 .. Len(s)
  OBVIOUS
<1>2. /\ Cardinality(K) \in 0 .. Len(s)
      /\ \A n \in 1 .. Cardinality(K) : Nth(K, n) \in K
      /\ \A i, j \in 1 .. Cardinality(K) : i < j => Nth(K, i) < Nth(K, j)
      /\ \A k \in K : \E n \in 1 .. Cardinality(K) : Nth(K, n) = k
  BY <1>1, NthCounts
<1>3. \A n \in 1 .. Cardinality(K) : s[Nth(K, n)] \in X
  BY <1>1, <1>2
<1>4. Subsequence(s, K) \in Seq(X) /\ Len(Subsequence(s, K)) = Cardinality(K)
  BY <1>2, <1>3 DEF Subsequence
<1> QED
  BY <1>2, <1>4 DEF Subsequence

\* The positions from some one on are kept as they stand.
LEMMA NthOfInterval ==
  ASSUME NEW a \in Nat, NEW b \in Nat, NEW n \in Nat, a + n \in a + 1 .. b
  PROVE  Nth(a + 1 .. b, n) = a + n
<1> DEFINE K == a + 1 .. b
<1>1. ASSUME NEW i \in K PROVE Cardinality({j \in K : j <= i}) = i - a
  <2>1. {j \in K : j <= i} = a + 1 .. i
    OBVIOUS
  <2>2. a + 1 \in Int /\ i \in Int /\ a + 1 <= i
    OBVIOUS
  <2>3. Cardinality(a + 1 .. i) = i - (a + 1) + 1
    BY <2>2, FS_Interval
  <2>4. i - (a + 1) + 1 = i - a
    BY <2>2
  <2> QED
    BY <2>1, <2>3, <2>4, Zenon
<1>2. \A i \in K : Cardinality({j \in K : j <= i}) = n <=> i = a + n
  BY <1>1
<1> HIDE DEF K
<1>3. Nth(K, n) = a + n
  <2>1. a + n \in K
    BY DEF K
  <2> QED
    BY <1>2, <2>1 DEF Nth
<1> QED
  BY <1>3 DEF K

\* A half-open interval of numbers has as many members as its ends are apart.
LEMMA IntervalSize ==
  ASSUME NEW a \in Nat, NEW b \in Nat, a <= b
  PROVE  IsFiniteSet(a + 1 .. b) /\ Cardinality(a + 1 .. b) = b - a
<1>1. a + 1 \in Int /\ b \in Int
  OBVIOUS
<1>2. /\ IsFiniteSet(a + 1 .. b)
      /\ Cardinality(a + 1 .. b) = IF a + 1 > b THEN 0 ELSE b - (a + 1) + 1
  BY <1>1, FS_Interval
<1>3. (IF a + 1 > b THEN 0 ELSE b - (a + 1) + 1) = b - a
  OBVIOUS
<1>4. Cardinality(a + 1 .. b) = b - a
  BY <1>2, <1>3
<1> QED
  BY <1>2, <1>4

\* What is kept from some position on is the end of the sequence.
LEMMA EndTells ==
  ASSUME NEW X, NEW s \in Seq(X), NEW m \in 0 .. Len(s)
  PROVE  LET r == Subsequence(s, m + 1 .. Len(s))
         IN  /\ r \in Seq(X) /\ Len(r) = Len(s) - m
             /\ \A n \in 1 .. Len(s) - m : r[n] = s[m + n]
<1> DEFINE K == m + 1 .. Len(s)
<1>1. Len(s) \in Nat /\ m \in Nat /\ m <= Len(s) /\ DOMAIN s = 1 .. Len(s)
  OBVIOUS
<1>2. Cardinality(K) = Len(s) - m
  BY <1>1, IntervalSize
<1>3. K \in SUBSET DOMAIN s
  BY <1>1
<1>4. \A n \in 1 .. Len(s) - m : Nth(K, n) = m + n
  <2> SUFFICES ASSUME NEW n \in 1 .. Len(s) - m PROVE Nth(K, n) = m + n
    OBVIOUS
  <2>1. n \in Nat /\ m + n \in m + 1 .. Len(s)
    BY <1>1
  <2> QED
    BY <2>1, <1>1, NthOfInterval
<1> HIDE DEF K
<1>5. /\ Subsequence(s, K) \in Seq(X) /\ Len(Subsequence(s, K)) = Len(s) - m
      /\ \A n \in 1 .. Len(s) - m : Subsequence(s, K)[n] = s[Nth(K, n)]
  BY <1>2, <1>3, SubsequenceTells
<1> QED
  BY <1>4, <1>5 DEF K

\* Numbers that are closed upwards are the positions from some one on.
LEMMA UpwardClosed ==
  ASSUME NEW n \in Nat, NEW K \in SUBSET (1 .. n),
         \A i, j \in 1 .. n : i <= j /\ i \in K => j \in K
  PROVE  \E m \in 0 .. n : K = m + 1 .. n
<1>1. CASE K = {}
  <2>1. K = n + 1 .. n
    BY <1>1
  <2> QED
    BY <2>1
<1>2. CASE K # {}
  <2>1. PICK m \in K : \A j \in K : m <= j
    BY <1>2, LeastElement
  <2>2. m \in 1 .. n /\ m - 1 \in 0 .. n
    BY <2>1
  <2>3. \A j \in 1 .. n : j \in K <=> m <= j
    BY <2>1, <2>2
  <2>4. K = m .. n
    <3>1. ASSUME NEW j \in K PROVE j \in m .. n
      <4>1. j \in 1 .. n /\ m <= j
        BY <2>1
      <4> QED
        BY <2>2, <4>1
    <3>2. ASSUME NEW j \in m .. n PROVE j \in K
      <4>1. j \in 1 .. n /\ m <= j
        BY <2>2
      <4> QED
        BY <4>1, <2>3
    <3> QED
      BY <3>1, <3>2
  <2>5. (m - 1) + 1 = m
    BY <2>2
  <2> QED
    BY <2>2, <2>4, <2>5
<1> QED
  BY <1>1, <1>2

\* A sequence is one of whatever its entries are in.
LEMMA SeqOfEntries ==
  ASSUME NEW X, NEW s \in Seq(X), NEW Y, \A i \in 1 .. Len(s) : s[i] \in Y
  PROVE  s \in Seq(Y)
<1>1. Len(s) \in Nat /\ s \in [1 .. Len(s) -> X]
  OBVIOUS
<1>2. s \in [1 .. Len(s) -> Y]
  BY <1>1
<1> QED
  BY <1>1, <1>2

\* What a filter keeps of a longer sequence: what it kept, and the last entry or not.
LEMMA SubsequenceGrows ==
  ASSUME NEW X, NEW s \in Seq(X), NEW x \in X, NEW K \in SUBSET DOMAIN s
  PROVE  /\ Subsequence(Append(s, x), K) = Subsequence(s, K)
         /\ Subsequence(Append(s, x), K \cup {Len(s) + 1}) = Append(Subsequence(s, K), x)
<1> DEFINE m == Len(s)
           t == Append(s, x)
           L == K \cup {m + 1}
           c == Cardinality(K)
           r == Subsequence(s, K)
<1>1. /\ m \in Nat /\ DOMAIN s = 1 .. m /\ t \in Seq(X) /\ Len(t) = m + 1 /\ DOMAIN t = 1 .. m + 1
      /\ t[m + 1] = x /\ \A i \in 1 .. m : t[i] = s[i]
  OBVIOUS
<1>2. /\ r \in Seq(X) /\ Len(r) = c /\ c \in 0 .. m
      /\ \A n \in 1 .. c : Nth(K, n) \in K /\ r[n] = s[Nth(K, n)]
  BY SubsequenceTells
<1>3. Subsequence(t, K) = [n \in 1 .. c |-> t[Nth(K, n)]] /\ r = [n \in 1 .. c |-> s[Nth(K, n)]]
  BY DEF Subsequence
<1>4. \A n \in 1 .. c : t[Nth(K, n)] = s[Nth(K, n)]
  BY <1>1, <1>2
<1>5. Subsequence(t, K) = r
  BY <1>3, <1>4
<1>6. PICK e : Counts(e, K)
  BY <1>1, CountedOff
<1>7. IsFiniteSet(K) /\ Cardinality(L) = c + 1
  <2>1. IsFiniteSet(1 .. m)
    BY <1>1, FS_Interval
  <2>2. IsFiniteSet(K) /\ m + 1 \notin K
    BY <2>1, <1>1, FS_Subset
  <2> QED
    BY <2>2, FS_AddElement
<1>8. ASSUME NEW n \in 1 .. c PROVE Nth(L, n) = Nth(K, n)
  <2>1. ASSUME NEW i \in K PROVE {j \in L : j <= i} = {j \in K : j <= i}
    BY <1>1
  <2>2. {j \in L : j <= m + 1} = L
    BY <1>1
  <2>3. \A i \in L : Cardinality({j \in L : j <= i}) = n <=>
                     i \in K /\ Cardinality({j \in K : j <= i}) = n
    <3> SUFFICES ASSUME NEW i \in L
                 PROVE  Cardinality({j \in L : j <= i}) = n <=>
                          i \in K /\ Cardinality({j \in K : j <= i}) = n
      OBVIOUS
    <3>1. CASE i \in K
      BY <3>1, <2>1
    <3>2. CASE i \notin K
      <4>1. i = m + 1
        BY <3>2
      <4>2. Cardinality({j \in L : j <= i}) = c + 1 /\ c + 1 # n
        <5>1. {j \in L : j <= i} = L
          BY <4>1, <2>2
        <5>2. c + 1 # n
          BY <1>2
        <5> QED
          BY <5>1, <5>2, <1>7
      <4> QED
        BY <3>2, <4>2
    <3> QED
      BY <3>1, <3>2
  <2>4. /\ e[n] \in K /\ Cardinality({j \in K : j <= e[n]}) = n
        /\ \A i \in K : Cardinality({j \in K : j <= i}) = n => i = e[n]
    <3>1. e[n] \in K /\ Cardinality({j \in K : j <= e[n]}) = n
      BY <1>6 DEF Counts
    <3>2. ASSUME NEW i \in K, Cardinality({j \in K : j <= i}) = n PROVE i = e[n]
      <4>1. PICK l \in 1 .. c : e[l] = i
        BY <1>6 DEF Counts
      <4>2. Cardinality({j \in K : j <= e[l]}) = l
        BY <1>6 DEF Counts
      <4> QED
        BY <3>2, <4>1, <4>2
    <3> QED
      BY <3>1, <3>2
  <2> HIDE DEF L, c
  <2>5. Nth(K, n) = e[n]
    BY <2>4 DEF Nth
  <2>6. Nth(L, n) = e[n]
    <3>1. K \subseteq L
      BY DEF L
    <3> QED
      BY <2>3, <2>4, <3>1 DEF Nth
  <2> QED
    BY <2>5, <2>6
<1>9. Nth(L, c + 1) = m + 1
  <2>1. m + 1 \in L /\ {j \in L : j <= m + 1} = L
    BY <1>1
  <2>2. ASSUME NEW i \in L, Cardinality({j \in L : j <= i}) = c + 1 PROVE i = m + 1
    <3>1. SUFFICES ASSUME i # m + 1 PROVE FALSE
      OBVIOUS
    <3>2. i \in K /\ i \in 1 .. m
      BY <3>1, <1>1
    <3>3. {j \in L : j <= i} \subseteq K
      BY <3>2, <1>1
    <3>4. Cardinality({j \in L : j <= i}) <= c
      BY <3>3, <1>7, FS_Subset
    <3> QED
      BY <3>4, <2>2, <1>2
  <2> HIDE DEF L
  <2> QED
    BY <2>1, <2>2, <1>7 DEF Nth
<1>10. Subsequence(t, L) = [n \in 1 .. c + 1 |-> t[Nth(L, n)]]
  BY <1>7 DEF Subsequence
<1>11. \A n \in 1 .. c + 1 : t[Nth(L, n)] = Append(r, x)[n]
  <2> SUFFICES ASSUME NEW n \in 1 .. c + 1 PROVE t[Nth(L, n)] = Append(r, x)[n]
    OBVIOUS
  <2>1. CASE n = c + 1
    <3>1. Append(r, x)[n] = x
      BY <2>1, <1>2
    <3> QED
      BY <3>1, <2>1, <1>9, <1>1
  <2>2. CASE n # c + 1
    <3>1. n \in 1 .. c
      BY <2>2, <1>2
    <3>2. Append(r, x)[n] = r[n]
      BY <3>1, <1>2
    <3> QED
      BY <3>1, <3>2, <1>2, <1>4, <1>8
  <2> QED
    BY <2>1, <2>2
<1>12. Append(r, x) = [n \in 1 .. c + 1 |-> Append(r, x)[n]]
  <2> HIDE DEF r, c
  <2> DEFINE a == Append(r, x)
  <2>1. a \in Seq(X) /\ Len(a) = c + 1
    BY <1>2
  <2> HIDE DEF a
  <2>2. a = [n \in 1 .. c + 1 |-> a[n]]
    BY <2>1
  <2> QED
    BY <2>2 DEF a
<1>13. Subsequence(t, L) = Append(r, x)
  BY <1>10, <1>11, <1>12
<1> QED
  BY <1>5, <1>13

\* A filter that keeps everything, or nothing.
LEMMA SubsequenceEnds ==
  ASSUME NEW X, NEW s \in Seq(X)
  PROVE  Subsequence(s, DOMAIN s) = s /\ Subsequence(s, {}) = <<>>
<1> DEFINE r == Subsequence(s, 0 + 1 .. Len(s))
<1>1. /\ r \in Seq(X) /\ Len(r) = Len(s) - 0
      /\ \A n \in 1 .. Len(s) - 0 : r[n] = s[0 + n]
  <2>1. 0 \in 0 .. Len(s)
    OBVIOUS
  <2> QED
    BY <2>1, EndTells
<1>2. Len(s) - 0 = Len(s) /\ (\A n \in 1 .. Len(s) : 0 + n = n) /\ 0 + 1 .. Len(s) = DOMAIN s
  OBVIOUS
<1> HIDE DEF r
<1>3. r \in Seq(X) /\ Len(r) = Len(s) /\ \A n \in 1 .. Len(s) : r[n] = s[n]
  BY <1>1, <1>2
<1>4. r = s
  BY <1>3
<1>5. Subsequence(s, {}) = <<>>
  BY FS_EmptySet DEF Subsequence
<1> QED
  BY <1>2, <1>4, <1>5 DEF r

\* A finite set in an order that is total has a list of exactly its members.
LEMMA RankedTells ==
  ASSUME NEW S, IsFiniteSet(S), NEW ahead \in [S -> SUBSET S],
         \A x \in S : x \notin ahead[x],
         \A x \in S : \A y \in ahead[x] : ahead[y] \subseteq ahead[x],
         \A x, y \in S : x # y => x \in ahead[y] \/ y \in ahead[x]
  PROVE  /\ Cardinality(S) \in Nat
         /\ Ranked(S, ahead) \in [1 .. Cardinality(S) -> S]
         /\ Ranked(S, ahead) \in Seq(S) /\ Len(Ranked(S, ahead)) = Cardinality(S)
         /\ \A x \in S : \E n \in 1 .. Cardinality(S) : Ranked(S, ahead)[n] = x
         /\ \A i, j \in 1 .. Cardinality(S) : i # j => Ranked(S, ahead)[i] # Ranked(S, ahead)[j]
         /\ \A i, j \in 1 .. Cardinality(S) :
              Ranked(S, ahead)[i] \in ahead[Ranked(S, ahead)[j]] => i < j
<1> DEFINE n == Cardinality(S)
           list == Ranked(S, ahead)
           places == [x \in S |-> Cardinality(ahead[x]) + 1]
<1>1. n \in Nat
  BY FS_CardinalityType
<1>2. \A x \in S : IsFiniteSet(ahead[x]) /\ Cardinality(ahead[x]) \in Nat
  BY FS_Subset, FS_CardinalityType
<1>3. \A x \in S : Cardinality(ahead[x]) < n
  <2> SUFFICES ASSUME NEW x \in S PROVE Cardinality(ahead[x]) < n
    OBVIOUS
  <2>1. ahead[x] \in SUBSET S /\ ahead[x] # S
    OBVIOUS
  <2>2. Cardinality(ahead[x]) <= n /\ Cardinality(ahead[x]) # n
    BY <2>1, FS_Subset
  <2> QED
    BY <1>1, <1>2, <2>2
<1>4. \A x \in S : \A y \in ahead[x] : Cardinality(ahead[y]) < Cardinality(ahead[x])
  <2> SUFFICES ASSUME NEW x \in S, NEW y \in ahead[x]
               PROVE  Cardinality(ahead[y]) < Cardinality(ahead[x])
    OBVIOUS
  <2>1. y \in S /\ ahead[y] \in SUBSET ahead[x] /\ ahead[y] # ahead[x]
    OBVIOUS
  <2>2. Cardinality(ahead[y]) <= Cardinality(ahead[x])
        /\ Cardinality(ahead[y]) # Cardinality(ahead[x])
    BY <1>2, <2>1, FS_Subset
  <2> QED
    BY <1>2, <2>1, <2>2
<1>5. \A x, y \in S : places[x] = places[y] => x = y
  <2> SUFFICES ASSUME NEW x \in S, NEW y \in S, x # y PROVE places[x] # places[y]
    OBVIOUS
  <2>1. x \in ahead[y] \/ y \in ahead[x]
    OBVIOUS
  <2>2. Cardinality(ahead[x]) # Cardinality(ahead[y])
    BY <1>2, <1>4, <2>1
  <2> QED
    BY <1>2, <2>2
<1>6. places \in [S -> 1 .. n]
  BY <1>1, <1>2, <1>3
<1>7. IsFiniteSet(1 .. n) /\ Cardinality(1 .. n) = n
  <2>1. 1 \in Int /\ n \in Int /\ (IF 1 > n THEN 0 ELSE n - 1 + 1) = n
    BY <1>1
  <2> HIDE DEF n
  <2> QED
    BY <2>1, FS_Interval
<1>8. \A k \in 1 .. n : \E x \in S : places[x] = k
  <2> HIDE DEF places
  <2>1. places \in Injection(S, 1 .. n)
    BY <1>5, <1>6 DEF Injection, IsInjective
  <2>2. Cardinality(S) = Cardinality(1 .. n)
    BY <1>7
  <2>3. places \in Surjection(S, 1 .. n)
    BY <1>7, <2>1, <2>2, FS_Injection
  <2> QED
    BY <2>3 DEF Surjection
<1>9. \A k \in 1 .. n : list[k] \in S /\ places[list[k]] = k
  <2> SUFFICES ASSUME NEW k \in 1 .. n PROVE list[k] \in S /\ places[list[k]] = k
    OBVIOUS
  <2>1. \A x \in S : places[x] = k <=> Cardinality(ahead[x]) = k - 1
    BY <1>1, <1>2
  <2>2. list[k] = CHOOSE x \in S : Cardinality(ahead[x]) = k - 1
    BY DEF Ranked
  <2> HIDE DEF places, list
  <2>3. \E x \in S : Cardinality(ahead[x]) = k - 1
    BY <1>8, <2>1
  <2>4. list[k] \in S /\ Cardinality(ahead[list[k]]) = k - 1
    BY <2>2, <2>3
  <2> QED
    BY <2>1, <2>4
<1>10. list \in [1 .. n -> S]
  <2>1. list = [k \in 1 .. n |-> list[k]]
    BY DEF Ranked
  <2> HIDE DEF list
  <2> QED
    BY <1>9, <2>1
<1>11. list \in Seq(S) /\ Len(list) = n
  <2> HIDE DEF list, n
  <2> QED
    BY <1>1, <1>10
<1>12. \A x \in S : \E k \in 1 .. n : list[k] = x
  <2> SUFFICES ASSUME NEW x \in S PROVE \E k \in 1 .. n : list[k] = x
    OBVIOUS
  <2> HIDE DEF list, places, n
  <2>1. places[x] \in 1 .. n
    BY <1>6
  <2>2. list[places[x]] \in S /\ places[list[places[x]]] = places[x]
    BY <1>9, <2>1
  <2>3. list[places[x]] = x
    BY <1>5, <2>2
  <2> QED
    BY <2>1, <2>3
<1>13. \A i, j \in 1 .. n : i # j => list[i] # list[j]
  <2> HIDE DEF list, places
  <2> QED
    BY <1>9
<1>14. \A i, j \in 1 .. n : list[i] \in ahead[list[j]] => i < j
  <2> SUFFICES ASSUME NEW i \in 1 .. n, NEW j \in 1 .. n, list[i] \in ahead[list[j]] PROVE i < j
    OBVIOUS
  <2> HIDE DEF list
  <2>1. Cardinality(ahead[list[i]]) < Cardinality(ahead[list[j]])
    BY <1>4, <1>9
  <2>2. places[list[i]] = i /\ places[list[j]] = j
    BY <1>9
  <2>3. Cardinality(ahead[list[i]]) + 1 = i /\ Cardinality(ahead[list[j]]) + 1 = j
    BY <1>9, <2>2
  <2> DEFINE a == Cardinality(ahead[list[i]])
             b == Cardinality(ahead[list[j]])
  <2>4. a \in Nat /\ b \in Nat
    BY <1>2, <1>9
  <2> HIDE DEF a, b
  <2>5. a < b /\ a + 1 = i /\ b + 1 = j
    BY <2>1, <2>3 DEF a, b
  <2> HIDE DEF places, n
  <2> QED
    BY <2>4, <2>5
<1> QED
  BY <1>1, <1>10, <1>11, <1>12, <1>13, <1>14

\* f builds what the entries of s make, one after the other, up to n.
Then(a, b) == a \o b
Joins(s, f, n) == f[0] = <<>> /\ \A i \in 1 .. n : f[i] = Then(f[i - 1], s[i])

\* There is such a thing.
LEMMA JoinsExist ==
  ASSUME NEW X, NEW s \in Seq(Seq(X))
  PROVE  \E f \in [0 .. Len(s) -> Seq(X)] : Joins(s, f, Len(s))
<1> DEFINE S == {k \in Nat : k <= Len(s) => \E f \in [0 .. k -> Seq(X)] : Joins(s, f, k)}
<1>0. Len(s) \in Nat /\ \A n \in 1 .. Len(s) : s[n] \in Seq(X)
  OBVIOUS
<1>1. 0 \in S
  <2> DEFINE f == [n \in 0 .. 0 |-> <<>>]
  <2>1. f \in [0 .. 0 -> Seq(X)] /\ f[0] = <<>>
    OBVIOUS
  <2> HIDE DEF f
  <2>2. Joins(s, f, 0)
    BY <2>1 DEF Joins
  <2> QED
    BY <2>1, <2>2
<1>2. ASSUME NEW k \in Nat, k \in S PROVE k + 1 \in S
  <2> SUFFICES ASSUME k + 1 <= Len(s)
               PROVE  \E f \in [0 .. k + 1 -> Seq(X)] : Joins(s, f, k + 1)
    OBVIOUS
  <2>1. PICK f \in [0 .. k -> Seq(X)] : Joins(s, f, k)
    BY <1>2, <1>0
  <2> DEFINE t == Then(f[k], s[k + 1])
             g == [n \in 0 .. k + 1 |-> IF n = k + 1 THEN t ELSE f[n]]
  <2>2. t \in Seq(X)
    <3>1. f[k] \in Seq(X) /\ s[k + 1] \in Seq(X)
      BY <1>0
    <3> QED
      BY <3>1 DEF Then
  <2> HIDE DEF t
  <2>3. /\ g \in [0 .. k + 1 -> Seq(X)] /\ \A n \in 0 .. k : g[n] = f[n]
        /\ g[k + 1] = t
    BY <2>2
  <2> HIDE DEF g
  <2>4. g[0] = <<>>
    BY <2>1, <2>3 DEF Joins
  <2>5. ASSUME NEW n \in 1 .. k + 1 PROVE g[n] = Then(g[n - 1], s[n])
    <3>1. CASE n = k + 1
      BY <2>3, <3>1 DEF t
    <3>2. CASE n # k + 1
      <4>1. n \in 1 .. k /\ n \in 0 .. k /\ n - 1 \in 0 .. k
        BY <3>2
      <4> QED
        BY <2>1, <2>3, <4>1 DEF Joins
    <3> QED
      BY <3>1, <3>2
  <2> QED
    BY <2>3, <2>4, <2>5 DEF Joins
<1>3. Len(s) \in S
  <2> HIDE DEF S
  <2>1. Nat \subseteq S
    BY <1>1, <1>2, Inductive
  <2> QED
    BY <1>0, <2>1
<1> QED
  BY <1>0, <1>3

\* What the entries of s make, one after the other, is a sequence that builds up to them.
LEMMA JointTells ==
  ASSUME NEW X, NEW s \in Seq(Seq(X))
  PROVE  \E f \in [0 .. Len(s) -> Seq(X)] : Joins(s, f, Len(s)) /\ Joint(s) = f[Len(s)]
<1> DEFINE n == Len(s)
           Step(f, i) == IF i = 0 THEN <<>> ELSE Then(f[i - 1], s[i])
           joint == CHOOSE f : f = [i \in 0 .. n |-> Step(f, i)]
<1>1. Joint(s) = joint[n]
  BY DEF Joint, Then
<1>2. PICK h \in [0 .. n -> Seq(X)] : Joins(s, h, n)
  BY JoinsExist
<1>3. n \in Nat
  OBVIOUS
<1> HIDE DEF n
<1>4. h = [i \in 0 .. n |-> Step(h, i)]
  <2>1. h = [i \in 0 .. n |-> h[i]]
    OBVIOUS
  <2>2. \A i \in 0 .. n : h[i] = Step(h, i)
    BY <1>2 DEF Joins
  <2> QED
    BY <2>1, <2>2
<1>5. joint = [i \in 0 .. n |-> Step(joint, i)]
  BY <1>4
<1> HIDE DEF joint
<1>6. \A i \in 0 .. n : joint[i] = Step(joint, i)
  BY <1>5, Zenon
<1> DEFINE S == {i \in Nat : i <= n => joint[i] = h[i]}
<1>7. \A i \in 0 .. n : h[i] = Step(h, i)
  BY <1>2 DEF Joins
<1>8. 0 \in S
  BY <1>3, <1>6, <1>7
<1>9. ASSUME NEW i \in Nat, i \in S PROVE i + 1 \in S
  <2> SUFFICES ASSUME i + 1 <= n PROVE joint[i + 1] = h[i + 1]
    OBVIOUS
  <2>1. i + 1 \in 0 .. n /\ i + 1 # 0 /\ i + 1 - 1 = i /\ joint[i] = h[i]
    BY <1>3, <1>9
  <2>2. joint[i + 1] = Then(joint[i], s[i + 1]) /\ h[i + 1] = Then(h[i], s[i + 1])
    BY <2>1, <1>6, <1>7
  <2> QED
    BY <2>1, <2>2
<1>10. n \in S
  <2> HIDE DEF S
  <2>1. Nat \subseteq S
    BY <1>8, <1>9, Inductive
  <2> QED
    BY <1>3, <2>1
<1>11. Joint(s) = h[n]
  BY <1>1, <1>3, <1>10
<1> QED
  BY <1>2, <1>11 DEF n

\* One entry more goes to the end, and no entries make nothing.
LEMMA JointGrows ==
  ASSUME NEW X
  PROVE  /\ Joint(<<>>) = <<>>
         /\ \A s \in Seq(Seq(X)), t \in Seq(X) :
              Joint(s) \in Seq(X) /\ Joint(Append(s, t)) = Joint(s) \o t
<1>1. Joint(<<>>) = <<>>
  <2>1. <<>> \in Seq(Seq(X)) /\ Len(<<>>) = 0
    OBVIOUS
  <2>2. PICK f \in [0 .. 0 -> Seq(X)] : Joins(<<>>, f, 0) /\ Joint(<<>>) = f[0]
    BY <2>1, JointTells
  <2> QED
    BY <2>2 DEF Joins
<1>2. ASSUME NEW s \in Seq(Seq(X)), NEW t \in Seq(X)
      PROVE  Joint(s) \in Seq(X) /\ Joint(Append(s, t)) = Joint(s) \o t
  <2> DEFINE m == Len(s)
             u == Append(s, t)
  <2>1. m \in Nat /\ u \in Seq(Seq(X)) /\ Len(u) = m + 1 /\ u[m + 1] = t /\ \A i \in 1 .. m : u[i] = s[i]
    OBVIOUS
  <2> HIDE DEF u
  <2>2. PICK f \in [0 .. m -> Seq(X)] : Joins(s, f, m) /\ Joint(s) = f[m]
    BY JointTells
  <2>3. PICK g \in [0 .. m + 1 -> Seq(X)] : Joins(u, g, m + 1) /\ Joint(u) = g[m + 1]
    BY <2>1, JointTells
  <2> HIDE DEF m
  <2>4. f[0] = <<>> /\ \A i \in 1 .. m : f[i] = Then(f[i - 1], s[i])
    BY <2>2 DEF Joins
  <2>5. g[0] = <<>> /\ \A i \in 1 .. m + 1 : g[i] = Then(g[i - 1], u[i])
    BY <2>3 DEF Joins
  <2> DEFINE S == {i \in Nat : i <= m => f[i] = g[i]}
  <2>6. 0 \in S
    BY <2>1, <2>4, <2>5
  <2>7. ASSUME NEW i \in Nat, i \in S PROVE i + 1 \in S
    <3> SUFFICES ASSUME i + 1 <= m PROVE f[i + 1] = g[i + 1]
      OBVIOUS
    <3>1. /\ i + 1 \in 1 .. m /\ i + 1 \in 1 .. m + 1 /\ i + 1 - 1 = i /\ f[i] = g[i]
          /\ u[i + 1] = s[i + 1]
      BY <2>1, <2>7
    <3>2. f[i + 1] = Then(f[i], s[i + 1]) /\ g[i + 1] = Then(g[i], u[i + 1])
      BY <3>1, <2>4, <2>5
    <3> QED
      BY <3>1, <3>2
  <2>8. m \in S
    <3> HIDE DEF S
    <3>1. Nat \subseteq S
      BY <2>6, <2>7, Inductive
    <3> QED
      BY <2>1, <3>1
  <2>9. g[m + 1] = Then(g[m], t) /\ f[m] = g[m] /\ f[m] \in Seq(X)
    <3>1. m + 1 \in 1 .. m + 1 /\ m + 1 - 1 = m
      BY <2>1
    <3> QED
      BY <2>1, <2>5, <2>8, <3>1
  <2> QED
    BY <2>2, <2>3, <2>9 DEF u, Then
<1> QED
  BY <1>1, <1>2

\* s with x in the i-th place.
Altered(s, i, x) == [s EXCEPT ![i] = x]

\* Another entry in the place of one: the entries kept are the same, but for that one.
LEMMA SubsequenceChanges ==
  ASSUME NEW X, NEW s \in Seq(X), NEW i \in DOMAIN s, NEW x \in X, NEW K \in SUBSET DOMAIN s
  PROVE  LET t == Altered(s, i, x) IN
         /\ i \notin K => Subsequence(t, K) = Subsequence(s, K)
         /\ \A n \in 1 .. Cardinality(K) :
              Nth(K, n) = i => Subsequence(t, K) = Altered(Subsequence(s, K), n, x)
<1> DEFINE t == Altered(s, i, x)
           c == Cardinality(K)
           r == Subsequence(s, K)
           u == Subsequence(t, K)
<1>1. /\ r \in Seq(X) /\ Len(r) = c /\ c \in 0 .. Len(s)
      /\ \A n \in 1 .. c : Nth(K, n) \in K /\ r[n] = s[Nth(K, n)]
      /\ \A k, j \in 1 .. c : k < j => Nth(K, k) < Nth(K, j)
  BY SubsequenceTells
<1>2. t \in Seq(X) /\ DOMAIN t = DOMAIN s /\ t[i] = x /\ \A k \in DOMAIN s : k # i => t[k] = s[k]
  BY DEF Altered
<1> HIDE DEF t
<1>3. K \in SUBSET DOMAIN t
  BY <1>2
<1>4. u \in Seq(X) /\ Len(u) = c /\ \A n \in 1 .. c : u[n] = t[Nth(K, n)]
  BY <1>2, <1>3, SubsequenceTells
<1> HIDE DEF r, u, c
<1>5. ASSUME i \notin K PROVE u = r
  <2>1. \A n \in 1 .. c : u[n] = r[n]
    BY <1>1, <1>2, <1>4, <1>5
  <2> QED
    BY <1>1, <1>4, <2>1
<1>6. ASSUME NEW n \in 1 .. c, Nth(K, n) = i PROVE u = Altered(r, n, x)
  <2> DEFINE v == Altered(r, n, x)
  <2>1. v \in Seq(X) /\ Len(v) = c /\ v[n] = x /\ \A k \in 1 .. c : k # n => v[k] = r[k]
    BY <1>1 DEF Altered
  <2> HIDE DEF v
  <2>2. ASSUME NEW k \in 1 .. c PROVE u[k] = v[k]
    <3>1. CASE k = n
      BY <1>2, <1>4, <1>6, <2>1, <3>1
    <3>2. CASE k # n
      <4>1. Nth(K, k) # i /\ Nth(K, k) \in DOMAIN s
        <5>1. k < n \/ n < k
          BY <1>1, <3>2
        <5>2. Nth(K, k) \in K /\ i \in K
          BY <1>1, <1>6
        <5>3. DOMAIN s = 1 .. Len(s) /\ Len(s) \in Nat
          OBVIOUS
        <5>4. Nth(K, k) \in Nat /\ i \in Nat
          BY <5>2, <5>3
        <5>5. Nth(K, k) < i \/ i < Nth(K, k)
          BY <1>1, <1>6, <5>1
        <5> QED
          BY <5>2, <5>4, <5>5
      <4> QED
        BY <1>1, <1>2, <1>4, <2>1, <3>2, <4>1
    <3> QED
      BY <3>1, <3>2
  <2>3. u = v
    BY <1>1, <1>4, <2>1, <2>2
  <2> QED
    BY <2>3 DEF v
<1> QED
  BY <1>5, <1>6 DEF c, r, u, t

\* A sequence that is not empty is what is ahead of its last entry, and that entry.
LEMMA LastApart ==
  ASSUME NEW X, NEW s \in Seq(X), s # <<>>
  PROVE  /\ Len(s) \in Nat \ {0} /\ s[Len(s)] \in X
         /\ \E f \in Seq(X) : /\ Append(f, s[Len(s)]) = s /\ Len(f) = Len(s) - 1
                              /\ \A i \in 1 .. Len(s) - 1 : f[i] = s[i]
<1> DEFINE n == Len(s) - 1
           x == s[Len(s)]
           f == [i \in 1 .. n |-> s[i]]
           a == Append(f, x)
<1>1. Len(s) \in Nat \ {0} /\ x \in X
  OBVIOUS
<1>2. n \in Nat /\ \A i \in 1 .. n : s[i] \in X
  BY <1>1
<1>3. f \in Seq(X) /\ Len(f) = n /\ \A i \in 1 .. n : f[i] = s[i]
  BY <1>2
<1> HIDE DEF f
<1>4. a \in Seq(X) /\ Len(a) = n + 1 /\ a[n + 1] = x /\ \A i \in 1 .. n : a[i] = s[i]
  BY <1>1, <1>2, <1>3
<1> HIDE DEF a
<1>5. a = s
  <2>1. Len(a) = Len(s) /\ s[n + 1] = x
    BY <1>1, <1>4
  <2>2. ASSUME NEW i \in 1 .. Len(s) PROVE a[i] = s[i]
    <3>1. i = n + 1 \/ i \in 1 .. n
      BY <1>1
    <3> QED
      BY <1>4, <2>1, <3>1
  <2> QED
    BY <1>4, <2>1, <2>2
<1> QED
  BY <1>1, <1>3, <1>5 DEF a

\* Sequences that agree everywhere are the same.
LEMMA SequencesAgree ==
  ASSUME NEW X, NEW a \in Seq(X), NEW b \in Seq(X), NEW n, Len(a) = n, Len(b) = n, \A i \in 1 .. n : a[i] = b[i]
  PROVE  a = b
<1>1. n \in Nat /\ DOMAIN a = 1 .. n /\ DOMAIN b = 1 .. n
  OBVIOUS
<1>2. a = [i \in 1 .. n |-> a[i]] /\ b = [i \in 1 .. n |-> b[i]]
  BY <1>1
<1>3. [i \in 1 .. n |-> a[i]] = [i \in 1 .. n |-> b[i]]
  OBVIOUS
<1> QED
  BY <1>2, <1>3

\* Two sequences, one after the other.
LEMMA JoinedTell ==
  ASSUME NEW X, NEW s \in Seq(X), NEW r \in Seq(X)
  PROVE  /\ s \o r \in Seq(X) /\ Len(s \o r) = Len(s) + Len(r)
         /\ \A i \in 1 .. Len(s) + Len(r) : (s \o r)[i] = IF i <= Len(s) THEN s[i] ELSE r[i - Len(s)]
OBVIOUS

\* A sequence with one entry more.
LEMMA AppendedTells ==
  ASSUME NEW X, NEW s \in Seq(X), NEW x \in X
  PROVE  /\ Append(s, x) \in Seq(X) /\ Len(Append(s, x)) = Len(s) + 1 /\ Append(s, x)[Len(s) + 1] = x
         /\ \A i \in 1 .. Len(s) : Append(s, x)[i] = s[i]
OBVIOUS

\* A sequence of two.
LEMMA PairTells ==
  ASSUME NEW X, NEW a \in X, NEW b \in X
  PROVE  Append(<<a>>, b) = <<a, b>>
<1> DEFINE one == <<a>>
           c == Append(one, b)
           d == <<a, b>>
<1>1. one \in Seq(X) /\ Len(one) = 1 /\ one[1] = a
  OBVIOUS
<1>2. d \in Seq(X) /\ Len(d) = 2 /\ d[1] = a /\ d[2] = b
  OBVIOUS
<1> HIDE DEF one, d
<1>3. c \in Seq(X) /\ Len(c) = Len(one) + 1 /\ c[Len(one) + 1] = b /\ \A j \in 1 .. Len(one) : c[j] = one[j]
  BY SMTT(30), <1>1, AppendedTells
<1> HIDE DEF c
<1>4. c[1 + 1] = b /\ c[1] = one[1] /\ Len(c) = 1 + 1
  BY <1>1, <1>3
<1>5. \A j \in 1 .. 2 : j = 1 \/ j = 2
  OBVIOUS
<1>6. \A j \in 1 .. 2 : c[j] = d[j]
  BY <1>1, <1>2, <1>4, <1>5
<1>7. c = d
  BY <1>2, <1>3, <1>4, <1>6, SequencesAgree
<1> QED
  BY <1>7 DEF c, d, one

\* What f makes of the entries of s.
Mapped(s, f) == [i \in DOMAIN s |-> f[s[i]]]

\* What becomes of the entries, and one entry more is one thing more.
LEMMA MappedTells ==
  ASSUME NEW X, NEW Y, NEW s \in Seq(X), NEW f \in [X -> Y]
  PROVE  Mapped(s, f) \in Seq(Y)
<1>1. \A i \in DOMAIN s : f[s[i]] \in Y
  OBVIOUS
<1> QED
  BY <1>1 DEF Mapped

LEMMA MappedGrows ==
  ASSUME NEW X, NEW s \in Seq(X), NEW x \in X, NEW f
  PROVE  Len(Mapped(s, f)) = Len(s) /\ Mapped(Append(s, x), f) = Append(Mapped(s, f), f[x])
<1> DEFINE n == Len(s)
           more == Append(s, x)
           t == Mapped(s, f)
           u == Mapped(more, f)
           v == Append(t, f[x])
           Y == {f[z] : z \in X}
<1>1. more \in Seq(X) /\ Len(more) = n + 1 /\ more[n + 1] = x /\ \A i \in 1 .. n : more[i] = s[i]
  BY AppendedTells
<1>2. n \in Nat /\ DOMAIN s = 1 .. n /\ DOMAIN more = 1 .. n + 1
  BY <1>1
<1>3. (\A i \in DOMAIN s : f[s[i]] \in Y) /\ \A i \in DOMAIN more : f[more[i]] \in Y
  BY <1>1
<1>4. f[x] \in Y
  OBVIOUS
<1> HIDE DEF more, n, Y
<1>5. t \in Seq(Y) /\ Len(t) = n /\ \A i \in 1 .. n : t[i] = f[s[i]]
  BY <1>2, <1>3 DEF Mapped
<1>6. u \in Seq(Y) /\ Len(u) = n + 1 /\ \A i \in 1 .. n + 1 : u[i] = f[more[i]]
  BY <1>2, <1>3 DEF Mapped
<1> HIDE DEF t, u
<1>7. v \in Seq(Y) /\ Len(v) = n + 1 /\ v[n + 1] = f[x] /\ \A i \in 1 .. n : v[i] = t[i]
  BY <1>4, <1>5, AppendedTells
<1> HIDE DEF v
<1>8. /\ \A i \in 1 .. n + 1 : i = n + 1 \/ i \in 1 .. n
      /\ n + 1 \in 1 .. n + 1 /\ \A i \in 1 .. n : i \in 1 .. n + 1
  BY <1>2
<1>9. ASSUME NEW i \in 1 .. n + 1 PROVE u[i] = v[i]
  <2>1. CASE i = n + 1
    BY <1>1, <1>6, <1>7, <1>8, <2>1
  <2>2. CASE i \in 1 .. n
    BY <1>1, <1>5, <1>6, <1>7, <1>8, <2>2
  <2> QED
    BY <1>8, <2>1, <2>2
<1>10. u = v
  BY <1>6, <1>7, <1>9, SequencesAgree
<1> QED
  BY <1>5, <1>10 DEF t, u, v, more, n

\* So what the entries become, one after the other, goes on with what the new one becomes.
LEMMA JoinedGrows ==
  ASSUME NEW X, NEW Y, NEW s \in Seq(X), NEW x \in X, NEW f \in [X -> Seq(Y)]
  PROVE  /\ Joint(Mapped(s, f)) \in Seq(Y)
         /\ Joint(Mapped(Append(s, x), f)) = Joint(Mapped(s, f)) \o f[x]
<1> DEFINE t == Mapped(s, f)
           w == f[x]
<1>1. t \in Seq(Seq(Y)) /\ w \in Seq(Y)
  BY MappedTells
<1>2. Mapped(Append(s, x), f) = Append(t, w)
  BY MappedGrows
<1> HIDE DEF t, w
<1>3. Joint(t) \in Seq(Y) /\ Joint(Append(t, w)) = Joint(t) \o w
  BY <1>1, JointGrows
<1> QED
  BY <1>2, <1>3 DEF t, w

============================================================================

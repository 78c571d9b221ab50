----------------------------- MODULE KeptProofs -----------------------------
(***************************************************************************)
(* What is kept of a sequence is what it should be, for any sequence: the  *)
(* lemmas about Kept that the proofs about the engine and about the browse *)
(* lists rest on.                                                          *)
(***************************************************************************)
EXTENDS Kept, FiniteSetsExt, Functions, FiniteSetTheorems, SequenceTheorems, TLAPS

(* A set of natural numbers that is not empty has a least element. *)
LEMMA NatHasMin ==
  ASSUME NEW T, T \subseteq Nat, T # {}
  PROVE  \E x \in T : \A y \in T : x <= y
<1>1. \E x \in T : \A y \in T : ~ <<y, x>> \in OpToRel(<, Nat)
  BY NatLessThanWellFounded, WFMin
<1>2. \A x, y \in Nat : y < x => <<y, x>> \in OpToRel(<, Nat)
  <2>1. SUFFICES ASSUME NEW x \in Nat, NEW y \in Nat, y < x PROVE <<y, x>> \in OpToRel(<, Nat) OBVIOUS
  <2>2. <<y, x>> \in Nat \X Nat /\ <<y, x>>[1] < <<y, x>>[2] BY <2>1
  <2>3. QED BY <2>2, Zenon DEF OpToRel
<1>3. QED
  <2>1. PICK x \in T : \A y \in T : ~ <<y, x>> \in OpToRel(<, Nat) BY <1>1
  <2>2. \A y \in T : ~ y < x BY <2>1, <1>2
  <2>3. QED BY <2>2

(* So has a bounded one a greatest. *)
LEMMA MaxOf ==
  ASSUME NEW T, NEW n \in Nat, T \subseteq 0..n, T # {}
  PROVE  Max(T) \in T /\ \A y \in T : Max(T) >= y
<1> DEFINE U == {k \in Nat : n - k \in T}
<1>1. U # {}
  <2>1. PICK y \in T : TRUE OBVIOUS
  <2>2. n - y \in U /\ n - (n - y) = y BY <2>1
  <2>3. QED BY <2>2
<1>2. PICK k \in U : \A l \in U : k <= l BY <1>1, NatHasMin
<1>3. \A y \in T : n - k >= y
  <2>1. SUFFICES ASSUME NEW y \in T PROVE n - k >= y OBVIOUS
  <2>2. y \in 0..n /\ n - y \in U OBVIOUS
  <2>3. k \in Nat /\ k <= n - y BY <2>2, <1>2
  <2>4. QED BY <2>2, <2>3
<1>4. n - k \in T BY <1>2
<1>5. QED BY <1>3, <1>4 DEF Max

(* What is kept of a sequence are those of its elements that are in the set, all
   of them and in their order: h tells where they were. *)
LEMMA KeepingFacts ==
  ASSUME NEW S, NEW s \in Seq(S), NEW Q
  PROVE  /\ Keeping(s, Q) \in Seq(S) /\ Len(Keeping(s, Q)) <= Len(s)
         /\ \E h \in [1..Len(Keeping(s, Q)) -> 1..Len(s)] :
              /\ \A k \in 1..Len(Keeping(s, Q)) : Keeping(s, Q)[k] = s[h[k]] /\ s[h[k]] \in Q
              /\ \A k, l \in 1..Len(Keeping(s, Q)) : k < l => h[k] < h[l]
              /\ \A i \in 1..Len(s) : s[i] \in Q => \E k \in 1..Len(Keeping(s, Q)) : h[k] = i
<1> DEFINE K == {i \in DOMAIN s : s[i] \in Q}
           Upto(i) == {j \in K : j <= i}
           n == Cardinality(K)
           h == [k \in 1..n |-> CHOOSE i \in K : Cardinality(Upto(i)) = k]
<1>1. /\ K \subseteq 1..Len(s) /\ Len(s) \in Nat /\ K \subseteq Nat
      /\ \A i \in 1..Len(s) : i \in K <=> s[i] \in Q
      /\ \A i \in K : s[i] \in S /\ s[i] \in Q
  OBVIOUS
<1>n. \A i \in K : i \in Nat
  OBVIOUS
<1>2. IsFiniteSet(K) /\ n \in Nat /\ n <= Len(s)
  <2>1. IsFiniteSet(1..Len(s)) /\ Cardinality(1..Len(s)) = Len(s) BY <1>1, FS_Interval
  <2>2. K \in SUBSET (1..Len(s)) BY <1>1
  <2> HIDE DEF K
  <2>3. IsFiniteSet(K) /\ Cardinality(K) <= Cardinality(1..Len(s)) BY <2>1, <2>2, FS_Subset
  <2>4. QED BY <2>1, <2>3, FS_CardinalityType
<1>3. Keeping(s, Q) = [k \in 1..n |-> s[h[k]]]
  <2>1. Keeping(s, Q) = [k \in 1..n |-> s[CHOOSE i \in K : Cardinality(Upto(i)) = k]] BY DEF Keeping
  <2>2. \A k \in 1..n : h[k] = CHOOSE i \in K : Cardinality(Upto(i)) = k OBVIOUS
  <2> HIDE DEF K, Upto, n, h
  <2>3. QED BY <2>1, <2>2
<1>u. /\ \A i \in K : Upto(i) \in SUBSET K
      /\ \A i \in K : \A j \in K : j \in Upto(i) <=> j <= i
  OBVIOUS
<1>k. K = {} => n = 0 BY FS_EmptySet
<1> HIDE DEF K, Upto, h
<1>4. \A i \in K : IsFiniteSet(Upto(i)) /\ Cardinality(Upto(i)) \in 1..n
  <2>1. SUFFICES ASSUME NEW i \in K PROVE IsFiniteSet(Upto(i)) /\ Cardinality(Upto(i)) \in 1..n OBVIOUS
  <2>3. IsFiniteSet(Upto(i)) /\ Cardinality(Upto(i)) <= n
    BY <1>u, <1>2, FS_Subset
  <2>4. i \in Upto(i) BY <1>1, <1>u
  <2>5. Cardinality(Upto(i)) # 0 /\ Cardinality(Upto(i)) \in Nat BY <2>3, <2>4, FS_EmptySet, FS_CardinalityType
  <2>6. QED BY <2>3, <2>5, <1>2
<1> HIDE DEF n
<1>5. \A i, j \in K : i < j => Cardinality(Upto(i)) < Cardinality(Upto(j))
  <2>1. SUFFICES ASSUME NEW i \in K, NEW j \in K, i < j PROVE Cardinality(Upto(i)) < Cardinality(Upto(j)) OBVIOUS
  <2>2. Upto(i) \in SUBSET Upto(j) /\ j \in Upto(j) /\ j \notin Upto(i)
    <3>1. \A k \in Upto(i) : k \in K /\ k <= i BY <1>u
    <3>2. \A k \in Upto(i) : k <= j BY <2>1, <1>n, <3>1
    <3>3. QED BY <3>1, <3>2, <2>1, <1>n, <1>u
  <2>3. Cardinality(Upto(i)) <= Cardinality(Upto(j)) /\ Cardinality(Upto(i)) # Cardinality(Upto(j))
    BY <2>2, <1>4, FS_Subset
  <2>4. Cardinality(Upto(i)) \in Nat /\ Cardinality(Upto(j)) \in Nat BY <1>2, <1>4
  <2>5. QED BY <2>3, <2>4
<1>6. \A k \in 1..n : \E i \in K : Cardinality(Upto(i)) = k
  <2>1. SUFFICES ASSUME NEW k \in 1..n PROVE \E i \in K : Cardinality(Upto(i)) = k OBVIOUS
  <2> DEFINE T == {i \in K : Cardinality(Upto(i)) >= k}
  <2>2. T # {}
    <3>1. K # {} BY <1>2, <1>k
    <3>2. PICK m \in K : \A i \in K : m >= i
      <4>1. K \subseteq 0..Len(s) BY <1>1
      <4>2. QED BY <3>1, <4>1, <1>1, MaxOf
    <3>3. Upto(m) = K BY <3>2, <1>1, <1>u
    <3>4. Cardinality(Upto(m)) >= k BY <3>3, <1>2 DEF n
    <3>5. QED BY <3>4
  <2>3. PICK i \in T : \A j \in T : i <= j
    <3>1. T \subseteq Nat BY <1>1
    <3> HIDE DEF T
    <3>2. QED BY <2>2, <3>1, NatHasMin
  <2> DEFINE D == Upto(i) \ {i}
  <2>4. i \in K /\ i \in Upto(i) /\ Cardinality(Upto(i)) >= k BY <2>3, <1>1, <1>u
  <2>5. IsFiniteSet(D) /\ Cardinality(D) = Cardinality(Upto(i)) - 1
    <3>1. IsFiniteSet(Upto(i)) BY <2>4, <1>4
    <3>2. QED BY <2>4, <3>1, FS_RemoveElement
  <2>d. D \subseteq K /\ (\A j \in D : j < i) /\ \A j \in K : j < i => j \in D
    BY <1>n, <1>u, <2>4
  <2> HIDE DEF D
  <2>6. Cardinality(D) < k
    <3>1. SUFFICES ASSUME Cardinality(D) >= k PROVE FALSE
      <4>1. Cardinality(Upto(i)) \in Nat BY <2>4, <1>4, <1>2
      <4>2. QED BY <2>5, <4>1
    <3>2. D # {} BY <3>1, FS_EmptySet
    <3>4. PICK m \in D : \A j \in D : m >= j
      <4>1. D \subseteq 0..Len(s) BY <1>1, <2>d
      <4>2. QED BY <3>2, <4>1, <1>1, MaxOf
    <3>5. m \in K /\ m < i BY <2>d
    <3>6. \A j \in K : j <= m <=> j \in D
      <4>1. SUFFICES ASSUME NEW j \in K PROVE j <= m <=> j \in D OBVIOUS
      <4>2. j \in Nat /\ m \in Nat /\ i \in Nat BY <3>5, <2>4, <1>1
      <4>3. QED BY <4>2, <3>4, <3>5, <2>d
    <3>7. Upto(m) = D BY <3>5, <3>6, <1>u, <2>d
    <3>8. m \in T BY <3>1, <3>5, <3>7
    <3>9. i <= m BY <3>8, <2>3
    <3>10. QED BY <3>9, <3>5, <2>4, <1>1
  <2>7. Cardinality(Upto(i)) = k
    <3>1. Cardinality(Upto(i)) \in Nat BY <2>4, <1>4, <1>2
    <3>2. QED BY <3>1, <2>4, <2>5, <2>6
  <2>8. QED BY <2>4, <2>7
<1>7. h \in [1..n -> K] /\ \A k \in 1..n : Cardinality(Upto(h[k])) = k
  <2>1. SUFFICES ASSUME NEW k \in 1..n PROVE h[k] \in K /\ Cardinality(Upto(h[k])) = k BY Zenon DEF h
  <2>2. QED BY <1>6, Zenon DEF h
<1>8. \A k, l \in 1..n : k < l => h[k] < h[l]
  <2>1. SUFFICES ASSUME NEW k \in 1..n, NEW l \in 1..n, k < l PROVE h[k] < h[l] OBVIOUS
  <2>2. h[k] \in K /\ h[l] \in K /\ Cardinality(Upto(h[k])) = k /\ Cardinality(Upto(h[l])) = l BY <1>7
  <2>3. k \in Nat /\ l \in Nat BY <1>2
  <2>4. h[k] # h[l]  BY <2>1, <2>2, <2>3
  <2>5. ~ h[l] < h[k]
    <3>1. SUFFICES ASSUME h[l] < h[k] PROVE FALSE OBVIOUS
    <3>2. Cardinality(Upto(h[l])) < Cardinality(Upto(h[k])) BY <3>1, <2>2, <1>5
    <3>3. l < k BY <3>2, <2>2
    <3>4. QED BY <3>3, <2>1, <2>3
  <2>6. QED BY <2>2, <2>4, <2>5, <1>n
<1>9. \A i \in K : \E k \in 1..n : h[k] = i
  <2>1. SUFFICES ASSUME NEW i \in K PROVE \E k \in 1..n : h[k] = i OBVIOUS
  <2>2. PICK k \in 1..n : k = Cardinality(Upto(i)) BY <1>4
  <2>3. h[k] \in K /\ Cardinality(Upto(h[k])) = k BY <1>7
  <2>4. k \in Nat BY <1>2
  <2>5. ~ h[k] < i /\ ~ i < h[k]
    <3>1. h[k] < i => k < k BY <2>2, <2>3, <1>5
    <3>2. i < h[k] => k < k BY <2>2, <2>3, <1>5
    <3>3. QED BY <3>1, <3>2, <2>4
  <2>6. QED BY <2>3, <2>5, <1>n
<1>10. \A k \in 1..n : s[h[k]] \in S BY <1>1, <1>7
<1>11. Keeping(s, Q) \in Seq(S) /\ Len(Keeping(s, Q)) = n /\ \A k \in 1..n : Keeping(s, Q)[k] = s[h[k]]
  BY <1>2, <1>3, <1>10
<1>12. h \in [1..n -> 1..Len(s)] BY <1>1, <1>7
<1>13. \A k \in 1..n : s[h[k]] \in Q BY <1>1, <1>7
<1>14. \A i \in 1..Len(s) : s[i] \in Q => \E k \in 1..n : h[k] = i BY <1>1, <1>9
<1>15. QED
  BY <1>2, <1>8, <1>11, <1>12, <1>13, <1>14, Zenon

(* The same, under one name. *)
IsKept(r, s, S, Q) ==
  /\ r \in Seq(S) /\ Len(r) <= Len(s)
  /\ \E h \in [1..Len(r) -> 1..Len(s)] :
       /\ \A k \in 1..Len(r) : r[k] = s[h[k]] /\ s[h[k]] \in Q
       /\ \A k, l \in 1..Len(r) : k < l => h[k] < h[l]
       /\ \A i \in 1..Len(s) : s[i] \in Q => \E k \in 1..Len(r) : h[k] = i

LEMMA KeepingIsKept ==
  ASSUME NEW S, NEW s \in Seq(S), NEW Q
  PROVE  IsKept(Keeping(s, Q), s, S, Q)
BY KeepingFacts DEF IsKept

(* The elements of what is kept are those of the sequence that are in the set. *)
LEMMA KeepingRange ==
  ASSUME NEW S, NEW s \in Seq(S), NEW Q
  PROVE  Range(Keeping(s, Q)) = Range(s) \cap Q
<1> DEFINE r == Keeping(s, Q)
<1>1. IsKept(r, s, S, Q) BY KeepingIsKept
<1> HIDE DEF r
<1>2. PICK h \in [1..Len(r) -> 1..Len(s)] :
           /\ \A k \in 1..Len(r) : r[k] = s[h[k]] /\ s[h[k]] \in Q
           /\ \A i \in 1..Len(s) : s[i] \in Q => \E k \in 1..Len(r) : h[k] = i
  BY <1>1, Zenon DEF IsKept
<1>3. DOMAIN r = 1..Len(r) /\ DOMAIN s = 1..Len(s) BY <1>1, LenProperties DEF IsKept
<1>4. ASSUME NEW x \in Range(r) PROVE x \in Range(s) \cap Q
  <2>1. PICK k \in 1..Len(r) : x = r[k] BY <1>3 DEF Range
  <2>2. QED BY <2>1, <1>2, <1>3 DEF Range
<1>5. ASSUME NEW x \in Range(s), x \in Q PROVE x \in Range(r)
  <2>1. PICK i \in 1..Len(s) : x = s[i] BY <1>3 DEF Range
  <2>2. PICK k \in 1..Len(r) : h[k] = i BY <2>1, <1>5, <1>2
  <2>3. x = r[k] BY <2>1, <2>2, <1>2
  <2>4. QED BY <2>3, <1>3 DEF Range
<1>6. QED BY <1>4, <1>5 DEF r

(* A sequence whose elements are all in the set is kept as it is. *)
LEMMA KeepingAll ==
  ASSUME NEW S, NEW s \in Seq(S), NEW Q, Range(s) \subseteq Q
  PROVE  Keeping(s, Q) = s
<1>1. DOMAIN s = 1..Len(s) /\ Len(s) \in Nat /\ s = [i \in 1..Len(s) |-> s[i]] BY LenProperties
<1> DEFINE K == {i \in DOMAIN s : s[i] \in Q}
           Place(k) == CHOOSE i \in K : Cardinality({j \in K : j <= i}) = k
<1>2. K = 1..Len(s) BY <1>1 DEF Range
<1>n. \A m \in Nat : Cardinality(1..m) = m
  <2>1. SUFFICES ASSUME NEW m \in Nat PROVE Cardinality(1..m) = m OBVIOUS
  <2>2. Cardinality(1..m) = IF 1 > m THEN 0 ELSE m - 1 + 1 BY FS_Interval
  <2>3. QED BY <2>2
<1>3. Cardinality(K) = Len(s) BY <1>1, <1>2, <1>n
<1>4. ASSUME NEW i \in 1..Len(s) PROVE Cardinality({j \in K : j <= i}) = i
  <2>1. {j \in K : j <= i} = 1..i BY <1>1, <1>2
  <2>2. i \in Nat BY <1>1
  <2> HIDE DEF K
  <2>3. QED BY <2>1, <2>2, <1>n
<1>5. Keeping(s, Q) = [k \in 1..Cardinality(K) |-> s[Place(k)]] BY DEF Keeping
<1> HIDE DEF K
<1>6. ASSUME NEW k \in 1..Len(s) PROVE Place(k) = k
  <2>1. k \in K /\ Cardinality({j \in K : j <= k}) = k BY <1>2, <1>4
  <2>2. Place(k) \in K /\ Cardinality({j \in K : j <= Place(k)}) = k BY <2>1
  <2>3. Cardinality({j \in K : j <= Place(k)}) = Place(k) BY <2>2, <1>2, <1>4
  <2>4. QED BY <2>2, <2>3
<1> HIDE DEF Place
<1>7. QED BY <1>1, <1>3, <1>5, <1>6

(* Of a line without repetitions, what is kept has none. *)
LEMMA KeepingLine ==
  ASSUME NEW S, NEW s \in Seq(S), NEW Q, IsInjective(s)
  PROVE  /\ Keeping(s, Q) \in Seq(S) /\ Len(Keeping(s, Q)) <= Len(s)
         /\ IsInjective(Keeping(s, Q)) /\ Range(Keeping(s, Q)) = Range(s) \cap Q
<1> DEFINE r == Keeping(s, Q)
<1>0. s \in Seq(S) OBVIOUS
<1>1. /\ Keeping(s, Q) \in Seq(S) /\ Len(Keeping(s, Q)) <= Len(s)
      /\ \E h \in [1..Len(Keeping(s, Q)) -> 1..Len(s)] :
           /\ \A k \in 1..Len(Keeping(s, Q)) : Keeping(s, Q)[k] = s[h[k]] /\ s[h[k]] \in Q
           /\ \A k, l \in 1..Len(Keeping(s, Q)) : k < l => h[k] < h[l]
           /\ \A i \in 1..Len(s) : s[i] \in Q => \E k \in 1..Len(Keeping(s, Q)) : h[k] = i
  BY <1>0, KeepingFacts
<1>2. PICK h \in [1..Len(r) -> 1..Len(s)] :
           /\ \A k \in 1..Len(r) : r[k] = s[h[k]] /\ s[h[k]] \in Q
           /\ \A k, l \in 1..Len(r) : k < l => h[k] < h[l]
           /\ \A i \in 1..Len(s) : s[i] \in Q => \E k \in 1..Len(r) : h[k] = i
  BY <1>1, Zenon
<1>r. r \in Seq(S) /\ Len(r) <= Len(s) BY <1>1
<1> HIDE DEF r
<1>3. DOMAIN r = 1..Len(r) /\ DOMAIN s = 1..Len(s) /\ Len(r) \in Nat /\ Len(s) \in Nat BY <1>r, LenProperties
<1>4. IsInjective(r)
  <2>1. SUFFICES ASSUME NEW k \in 1..Len(r), NEW l \in 1..Len(r), r[k] = r[l] PROVE k = l BY <1>3 DEF IsInjective
  <2>2. h[k] \in 1..Len(s) /\ h[l] \in 1..Len(s) /\ s[h[k]] = s[h[l]] BY <2>1, <1>2
  <2>3. h[k] = h[l] BY <2>2, <1>3 DEF IsInjective
  <2>4. ~ k < l /\ ~ l < k
    <3>1. k < l => h[k] < h[l] BY <1>2
    <3>2. l < k => h[l] < h[k] BY <1>2
    <3>3. h[k] \in Nat BY <2>2, <1>3
    <3>4. QED BY <3>1, <3>2, <3>3, <2>3
  <2>5. QED BY <2>4, <1>3
<1>5. Range(r) = Range(s) \cap Q BY KeepingRange DEF r
<1>6. QED BY <1>r, <1>4, <1>5 DEF r
=============================================================================

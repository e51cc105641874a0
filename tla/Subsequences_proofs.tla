------------------------ MODULE Subsequences_proofs ------------------------
(***************************************************************************)
(* Lemmas about Subsequences, and induction over an interval of numbers in *)
(* a form that the provers can use.                                        *)
(***************************************************************************)
EXTENDS Subsequences, FiniteSetTheorems, FunctionTheorems,
        SequenceTheorems, TLAPS

(***************************************************************************)
(* A set that contains 0 and, with every number below n, the next one,     *)
(* contains n.  Otherwise adding 1 would map it into itself, one-to-one,   *)
(* without reaching 0.                                                     *)
(***************************************************************************)
LEMMA UpTo ==
    ASSUME NEW n \in Nat, NEW S \in SUBSET (0..n), 0 \in S,
           \A k \in S : k < n => k + 1 \in S
    PROVE  n \in S
<1>. SUFFICES ASSUME n \notin S PROVE FALSE
  OBVIOUS
<1>. DEFINE next == [k \in S |-> k + 1]
<1>1. IsFiniteSet(S) /\ IsFiniteSet(S \ {0})
  <2>1. IsFiniteSet(0..n)
    BY FS_Interval
  <2>. QED
    BY <2>1, FS_Subset
<1>2. next \in Injection(S, S \ {0})
  <2>1. next \in [S -> S \ {0}]
    OBVIOUS
  <2>2. \A i, j \in S : next[i] = next[j] => i = j
    OBVIOUS
  <2>. QED
    BY <2>1, <2>2, Fun_IsInj
<1>3. Cardinality(S) <= Cardinality(S \ {0})
  BY <1>1, <1>2, FS_Injection
<1>4. Cardinality(S \ {0}) = Cardinality(S) - 1 /\ Cardinality(S) \in Nat
  BY <1>1, FS_RemoveElement, FS_CardinalityType
<1>. QED
  BY <1>3, <1>4

(***************************************************************************)
(* A later position of K has more positions of K before it.                *)
(***************************************************************************)
LEMMA RankIncreases ==
    ASSUME NEW n \in Nat, NEW K \in SUBSET (1..n),
           NEW i \in K, NEW j \in K, i < j
    PROVE  /\ Rank(K, i) \in Nat
           /\ Rank(K, i) < Rank(K, j)
<1>. DEFINE Before(m) == {k \in K : k < m}
<1>1. IsFiniteSet(K)
  <2>1. IsFiniteSet(1..n)
    BY FS_Interval
  <2>. QED
    BY <2>1, FS_Subset
<1>2. IsFiniteSet(Before(i)) /\ IsFiniteSet(Before(j))
  BY <1>1, FS_Subset
<1>3. Cardinality(Before(i)) \in Nat /\ Cardinality(Before(j)) \in Nat
  BY <1>2, FS_CardinalityType
<1>4. i \notin Before(i) /\ Before(i) \cup {i} \in SUBSET Before(j)
  <2>1. \A k \in K : k \in Int
    OBVIOUS
  <2>2. (\A k \in K : k < i => k < j) /\ ~(i < i)
    BY <2>1
  <2>. QED
    BY <2>2, Zenon
<1>5. Cardinality(Before(i) \cup {i}) = Cardinality(Before(i)) + 1
  BY <1>2, <1>4, FS_AddElement
<1>6. Cardinality(Before(i) \cup {i}) <= Cardinality(Before(j))
  BY <1>2, <1>4, FS_Subset
<1>. QED
  BY <1>3, <1>5, <1>6 DEF Rank

(***************************************************************************)
(* The rank of a position of K is below the number of them.                *)
(***************************************************************************)
LEMMA RankBelow ==
    ASSUME NEW n \in Nat, NEW K \in SUBSET (1..n), NEW i \in K
    PROVE  Rank(K, i) \in 0..(Cardinality(K) - 1)
<1>. DEFINE c == Cardinality(K)
            B == {k \in K : k < i}
<1>1. IsFiniteSet(K) /\ c \in Nat
  <2>1. IsFiniteSet(1..n)
    BY FS_Interval
  <2>. QED
    BY <2>1, FS_Subset, FS_CardinalityType
<1>2. IsFiniteSet(B) /\ Cardinality(B) \in Nat /\ Cardinality(B) <= c
  BY <1>1, FS_Subset, FS_CardinalityType
<1>3. B # K /\ B \in SUBSET K
  OBVIOUS
<1>4. Cardinality(B) # c
  BY <1>1, <1>3, FS_Subset
<1>. QED
  BY <1>1, <1>2, <1>4 DEF Rank

(***************************************************************************)
(* Every rank below the number of positions in K is the rank of one.       *)
(***************************************************************************)
LEMMA RankSurjective ==
    ASSUME NEW n \in Nat, NEW K \in SUBSET (1..n)
    PROVE  /\ Cardinality(K) \in Nat
           /\ \A j \in 1..Cardinality(K) : \E i \in K : Rank(K, i) = j - 1
<1>. DEFINE c == Cardinality(K)
            r == [i \in K |-> Rank(K, i) + 1]
<1>1. IsFiniteSet(K) /\ c \in Nat
  <2>1. IsFiniteSet(1..n)
    BY FS_Interval
  <2>. QED
    BY <2>1, FS_Subset, FS_CardinalityType
<1>2. \A i \in K : Rank(K, i) \in 0..(c - 1)
  BY RankBelow
<1>3. r \in Injection(K, 1..c)
  <2>1. r \in [K -> 1..c]
    BY <1>1, <1>2
  <2>2. ASSUME NEW i \in K, NEW j \in K, r[i] = r[j]
        PROVE  i = j
    <3>1. Rank(K, i) = Rank(K, j)
      BY <1>1, <1>2, <2>2
    <3>2. ASSUME i < j PROVE FALSE
      <4>1. Rank(K, i) < Rank(K, j)
        BY <3>2, RankIncreases
      <4>. QED
        BY <1>2, <3>1, <4>1
    <3>3. ASSUME j < i PROVE FALSE
      <4>1. Rank(K, j) < Rank(K, i)
        BY <3>3, RankIncreases
      <4>. QED
        BY <1>2, <3>1, <4>1
    <3>. QED
      BY <3>2, <3>3
  <2>. QED
    BY <2>1, <2>2, Fun_IsInj
<1>4. IsFiniteSet(1..c) /\ Cardinality(1..c) = c
  BY <1>1, FS_Interval
<1>5. r \in Surjection(K, 1..c)
  BY <1>3, <1>4, FS_Injection
<1>6. ASSUME NEW j \in 1..c
      PROVE  \E i \in K : Rank(K, i) = j - 1
  <2>1. \E i \in K : r[i] = j
    <3>1. \A t \in 1..c : \E i \in K : r[i] = t
      <4>. HIDE DEF r, c
      <4>. QED
        BY <1>5, Fun_SurjectionProperties, Zenon
    <3>. QED
      BY <3>1
  <2>. QED
    BY <1>1, <1>2, <2>1
<1>. QED
  BY <1>1, <1>6

(***************************************************************************)
(* What is picked from a sequence over S is a sequence over S, and not     *)
(* longer.                                                                 *)
(***************************************************************************)
LEMMA PickedType ==
    ASSUME NEW S, NEW s \in Seq(S), NEW K \in SUBSET (1..Len(s))
    PROVE  /\ Picked(s, K) \in Seq(S)
           /\ Len(Picked(s, K)) = Cardinality(K)
           /\ Cardinality(K) \in 0..Len(s)
<1>. DEFINE At(j) == CHOOSE i \in K : Rank(K, i) = j - 1
<1>1. Len(s) \in Nat
  OBVIOUS
<1>2. Cardinality(K) \in 0..Len(s)
  <2>1. IsFiniteSet(1..Len(s)) /\ Cardinality(1..Len(s)) = Len(s)
    BY <1>1, FS_Interval
  <2>2. Cardinality(K) <= Len(s) /\ IsFiniteSet(K)
    BY <2>1, FS_Subset
  <2>3. Cardinality(K) \in Nat
    BY <2>2, FS_CardinalityType
  <2>. QED
    BY <1>1, <2>2, <2>3
<1>3. ASSUME NEW j \in 1..Cardinality(K)
      PROVE  s[At(j)] \in S
  <2>1. \E i \in K : Rank(K, i) = j - 1
    BY <1>1, RankSurjective
  <2>2. At(j) \in K
    BY <2>1
  <2>. HIDE DEF At
  <2>. QED
    BY <1>1, <2>2, ElementOfSeq
<1>4. Picked(s, K) = [j \in 1..Cardinality(K) |-> s[At(j)]]
  BY DEF Picked
<1>. HIDE DEF At
<1>. QED
  BY <1>2, <1>3, <1>4

(***************************************************************************)
(* The elements picked are those at the positions K, all of them, in their *)
(* order.                                                                  *)
(***************************************************************************)
LEMMA PickedKeeps ==
    ASSUME NEW S, NEW s \in Seq(S), NEW K \in SUBSET (1..Len(s))
    PROVE  LET w == Picked(s, K) IN
           /\ \A j \in DOMAIN w : \E i \in K : w[j] = s[i]
           /\ \A i \in K : \E j \in DOMAIN w : w[j] = s[i]
           /\ \A j, k \in DOMAIN w : j < k =>
                \E a, b \in K : a < b /\ w[j] = s[a] /\ w[k] = s[b]
<1>. DEFINE c == Cardinality(K)
            At(j) == CHOOSE i \in K : Rank(K, i) = j - 1
            w == Picked(s, K)
<1>1. Len(s) \in Nat /\ K \in SUBSET (1..Len(s)) /\ K \subseteq Nat
  OBVIOUS
<1>2. c \in Nat /\ \A j \in 1..c : \E i \in K : Rank(K, i) = j - 1
  BY <1>1, RankSurjective
<1>3. \A j \in 1..c : At(j) \in K /\ Rank(K, At(j)) = j - 1
  BY <1>2
<1>4. \A i, j \in K : i < j => Rank(K, i) \in Nat /\ Rank(K, i) < Rank(K, j)
  BY <1>1, RankIncreases
<1>5. w = [j \in 1..c |-> s[At(j)]]
  BY DEF Picked
<1>6. ASSUME NEW i \in K
      PROVE  \E j \in 1..c : At(j) = i
  <2>1. Rank(K, i) \in 0..(c - 1)
    BY <1>1, RankBelow
  <2>2. Rank(K, i) + 1 \in 1..c
    BY <2>1, <1>2
  <2>3. At(Rank(K, i) + 1) \in K /\ Rank(K, At(Rank(K, i) + 1)) = Rank(K, i)
    BY <2>1, <2>2, <1>3
  <2>4. At(Rank(K, i) + 1) = i
    <3>. HIDE DEF At
    <3>1. ASSUME NEW n \in K, Rank(K, n) = Rank(K, i)
          PROVE  n = i
      BY <3>1, <1>1, <1>4
    <3>. QED
      BY <2>3, <3>1
  <2>. QED
    BY <2>2, <2>4
<1>7. ASSUME NEW j \in 1..c, NEW k \in 1..c, j < k
      PROVE  At(j) < At(k)
  <2>. HIDE DEF At, c
  <2>1. At(j) \in K /\ At(k) \in K /\ Rank(K, At(j)) = j - 1 /\ Rank(K, At(k)) = k - 1
    BY <1>3
  <2>2. At(j) # At(k)
    BY <2>1, <1>7, <1>2
  <2>3. ASSUME At(k) < At(j) PROVE FALSE
    <3>1. Rank(K, At(k)) < Rank(K, At(j))
      BY <2>1, <2>3, <1>4
    <3>. QED
      BY <2>1, <3>1, <1>7
  <2>4. At(j) \in Nat /\ At(k) \in Nat
    BY <2>1, <1>1
  <2>. QED
    BY <2>2, <2>3, <2>4
<1>. HIDE DEF At, c, w
<1>8. DOMAIN w = 1..c /\ \A j \in 1..c : w[j] = s[At(j)]
  BY <1>5
<1>9. \A j \in DOMAIN w : \E i \in K : w[j] = s[i]
  BY <1>3, <1>8
<1>10. \A i \in K : \E j \in DOMAIN w : w[j] = s[i]
  BY <1>6, <1>8
<1>11. ASSUME NEW j \in DOMAIN w, NEW k \in DOMAIN w, j < k
       PROVE  \E a, b \in K : a < b /\ w[j] = s[a] /\ w[k] = s[b]
  BY <1>3, <1>7, <1>8, <1>11
<1>. QED
  BY <1>9, <1>10, <1>11 DEF w
=============================================================================

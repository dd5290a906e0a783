-------------------------- MODULE SubsequencesProofs --------------------------
(***************************************************************************)
(* What the elements taken from a list are: elements of the list, each at  *)
(* its own position, and none is left out.                                 *)
(***************************************************************************)
EXTENDS Subsequences, Sequences, FiniteSetTheorems, TLAPS

\* The positions of a list are finitely many.
LEMMA FinitePositions ==
    ASSUME NEW n \in Nat, NEW I \in SUBSET (1..n)
    PROVE  IsFiniteSet(I) /\ Cardinality(I) \in 0..n
  <1>1. IsFiniteSet(1..n) /\ Cardinality(1..n) = n
    <2>1. 1 \in Int /\ n \in Int
      OBVIOUS
    <2>2. IsFiniteSet(1..n) /\ Cardinality(1..n) = IF 1 > n THEN 0 ELSE n - 1 + 1
      BY <2>1, FS_Interval
    <2> QED BY <2>2
  <1>2. IsFiniteSet(I) /\ Cardinality(I) <= n
    BY <1>1, FS_Subset
  <1>3. Cardinality(I) \in Nat
    BY <1>2, FS_CardinalityType
  <1> QED BY <1>2, <1>3

LEMMA RankType ==
    ASSUME NEW n \in Nat, NEW I \in SUBSET (1..n), NEW i \in I
    PROVE  Rank(I, i) \in 1..Cardinality(I)
  <1> DEFINE J == {j \in I : j <= i}
  <1>1. IsFiniteSet(I) /\ Cardinality(I) \in Nat
    BY FinitePositions
  <1>2. J \in SUBSET I /\ i \in J
    OBVIOUS
  <1> HIDE DEF J
  <1>3. IsFiniteSet(J) /\ Cardinality(J) <= Cardinality(I)
    BY <1>1, <1>2, FS_Subset
  <1>4. Cardinality(J) \in Nat /\ Cardinality(J) # 0
    BY <1>2, <1>3, FS_EmptySet, FS_CardinalityType
  <1> QED BY <1>1, <1>3, <1>4 DEF Rank, J

\* A later position has a greater rank.
LEMMA RankGrows ==
    ASSUME NEW n \in Nat, NEW I \in SUBSET (1..n), NEW i \in I, NEW j \in I, i < j
    PROVE  Rank(I, i) < Rank(I, j)
  <1> DEFINE A == {k \in I : k <= i}
             B == {k \in I : k <= j}
  <1>1. IsFiniteSet(I) /\ B \in SUBSET I
    BY FinitePositions
  <1>2. A \in SUBSET B /\ A # B
    <2>1. \A k \in I : k \in Int
      OBVIOUS
    <2>2. j \in B /\ j \notin A
      BY <2>1
    <2>3. \A k \in I : k <= i => k <= j
      BY <2>1
    <2> QED BY <2>2, <2>3
  <1> HIDE DEF A, B
  <1>3. IsFiniteSet(B)
    BY <1>1, FS_Subset
  <1>4. IsFiniteSet(A) /\ Cardinality(A) <= Cardinality(B) /\ Cardinality(B) # Cardinality(A)
    BY <1>2, <1>3, FS_Subset
  <1>5. Cardinality(A) \in Nat /\ Cardinality(B) \in Nat
    BY <1>3, <1>4, FS_CardinalityType
  <1>6. Cardinality(A) < Cardinality(B)
    BY <1>4, <1>5
  <1> QED BY <1>6 DEF Rank, A, B

\* There is a position for every rank: as many ranks as places.
LEMMA RankTaken ==
    ASSUME NEW n \in Nat, NEW I \in SUBSET (1..n), NEW k \in 1..Cardinality(I)
    PROVE  \E i \in I : Rank(I, i) = k
  <1> DEFINE R == [i \in I |-> Rank(I, i)]
             P == 1..Cardinality(I)
  <1>1. IsFiniteSet(I) /\ Cardinality(I) \in Nat
    BY FinitePositions
  <1>2. IsFiniteSet(P) /\ Cardinality(P) = Cardinality(I)
    <2>1. 1 \in Int /\ Cardinality(I) \in Int
      BY <1>1
    <2>2. IsFiniteSet(P)
          /\ Cardinality(P) = IF 1 > Cardinality(I) THEN 0 ELSE Cardinality(I) - 1 + 1
      BY <2>1, FS_Interval
    <2> QED BY <1>1, <2>2
  <1>3. R \in Injection(I, P)
    <2>1. R \in [I -> P]
      BY RankType
    <2>2. ASSUME NEW i \in I, NEW j \in I, R[i] = R[j] PROVE i = j
      <3>1. i \in Int /\ j \in Int
        OBVIOUS
      <3>2. Rank(I, i) \in P /\ Rank(I, j) \in P /\ Rank(I, i) = Rank(I, j)
        BY <2>2, RankType
      <3>3. ~(Rank(I, i) < Rank(I, j)) /\ ~(Rank(I, j) < Rank(I, i))
        BY <1>1, <3>2
      <3>4. ~(i < j) /\ ~(j < i)
        BY <3>3, RankGrows
      <3> QED BY <3>1, <3>4
    <2> QED BY <2>1, <2>2 DEF Injection, IsInjective
  <1> HIDE DEF R, P
  <1>4. R \in Surjection(I, P)
    BY <1>2, <1>3, FS_Injection
  <1> QED BY <1>4 DEF Surjection, R, P

\* What is taken from a list is a list of its elements, no longer than the list.
THEOREM SubsequenceOf ==
    ASSUME NEW S, NEW s \in Seq(S), NEW I \in SUBSET (1..Len(s))
    PROVE  /\ Subsequence(s, I) \in Seq(S)
           /\ Len(Subsequence(s, I)) = Cardinality(I)
           /\ Len(Subsequence(s, I)) <= Len(s)
           /\ \A k \in 1..Len(Subsequence(s, I)) : \E i \in I : Subsequence(s, I)[k] = s[i]
  <1> DEFINE at(k) == CHOOSE i \in I : Rank(I, i) = k
             t == [k \in 1..Cardinality(I) |-> s[at(k)]]
  <1>0. Len(s) \in Nat
    OBVIOUS
  <1>1. Cardinality(I) \in 0..Len(s)
    BY <1>0, FinitePositions
  <1>2. \A k \in 1..Cardinality(I) : at(k) \in I
    <2>1. \A k \in 1..Cardinality(I) : \E i \in I : Rank(I, i) = k
      BY <1>0, RankTaken
    <2> QED BY <2>1
  <1>3. \A i \in I : s[i] \in S
    OBVIOUS
  <1>4. t = Subsequence(s, I)
    BY DEF Subsequence
  <1> HIDE DEF at
  <1>5. \A k \in 1..Cardinality(I) : t[k] = s[at(k)] /\ t[k] \in S
    BY <1>2, <1>3
  <1>6. t \in Seq(S) /\ Len(t) = Cardinality(I)
    BY <1>1, <1>5
  <1> HIDE DEF t
  <1>7. \A k \in 1..Len(t) : \E i \in I : t[k] = s[i]
    BY <1>2, <1>5, <1>6
  <1> QED BY <1>1, <1>4, <1>6, <1>7

\* Every element at one of the positions is taken.
THEOREM SubsequenceAll ==
    ASSUME NEW S, NEW s \in Seq(S), NEW I \in SUBSET (1..Len(s)), NEW i \in I
    PROVE  \E k \in 1..Len(Subsequence(s, I)) : Subsequence(s, I)[k] = s[i]
  <1> DEFINE k == Rank(I, i)
  <1>0. Len(s) \in Nat
    OBVIOUS
  <1>1. k \in 1..Cardinality(I)
    BY <1>0, RankType
  <1>2. \A j \in I : Rank(I, j) = k => j = i
    <2> SUFFICES ASSUME NEW j \in I, Rank(I, j) = k PROVE j = i
      OBVIOUS
    <2>1. Rank(I, i) \in Int /\ Rank(I, j) \in Int
      BY <1>0, <1>1, FinitePositions
    <2>2. ~(Rank(I, i) < Rank(I, j)) /\ ~(Rank(I, j) < Rank(I, i))
      BY <2>1
    <2>3. ~(i < j) /\ ~(j < i)
      BY <1>0, <2>2, RankGrows
    <2> QED BY <2>3
  <1> HIDE DEF k
  <1>3. (CHOOSE j \in I : Rank(I, j) = k) = i
    BY <1>2 DEF k
  <1>4. Subsequence(s, I)[k] = s[i]
    BY <1>1, <1>3 DEF Subsequence
  <1> QED BY <1>1, <1>4, SubsequenceOf

\* The elements that are taken stay in their order.
THEOREM SubsequenceInOrder ==
    ASSUME NEW S, NEW s \in Seq(S), NEW I \in SUBSET (1..Len(s)),
           NEW k \in 1..Len(Subsequence(s, I)), NEW l \in 1..Len(Subsequence(s, I)), k < l
    PROVE  \E i \in I, j \in I :
              i < j /\ Subsequence(s, I)[k] = s[i] /\ Subsequence(s, I)[l] = s[j]
  <1> DEFINE at(m) == CHOOSE i \in I : Rank(I, i) = m
  <1>0. Len(s) \in Nat
    OBVIOUS
  <1>1. Cardinality(I) \in Nat /\ k \in 1..Cardinality(I) /\ l \in 1..Cardinality(I)
    BY <1>0, FinitePositions, SubsequenceOf
  <1>2. at(k) \in I /\ Rank(I, at(k)) = k /\ at(l) \in I /\ Rank(I, at(l)) = l
    BY <1>0, <1>1, RankTaken
  <1>3. Subsequence(s, I)[k] = s[at(k)] /\ Subsequence(s, I)[l] = s[at(l)]
    BY <1>1 DEF Subsequence
  <1>4. \A i \in I : i \in Int
    BY <1>0
  <1> HIDE DEF at
  <1>5. at(k) # at(l) /\ ~(at(l) < at(k))
    <2>1. k \in Int /\ l \in Int
      BY <1>1
    <2>2. ~(l < k) /\ k # l
      BY <2>1
    <2> QED BY <1>0, <1>2, <2>2, RankGrows
  <1>6. at(k) < at(l)
    <2>1. at(k) \in Int /\ at(l) \in Int
      BY <1>2, <1>4
    <2> QED BY <1>5, <2>1
  <1> QED BY <1>2, <1>3, <1>6, Zenon
=============================================================================

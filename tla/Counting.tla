------------------------------ MODULE Counting -------------------------------
(***************************************************************************)
(* Facts about finite sets of numbers that several proofs need: that they have*)
(* a least and a greatest member, and that Ascending lists each of them once,*)
(* in order.  A minimal member of a family of finite sets stands in for    *)
(* induction over their size.                                              *)
(***************************************************************************)
EXTENDS Listing, Sequences, FiniteSetTheorems, WellFoundedInduction, TLAPS

-----------------------------------------------------------------------------
\* A family of finite sets has a member that includes no other.
THEOREM MinimalSet ==
  ASSUME NEW C, C # {}, \A A \in C : IsFiniteSet(A)
  PROVE  \E A \in C : \A B \in C : B \subseteq A => B = A
<1> DEFINE S == UNION C
<1>1. IsWellFoundedOn(StrictSubsetOrdering(S), FiniteSubsetsOf(S))
  BY FS_StrictSubsetOrderingWellFounded
<1>2. C \subseteq FiniteSubsetsOf(S)
  BY DEF FiniteSubsetsOf
<1>3. PICK A \in C : \A B \in C : ~(<<B, A>> \in StrictSubsetOrdering(S))
  BY <1>1, <1>2, WFMin
<1>4. ASSUME NEW B \in C, B \subseteq A PROVE B = A
  BY <1>3, <1>4 DEF StrictSubsetOrdering
<1>5. QED
  BY <1>3, <1>4

\* A set of numbers has a least member.
THEOREM LeastNumber ==
  ASSUME NEW N, N \subseteq Nat, N # {}
  PROVE  \E m \in N : \A n \in N : m <= n
<1> DEFINE C == {0 .. n : n \in N}
<1>1. \A A \in C : A \subseteq Nat /\ IsFiniteSet(A)
  <2> SUFFICES ASSUME NEW n \in N PROVE 0 .. n \subseteq Nat /\ IsFiniteSet(0 .. n)
    OBVIOUS
  <2>1. 0 \in Int /\ n \in Int
    OBVIOUS
  <2>2. QED
    BY <2>1, FS_Interval
<1>2. C # {}
  OBVIOUS
<1> HIDE DEF C
<1>3. PICK A \in C : \A B \in C : B \subseteq A => B = A
  BY <1>1, <1>2, MinimalSet
<1>4. PICK m \in N : A = 0 .. m
  BY DEF C
<1>5. ASSUME NEW n \in N, n < m PROVE FALSE
  <2>1. 0 .. n \in C /\ 0 .. n \subseteq 0 .. m
    BY <1>5 DEF C
  <2>2. 0 .. n = 0 .. m
    BY <1>3, <1>4, <2>1
  <2>3. m \in 0 .. m /\ m \notin 0 .. n
    BY <1>5
  <2>4. QED
    BY <2>2, <2>3
<1>6. QED
  BY <1>5

\* A bounded set of numbers has a greatest member.
LEMMA GreatestNumber ==
  ASSUME NEW N, N # {}, NEW bound \in Nat, N \subseteq 0 .. bound
  PROVE  \E m \in N : \A n \in N : n <= m
<1> DEFINE M == {bound - n : n \in N}
<1>1. M \subseteq Nat /\ M # {}
  <2>1. \A n \in N : bound - n \in Nat
    OBVIOUS
  <2> QED
    BY <2>1
<1> HIDE DEF M
<1>2. PICK k \in M : \A n \in M : k <= n
  BY <1>1, LeastNumber
<1>3. PICK m \in N : k = bound - m
  BY DEF M
<1>4. \A n \in N : bound - m <= bound - n
  BY <1>2, <1>3 DEF M
<1>5. \A n \in N : n <= m
  BY <1>3, <1>4
<1> QED
  BY <1>5

\* The ranks of the members grow with them.
LEMMA RanksDiffer ==
  ASSUME NEW S, S \subseteq Nat, IsFiniteSet(S), NEW i \in S, NEW j \in S, i < j
  PROVE  Rank(S, i) < Rank(S, j)
<1> DEFINE A == {k \in S : k <= i}
           B == {k \in S : k <= j}
<1>0. i \in Nat /\ j \in Nat /\ \A k \in S : k \in Nat
  OBVIOUS
<1>1. IsFiniteSet(B)
  BY FS_Subset
<1>2. A \subseteq B /\ j \in B /\ j \notin A
  <2>1. \A k \in S : k <= i => k <= j
    BY <1>0
  <2>2. j <= j /\ ~(j <= i)
    BY <1>0
  <2>3. QED
    BY <2>1, <2>2, Zenon
<1> HIDE DEF A, B
<1>3. Cardinality(A) < Cardinality(B)
  <2>1. Cardinality(A) <= Cardinality(B) /\ (Cardinality(B) = Cardinality(A) => B = A)
    BY <1>1, <1>2, FS_Subset
  <2>2. Cardinality(A) \in Nat /\ Cardinality(B) \in Nat
    BY <1>1, <1>2, FS_Subset, FS_CardinalityType
  <2>3. QED
    BY <1>2, <2>1, <2>2
<1>4. QED
  BY <1>3 DEF Rank, A, B

\* The ranks are 1 .. Cardinality(S), each the rank of one member.
LEMMA RanksCount ==
  ASSUME NEW S, S \subseteq Nat, IsFiniteSet(S)
  PROVE  /\ \A i \in S : Rank(S, i) \in 1 .. Cardinality(S)
         /\ \A i, j \in S : Rank(S, i) = Rank(S, j) => i = j
         /\ \A n \in 1 .. Cardinality(S) : \E i \in S : Rank(S, i) = n
<1> DEFINE N == Cardinality(S)
<1>0. N \in Nat
  BY FS_CardinalityType
<1>1. ASSUME NEW i \in S PROVE Rank(S, i) \in 1 .. N
  <2> DEFINE A == {k \in S : k <= i}
  <2>1. IsFiniteSet(A) /\ A \subseteq S /\ i \in A
    BY FS_Subset
  <2>2. Cardinality(A) \in Nat /\ Cardinality(A) <= N
    BY <2>1, FS_Subset, FS_CardinalityType
  <2>3. Cardinality(A) # 0
    BY <2>1, FS_EmptySet
  <2>4. QED
    BY <1>0, <2>2, <2>3 DEF Rank
<1>2. ASSUME NEW i \in S, NEW j \in S, Rank(S, i) = Rank(S, j) PROVE i = j
  <2>1. Rank(S, i) \in Nat /\ Rank(S, j) \in Nat /\ i \in Nat /\ j \in Nat
    BY <1>1
  <2>2. (i < j => Rank(S, i) < Rank(S, j)) /\ (j < i => Rank(S, j) < Rank(S, i))
    BY RanksDiffer
  <2>3. QED
    BY <1>2, <2>1, <2>2
<1>3. \A n \in 1 .. N : \E i \in S : Rank(S, i) = n
  <2> DEFINE f == [i \in S |-> Rank(S, i)]
  <2>1. f \in Injection(S, 1 .. N)
    BY <1>1, <1>2 DEF Injection, IsInjective
  <2>2. IsFiniteSet(1 .. N) /\ Cardinality(1 .. N) = N
    BY <1>0, FS_Interval
  <2>3. f \in Surjection(S, 1 .. N)
    BY <2>1, <2>2, FS_Injection
  <2>4. QED
    BY <2>3 DEF Surjection
<1>4. QED
  BY <1>1, <1>2, <1>3

\* Ascending(S) lists the members of S, each once, the smaller first.
LEMMA AscendingLists ==
  ASSUME NEW S, S \subseteq Nat, IsFiniteSet(S)
  PROVE  /\ Ascending(S) \in Seq(S) /\ Len(Ascending(S)) = Cardinality(S)
         /\ \A i \in S : \E n \in 1 .. Cardinality(S) : Ascending(S)[n] = i
         /\ \A m, n \in 1 .. Cardinality(S) : Ascending(S)[m] = Ascending(S)[n] => m = n
         /\ \A m, n \in 1 .. Cardinality(S) : m < n => Ascending(S)[m] < Ascending(S)[n]
<1> DEFINE N == Cardinality(S)
<1>0. N \in Nat
  BY FS_CardinalityType
<1>1. \A n \in 1 .. N : Ascending(S)[n] \in S /\ Rank(S, Ascending(S)[n]) = n
  BY RanksCount DEF Ascending
<1>2. Ascending(S) = [n \in 1 .. N |-> Ascending(S)[n]]
  BY DEF Ascending
<1>3. Ascending(S) \in Seq(S) /\ Len(Ascending(S)) = N
  BY <1>0, <1>1, <1>2
<1>4. ASSUME NEW i \in S PROVE \E n \in 1 .. N : Ascending(S)[n] = i
  <2>1. Rank(S, i) \in 1 .. N
    BY RanksCount
  <2>2. Rank(S, Ascending(S)[Rank(S, i)]) = Rank(S, i) /\ Ascending(S)[Rank(S, i)] \in S
    BY <1>1, <2>1
  <2>3. Ascending(S)[Rank(S, i)] = i
    BY <2>2, RanksCount
  <2>4. QED
    BY <2>1, <2>3
<1>5. \A m, n \in 1 .. N : Ascending(S)[m] = Ascending(S)[n] => m = n
  BY <1>1
<1>6. ASSUME NEW m \in 1 .. N, NEW n \in 1 .. N, m < n PROVE Ascending(S)[m] < Ascending(S)[n]
  <2>1. Ascending(S)[m] \in S /\ Ascending(S)[n] \in S
    BY <1>1
  <2>2. Ascending(S)[m] \in Nat /\ Ascending(S)[n] \in Nat
    BY <2>1
  <2>3. ~(Ascending(S)[n] < Ascending(S)[m])
    <3>1. Ascending(S)[n] < Ascending(S)[m] => n < m
      BY <1>1, <2>1, RanksDiffer
    <3>2. m \in Nat /\ n \in Nat
      BY <1>0
    <3> QED
      BY <1>6, <3>1, <3>2
  <2>4. Ascending(S)[m] # Ascending(S)[n]
    BY <1>5, <1>6, <1>0
  <2> QED
    BY <2>2, <2>3, <2>4
<1>7. QED
  BY <1>3, <1>4, <1>5, <1>6

=============================================================================

------------------------------- MODULE Counting -------------------------------
(***************************************************************************)
(* How the number of elements of a finite set with some property changes   *)
(* when one element is looked at: what the proofs about counters need.     *)
(***************************************************************************)
EXTENDS Sequences, FiniteSetTheorems, FunctionTheorems, WellFoundedInduction, TLAPS

\* Two parts of a finite set that differ in one element at most.
LEMMA CountOneMoves ==
    ASSUME NEW P, IsFiniteSet(P), NEW S \in SUBSET P, NEW T \in SUBSET P, NEW x \in P,
           \A y \in P \ {x} : y \in S <=> y \in T
    PROVE  /\ Cardinality(S) \in Nat /\ Cardinality(T) \in Nat
           /\ x \in S <=> x \in T => Cardinality(T) = Cardinality(S)
           /\ x \notin S /\ x \in T => Cardinality(T) = Cardinality(S) + 1
           /\ x \in S /\ x \notin T => Cardinality(T) = Cardinality(S) - 1
<1>1. IsFiniteSet(S) /\ IsFiniteSet(T)
  BY FS_Subset
<1>2. Cardinality(S) \in Nat /\ Cardinality(T) \in Nat
  BY <1>1, FS_CardinalityType
<1>3. (x \in S <=> x \in T) => S = T
  OBVIOUS
<1>4. ASSUME x \notin S, x \in T PROVE Cardinality(T) = Cardinality(S) + 1
  <2>1. T = S \cup {x}
    BY <1>4
  <2>. QED
    BY <1>1, <1>4, <2>1, FS_AddElement
<1>5. ASSUME x \in S, x \notin T PROVE Cardinality(T) = Cardinality(S) - 1
  <2>1. T = S \ {x}
    BY <1>5
  <2>. QED
    BY <1>1, <1>5, <2>1, FS_RemoveElement
<1>. QED
  BY <1>2, <1>3, <1>4, <1>5

\* A part of a finite set has no more elements than the set, and none when empty.
LEMMA CountOfPart ==
    ASSUME NEW P, IsFiniteSet(P), NEW S \in SUBSET P
    PROVE  /\ IsFiniteSet(S)
           /\ Cardinality(S) \in 0..Cardinality(P)
           /\ Cardinality(P) \in Nat
           /\ Cardinality(S) = 0 <=> S = {}
<1>1. IsFiniteSet(S) /\ Cardinality(S) <= Cardinality(P)
  BY FS_Subset
<1>2. Cardinality(S) \in Nat /\ Cardinality(P) \in Nat
  BY <1>1, FS_CardinalityType
<1>. QED
  BY <1>1, <1>2, FS_EmptySet

\* Of natural numbers there is a least.
LEMMA LeastOfNumbers ==
    ASSUME NEW T, T \subseteq Nat, T # {}
    PROVE  \E x \in T : \A y \in T : x <= y
<1>1. PICK x \in T : \A y \in T : ~ (<<y, x>> \in OpToRel(<, Nat))
  BY WFMin, NatLessThanWellFounded, Zenon
<1>2. \A y \in T : ~ (y < x)
  BY <1>1, Zenon DEF OpToRel
<1>3. \A y \in T : x <= y
  BY <1>2
<1>. QED
  BY <1>3

-----------------------------------------------------------------------------
(* Elements of a sequence                                                   *)

\* How many places of a sequence hold a member of S.
CountIn(s, S) == Cardinality({i \in 1..Len(s) : s[i] \in S})

LEMMA CountInType ==
    ASSUME NEW T, NEW s \in Seq(T), NEW S
    PROVE  CountIn(s, S) \in Nat
<1>1. IsFiniteSet(1..Len(s))
  BY FS_Interval
<1>2. {i \in 1..Len(s) : s[i] \in S} \in SUBSET (1..Len(s))
  OBVIOUS
<1>3. IsFiniteSet({i \in 1..Len(s) : s[i] \in S})
  BY <1>1, <1>2, FS_Subset
<1>. QED
  BY <1>3, FS_CardinalityType DEF CountIn

\* An element that is appended counts when it is a member of S.
LEMMA CountInAppend ==
    ASSUME NEW T, NEW s \in Seq(T), NEW e \in T, NEW S
    PROVE  CountIn(Append(s, e), S) = CountIn(s, S) + (IF e \in S THEN 1 ELSE 0)
<1> DEFINE n == Len(s) + 1
           P == 1..n
           A == {i \in 1..Len(s) : s[i] \in S}
           B == {i \in 1..Len(Append(s, e)) : Append(s, e)[i] \in S}
<1>1. IsFiniteSet(P) /\ n \in P
  BY FS_Interval
<1>2. Len(Append(s, e)) = n /\ Append(s, e)[n] = e /\ \A i \in 1..Len(s) : Append(s, e)[i] = s[i]
  OBVIOUS
<1>3. /\ A \in SUBSET P /\ B \in SUBSET P
      /\ \A i \in P \ {n} : i \in A <=> i \in B
      /\ n \notin A
      /\ n \in B <=> e \in S
  BY <1>2
<1>. HIDE DEF A, B, P, n
<1>4. Cardinality(B) = Cardinality(A) + (IF e \in S THEN 1 ELSE 0)
  BY <1>1, <1>3, CountOneMoves
<1>. QED
  BY <1>4 DEF CountIn, A, B

\* What is taken from the head of a sequence no longer counts.
LEMMA CountInTail ==
    ASSUME NEW T, NEW s \in Seq(T), s # <<>>, NEW S
    PROVE  CountIn(s, S) = CountIn(Tail(s), S) + (IF Head(s) \in S THEN 1 ELSE 0)
<1> DEFINE A == {i \in 1..Len(Tail(s)) : Tail(s)[i] \in S}
           B == {i \in 2..Len(s) : s[i] \in S}
           C == {i \in 1..Len(s) : s[i] \in S}
           next == [i \in A |-> i + 1]
<1>1. /\ Len(s) \in Nat /\ Len(s) >= 1 /\ Len(Tail(s)) = Len(s) - 1
      /\ \A i \in 1..Len(Tail(s)) : Tail(s)[i] = s[i + 1]
      /\ Head(s) = s[1]
  OBVIOUS
<1>2. IsFiniteSet(A)
  <2>1. IsFiniteSet(1..Len(Tail(s)))
    BY <1>1, FS_Interval
  <2>. QED
    BY <2>1, FS_Subset
<1>3. next \in Bijection(A, B)
  <2>1. next \in [A -> B]
    BY <1>1
  <2>2. \A i, j \in A : next[i] = next[j] => i = j
    BY <1>1
  <2>3. \A k \in B : \E i \in A : next[i] = k
    <3> SUFFICES ASSUME NEW k \in B PROVE \E i \in A : next[i] = k
      OBVIOUS
    <3>1. k \in 2..Len(s) /\ s[k] \in S
      OBVIOUS
    <3>2. k - 1 \in 1..Len(Tail(s)) /\ Tail(s)[k - 1] = s[k]
      BY <1>1, <3>1
    <3>3. k - 1 \in A
      BY <3>1, <3>2
    <3>4. next[k - 1] = (k - 1) + 1 /\ (k - 1) + 1 = k
      BY <3>1, <3>3
    <3>. QED
      BY <3>3, <3>4
  <2>. QED
    BY <2>1, <2>2, <2>3, Fun_IsBij
<1>4. Cardinality(A) = Cardinality(B)
  BY <1>2, <1>3, FS_Bijection DEF ExistsBijection
<1> DEFINE P == 1..Len(s)
<1>5. IsFiniteSet(P) /\ 1 \in P
  BY <1>1, FS_Interval
<1>6. /\ B \in SUBSET P /\ C \in SUBSET P
      /\ \A i \in P \ {1} : i \in B <=> i \in C
      /\ 1 \notin B
      /\ 1 \in C <=> Head(s) \in S
  BY <1>1
<1>. HIDE DEF A, B, C, P
<1>7. /\ 1 \in C => Cardinality(C) = Cardinality(B) + 1
      /\ 1 \notin C => Cardinality(C) = Cardinality(B)
  BY <1>5, <1>6, CountOneMoves
<1>8. Cardinality(B) \in Nat
  BY <1>5, <1>6, CountOneMoves
<1>9. CountIn(s, S) = Cardinality(C) /\ CountIn(Tail(s), S) = Cardinality(A)
  BY Zenon DEF CountIn, A, C
<1>. QED
  BY <1>4, <1>6, <1>7, <1>8, <1>9
=============================================================================

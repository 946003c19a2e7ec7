--------------------------- MODULE SequenceLemmas ---------------------------
(***************************************************************************)
(* Facts about numbers and sequences that the proofs about the interpreter *)
(* and the bytecode files share.                                           *)
(***************************************************************************)
EXTENDS SequenceTheorems, FiniteSetTheorems, WellFoundedInduction, TLAPS

\* A set of natural numbers that is not empty has a least element.
LEMMA LeastNatural ==
  ASSUME NEW T \in SUBSET Nat, T # {}
  PROVE  \E x \in T : \A y \in T : x <= y
<1> DEFINE R == StrictSubsetOrdering(Nat)
           S == FiniteSubsetsOf(Nat)
           U == {0 .. n : n \in T}
<1>1. IsWellFoundedOn(R, S)
  BY FS_StrictSubsetOrderingWellFounded
<1>2. U \subseteq S
  <2>1. \A n \in T : 0 .. n \in SUBSET Nat /\ IsFiniteSet(0 .. n)
    BY FS_Interval
  <2> QED BY <2>1 DEF FiniteSubsetsOf
<1>3. U # {}
  OBVIOUS
<1>4. \E u \in U : \A v \in U : ~ (<<v, u>> \in R)
  <2> HIDE DEF R, S, U
  <2> QED BY <1>1, <1>2, <1>3, WFMin
<1>5. PICK x \in T : \A y \in T : ~ (<<0 .. y, 0 .. x>> \in R)
  BY <1>4
<1>6. ASSUME NEW y \in T, y < x PROVE <<0 .. y, 0 .. x>> \in R
  <2>1. 0 .. y \in SUBSET Nat /\ 0 .. x \in SUBSET Nat /\ 0 .. y \subseteq 0 .. x
    BY <1>6
  <2>2. x \in 0 .. x /\ x \notin 0 .. y
    BY <1>6
  <2> QED BY <2>1, <2>2, Zenon DEF StrictSubsetOrdering
<1>7. x \in Nat /\ \A y \in T : y \in Nat /\ ~ (y < x)
  BY <1>5, <1>6
<1> QED BY <1>7, SMT

\* Bounded above, it has a greatest one as well.
LEMMA GreatestNatural ==
  ASSUME NEW n \in Nat, NEW T \in SUBSET (0 .. n), T # {}
  PROVE  \E x \in T : \A y \in T : y <= x
<1> DEFINE D == {d \in Nat : n - d \in T}
<1>1. D \in SUBSET Nat /\ \A d \in D : n - d \in T
  OBVIOUS
<1>2. \A y \in T : n - y \in D
  OBVIOUS
<1> HIDE DEF D
<1>3. PICK d \in D : \A e \in D : d <= e
  BY <1>1, <1>2, LeastNatural
<1>4. \A y \in T : d <= n - y
  BY <1>2, <1>3
<1>5. n - d \in T /\ \A y \in T : y <= n - d
  BY <1>1, <1>3, <1>4
<1> QED BY <1>5

\* Induction from a to N, for the numbers in a set.
LEMMA SetInduction ==
  ASSUME NEW a \in Nat, NEW N \in Nat, NEW S,
         a \in S, \A n \in a .. N - 1 : n \in S => n + 1 \in S
  PROVE  a .. N \subseteq S
<1> DEFINE T == (a .. N) \ S
<1> SUFFICES ASSUME T # {} PROVE FALSE
  OBVIOUS
<1>1. T \in SUBSET Nat /\ T # {} /\ \A x \in T : x \in a .. N /\ x \notin S
  OBVIOUS
<1>2. \A x \in a .. N : x \notin T => x \in S
  OBVIOUS
<1> HIDE DEF T
<1>3. PICK x \in T : \A y \in T : x <= y
  BY <1>1, LeastNatural
<1>4. x # a /\ x - 1 \in a .. N - 1 /\ x - 1 \notin T
  BY <1>1, <1>3
<1>5. x - 1 \in S
  BY <1>2, <1>4
<1> QED BY <1>1, <1>4, <1>5

-----------------------------------------------------------------------------
(* A sequence without a last element, with one more, and a part of one.    *)

\* The length and the elements of a sequence, and when it is empty.
LEMMA SequenceLen ==
  ASSUME NEW S, NEW s \in Seq(S)
  PROVE  /\ Len(s) \in Nat
         /\ \A i \in 1 .. Len(s) : s[i] \in S
         /\ s # <<>> => Len(s) \in Nat \ {0} /\ s[Len(s)] \in S
         /\ Len(s) = 0 <=> s = <<>>
  OBVIOUS

\* The first n elements of a sequence.
LEMMA Prefix ==
  ASSUME NEW S, NEW s \in Seq(S), NEW n \in 0 .. Len(s)
  PROVE  /\ SubSeq(s, 1, n) \in Seq(S)
         /\ Len(SubSeq(s, 1, n)) = n
         /\ \A i \in 1 .. n : SubSeq(s, 1, n)[i] = s[i]
<1>1. \A i \in 1 .. n : s[i] \in S
  OBVIOUS
<1> QED BY <1>1, SubSeqProperties, 1 \in Int, n \in Int

\* A sequence of something: what kind of elements it has does not matter.
IsSequence(s) == s \in Seq({s[i] : i \in DOMAIN s})

\* A sequence of elements of T is one, whatever T is.
LEMMA IsSequenceOf ==
  ASSUME NEW T, NEW s \in Seq(T)
  PROVE  IsSequence(s)
<1> DEFINE R == {s[i] : i \in DOMAIN s}
<1>1. \A i \in 1 .. Len(s) : s[i] \in R
  OBVIOUS
<1>2. Len(s) \in Nat /\ s = [i \in 1 .. Len(s) |-> s[i]]
  OBVIOUS
<1> HIDE DEF R
<1>3. s \in Seq(R)
  BY <1>1, <1>2
<1> QED BY <1>3 DEF IsSequence, R

\* A sequence with one more element.
LEMMA SequenceAppended ==
  ASSUME NEW s, IsSequence(s), NEW e
  PROVE  /\ IsSequence(Append(s, e))
         /\ Len(Append(s, e)) = Len(s) + 1
         /\ \A i \in 1 .. Len(s) : Append(s, e)[i] = s[i]
         /\ Append(s, e)[Len(s) + 1] = e
<1>1. PICK T : s \in Seq(T)
  BY DEF IsSequence
<1>2. s \in Seq(T \union {e})
  BY <1>1
<1>3. Append(s, e) \in Seq(T \union {e})
  BY <1>2
<1>4. IsSequence(Append(s, e))
  BY <1>3, IsSequenceOf
<1>5. /\ Len(Append(s, e)) = Len(s) + 1
      /\ \A i \in 1 .. Len(s) : Append(s, e)[i] = s[i]
      /\ Append(s, e)[Len(s) + 1] = e
  BY <1>2
<1> QED BY <1>4, <1>5

\* A sequence without its last element.
LEMMA SequenceFront ==
  ASSUME NEW s, IsSequence(s), s # <<>>
  PROVE  /\ IsSequence(SubSeq(s, 1, Len(s) - 1))
         /\ Len(SubSeq(s, 1, Len(s) - 1)) = Len(s) - 1
         /\ \A i \in 1 .. Len(s) - 1 : SubSeq(s, 1, Len(s) - 1)[i] = s[i]
         /\ Len(s) \in Nat \ {0}
<1>1. PICK T : s \in Seq(T)
  BY DEF IsSequence
<1>2. Len(s) \in Nat \ {0} /\ Len(s) - 1 \in 0 .. Len(s)
  BY <1>1
<1>3. /\ SubSeq(s, 1, Len(s) - 1) \in Seq(T)
      /\ Len(SubSeq(s, 1, Len(s) - 1)) = Len(s) - 1
      /\ \A i \in 1 .. Len(s) - 1 : SubSeq(s, 1, Len(s) - 1)[i] = s[i]
  BY <1>1, <1>2, Prefix
<1> QED BY <1>2, <1>3, IsSequenceOf
-----------------------------------------------------------------------------
(* Counting positions of a sequence from its start.                        *)

Count(P, i) == Cardinality({j \in 1 .. i : j \in P})

\* The count grows by one at the positions in P.
LEMMA CountStep ==
  ASSUME NEW P, NEW i \in Nat \ {0}
  PROVE  /\ Count(P, 0) = 0
         /\ Count(P, i - 1) \in Nat
         /\ Count(P, i) = Count(P, i - 1) + (IF i \in P THEN 1 ELSE 0)
<1> DEFINE S(n) == {j \in 1 .. n : j \in P}
<1>1. Count(P, 0) = 0
  <2>1. S(0) = {}
    OBVIOUS
  <2> QED BY <2>1, FS_EmptySet DEF Count
<1>2. IsFiniteSet(S(i - 1))
  BY FS_Interval, FS_Subset, i - 1 \in Int, 1 \in Int, S(i - 1) \subseteq 1 .. i - 1
<1>3. Cardinality(S(i - 1)) \in Nat
  BY <1>2, FS_CardinalityType
<1>4. CASE i \in P
  <2>1. S(i) = S(i - 1) \cup {i} /\ i \notin S(i - 1)
    BY <1>4
  <2>2. Cardinality(S(i)) = Cardinality(S(i - 1)) + 1
    <3> HIDE DEF S
    <3> QED BY <1>2, <2>1, FS_AddElement
  <2> QED BY <1>1, <1>3, <1>4, <2>2 DEF Count
<1>5. CASE i \notin P
  <2>1. S(i) = S(i - 1)
    BY <1>5
  <2>2. Count(P, i) = Cardinality(S(i)) /\ Count(P, i - 1) = Cardinality(S(i - 1))
    BY DEF Count
  <2> HIDE DEF S
  <2> QED BY <1>1, <1>3, <1>5, <2>1, <2>2
<1> QED BY <1>4, <1>5

\* It depends on the positions counted only.
LEMMA CountSame ==
  ASSUME NEW P, NEW Q, NEW n \in Nat, \A j \in 1 .. n : j \in P <=> j \in Q
  PROVE  \A i \in 0 .. n : Count(P, i) = Count(Q, i)
<1> TAKE i \in 0 .. n
<1>1. {j \in 1 .. i : j \in P} = {j \in 1 .. i : j \in Q}
  OBVIOUS
<1> QED BY <1>1 DEF Count

\* It never falls, and grows at a position in P.
LEMMA CountMono ==
  ASSUME NEW P, NEW i \in Nat, NEW j \in Nat, i <= j
  PROVE  /\ Count(P, i) \in Nat /\ Count(P, i) <= Count(P, j) /\ Count(P, i) <= i
         /\ i < j /\ j \in P => Count(P, i) < Count(P, j)
<1> DEFINE S(n) == {k \in 1 .. n : k \in P}
<1>1. \A n \in Nat : IsFiniteSet(S(n)) /\ Cardinality(S(n)) \in Nat /\ Cardinality(S(n)) <= n
  <2> TAKE n \in Nat
  <2>1. IsFiniteSet(1 .. n) /\ Cardinality(1 .. n) = n
    BY FS_Interval, 1 \in Int, n \in Int
  <2>2. S(n) \in SUBSET (1 .. n)
    OBVIOUS
  <2> HIDE DEF S
  <2>3. IsFiniteSet(S(n)) /\ Cardinality(S(n)) <= n
    BY <2>1, <2>2, FS_Subset
  <2> QED BY <2>3, FS_CardinalityType
<1>2. S(i) \in SUBSET S(j)
  OBVIOUS
<1>3. i < j /\ j \in P => S(i) # S(j)
  OBVIOUS
<1>4. Cardinality(S(i)) <= Cardinality(S(j))
      /\ (Cardinality(S(j)) = Cardinality(S(i)) => S(j) = S(i))
  <2> HIDE DEF S
  <2> QED BY <1>1, <1>2, FS_Subset
<1>5. Count(P, i) = Cardinality(S(i)) /\ Count(P, j) = Cardinality(S(j))
  BY DEF Count
<1> HIDE DEF S
<1> QED BY <1>1, <1>3, <1>4, <1>5
=============================================================================

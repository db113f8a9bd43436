------------------------------ MODULE Instants -------------------------------
(***************************************************************************)
(* Facts about instants, which are natural numbers, that the proofs about  *)
(* several components need: one of several is the first, and a sequence of *)
(* them in which no more than so many fall close together.                 *)
(***************************************************************************)
EXTENDS Naturals, Sequences, FiniteSetTheorems, WellFoundedInduction, TLAPS

(* A set of natural numbers has a least element.                           *)
LEMMA LeastNatural ==
    ASSUME NEW T, T \subseteq Nat, T # {}
    PROVE  \E m \in T : \A n \in T : m <= n
<1> DEFINE Below == {0 .. n : n \in T}
<1>1. \A n \in Nat : 0 .. n \in FiniteSubsetsOf(Nat)
  BY FS_Interval DEF FiniteSubsetsOf
<1>2. Below \subseteq FiniteSubsetsOf(Nat) /\ Below # {}
  BY <1>1
<1>3. \E x \in Below : \A y \in Below : ~(<<y, x>> \in StrictSubsetOrdering(Nat))
  <2> HIDE DEF Below
  <2> QED
    BY <1>2, FS_StrictSubsetOrderingWellFounded, WFMin
<1>4. PICK m \in T : \A n \in T : ~(<<0 .. n, 0 .. m>> \in StrictSubsetOrdering(Nat))
  BY <1>3
<1>5. ASSUME NEW n \in T, n < m PROVE FALSE
  <2>1. m \in 0 .. m /\ m \notin 0 .. n
    BY <1>5
  <2>2. 0 .. n \subseteq 0 .. m /\ 0 .. n # 0 .. m /\ 0 .. n \subseteq Nat /\ 0 .. m \subseteq Nat
    BY <2>1, <1>5
  <2>3. <<0 .. n, 0 .. m>> \in StrictSubsetOrdering(Nat)
    BY <2>2 DEF StrictSubsetOrdering
  <2> QED
    BY <1>4, <2>3
<1> QED
  BY <1>5

(* Instants in the order of time.                                          *)
Ordered(s) == \A i, j \in 1 .. Len(s) : i <= j => s[i] <= s[j]

(* The instants s, with limit ones between any two that are length apart.  *)
Spaced(s, limit, length) ==
  \A i \in 1 .. Len(s) - limit : s[i] + length <= s[i + limit]

(* Then no stretch of that length holds more than limit of them.           *)
LEMMA SpacedIsBounded ==
    ASSUME NEW s \in Seq(Nat), NEW limit \in Nat, NEW length \in Nat, limit > 0,
           Ordered(s), Spaced(s, limit, length), NEW t \in Nat
    PROVE  Cardinality({i \in DOMAIN s : s[i] >= t /\ s[i] < t + length}) <= limit
<1> DEFINE within == {i \in DOMAIN s : s[i] >= t /\ s[i] < t + length}
<1> SUFFICES Cardinality(within) <= limit
  OBVIOUS
<1>1. within \subseteq Nat /\ \A i \in within : i \in DOMAIN s
  OBVIOUS
<1>2. CASE within = {}
  <2> HIDE DEF within
  <2> QED
    BY <1>2, FS_EmptySet
<1>3. CASE within # {}
  <2>1. PICK first \in within : \A i \in within : first <= i
    <3> HIDE DEF within
    <3> QED
      BY <1>1, <1>3, LeastNatural
  <2>2. \A i \in within : i < first + limit
    <3> SUFFICES ASSUME NEW i \in within, i >= first + limit PROVE FALSE
      BY <1>1
    <3>1. first + limit \in 1 .. Len(s) /\ first \in 1 .. Len(s) - limit /\ i \in 1 .. Len(s)
      BY <1>1
    <3>2. s[first] + length <= s[first + limit] /\ s[first + limit] <= s[i]
      BY <3>1 DEF Ordered, Spaced
    <3>3. s[first] \in Nat /\ s[i] \in Nat /\ s[first + limit] \in Nat
      BY <3>1
    <3> QED
      BY <3>2, <3>3
  <2>3. within \subseteq first .. (first + limit - 1)
    BY <1>1, <2>1, <2>2
  <2>4. first \in Int /\ first + limit - 1 \in Int
    BY <1>1
  <2>5. IsFiniteSet(first .. (first + limit - 1)) /\ Cardinality(first .. (first + limit - 1)) = limit
    <3> HIDE DEF within
    <3> QED
      BY <2>4, FS_Interval
  <2> QED
    BY <2>3, <2>5, FS_Subset
<1> QED
  BY <1>2, <1>3
=============================================================================

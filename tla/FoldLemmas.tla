----------------------------- MODULE FoldLemmas -----------------------------
(***************************************************************************)
(* What the proofs need to know of the sums of the models (MapThenSumSet): *)
(* that of tiles in ReadModels, that of the orders' totals in TradeLedger. *)
(*                                                                         *)
(* The fold takes the elements of a set in the order in which CHOOSE       *)
(* yields them, by a function on sets. That such a function exists, that   *)
(* there is one only and that the order makes no difference is proved by   *)
(* induction on the size of the set. The induction theorems of the library *)
(* take an operator; Induction takes a set of numbers instead.             *)
(***************************************************************************)
EXTENDS FiniteSetsExt, FiniteSetTheorems, WellFoundedInduction, TLAPS

\* A set of numbers that is not empty has a least element.
LEMMA LeastNatural ==
  ASSUME NEW T \in SUBSET Nat, T # {}
  PROVE  \E n \in T : \A m \in T : ~(m < n)
<1>1. \E n \in T : \A m \in T : <<m, n>> \notin OpToRel(<, Nat)
  BY NatLessThanWellFounded, WFMin
<1> QED BY <1>1 DEF OpToRel

\* Induction, for a set of numbers: its least counterexample has a predecessor.
LEMMA Induction ==
  ASSUME NEW T \in SUBSET Nat, 0 \in T, \A n \in Nat : n \in T => n + 1 \in T
  PROVE  \A n \in Nat : n \in T
<1> SUFFICES ASSUME Nat \ T # {} PROVE FALSE
  OBVIOUS
<1>1. PICK n \in Nat \ T : \A m \in Nat \ T : ~(m < n)
  BY LeastNatural
<1>2. n # 0 /\ n - 1 \in Nat /\ n - 1 < n
  BY <1>1
<1>3. n - 1 \in T
  BY <1>1, <1>2
<1>4. (n - 1) + 1 \in T
  BY <1>2, <1>3
<1> QED BY <1>1, <1>4

---------------------------------------------------------------------------
\* The values of the elements of S, added up.
SumOf(val, S) == MapThenSumSet(LAMBDA i : val[i], S)

\* The element that the fold takes next.
Picked(s) == CHOOSE i \in s : TRUE

\* One step of the addition: what `sum` says of s, from what it says of less.
Added(sum, val, s) ==
  IF s = {} THEN 0 ELSE val[Picked(s)] + sum[s \ {Picked(s)}]

Unfolds(sum, val, S) == sum = [s \in SUBSET S |-> Added(sum, val, s)]
SumsUp(sum, val, S) == sum \in [SUBSET S -> Nat] /\ Unfolds(sum, val, S)

\* The elements of S are finitely many, and their values are numbers.
Summable(val, S) == IsFiniteSet(S) /\ \A i \in S : val[i] \in Nat

\* A non-empty part of a finite set, without the element that is picked.
LEMMA PickedAway ==
  ASSUME NEW S, IsFiniteSet(S), NEW s \in SUBSET S, s # {}
  PROVE  /\ Picked(s) \in s
         /\ s \ {Picked(s)} \in SUBSET S
         /\ Cardinality(s) \in Nat /\ Cardinality(s) # 0
         /\ Cardinality(s \ {Picked(s)}) = Cardinality(s) - 1
<1>1. IsFiniteSet(s) /\ Cardinality(s) \in Nat /\ Cardinality(s) # 0
  BY FS_Subset, FS_CardinalityType, FS_EmptySet
<1>2. Picked(s) \in s
  BY DEF Picked
<1> QED BY <1>1, <1>2, FS_RemoveElement

\* The function there is to be one exists, built up over the size of its arguments.
LEMMA SumExists ==
  ASSUME NEW S, NEW val, Summable(val, S)
  PROVE  \E sum : SumsUp(sum, val, S)
<1> USE DEF Summable
<1> DEFINE Right(sum, n) ==
             \A s \in SUBSET S : Cardinality(s) <= n => sum[s] = Added(sum, val, s)
           T == {n \in Nat : \E sum \in [SUBSET S -> Nat] : Right(sum, n)}
<1>1. \A s \in SUBSET S : IsFiniteSet(s) /\ Cardinality(s) \in Nat /\ (Cardinality(s) = 0 <=> s = {})
  BY FS_Subset, FS_CardinalityType, FS_EmptySet
<1>2. 0 \in T
  <2> DEFINE sum == [s \in SUBSET S |-> 0]
  <2>1. sum \in [SUBSET S -> Nat]
    OBVIOUS
  <2>2. Right(sum, 0)
    BY <1>1 DEF Added
  <2> QED BY <2>1, <2>2
<1>3. ASSUME NEW n \in Nat, n \in T PROVE n + 1 \in T
  <2>1. PICK sum \in [SUBSET S -> Nat] : Right(sum, n)
    BY <1>3
  <2> DEFINE more == [s \in SUBSET S |-> Added(sum, val, s)]
  <2>2. more \in [SUBSET S -> Nat]
    <3> SUFFICES ASSUME NEW s \in SUBSET S PROVE Added(sum, val, s) \in Nat
      OBVIOUS
    <3>1. CASE s = {}
      BY <3>1 DEF Added
    <3>2. CASE s # {}
      <4>1. Picked(s) \in S /\ s \ {Picked(s)} \in SUBSET S
        BY <3>2, PickedAway
      <4> QED BY <3>2, <4>1 DEF Added
    <3> QED BY <3>1, <3>2
  <2>3. ASSUME NEW s \in SUBSET S, Cardinality(s) <= n + 1
        PROVE  more[s] = Added(more, val, s)
    <3>1. CASE s = {}
      BY <3>1 DEF Added
    <3>2. CASE s # {}
      <4> DEFINE rest == s \ {Picked(s)}
      <4>1. rest \in SUBSET S /\ Cardinality(rest) <= n
        BY <2>3, <3>2, PickedAway
      <4>2. sum[rest] = more[rest]
        BY <2>1, <4>1
      <4> HIDE DEF more
      <4>3. Added(sum, val, s) = Added(more, val, s)
        BY <3>2, <4>2 DEF Added
      <4> QED BY <4>3 DEF more
    <3> QED BY <3>1, <3>2
  <2> HIDE DEF more
  <2>4. Right(more, n + 1)
    BY <2>3
  <2> QED BY <2>2, <2>4
<1> HIDE DEF T
<1>4. Cardinality(S) \in T
  <2>1. T \in SUBSET Nat
    BY DEF T
  <2> QED BY <1>1, <1>2, <1>3, <2>1, Induction
<1>5. PICK sum \in [SUBSET S -> Nat] : Right(sum, Cardinality(S))
  BY <1>4 DEF T
<1>6. \A s \in SUBSET S : sum[s] = Added(sum, val, s)
  BY <1>5, FS_Subset
<1>7. sum = [s \in SUBSET S |-> Added(sum, val, s)]
  BY <1>6
<1> QED BY <1>7 DEF SumsUp, Unfolds

\* Two functions that add up the same values agree where both are defined.
LEMMA SumUnique ==
  ASSUME NEW S, NEW val, Summable(val, S), NEW sum, Unfolds(sum, val, S),
         NEW S2, NEW val2, Summable(val2, S2), NEW sum2, Unfolds(sum2, val2, S2),
         \A i \in S \cap S2 : val[i] = val2[i]
  PROVE  \A s \in SUBSET (S \cap S2) : sum[s] = sum2[s]
<1> DEFINE T == {n \in Nat : \A s \in SUBSET (S \cap S2) : Cardinality(s) = n => sum[s] = sum2[s]}
<1>1. \A s \in SUBSET (S \cap S2) : Cardinality(s) \in Nat /\ (Cardinality(s) = 0 <=> s = {})
  BY FS_Subset, FS_CardinalityType, FS_EmptySet DEF Summable
<1>2. \A s \in SUBSET (S \cap S2) : sum[s] = Added(sum, val, s) /\ sum2[s] = Added(sum2, val2, s)
  BY DEF Unfolds
<1>3. 0 \in T
  BY <1>1, <1>2 DEF Added
<1>4. ASSUME NEW n \in Nat, n \in T PROVE n + 1 \in T
  <2> SUFFICES ASSUME NEW s \in SUBSET (S \cap S2), Cardinality(s) = n + 1
               PROVE  sum[s] = sum2[s]
    OBVIOUS
  <2>1. s # {}
    BY <1>1
  <2>2. /\ Picked(s) \in S \cap S2
        /\ s \ {Picked(s)} \in SUBSET (S \cap S2)
        /\ Cardinality(s \ {Picked(s)}) = n
    BY <2>1, PickedAway DEF Summable
  <2>3. sum[s \ {Picked(s)}] = sum2[s \ {Picked(s)}]
    BY <1>4, <2>2
  <2> QED BY <1>2, <2>1, <2>2, <2>3 DEF Added
<1> HIDE DEF T
<1>5. \A n \in Nat : n \in T
  <2>1. T \in SUBSET Nat
    BY DEF T
  <2> QED BY <1>3, <1>4, <2>1, Induction
<1> QED BY <1>1, <1>5 DEF T

\* The order in which the elements are picked does not matter.
LEMMA SumOneMore ==
  ASSUME NEW S, NEW val, Summable(val, S), NEW sum, SumsUp(sum, val, S),
         NEW s \in SUBSET S, NEW i \in S, i \notin s
  PROVE  sum[s \cup {i}] = sum[s] + val[i]
<1> DEFINE Adds(t) == \A j \in S : j \notin t => sum[t \cup {j}] = sum[t] + val[j]
           T == {n \in Nat : \A t \in SUBSET S : Cardinality(t) = n => Adds(t)}
<1>1. \A t \in SUBSET S : Cardinality(t) \in Nat /\ (Cardinality(t) = 0 <=> t = {})
  BY FS_Subset, FS_CardinalityType, FS_EmptySet DEF Summable
<1>2. \A t \in SUBSET S : t # {} =>
        /\ Picked(t) \in t
        /\ sum[t] = val[Picked(t)] + sum[t \ {Picked(t)}]
  BY DEF SumsUp, Unfolds, Added, Picked
<1>3. \A t \in SUBSET S : sum[t] \in Nat
  BY DEF SumsUp
<1>4. 0 \in T
  <2> SUFFICES ASSUME NEW j \in S PROVE sum[{j}] = sum[{}] + val[j]
    BY <1>1
  <2>1. Picked({j}) = j /\ {j} \ {j} = {}
    BY DEF Picked
  <2>2. sum[{j}] = val[j] + sum[{}]
    BY <1>2, <2>1
  <2> QED BY <1>3, <2>2 DEF Summable
<1>5. ASSUME NEW n \in Nat, n \in T PROVE n + 1 \in T
  <2> SUFFICES ASSUME NEW t \in SUBSET S, Cardinality(t) = n + 1, NEW j \in S, j \notin t
               PROVE  sum[t \cup {j}] = sum[t] + val[j]
    OBVIOUS
  <2> DEFINE u == t \cup {j}
             p == Picked(u)
  <2>1. u \in SUBSET S /\ p \in u /\ sum[u] = val[p] + sum[u \ {p}]
    BY <1>2
  <2> SUFFICES sum[u] = sum[t] + val[j]
    OBVIOUS
  <2> HIDE DEF p, u
  <2>2. CASE p = j
    <3>1. u \ {p} = t
      BY <2>2 DEF u
    <3>2. sum[t] \in Nat /\ val[j] \in Nat
      BY <1>3 DEF Summable
    <3>3. sum[u] = val[j] + sum[t]
      BY <2>1, <2>2, <3>1
    <3> QED BY <3>2, <3>3
  <2>3. CASE p # j
    <3> DEFINE rest == t \ {p}
    <3>1. p \in t /\ rest \in SUBSET S /\ u \ {p} = rest \cup {j} /\ t = rest \cup {p}
      BY <2>1, <2>3 DEF u
    <3>2. Cardinality(rest) = n
      <4>1. IsFiniteSet(t)
        BY FS_Subset DEF Summable
      <4>2. Cardinality(t \ {p}) = Cardinality(t) - 1
        BY <3>1, <4>1, FS_RemoveElement
      <4> QED BY <2>3, <4>2
    <3>3. Adds(rest)
      BY <1>5, <3>1, <3>2
    <3>4. sum[rest \cup {j}] = sum[rest] + val[j]
      BY <3>3
    <3>5. sum[t] = sum[rest] + val[p]
      BY <3>1, <3>3
    <3>6. sum[rest] \in Nat /\ val[p] \in Nat /\ val[j] \in Nat
      BY <1>3, <3>1 DEF Summable
    <3> HIDE DEF rest
    <3>7. sum[u] = val[p] + (sum[rest] + val[j])
      BY <2>1, <3>1, <3>4
    <3> QED BY <3>5, <3>6, <3>7
  <2> QED BY <2>2, <2>3
<1> HIDE DEF T
<1>6. \A n \in Nat : n \in T
  <2>1. T \in SUBSET Nat
    BY DEF T
  <2> QED BY <1>4, <1>5, <2>1, Induction
<1> QED BY <1>1, <1>6 DEF T

\* What MapThenSumSet says of S is what such a function says of the whole set.
LEMMA SumIsSum ==
  ASSUME NEW S, NEW val, Summable(val, S)
  PROVE  \E sum : SumsUp(sum, val, S) /\ SumOf(val, S) = sum[S]
<1> DEFINE chosen == CHOOSE sum : Unfolds(sum, val, S)
<1>1. SumOf(val, S) = chosen[S]
  BY DEF SumOf, MapThenSumSet, MapThenFoldSet, Unfolds, Added, Picked
<1>2. PICK sum : SumsUp(sum, val, S)
  BY SumExists
<1>3. Unfolds(chosen, val, S)
  BY <1>2 DEF SumsUp
<1> HIDE DEF chosen
<1>4. \A s \in SUBSET S : chosen[s] = sum[s]
  BY <1>2, <1>3, SumUnique DEF SumsUp
<1>5. chosen = [s \in SUBSET S |-> Added(chosen, val, s)]
  BY <1>3 DEF Unfolds
<1>6. chosen \in [SUBSET S -> Nat]
  BY <1>2, <1>4, <1>5 DEF SumsUp
<1> QED BY <1>1, <1>3, <1>6 DEF SumsUp

LEMMA SumOfNone ==
  ASSUME NEW val
  PROVE  SumOf(val, {}) = 0
<1>1. Summable(val, {})
  BY FS_EmptySet DEF Summable
<1>2. PICK sum : SumsUp(sum, val, {}) /\ SumOf(val, {}) = sum[{}]
  BY <1>1, SumIsSum
<1> QED BY <1>2 DEF SumsUp, Unfolds, Added

\* Only the values of the elements of the set matter.
LEMMA SumKept ==
  ASSUME NEW S, NEW val, NEW val2, Summable(val, S), Summable(val2, S),
         \A i \in S : val[i] = val2[i]
  PROVE  SumOf(val, S) = SumOf(val2, S) /\ SumOf(val, S) \in Nat
<1>1. PICK sum : SumsUp(sum, val, S) /\ SumOf(val, S) = sum[S]
  BY SumIsSum
<1>2. PICK sum2 : SumsUp(sum2, val2, S) /\ SumOf(val2, S) = sum2[S]
  BY SumIsSum
<1>3. \A s \in SUBSET (S \cap S) : sum[s] = sum2[s]
  BY <1>1, <1>2, SumUnique DEF SumsUp
<1> QED BY <1>1, <1>2, <1>3 DEF SumsUp

\* One element more adds its value.
LEMMA SumOneElement ==
  ASSUME NEW S, NEW i, i \notin S, NEW S2, S2 = S \cup {i},
         NEW val, NEW val2, Summable(val, S), Summable(val2, S2),
         \A j \in S : val[j] = val2[j]
  PROVE  SumOf(val2, S2) = SumOf(val, S) + val2[i]
<1>1. PICK sum : SumsUp(sum, val, S) /\ SumOf(val, S) = sum[S]
  BY SumIsSum
<1>2. PICK sum2 : SumsUp(sum2, val2, S2) /\ SumOf(val2, S2) = sum2[S2]
  BY SumIsSum
<1>3. sum2[S2] = sum2[S] + val2[i]
  BY <1>2, SumOneMore
<1>4. sum[S] = sum2[S]
  <2>1. S \in SUBSET (S \cap S2)
    OBVIOUS
  <2>2. \A s \in SUBSET (S \cap S2) : sum[s] = sum2[s]
    BY <1>1, <1>2, SumUnique DEF SumsUp
  <2> QED BY <2>1, <2>2
<1> QED BY <1>1, <1>2, <1>3, <1>4
=============================================================================

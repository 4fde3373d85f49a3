--------------------------- MODULE InductionLemmas ---------------------------
(***************************************************************************)
(* Least elements and induction, stated of sets: the library's induction   *)
(* theorems take a predicate as an operator parameter, which the provers   *)
(* used here cannot instantiate, and a set {n \in Nat : P(n)} they can.    *)
(* The well-foundedness behind it is that of the subsets of an interval.   *)
(***************************************************************************)
EXTENDS Integers, FiniteSetTheorems, WellFoundedInduction, TLAPS

(***************************************************************************)
(* A set of numbers that is not empty has a least element.                 *)
(***************************************************************************)
LEMMA LeastExists ==
  ASSUME NEW T, T \subseteq Nat, T # {}
  PROVE  \E m \in T : \A n \in T : m <= n
<1>1. PICK k \in T : TRUE
  OBVIOUS
<1>2. IsWellFoundedOn(StrictSubsetOrdering(0..k), SUBSET (0..k))
  <2>1. IsFiniteSet(0..k)
    BY <1>1, FS_Interval
  <2>. QED
    BY <2>1, FS_FiniteSubsetsOfFinite, FS_StrictSubsetOrderingWellFounded
<1>. DEFINE U == {0..n : n \in {m \in T : m <= k}}
<1>3. U # {} /\ U \subseteq SUBSET (0..k)
  <2>1. 0..k \in U
    BY <1>1
  <2>. QED
    BY <2>1
<1>4. PICK x \in U : \A y \in U : ~(<<y, x>> \in StrictSubsetOrdering(0..k))
  <2>. HIDE DEF U
  <2>. QED
    BY <1>2, <1>3, WFMin
<1>5. PICK m \in T : x = 0..m /\ m <= k
  OBVIOUS
<1>6. ASSUME NEW n \in T, n < m PROVE FALSE
  <2>1. 0..n \in U
    BY <1>1, <1>5, <1>6
  <2>2. 0..n \in SUBSET (0..k) /\ x \in SUBSET (0..k)
    BY <2>1, <1>3
  <2>3. m \in x /\ m \notin 0..n /\ 0..n \subseteq x
    BY <1>5, <1>6
  <2>4. <<0..n, x>> \in StrictSubsetOrdering(0..k)
    BY <2>2, <2>3 DEF StrictSubsetOrdering
  <2>. QED
    BY <1>4, <2>1, <2>4
<1>. QED
  BY <1>5, <1>6

(***************************************************************************)
(* A set that has 0, and with each number its successor, has every number. *)
(***************************************************************************)
LEMMA SetInduction ==
  ASSUME NEW S, 0 \in S, \A n \in Nat : n \in S => n + 1 \in S
  PROVE  Nat \subseteq S
<1>. DEFINE T == Nat \ S
<1>. SUFFICES ASSUME T # {} PROVE FALSE
  OBVIOUS
<1>1. PICK m \in T : \A n \in T : m <= n
  <2>. HIDE DEF T
  <2>1. T \subseteq Nat
    BY DEF T
  <2>. QED
    BY <2>1, LeastExists
<1>2. m # 0 /\ m - 1 \in Nat
  BY <1>1
<1>3. m - 1 \in S
  BY <1>1, <1>2
<1>. QED
  BY <1>1, <1>2, <1>3

(***************************************************************************)
(* The same up to a bound.                                                 *)
(***************************************************************************)
LEMMA IntervalInduction ==
  ASSUME NEW n \in Nat, NEW S, 0 \in S, \A i \in 1..n : i - 1 \in S => i \in S
  PROVE  0..n \subseteq S
<1>. DEFINE T == {i \in Nat : i <= n => i \in S}
<1>1. 0 \in T
  OBVIOUS
<1>2. ASSUME NEW i \in Nat, i \in T PROVE i + 1 \in T
  <2>1. CASE i + 1 <= n
    <3>1. i + 1 \in 1..n /\ (i + 1) - 1 = i /\ i \in S
      BY <1>2, <2>1
    <3>. QED
      BY <3>1
  <2>. QED
    BY <2>1
<1>3. Nat \subseteq T
  <2>. HIDE DEF T
  <2>. QED
    BY <1>1, <1>2, SetInduction
<1>. QED
  BY <1>3

\* f starts with a and takes each value to the next by its step.
IsRecursion(f, a, n, step) == f[0] = a /\ \A i \in 1..n : f[i] = step[i][f[i - 1]]

(***************************************************************************)
(* A function defined by recursion up to a bound exists: the first value,  *)
(* and the step from each value to the next, given as a function.          *)
(***************************************************************************)
LEMMA RecursionExists ==
  ASSUME NEW A, NEW a \in A, NEW n \in Nat, NEW step \in [1..n -> [A -> A]]
  PROVE  \E f \in [0..n -> A] : IsRecursion(f, a, n, step)
<1>. DEFINE Upto(k, f) == f[0] = a /\ \A i \in 1..k : f[i] = step[i][f[i - 1]]
            S == {k \in 0..n : \E f \in [0..k -> A] : Upto(k, f)}
<1>1. 0 \in S
  <2>1. [i \in 0..0 |-> a] \in [0..0 -> A] /\ Upto(0, [i \in 0..0 |-> a])
    OBVIOUS
  <2>. HIDE DEF Upto
  <2>2. \E f \in [0..0 -> A] : Upto(0, f)
    BY <2>1, Zenon
  <2>. QED
    BY <2>2
<1>2. ASSUME NEW i \in 1..n, i - 1 \in S PROVE i \in S
  <2>1. PICK f \in [0..(i - 1) -> A] : Upto(i - 1, f)
    BY <1>2
  <2>. DEFINE g == [k \in 0..i |-> IF k = i THEN step[i][f[i - 1]] ELSE f[k]]
  <2>2. g \in [0..i -> A]
    <3>1. step[i] \in [A -> A] /\ f[i - 1] \in A
      OBVIOUS
    <3>2. ASSUME NEW k \in 0..i PROVE g[k] \in A
      BY <3>1
    <3>. QED
      BY <3>2
  <2>3. g[0] = a
    BY <2>1
  <2>4. ASSUME NEW k \in 1..i PROVE g[k] = step[k][g[k - 1]]
    <3>1. g[k - 1] = f[k - 1] /\ k - 1 \in 0..i
      OBVIOUS
    <3>2. CASE k = i
      BY <3>1, <3>2
    <3>3. CASE k # i
      <4>1. k \in 1..(i - 1) /\ k \in 0..i
        BY <3>3
      <4>2. g[k] = f[k]
        BY <4>1, <3>3
      <4>. QED
        BY <2>1, <3>1, <4>1, <4>2
    <3>. QED
      BY <3>2, <3>3
  <2>5. Upto(i, g)
    <3>. HIDE DEF g
    <3>. QED
      BY <2>3, <2>4
  <2>. HIDE DEF Upto, g
  <2>6. \E h \in [0..i -> A] : Upto(i, h)
    BY <2>2, <2>5, Zenon
  <2>7. i \in 0..n
    OBVIOUS
  <2>. QED
    BY <2>6, <2>7
<1>3. 0..n \subseteq S
  <2>. HIDE DEF S
  <2>. QED
    BY <1>1, <1>2, IntervalInduction
<1>4. PICK f \in [0..n -> A] : Upto(n, f)
  BY <1>3
<1>5. IsRecursion(f, a, n, step)
  BY <1>4 DEF IsRecursion
<1>. QED
  BY <1>5, Zenon

\* f has the sums of sizes up to each place.
IsSum(f, n, size) == f = [i \in 0..n |-> IF i = 0 THEN 0 ELSE f[i - 1] + size[i]]

(***************************************************************************)
(* Each sum is the one before it and one size more.                        *)
(***************************************************************************)
LEMMA SumStep ==
  ASSUME NEW n \in Nat, NEW size, NEW f, IsSum(f, n, size)
  PROVE  f[0] = 0 /\ \A i \in 1..n : f[i] = f[i - 1] + size[i]
  BY DEF IsSum

(***************************************************************************)
(* The sums of any sizes exist, and are numbers.                           *)
(***************************************************************************)
LEMMA SumExists ==
  ASSUME NEW n \in Nat, NEW size \in [1..n -> Nat]
  PROVE  \E f \in [0..n -> Nat] : IsSum(f, n, size)
<1>. DEFINE step == [i \in 1..n |-> [x \in Nat |-> x + size[i]]]
<1>1. step \in [1..n -> [Nat -> Nat]]
  <2>1. ASSUME NEW i \in 1..n PROVE step[i] \in [Nat -> Nat]
    OBVIOUS
  <2>. QED
    BY <2>1
<1>2. PICK f \in [0..n -> Nat] :
        f[0] = 0 /\ \A i \in 1..n : f[i] = step[i][f[i - 1]]
  <2>. HIDE DEF step
  <2>1. PICK f \in [0..n -> Nat] : IsRecursion(f, 0, n, step)
    BY <1>1, RecursionExists
  <2>. QED
    BY <2>1 DEF IsRecursion
<1>3. ASSUME NEW i \in 0..n PROVE f[i] = IF i = 0 THEN 0 ELSE f[i - 1] + size[i]
  <2>1. CASE i = 0
    BY <1>2, <2>1
  <2>2. CASE i # 0
    <3>1. i \in 1..n /\ f[i - 1] \in Nat
      BY <2>2
    <3>2. step[i][f[i - 1]] = f[i - 1] + size[i]
      BY <3>1
    <3>. QED
      BY <1>2, <2>2, <3>1, <3>2
  <2>. QED
    BY <2>1, <2>2
<1>. QED
  BY <1>3 DEF IsSum

(***************************************************************************)
(* What has the steps of a sum is the sum.                                 *)
(***************************************************************************)
LEMMA SumUnique ==
  ASSUME NEW n \in Nat, NEW size \in [1..n -> Nat],
         NEW f, NEW g, IsSum(f, n, size), IsSum(g, n, size)
  PROVE  f[n] = g[n]
<1>. DEFINE S == {i \in 0..n : f[i] = g[i]}
<1>1. 0 \in S
  BY DEF IsSum
<1>2. ASSUME NEW i \in 1..n, i - 1 \in S PROVE i \in S
  BY <1>2 DEF IsSum
<1>3. 0..n \subseteq S
  <2>. HIDE DEF S
  <2>. QED
    BY <1>1, <1>2, IntervalInduction
<1>. QED
  BY <1>3
=============================================================================

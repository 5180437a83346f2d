---------------------------- MODULE NaturalLemmas ----------------------------
(***************************************************************************)
(* Induction over the natural numbers in a form that mentions sets only,   *)
(* no operators: what a recursive function of a model computes is proved   *)
(* with these.  They follow from the well-foundedness of < on Nat.  And    *)
(* what the proofs need of finite sets besides.                            *)
(***************************************************************************)
EXTENDS Integers, FiniteSetTheorems, TLAPS

(* A non-empty set of natural numbers has a least element.                 *)
THEOREM LeastElement ==
    ASSUME NEW T \in SUBSET Nat, T # {}
    PROVE  \E x \in T : \A y \in T : x <= y
<1> DEFINE R == {ss \in Nat \X Nat : ss[1] < ss[2]}
<1>1. IsWellFoundedOn(R, Nat)
  BY NatLessThanWellFounded DEF OpToRel
<1>2. \A x, y \in Nat : y < x => <<y, x>> \in R
  OBVIOUS
<1> HIDE DEF R
<1>3. PICK x \in T : \A y \in T : ~(<<y, x>> \in R)
  BY <1>1, WFMin
<1>4. ASSUME NEW y \in T PROVE x <= y
  <2>1. x \in Nat /\ y \in Nat /\ ~(y < x)
    BY <1>2, <1>3
  <2> QED BY <2>1
<1> QED BY <1>4

(* A non-empty set of natural numbers below a bound has a greatest element.*)
THEOREM GreatestElement ==
    ASSUME NEW m \in Nat, NEW T \in SUBSET (0..m), T # {}
    PROVE  \E x \in T : \A y \in T : x >= y
<1> DEFINE U == {m - x : x \in T}
<1>1. U \in SUBSET Nat /\ U # {}
  <2>1. \A x \in T : m - x \in Nat
    OBVIOUS
  <2> QED BY <2>1
<1>2. PICK u \in U : \A v \in U : u <= v
  BY <1>1, LeastElement
<1>3. PICK x \in T : u = m - x
  BY <1>2
<1>4. \A y \in T : m - x <= m - y
  BY <1>2, <1>3
<1> QED BY <1>4

(* A set that contains 0, and every number up to n whose predecessor it    *)
(* contains, contains 0..n.                                                *)
THEOREM IntervalInduction ==
    ASSUME NEW n \in Nat, NEW S, 0 \in S,
           \A i \in 1..n : i - 1 \in S => i \in S
    PROVE  0..n \subseteq S
<1> DEFINE T == (0..n) \ S
<1>1. SUFFICES ASSUME T # {} PROVE FALSE
  OBVIOUS
<1>2. T \in SUBSET Nat
  OBVIOUS
<1>3. PICK x \in T : \A y \in T : x <= y
  BY <1>1, <1>2, LeastElement
<1>4. x \in 1..n /\ x - 1 \in 0..n /\ x - 1 < x
  BY <1>3
<1>5. x - 1 \in S
  BY <1>3, <1>4
<1> QED BY <1>3, <1>4, <1>5

(* f is the function on 0..n that has value c at 0 and that step[i] takes  *)
(* from its value at i - 1 to its value at i.                              *)
IsRecursion(f, n, V, c, step) ==
    /\ f \in [0..n -> V]
    /\ f[0] = c
    /\ \A i \in 1..n : f[i] = step[i][f[i - 1]]

(* There is such a function for every start and every step.                *)
THEOREM RecursionExists ==
    ASSUME NEW n \in Nat, NEW V, NEW c \in V, NEW step \in [Nat -> [V -> V]]
    PROVE  \E f : IsRecursion(f, n, V, c, step)
<1> DEFINE P(f, k) == IsRecursion(f, k, V, c, step)
           S == {k \in 0..n : \E f : P(f, k)}
<1>1. 0 \in S
  <2>1. P([i \in 0..0 |-> c], 0)
    BY DEF IsRecursion
  <2>2. 0 \in 0..n
    OBVIOUS
  <2> HIDE DEF P
  <2> QED BY <2>1, <2>2
<1>2. ASSUME NEW k \in 1..n, k - 1 \in S PROVE k \in S
  <2>1. PICK g : P(g, k - 1)
    BY <1>2
  <2> DEFINE f == [i \in 0..k |-> IF i = k THEN step[k][g[k - 1]] ELSE g[i]]
  <2>2. k - 1 \in Nat /\ k \in Nat /\ k - 1 \in 0..(k - 1) /\ k # 0
    BY <1>2
  <2>3. g \in [0..(k - 1) -> V] /\ g[0] = c
        /\ \A i \in 1..(k - 1) : g[i] = step[i][g[i - 1]]
    BY <2>1 DEF IsRecursion
  <2>4. step[k][g[k - 1]] \in V
    <3>1. g[k - 1] \in V /\ step[k] \in [V -> V]
      BY <2>2, <2>3
    <3> QED BY <3>1
  <2>5. f \in [0..k -> V]
    BY <2>2, <2>3, <2>4
  <2>6. f[0] = c /\ f[k] = step[k][f[k - 1]]
    <3>1. 0 \in 0..k /\ k - 1 \in 0..k /\ k \in 0..k /\ k - 1 # k
      BY <2>2
    <3> QED BY <2>2, <2>3, <3>1
  <2>7. ASSUME NEW i \in 1..(k - 1) PROVE f[i] = step[i][f[i - 1]]
    <3>1. i - 1 \in 0..(k - 1) /\ i # k /\ i - 1 # k /\ i \in 0..k /\ i - 1 \in 0..k
      BY <2>2, <2>7
    <3>2. f[i] = g[i] /\ f[i - 1] = g[i - 1]
      BY <3>1
    <3> QED BY <2>3, <2>7, <3>2
  <2>8. \A i \in 1..k : i = k \/ i \in 1..(k - 1)
    BY <2>2
  <2> HIDE DEF f
  <2>9. P(f, k)
    BY <2>5, <2>6, <2>7, <2>8 DEF IsRecursion
  <2> HIDE DEF P
  <2> QED BY <1>2, <2>9
<1>3. n \in S
  <2> HIDE DEF S
  <2>1. 0..n \subseteq S
    BY <1>1, <1>2, IntervalInduction
  <2> QED BY <2>1
<1> QED BY <1>3

(* The image of a finite set is finite.                                    *)
THEOREM ImageFinite ==
    ASSUME NEW S, IsFiniteSet(S), NEW f
    PROVE  IsFiniteSet({f[x] : x \in S})
<1> DEFINE T == {f[x] : x \in S}
           g == [x \in S |-> f[x]]
<1>1. g \in Surjection(S, T)
  BY DEF Surjection
<1> HIDE DEF g, T
<1>2. IsFiniteSet(T)
  BY <1>1, FS_Surjection
<1> QED BY <1>2 DEF T

(* A finite set of natural numbers has a greatest element.                 *)
THEOREM FiniteGreatest ==
    ASSUME NEW S \in SUBSET Nat, IsFiniteSet(S), S # {}
    PROVE  \E x \in S : \A y \in S : y <= x
<1> DEFINE n == Cardinality(S)
<1>1. n \in Nat /\ ExistsBijection(1..n, S)
  BY FS_CardinalityType
<1>2. PICK f \in Bijection(1..n, S) : TRUE
  BY <1>1 DEF ExistsBijection
<1> HIDE DEF n
<1>3. f \in [1..n -> S] /\ \A x \in S : \E i \in 1..n : f[i] = x
  BY <1>2 DEF Bijection, Surjection
<1> DEFINE bound == {k \in 0..n : \E m \in Nat : \A i \in 1..k : f[i] <= m}
<1>4. 0 \in bound
  BY <1>1
<1>5. ASSUME NEW k \in 1..n, k - 1 \in bound PROVE k \in bound
  <2>1. PICK m \in Nat : \A i \in 1..(k - 1) : f[i] <= m
    BY <1>5
  <2>2. f[k] \in Nat
    BY <1>3
  <2>3. \A i \in 1..k : i = k \/ i \in 1..(k - 1)
    BY <1>1
  <2>4. m + f[k] \in Nat
    BY <2>2
  <2>5. \A i \in 1..k : f[i] \in Nat
    <3>1. \A i \in 1..k : i \in 1..n
      BY <1>1
    <3> QED BY <1>3, <3>1
  <2>6. \A i \in 1..k : f[i] <= m + f[k]
    BY <2>1, <2>2, <2>3, <2>5
  <2>7. k \in 0..n
    BY <1>1
  <2> QED BY <2>4, <2>6, <2>7
<1> HIDE DEF bound
<1>6. n \in bound
  <2>1. 0..n \subseteq bound
    BY <1>1, <1>4, <1>5, IntervalInduction
  <2> QED BY <1>1, <2>1
<1>7. PICK m \in Nat : \A i \in 1..n : f[i] <= m
  BY <1>6 DEF bound
<1>8. S \in SUBSET (0..m)
  BY <1>3, <1>7
<1>9. PICK x \in S : \A y \in S : x >= y
  BY <1>8, GreatestElement
<1> QED BY <1>9
=============================================================================

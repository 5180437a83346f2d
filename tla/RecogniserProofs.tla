-------------------------- MODULE RecogniserProofs --------------------------
(***************************************************************************)
(* Four programs that recognise a pattern and act on it:                   *)
(*  - RangeCondition: the rewriting of range conditions is correct for     *)
(*    every set of moduli, every pair of constants and every value, but    *)
(*    for the boundary of ">=";                                            *)
(*  - TyperefScan: the marked type names cover the section, for every size *)
(*    and content;                                                         *)
(*  - ByrefScan: the structs of __block variables are found, for every     *)
(*    instruction sequence and every set of candidates;                    *)
(*  - BlockInit: collapsing the assignments of a block keeps what its uses *)
(*    see, for every function and any number of variables.                 *)
(***************************************************************************)
EXTENDS RangeCondition, TyperefScan, ByrefScan, BlockInit, SequenceTheorems, NaturalLemmas

(* Modular reduction of what exceeds the modulus once at most.             *)
LEMMA SumReduced ==
    ASSUME NEW m \in Nat \ {0}, NEW a \in 0..(m - 1), NEW b \in 0..(m - 1)
    PROVE  (a + b) % m = IF a + b < m THEN a + b ELSE a + b - m
OBVIOUS

LEMMA DifferenceReduced ==
    ASSUME NEW m \in Nat \ {0}, NEW a \in 0..(m - 1), NEW b \in 0..(m - 1)
    PROVE  (a - b) % m = IF a < b THEN a - b + m ELSE a - b
OBVIOUS

(* A remainder is smaller than the modulus.                                *)
LEMMA RemainderRange ==
    ASSUME NEW m \in Nat \ {0}, NEW a \in Int
    PROVE  a % m \in 0..(m - 1)
OBVIOUS

(* Euclidean division.                                                     *)
LEMMA Division ==
    ASSUME NEW m \in Nat \ {0}, NEW a \in Int
    PROVE  \E i \in Int : a = m * i + (a % m)
<1>1. a \div m \in Int
  OBVIOUS
<1>2. a = m * (a \div m) + (a % m)
  OBVIOUS
<1> QED BY <1>1, <1>2

(* Remainders are unique.                                                  *)
LEMMA UniqueRemainder ==
    ASSUME NEW m \in Nat \ {0}, NEW p \in Int, NEW q \in Int,
           NEW a \in 0..(m - 1), NEW b \in 0..(m - 1), m * p + a = m * q + b
    PROVE  a = b
<1>1. m * (p - q) = b - a
  OBVIOUS
<1>2. CASE p - q >= 1
  <2>1. m * (p - q) >= m
    BY <1>2
  <2> QED BY <1>1, <2>1
<1>3. CASE p - q <= -1
  <2>1. m * (p - q) <= -m
    BY <1>3
  <2> QED BY <1>1, <2>1
<1>4. CASE p - q = 0
  BY <1>1, <1>4
<1> QED BY <1>2, <1>3, <1>4

(* A multiple of the modulus does not change the remainder.                *)
LEMMA AddMultiple ==
    ASSUME NEW m \in Nat \ {0}, NEW a \in Int, NEW q \in Int
    PROVE  (a + m * q) % m = a % m
<1> DEFINE b == a + m * q
<1>1. m * q \in Int /\ b \in Int
  OBVIOUS
<1> HIDE DEF b
<1>2. PICK i \in Int : a = m * i + (a % m)
  BY Division
<1>3. PICK j \in Int : b = m * j + (b % m)
  BY <1>1, Division
<1>4. a % m \in 0..(m - 1) /\ b % m \in 0..(m - 1)
  BY <1>1, RemainderRange
<1>5. i + q \in Int /\ m * (i + q) = m * i + m * q
  BY <1>2
<1>6. m * j + (b % m) = m * (i + q) + (a % m)
  BY <1>1, <1>2, <1>3, <1>4, <1>5 DEF b
<1>7. b % m = a % m
  BY <1>2, <1>3, <1>4, <1>5, <1>6, UniqueRemainder
<1> QED BY <1>7 DEF b

(* What visit_expr reads off a comparison.                                 *)
LEMMA ComparisonFacts ==
    ASSUME NEW k \in Comparison
    PROVE  /\ k.mod \in Nat \ {0} /\ k.xmod \in Nat \ {0}
           /\ k.c \in Nat /\ k.c % k.mod # 0
           /\ k.r \in 0..(k.mod - 1)
           /\ ~k.cast => k.xmod = k.mod
<1>1. k.mod \in Moduli /\ k.xmod \in Moduli
  BY DEF Comparison
<1>2. PICK m \in Moduli : k.c \in 0..(m - 1)
  BY DEF Comparison
<1>3. PICK h \in Moduli : k.r \in 0..(h - 1)
  BY DEF Comparison
<1>4. k.c % k.mod # 0 /\ k.r < k.mod /\ (~k.cast => k.xmod = k.mod)
  BY DEF Comparison
<1>5. k.mod \in Nat \ {0} /\ k.xmod \in Nat \ {0} /\ m \in Nat /\ h \in Nat
  BY <1>1, ModuliAssumption
<1>6. k.c \in Nat /\ k.r \in Nat
  BY <1>2, <1>3, <1>5
<1> QED BY <1>4, <1>5, <1>6

(* The subtracted constant is a non-zero value of the compared type.       *)
LEMMA LhsConstRange ==
    ASSUME NEW k \in Comparison
    PROVE  LhsConst(k) \in 1..(k.mod - 1)
<1>1. k.mod \in Nat \ {0} /\ k.c \in Int /\ k.c % k.mod # 0
  BY ComparisonFacts
<1>2. k.c % k.mod \in 0..(k.mod - 1)
  BY <1>1, RemainderRange
<1> QED BY <1>1, <1>2 DEF LhsConst

(* Adding a constant is subtracting its complement.                        *)
LEMMA ArithIsSubtraction ==
    ASSUME NEW k \in Comparison, NEW y \in 0..(k.mod - 1)
    PROVE  Arith(k, y, k.c, k.mod) = (y - LhsConst(k)) % k.mod
<1> DEFINE m == k.mod
           s == k.c % k.mod
<1>1. m \in Nat \ {0} /\ k.c \in Int
  BY ComparisonFacts
<1>a. s \in 0..(m - 1)
  BY <1>1, RemainderRange
<1>b. PICK q \in Int : k.c = m * q + s
  BY <1>1, Division
<1> HIDE DEF m, s
<1>2. m * q \in Int
  BY <1>1, <1>b
<1>3. m * (-q) = - (m * q) /\ m * (q + 1) = m * q + m
  BY <1>1, <1>b
<1>4. CASE k.arith = "add"
  <2>1. y + k.c = (y - (m - s)) + m * (q + 1)
    BY <1>1, <1>a, <1>b, <1>2, <1>3 DEF m
  <2>2. y - (m - s) \in Int /\ q + 1 \in Int
    BY <1>1, <1>a, <1>b DEF m
  <2>3. (y + k.c) % m = (y - (m - s)) % m
    BY <1>1, <2>1, <2>2, AddMultiple
  <2> QED BY <1>4, <2>3 DEF Arith, LhsConst, m, s
<1>5. CASE k.arith # "add"
  <2>1. y - k.c = (y - s) + m * (-q)
    BY <1>1, <1>a, <1>b, <1>2, <1>3 DEF m
  <2>2. y - s \in Int /\ -q \in Int
    BY <1>1, <1>a, <1>b DEF m
  <2>3. (y - k.c) % m = (y - s) % m
    BY <1>1, <2>1, <2>2, AddMultiple
  <2> QED BY <1>5, <2>3 DEF Arith, LhsConst, m, s
<1> QED BY <1>4, <1>5

----------------------------------------------------------------------------
(* x - lhs < rhs, and x - lhs <= rhs.                                      *)
LEMMA LessThanMeaning ==
    ASSUME NEW m \in Nat \ {0}, NEW lhs \in 1..(m - 1), NEW rhs \in 0..(m - 1),
           NEW y \in 0..(m - 1), NEW op \in {"ult", "ule"}
    PROVE  Replaced(LessThan(op, lhs, rhs, m), y)
              <=> Holds(IDA_OP_TO_MATH_OP[op], (y - lhs) % m, rhs)
<1> DEFINE top  == (lhs + rhs) % m
           diff == (y - lhs) % m
<1>1. top = IF lhs + rhs < m THEN lhs + rhs ELSE lhs + rhs - m
  BY lhs \in 0..(m - 1), SumReduced
<1>2. diff = IF y < lhs THEN y - lhs + m ELSE y - lhs
  BY lhs \in 0..(m - 1), DifferenceReduced
<1> HIDE DEF top, diff
<1>3. CASE op = "ult"
  <2>1. IDA_OP_TO_MATH_OP[op] = "<"
    BY <1>3 DEF IDA_OP_TO_MATH_OP, Unsigned
  <2>2. LessThan(op, lhs, rhs, m) =
            [low |-> lhs, lowRel |-> "<=",
             join |-> IF lhs + rhs >= m THEN "or" ELSE "and",
             high |-> top, highRel |-> "<"]
    BY <2>1 DEF LessThan, top
  <2> QED BY <1>1, <1>2, <2>1, <2>2 DEF Replaced, Holds, diff
<1>4. CASE op = "ule"
  <2>1. IDA_OP_TO_MATH_OP[op] = "<="
    BY <1>4 DEF IDA_OP_TO_MATH_OP, Unsigned
  <2>2. LessThan(op, lhs, rhs, m) =
            [low |-> lhs, lowRel |-> "<=",
             join |-> IF lhs + rhs >= m THEN "or" ELSE "and",
             high |-> top, highRel |-> "<="]
    BY <2>1 DEF LessThan, top
  <2> QED BY <1>1, <1>2, <2>1, <2>2 DEF Replaced, Holds, diff
<1> QED BY <1>3, <1>4

(* x - lhs > rhs: the replacement is exact.                                *)
LEMMA UgtMeaning ==
    ASSUME NEW m \in Nat \ {0}, NEW lhs \in 1..(m - 1), NEW rhs \in 0..(m - 1),
           NEW y \in 0..(m - 1)
    PROVE  Replaced(GreaterThan("ugt", lhs, rhs, m), y)
              <=> Holds(">", (y - lhs) % m, rhs)
<1> DEFINE top  == (lhs + rhs) % m
           diff == (y - lhs) % m
<1>1. top = IF lhs + rhs < m THEN lhs + rhs ELSE lhs + rhs - m
  BY lhs \in 0..(m - 1), SumReduced
<1>2. diff = IF y < lhs THEN y - lhs + m ELSE y - lhs
  BY lhs \in 0..(m - 1), DifferenceReduced
<1> HIDE DEF top, diff
<1>3. GreaterThan("ugt", lhs, rhs, m) =
          [low |-> top, lowRel |-> "<",
           join |-> IF lhs + rhs < m THEN "or" ELSE "and",
           high |-> lhs, highRel |-> "<"]
  BY DEF GreaterThan, top
<1> QED BY <1>1, <1>2, <1>3 DEF Replaced, Holds, diff

(* x - lhs >= rhs: exact but at x = lhs, where the replacement holds.      *)
LEMMA UgeMeaning ==
    ASSUME NEW m \in Nat \ {0}, NEW lhs \in 1..(m - 1), NEW rhs \in 0..(m - 1),
           NEW y \in 0..(m - 1)
    PROVE  Replaced(GreaterThan("uge", lhs, rhs, m), y)
              <=> \/ Holds(">=", (y - lhs) % m, rhs)
                  \/ rhs # 0 /\ lhs + rhs < m /\ y = lhs
<1> DEFINE top  == (lhs + rhs) % m
           diff == (y - lhs) % m
<1>1. top = IF lhs + rhs < m THEN lhs + rhs ELSE lhs + rhs - m
  BY lhs \in 0..(m - 1), SumReduced
<1>2. diff = IF y < lhs THEN y - lhs + m ELSE y - lhs
  BY lhs \in 0..(m - 1), DifferenceReduced
<1> HIDE DEF top, diff
<1>3. GreaterThan("uge", lhs, rhs, m) =
          [low |-> top, lowRel |-> "<=",
           join |-> IF lhs + rhs < m THEN "or" ELSE "and",
           high |-> lhs, highRel |-> IF lhs + rhs < m THEN "<=" ELSE "<"]
  BY DEF GreaterThan, top
<1> QED BY <1>1, <1>2, <1>3 DEF Replaced, Holds, diff

----------------------------------------------------------------------------
(* The condition the visitor builds for a comparison it matches.           *)
Rewritten(k) == IF k.op \in {"ult", "ule"}
                THEN LessThan(k.op, LhsConst(k), k.r, k.mod)
                ELSE GreaterThan(k.op, LhsConst(k), k.r, k.mod)

RInv == /\ e \in Comparison
        /\ state \in {"visit", "kept", "replaced"}
        /\ state # "replaced" => cond = NoCondition
        /\ state = "replaced" => Matches(e) /\ cond = Rewritten(e)

LEMMA RInvHolds == Spec => []RInv
<1>1. Init => RInv
  BY DEF Init, RInv
<1>2. RInv /\ [Next]_vars => RInv'
  <2> SUFFICES ASSUME RInv, [Next]_vars PROVE RInv'
    OBVIOUS
  <2>1. CASE Keep
    BY <2>1 DEF RInv, Keep
  <2>2. CASE RewriteLess
    BY <2>2 DEF RInv, RewriteLess, Rewritten
  <2>3. CASE RewriteGreater
    BY <2>3 DEF RInv, RewriteGreater, Rewritten
  <2>4. CASE UNCHANGED vars
    BY <2>4 DEF RInv, vars
  <2> QED BY <2>1, <2>2, <2>3, <2>4 DEF Next
<1> QED BY <1>1, <1>2, PTL DEF Spec

(* What a cast yields is a value of the compared type.                     *)
LEMMA CastRange ==
    ASSUME NEW k \in Comparison, NEW v \in 0..(k.xmod - 1)
    PROVE  Cast(k, v) \in 0..(k.mod - 1)
<1>1. k.mod \in Nat \ {0} /\ k.xmod \in Nat \ {0}
  BY ComparisonFacts
<1>2. v \in Int
  BY <1>1
<1>3. v % k.mod \in 0..(k.mod - 1)
  BY <1>1, <1>2, RemainderRange
<1> QED BY <1>1, <1>3 DEF Cast

(* A matched comparison and its rewriting, for one value of x.             *)
LEMMA RewrittenMeaning ==
    ASSUME NEW k \in Comparison, Matches(k),
           NEW v \in 0..(k.xmod - 1), CastCommutes(k, v)
    PROVE  Replaced(Rewritten(k), Cast(k, v))
              <=> Original(k, v) \/ UgeBoundary(k, v)
<1> DEFINE m   == k.mod
           lhs == LhsConst(k)
           rhs == k.r
           y   == Cast(k, v)
<1>1. /\ m \in Nat \ {0} /\ lhs \in 1..(m - 1) /\ rhs \in 0..(m - 1)
      /\ y \in 0..(m - 1)
  BY ComparisonFacts, LhsConstRange, CastRange
<1>2. Original(k, v) <=> Holds(IDA_OP_TO_MATH_OP[k.op], (y - lhs) % m, rhs)
  <2>1. Arith(k, Cast(k, v), k.c, k.mod) = (y - lhs) % m
    BY <1>1, ArithIsSubtraction
  <2> QED BY <2>1 DEF Original, CastCommutes
<1>3. UgeBoundary(k, v) <=> k.op = "uge" /\ rhs # 0 /\ lhs + rhs < m /\ y = lhs
  BY DEF UgeBoundary
<1>4. k.op \in {"ult", "ule", "ugt", "uge"}
  BY DEF Matches, Unsigned
<1>5. CASE k.op \in {"ult", "ule"}
  <2>1. Rewritten(k) = LessThan(k.op, lhs, rhs, m) /\ ~UgeBoundary(k, v)
    BY <1>3, <1>5 DEF Rewritten
  <2> HIDE DEF m, lhs, rhs, y
  <2>2. Replaced(LessThan(k.op, lhs, rhs, m), y)
           <=> Holds(IDA_OP_TO_MATH_OP[k.op], (y - lhs) % m, rhs)
    BY <1>1, <1>5, LessThanMeaning
  <2> QED BY <1>2, <2>1, <2>2 DEF y
<1>6. CASE k.op = "ugt"
  <2>1. Rewritten(k) = GreaterThan("ugt", lhs, rhs, m) /\ ~UgeBoundary(k, v)
    BY <1>3, <1>6 DEF Rewritten
  <2>2. IDA_OP_TO_MATH_OP[k.op] = ">"
    BY <1>6 DEF IDA_OP_TO_MATH_OP, Unsigned
  <2> HIDE DEF m, lhs, rhs, y
  <2>3. Replaced(GreaterThan("ugt", lhs, rhs, m), y)
           <=> Holds(">", (y - lhs) % m, rhs)
    BY <1>1, UgtMeaning
  <2> QED BY <1>2, <2>1, <2>2, <2>3 DEF y
<1>7. CASE k.op = "uge"
  <2>1. Rewritten(k) = GreaterThan("uge", lhs, rhs, m)
    BY <1>7 DEF Rewritten
  <2>2. IDA_OP_TO_MATH_OP[k.op] = ">="
    BY <1>7 DEF IDA_OP_TO_MATH_OP, Unsigned
  <2> HIDE DEF m, lhs, rhs, y
  <2>3. Replaced(GreaterThan("uge", lhs, rhs, m), y)
           <=> \/ Holds(">=", (y - lhs) % m, rhs)
               \/ rhs # 0 /\ lhs + rhs < m /\ y = lhs
    BY <1>1, UgeMeaning
  <2> QED BY <1>2, <1>3, <1>7, <2>1, <2>2, <2>3 DEF y
<1> QED BY <1>4, <1>5, <1>6, <1>7

----------------------------------------------------------------------------
(* The constants of a replacement are values of the compared type: none    *)
(* of the constants range_condition.py computes is truncated.              *)
THEOREM ConstantsFit == Spec => []TypeOK
<1>1. RInv => TypeOK
  <2> SUFFICES ASSUME RInv PROVE TypeOK
    OBVIOUS
  <2>1. e \in Comparison /\ state \in {"visit", "kept", "replaced"}
    BY DEF RInv
  <2> DEFINE m   == e.mod
             lhs == LhsConst(e)
             top == (lhs + e.r) % m
  <2>2. m \in Nat \ {0} /\ lhs \in 1..(m - 1) /\ e.r \in 0..(m - 1)
    BY <2>1, ComparisonFacts, LhsConstRange
  <2>3. top \in 0..(m - 1)
    <3> HIDE DEF m, lhs
    <3>1. lhs + e.r \in Int
      BY <2>2
    <3> QED BY <2>2, <3>1, RemainderRange
  <2>4. CASE state # "replaced"
    BY <2>1, <2>2, <2>4 DEF RInv, TypeOK, NoCondition, Condition, Rel
  <2>5. CASE state = "replaced"
    <3>1. e.op \in Unsigned /\ cond = Rewritten(e)
      BY <2>5 DEF RInv, Matches
    <3>2. IDA_OP_TO_MATH_OP[e.op] \in Rel
      BY <3>1 DEF IDA_OP_TO_MATH_OP, Unsigned, Rel
    <3>3. CASE e.op \in {"ult", "ule"}
      <4>1. cond = [low |-> lhs, lowRel |-> "<=",
                    join |-> IF lhs + e.r >= m THEN "or" ELSE "and",
                    high |-> top, highRel |-> IDA_OP_TO_MATH_OP[e.op]]
        BY <3>1, <3>3 DEF Rewritten, LessThan
      <4> QED BY <2>1, <2>2, <2>3, <3>2, <4>1 DEF TypeOK, Condition, Rel
    <3>4. CASE e.op \notin {"ult", "ule"}
      <4> DEFINE rel == IF e.op = "ugt" THEN "<" ELSE "<="
      <4>1. cond = [low |-> top, lowRel |-> rel,
                    join |-> IF lhs + e.r < m THEN "or" ELSE "and",
                    high |-> lhs, highRel |-> IF lhs + e.r < m THEN rel ELSE "<"]
        BY <3>1, <3>4 DEF Rewritten, GreaterThan
      <4> QED BY <2>1, <2>2, <2>3, <4>1 DEF TypeOK, Condition, Rel
    <3> QED BY <3>3, <3>4
  <2> QED BY <2>4, <2>5
<1> QED BY <1>1, RInvHolds, PTL

(* For all integer types, constants and values, a replaced comparison      *)
(* keeps its meaning away from the boundary of ">=".                       *)
THEOREM RewritingIsSound == Spec => []MeaningKept
<1>1. RInv => MeaningKept
  <2> SUFFICES ASSUME RInv, state = "replaced" PROVE MeaningKept
    BY DEF MeaningKept
  <2>1. e \in Comparison /\ Matches(e) /\ cond = Rewritten(e) /\ ~e.effects
    BY DEF RInv, Matches
  <2>2. ASSUME NEW v \in 0..(e.xmod - 1), CastCommutes(e, v), ~UgeBoundary(e, v)
        PROVE  Replaced(cond, Cast(e, v)) <=> Original(e, v)
    BY <2>1, <2>2, RewrittenMeaning
  <2> QED BY <2>1, <2>2 DEF MeaningKept
<1> QED BY <1>1, RInvHolds, PTL

(* At that boundary, and everywhere, what the binary accepts is accepted.  *)
THEOREM RewritingAccepts == Spec => []BoundaryIsAccepted
<1>1. RInv => BoundaryIsAccepted
  <2> SUFFICES ASSUME RInv, state = "replaced",
                      NEW v \in 0..(e.xmod - 1), CastCommutes(e, v), Original(e, v)
               PROVE  Replaced(cond, Cast(e, v))
    BY DEF BoundaryIsAccepted
  <2>1. e \in Comparison /\ Matches(e) /\ cond = Rewritten(e)
    BY DEF RInv, Matches
  <2> QED BY <2>1, RewrittenMeaning
<1> QED BY <1>1, RInvHolds, PTL

----------------------------------------------------------------------------
(* TyperefScan.                                                            *)

(* What makes a byte part of a reference.                                  *)
TailAt(g, a) == \E m \in (a - RefBytes)..(a - 1) : m >= 1 /\ section[m] = "marker" /\ ~g[m]

LEMMA TailRecursion ==
    \A a \in 1..SectionSize : InTail[a] \in BOOLEAN /\ InTail[a] = TailAt(InTail, a)
<1> DEFINE Upto(k) == \E g \in [1..k -> BOOLEAN] : \A a \in 1..k : g[a] = TailAt(g, a)
           S == {k \in 0..SectionSize : Upto(k)}
<1>1. SectionSize \in Nat
  BY SectionAssumption
<1>2. 0 \in S
  <2>1. Upto(0)
    <3>1. [a \in 1..0 |-> TRUE] \in [1..0 -> BOOLEAN] /\ \A a \in 1..0 : FALSE
      OBVIOUS
    <3> QED BY <3>1
  <2> HIDE DEF Upto
  <2> QED BY <2>1, <1>1
<1>3. ASSUME NEW k \in 1..SectionSize, k - 1 \in S
      PROVE  k \in S
  <2>1. PICK g \in [1..(k - 1) -> BOOLEAN] : \A a \in 1..(k - 1) : g[a] = TailAt(g, a)
    BY <1>3
  <2> DEFINE h == [a \in 1..k |-> IF a < k THEN g[a] ELSE TailAt(g, k)]
  <2>2. h \in [1..k -> BOOLEAN]
    <3>1. TailAt(g, k) \in BOOLEAN
      BY DEF TailAt
    <3>2. \A a \in 1..k : a < k => a \in 1..(k - 1)
      BY <1>1
    <3> QED BY <3>1, <3>2
  <2>3. ASSUME NEW a \in 1..k
        PROVE  h[a] = TailAt(h, a)
    <3>1. \A m \in (a - RefBytes)..(a - 1) : m >= 1 => m \in 1..k /\ m < k
      BY <1>1 DEF RefBytes
    <3>2. \A m \in (a - RefBytes)..(a - 1) : m >= 1 => h[m] = g[m]
      BY <3>1
    <3>3. TailAt(h, a) = TailAt(g, a)
      BY <3>2 DEF TailAt
    <3>4. h[a] = TailAt(g, a)
      <4>1. CASE a < k
        BY <4>1, <2>1, <1>1
      <4>2. CASE a = k
        BY <4>2
      <4> QED BY <4>1, <4>2, <1>1
    <3> QED BY <3>3, <3>4
  <2>4. Upto(k)
    <3> HIDE DEF h
    <3> QED BY <2>2, <2>3
  <2> QED BY <2>4
<1>4. 0..SectionSize \subseteq S
  <2> HIDE DEF S
  <2> QED BY <1>1, <1>2, <1>3, IntervalInduction
<1>5. PICK g \in [1..SectionSize -> BOOLEAN] : \A a \in 1..SectionSize : g[a] = TailAt(g, a)
  BY <1>4, <1>1
<1> DEFINE E(f) == [a \in 1..SectionSize |->
                     \E m \in (a - RefBytes)..(a - 1) : m >= 1 /\ section[m] = "marker" /\ ~f[m]]
<1>6. g = E(g)
  <2>1. g = [a \in 1..SectionSize |-> g[a]]
    OBVIOUS
  <2>2. \A a \in 1..SectionSize : g[a] = E(g)[a]
    BY <1>5 DEF TailAt
  <2> QED BY <2>1, <2>2
<1>7. InTail = CHOOSE f : f = E(f)
  BY DEF InTail
<1>8. InTail = E(InTail)
  <2> HIDE DEF E
  <2> QED BY <1>6, <1>7
<1>9. \A a \in 1..SectionSize : InTail[a] = TailAt(InTail, a)
  <2>1. \A a \in 1..SectionSize : InTail[a] = E(InTail)[a]
    BY <1>8
  <2> QED BY <2>1 DEF TailAt
<1>10. \A a \in 1..SectionSize : TailAt(InTail, a) \in BOOLEAN
  BY DEF TailAt
<1> QED BY <1>9, <1>10

(* The byte after one that is outside the references, and is no marker, is *)
(* outside too.                                                            *)
LEMMA AfterByte ==
    ASSUME NEW a \in 1..SectionSize, ~InTail[a], section[a] # "marker", a + 1 <= SectionSize
    PROVE  ~InTail[a + 1]
<1>1. SectionSize \in Nat
  BY SectionAssumption
<1>2. ~TailAt(InTail, a)
  BY TailRecursion
<1>3. PICK b \in 1..SectionSize : b = a + 1
  BY <1>1
<1>4. ASSUME NEW m \in (b - RefBytes)..(b - 1), m >= 1, section[m] = "marker", ~InTail[m]
      PROVE  FALSE
  <2>1. m # a
    BY <1>4
  <2>2. m \in (a - RefBytes)..(a - 1)
    BY <2>1, <1>1, <1>3, <1>4 DEF RefBytes
  <2> QED BY <2>2, <1>2, <1>4 DEF TailAt
<1>5. ~TailAt(InTail, b)
  BY <1>4 DEF TailAt
<1> QED BY <1>3, <1>5, TailRecursion

(* The bytes after a marker are a reference's, and the one behind them is  *)
(* outside.                                                                *)
LEMMA AfterMarker ==
    ASSUME NEW a \in 1..SectionSize, ~InTail[a], section[a] = "marker"
    PROVE  /\ \A b \in (a + 1)..(a + RefBytes) : b <= SectionSize => InTail[b]
           /\ a + 1 + RefBytes <= SectionSize => ~InTail[a + 1 + RefBytes]
<1>1. SectionSize \in Nat
  BY SectionAssumption
<1>2. ASSUME NEW b \in (a + 1)..(a + RefBytes), b <= SectionSize
      PROVE  InTail[b]
  <2>1. b \in 1..SectionSize /\ a \in (b - RefBytes)..(b - 1) /\ a >= 1
    BY <1>1, <1>2 DEF RefBytes
  <2>2. TailAt(InTail, b)
    BY <2>1 DEF TailAt
  <2> QED BY <2>1, <2>2, TailRecursion
<1>3. ASSUME a + 1 + RefBytes <= SectionSize
      PROVE  ~InTail[a + 1 + RefBytes]
  <2> DEFINE c == a + 1 + RefBytes
  <2>1. c \in 1..SectionSize
    BY <1>1, <1>3 DEF RefBytes
  <2>2. \A m \in (c - RefBytes)..(c - 1) : InTail[m]
    <3>1. \A m \in (c - RefBytes)..(c - 1) : m \in (a + 1)..(a + RefBytes) /\ m <= SectionSize
      BY <1>1, <1>3 DEF RefBytes
    <3> QED BY <3>1, <1>2
  <2>3. ~TailAt(InTail, c)
    BY <2>2 DEF TailAt
  <2> QED BY <2>1, <2>3, TailRecursion
<1> QED BY <1>2, <1>3

(* The byte from which a name goes on after the one at a.                  *)
NextByte(a) == IF section[a] = "marker" THEN a + 1 + RefBytes ELSE a + 1

LEMMA StopRecursion ==
    \A a \in 1..(SectionSize + RefBytes + 1) :
        Stop[a] = IF a > SectionSize \/ section[a] = "nul" THEN a ELSE Stop[NextByte(a)]
<1> DEFINE top == SectionSize + RefBytes + 1
           Ends(a) == a > SectionSize \/ section[a] = "nul"
           From(k) == \E g \in [(top - k)..top -> Nat] :
                        \A a \in (top - k)..top : g[a] = IF Ends(a) THEN a ELSE g[NextByte(a)]
           S == {k \in 0..(top - 1) : From(k)}
<1>1. SectionSize \in Nat /\ top \in Nat /\ top > SectionSize /\ top - 1 \in Nat
  BY SectionAssumption DEF RefBytes
<1>2. \A a \in 1..top : ~Ends(a) => NextByte(a) \in (a + 1)..top
  BY <1>1 DEF NextByte, RefBytes
<1>0. \A a \in 1..top : a > SectionSize \/ a <= SectionSize
  BY <1>1
<1> HIDE DEF top
<1>3. 0 \in S
  <2> DEFINE g == [a \in (top - 0)..top |-> a]
  <2>1. g \in [(top - 0)..top -> Nat]
    BY <1>1
  <2>2. \A a \in (top - 0)..top : g[a] = a /\ Ends(a)
    BY <1>1
  <2>3. From(0)
    BY <2>1, <2>2
  <2> QED BY <2>3, <1>1
<1>4. ASSUME NEW k \in 1..(top - 1), k - 1 \in S
      PROVE  k \in S
  <2>1. PICK g \in [(top - (k - 1))..top -> Nat] :
          \A a \in (top - (k - 1))..top : g[a] = IF Ends(a) THEN a ELSE g[NextByte(a)]
    BY <1>4
  <2> DEFINE c == top - k
             v == IF Ends(c) THEN c ELSE g[NextByte(c)]
             h == [a \in c..top |-> IF a = c THEN v ELSE g[a]]
  <2>2. c \in 1..top /\ \A a \in c..top : a \in 1..top /\ (a # c => a \in (top - (k - 1))..top)
    BY <1>1, <1>4
  <2>3. ~Ends(c) => NextByte(c) \in (top - (k - 1))..top
    BY <2>2, <1>2, <1>1, <1>4
  <2>4. v \in Nat
    BY <2>2, <2>3, <1>1
  <2>5. h \in [c..top -> Nat]
    <3> HIDE DEF v, c, Ends
    <3> QED BY <2>2, <2>4
  <2>6. \A a \in c..top : ~Ends(a) => NextByte(a) \in c..top /\ NextByte(a) # c
    <3> HIDE DEF Ends
    <3> QED BY <2>2, <1>2, <1>1, <1>4
  <2>7. ASSUME NEW a \in c..top
        PROVE  h[a] = IF Ends(a) THEN a ELSE h[NextByte(a)]
    <3> HIDE DEF Ends
    <3>1. ~Ends(a) => h[NextByte(a)] = g[NextByte(a)]
      <4> HIDE DEF v, c
      <4> QED BY <2>6
    <3>2. CASE a = c
      <4>1. h[a] = v
        <5> HIDE DEF v, c
        <5> QED BY <3>2
      <4> QED BY <4>1, <3>1, <3>2
    <3>3. CASE a # c
      <4>1. a \in (top - (k - 1))..top
        BY <2>2, <3>3
      <4>2. h[a] = g[a]
        BY <3>3
      <4> QED BY <4>1, <4>2, <2>1, <3>1
    <3> QED BY <3>2, <3>3
  <2>8. From(k)
    <3> HIDE DEF h, Ends
    <3> QED BY <2>5, <2>7
  <2>9. k \in 0..(top - 1)
    BY <1>1, <1>4
  <2> HIDE DEF From
  <2> QED BY <2>8, <2>9
<1>5. 0..(top - 1) \subseteq S
  <2> HIDE DEF S
  <2> QED BY <1>1, <1>3, <1>4, IntervalInduction
<1>6. PICK g \in [1..top -> Nat] : \A a \in 1..top : g[a] = IF Ends(a) THEN a ELSE g[NextByte(a)]
  <2>1. top - (top - 1) = 1 /\ top - 1 \in 0..(top - 1)
    BY <1>1
  <2>2. From(top - 1)
    BY <1>5, <2>1
  <2> HIDE DEF Ends
  <2> QED BY <2>1, <2>2
<1> DEFINE E(f) == [a \in 1..(SectionSize + RefBytes + 1) |->
                     IF a > SectionSize \/ section[a] = "nul" THEN a
                     ELSE f[IF section[a] = "marker" THEN a + 1 + RefBytes ELSE a + 1]]
<1>7. g = E(g)
  <2>1. g = [a \in 1..top |-> g[a]]
    OBVIOUS
  <2>2. \A a \in 1..top : g[a] = E(g)[a]
    BY <1>6 DEF NextByte, top
  <2>3. E(g) = [a \in 1..top |-> E(g)[a]]
    BY DEF top
  <2> QED BY <2>1, <2>2, <2>3
<1>8. Stop = CHOOSE f : f = E(f)
  BY DEF Stop
<1>9. Stop = E(Stop)
  <2> HIDE DEF E
  <2> QED BY <1>7, <1>8
<1>10. ASSUME NEW a \in 1..(SectionSize + RefBytes + 1)
       PROVE  Stop[a] = IF a > SectionSize \/ section[a] = "nul" THEN a ELSE Stop[NextByte(a)]
  <2>1. Stop[a] = E(Stop)[a]
    BY <1>9
  <2> QED BY <2>1 DEF NextByte
<1> QED BY <1>10
(* A name that begins outside the references goes on to a NUL outside them,*)
(* or to the end of the section; it leaves the section only in the middle  *)
(* of a reference.                                                         *)
GoodStop(a) ==
    /\ Stop[a] \in a..(SectionSize + RefBytes + 1)
    /\ (Stop[a] <= SectionSize) => section[Stop[a]] = "nul" /\ ~InTail[Stop[a]]
    /\ \A b \in a..SectionSize : (b < Stop[a] /\ section[b] = "nul") => InTail[b]
    /\ (Stop[a] > SectionSize + 1) =>
         \E m \in a..SectionSize : section[m] = "marker" /\ ~InTail[m] /\ m + RefBytes = Stop[a] - 1

LEMMA StopIsGood ==
    ASSUME section \in [1..SectionSize -> Bytes]
    PROVE  \A a \in 1..SectionSize : ~InTail[a] => GoodStop(a)
<1> DEFINE S == {k \in 0..SectionSize : \A a \in 1..SectionSize : (a > SectionSize - k /\ ~InTail[a]) => GoodStop(a)}
<1>1. SectionSize \in Nat
  BY SectionAssumption
<1>2. 0 \in S
  BY <1>1
<1>3. ASSUME NEW k \in 1..SectionSize, k - 1 \in S
      PROVE  k \in S
  <2>1. SUFFICES ASSUME NEW a \in 1..SectionSize, a = SectionSize - k + 1, ~InTail[a]
                 PROVE  GoodStop(a)
    <3>1. \A a \in 1..SectionSize : a > SectionSize - k => a = SectionSize - k + 1 \/ a > SectionSize - (k - 1)
      BY <1>1
    <3>2. \A a \in 1..SectionSize : (a > SectionSize - (k - 1) /\ ~InTail[a]) => GoodStop(a)
      BY <1>3
    <3>3. \A a \in 1..SectionSize : (a > SectionSize - k /\ ~InTail[a]) => GoodStop(a)
      BY <3>1, <3>2, <2>1
    <3>4. k \in 0..SectionSize
      BY <1>1
    <3> QED BY <3>3, <3>4
  <2>2. \A c \in 1..SectionSize : (c > a /\ ~InTail[c]) => GoodStop(c)
    <3>1. \A c \in 1..SectionSize : (c > SectionSize - (k - 1) /\ ~InTail[c]) => GoodStop(c)
      BY <1>3
    <3>2. \A c \in 1..SectionSize : c > a => c > SectionSize - (k - 1)
      BY <1>1, <2>1
    <3> QED BY <3>1, <3>2
  <2>3. a \in 1..(SectionSize + RefBytes + 1) /\ NextByte(a) \in 1..(SectionSize + RefBytes + 1) /\ NextByte(a) > a
    BY <1>1 DEF NextByte, RefBytes
  <2>4. CASE section[a] = "nul"
    <3>1. Stop[a] = a
      BY <2>3, <2>4, StopRecursion
    <3> QED BY <3>1, <2>1, <2>4, <1>1 DEF GoodStop, RefBytes
  <2>5. CASE section[a] # "nul"
    <3>1. Stop[a] = Stop[NextByte(a)]
      BY <2>3, <2>5, StopRecursion, <1>1
    <3>2. \A b \in (a + 1)..(NextByte(a) - 1) : b <= SectionSize => InTail[b]
      <4>1. CASE section[a] = "marker"
        <5>1. NextByte(a) - 1 = a + RefBytes
          BY <4>1, <1>1 DEF NextByte, RefBytes
        <5> QED BY <5>1, <4>1, <2>1, AfterMarker
      <4>2. CASE section[a] # "marker"
        BY <4>2, <1>1 DEF NextByte
      <4> QED BY <4>1, <4>2
    <3>3. CASE NextByte(a) > SectionSize
      <4>1. Stop[a] = NextByte(a)
        BY <3>1, <3>3, <2>3, StopRecursion
      <4>2. Stop[a] \in a..(SectionSize + RefBytes + 1) /\ ~(Stop[a] <= SectionSize)
        BY <4>1, <3>3, <2>3, <1>1 DEF RefBytes
      <4>3. \A b \in a..SectionSize : (b < Stop[a] /\ section[b] = "nul") => InTail[b]
        <5>1. \A b \in a..SectionSize : b = a \/ b \in (a + 1)..(NextByte(a) - 1)
          BY <3>3, <2>3, <1>1 DEF RefBytes
        <5> QED BY <5>1, <3>2, <2>5
      <4>4. ASSUME Stop[a] > SectionSize + 1
            PROVE  \E m \in a..SectionSize : section[m] = "marker" /\ ~InTail[m] /\ m + RefBytes = Stop[a] - 1
        <5>1. section[a] = "marker"
          BY <4>1, <4>4, <1>1 DEF NextByte
        <5>2. a + RefBytes = Stop[a] - 1 /\ a \in a..SectionSize
          BY <4>1, <5>1, <1>1 DEF NextByte, RefBytes
        <5> QED BY <5>1, <5>2, <2>1
      <4> QED BY <4>2, <4>3, <4>4 DEF GoodStop
    <3>4. CASE NextByte(a) <= SectionSize
      <4> DEFINE c == NextByte(a)
      <4>1. c \in 1..SectionSize /\ c > a
        BY <3>4, <2>3, <1>1
      <4>2. ~InTail[c]
        <5>1. CASE section[a] = "marker"
          <6>1. c = a + 1 + RefBytes
            BY <5>1 DEF NextByte
          <6> QED BY <6>1, <5>1, <4>1, <2>1, AfterMarker, <1>1 DEF RefBytes
        <5>2. CASE section[a] # "marker"
          <6>1. c = a + 1
            BY <5>2 DEF NextByte
          <6>2. a + 1 <= SectionSize
            BY <6>1, <4>1
          <6> QED BY <6>1, <6>2, <5>2, <2>1, AfterByte
        <5> QED BY <5>1, <5>2
      <4>3. GoodStop(c)
        BY <4>1, <4>2, <2>2
      <4>4. Stop[a] = Stop[c]
        BY <3>1
      <4>5. \A b \in a..SectionSize : b = a \/ b \in (a + 1)..(c - 1) \/ b \in c..SectionSize
        BY <4>1, <1>1
      <4> HIDE DEF c
      <4>6. Stop[a] \in a..(SectionSize + RefBytes + 1)
        <5>1. Stop[c] \in c..(SectionSize + RefBytes + 1)
          BY <4>3 DEF GoodStop
        <5> QED BY <5>1, <4>4, <4>1, <1>1 DEF RefBytes
      <4>7. (Stop[a] <= SectionSize) => section[Stop[a]] = "nul" /\ ~InTail[Stop[a]]
        BY <4>3, <4>4 DEF GoodStop
      <4>8. ASSUME NEW b \in a..SectionSize, b < Stop[a], section[b] = "nul"
            PROVE  InTail[b]
        <5>1. CASE b = a
          BY <5>1, <4>8, <2>5
        <5>2. CASE b \in (a + 1)..(c - 1)
          <6>1. b <= SectionSize
            BY <1>1
          <6> QED BY <5>2, <3>2, <6>1 DEF c
        <5>3. CASE b \in c..SectionSize
          BY <5>3, <4>3, <4>4, <4>8 DEF GoodStop
        <5> QED BY <5>1, <5>2, <5>3, <4>5
      <4>9. ASSUME Stop[a] > SectionSize + 1
            PROVE  \E m \in a..SectionSize : section[m] = "marker" /\ ~InTail[m] /\ m + RefBytes = Stop[a] - 1
        <5>1. PICK m \in c..SectionSize : section[m] = "marker" /\ ~InTail[m] /\ m + RefBytes = Stop[c] - 1
          BY <4>3, <4>4, <4>9 DEF GoodStop
        <5>2. m \in a..SectionSize
          BY <4>1, <1>1
        <5> QED BY <5>1, <5>2, <4>4
      <4> QED BY <4>6, <4>7, <4>8, <4>9 DEF GoodStop
    <3> QED BY <3>3, <3>4, <2>3, <1>1 DEF RefBytes
  <2> QED BY <2>4, <2>5
<1>4. 0..SectionSize \subseteq S
  <2> HIDE DEF S
  <2> QED BY <1>1, <1>2, <1>3, IntervalInduction
<1>5. ASSUME NEW a \in 1..SectionSize, ~InTail[a]
      PROVE  GoodStop(a)
  <2>1. SectionSize \in S
    BY <1>4, <1>1
  <2>2. a > SectionSize - SectionSize
    BY <1>1
  <2> QED BY <2>1, <2>2, <1>5
<1> QED BY <1>5

----------------------------------------------------------------------------
(* The scan is outside the references, the names so far lie before it, are *)
(* disjoint and cover what they should.                                    *)
NameOK(n) ==
    /\ n.first \in 1..SectionSize /\ n.last \in n.first..(SectionSize + RefBytes) /\ n.last < ea
    /\ ~InTail[n.first]
    /\ (n.last > SectionSize) =>
         \E m \in n.first..SectionSize : section[m] = "marker" /\ ~InTail[m] /\ m + RefBytes = n.last
Covered(a) ==
    /\ (section[a] # "nul" /\ ~InTail[a]) => \E n \in names : a \in n.first..n.last
    /\ (section[a] = "nul" /\ ~InTail[a]) => \A n \in names : a \in n.first..n.last => a = n.last
Disjoint(n, o) == n.last < o.first \/ o.last < n.first

TInv ==
    /\ section \in [1..SectionSize -> Bytes]
    /\ ea \in 1..(SectionSize + RefBytes + 2)
    /\ (ea <= SectionSize) => ~InTail[ea]
    /\ names \subseteq [first : 1..SectionSize, last : 1..(SectionSize + RefBytes)]
    /\ \A n \in names : NameOK(n)
    /\ \A n, o \in names : n # o => Disjoint(n, o)
    /\ \A a \in 1..SectionSize : a < ea => Covered(a)

LEMMA TInvInit == TInit => TInv
<1> SUFFICES ASSUME TInit PROVE TInv
  OBVIOUS
<1>1. SectionSize \in Nat
  BY SectionAssumption
<1>2. (ea <= SectionSize) => ~InTail[ea]
  <2>1. SUFFICES ASSUME 1 <= SectionSize PROVE ~InTail[1]
    BY DEF TInit
  <2>2. 1 \in 1..SectionSize
    BY <2>1, <1>1
  <2>3. ~TailAt(InTail, 1)
    BY DEF TailAt, RefBytes
  <2> QED BY <2>2, <2>3, TailRecursion
<1>3. \A a \in 1..SectionSize : ~(a < ea)
  BY <1>1 DEF TInit
<1> QED BY <1>1, <1>2, <1>3 DEF TInit, TInv, RefBytes

LEMMA TInvSkip == TInv /\ SkipNul => TInv'
<1> SUFFICES ASSUME TInv, SkipNul PROVE TInv'
  OBVIOUS
<1>1. SectionSize \in Nat
  BY SectionAssumption
<1>2. ea' = ea + 1 /\ ea \in 1..SectionSize /\ section' = section /\ names' = names /\ section[ea] = "nul"
  BY <1>1 DEF SkipNul, TInv
<1>3. InTail' = InTail
  BY <1>2 DEF InTail
<1>4. (ea' <= SectionSize) => ~InTail'[ea']
  <2>1. ~InTail[ea]
    BY <1>2, <1>1 DEF TInv
  <2> QED BY <2>1, <1>2, <1>3, AfterByte
<1>5. ASSUME NEW n \in names PROVE NameOK(n)'
  <2>1. NameOK(n)
    BY DEF TInv
  <2> QED BY <2>1, <1>2, <1>3, <1>1 DEF NameOK, RefBytes
<1>6. ASSUME NEW a \in 1..SectionSize, a < ea'
      PROVE  Covered(a)'
  <2>1. CASE a < ea
    <3>1. Covered(a)
      BY <2>1 DEF TInv
    <3> QED BY <3>1, <1>2, <1>3 DEF Covered
  <2>2. CASE a = ea
    <3>1. \A n \in names : n.last < ea /\ n.last \in Int /\ n.first \in Int
      BY <1>1 DEF TInv, NameOK, RefBytes
    <3>2. \A n \in names : ~(a \in n.first..n.last)
      BY <3>1, <2>2, <1>2
    <3> QED BY <3>2, <2>2, <1>2 DEF Covered
  <2> QED BY <2>1, <2>2, <1>2, <1>6
<1>7. ea' \in 1..(SectionSize + RefBytes + 2)
  BY <1>1, <1>2 DEF RefBytes
<1> QED BY <1>2, <1>4, <1>5, <1>6, <1>7 DEF TInv, Disjoint

LEMMA TInvMark == TInv /\ MarkName => TInv'
<1> SUFFICES ASSUME TInv, MarkName PROVE TInv'
  OBVIOUS
<1> DEFINE stop == Stop[ea]
           last == IF stop <= SectionSize THEN stop ELSE stop - 1
<1>1. SectionSize \in Nat
  BY SectionAssumption
<1>2. /\ ea' = stop + 1 /\ ea \in 1..SectionSize /\ section' = section
      /\ names' = names \cup {[first |-> ea, last |-> last]} /\ section[ea] # "nul" /\ ~InTail[ea]
  BY <1>1 DEF MarkName, TInv
<1>3. InTail' = InTail
  BY <1>2 DEF InTail
<1>4. GoodStop(ea)
  BY <1>2, StopIsGood DEF TInv
<1>5. /\ stop \in ea..(SectionSize + RefBytes + 1)
      /\ (stop <= SectionSize) => section[stop] = "nul" /\ ~InTail[stop]
      /\ \A b \in ea..SectionSize : (b < stop /\ section[b] = "nul") => InTail[b]
      /\ (stop > SectionSize + 1) =>
           \E m \in ea..SectionSize : section[m] = "marker" /\ ~InTail[m] /\ m + RefBytes = stop - 1
  BY <1>4 DEF GoodStop
<1> HIDE DEF stop
<1>6. last \in ea..(SectionSize + RefBytes) /\ last <= stop /\ stop - 1 <= last
  BY <1>1, <1>2, <1>5 DEF RefBytes
<1>7. (ea' <= SectionSize) => ~InTail'[ea']
  <2>1. SUFFICES ASSUME stop + 1 <= SectionSize PROVE ~InTail[stop + 1]
    BY <1>2, <1>3
  <2>2. stop \in 1..SectionSize /\ stop <= SectionSize
    BY <2>1, <1>1, <1>2, <1>5 DEF RefBytes
  <2> QED BY <2>1, <2>2, <1>5, AfterByte
<1>8. PICK new \in [first : 1..SectionSize, last : 1..(SectionSize + RefBytes)] :
        new.first = ea /\ new.last = last /\ names' = names \cup {new}
  <2>1. [first |-> ea, last |-> last] \in [first : 1..SectionSize, last : 1..(SectionSize + RefBytes)]
    BY <1>6, <1>2, <1>1 DEF RefBytes
  <2> HIDE DEF last
  <2> QED BY <2>1, <1>2
<1>9. NameOK(new)'
  <2>1. ASSUME last > SectionSize
        PROVE  \E m \in ea..SectionSize : section[m] = "marker" /\ ~InTail[m] /\ m + RefBytes = last
    <3>1. stop > SectionSize + 1 /\ last = stop - 1
      BY <2>1, <1>1, <1>2, <1>5 DEF RefBytes
    <3> QED BY <3>1, <1>5
  <2>2. last < ea'
    BY <1>1, <1>2, <1>6, <1>5 DEF RefBytes
  <2> HIDE DEF last
  <2> QED BY <2>1, <2>2, <1>2, <1>3, <1>6, <1>8 DEF NameOK
<1>10. ASSUME NEW n \in names
       PROVE  NameOK(n)' /\ Disjoint(n, new) /\ Disjoint(new, n)
  <2>1. NameOK(n)
    BY DEF TInv
  <2>2. n.last \in Int /\ n.last < ea
    BY <2>1, <1>1 DEF NameOK, RefBytes
  <2>3. n.last < ea'
    BY <2>2, <1>2, <1>5, <1>1 DEF RefBytes
  <2> HIDE DEF last
  <2>4. Disjoint(n, new) /\ Disjoint(new, n)
    BY <2>2, <1>8 DEF Disjoint
  <2> QED BY <2>1, <2>3, <2>4, <1>2, <1>3 DEF NameOK
<1>11. ASSUME NEW a \in 1..SectionSize, a < ea'
       PROVE  Covered(a)'
  <2>1. CASE a < ea
    <3>1. Covered(a)
      BY <2>1 DEF TInv
    <3>2. ~(a \in new.first..new.last)
      BY <2>1, <1>6, <1>8, <1>2
    <3> HIDE DEF last
    <3> QED BY <3>1, <3>2, <1>2, <1>3, <1>8 DEF Covered
  <2>2. CASE a >= ea
    <3>1. a \in ea..SectionSize /\ a <= stop
      BY <2>2, <1>1, <1>2, <1>5, <1>11 DEF RefBytes
    <3>2. a \in new.first..new.last
      BY <3>1, <1>2, <1>5, <1>1, <1>8
    <3>3. section[a] = "nul" /\ ~InTail[a] => a = stop /\ a = new.last
      BY <3>1, <1>5, <1>1, <1>8 DEF RefBytes
    <3>4. \A n \in names : ~(a \in n.first..n.last)
      <4>1. \A n \in names : n.last < ea /\ n.last \in Int /\ n.first \in Int
        BY <1>1 DEF TInv, NameOK, RefBytes
      <4> QED BY <4>1, <2>2, <1>2
    <3> HIDE DEF last
    <3> QED BY <3>2, <3>3, <3>4, <1>2, <1>3, <1>8 DEF Covered
  <2> QED BY <2>1, <2>2, <1>2
<1>12. ea' \in 1..(SectionSize + RefBytes + 2)
  BY <1>1, <1>2, <1>5 DEF RefBytes
<1>14. names' \subseteq [first : 1..SectionSize, last : 1..(SectionSize + RefBytes)]
  BY <1>8 DEF TInv
<1>15. \A n \in names' : NameOK(n)'
  BY <1>9, <1>10, <1>8
<1>16. \A n, o \in names' : n # o => Disjoint(n, o)
  BY <1>10, <1>8 DEF TInv
<1>17. (\A n, o \in names : n # o => Disjoint(n, o))' <=> (\A n, o \in names' : n # o => Disjoint(n, o))
  BY DEF Disjoint
<1>18. section' \in [1..SectionSize -> Bytes]
  BY <1>2 DEF TInv
<1> QED BY <1>18, <1>7, <1>11, <1>12, <1>14, <1>15, <1>16, <1>17 DEF TInv

LEMMA TInvariance == TSpec => []TInv
<1>1. TInv /\ [TNext]_tvars => TInv'
  <2> SUFFICES ASSUME TInv, [TNext]_tvars PROVE TInv'
    OBVIOUS
  <2>1. CASE SkipNul
    BY <2>1, TInvSkip
  <2>2. CASE MarkName
    BY <2>2, TInvMark
  <2>3. CASE UNCHANGED tvars
    <3>1. section' = section /\ ea' = ea /\ names' = names
      BY <2>3 DEF tvars
    <3>2. InTail' = InTail
      BY <3>1 DEF InTail
    <3> QED BY <3>1, <3>2 DEF TInv, NameOK, Covered, Disjoint
  <2> QED BY <2>1, <2>2, <2>3 DEF TNext
<1> QED BY <1>1, TInvInit, PTL DEF TSpec

(* apply_swift_typeref_strings, for sections of every size and content:    *)
(* the strings that are created are disjoint, cover every byte of a name,  *)
(* end at a NUL that belongs to no reference and never begin inside one.   *)
THEOREM NamesMarked == TSpec => []NamesAreMarked
<1>1. TInv => NamesAreMarked
  <2> SUFFICES ASSUME TInv, ea > SectionSize PROVE NamesAreMarked
    BY DEF NamesAreMarked
  <2>1. SectionSize \in Nat
    BY SectionAssumption
  <2>2. \A a \in 1..SectionSize : a < ea
    BY <2>1 DEF TInv, RefBytes
  <2> QED BY <2>2 DEF TInv, NamesAreMarked, NameOK, Covered, Disjoint
<1> QED BY <1>1, TInvariance, PTL

(* The scan stays within the section and one reference behind it, and      *)
(* names start in the section.                                             *)
THEOREM TyperefTypes == TSpec => []TyperefTypeOK
<1>1. TInv => TyperefTypeOK
  BY DEF TInv, TyperefTypeOK
<1> QED BY <1>1, TInvariance, PTL

----------------------------------------------------------------------------
(* ByrefScan.                                                              *)

(* A layout position by position: how many stores it has, the field at     *)
(* each, and what the store there looks like.                              *)
LenOf(h, s) == IF h THEN (IF s THEN 7 ELSE 6) ELSE (IF s THEN 5 ELSE 4)

FieldAt(p, h, s) ==
    IF p = 1 THEN "isa" ELSE IF p = 2 THEN "forwarding" ELSE IF p = 3 THEN "flags"
    ELSE IF p = 4 /\ s THEN "size"
    ELSE IF h /\ p = LenOf(h, s) - 2 THEN "keep"
    ELSE IF h /\ p = LenOf(h, s) - 1 THEN "dispose" ELSE "variable"

FitsAt(i, p, b, h, s) ==
    LET f == FieldAt(p, h, s)
    IN  /\ i.d = b + Offset(f, h)
        /\ f = "isa" => i.v = Num(8, Zero)
        /\ f = "forwarding" => i.v = StackAddr(b)
        /\ f = "flags" => IsNum(i.v) /\ i.v.size = (IF s THEN 4 ELSE 8) /\ (i.v.val = Copy <=> h)
        /\ f = "size" => IsNum(i.v) /\ i.v.size = 4
        /\ f \in {"keep", "dispose"} => i.v = Global

(* The instructions i..n of c are the first of a layout.                   *)
Begins(c, i, n, b, h, s) ==
    /\ n - i + 1 <= LenOf(h, s)
    /\ \A p \in 1..(n - i + 1) : FitsAt(c[i + p - 1], p, b, h, s)

Wanted(b, h, s) == StoresOf([base |-> b, helpers |-> h, split |-> s])

LEMMA WantedFits ==
    ASSUME NEW b \in Nat, NEW h \in BOOLEAN, NEW s \in BOOLEAN
    PROVE  /\ Wanted(b, h, s) \in Seq({Wanted(b, h, s)[p] : p \in 1..LenOf(h, s)})
           /\ Len(Wanted(b, h, s)) = LenOf(h, s)
           /\ \A p \in 1..LenOf(h, s) : FitsAt(Wanted(b, h, s)[p], p, b, h, s)
<1> DEFINE w == Wanted(b, h, s)
           flags == IF h THEN Copy ELSE Plain
           val == Store(b + Offset("variable", h), Reg(8))
           x1 == Store(b, Num(8, Zero))
           x2 == Store(b + 8, StackAddr(b))
           f8 == Store(b + 16, Num(8, flags))
           f4 == Store(b + 16, Num(4, flags))
           z == Store(b + 20, Num(4, Plain))
           k == Store(b + 24, Global)
           d == Store(b + 32, Global)
<1>1. w = <<x1, x2>> \o (IF s THEN <<f4, z>> ELSE <<f8>>) \o (IF h THEN <<k, d>> ELSE <<>>) \o <<val>>
  BY DEF Wanted, StoresOf
<1> DEFINE T == {x1, x2, f4, f8, z, k, d, val}
           mid == IF s THEN <<f4, z>> ELSE <<f8>>
           aid == IF h THEN <<k, d>> ELSE <<>>
           u == <<x1, x2>> \o mid
           v == u \o aid
<1>2. /\ w \in Seq(T) /\ Len(w) = LenOf(h, s)
      /\ w[1] = x1 /\ w[2] = x2 /\ (s => w[3] = f4 /\ w[4] = z) /\ (~s => w[3] = f8)
      /\ (h => w[LenOf(h, s) - 2] = k /\ w[LenOf(h, s) - 1] = d) /\ w[LenOf(h, s)] = val
  <2> HIDE DEF x1, x2, f4, f8, z, k, d, val
  <2>1. <<x1, x2>> \in Seq(T) /\ <<val>> \in Seq(T) /\ Len(<<x1, x2>>) = 2 /\ Len(<<val>>) = 1
    OBVIOUS
  <2>2. mid \in Seq(T) /\ Len(mid) = (IF s THEN 2 ELSE 1) /\ (s => mid[1] = f4 /\ mid[2] = z) /\ (~s => mid[1] = f8)
    <3>1. <<f4, z>> \in Seq(T) /\ <<f8>> \in Seq(T)
      OBVIOUS
    <3> QED BY <3>1
  <2>3. aid \in Seq(T) /\ Len(aid) = (IF h THEN 2 ELSE 0) /\ (h => aid[1] = k /\ aid[2] = d)
    <3>1. <<k, d>> \in Seq(T)
      OBVIOUS
    <3>2. <<>> \in Seq(T)
      OBVIOUS
    <3> QED BY <3>1, <3>2
  <2>4. w = v \o <<val>>
    BY <1>1
  <2> HIDE DEF T, mid, aid, w
  <2>5. u \in Seq(T) /\ Len(u) = 2 + Len(mid) /\ u[1] = x1 /\ u[2] = x2 /\ \A i \in 1..Len(mid) : u[2 + i] = mid[i]
    <3>1. /\ u \in Seq(T) /\ Len(u) = 2 + Len(mid)
          /\ \A i \in 1..(2 + Len(mid)) : u[i] = IF i <= 2 THEN <<x1, x2>>[i] ELSE mid[i - 2]
      BY <2>1, <2>2, ConcatProperties
    <3>2. <<x1, x2>>[1] = x1 /\ <<x1, x2>>[2] = x2
      OBVIOUS
    <3> HIDE DEF u
    <3> QED BY <3>1, <3>2, <2>2
  <2>6. /\ v \in Seq(T) /\ Len(v) = Len(u) + Len(aid) /\ \A i \in 1..Len(u) : v[i] = u[i]
        /\ \A i \in 1..Len(aid) : v[Len(u) + i] = aid[i]
    <3> HIDE DEF u
    <3>1. /\ v \in Seq(T) /\ Len(v) = Len(u) + Len(aid)
          /\ \A i \in 1..(Len(u) + Len(aid)) : v[i] = IF i <= Len(u) THEN u[i] ELSE aid[i - Len(u)]
      <4>1. u \in Seq(T) /\ aid \in Seq(T)
        BY <2>5, <2>3
      <4> QED BY <4>1, ConcatProperties
    <3>2. Len(u) \in Nat /\ Len(aid) \in Nat
      BY <2>2, <2>3, <2>5
    <3> HIDE DEF v
    <3> QED BY <3>1, <3>2
  <2>7. /\ w \in Seq(T) /\ Len(w) = Len(v) + 1 /\ \A i \in 1..Len(v) : w[i] = v[i]
        /\ w[Len(v) + 1] = val
    <3> HIDE DEF v
    <3> QED BY <2>6, <2>4, <2>1
  <2> HIDE DEF u, v
  <2>8. Len(w) = LenOf(h, s)
    BY <2>2, <2>3, <2>5, <2>6, <2>7 DEF LenOf
  <2>9. w[1] = x1 /\ w[2] = x2
    BY <2>2, <2>3, <2>5, <2>6, <2>7
  <2>10. (s => w[3] = f4 /\ w[4] = z) /\ (~s => w[3] = f8)
    <3>1. \A i \in 1..Len(mid) : w[2 + i] = mid[i]
      BY <2>2, <2>3, <2>5, <2>6, <2>7
    <3>2. CASE s
      <4>1. 1 \in 1..Len(mid) /\ 2 \in 1..Len(mid)
        BY <2>2, <3>2
      <4>2. w[2 + 1] = mid[1] /\ w[2 + 2] = mid[2]
        BY <4>1, <3>1
      <4> QED BY <4>2, <2>2, <3>2
    <3>3. CASE ~s
      <4>1. 1 \in 1..Len(mid)
        BY <2>2, <3>3
      <4>2. w[2 + 1] = mid[1]
        BY <4>1, <3>1
      <4> QED BY <4>2, <2>2, <3>3
    <3> QED BY <3>2, <3>3
  <2>11. h => w[LenOf(h, s) - 2] = k /\ w[LenOf(h, s) - 1] = d
    <3>1. SUFFICES ASSUME h PROVE w[LenOf(h, s) - 2] = k /\ w[LenOf(h, s) - 1] = d
      OBVIOUS
    <3>2. Len(aid) = 2 /\ aid[1] = k /\ aid[2] = d /\ Len(u) = LenOf(h, s) - 3 /\ Len(u) \in Nat /\ LenOf(h, s) \in Nat
      BY <3>1, <2>2, <2>3, <2>5 DEF LenOf
    <3>3. v[Len(u) + 1] = k /\ v[Len(u) + 2] = d /\ Len(v) = Len(u) + 2
      BY <3>2, <2>6
    <3>4. w[Len(u) + 1] = k /\ w[Len(u) + 2] = d
      BY <3>2, <3>3, <2>7
    <3> QED BY <3>2, <3>4
  <2> QED BY <2>7, <2>8, <2>9, <2>10, <2>11
<1> HIDE DEF w
<1>3. Len(w) = LenOf(h, s) /\ w \in Seq({w[p] : p \in 1..LenOf(h, s)})
  <2> HIDE DEF T
  <2> QED BY <1>2
<1>4. /\ x1.d = b /\ x1.v = Num(8, Zero) /\ x2.d = b + 8 /\ x2.v = StackAddr(b)
      /\ f8.d = b + 16 /\ f8.v = Num(8, flags) /\ f4.d = b + 16 /\ f4.v = Num(4, flags)
      /\ z.d = b + 20 /\ z.v = Num(4, Plain) /\ k.d = b + 24 /\ k.v = Global /\ d.d = b + 32 /\ d.v = Global
      /\ val.d = b + Offset("variable", h)
  BY DEF Store
<1>5. /\ IsNum(Num(8, flags)) /\ Num(8, flags).size = 8 /\ Num(8, flags).val = flags
      /\ IsNum(Num(4, flags)) /\ Num(4, flags).size = 4 /\ Num(4, flags).val = flags
      /\ IsNum(Num(4, Plain)) /\ Num(4, Plain).size = 4
      /\ (flags = Copy <=> h)
  BY DEF IsNum, Num, Copy, Plain
<1> HIDE DEF x1, x2, f4, f8, z, k, d, val, flags
<1>6. ASSUME NEW p \in 1..LenOf(h, s)
      PROVE  FitsAt(w[p], p, b, h, s)
  <2>1. CASE h /\ s
    <3>1. p \in 1..7 /\ LenOf(h, s) = 7
      BY <2>1 DEF LenOf
    <3>2. w[1] = x1 /\ w[2] = x2 /\ w[3] = f4 /\ w[4] = z /\ w[5] = k /\ w[6] = d /\ w[7] = val
      BY <1>2, <3>1, <2>1
    <3> QED BY <3>1, <3>2, <2>1, <1>4, <1>5 DEF FitsAt, FieldAt, Offset
  <2>2. CASE h /\ ~s
    <3>1. p \in 1..6 /\ LenOf(h, s) = 6
      BY <2>2 DEF LenOf
    <3>2. w[1] = x1 /\ w[2] = x2 /\ w[3] = f8 /\ w[4] = k /\ w[5] = d /\ w[6] = val
      BY <1>2, <3>1, <2>2
    <3> QED BY <3>1, <3>2, <2>2, <1>4, <1>5 DEF FitsAt, FieldAt, Offset
  <2>3. CASE ~h /\ s
    <3>1. p \in 1..5 /\ LenOf(h, s) = 5
      BY <2>3 DEF LenOf
    <3>2. w[1] = x1 /\ w[2] = x2 /\ w[3] = f4 /\ w[4] = z /\ w[5] = val
      BY <1>2, <3>1, <2>3
    <3> QED BY <3>1, <3>2, <2>3, <1>4, <1>5 DEF FitsAt, FieldAt, Offset
  <2>4. CASE ~h /\ ~s
    <3>1. p \in 1..4 /\ LenOf(h, s) = 4
      BY <2>4 DEF LenOf
    <3>2. w[1] = x1 /\ w[2] = x2 /\ w[3] = f8 /\ w[4] = val
      BY <1>2, <3>1, <2>4
    <3> QED BY <3>1, <3>2, <2>4, <1>4, <1>5 DEF FitsAt, FieldAt, Offset
  <2> QED BY <2>1, <2>2, <2>3, <2>4
<1> QED BY <1>3, <1>6 DEF w

(* The positions of the fields.                                            *)
LEMMA FieldFacts ==
    ASSUME NEW h \in BOOLEAN, NEW s \in BOOLEAN, NEW p \in 1..LenOf(h, s)
    PROVE  /\ LenOf(h, s) \in 4..7
           /\ FieldAt(p, h, s) \in {"isa", "forwarding", "flags", "size", "keep", "dispose", "variable"}
           /\ FieldAt(p, h, s) = "isa" <=> p = 1
           /\ FieldAt(p, h, s) = "forwarding" <=> p = 2
           /\ FieldAt(p, h, s) = "flags" <=> p = 3
           /\ FieldAt(p, h, s) = "size" <=> (p = 4 /\ s)
           /\ FieldAt(p, h, s) \in {"keep", "dispose"} => h /\ p > 3
           /\ FieldAt(p, h, s) = "keep" <=> (h /\ p = LenOf(h, s) - 2)
           /\ FieldAt(p, h, s) = "dispose" <=> (h /\ p = LenOf(h, s) - 1)
           /\ FieldAt(p, h, s) = "variable" <=> p = LenOf(h, s)
<1> DEFINE n == LenOf(h, s)
           f == FieldAt(p, h, s)
<1>1. n \in 4..7 /\ (h => n >= 6) /\ (~h => n <= 5) /\ (s <=> n = 5 \/ n = 7)
  BY DEF LenOf
<1>2. f = IF p = 1 THEN "isa" ELSE IF p = 2 THEN "forwarding" ELSE IF p = 3 THEN "flags"
          ELSE IF p = 4 /\ s THEN "size" ELSE IF h /\ p = n - 2 THEN "keep"
          ELSE IF h /\ p = n - 1 THEN "dispose" ELSE "variable"
  BY DEF FieldAt
<1>3. p \in 1..n
  OBVIOUS
<1> HIDE DEF n, f
<1>4. f \in {"isa", "forwarding", "flags", "size", "keep", "dispose", "variable"}
  BY <1>2
<1>5. (f = "isa" <=> p = 1) /\ (f = "forwarding" <=> p = 2) /\ (f = "flags" <=> p = 3)
  BY <1>1, <1>2, <1>3
<1>6. f = "size" <=> (p = 4 /\ s)
  BY <1>1, <1>2, <1>3
<1>7. (f = "keep" <=> (h /\ p = n - 2)) /\ (f = "dispose" <=> (h /\ p = n - 1))
  BY <1>1, <1>2, <1>3
<1>8. f = "variable" <=> p = n
  BY <1>1, <1>2, <1>3
<1>9. f \in {"keep", "dispose"} => h /\ p > 3
  BY <1>1, <1>3, <1>7
<1> QED BY <1>1, <1>4, <1>5, <1>6, <1>7, <1>8, <1>9 DEF n, f

(* IsLayout says that every instruction fits its position.                 *)
LEMMA LayoutFits ==
    ASSUME NEW run, NEW b \in Nat, NEW h \in BOOLEAN
    PROVE  IsLayout(run, b, h) <=>
             \E s \in BOOLEAN : /\ Len(run) = LenOf(h, s)
                                /\ \A p \in 1..LenOf(h, s) : FitsAt(run[p], p, b, h, s)
<1> DEFINE Fits(k, s) ==
             LET wanted == Wanted(b, h, s)
             IN  /\ run[k].d = wanted[k].d
                 /\ \/ k = Len(wanted)
                    \/ run[k].v = wanted[k].v
                    \/ /\ wanted[k].v.kind = "num" /\ k > 2
                       /\ run[k].v.kind = "num" /\ run[k].v.size = wanted[k].v.size
                       /\ (run[k].d = b + 16) => (run[k].v.val = Copy <=> h)
<1>1. IsLayout(run, b, h) <=>
        \E s \in BOOLEAN : Len(run) = Len(Wanted(b, h, s)) /\ \A k \in 1..Len(run) : Fits(k, s)
  BY DEF IsLayout, Wanted
<1>2. ASSUME NEW s \in BOOLEAN, NEW p \in 1..LenOf(h, s)
      PROVE  Fits(p, s) <=> FitsAt(run[p], p, b, h, s)
  <2> DEFINE w == Wanted(b, h, s)[p]
             r == run[p]
             f == FieldAt(p, h, s)
  <2>1. FitsAt(w, p, b, h, s) /\ Len(Wanted(b, h, s)) = LenOf(h, s)
    BY WantedFits
  <2>2. Fits(p, s) <=> /\ r.d = w.d
                       /\ \/ p = LenOf(h, s)
                          \/ r.v = w.v
                          \/ /\ w.v.kind = "num" /\ p > 2
                             /\ r.v.kind = "num" /\ r.v.size = w.v.size
                             /\ (r.d = b + 16) => (r.v.val = Copy <=> h)
    BY <2>1
  <2>0. SUFFICES Fits(p, s) <=> FitsAt(r, p, b, h, s)
    OBVIOUS
  <2> HIDE DEF Fits, w, r
  <2>3. Num(8, Zero).kind = "num" /\ StackAddr(b).kind = "ref" /\ Global.kind = "glb"
    BY DEF Num, StackAddr, Global
  <2>4. CASE p = 1
    <3>1. f = "isa" /\ p # LenOf(h, s)
      BY <2>4, FieldFacts
    <3> HIDE DEF f
    <3>2. w.d = b + Offset("isa", h) /\ w.v = Num(8, Zero)
      BY <3>1, <2>1 DEF FitsAt, f
    <3>3. FitsAt(r, p, b, h, s) <=> r.d = b + Offset("isa", h) /\ r.v = Num(8, Zero)
      BY <3>1 DEF FitsAt, f
    <3> QED BY <3>1, <3>2, <3>3, <2>2, <2>4
  <2>5. CASE p = 2
    <3>1. f = "forwarding" /\ p # LenOf(h, s)
      BY <2>5, FieldFacts
    <3> HIDE DEF f
    <3>2. w.d = b + Offset("forwarding", h) /\ w.v = StackAddr(b)
      BY <3>1, <2>1 DEF FitsAt, f
    <3>3. FitsAt(r, p, b, h, s) <=> r.d = b + Offset("forwarding", h) /\ r.v = StackAddr(b)
      BY <3>1 DEF FitsAt, f
    <3> QED BY <3>1, <3>2, <3>3, <2>2, <2>5
  <2>6. CASE p = 3
    <3>1. f = "flags" /\ p # LenOf(h, s)
      BY <2>6, FieldFacts
    <3> HIDE DEF f
    <3>2. w.d = b + 16 /\ IsNum(w.v) /\ w.v.size = (IF s THEN 4 ELSE 8) /\ (w.v.val = Copy <=> h)
      BY <3>1, <2>1 DEF FitsAt, f, Offset
    <3>3. FitsAt(r, p, b, h, s) <=> r.d = b + 16 /\ IsNum(r.v) /\ r.v.size = (IF s THEN 4 ELSE 8) /\ (r.v.val = Copy <=> h)
      BY <3>1 DEF FitsAt, f, Offset
    <3> QED BY <3>1, <3>2, <3>3, <2>2, <2>6 DEF IsNum
  <2>7. CASE p = 4 /\ s
    <3>1. f = "size" /\ p # LenOf(h, s)
      <4>1. f = "size"
        <5>1. f = "size" <=> (p = 4 /\ s)
          BY FieldFacts
        <5> HIDE DEF f
        <5> QED BY <5>1, <2>7
      <4>2. f = "variable" <=> p = LenOf(h, s)
        BY FieldFacts
      <4> QED BY <4>1, <4>2
    <3> HIDE DEF f
    <3>2. w.d = b + 20 /\ IsNum(w.v) /\ w.v.size = 4
      BY <3>1, <2>1 DEF FitsAt, f, Offset
    <3>3. FitsAt(r, p, b, h, s) <=> r.d = b + 20 /\ IsNum(r.v) /\ r.v.size = 4
      BY <3>1 DEF FitsAt, f, Offset
    <3>4. r.d = b + 20 => r.d # b + 16
      OBVIOUS
    <3>5. p > 2
      BY <2>7
    <3>6. Fits(p, s) <=> r.d = b + 20 /\ (r.v = w.v \/ (IsNum(r.v) /\ r.v.size = 4))
      BY <3>1, <3>2, <3>4, <3>5, <2>2 DEF IsNum
    <3>7. r.v = w.v => IsNum(r.v) /\ r.v.size = 4
      BY <3>2 DEF IsNum
    <3> QED BY <3>3, <3>6, <3>7
  <2>8. CASE p > 3 /\ ~(p = 4 /\ s) /\ p # LenOf(h, s)
    <3>1. f \in {"keep", "dispose"}
      BY <2>8, FieldFacts
    <3> HIDE DEF f
    <3>2. w.d = b + Offset(f, h) /\ w.v = Global
      BY <3>1, <2>1 DEF FitsAt, f
    <3>3. FitsAt(r, p, b, h, s) <=> r.d = b + Offset(f, h) /\ r.v = Global
      BY <3>1 DEF FitsAt, f
    <3> QED BY <3>1, <3>2, <3>3, <2>2, <2>8, <2>3
  <2>9. CASE p = LenOf(h, s)
    <3>1. f = "variable"
      BY <2>9, FieldFacts
    <3> HIDE DEF f
    <3>2. w.d = b + Offset(f, h)
      BY <3>1, <2>1 DEF FitsAt, f
    <3>3. FitsAt(r, p, b, h, s) <=> r.d = b + Offset(f, h)
      BY <3>1 DEF FitsAt, f
    <3> QED BY <3>1, <3>2, <3>3, <2>2, <2>9
  <2>10. p = 1 \/ p = 2 \/ p = 3 \/ p > 3
    BY FieldFacts
  <2> QED BY <2>4, <2>5, <2>6, <2>7, <2>8, <2>9, <2>10
<1> HIDE DEF Fits
<1>3. \A s \in BOOLEAN : Len(Wanted(b, h, s)) = LenOf(h, s)
  BY WantedFits
<1> QED BY <1>1, <1>2, <1>3

(* A run that begins a layout can be continued.                            *)
LEMMA BeginsUnfinished ==
    ASSUME NEW S, NEW run \in Seq(S), run # <<>>, NEW b \in Candidates, NEW h \in BOOLEAN, NEW s \in BOOLEAN,
           Len(run) < LenOf(h, s), \A p \in 1..Len(run) : FitsAt(run[p], p, b, h, s)
    PROVE  IsUnfinished(run)
<1> DEFINE w == Wanted(b, h, s)
           n == Len(run)
           m == LenOf(h, s)
           rest == SubSeq(w, n + 1, Len(w))
           whole == run \o rest
           R == {w[p] : p \in 1..m} \cup S
<1>1. b \in Nat
  BY ByrefAssumption
<1>2. w \in Seq({w[p] : p \in 1..m}) /\ Len(w) = m /\ \A p \in 1..m : FitsAt(w[p], p, b, h, s)
  BY <1>1, WantedFits
<1>3. n \in Nat /\ m \in Nat /\ n < m /\ m >= 4
  <2>1. LenOf(h, s) \in 4..7
    BY DEF LenOf
  <2> QED BY <2>1
<1> HIDE DEF w, n, m
<1>4. w \in Seq(R) /\ run \in Seq(R)
  <2>1. \A p \in 1..m : w[p] \in R
    OBVIOUS
  <2>2. \A p \in 1..n : run[p] \in R
    BY DEF n
  <2> HIDE DEF R
  <2> QED BY <2>1, <2>2, <1>2 DEF n
<1> HIDE DEF R
<1>5. rest \in Seq(R) /\ Len(rest) = m - n /\ \A p \in 1..(m - n) : rest[p] = w[n + p]
  BY <1>2, <1>3, <1>4
<1> HIDE DEF rest
<1>6. Len(whole) = m /\ \A p \in 1..m : whole[p] = IF p <= n THEN run[p] ELSE rest[p - n]
  <2>1. Len(whole) = n + Len(rest) /\ \A p \in 1..(n + Len(rest)) : whole[p] = IF p <= n THEN run[p] ELSE rest[p - n]
    BY <1>4, <1>5, ConcatProperties DEF n
  <2> HIDE DEF whole
  <2> QED BY <2>1, <1>5, <1>3
<1> HIDE DEF whole
<1>7. \A p \in 1..m : FitsAt(whole[p], p, b, h, s)
  <2>1. ASSUME NEW p \in 1..m
        PROVE  FitsAt(whole[p], p, b, h, s)
    <3>1. CASE p <= n
      <4>1. p \in 1..n
        BY <3>1
      <4> QED BY <4>1, <3>1, <1>6 DEF n
    <3>2. CASE p > n
      <4>1. p - n \in 1..(m - n) /\ n + (p - n) = p
        BY <3>2, <1>3
      <4>2. whole[p] = w[p]
        BY <4>1, <3>2, <1>6, <1>5, <1>3
      <4> QED BY <4>2, <1>2
    <3> QED BY <3>1, <3>2, <1>3
  <2> QED BY <2>1
<1>8. IsLayout(whole, b, h)
  BY <1>1, <1>6, <1>7, LayoutFits DEF m
<1>9. n < Len(w) /\ IsLayout(run \o SubSeq(w, n + 1, Len(w)), b, h)
  BY <1>2, <1>3, <1>8 DEF whole, rest
<1> QED BY <1>9 DEF IsUnfinished, w, Wanted, n

----------------------------------------------------------------------------
(* The states of the automaton; F are the values that are stored.          *)
FieldNames == {"isa", "forwarding", "flags", "size", "keep", "dispose", "variable"}
AutState(F) ==
    [field : FieldNames, base : Candidates \cup {NoOffset}, first : Nat, flags : F, helpers : BOOLEAN]

(* The automaton waits for position p of a layout.                         *)
WaitsFor(a, p, b, h, s) ==
    /\ a.field = FieldAt(p, h, s)
    /\ a.base = IF p = 1 THEN NoOffset ELSE b
    /\ a.field = "size" => (a.flags = Copy <=> h)
    /\ p > 3 /\ a.field # "size" => a.helpers = h

(* A state the first instruction of a struct is remembered in.             *)
Same(a, t) == t.field = a.field /\ t.base = a.base /\ t.flags = a.flags /\ t.helpers = a.helpers

LEMMA AfterFlagsState ==
    ASSUME NEW F, NEW t \in AutState(F), NEW v \in F
    PROVE  /\ AfterFlags(t, v) \in AutState(F)
           /\ AfterFlags(t, v).first = t.first /\ AfterFlags(t, v).base = t.base
           /\ (AfterFlags(t, v).helpers <=> v = Copy)
           /\ AfterFlags(t, v).field = IF v = Copy THEN "keep" ELSE "variable"
<1> DEFINE n == AfterFlags(t, v)
<1>1. n = [t EXCEPT !.flags = v, !.helpers = v = Copy, !.field = IF v = Copy THEN "keep" ELSE "variable"]
  BY DEF AfterFlags
<1>2. n \in AutState(F)
  BY <1>1 DEF AutState, FieldNames
<1>3. n.first = t.first /\ n.base = t.base
  BY <1>1 DEF AutState
<1>4. n.helpers = (v = Copy)
  BY <1>1 DEF AutState
<1>5. n.field = IF v = Copy THEN "keep" ELSE "variable"
  BY <1>1 DEF AutState
<1> QED BY <1>2, <1>3, <1>4, <1>5

LEMMA AcceptedNext ==
    ASSUME NEW F, NEW a \in AutState(F), NEW t \in AutState(F), Same(a, t),
           NEW b \in Candidates, NEW h \in BOOLEAN, NEW s \in BOOLEAN, NEW p \in 1..LenOf(h, s),
           WaitsFor(a, p, b, h, s), NEW x, x.v.val \in F, FitsAt(x, p, b, h, s)
    PROVE  /\ InPlace(a, x) /\ Accepts(t, x)
           /\ p < LenOf(h, s) => /\ Accept(t, x) \in AutState(F)
                                 /\ WaitsFor(Accept(t, x), p + 1, b, h, s)
                                 /\ Accept(t, x).first = t.first
<1> DEFINE f == FieldAt(p, h, s)
           L == LenOf(h, s)
           g == FieldAt(p + 1, h, s)
           n == Accept(t, x)
<1>1. b \in Nat
  BY ByrefAssumption
<1>2. /\ L \in 4..7 /\ f \in FieldNames
      /\ (f = "isa" <=> p = 1) /\ (f = "forwarding" <=> p = 2) /\ (f = "flags" <=> p = 3)
      /\ (f = "size" <=> (p = 4 /\ s)) /\ (f \in {"keep", "dispose"} => h /\ p > 3)
      /\ (f = "keep" <=> (h /\ p = L - 2)) /\ (f = "dispose" <=> (h /\ p = L - 1)) /\ (f = "variable" <=> p = L)
  BY FieldFacts DEF FieldNames
<1>3. p < L =>
      /\ (p = 1 => g = "forwarding") /\ (p = 2 => g = "flags") /\ (p = 3 /\ s => g = "size")
      /\ ((p = 3 /\ ~s) \/ (p = 4 /\ s) => g = IF h THEN "keep" ELSE "variable")
      /\ (f = "keep" => g = "dispose") /\ (f = "dispose" => g = "variable")
  <2>0. SUFFICES ASSUME p < L
                 PROVE  /\ (p = 1 => g = "forwarding") /\ (p = 2 => g = "flags") /\ (p = 3 /\ s => g = "size")
                        /\ ((p = 3 /\ ~s) \/ (p = 4 /\ s) => g = IF h THEN "keep" ELSE "variable")
                        /\ (f = "keep" => g = "dispose") /\ (f = "dispose" => g = "variable")
    OBVIOUS
  <2>1. p + 1 \in 1..L
    BY <2>0, <1>2
  <2>2. /\ (g = "forwarding" <=> p + 1 = 2) /\ (g = "flags" <=> p + 1 = 3)
        /\ (g = "size" <=> (p + 1 = 4 /\ s))
        /\ (g = "keep" <=> (h /\ p + 1 = L - 2)) /\ (g = "dispose" <=> (h /\ p + 1 = L - 1)) /\ (g = "variable" <=> p + 1 = L)
    BY <2>1, FieldFacts
  <2>3. (h => L >= 6) /\ (~h => L <= 5) /\ (s <=> L = 5 \/ L = 7)
    BY DEF LenOf
  <2> HIDE DEF f, g, L
  <2>4. (p = 1 => g = "forwarding") /\ (p = 2 => g = "flags") /\ (p = 3 /\ s => g = "size")
    BY <2>2
  <2>5. (p = 3 /\ ~s) \/ (p = 4 /\ s) => g = IF h THEN "keep" ELSE "variable"
    BY <2>2, <2>3, <1>2
  <2>6. (f = "keep" => g = "dispose") /\ (f = "dispose" => g = "variable")
    BY <2>2, <1>2
  <2> QED BY <2>4, <2>5, <2>6
<1>4. /\ a.field = f /\ a.base = (IF p = 1 THEN NoOffset ELSE b)
      /\ (f = "size" => (a.flags = Copy <=> h)) /\ (p > 3 /\ f # "size" => a.helpers = h)
  BY DEF WaitsFor
<1>5. /\ x.d = b + Offset(f, h)
      /\ f = "isa" => x.v = Num(8, Zero)
      /\ f = "forwarding" => x.v = StackAddr(b)
      /\ f = "flags" => IsNum(x.v) /\ x.v.size = (IF s THEN 4 ELSE 8) /\ (x.v.val = Copy <=> h)
      /\ f = "size" => IsNum(x.v) /\ x.v.size = 4
      /\ f \in {"keep", "dispose"} => x.v = Global
  BY DEF FitsAt
<1>6. t.field = f /\ t.base = a.base /\ t.flags = a.flags /\ t.helpers = a.helpers
  BY <1>4 DEF Same
<1> HIDE DEF f, g, L
<1>7. Offset(f, h) \in Nat /\ (f = "isa" => Offset(f, h) = 0) /\ (f # "variable" => Offset(f, h) = Offset(f, a.helpers))
      /\ (f = "variable" => a.helpers = h)
  <2>1. f = "variable" => a.helpers = h
    BY <1>2, <1>4
  <2>2. f # "variable" => Offset(f, h) = Offset(f, a.helpers)
    BY DEF Offset
  <2>3. Offset(f, h) \in Nat /\ (f = "isa" => Offset(f, h) = 0)
    BY <1>2 DEF Offset, FieldNames
  <2> QED BY <2>1, <2>2, <2>3
<1>8. InPlace(a, x)
  <2>1. x.d \in Nat
    BY <1>1, <1>5, <1>7
  <2>2. x.d # NoOffset
    BY <2>1 DEF NoOffset
  <2>3. Offset(a.field, a.helpers) = Offset(f, h)
    BY <1>4, <1>7
  <2>4. a.base # NoOffset => x.d = a.base + Offset(f, h)
    BY <1>4, <1>5
  <2> QED BY <2>2, <2>3, <2>4 DEF InPlace
<1>9. Accepts(t, x)
  <2>1. CASE f = "isa"
    <3>1. x.d = b
      BY <2>1, <1>1, <1>5, <1>7
    <3> QED BY <3>1, <2>1, <1>5, <1>6 DEF Accepts
  <2>2. CASE f = "forwarding"
    <3>1. t.base = b
      BY <2>2, <1>2, <1>4, <1>6
    <3> QED BY <3>1, <2>2, <1>5, <1>6 DEF Accepts
  <2>3. CASE f = "flags"
    BY <2>3, <1>5, <1>6 DEF Accepts
  <2>4. CASE f \in {"size", "keep", "dispose", "variable"}
    BY <2>4, <1>5, <1>6 DEF Accepts
  <2> QED BY <2>1, <2>2, <2>3, <2>4, <1>2 DEF FieldNames
<1>10. ASSUME p < L
       PROVE  n \in AutState(F) /\ WaitsFor(n, p + 1, b, h, s) /\ n.first = t.first
  <2>0. SUFFICES /\ n \in AutState(F) /\ n.first = t.first
                 /\ n.field = g /\ n.base = b
                 /\ (n.field = "size" => (n.flags = Copy <=> h))
                 /\ (p > 2 /\ n.field # "size" => n.helpers = h)
    BY DEF WaitsFor, g
  <2>1. CASE f = "isa"
    <3>1. n = [t EXCEPT !.field = "forwarding", !.base = x.d] /\ x.d = b
      BY <2>1, <1>1, <1>5, <1>6, <1>7 DEF Accept
    <3>2. n \in AutState(F) /\ n.first = t.first /\ n.field = "forwarding" /\ n.base = b
      BY <3>1 DEF AutState, FieldNames
    <3> QED BY <3>2, <2>1, <1>2, <1>3, <1>10
  <2>2. CASE f = "forwarding"
    <3>1. n = [t EXCEPT !.field = "flags"]
      BY <2>2, <1>6 DEF Accept
    <3>2. n \in AutState(F) /\ n.first = t.first /\ n.field = "flags" /\ n.base = t.base
      BY <3>1 DEF AutState, FieldNames
    <3> QED BY <3>2, <2>2, <1>2, <1>3, <1>4, <1>6, <1>10
  <2>3. CASE f = "flags" /\ s
    <3>1. n = [t EXCEPT !.field = "size", !.flags = x.v.val]
      BY <2>3, <1>5, <1>6 DEF Accept
    <3>2. n \in AutState(F) /\ n.first = t.first /\ n.field = "size" /\ n.base = t.base
      BY <3>1 DEF AutState, FieldNames
    <3>3. n.flags = x.v.val
      BY <3>1 DEF AutState
    <3> QED BY <3>2, <3>3, <2>3, <1>2, <1>3, <1>4, <1>5, <1>6, <1>10
  <2>4. CASE f = "flags" /\ ~s
    <3>1. n = AfterFlags(t, x.v.val)
      BY <2>4, <1>5, <1>6 DEF Accept
    <3>2. /\ n \in AutState(F) /\ n.first = t.first /\ n.base = t.base /\ (n.helpers <=> x.v.val = Copy)
          /\ n.field = IF x.v.val = Copy THEN "keep" ELSE "variable"
      BY <3>1, AfterFlagsState
    <3>3. n.helpers = h
      BY <3>2, <2>4, <1>5 DEF AutState
    <3> QED BY <3>2, <3>3, <2>4, <1>2, <1>3, <1>4, <1>5, <1>6, <1>10
  <2>5. CASE f = "size"
    <3>1. n = AfterFlags(t, t.flags)
      BY <2>5, <1>6 DEF Accept
    <3>0. t.flags \in F
      BY DEF AutState
    <3>2. /\ n \in AutState(F) /\ n.first = t.first /\ n.base = t.base /\ (n.helpers <=> t.flags = Copy)
          /\ n.field = IF t.flags = Copy THEN "keep" ELSE "variable"
      BY <3>0, <3>1, AfterFlagsState
    <3>3. n.helpers = h
      BY <3>2, <2>5, <1>4, <1>6 DEF AutState
    <3> QED BY <3>2, <3>3, <2>5, <1>2, <1>3, <1>4, <1>6, <1>10
  <2>6. CASE f \in {"keep", "dispose"}
    <3>1. n = [t EXCEPT !.field = IF f = "keep" THEN "dispose" ELSE "variable"]
      BY <2>6, <1>6 DEF Accept
    <3>2. n \in AutState(F) /\ n.first = t.first /\ n.base = t.base /\ n.helpers = t.helpers
      BY <3>1 DEF AutState, FieldNames
    <3>3. n.field = IF f = "keep" THEN "dispose" ELSE "variable"
      BY <3>1 DEF AutState
    <3> QED BY <3>2, <3>3, <2>6, <1>2, <1>3, <1>4, <1>6, <1>10
  <2> QED BY <2>1, <2>2, <2>3, <2>4, <2>5, <2>6, <1>2, <1>10 DEF FieldNames
<1> QED BY <1>8, <1>9, <1>10 DEF L

(* What the automaton accepts goes on with a layout, perhaps another one   *)
(* that begins in the same way.                                            *)
LEMMA AcceptedFits ==
    ASSUME NEW F, NEW a \in AutState(F), NEW t \in AutState(F), Same(a, t),
           NEW c \in Candidates, NEW h \in BOOLEAN, NEW s \in BOOLEAN, NEW p \in 1..LenOf(h, s),
           WaitsFor(a, p, c, h, s), NEW x, InPlace(a, x), Accepts(t, x)
    PROVE  \E b \in Candidates, j, k \in BOOLEAN :
               /\ p \in 1..LenOf(j, k) /\ WaitsFor(a, p, b, j, k) /\ FitsAt(x, p, b, j, k)
               /\ p > 1 => b = c
               /\ p > 3 => j = h /\ k = s
<1> DEFINE f == FieldAt(p, h, s)
<1>1. c \in Nat /\ Candidates \subseteq Nat
  BY ByrefAssumption
<1>2. /\ LenOf(h, s) \in 4..7 /\ f \in FieldNames
      /\ (f = "isa" <=> p = 1) /\ (f = "forwarding" <=> p = 2) /\ (f = "flags" <=> p = 3)
      /\ (f = "size" <=> (p = 4 /\ s)) /\ (f \in {"keep", "dispose"} => h /\ p > 3)
      /\ (f = "variable" <=> p = LenOf(h, s))
  BY FieldFacts DEF FieldNames
<1>3. /\ a.field = f /\ a.base = (IF p = 1 THEN NoOffset ELSE c)
      /\ (f = "size" => (a.flags = Copy <=> h)) /\ (p > 3 /\ f # "size" => a.helpers = h)
  BY DEF WaitsFor
<1>4. t.field = f /\ t.base = a.base
  BY <1>3 DEF Same
<1>5. NoOffset \notin Nat
  BY DEF NoOffset
<1>6. p > 1 => x.d = c + Offset(f, a.helpers)
  BY <1>1, <1>3, <1>5 DEF InPlace
<1>7. CASE p = 1
  <2>1. f = "isa"
    BY <1>2, <1>7
  <2>2. x.d \in Candidates /\ x.v = Num(8, Zero)
    BY <2>1, <1>4 DEF Accepts
  <2>3. x.d = x.d + 0
    <3>1. x.d \in Nat
      BY <2>2, <1>1
    <3> QED BY <3>1
  <2>4. FitsAt(x, p, x.d, h, s)
    BY <2>1, <2>2, <2>3 DEF FitsAt, Offset
  <2>5. WaitsFor(a, p, x.d, h, s)
    BY <1>7 DEF WaitsFor
  <2> QED BY <2>2, <2>4, <2>5, <1>7
<1>8. CASE p = 2
  <2>1. f = "forwarding"
    BY <1>2, <1>8
  <2>2. x.v = StackAddr(c)
    BY <2>1, <1>3, <1>4, <1>8 DEF Accepts
  <2>3. FitsAt(x, p, c, h, s)
    BY <2>1, <2>2, <1>6, <1>8 DEF FitsAt, Offset
  <2> QED BY <2>3, <1>8
<1>9. CASE p = 3
  <2> DEFINE j == x.v.val = Copy
             k == x.v.size = 4
  <2>1. f = "flags"
    BY <1>2, <1>9
  <2>2. IsNum(x.v) /\ x.v.size \in {4, 8} /\ x.d = c + 16
    <3>1. x.d = c + 16
      BY <2>1, <1>6, <1>9 DEF Offset
    <3> QED BY <2>1, <3>1, <1>4 DEF Accepts
  <2>3. j \in BOOLEAN /\ k \in BOOLEAN
    OBVIOUS
  <2>4. PICK jj \in BOOLEAN, kk \in BOOLEAN : (jj <=> j) /\ (kk <=> k)
    BY <2>3
  <2>5. p \in 1..LenOf(jj, kk) /\ FieldAt(p, jj, kk) = "flags"
    <3>1. LenOf(jj, kk) \in 4..7
      BY DEF LenOf
    <3>2. p \in 1..LenOf(jj, kk)
      BY <3>1, <1>9
    <3> QED BY <3>2, FieldFacts, <1>9
  <2>6. FitsAt(x, p, c, jj, kk)
    BY <2>2, <2>4, <2>5 DEF FitsAt, Offset
  <2>7. WaitsFor(a, p, c, jj, kk)
    BY <2>1, <2>5, <1>3, <1>9 DEF WaitsFor
  <2> QED BY <2>5, <2>6, <2>7, <1>9
<1>10. CASE p > 3
  <2>1. f \in {"size", "keep", "dispose", "variable"}
    BY <1>2, <1>10 DEF FieldNames
  <2>2. x.d = c + Offset(f, h)
    <3>1. Offset(f, a.helpers) = Offset(f, h)
      BY <1>2, <1>3, <1>10 DEF Offset
    <3> QED BY <3>1, <1>6, <1>10
  <2>3. (f = "size" => IsNum(x.v) /\ x.v.size = 4) /\ (f \in {"keep", "dispose"} => x.v = Global)
    BY <1>4 DEF Accepts
  <2>4. FitsAt(x, p, c, h, s)
    <3> HIDE DEF f
    <3> QED BY <2>1, <2>2, <2>3 DEF FitsAt, f
  <2> QED BY <2>4, <1>10
<1> QED BY <1>7, <1>8, <1>9, <1>10

----------------------------------------------------------------------------
(* What may be stored: noise, or a store of a struct.                      *)
Insns == Noise \cup UNION {{StoresOf(shape)[k] : k \in DOMAIN StoresOf(shape)} : shape \in Shapes}
Values == {i.v.val : i \in Insns} \cup {Zero}

(* The instructions i..j begin a layout that is not complete.              *)
Unfinished(c, i, j) ==
    /\ i <= j
    /\ \E b \in Candidates, h, s \in BOOLEAN : j - i + 1 < LenOf(h, s) /\ Begins(c, i, j, b, h, s)

Reading(c, a, b, h, s) ==
    /\ a.first \in 1..Len(c) /\ Len(c) - a.first + 1 < LenOf(h, s)
    /\ Begins(c, a.first, Len(c), b, h, s)
    /\ WaitsFor(a, Len(c) - a.first + 2, b, h, s)

(* A result that was reported by the last instruction is a layout.         *)
Reported(c, r) ==
    /\ r.last <= Len(c) /\ r.last \in Nat
    /\ r.last = Len(c) =>
         /\ r.base \in Candidates /\ r.helpers \in BOOLEAN /\ r.first \in 1..Len(c)
         /\ \E s \in BOOLEAN : /\ Len(c) - r.first + 1 = LenOf(r.helpers, s)
                               /\ Begins(c, r.first, Len(c), r.base, r.helpers, s)

(* A layout that began at i is being read, or reported if it is complete,  *)
(* unless the automaton was in the middle of another run then.             *)
Followed(c, a, rs, i, b, h, s) ==
    \/ \E k \in 1..(i - 1) : Unfinished(c, k, i - 1)
    \/ Len(c) - i + 1 < LenOf(h, s) /\ a.first = i /\ WaitsFor(a, Len(c) - i + 2, b, h, s)
    \/ Len(c) - i + 1 = LenOf(h, s) /\ \E r \in rs : r.first = i /\ r.last = Len(c)

BCore(c, a, rs) ==
    /\ c \in Seq(Insns)
    /\ a \in AutState(Values)
    /\ a # Fresh => \E b \in Candidates, h, s \in BOOLEAN : Reading(c, a, b, h, s)
    /\ \A r \in rs : Reported(c, r)
    /\ \A i \in 1..Len(c), b \in Candidates, h, s \in BOOLEAN :
         Begins(c, i, Len(c), b, h, s) => Followed(c, a, rs, i, b, h, s)

BInv ==
    /\ BCore(code, st, results)
    /\ pending \in Seq(Insns)
    /\ Len(code) <= MaxCode /\ noise \in 0..MaxNoise

LEMMA FreshState == Fresh \in AutState(Values) /\ Fresh.first = 0
                    /\ \A b \in Candidates, h, s \in BOOLEAN : WaitsFor(Fresh, 1, b, h, s)
  BY DEF Fresh, AutState, FieldNames, Values, WaitsFor, FieldAt

LEMMA StoresAreInsns == \A shape \in Shapes : StoresOf(shape) \in Seq(Insns)
<1> SUFFICES ASSUME NEW shape \in Shapes PROVE StoresOf(shape) \in Seq(Insns)
  OBVIOUS
<1>1. shape \in [base : Nat, helpers : BOOLEAN, split : BOOLEAN]
  BY ByrefAssumption
<1> DEFINE b == shape.base
           h == shape.helpers
           s == shape.split
<1>2. shape = [base |-> b, helpers |-> h, split |-> s] /\ b \in Nat /\ h \in BOOLEAN /\ s \in BOOLEAN
  BY <1>1
<1>3. StoresOf(shape) = Wanted(b, h, s)
  BY <1>2 DEF Wanted
<1> HIDE DEF b, h, s
<1>4. StoresOf(shape) \in Seq({Wanted(b, h, s)[p] : p \in 1..LenOf(h, s)}) /\ Len(Wanted(b, h, s)) = LenOf(h, s)
  BY <1>2, <1>3, WantedFits
<1>5. DOMAIN StoresOf(shape) = 1..LenOf(h, s)
  BY <1>3, <1>4
<1>6. \A k \in DOMAIN StoresOf(shape) : StoresOf(shape)[k] \in Insns
  BY DEF Insns
<1>7. \A k \in 1..LenOf(h, s) : StoresOf(shape)[k] \in Insns
  BY <1>5, <1>6
<1>8. Len(StoresOf(shape)) = LenOf(h, s)
  BY <1>3, <1>4
<1> QED BY <1>4, <1>7, <1>8

LEMMA BInvInit == BInit => BInv
<1> SUFFICES ASSUME BInit PROVE BInv
  OBVIOUS
<1>1. code = <<>> /\ pending = <<>> /\ st = Fresh /\ results = {} /\ noise = 0
  BY DEF BInit
<1>2. <<>> \in Seq(Insns) /\ Len(<<>>) = 0
  OBVIOUS
<1> QED BY <1>1, <1>2, FreshState, ByrefAssumption DEF BInv, BCore

(* One more instruction.                                                   *)
LEMMA BeginsAppend ==
    ASSUME NEW S, NEW c \in Seq(S), NEW x \in S, NEW b \in Candidates, NEW h \in BOOLEAN, NEW s \in BOOLEAN,
           NEW i \in 1..(Len(c) + 1)
    PROVE  /\ Begins(Append(c, x), i, Len(c) + 1, b, h, s)
                <=> /\ Begins(c, i, Len(c), b, h, s) /\ Len(c) - i + 2 <= LenOf(h, s)
                    /\ FitsAt(x, Len(c) - i + 2, b, h, s)
           /\ \A j \in 0..Len(c) : Begins(c, i, j, b, h, s) => Begins(Append(c, x), i, j, b, h, s)
<1> DEFINE n == Len(c)
           d == Append(c, x)
           m == n - i + 2
<1>1. n \in Nat /\ d[n + 1] = x /\ \A k \in 1..n : d[k] = c[k]
  OBVIOUS
<1>2. LenOf(h, s) \in Nat
  BY DEF LenOf
<1> HIDE DEF n, d
<1>3. i \in 1..(n + 1)
  BY DEF n
<1>4. m \in Nat /\ m >= 1 /\ i + m - 1 = n + 1 /\ (n + 1) - i + 1 = m /\ n - i + 1 = m - 1
  BY <1>1, <1>3
<1>5. \A p \in 1..(m - 1) : d[i + p - 1] = c[i + p - 1]
  BY <1>1, <1>3
<1> HIDE DEF m
<1>6. Begins(d, i, n + 1, b, h, s) <=> m <= LenOf(h, s) /\ \A p \in 1..m : FitsAt(d[i + p - 1], p, b, h, s)
  BY <1>4 DEF Begins
<1>7. Begins(c, i, n, b, h, s) <=> m - 1 <= LenOf(h, s) /\ \A p \in 1..(m - 1) : FitsAt(c[i + p - 1], p, b, h, s)
  BY <1>4 DEF Begins
<1>8. (\A p \in 1..m : FitsAt(d[i + p - 1], p, b, h, s))
        <=> (\A p \in 1..(m - 1) : FitsAt(c[i + p - 1], p, b, h, s)) /\ FitsAt(x, m, b, h, s)
  <2>1. \A p \in 1..m : p \in 1..(m - 1) \/ p = m
    BY <1>4
  <2>2. \A p \in 1..(m - 1) : p \in 1..m
    BY <1>4
  <2>3. m \in 1..m /\ d[i + m - 1] = x
    BY <1>4, <1>1
  <2> QED BY <2>1, <2>2, <2>3, <1>5
<1>9. Begins(d, i, n + 1, b, h, s)
        <=> Begins(c, i, n, b, h, s) /\ m <= LenOf(h, s) /\ FitsAt(x, m, b, h, s)
  BY <1>6, <1>7, <1>8, <1>4, <1>2
<1>10. ASSUME NEW j \in 0..n, Begins(c, i, j, b, h, s)
       PROVE  Begins(d, i, j, b, h, s)
  <2>1. \A p \in 1..(j - i + 1) : i + p - 1 \in 1..n
    BY <1>1, <1>3
  <2> QED BY <2>1, <1>1, <1>10 DEF Begins
<1> QED BY <1>9, <1>10 DEF n, d, m

LEMMA UnfinishedAppend ==
    ASSUME NEW S, NEW c \in Seq(S), NEW x \in S, NEW k \in Nat \ {0}, NEW j \in 0..Len(c), Unfinished(c, k, j)
    PROVE  Unfinished(Append(c, x), k, j)
<1>1. PICK b \in Candidates, h \in BOOLEAN, s \in BOOLEAN : j - k + 1 < LenOf(h, s) /\ Begins(c, k, j, b, h, s)
  BY DEF Unfinished
<1>2. k <= j /\ k \in 1..(Len(c) + 1)
  BY DEF Unfinished
<1>3. Begins(Append(c, x), k, j, b, h, s)
  BY <1>1, <1>2, BeginsAppend
<1> QED BY <1>1, <1>2, <1>3 DEF Unfinished

(* The first two stores do not tell what follows.                          *)
LEMMA EarlyFits ==
    ASSUME NEW i, NEW b, NEW h \in BOOLEAN, NEW s \in BOOLEAN, NEW j \in BOOLEAN, NEW k \in BOOLEAN,
           NEW q \in 1..2, FitsAt(i, q, b, h, s)
    PROVE  FitsAt(i, q, b, j, k)
<1>1. q = 1 \/ q = 2
  OBVIOUS
<1> QED BY <1>1 DEF FitsAt, FieldAt, Offset

LEMMA InstructionStep ==
    ASSUME NEW c, NEW a, NEW rs, BCore(c, a, rs), NEW x \in Insns, NEW d, NEW t, NEW a2, NEW rs2, NEW ok \in BOOLEAN,
           d = Append(c, x),
           t \in AutState(Values), Same(a, t), t.first = (IF a.first = 0 THEN Len(c) + 1 ELSE a.first),
           ok <=> InPlace(a, x) /\ Accepts(t, x),
           a2 = IF ok THEN Accept(t, x) ELSE Fresh,
           rs2 = IF ok /\ t.field = "variable"
                 THEN rs \cup {[first |-> t.first, last |-> Len(c) + 1, base |-> t.base,
                                helpers |-> t.helpers, size |-> x.v.size]}
                 ELSE rs
    PROVE  BCore(d, a2, rs2)
<1> DEFINE n == Len(c)
           r2 == [first |-> t.first, last |-> n + 1, base |-> t.base, helpers |-> t.helpers, size |-> x.v.size]
           p == n + 2 - t.first
<1>1. c \in Seq(Insns) /\ n \in Nat /\ d \in Seq(Insns) /\ Len(d) = n + 1
  BY DEF BCore
<1>2. a \in AutState(Values) /\ x.v.val \in Values
  BY DEF BCore, Values
<1>3. a # Fresh => \E b \in Candidates, h, s \in BOOLEAN : Reading(c, a, b, h, s)
  BY DEF BCore
<1>4. a.first \in 0..n /\ (a.first = 0 <=> a = Fresh)
  BY <1>1, <1>3, FreshState DEF Reading
<1>5. t \in AutState(Values) /\ Same(a, t) /\ t.first = (IF a = Fresh THEN n + 1 ELSE a.first)
  BY <1>4
<1> HIDE DEF n, r2
<1>6. p \in Nat /\ p >= 1 /\ t.first \in 1..(n + 1) /\ n - t.first + 2 = p /\ (n + 1) - t.first + 1 = p
  <2>1. t.first \in 1..(n + 1)
    <3>1. CASE a = Fresh
      BY <3>1, <1>1, <1>5
    <3>2. CASE a # Fresh
      BY <3>2, <1>1, <1>4, <1>5
    <3> QED BY <3>1, <3>2
  <2> QED BY <2>1, <1>1
<1> HIDE DEF p
(* What is read before x, with the layouts that are possible.              *)
<1>7. ASSUME NEW b \in Candidates, NEW h \in BOOLEAN, NEW s \in BOOLEAN, p \in 1..LenOf(h, s),
             WaitsFor(a, p, b, h, s), FitsAt(x, p, b, h, s)
      PROVE  /\ ok
             /\ p < LenOf(h, s) => /\ a2 \in AutState(Values) /\ WaitsFor(a2, p + 1, b, h, s)
                                   /\ a2.first = t.first /\ rs2 = rs
             /\ p = LenOf(h, s) => /\ a2 = Fresh /\ rs2 = rs \cup {r2}
                                   /\ t.base = b /\ t.helpers = h
  <2>1. ok
    BY <1>7, <1>2, <1>5, AcceptedNext
  <2>2. t.field = FieldAt(p, h, s) /\ (p = LenOf(h, s) <=> t.field = "variable") /\ LenOf(h, s) \in 4..7
    BY <1>7, <1>5, FieldFacts DEF WaitsFor, Same
  <2>3. ASSUME p < LenOf(h, s)
        PROVE  a2 \in AutState(Values) /\ WaitsFor(a2, p + 1, b, h, s) /\ a2.first = t.first /\ rs2 = rs
    <3>1. a2 = Accept(t, x) /\ rs2 = rs
      BY <2>1, <2>2, <2>3, <1>6
    <3>2. p < LenOf(h, s) => /\ Accept(t, x) \in AutState(Values)
                             /\ WaitsFor(Accept(t, x), p + 1, b, h, s)
                             /\ Accept(t, x).first = t.first
      <4>1. /\ a \in AutState(Values) /\ t \in AutState(Values) /\ Same(a, t) /\ x.v.val \in Values
            /\ p \in 1..LenOf(h, s) /\ WaitsFor(a, p, b, h, s) /\ FitsAt(x, p, b, h, s)
        BY <1>7, <1>2, <1>5
      <4>2. p < LenOf(h, s)
        BY <2>3
      <4>3. Accept(t, x) \in AutState(Values)
        BY <4>1, <4>2, AcceptedNext
      <4>4. WaitsFor(Accept(t, x), p + 1, b, h, s)
        BY <4>1, <4>2, AcceptedNext
      <4>5. Accept(t, x).first = t.first
        BY <4>1, <4>2, AcceptedNext
      <4> QED BY <4>3, <4>4, <4>5
    <3> QED BY <3>1, <3>2, <2>3
  <2>4. ASSUME p = LenOf(h, s)
        PROVE  a2 = Fresh /\ rs2 = rs \cup {r2} /\ t.base = b /\ t.helpers = h
    <3>1. t.field = "variable"
      BY <2>2, <2>4
    <3>2. a2 = Fresh
      BY <3>1, <2>1 DEF Accept
    <3>3. rs2 = rs \cup {r2}
      BY <3>1, <2>1 DEF r2, n
    <3>4. t.base = b /\ t.helpers = h
      BY <3>1, <2>2, <2>4, <1>7, <1>5 DEF WaitsFor, Same
    <3> QED BY <3>2, <3>3, <3>4
  <2> QED BY <2>1, <2>3, <2>4
<1>8. \A r \in rs : Reported(d, r)
  <2>1. \A r \in rs : r.last <= n /\ r.last \in Nat
    BY DEF BCore, Reported, n
  <2> QED BY <2>1, <1>1 DEF Reported
<1>9. ok => \E b \in Candidates, h, s \in BOOLEAN :
               /\ p \in 1..LenOf(h, s) /\ WaitsFor(a, p, b, h, s) /\ FitsAt(x, p, b, h, s)
               /\ Begins(c, t.first, n, b, h, s)
  <2> SUFFICES ASSUME ok PROVE \E b \in Candidates, h, s \in BOOLEAN :
               /\ p \in 1..LenOf(h, s) /\ WaitsFor(a, p, b, h, s) /\ FitsAt(x, p, b, h, s)
               /\ Begins(c, t.first, n, b, h, s)
    OBVIOUS
  <2>1. PICK b \in Candidates, h \in BOOLEAN, s \in BOOLEAN :
          p \in 1..LenOf(h, s) /\ WaitsFor(a, p, b, h, s) /\ Begins(c, t.first, n, b, h, s)
    <3>1. CASE a = Fresh
      <4>1. t.first = n + 1 /\ p = 1
        BY <3>1, <1>5, <1>1 DEF p
      <4>2. x.d \in Candidates
        BY <3>1, <1>5 DEF Accepts, Fresh, Same
      <4>3. PICK h \in BOOLEAN, s \in BOOLEAN : TRUE
        OBVIOUS
      <4>4. LenOf(h, s) \in 4..7
        BY DEF LenOf
      <4>5. WaitsFor(a, p, x.d, h, s)
        BY <3>1, <4>1, <4>2, FreshState
      <4>6. p \in 1..LenOf(h, s)
        BY <4>1, <4>4
      <4>7. Begins(c, t.first, n, x.d, h, s)
        <5>1. n - t.first + 1 = 0
          BY <1>1, <4>1
        <5> QED BY <5>1, <4>4 DEF Begins
      <4> QED BY <4>2, <4>5, <4>6, <4>7
    <3>2. CASE a # Fresh
      <4>1. PICK b \in Candidates, h \in BOOLEAN, s \in BOOLEAN : Reading(c, a, b, h, s)
        BY <3>2, <1>3
      <4>2. t.first = a.first
        BY <3>2, <1>5
      <4>3. n - t.first + 1 < LenOf(h, s) /\ Begins(c, t.first, n, b, h, s) /\ WaitsFor(a, n - t.first + 2, b, h, s)
        BY <4>1, <4>2 DEF Reading, n
      <4>4. LenOf(h, s) \in Nat
        BY DEF LenOf
      <4>5. p \in 1..LenOf(h, s)
        BY <4>3, <4>4, <1>6, <1>1
      <4> QED BY <4>3, <4>5, <1>6
    <3> QED BY <3>1, <3>2
  <2>2. PICK bb \in Candidates, j \in BOOLEAN, k \in BOOLEAN :
          /\ p \in 1..LenOf(j, k) /\ WaitsFor(a, p, bb, j, k) /\ FitsAt(x, p, bb, j, k)
          /\ p > 1 => bb = b
          /\ p > 3 => j = h /\ k = s
    BY <2>1, <1>2, <1>5, AcceptedFits
  <2>3. Begins(c, t.first, n, bb, j, k)
    <3>1. n - t.first + 1 = p - 1
      BY <1>6, <1>1
    <3>2. p - 1 <= LenOf(j, k)
      <4>1. LenOf(j, k) \in Nat
        BY DEF LenOf
      <4> QED BY <4>1, <2>2, <1>6
    <3>3. ASSUME NEW q \in 1..(p - 1)
          PROVE  FitsAt(c[t.first + q - 1], q, bb, j, k)
      <4>1. FitsAt(c[t.first + q - 1], q, b, h, s)
        <5>1. q \in 1..(n - t.first + 1)
          BY <3>1
        <5>2. Begins(c, t.first, n, b, h, s)
          BY <2>1
        <5> QED BY <5>1, <5>2 DEF Begins
      <4>2. bb = b
        BY <2>2, <1>6
      <4>3. CASE p > 3
        <5>1. j = h /\ k = s
          BY <4>3, <2>2
        <5> QED BY <4>1, <4>2, <5>1, Zenon
      <4>4. CASE p <= 3
        <5>1. q \in 1..2
          BY <4>4, <1>6
        <5>2. FitsAt(c[t.first + q - 1], q, b, j, k)
          <6> DEFINE y == c[t.first + q - 1]
          <6>1. FitsAt(y, q, b, h, s)
            BY <4>1
          <6> HIDE DEF y
          <6>2. FitsAt(y, q, b, j, k)
            BY <6>1, <5>1, EarlyFits
          <6> QED BY <6>2 DEF y
        <5> QED BY <5>2, <4>2, Zenon
      <4> QED BY <4>3, <4>4, <1>6
    <3> QED BY <3>1, <3>2, <3>3 DEF Begins
  <2> QED BY <2>2, <2>3
<1>10. /\ a2 \in AutState(Values)
       /\ a2 # Fresh => \E b \in Candidates, h, s \in BOOLEAN : Reading(d, a2, b, h, s)
       /\ \A r \in rs2 : Reported(d, r)
  <2>1. CASE ~ok
    BY <2>1, <1>8, FreshState
  <2>2. CASE ok
    <3>1. PICK b \in Candidates, h \in BOOLEAN, s \in BOOLEAN :
               /\ p \in 1..LenOf(h, s) /\ WaitsFor(a, p, b, h, s) /\ FitsAt(x, p, b, h, s)
               /\ Begins(c, t.first, n, b, h, s)
      BY <2>2, <1>9
    <3>2. Begins(d, t.first, n + 1, b, h, s)
      <4>1. p <= LenOf(h, s)
        BY <3>1
      <4> QED BY <3>1, <4>1, <1>1, <1>6, BeginsAppend DEF n
    <3>3. LenOf(h, s) \in Nat
      BY DEF LenOf
    <3>4. CASE p < LenOf(h, s)
      <4>1. a2 \in AutState(Values) /\ WaitsFor(a2, p + 1, b, h, s) /\ a2.first = t.first /\ rs2 = rs
        BY <3>1, <3>4, <1>7
      <4>2. (n + 1) - t.first + 2 = p + 1
        BY <1>6, <1>1
      <4>3. Reading(d, a2, b, h, s)
        BY <4>1, <4>2, <3>2, <3>4, <1>1, <1>6 DEF Reading
      <4> QED BY <4>1, <4>3, <1>8
    <3>5. CASE p = LenOf(h, s)
      <4>1. a2 = Fresh /\ rs2 = rs \cup {r2} /\ t.base = b /\ t.helpers = h
        BY <3>1, <3>5, <1>7
      <4>2. r2.first = t.first /\ r2.last = n + 1 /\ r2.base = b /\ r2.helpers = h
        BY <4>1 DEF r2
      <4>3. Reported(d, r2)
        BY <4>2, <3>2, <3>5, <1>1, <1>6 DEF Reported
      <4> QED BY <4>1, <4>3, <1>8, FreshState
    <3> QED BY <3>1, <3>3, <3>4, <3>5, <1>6
  <2> QED BY <2>1, <2>2
<1>11. ASSUME NEW i \in 1..(n + 1), NEW b \in Candidates, NEW h \in BOOLEAN, NEW s \in BOOLEAN,
              Begins(d, i, n + 1, b, h, s)
       PROVE  Followed(d, a2, rs2, i, b, h, s)
  <2>1. Begins(c, i, n, b, h, s) /\ n - i + 2 <= LenOf(h, s) /\ FitsAt(x, n - i + 2, b, h, s)
    BY <1>11, <1>1, BeginsAppend DEF n
  <2>2. LenOf(h, s) \in Nat
    BY DEF LenOf
  <2>3. ASSUME NEW k \in 1..(i - 1), Unfinished(c, k, i - 1)
        PROVE  Followed(d, a2, rs2, i, b, h, s)
    <3>1. i - 1 \in 0..n /\ k \in Nat \ {0}
      BY <1>1
    <3>2. Unfinished(d, k, i - 1)
      BY <2>3, <3>1, <1>1, UnfinishedAppend DEF n
    <3> QED BY <3>2 DEF Followed
  <2>4. ASSUME t.first = i, WaitsFor(a, p, b, h, s)
        PROVE  Followed(d, a2, rs2, i, b, h, s)
    <3>1. p = n - i + 2 /\ p = (n + 1) - i + 1 /\ (n + 1) - i + 2 = p + 1
      <4>1. n - i + 2 = p /\ (n + 1) - i + 1 = p
        BY <2>4, <1>6
      <4> QED BY <4>1, <1>1, <1>6
    <3>2. p \in 1..LenOf(h, s) /\ FitsAt(x, p, b, h, s)
      BY <3>1, <2>1, <2>2, <1>6
    <3>3. CASE p < LenOf(h, s)
      <4>1. WaitsFor(a2, p + 1, b, h, s) /\ a2.first = t.first
        BY <3>2, <3>3, <2>4, <1>7
      <4> QED BY <4>1, <3>1, <3>3, <2>4, <1>1 DEF Followed
    <3>4. CASE p = LenOf(h, s)
      <4>1. r2 \in rs2
        BY <3>2, <3>4, <2>4, <1>7
      <4>2. r2.first = i /\ r2.last = n + 1
        BY <2>4 DEF r2
      <4> QED BY <4>1, <4>2, <3>1, <3>4, <1>1 DEF Followed
    <3> QED BY <3>2, <3>3, <3>4, <2>2
  <2>5. CASE i = n + 1
    <3>1. CASE a = Fresh
      <4>1. t.first = i /\ p = 1
        BY <3>1, <2>5, <1>5, <1>1 DEF p
      <4> QED BY <4>1, <3>1, <2>4, FreshState
    <3>2. CASE a # Fresh
      <4>1. PICK bb \in Candidates, j \in BOOLEAN, k \in BOOLEAN : Reading(c, a, bb, j, k)
        BY <3>2, <1>3
      <4>2. a.first \in 1..n /\ i - 1 = n
        BY <4>1, <2>5, <1>1 DEF Reading, n
      <4>3. Unfinished(c, a.first, n)
        BY <4>1, <4>2 DEF Reading, Unfinished, n
      <4>4. a.first \in 1..(i - 1) /\ Unfinished(c, a.first, i - 1)
        BY <4>2, <4>3
      <4> QED BY <4>4, <2>3
    <3> QED BY <3>1, <3>2
  <2>6. CASE i \in 1..n
    <3>1. Followed(c, a, rs, i, b, h, s)
      BY <2>6, <2>1 DEF BCore, n
    <3>2. n - i + 1 # LenOf(h, s)
      BY <2>1, <2>2, <1>1
    <3>3. CASE \E k \in 1..(i - 1) : Unfinished(c, k, i - 1)
      BY <3>3, <2>3
    <3>4. CASE a.first = i /\ WaitsFor(a, n - i + 2, b, h, s)
      <4>1. t.first = i
        BY <3>4, <2>6, <1>4, <1>5
      <4>2. p = n - i + 2
        BY <4>1, <1>6
      <4> QED BY <4>1, <4>2, <3>4, <2>4
    <3> QED BY <3>1, <3>2, <3>3, <3>4 DEF Followed, n
  <2> QED BY <2>5, <2>6, <1>1
<1>12. \A i \in 1..Len(d), b \in Candidates, h, s \in BOOLEAN :
         Begins(d, i, Len(d), b, h, s) => Followed(d, a2, rs2, i, b, h, s)
  <2> SUFFICES ASSUME NEW i \in 1..Len(d), NEW b \in Candidates, NEW h \in BOOLEAN, NEW s \in BOOLEAN,
                      Begins(d, i, Len(d), b, h, s)
               PROVE  Followed(d, a2, rs2, i, b, h, s)
    OBVIOUS
  <2>1. i \in 1..(n + 1) /\ Begins(d, i, n + 1, b, h, s)
    BY <1>1
  <2> QED BY <2>1, <1>11
<1> QED BY <1>1, <1>10, <1>12 DEF BCore

(* With the first instruction of a struct its place is remembered.         *)
LEMMA Remembered ==
    ASSUME NEW F, NEW a \in AutState(F), NEW at \in Nat, NEW t,
           t = IF a.first = 0 THEN [a EXCEPT !.first = at] ELSE a
    PROVE  t \in AutState(F) /\ Same(a, t) /\ t.first = (IF a.first = 0 THEN at ELSE a.first)
<1>1. CASE a.first = 0
  <2>1. t = [a EXCEPT !.first = at]
    BY <1>1
  <2>2. t \in AutState(F) /\ t.first = at
    BY <2>1 DEF AutState
  <2>3. Same(a, t)
    BY <2>1 DEF AutState, Same
  <2> QED BY <2>2, <2>3, <1>1
<1>2. CASE a.first # 0
  BY <1>2 DEF Same
<1> QED BY <1>1, <1>2

LEMMA BInvInstruction ==
    ASSUME BInv, NEW x \in Insns, OnInstruction(x), Len(code) < MaxCode
    PROVE  BCore(code, st, results)' /\ Len(code') <= MaxCode
<1> DEFINE t == IF st.first = 0 THEN [st EXCEPT !.first = Len(code) + 1] ELSE st
           ok == InPlace(st, x) /\ Accepts(t, x)
<1>1. BCore(code, st, results) /\ Len(code) \in Nat /\ code \in Seq(Insns) /\ st \in AutState(Values)
  BY DEF BInv, BCore
<1>2. /\ code' = Append(code, x)
      /\ st' = IF ok THEN Accept(t, x) ELSE Fresh
      /\ results' = IF ok /\ t.field = "variable"
                    THEN results \cup {[first |-> t.first, last |-> Len(code) + 1, base |-> t.base,
                                        helpers |-> t.helpers, size |-> x.v.size]}
                    ELSE results
  BY DEF OnInstruction
<1>3. PICK oo \in BOOLEAN : oo <=> ok
  OBVIOUS
<1>4. Len(code) + 1 \in Nat
  BY <1>1
<1> HIDE DEF ok
<1>5. t \in AutState(Values) /\ Same(st, t) /\ t.first = (IF st.first = 0 THEN Len(code) + 1 ELSE st.first)
  BY <1>1, <1>4, Remembered
<1>6. oo <=> InPlace(st, x) /\ Accepts(t, x)
  BY <1>3 DEF ok
<1> HIDE DEF t
<1>7. /\ st' = IF oo THEN Accept(t, x) ELSE Fresh
      /\ results' = IF oo /\ t.field = "variable"
                    THEN results \cup {[first |-> t.first, last |-> Len(code) + 1, base |-> t.base,
                                        helpers |-> t.helpers, size |-> x.v.size]}
                    ELSE results
  BY <1>2, <1>3
<1>8. BCore(code', st', results')
  BY <1>1, <1>2, <1>5, <1>6, <1>7, InstructionStep
<1>9. Len(code') = Len(code) + 1
  BY <1>1, <1>2
<1> QED BY <1>8, <1>9, <1>1, ByrefAssumption

LEMMA BInvNext == BInv /\ [BNext]_bvars => BInv'
<1> SUFFICES ASSUME BInv, [BNext]_bvars PROVE BInv'
  OBVIOUS
<1>1. pending \in Seq(Insns) /\ noise \in 0..MaxNoise
  BY DEF BInv
<1>2. CASE StartStruct
  <2>1. PICK shape \in Shapes : pending' = StoresOf(shape)
    BY <1>2 DEF StartStruct
  <2>2. pending' \in Seq(Insns)
    BY <2>1, StoresAreInsns
  <2>3. UNCHANGED <<code, st, results, noise>>
    BY <1>2 DEF StartStruct
  <2> QED BY <2>2, <2>3 DEF BInv
<1>3. CASE EmitStore
  <2>1. pending # <<>> /\ Len(code) < MaxCode /\ OnInstruction(Head(pending)) /\ pending' = Tail(pending) /\ noise' = noise
    BY <1>3 DEF EmitStore
  <2>2. Head(pending) \in Insns /\ pending' \in Seq(Insns)
    BY <1>1, <2>1
  <2>3. BCore(code, st, results)' /\ Len(code') <= MaxCode
    BY <2>1, <2>2, BInvInstruction
  <2> QED BY <2>1, <2>2, <2>3, <1>1 DEF BInv
<1>4. CASE LeaveOutStore
  <2>1. pending # <<>> /\ noise < MaxNoise /\ pending' = Tail(pending) /\ noise' = noise + 1 /\ UNCHANGED <<code, st, results>>
    BY <1>4 DEF LeaveOutStore
  <2>2. pending' \in Seq(Insns) /\ noise' \in 0..MaxNoise
    BY <1>1, <2>1, ByrefAssumption
  <2> QED BY <2>1, <2>2 DEF BInv
<1>5. CASE EmitNoise
  <2>1. PICK i \in Noise : OnInstruction(i)
    BY <1>5 DEF EmitNoise
  <2>2. noise < MaxNoise /\ Len(code) < MaxCode /\ noise' = noise + 1 /\ pending' = pending
    BY <1>5 DEF EmitNoise
  <2>3. i \in Insns
    BY DEF Insns
  <2>4. BCore(code, st, results)' /\ Len(code') <= MaxCode
    BY <2>1, <2>2, <2>3, BInvInstruction
  <2>5. noise' \in 0..MaxNoise
    BY <1>1, <2>2, ByrefAssumption
  <2> QED BY <2>2, <2>4, <2>5, <1>1 DEF BInv
<1>6. CASE UNCHANGED bvars
  BY <1>6 DEF bvars, BInv
<1> QED BY <1>2, <1>3, <1>4, <1>5, <1>6 DEF BNext

LEMMA BInvariance == BSpec => []BInv
  BY BInvInit, BInvNext, PTL DEF BSpec

(* The instructions of a run of the code.                                  *)
LEMMA RunOf ==
    ASSUME NEW S, NEW c \in Seq(S), NEW i \in 1..Len(c), NEW j \in (i - 1)..Len(c)
    PROVE  /\ SubSeq(c, i, j) \in Seq(S) /\ Len(SubSeq(c, i, j)) = j - i + 1
           /\ \A p \in 1..(j - i + 1) : SubSeq(c, i, j)[p] = c[i + p - 1]
OBVIOUS

(* ScanForRefArg, for every set of candidates and every code: a struct is  *)
(* reported when, and only when, the last instructions lay it out at a     *)
(* candidate offset, unless an unfinished run stood right before it.       *)
THEOREM StructsRecovered == BSpec => []StructsAreRecovered
<1>1. ASSUME BInv PROVE StructsAreRecovered
  <2> DEFINE n == Len(code)
  <2>1. code \in Seq(Insns) /\ n \in Nat
    BY <1>1 DEF BInv, BCore
  <2> HIDE DEF n
  <2>2. \A i \in 1..n, j \in 0..n : (i - 1 <= j) =>
          /\ SubSeq(code, i, j) \in Seq(Insns) /\ Len(SubSeq(code, i, j)) = j - i + 1
          /\ \A p \in 1..(j - i + 1) : SubSeq(code, i, j)[p] = code[i + p - 1]
    <3> SUFFICES ASSUME NEW i \in 1..n, NEW j \in 0..n, i - 1 <= j
                 PROVE  /\ SubSeq(code, i, j) \in Seq(Insns) /\ Len(SubSeq(code, i, j)) = j - i + 1
                        /\ \A p \in 1..(j - i + 1) : SubSeq(code, i, j)[p] = code[i + p - 1]
      OBVIOUS
    <3>1. j \in (i - 1)..n
      BY <2>1
    <3> QED BY <3>1, <2>1, RunOf DEF n
  <2>3. ASSUME NEW r \in results, r.last = n
        PROVE  /\ r.base \in Candidates
               /\ IsLayout(SubSeq(code, r.first, n), r.base, r.helpers)
               /\ code[n].d = r.base + ByrefType(r.helpers)
    <3>1. Reported(code, r)
      BY <1>1 DEF BInv, BCore
    <3>2. r.base \in Candidates /\ r.helpers \in BOOLEAN /\ r.first \in 1..n
      BY <3>1, <2>3 DEF Reported, n
    <3>3. PICK s \in BOOLEAN : n - r.first + 1 = LenOf(r.helpers, s) /\ Begins(code, r.first, n, r.base, r.helpers, s)
      BY <3>1, <2>3 DEF Reported, n
    <3> DEFINE b == r.base
               h == r.helpers
               i == r.first
               run == SubSeq(code, i, n)
               L == LenOf(h, s)
    <3>4. b \in Nat /\ L \in 4..7 /\ n \in 1..n
      <4>1. LenOf(h, s) \in 4..7
        BY <3>2 DEF LenOf
      <4>2. n \in 1..n
        BY <3>2, <2>1
      <4> QED BY <4>1, <4>2, <3>2, ByrefAssumption
    <3>5. Len(run) = L /\ \A p \in 1..L : run[p] = code[i + p - 1]
      BY <3>2, <3>3, <3>4, <2>1, <2>2
    <3>6. \A p \in 1..L : FitsAt(code[i + p - 1], p, b, h, s)
      BY <3>3 DEF Begins
    <3> HIDE DEF run, L
    <3>7. \A p \in 1..L : FitsAt(run[p], p, b, h, s)
      BY <3>5, <3>6
    <3>8. IsLayout(run, b, h)
      BY <3>2, <3>4, <3>5, <3>7, LayoutFits DEF L
    <3>9. code[n].d = b + ByrefType(h)
      <4>1. L \in 1..L /\ i + L - 1 = n
        BY <3>2, <3>3, <3>4, <2>1 DEF L
      <4>2. FitsAt(code[n], L, b, h, s)
        BY <4>1, <3>6
      <4>3. FieldAt(L, h, s) = "variable"
        BY <4>1, <3>2, FieldFacts DEF L
      <4>4. code[n].d = b + Offset("variable", h)
        BY <4>2, <4>3 DEF FitsAt
      <4>5. Offset("variable", h) = ByrefType(h)
        BY <3>2 DEF Offset, ByrefType
      <4> QED BY <4>4, <4>5
    <3> QED BY <3>2, <3>8, <3>9 DEF run
  <2>4. ASSUME NEW i \in 1..(n - 1), NEW b \in Candidates, NEW h \in BOOLEAN, IsLayout(SubSeq(code, i, n), b, h)
        PROVE  \/ \E r \in results : r.first = i /\ r.last = n
               \/ \E k \in 1..(i - 1) : IsUnfinished(SubSeq(code, k, i - 1))
    <3>1. b \in Nat /\ i \in 1..n /\ n \in 0..n /\ i - 1 <= n
      BY <2>1, ByrefAssumption
    <3>2. PICK s \in BOOLEAN : /\ Len(SubSeq(code, i, n)) = LenOf(h, s)
                               /\ \A p \in 1..LenOf(h, s) : FitsAt(SubSeq(code, i, n)[p], p, b, h, s)
      BY <3>1, <2>4, LayoutFits
    <3>3. n - i + 1 = LenOf(h, s) /\ LenOf(h, s) \in 4..7
      <4>1. LenOf(h, s) \in 4..7
        BY DEF LenOf
      <4> QED BY <4>1, <3>1, <3>2, <2>2
    <3>4. Begins(code, i, n, b, h, s)
      <4>1. \A p \in 1..(n - i + 1) : SubSeq(code, i, n)[p] = code[i + p - 1]
        BY <3>1, <2>2
      <4>2. \A p \in 1..(n - i + 1) : FitsAt(code[i + p - 1], p, b, h, s)
        <5>1. \A p \in 1..(n - i + 1) : FitsAt(SubSeq(code, i, n)[p], p, b, h, s)
          BY <3>2, <3>3
        <5> QED BY <5>1, <4>1
      <4> QED BY <4>2, <3>3 DEF Begins
    <3>5. Followed(code, st, results, i, b, h, s)
      BY <1>1, <3>1, <3>4 DEF BInv, BCore, n
    <3>6. ASSUME NEW k \in 1..(i - 1), Unfinished(code, k, i - 1)
          PROVE  IsUnfinished(SubSeq(code, k, i - 1))
      <4>1. PICK bb \in Candidates, j \in BOOLEAN, q \in BOOLEAN :
              (i - 1) - k + 1 < LenOf(j, q) /\ Begins(code, k, i - 1, bb, j, q)
        BY <3>6 DEF Unfinished
      <4> DEFINE run == SubSeq(code, k, i - 1)
                 m == (i - 1) - k + 1
      <4>2. run \in Seq(Insns) /\ Len(run) = m /\ \A p \in 1..m : run[p] = code[k + p - 1]
        <5>1. k \in 1..n /\ i - 1 \in 0..n /\ k - 1 <= i - 1
          BY <2>1
        <5> QED BY <5>1, <2>2
      <4>3. \A p \in 1..m : FitsAt(code[k + p - 1], p, bb, j, q)
        BY <4>1 DEF Begins
      <4>4. m >= 1
        BY <2>1
      <4> HIDE DEF m, run
      <4>5. run # <<>>
        BY <4>2, <4>4
      <4>6. \A p \in 1..Len(run) : FitsAt(run[p], p, bb, j, q)
        BY <4>2, <4>3
      <4>7. Len(run) < LenOf(j, q)
        BY <4>1, <4>2 DEF m
      <4> QED BY <4>2, <4>5, <4>6, <4>7, BeginsUnfinished DEF run
    <3> QED BY <3>3, <3>5, <3>6 DEF Followed, n
  <2> QED BY <2>3, <2>4 DEF StructsAreRecovered, n
<1> QED BY <1>1, BInvariance, PTL

(* The automaton's fields are what its states say.                         *)
THEOREM ByrefTypes == BSpec => []ByrefTypeOK
<1>1. ASSUME BInv PROVE ByrefTypeOK
  <2>1. st \in AutState(Values) /\ Len(code) <= MaxCode /\ noise <= MaxNoise /\ Len(code) \in Nat
    BY <1>1, ByrefAssumption DEF BInv, BCore
  <2>2. CASE st = Fresh
    BY <2>1, <2>2, ByrefAssumption DEF ByrefTypeOK, AutState, FieldNames, Fresh
  <2>3. CASE st # Fresh
    <3>1. PICK b \in Candidates, h \in BOOLEAN, s \in BOOLEAN : Reading(code, st, b, h, s)
      BY <1>1, <2>3 DEF BInv, BCore
    <3>2. st.first \in 1..Len(code) /\ Len(code) - st.first + 1 < LenOf(h, s) /\ WaitsFor(st, Len(code) - st.first + 2, b, h, s)
      BY <3>1 DEF Reading
    <3> DEFINE p == Len(code) - st.first + 2
    <3>3. p \in 1..LenOf(h, s) /\ p # 1
      <4>1. LenOf(h, s) \in Nat
        BY DEF LenOf
      <4> QED BY <4>1, <3>2, <2>1
    <3>4. st.base = b /\ st.field = FieldAt(p, h, s)
      BY <3>2, <3>3 DEF WaitsFor
    <3> HIDE DEF p
    <3>5. st.field # "isa" /\ b # NoOffset
      BY <3>3, <3>4, FieldFacts, ByrefAssumption DEF NoOffset
    <3>6. st.first \in 0..MaxCode /\ st.base \in Candidates \cup {NoOffset}
      BY <3>2, <3>4, <2>1, ByrefAssumption
    <3>7. st.field \in FieldNames
      BY <2>1 DEF AutState
    <3> QED BY <3>4, <3>5, <3>6, <3>7, <2>1 DEF ByrefTypeOK, FieldNames
  <2> QED BY <2>2, <2>3
<1> QED BY <1>1, BInvariance, PTL

----------------------------------------------------------------------------
(* Block initialisers (BlockInit).  A variable's statements are as they    *)
(* were, or all of them are collapsed; and collapsing one variable leaves  *)
(* the statements of the others alone.                                     *)

\* Every statement of v is as it was; every one is as a collapse leaves it.
Untouched(v, b) == \A k \in DOMAIN source : source[k].var = v => b[k] = source[k]
Collapsed(v, b) ==
    /\ IsCompleted(v, source)
    /\ \A k \in DOMAIN source : source[k].var = v => b[k] = Collapse(v, source)[k]

Apart(b) ==
    /\ b = [k \in DOMAIN source |-> b[k]]
    /\ \A v \in StructVars : Untouched(v, b) \/ Collapsed(v, b)

\* What the decompiler writes.
Written(s) == /\ s.op \in {"assign", "wide", "use"} /\ s.var \in StructVars
              /\ s.op = "use" => s = Use(s.var)
              /\ s.op = "wide" => s = Wide(s.var, s.val)

LEMMA StatementsWritten == ASSUME NEW s \in Statement PROVE Written(s)
<1>1. CASE s \in [op : {"assign"}, var : StructVars, field : STRING, val : Int]
  BY <1>1 DEF Written
<1>2. CASE s \in [op : {"wide"}, var : StructVars, field : {"flags"}, val : Int]
  <2>1. s.op = "wide" /\ s.var \in StructVars /\ s.field = "flags"
    BY <1>2
  <2>2. s = [op |-> s.op, var |-> s.var, field |-> s.field, val |-> s.val]
    BY <1>2
  <2> QED BY <2>1, <2>2 DEF Written, Wide
<1>3. CASE s \in {Use(v) : v \in StructVars}
  <2>1. PICK v \in StructVars : s = Use(v)
    BY <1>3
  <2>2. Use(v).op = "use" /\ Use(v).var = v
    BY DEF Use
  <2> QED BY <2>1, <2>2 DEF Written
<1> QED BY <1>1, <1>2, <1>3 DEF Statement

SourceOK == source \in Seq(Statement) /\ "none" \notin StructVars

LEMMA SourceWritten == SourceOK => \A k \in DOMAIN source : Written(source[k])
<1>1. SourceOK => \A k \in DOMAIN source : source[k] \in Statement
  BY DEF SourceOK
<1> QED BY <1>1, StatementsWritten

(* What becomes of one statement.                                          *)
LEMMA CollapseAt ==
    ASSUME NEW v, NEW b, IsCompleted(v, b), NEW k \in DOMAIN b
    PROVE  Collapse(v, b)[k] =
             IF k \notin Where(v, b) THEN b[k]
             ELSE IF k = Least(Where(v, b)) THEN InitCall(v, InitArgs(Fields(v, b))) ELSE Empty
BY DEF Collapse

(* A statement stays one of its variable, or becomes empty.                *)
LEMMA OwnVariable ==
    ASSUME SourceOK, NEW b, Apart(b), NEW k \in DOMAIN source
    PROVE  b[k].var = source[k].var \/ b[k].var = "none"
<1> DEFINE v == source[k].var
<1>1. v \in StructVars
  BY SourceWritten DEF Written
<1>2. CASE Untouched(v, b)
  BY <1>2 DEF Untouched
<1>3. CASE Collapsed(v, b)
  <2>1. b[k] = Collapse(v, source)[k] /\ IsCompleted(v, source)
    BY <1>3 DEF Collapsed
  <2>2. b[k] = source[k] \/ b[k] = InitCall(v, InitArgs(Fields(v, source))) \/ b[k] = Empty
    BY <2>1, CollapseAt
  <2>3. \A x : InitCall(v, x).var = v
    BY DEF InitCall
  <2>4. Empty.var = "none"
    BY DEF Empty
  <2> HIDE DEF v
  <2>5. b[k].var = v \/ b[k].var = "none" \/ b[k] = source[k]
    BY <2>2, <2>3, <2>4
  <2> QED BY <2>5 DEF v
<1> QED BY <1>1, <1>2, <1>3 DEF Apart

LEMMA WhereUntouched ==
    ASSUME SourceOK, NEW b, Apart(b), NEW v \in StructVars, Untouched(v, b)
    PROVE  /\ Where(v, b) = Where(v, source)
           /\ Fields(v, b) = Fields(v, source)
           /\ \A k \in Where(v, b) : b[k] = source[k]
<1>1. DOMAIN b = DOMAIN source
  BY DEF Apart
<1>2. \A k \in DOMAIN source : b[k].var = v => source[k].var = v
  BY OwnVariable DEF SourceOK
<1>3. \A k \in DOMAIN source : source[k].var = v => b[k] = source[k]
  BY DEF Untouched
<1>4. \A k \in DOMAIN source : Taken(v, b[k]) <=> Taken(v, source[k])
  BY <1>2, <1>3 DEF Taken
<1>5. Where(v, b) = Where(v, source)
  BY <1>1, <1>4 DEF Where
<1>6. \A k \in Where(v, b) : b[k] = source[k]
  BY <1>1, <1>2, <1>3 DEF Where, Taken
<1>7. Fields(v, b) = Fields(v, source)
  <2> DEFINE At(f, c) == {k \in Where(v, c) : f \in Sets(v, c[k])}
  <2>1. \A f : At(f, b) = At(f, source)
    BY <1>5, <1>6
  <2>2. \A f : At(f, source) \subseteq Where(v, source)
    OBVIOUS
  <2>3. Fields(v, b) = [f \in {g \in BaseFields(v) : At(g, b) # {}} |-> b[Greatest(At(f, b))].val]
    BY DEF Fields
  <2>4. Fields(v, source) = [f \in {g \in BaseFields(v) : At(g, source) # {}} |-> source[Greatest(At(f, source))].val]
    BY DEF Fields
  <2>5. \A f : At(f, source) # {} => Greatest(At(f, source)) \in At(f, source)
    <3> TAKE f
    <3>1. SUFFICES ASSUME At(f, source) # {} PROVE Greatest(At(f, source)) \in At(f, source)
      OBVIOUS
    <3>0. Len(source) \in Nat /\ DOMAIN source = 1..Len(source)
      BY DEF SourceOK
    <3>2. At(f, source) \in SUBSET (0..Len(source)) /\ Len(source) \in Nat
      BY <3>0 DEF Where
    <3> HIDE DEF At
    <3>3. \E x \in At(f, source) : \A y \in At(f, source) : x >= y
      BY <3>1, <3>2, GreatestElement
    <3>4. \E x \in At(f, source) : \A y \in At(f, source) : y <= x
      BY <3>3
    <3> QED BY <3>4 DEF Greatest
  <2> HIDE DEF At
  <2>6. \A f : At(f, source) # {} => b[Greatest(At(f, b))].val = source[Greatest(At(f, source))].val
    BY <1>5, <1>6, <2>1, <2>2, <2>5
  <2> QED BY <2>1, <2>3, <2>4, <2>6
<1> QED BY <1>5, <1>6, <1>7

LEMMA WhereCollapsed ==
    ASSUME SourceOK, NEW b, Apart(b), NEW v \in StructVars, Collapsed(v, b)
    PROVE  Where(v, b) = {} /\ ~IsCompleted(v, b)
<1>1. ASSUME NEW k \in DOMAIN b, Taken(v, b[k]) PROVE FALSE
  <2>1. k \in DOMAIN source /\ b[k].var = v /\ b[k].op \in {"assign", "wide"}
    BY <1>1 DEF Apart, Taken
  <2>2. source[k].var = v
    BY <2>1, OwnVariable DEF SourceOK
  <2>3. b[k] = Collapse(v, source)[k] /\ IsCompleted(v, source)
    BY <2>1, <2>2 DEF Collapsed
  <2>4. CASE k \notin Where(v, source)
    <3>1. b[k] = source[k]
      BY <2>1, <2>3, <2>4, CollapseAt
    <3> QED BY <1>1, <2>1, <2>4, <3>1 DEF Where
  <2>5. CASE k \in Where(v, source)
    <3>1. b[k] = InitCall(v, InitArgs(Fields(v, source))) \/ b[k] = Empty
      BY <2>1, <2>3, <2>5, CollapseAt
    <3>2. \A x : InitCall(v, x).op = "init"
      BY DEF InitCall
    <3>3. Empty.op = "empty"
      BY DEF Empty
    <3> QED BY <2>1, <3>1, <3>2, <3>3
  <2> QED BY <2>4, <2>5
<1>2. Where(v, b) = {}
  BY <1>1 DEF Where
<1>3. "isa" \notin DOMAIN Fields(v, b)
  <2>1. \A f : {k \in Where(v, b) : f \in Sets(v, b[k])} = {}
    BY <1>2
  <2> QED BY <2>1 DEF Fields
<1>4. "isa" \in Required(v)
  BY DEF Required
<1> QED BY <1>2, <1>3, <1>4 DEF IsCompleted

LEMMA CollapseApart ==
    ASSUME SourceOK, NEW b, Apart(b), NEW v \in StructVars
    PROVE  Apart(Collapse(v, b))
<1> DEFINE c == Collapse(v, b)
<1>1. CASE ~IsCompleted(v, b)
  BY <1>1 DEF Collapse
<1>2. CASE IsCompleted(v, b)
  <2>1. Untouched(v, b)
    BY <1>2, WhereCollapsed DEF Apart
  <2>2. /\ Where(v, b) = Where(v, source)
        /\ Fields(v, b) = Fields(v, source)
        /\ \A k \in Where(v, b) : b[k] = source[k]
    BY <2>1, WhereUntouched
  <2>3. DOMAIN b = DOMAIN source
    BY DEF Apart
  <2>4. c = [k \in DOMAIN source |-> c[k]]
    BY <1>2, <2>3 DEF Collapse
  <2>5. IsCompleted(v, source)
    BY <1>2, <2>2 DEF IsCompleted
  <2>6. \A k \in DOMAIN source : c[k] =
             IF k \notin Where(v, source) THEN b[k]
             ELSE IF k = Least(Where(v, source)) THEN InitCall(v, InitArgs(Fields(v, source))) ELSE Empty
    BY <1>2, <2>2, <2>3, CollapseAt
  <2> HIDE DEF c
  <2>7. Collapsed(v, c)
    <3>1. ASSUME NEW k \in DOMAIN source, source[k].var = v PROVE c[k] = Collapse(v, source)[k]
      <4>1. b[k] = source[k]
        BY <2>1, <3>1 DEF Untouched
      <4> QED BY <2>5, <2>6, <4>1, CollapseAt
    <3> QED BY <2>5, <3>1 DEF Collapsed
  <2>8. ASSUME NEW w \in StructVars, w # v PROVE Untouched(w, c) \/ Collapsed(w, c)
    <3>1. ASSUME NEW k \in DOMAIN source, source[k].var = w PROVE c[k] = b[k]
      <4>1. k \notin Where(v, source)
        BY <2>8, <3>1 DEF Where, Taken
      <4> QED BY <2>6, <4>1
    <3> QED BY <3>1 DEF Apart, Untouched, Collapsed
  <2> QED BY <2>4, <2>7, <2>8 DEF Apart, c
<1> QED BY <1>1, <1>2

LEMMA OptimizeApart ==
    ASSUME SourceOK, BlockAssumption, NEW b, Apart(b)
    PROVE  Apart(OptimizeBlocks(b))
<1> DEFINE order == Listed(BlockVars) \o Listed(ByrefVars)
           n == Len(order)
           c0 == b
           Next1(x, i) == CHOOSE r \in {Collapse(order[i], acc) : acc \in {x}} : TRUE
           E(f) == [i \in 0..n |->
                      IF i = 0 THEN c0
                      ELSE CHOOSE r \in {Collapse(order[i], acc) : acc \in {f[i - 1]}} : TRUE]
           F == CHOOSE f : f = E(f)
           P(g, k) == /\ g = [i \in 0..k |-> g[i]] /\ g[0] = c0
                      /\ \A i \in 1..k : g[i] = Next1(g[i - 1], i)
<1>0. ASSUME NEW S \in {BlockVars, ByrefVars}
      PROVE  Listed(S) \in Seq(StructVars)
  <2>1. IsFiniteSet(S) /\ S \subseteq StructVars
    BY DEF BlockAssumption, StructVars
  <2>2. Cardinality(S) \in Nat /\ ExistsBijection(1..Cardinality(S), S)
    BY <2>1, FS_CardinalityType
  <2>3. PICK s \in Bijection(1..Cardinality(S), S) : TRUE
    BY <2>2 DEF ExistsBijection
  <2>4. s \in [1..Cardinality(S) -> S] /\ \A x \in S : \E i \in 1..Cardinality(S) : s[i] = x
    BY <2>3 DEF Bijection, Surjection
  <2>5. {s[i] : i \in DOMAIN s} = S
    BY <2>4
  <2>6. Listed(S) \in [1..Cardinality(S) -> S]
    BY <2>4, <2>5 DEF Listed
  <2> QED BY <2>1, <2>2, <2>6
<1>01. order \in Seq(StructVars)
  BY <1>0
<1>1. n \in Nat
  <2> HIDE DEF order
  <2> QED BY <1>01
<1>2. OptimizeBlocks(b) = F[n]
  BY DEF OptimizeBlocks
<1>3. \A f : \A i \in 0..n : E(f)[i] = IF i = 0 THEN c0 ELSE Next1(f[i - 1], i)
  OBVIOUS
<1>4. \A f : E(f) = [i \in 0..n |-> E(f)[i]]
  OBVIOUS
<1>5. \A x, i : Next1(x, i) = Collapse(order[i], x)
  OBVIOUS
<1>6. \A i \in 1..n : order[i] \in StructVars
  <2> HIDE DEF order
  <2> QED BY <1>01
<1> HIDE DEF n, E, Next1, c0, order
<1> DEFINE ex == {k \in 0..n : \E g : P(g, k)}
<1>7. 0 \in ex
  <2> DEFINE g == [i \in 0..0 |-> c0]
  <2>1. g = [i \in 0..0 |-> g[i]] /\ g[0] = c0 /\ 0 \in 0..n
    BY <1>1
  <2> HIDE DEF g
  <2>2. P(g, 0)
    BY <2>1
  <2> QED BY <2>1, <2>2
<1>8. ASSUME NEW k \in 1..n, k - 1 \in ex PROVE k \in ex
  <2>1. PICK g : P(g, k - 1)
    BY <1>8
  <2> DEFINE h == [i \in 0..k |-> IF i = k THEN Next1(g[k - 1], k) ELSE g[i]]
  <2>2. h = [i \in 0..k |-> h[i]]
    OBVIOUS
  <2>3. \A i \in 0..(k - 1) : h[i] = g[i]
    BY <1>1
  <2>4. h[k] = Next1(g[k - 1], k)
    BY <1>1
  <2> HIDE DEF h
  <2>5. h[0] = c0
    BY <1>1, <2>1, <2>3
  <2>6. ASSUME NEW i \in 1..k PROVE h[i] = Next1(h[i - 1], i)
    <3>1. i - 1 \in 0..(k - 1)
      BY <1>1
    <3>2. CASE i = k
      BY <2>3, <2>4, <3>1, <3>2
    <3>3. CASE i # k
      <4>1. i \in 1..(k - 1) /\ i \in 0..(k - 1)
        BY <1>1, <3>3
      <4> QED BY <2>1, <2>3, <3>1, <4>1
    <3> QED BY <3>2, <3>3
  <2>7. P(h, k)
    BY <2>2, <2>5, <2>6
  <2>8. k \in 0..n
    BY <1>1
  <2> HIDE DEF P
  <2> QED BY <2>7, <2>8
<1>9. \E g : P(g, n)
  <2> HIDE DEF ex
  <2>1. 0..n \subseteq ex
    BY <1>1, <1>7, <1>8, IntervalInduction
  <2>2. n \in 0..n
    BY <1>1
  <2> QED BY <2>1, <2>2 DEF ex
<1>10. PICK h : P(h, n)
  BY <1>9
<1>11. h = E(h)
  <2>1. \A i \in 0..n : h[i] = E(h)[i]
    <3>1. \A i \in 0..n : i = 0 \/ i \in 1..n
      BY <1>1
    <3> QED BY <1>3, <1>10, <3>1
  <2>2. [i \in 0..n |-> h[i]] = [i \in 0..n |-> E(h)[i]]
    BY <2>1
  <2> QED BY <1>4, <1>10, <2>2
<1>12. F = E(F)
  BY <1>11
<1> HIDE DEF F
<1>13. F[0] = c0
  BY <1>1, <1>3, <1>12
<1>14. ASSUME NEW i \in 1..n PROVE F[i] = Next1(F[i - 1], i)
  <2>1. i \in 0..n /\ i # 0
    BY <1>1
  <2> QED BY <1>3, <1>12, <2>1
<1> DEFINE ok == {i \in 0..n : Apart(F[i])}
<1>15. 0 \in ok
  BY <1>1, <1>13 DEF c0
<1>16. ASSUME NEW i \in 1..n, i - 1 \in ok PROVE i \in ok
  <2>1. Apart(F[i - 1])
    BY <1>16
  <2>2. F[i] = Collapse(order[i], F[i - 1]) /\ order[i] \in StructVars
    BY <1>5, <1>6, <1>14
  <2>3. Apart(F[i])
    BY <2>1, <2>2, CollapseApart
  <2>4. i \in 0..n
    BY <1>1
  <2> QED BY <2>3, <2>4
<1> HIDE DEF ok
<1>17. n \in ok
  <2>1. 0..n \subseteq ok
    BY <1>1, <1>15, <1>16, IntervalInduction
  <2> QED BY <1>1, <2>1
<1> QED BY <1>2, <1>17 DEF ok

----------------------------------------------------------------------------
\* Both helpers of a __block variable are set, or none: the call shows all
\* the fields then.
Paired == \A v \in ByrefVars : Helped(v, "keep", source) => Helped(v, "dispose", source)

CInv ==
    /\ SourceOK /\ Paired /\ Apart(body)
    /\ maturity \in Nat /\ (maturity = 0 => body = source)

(* The decompiled function, and every collapse of one variable.            *)
LEMMA ApartSelf == ASSUME SourceOK PROVE Apart(source)
<1>1. source = [k \in DOMAIN source |-> source[k]]
  BY DEF SourceOK
<1> QED BY <1>1 DEF Apart, Untouched

LEMMA CInvEmit == BlockAssumption /\ CInv /\ EmitRun => CInv'
<1> SUFFICES ASSUME BlockAssumption, CInv, EmitRun PROVE CInv'
  OBVIOUS
<1>1. PICK r \in Runs : source' = source \o r /\ body' = body \o r
  BY DEF EmitRun
<1>2. body' = source' /\ maturity' = maturity
  BY <1>1 DEF EmitRun, CInv
<1>3. r \in Seq(Statement) /\ source \in Seq(Statement)
  BY DEF BlockAssumption, CInv, SourceOK
<1>4. SourceOK'
  BY <1>1, <1>3 DEF BlockAssumption, SourceOK
<1>5. Apart(body)'
  <2>1. source' = [k \in DOMAIN source' |-> source'[k]]
    BY <1>4 DEF SourceOK
  <2> QED BY <1>2, <2>1 DEF Apart, Untouched
<1>6. Paired'
  <2> SUFFICES ASSUME NEW v \in ByrefVars, Helped(v, "keep", source') PROVE Helped(v, "dispose", source')
    BY DEF Paired
  <2>1. /\ Len(source) \in Nat /\ Len(r) \in Nat
        /\ DOMAIN source = 1..Len(source) /\ DOMAIN r = 1..Len(r)
        /\ DOMAIN source' = 1..(Len(source) + Len(r))
        /\ \A k \in 1..Len(source) : source'[k] = source[k]
        /\ \A k \in 1..Len(r) : source'[Len(source) + k] = r[k]
    BY <1>1, <1>3
  <2>2. PICK k \in DOMAIN source' : source'[k].op = "assign" /\ source'[k].var = v /\ source'[k].field = "keep"
    BY DEF Helped
  <2>3. CASE k <= Len(source)
    <3>1. k \in DOMAIN source
      BY <2>1, <2>3
    <3>2. Helped(v, "keep", source)
      BY <2>1, <2>2, <3>1 DEF Helped
    <3>3. PICK j \in DOMAIN source : source[j].op = "assign" /\ source[j].var = v /\ source[j].field = "dispose"
      BY <3>2 DEF CInv, Paired, Helped
    <3>4. j \in DOMAIN source' /\ source'[j] = source[j]
      BY <2>1
    <3> QED BY <3>3, <3>4 DEF Helped
  <2>4. CASE k > Len(source)
    <3>1. k - Len(source) \in DOMAIN r /\ source'[k] = r[k - Len(source)]
      BY <2>1, <2>4
    <3>2. Helped(v, "keep", r)
      BY <2>2, <3>1 DEF Helped
    <3>3. PICK j \in DOMAIN r : r[j].op = "assign" /\ r[j].var = v /\ r[j].field = "dispose"
      BY <3>2 DEF BlockAssumption, Helped
    <3>4. Len(source) + j \in DOMAIN source' /\ source'[Len(source) + j] = r[j]
      BY <2>1
    <3> QED BY <3>3, <3>4 DEF Helped
  <2> QED BY <2>1, <2>3, <2>4
<1> QED BY <1>2, <1>4, <1>5, <1>6 DEF CInv

LEMMA CInvMature == BlockAssumption /\ CInv /\ Mature => CInv'
<1> SUFFICES ASSUME BlockAssumption, CInv, Mature PROVE CInv'
  OBVIOUS
<1>1. source' = source /\ maturity' = maturity + 1 /\ maturity \in Nat
  BY DEF Mature, CInv
<1>2. Apart(body')
  <2>1. body' = body \/ body' = OptimizeBlocks(body)
    BY DEF Mature
  <2>2. Apart(OptimizeBlocks(body))
    BY OptimizeApart DEF CInv
  <2> QED BY <2>1, <2>2 DEF CInv
<1>3. maturity' \in Nat /\ maturity' # 0
  BY <1>1
<1>4. Apart(body)'
  BY <1>1, <1>2 DEF Apart, Untouched, Collapsed
<1> QED BY <1>1, <1>3, <1>4 DEF CInv, SourceOK, Paired


LEMMA CInvInit == BlockAssumption /\ IInit => CInv
<1> SUFFICES ASSUME BlockAssumption, IInit PROVE CInv
  OBVIOUS
<1>1. source = <<>> /\ body = source /\ maturity = 0
  BY DEF IInit
<1>2. SourceOK
  BY <1>1 DEF SourceOK, BlockAssumption
<1>3. Paired
  BY <1>1 DEF Paired, Helped
<1>4. Apart(body)
  BY <1>1, <1>2, ApartSelf
<1> QED BY <1>1, <1>2, <1>3, <1>4 DEF CInv

LEMMA CInvariance == ISpec => []CInv
<1>1. BlockAssumption
  BY BlockAssumption
<1>2. IInit => CInv
  BY <1>1, CInvInit
<1>3. CInv /\ [INext]_ivars => CInv'
  <2> SUFFICES ASSUME CInv, [INext]_ivars PROVE CInv'
    OBVIOUS
  <2>1. CASE EmitRun
    BY <1>1, <2>1, CInvEmit
  <2>2. CASE Mature
    BY <1>1, <2>2, CInvMature
  <2>3. CASE UNCHANGED ivars
    BY <2>3 DEF ivars, CInv, SourceOK, Paired, Apart, Untouched, Collapsed
  <2> QED BY <2>1, <2>2, <2>3 DEF INext
<1> QED BY <1>2, <1>3, PTL DEF ISpec

----------------------------------------------------------------------------
(* What a use sees.                                                        *)

LEMMA GreatestIn ==
    ASSUME NEW n \in Nat, NEW S \in SUBSET (1..n), S # {}
    PROVE  Greatest(S) \in S
<1>1. S \in SUBSET (0..n)
  OBVIOUS
<1>2. \E x \in S : \A y \in S : x >= y
  BY <1>1, GreatestElement
<1>3. \E x \in S : \A y \in S : y <= x
  BY <1>2
<1> QED BY <1>3 DEF Greatest

LEMMA LeastIn ==
    ASSUME NEW n \in Nat, NEW S \in SUBSET (1..n), S # {}
    PROVE  Least(S) \in S
<1>1. S \in SUBSET (0..n)
  OBVIOUS
<1>2. \E x \in S : \A y \in S : x <= y
  BY <1>1, LeastElement
<1> QED BY <1>2 DEF Least

Value(b, j, f) == IF b[j].op = "init" THEN b[j].val[f] ELSE b[j].val
Writers(v, f, b, k) == {j \in 1..(k - 1) : Writes(v, f, b[j])}

LEMMA LeftValue ==
    ASSUME NEW v, NEW f, NEW b, NEW k
    PROVE  Left(v, f, b, k) =
             IF Writers(v, f, b, k) = {} THEN <<>> ELSE <<Value(b, Greatest(Writers(v, f, b, k)), f)>>
BY DEF Left, Writers, Value

(* The statements of other variables write nothing of v.                   *)
LEMMA OthersWriteNothing ==
    ASSUME SourceOK, NEW b, Apart(b), NEW v \in StructVars, NEW j \in DOMAIN source,
           source[j].var # v, NEW f
    PROVE  ~Writes(v, f, b[j]) /\ ~Writes(v, f, source[j])
<1>1. b[j].var # v
  BY OwnVariable DEF SourceOK
<1> QED BY <1>1 DEF Writes

LEMMA UntouchedLeft ==
    ASSUME SourceOK, NEW b, Apart(b), NEW v \in StructVars, Untouched(v, b),
           NEW k \in DOMAIN source, NEW f
    PROVE  Left(v, f, b, k) = Left(v, f, source, k)
<1>0. Len(source) \in Nat /\ DOMAIN source = 1..Len(source)
  BY DEF SourceOK
<1>1. 1..(k - 1) \subseteq DOMAIN source
  BY <1>0
<1>2. \A j \in DOMAIN source : Writes(v, f, b[j]) <=> Writes(v, f, source[j])
  BY OthersWriteNothing DEF Untouched
<1>3. Writers(v, f, b, k) = Writers(v, f, source, k)
  BY <1>1, <1>2 DEF Writers
<1>4. ASSUME NEW j \in Writers(v, f, source, k) PROVE b[j] = source[j]
  <2>1. j \in DOMAIN source /\ Writes(v, f, source[j])
    BY <1>1 DEF Writers
  <2>2. source[j].var = v
    BY <2>1 DEF Writes
  <2> QED BY <2>1, <2>2 DEF Untouched
<1>5. Writers(v, f, source, k) # {} => Greatest(Writers(v, f, source, k)) \in Writers(v, f, source, k)
  <2>1. Writers(v, f, source, k) \in SUBSET (1..Len(source))
    BY <1>0, <1>1 DEF Writers
  <2> QED BY <1>0, <2>1, GreatestIn
<1>6. Writers(v, f, source, k) # {} =>
        Value(b, Greatest(Writers(v, f, source, k)), f) = Value(source, Greatest(Writers(v, f, source, k)), f)
  BY <1>4, <1>5 DEF Value
<1> QED BY <1>3, <1>6, LeftValue

(* With both helpers or none, the call has all the fields.                 *)
LEMMA AllFieldsShown ==
    ASSUME SourceOK, Paired, NEW v \in StructVars
    PROVE  InitArgs(Fields(v, source)) = Fields(v, source)
<1> DEFINE F == Fields(v, source)
           At(f) == {k \in Where(v, source) : f \in Sets(v, source[k])}
<1>1. F = [f \in {g \in BaseFields(v) : At(g) # {}} |-> source[Greatest(At(f))].val]
  BY DEF Fields
<1>2. ASSUME "keep" \in DOMAIN F PROVE "dispose" \in DOMAIN F
  <2>1. "keep" \in BaseFields(v) /\ At("keep") # {}
    BY <1>1, <1>2
  <2>2. v \notin BlockVars /\ v \in ByrefVars /\ "dispose" \in BaseFields(v)
    BY <2>1 DEF BaseFields, Required, StructVars
  <2>3. PICK j \in Where(v, source) : "keep" \in Sets(v, source[j])
    BY <2>1
  <2>4. j \in DOMAIN source /\ Taken(v, source[j])
    BY <2>3 DEF Where
  <2>5. source[j].op = "assign" /\ source[j].field = "keep" /\ source[j].var = v
    BY <2>3, <2>4 DEF Sets, Taken
  <2>6. Helped(v, "dispose", source)
    BY <2>2, <2>4, <2>5 DEF Helped, Paired
  <2>7. PICK i \in DOMAIN source : source[i].op = "assign" /\ source[i].var = v /\ source[i].field = "dispose"
    BY <2>6 DEF Helped
  <2>8. i \in Where(v, source) /\ "dispose" \in Sets(v, source[i])
    BY <2>2, <2>7 DEF Where, Taken, Sets
  <2>9. At("dispose") # {}
    BY <2>8
  <2> QED BY <1>1, <2>2, <2>9
<1>3. F = [f \in DOMAIN F |-> F[f]]
  BY <1>1
<1> HIDE DEF F
<1>4. DOMAIN F \ (IF "dispose" \in DOMAIN F THEN {} ELSE {"keep"}) = DOMAIN F
  BY <1>2
<1>5. InitArgs(F) = [f \in DOMAIN F |-> F[f]]
  BY <1>4 DEF InitArgs
<1> QED BY <1>3, <1>5 DEF F

LEMMA CollapsedLeft ==
    ASSUME SourceOK, Paired, NEW b, Apart(b), NEW v \in StructVars, Collapsed(v, b),
           InitialisedBeforeUse(v),
           NEW k \in DOMAIN source, source[k] = Use(v), NEW f \in BaseFields(v)
    PROVE  Left(v, f, b, k) = Left(v, f, source, k)
<1> DEFINE W == Where(v, source)
           F == Fields(v, source)
           At(g) == {j \in W : g \in Sets(v, source[j])}
<1>0. Len(source) \in Nat /\ DOMAIN source = 1..Len(source)
  BY DEF SourceOK
<1>1. 1..(k - 1) \subseteq DOMAIN source
  BY <1>0
<1>2. \A j \in DOMAIN source : Written(source[j])
  BY SourceWritten
<1>3. F = [g \in {h \in BaseFields(v) : At(h) # {}} |-> source[Greatest(At(g))].val]
  BY DEF Fields
<1>4. ASSUME NEW j \in W PROVE j \in 1..(k - 1) /\ j \in DOMAIN source /\ Taken(v, source[j])
  <2>1. j \in DOMAIN source /\ Taken(v, source[j])
    BY DEF Where
  <2>2. source[j].var = v /\ source[j].op # "use"
    BY <2>1 DEF Taken
  <2>3. j < k
    BY <2>1, <2>2 DEF InitialisedBeforeUse
  <2> QED BY <1>0, <2>1, <2>3
<1>5. ASSUME NEW j \in DOMAIN source, Writes(v, f, source[j]) PROVE j \in At(f)
  <2>1. source[j].var = v /\ Written(source[j])
    BY <1>2, <1>5 DEF Writes
  <2>2. CASE source[j].op = "assign"
    <3>1. f = source[j].field
      BY <1>5, <2>2 DEF Writes
    <3> QED BY <2>1, <2>2, <3>1 DEF Where, Taken, Sets
  <2>3. CASE source[j].op = "wide"
    <3>1. f = "flags" \/ f = (IF v \in BlockVars THEN "reserved" ELSE "size")
      BY <1>5, <2>3 DEF Writes
    <3>2. source[j] = Wide(v, source[j].val)
      BY <2>1, <2>3 DEF Written
    <3>3. source[j].val # NotConst
      BY <3>2 DEF InitialisedBeforeUse
    <3> QED BY <2>1, <2>3, <3>1, <3>3 DEF Where, Taken, Sets
  <2>4. CASE source[j].op = "use"
    BY <1>5, <2>4 DEF Writes
  <2> QED BY <2>1, <2>2, <2>3, <2>4 DEF Written
<1>6. ASSUME NEW j \in At(f) PROVE Writes(v, f, source[j]) /\ j \in 1..(k - 1)
  <2>1. j \in 1..(k - 1) /\ Taken(v, source[j]) /\ f \in Sets(v, source[j])
    BY <1>4
  <2> QED BY <2>1 DEF Taken, Sets, Writes
<1>7. Writers(v, f, source, k) = At(f)
  BY <1>1, <1>5, <1>6 DEF Writers
<1>8. \A j \in DOMAIN source : source[j].op # "init"
  BY <1>2 DEF Written
<1>9. At(f) # {} => Greatest(At(f)) \in At(f)
  <2>1. At(f) \in SUBSET (1..Len(source))
    BY <1>0, <1>4
  <2> HIDE DEF At
  <2> QED BY <1>0, <2>1, GreatestIn
<1>10. Left(v, f, source, k) = IF At(f) = {} THEN <<>> ELSE <<source[Greatest(At(f))].val>>
  <2>1. At(f) # {} => Value(source, Greatest(At(f)), f) = source[Greatest(At(f))].val
    BY <1>4, <1>8, <1>9 DEF Value
  <2> QED BY <1>7, <2>1, LeftValue
<1>11. InitArgs(F) = F
  BY AllFieldsShown
<1>12. IsCompleted(v, source)
  BY DEF Collapsed
<1>13. Least(W) \in W
  <2>1. "isa" \in Required(v)
    BY DEF Required
  <2>2. At("isa") # {}
    BY <1>3, <1>12, <2>1 DEF IsCompleted
  <2>3. W # {} /\ W \in SUBSET (1..Len(source))
    BY <1>0, <1>4, <2>2
  <2> HIDE DEF W
  <2> QED BY <1>0, <2>3, LeastIn
<1>14. f \in DOMAIN F <=> At(f) # {}
  BY <1>3
<1>15. At(f) # {} => F[f] = source[Greatest(At(f))].val
  BY <1>3
<1> HIDE DEF At, F
<1>16. ASSUME NEW j \in DOMAIN source, j # Least(W) PROVE ~Writes(v, f, b[j])
  <2>1. CASE source[j].var # v
    BY <2>1, OthersWriteNothing
  <2>2. CASE source[j].var = v
    <3>1. b[j] = IF j \notin W THEN source[j] ELSE Empty
      BY <1>12, <1>16, <2>2, CollapseAt DEF Collapsed
    <3>2. CASE j \notin W
      BY <1>5, <3>1, <3>2 DEF At
    <3>3. CASE j \in W
      <4>1. b[j].var = "none" /\ v # "none"
        BY <3>1, <3>3 DEF Empty, SourceOK
      <4> QED BY <4>1 DEF Writes
    <3> QED BY <3>2, <3>3
  <2> QED BY <2>1, <2>2
<1>17. b[Least(W)] = InitCall(v, F)
  <2>1. Least(W) \in DOMAIN source /\ source[Least(W)].var = v
    BY <1>4, <1>13 DEF Taken
  <2> QED BY <1>11, <1>12, <1>13, <2>1, CollapseAt DEF Collapsed, F
<1>18. Writes(v, f, b[Least(W)]) <=> f \in DOMAIN F
  <2>1. InitCall(v, F).var = v /\ InitCall(v, F).op = "init" /\ InitCall(v, F).val = F
    BY DEF InitCall
  <2> QED BY <1>17, <2>1 DEF Writes
<1>19. Least(W) \in 1..(k - 1)
  BY <1>4, <1>13
<1>20. CASE At(f) = {}
  <2>1. Writers(v, f, b, k) = {}
    BY <1>1, <1>14, <1>16, <1>18, <1>20 DEF Writers
  <2> QED BY <1>10, <1>20, <2>1, LeftValue
<1>21. CASE At(f) # {}
  <2>1. Writers(v, f, b, k) = {Least(W)}
    BY <1>1, <1>14, <1>16, <1>18, <1>19, <1>21 DEF Writers
  <2>2. Greatest({Least(W)}) = Least(W)
    <3>1. Least(W) \in Int
      BY <1>19
    <3>2. \A j \in {Least(W)} : j <= Least(W)
      BY <3>1
    <3> QED BY <3>2 DEF Greatest
  <2>3. Value(b, Least(W), f) = F[f]
    <3>1. InitCall(v, F).op = "init" /\ InitCall(v, F).val = F
      BY DEF InitCall
    <3> QED BY <1>17, <3>1 DEF Value
  <2>4. Left(v, f, b, k) = <<F[f]>>
    <3>1. {Least(W)} # {}
      OBVIOUS
    <3> QED BY <2>1, <2>2, <2>3, <3>1, LeftValue
  <2> QED BY <1>10, <1>15, <1>21, <2>4
<1> QED BY <1>20, <1>21

LEMMA CInvKeeps == CInv => CollapseKeepsContents
<1> SUFFICES ASSUME CInv, NEW k \in DOMAIN source, source[k].op = "use",
                    InitialisedBeforeUse(source[k].var)
             PROVE  UseSees(k)
  BY DEF CollapseKeepsContents
<1> DEFINE v == source[k].var
<1>1. Written(source[k]) /\ SourceOK /\ Paired /\ Apart(body)
  BY SourceWritten DEF CInv
<1>2. v \in StructVars /\ source[k] = Use(v)
  BY <1>1 DEF Written
<1>3. InitialisedBeforeUse(v)
  OBVIOUS
<1> HIDE DEF v
<1>4. ASSUME NEW f \in BaseFields(v) PROVE Left(v, f, body, k) = Left(v, f, source, k)
  <2>1. CASE Untouched(v, body)
    BY <1>1, <1>2, <2>1, UntouchedLeft
  <2>2. CASE Collapsed(v, body)
    BY <1>1, <1>2, <1>3, <2>2, CollapsedLeft
  <2> QED BY <1>1, <1>2, <2>1, <2>2 DEF Apart
<1> QED BY <1>4 DEF UseSees, v

(* A variable that is not assigned again after a use has at every use the  *)
(* contents the assignments of the source give it, whatever the runs of    *)
(* statements are and however many variables the blocks are mixed with.    *)
THEOREM CollapseIsSound == ISpec => []CollapseKeepsContents
BY CInvariance, CInvKeeps, PTL

(* The type invariant: the hook neither adds nor removes statements.       *)
THEOREM BlockTypes == ISpec => []InitTypeOK
<1> DEFINE Small == runs \in 0..MaxRuns /\ maturity \in 0..3
<1>0. BlockAssumption
  BY BlockAssumption
<1>1. IInit => Small
  BY <1>0 DEF IInit, BlockAssumption
<1>2. Small /\ [INext]_ivars => Small'
  <2> SUFFICES ASSUME Small, [INext]_ivars PROVE Small'
    OBVIOUS
  <2>0. MaxRuns \in Nat
    BY <1>0 DEF BlockAssumption
  <2>1. CASE EmitRun
    BY <2>0, <2>1 DEF EmitRun
  <2>2. CASE Mature
    BY <2>2 DEF Mature, CMAT_CPA
  <2>3. CASE UNCHANGED ivars
    BY <2>3 DEF ivars
  <2> QED BY <2>1, <2>2, <2>3 DEF INext
<1>3. Small /\ CInv => InitTypeOK
  <2> SUFFICES ASSUME Small, CInv PROVE InitTypeOK
    OBVIOUS
  <2>1. SourceOK /\ Apart(body) /\ source \in Seq(Statement)
    BY DEF CInv, SourceOK
  <2>2. body = [k \in 1..Len(source) |-> body[k]] /\ Len(source) \in Nat
    BY <2>1 DEF Apart
  <2>3. Len(body) = Len(source)
    BY <2>2
  <2>4. ASSUME NEW k \in DOMAIN source PROVE body[k].op \in {"assign", "wide", "use", "init", "empty"}
    <3> DEFINE v == source[k].var
    <3>1. v \in StructVars /\ source[k].op \in {"assign", "wide", "use"}
      BY <2>1, SourceWritten DEF Written
    <3>2. CASE Untouched(v, body)
      BY <3>1, <3>2 DEF Untouched
    <3>3. CASE Collapsed(v, body)
      <4>1. body[k] = Collapse(v, source)[k] /\ IsCompleted(v, source)
        BY <3>3 DEF Collapsed
      <4>2. body[k] = source[k] \/ body[k] = InitCall(v, InitArgs(Fields(v, source))) \/ body[k] = Empty
        BY <4>1, CollapseAt
      <4>3. \A x : InitCall(v, x).op = "init"
        BY DEF InitCall
      <4>4. Empty.op = "empty"
        BY DEF Empty
      <4> QED BY <3>1, <4>2, <4>3, <4>4
    <3> QED BY <2>1, <3>1, <3>2, <3>3 DEF Apart
  <2>5. DOMAIN body = DOMAIN source
    BY <2>1 DEF Apart
  <2> QED BY <2>3, <2>4, <2>5 DEF InitTypeOK
<1> HIDE DEF Small
<1> QED BY <1>1, <1>2, <1>3, CInvariance, PTL DEF ISpec
=============================================================================

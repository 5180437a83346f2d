--------------------------- MODULE RangeCondition ---------------------------
(***************************************************************************)
(* The rewriting of "x +- c1 < c2", the compiler's form of a range test,   *)
(* into a pair of comparisons (plugins/common/range_condition).  One       *)
(* behaviour is one visit: the visitor meets a comparison e and either     *)
(* leaves it alone or replaces it.  A type is its modulus, 2^(8 * size);   *)
(* numbers keep the width of their type.                                   *)
(***************************************************************************)
EXTENDS Integers

CONSTANTS Moduli,     \* moduli of the integer types
          Supported   \* those of the sizes 1, 2, 4 and 8

ASSUME ModuliAssumption == Moduli \subseteq Nat \ {0} /\ Supported \subseteq Moduli

VARIABLES e,       \* the comparison visited
          cond,    \* the condition that replaces it
          state    \* "visit", then "kept" or "replaced"

vars == <<e, cond, state>>

Unsigned == {"ult", "ule", "ugt", "uge"}

(* e is  (cast) (x arith c) op r : x, c and the arithmetic are of modulus  *)
(* xmod, the comparison of modulus mod.  Without a cast they are the same. *)
(* The decompiler leaves no constant that vanishes modulo the comparison.  *)
Comparison ==
    {k \in [op : Unsigned \cup {"other"}, arith : {"add", "sub", "other"},
            constants : BOOLEAN,        \* c and r are numbers
            effects   : BOOLEAN,        \* x has side effects
            cast : BOOLEAN, signed : BOOLEAN, mod : Moduli, xmod : Moduli,
            c : UNION {0..(m - 1) : m \in Moduli}, r : UNION {0..(m - 1) : m \in Moduli}] :
        /\ k.c < k.xmod /\ k.c % k.mod # 0
        /\ k.r < k.mod
        /\ ~k.cast => k.xmod = k.mod}

(* A replacement is  low lowRel x  join  x highRel high.                   *)
Rel == {"<", "<=", ">", ">="}
Condition == [low : Int, lowRel : Rel, join : {"and", "or"}, high : Int, highRel : Rel]

NoCondition == [low |-> 0, lowRel |-> "<", join |-> "and", high |-> 0, highRel |-> "<"]

IDA_OP_TO_MATH_OP == [op \in Unsigned |-> CASE op = "uge" -> ">="
                                            [] op = "ule" -> "<="
                                            [] op = "ugt" -> ">"
                                            [] op = "ult" -> "<"]

----------------------------------------------------------------------------
(* The patterns visit_expr rewrites.                                       *)
Matches(k) == /\ k.op \in Unsigned
              /\ k.arith \in {"add", "sub"} /\ k.constants
              /\ ~k.effects
              /\ k.mod \in Supported

(* The constant that is subtracted from x.                                 *)
(* Mutant: an added constant is not complemented.                          *)
LhsConstAdded(k) == k.c % k.mod
LhsConst(k) == IF k.arith = "add" THEN k.mod - (k.c % k.mod) ELSE k.c % k.mod

(* Mutant: the bound of the wrapped range is not reduced.                  *)
LessThanUnreduced(op, lhs, rhs, mod) ==
    [low  |-> lhs,       lowRel  |-> "<=",
     join |-> IF lhs + rhs >= mod THEN "or" ELSE "and",
     high |-> lhs + rhs, highRel |-> IDA_OP_TO_MATH_OP[op]]

LessThan(op, lhs, rhs, mod) ==
    [low  |-> lhs,               lowRel  |-> "<=",
     join |-> IF lhs + rhs >= mod THEN "or" ELSE "and",
     high |-> (lhs + rhs) % mod, highRel |-> IDA_OP_TO_MATH_OP[op]]

(* Mutant: ">=" is translated like ">".                                    *)
GreaterThanStrict(op, lhs, rhs, mod) ==
    [low  |-> (lhs + rhs) % mod, lowRel  |-> "<",
     join |-> IF lhs + rhs < mod THEN "or" ELSE "and",
     high |-> lhs,               highRel |-> "<"]

GreaterThan(op, lhs, rhs, mod) ==
    LET rel == IF op = "ugt" THEN "<" ELSE "<="
    IN [low  |-> (lhs + rhs) % mod, lowRel  |-> rel,
        join |-> IF lhs + rhs < mod THEN "or" ELSE "and",
        high |-> lhs, highRel |-> IF lhs + rhs < mod THEN rel ELSE "<"]

----------------------------------------------------------------------------
Init == e \in Comparison /\ cond = NoCondition /\ state = "visit"

(* visit_expr returns early: the expression stays as it is.                *)
Keep == /\ state = "visit" /\ ~Matches(e)
        /\ state' = "kept"
        /\ UNCHANGED <<e, cond>>

RewriteLess ==
    /\ state = "visit" /\ Matches(e) /\ e.op \in {"ult", "ule"}
    /\ cond' = LessThan(e.op, LhsConst(e), e.r, e.mod)
    /\ state' = "replaced"
    /\ UNCHANGED e

RewriteGreater ==
    /\ state = "visit" /\ Matches(e) /\ e.op \in {"ugt", "uge"}
    /\ cond' = GreaterThan(e.op, LhsConst(e), e.r, e.mod)
    /\ state' = "replaced"
    /\ UNCHANGED e

Next == Keep \/ RewriteLess \/ RewriteGreater

Spec == Init /\ [][Next]_vars

----------------------------------------------------------------------------
(* What the expressions mean.                                              *)
Holds(rel, a, b) == \/ rel = "<"  /\ a < b
                    \/ rel = "<=" /\ a <= b
                    \/ rel = ">"  /\ a > b
                    \/ rel = ">=" /\ a >= b

(* The C cast of the value v of modulus k.xmod to the type of the          *)
(* comparison: truncation, zero extension or sign extension.               *)
Cast(k, v) == IF k.mod <= k.xmod THEN v % k.mod
              ELSE IF k.signed /\ 2 * v >= k.xmod THEN v + k.mod - k.xmod
              ELSE v

Arith(k, v, c, m) == (IF k.arith = "add" THEN v + c ELSE v - c) % m

(* The original comparison, and its replacement, when x has the value v.   *)
Original(k, v) ==
    Holds(IDA_OP_TO_MATH_OP[k.op], Cast(k, Arith(k, v, k.c, k.xmod)), k.r)

Replaced(q, y) == IF q.join = "and"
                  THEN Holds(q.lowRel, q.low, y) /\ Holds(q.highRel, y, q.high)
                  ELSE Holds(q.lowRel, q.low, y) \/ Holds(q.highRel, y, q.high)

(* The rewriting casts x instead of the sum: the same thing unless a       *)
(* widening cast saw the arithmetic wrap at its own, smaller width.        *)
CastCommutes(k, v) ==
    Cast(k, Arith(k, v, k.c, k.xmod)) = Arith(k, Cast(k, v), k.c, k.mod)

(* The one value that x - c >= r excludes and the replacement includes.    *)
UgeBoundary(k, v) == /\ k.op = "uge" /\ k.r # 0
                     /\ LhsConst(k) + k.r < k.mod
                     /\ Cast(k, v) = LhsConst(k)

(* Types; the constants of a replacement fit the compared type.            *)
TypeOK == /\ e \in Comparison
          /\ cond \in Condition
          /\ state \in {"visit", "kept", "replaced"}
          /\ cond.low \in 0..(e.mod - 1) /\ cond.high \in 0..(e.mod - 1)

(* A replaced condition means what the comparison meant, for every value   *)
(* of x but the boundary of ">=" without wrap-around, where cast and       *)
(* arithmetic commute; and x, evaluated up to twice, has no side effects.  *)
MeaningKept ==
    state = "replaced" =>
        /\ ~e.effects
        /\ \A v \in 0..(e.xmod - 1) :
              CastCommutes(e, v) /\ ~UgeBoundary(e, v)
                 => (Replaced(cond, Cast(e, v)) <=> Original(e, v))

(* At the boundary the code is wrong, always in the same direction: the    *)
(* replacement accepts a value that the binary rejects, never the reverse. *)
BoundaryIsAccepted ==
    state = "replaced" =>
        \A v \in 0..(e.xmod - 1) :
            CastCommutes(e, v) /\ Original(e, v) => Replaced(cond, Cast(e, v))

(* The claim of the docstring of create_range_condition_greater_than and   *)
(* of its comment "x - lhs >= rhs => x in [lhs + rhs, mod) U [0, lhs]".    *)
GreaterThanIsEquivalent ==
    state = "replaced" /\ ~e.cast =>
        \A v \in 0..(e.mod - 1) : Replaced(cond, v) <=> Original(e, v)
=============================================================================

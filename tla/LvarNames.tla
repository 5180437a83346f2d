------------------------------ MODULE LvarNames -----------------------------
(***************************************************************************)
(* How the hooks name the local variables of a function: prolog_rewrite.py *)
(* and log_hook.py have the same two helpers.                              *)
(***************************************************************************)
EXTENDS Integers, FiniteSets, Sequences

CONSTANT Lvars      \* the variables of the function

ASSUME LvarsAssumption == IsFiniteSet(Lvars)

(* A name is its parts, <<"T", "vwt">>, and what makes it unique.          *)
Started(name, base) == Len(name) >= Len(base) /\ SubSeq(name, 1, Len(base)) = base

(* naming.unique_name: the base itself, or the base with a number.         *)
UniqueName(lvs, base) ==
    LET used == {lvs[v].name : v \in Lvars}
        numbered == {Append(base, n) : n \in 1..Cardinality(Lvars)} \ used
    IN  IF base \notin used THEN base
        ELSE CHOOSE name \in numbered : \A other \in numbered : name[Len(name)] <= other[Len(other)]

\* Mutant: a name is not made unique.
RenameOver(lvs, v, base) ==
    IF lvs[v].user \/ Started(lvs[v].name, base) THEN lvs
    ELSE [lvs EXCEPT ![v].name = base, ![v].user = TRUE]

(* A name the user gave, or one that already says it, stays.               *)
Rename(lvs, v, base) ==
    IF lvs[v].user \/ Started(lvs[v].name, base) THEN lvs
    ELSE [lvs EXCEPT ![v].name = UniqueName(lvs, base), ![v].user = TRUE]

=============================================================================

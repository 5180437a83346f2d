----------------------------- MODULE PacApplier -----------------------------
(***************************************************************************)
(* Kernelcache: virtual calls on objects without a type are signed, and the*)
(* signature says which classes the object can be of.  The object gets the *)
(* most specific class that fits all its calls, and the calls the types of *)
(* the virtual table (plugins/kernelcache/func_renamers/pac_applier.py).   *)
(***************************************************************************)
EXTENDS Integers, Sequences, FiniteSets

CONSTANTS
    Classes, Parent,        \* the classes of the database; a root is its own parent
    Tables,                 \* the classes that have a type for their virtual table
    Funcs, Vars, Fields,    \* Fields: in the order in which they are met
    Inner,                  \* fields that lie in another struct, at another offset
    VirtualPrograms,        \* bound: function -> its virtual calls
    UserTypes, MaxTypings   \* bound: the types the user sets, and how many

(* A call: its object, a variable of the function or a field; the classes  *)
(* whose signature it has, if any; the arguments IDA guesses; those of the *)
(* function in the virtual table, the object included.                     *)
VARIABLES
    vcalls,
    vtype,      \* function -> variable -> [class, user]; a class stands for a pointer to it
    ftype,      \* field -> class
    forced,     \* the calls that have the type of the virtual table
    applied,    \* the functions that were treated since the user last edited them
    typings

pacVars == <<vcalls, vtype, ftype, forced, applied, typings>>

Untyped == {"int", "void"}
RootClass == "OSObject"
NoClass == "no class"
Ancestors[c \in Classes] == IF Parent[c] = c THEN {c} ELSE {c} \cup Ancestors[Parent[c]]
FieldSet == {Fields[i] : i \in DOMAIN Fields}

(* A virtual call.  The candidates are distinct, and OSObject is a base    *)
(* class of all objects.                                                   *)
VirtualCall == [at : Vars \cup FieldSet, cands : Seq(Classes), nargs : Nat, guess : Nat]
ProperCandidates(union) ==
    /\ \A j, k \in DOMAIN union : union[j] = union[k] => j = k
    /\ \A j, k \in DOMAIN union : union[j] = RootClass => RootClass \in Ancestors[union[k]]

ASSUME PacAssumption ==
    /\ IsFiniteSet(Classes) /\ Classes \cap (Untyped \cup {NoClass}) = {}
    /\ Parent \in [Classes -> Classes]
    /\ \E depth \in [Classes -> 0..Cardinality(Classes)] :
          \A c \in Classes : Parent[c] # c => depth[Parent[c]] < depth[c]
    /\ Vars \cap FieldSet = {}
    /\ VirtualPrograms \subseteq [Funcs -> Seq(VirtualCall)]
    /\ \A p \in VirtualPrograms : \A f \in Funcs : \A i \in DOMAIN p[f] : ProperCandidates(p[f][i].cands)
    /\ UserTypes \subseteq Classes \cup Untyped /\ MaxTypings \in Nat

Calls(f) == DOMAIN vcalls[f]
TypeAt(f, at) == IF at \in Vars THEN vtype[f][at].class ELSE ftype[at]

----------------------------------------------------------------------------
\* Mutant: the union is reduced to its most specific classes.
MostSpecific(union) ==
    {union[i] : i \in {j \in DOMAIN union : \A k \in DOMAIN union : k # j => union[j] \notin Ancestors[union[k]]}}

(* _minimize: a class is left out when one of its ancestors is there, and  *)
(* OSObject stands for all.                                                *)
Minimized(union) ==
    IF Len(union) = 1 THEN {union[1]}
    ELSE IF \E i \in DOMAIN union : union[i] = RootClass THEN {RootClass}
    ELSE {union[i] : i \in {j \in DOMAIN union :
                              \A k \in DOMAIN union : k # j => union[k] \notin Ancestors[union[j]]}}

(* _children_of_union.                                                     *)
ChildrenOf(union) == {c \in Classes : \E u \in Minimized(union) : u \in Ancestors[c]}

(* match_indirect_call: only calls on objects without a class come to      *)
(* on_unknown_call, and those without a signature are passed over.         *)
Evidence(f, at) == {i \in Calls(f) : vcalls[f][i].at = at /\ vcalls[f][i].cands # <<>> /\ TypeAt(f, at) \in Untyped}

(* update_lvar, update_field: the intersection over the calls.             *)
State(f, at) == {c \in Classes : \A i \in Evidence(f, at) : c \in ChildrenOf(vcalls[f][i].cands)}

(* tif.get_common_ancestor.                                                *)
CommonAncestor(S) ==
    LET common == {a \in Classes : \A c \in S : a \in Ancestors[c]}
    IN  IF S = {} \/ common = {} THEN NoClass
        ELSE CHOOSE a \in common : \A b \in common : b \in Ancestors[a]

Found(f, at) == IF Evidence(f, at) = {} THEN NoClass ELSE CommonAncestor(State(f, at))

(* should_modify_type.                                                     *)
ShouldModify(current, new) == current \in Untyped \cup {RootClass} \/ current \in Ancestors[new]

VarChanges(f) ==
    {v \in Vars : Found(f, v) # NoClass /\ ~vtype[f][v].user /\ ShouldModify(vtype[f][v].class, Found(f, v))}
FieldChanges(f) == {x \in FieldSet : Found(f, x) # NoClass /\ ShouldModify(ftype[x], Found(f, x))}

(* _apply_type_modifications: in their order, up to the first that its     *)
(* struct has no member for.                                               *)
Applied(changes) ==
    {x \in changes : \E i \in DOMAIN Fields : Fields[i] = x /\ \A j \in 1..i : Fields[j] \in changes => Fields[j] \notin Inner}

\* Mutant: the type of a function without arguments is forced as well.
ForcesAll(f, i, class) == class \in Tables

(* fix_calls: not where the virtual table knows of the object only, which  *)
(* would hide arguments.                                                   *)
FixesCall(f, i, class) == class \in Tables /\ vcalls[f][i].nargs # 1

(* fix_empty_calls, after the types have changed: a call through a virtual *)
(* table that has no argument at all.                                      *)
EmptyCall(f, i, class) == class \in Tables /\ vcalls[f][i].guess = 0

----------------------------------------------------------------------------
AInit ==
    /\ vcalls \in VirtualPrograms
    /\ vtype = [f \in Funcs |-> [v \in Vars |-> [class |-> "int", user |-> FALSE]]]
    /\ ftype = [x \in FieldSet |-> "void"]
    /\ forced = {} /\ applied = {} /\ typings = 0

(* apply_pac on the function on the screen.                                *)
ApplyPac(f) ==
    LET vars == VarChanges(f)
        fields == FieldChanges(f)
    IN  /\ vtype' = [vtype EXCEPT ![f] = [v \in Vars |-> IF v \in vars THEN [@[v] EXCEPT !.class = Found(f, v)] ELSE @[v]]]
        /\ ftype' = [x \in FieldSet |-> IF x \in Applied(fields) THEN Found(f, x) ELSE ftype[x]]
        /\ LET fixed == {i \in Calls(f) : /\ vcalls[f][i].at \in vars \cup fields /\ i \in Evidence(f, vcalls[f][i].at)
                                          /\ FixesCall(f, i, Found(f, vcalls[f][i].at))}
               typed(i) == IF vcalls[f][i].at \in Vars THEN vtype'[f][vcalls[f][i].at].class ELSE ftype'[vcalls[f][i].at]
               empty == {i \in Calls(f) \ fixed : vars \cup fields # {} /\ EmptyCall(f, i, typed(i))}
           IN  forced' = forced \cup {<<f, i>> : i \in fixed \cup empty}
        /\ applied' = applied \cup {f}
        /\ UNCHANGED <<vcalls, typings>>

TypeVar(f, v, class) ==
    /\ typings < MaxTypings /\ typings' = typings + 1
    /\ vtype' = [vtype EXCEPT ![f][v] = [class |-> class, user |-> TRUE]]
    /\ UNCHANGED <<vcalls, ftype, forced, applied>>

TypeField(x, class) ==
    /\ typings < MaxTypings /\ typings' = typings + 1
    /\ ftype' = [ftype EXCEPT ![x] = class] /\ applied' = {}
    /\ UNCHANGED <<vcalls, vtype, forced>>

ANext ==
    \/ \E f \in Funcs : ApplyPac(f) \/ \E v \in Vars, class \in UserTypes : TypeVar(f, v, class)
    \/ \E x \in FieldSet, class \in UserTypes : TypeField(x, class)

ASpec == AInit /\ [][ANext]_pacVars

----------------------------------------------------------------------------
PacTypeOK ==
    /\ vtype \in [Funcs -> [Vars -> [class : Classes \cup Untyped, user : BOOLEAN]]]
    /\ ftype \in [FieldSet -> Classes \cup Untyped]
    /\ applied \subseteq Funcs /\ typings \in 0..MaxTypings

(* The classes an object can be of: at every call that is signed it is one *)
(* of those with the signature, or derives from one.                       *)
Possible(f, at) ==
    {c \in Classes : \A i \in Calls(f) : vcalls[f][i].at = at /\ vcalls[f][i].cands # <<>> =>
        \E k \in DOMAIN vcalls[f][i].cands : vcalls[f][i].cands[k] \in Ancestors[c]}
Signed(f, at) == \E i \in Calls(f) : vcalls[f][i].at = at /\ vcalls[f][i].cands # <<>>

(* The class is the closest one that all of them derive from.              *)
Fits(class, S) ==
    /\ \A c \in S : class \in Ancestors[c]
    /\ \A closer \in Classes : (\A c \in S : closer \in Ancestors[c]) => closer \in Ancestors[class]

(* MostSpecificAncestorHelper: whatever subset of its calls is signed and  *)
(* in whatever order functions are treated and edited, a variable that the *)
(* user left alone has a class exactly when its calls allow one, the       *)
(* closest that no possible class contradicts; a field has the class that  *)
(* the function that was treated first gave it, or the user.               *)
TypesFit ==
    /\ \A f \in applied, v \in Vars : ~vtype[f][v].user =>
         IF vtype[f][v].class \in Classes THEN Signed(f, v) /\ Possible(f, v) # {} /\ Fits(vtype[f][v].class, Possible(f, v))
         ELSE ~Signed(f, v) \/ ~\E class \in Classes : Possible(f, v) # {} /\ Fits(class, Possible(f, v))
    /\ typings = 0 => \A x \in FieldSet : ftype[x] \in Classes =>
         \E f \in applied : Signed(f, x) /\ Possible(f, x) # {} /\ Fits(ftype[x], Possible(f, x))

(* apply_vtable_type_to_call: no call loses arguments that IDA had found to*)
(* a type that has only the object.                                        *)
ArgumentsKept == \A c \in forced : vcalls[c[1]][c[2]].nargs = 1 => vcalls[c[1]][c[2]].guess = 0

(* What is typed is right: classes and calls.                              *)
PacTypesFit == TypesFit /\ ArgumentsKept

=============================================================================

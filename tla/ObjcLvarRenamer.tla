--------------------------- MODULE ObjcLvarRenamer --------------------------
(***************************************************************************)
(* Objective-C: while a function is decompiled its variables get names from*)
(* selectors (plugins/objc/objc_lvar_renamer).  Three sources make         *)
(* proposals: the method's own selector, the getters whose results are     *)
(* assigned, and the keywords under which variables are passed.            *)
(***************************************************************************)
EXTENDS Integers, Sequences, FiniteSets

CONSTANTS
    Arguments,          \* how many arguments the function has: variables 1..Arguments
    ObjcVars,           \* the arguments and the local variables
    Methods,            \* bound: the functions
    OptionChoices,      \* bound: sets of the sources that are switched on
    Bases,              \* the names that selectors and the user give
    GivenNames, MaxNamings \* bound: those of the user, with their numbers, and how often

NoGuess == "no guess"   \* a piece of a selector no name can be made of
NotVar == 0             \* an expression that is not a variable

(* A function: whether it is a method, its selector's pieces as names, the *)
(* first one as it is guessed; its calls in the order of the visit.  A     *)
(* call: its selector's pieces, none for a getter; what is passed; the     *)
(* name of a getter and what its result is assigned to.                    *)
Pieces == Bases \cup {NoGuess}
Operands == ObjcVars \cup {NotVar}
ProperMethod(m) ==
    /\ m.pieces \in Seq(Pieces) /\ \A k \in 2..Len(m.pieces) : m.pieces[k] # NoGuess
    /\ m.calls \in Seq([pieces : Seq(Pieces), passed : Seq(Operands), getter : Pieces, target : Operands])

(* No selector and no user gives a name in the style of IDA's own.         *)
ASSUME ObjcAssumption ==
    /\ Arguments \in Nat /\ 1..Arguments \subseteq ObjcVars
    /\ ObjcVars \subseteq Nat \ {NotVar} /\ IsFiniteSet(ObjcVars)
    /\ {"sel", "implicit_arg"} \subseteq Bases /\ {"a", "v", NoGuess} \cap Bases = {}
    /\ \A m \in Methods : ProperMethod(m)
    /\ GivenNames \subseteq Bases \X Nat /\ MaxNamings \in Nat

VARIABLES
    method,
    names,      \* variable -> <<base, number>>
    options,    \* the sources that are switched on
    namings

objcVars == <<method, names, options, namings>>

DefaultName(v) == IF v <= Arguments THEN <<"a", v>> ELSE <<"v", v>>
IsDefaultName(name) == name[1] \in {"a", "v"}

(* A proposal, and its rank: its source's, then its call's, then its place *)
(* in the call.                                                            *)
Proposal(at, v, base) == [at |-> at, var |-> v, base |-> base]

----------------------------------------------------------------------------
(* _selector_arg_renames: not for the receiver, and not if the number of   *)
(* arguments is not the selector's.                                        *)
ArgName(pos) ==
    CASE pos = 2 -> "sel"
      [] pos = 3 -> IF method.pieces[1] = NoGuess THEN "implicit_arg" ELSE method.pieces[1]
      [] OTHER -> method.pieces[pos - 2]

ArgProposals ==
    IF ~method.method \/ Arguments # Len(method.pieces) + 2 THEN <<>>
    ELSE [k \in 1..(Arguments - 1) |-> Proposal(<<1, k + 1, 0>>, k + 1, ArgName(k + 1))]

(* _getter_match, _callee_arg_matches of the i-th call.                    *)
GetterMatch(c, i) ==
    IF c.passed = <<>> THEN <<Proposal(<<2, i, 0>>, c.target, c.getter)>> ELSE <<>>
CalleeArgMatches(c, i) ==
    IF Len(c.passed) # Len(c.pieces) THEN <<>>
    ELSE [k \in 1..Len(c.pieces) |-> Proposal(<<3, i, k>>, c.passed[k], c.pieces[k])]

(* visit_expr, and the walk.                                               *)
OfCall(source, i) ==
    IF source = "getters" THEN GetterMatch(method.calls[i], i) ELSE CalleeArgMatches(method.calls[i], i)
CallProposals(source) ==
    LET f[i \in 0..Len(method.calls)] == IF i = 0 THEN <<>> ELSE f[i - 1] \o OfCall(source, i)
    IN  f[Len(method.calls)]

Proposals(source) ==
    IF source \notin options THEN <<>>
    ELSE IF source = "args" THEN ArgProposals ELSE CallProposals(source)
AllProposals == (Proposals("args") \o Proposals("getters")) \o Proposals("callee-args")

----------------------------------------------------------------------------
(* naming.unique_name.                                                     *)
UniqueName(base, taken) ==
    <<base, CHOOSE n \in 0..Cardinality(taken) :
              <<base, n>> \notin taken /\ \A k \in 0..(n - 1) : <<base, k>> \in taken>>

\* Mutant: the names that are about to be given are not taken.
TakenBefore(taken, name) == taken

Taken(taken, name) == taken \cup {name}

(* _consider, the check of the arguments' names, and _collect_candidates:  *)
(* a proposal is for a variable with a default name, and the first source, *)
(* and in it the first call, to name a variable wins.                      *)
Wins(p, chosen) == p.var # NotVar /\ p.base # NoGuess /\ IsDefaultName(names[p.var]) /\ p.var \notin chosen

(* _build_modifications and perform_lvar_modifications_during_decompilation*)
(* for one proposal.                                                       *)
Give(r, p) ==
    IF ~Wins(p, r.chosen) THEN r
    ELSE [names |-> [r.names EXCEPT ![p.var] = UniqueName(p.base, r.taken)],
          taken |-> Taken(r.taken, UniqueName(p.base, r.taken)),
          chosen |-> r.chosen \cup {p.var}]

NamesGiven ==
    LET all == AllProposals
        f[i \in 0..Len(all)] ==
          IF i = 0 THEN [names |-> names, chosen |-> {},
                         taken |-> {names[v] : v \in {u \in ObjcVars : ~IsDefaultName(names[u])}}]
          ELSE Give(f[i - 1], all[i])
    IN  f[Len(all)].names

----------------------------------------------------------------------------
OInit ==
    /\ method \in Methods /\ options \in OptionChoices /\ namings = 0
    /\ names = [v \in ObjcVars |-> DefaultName(v)]

(* ObjcLvarRenameHook at CMAT_FINAL.                                       *)
RenameLvars == names' = NamesGiven /\ UNCHANGED <<method, options, namings>>

(* A reload of the plugin reads the options again.                         *)
SetOptions(chosen) == chosen # options /\ options' = chosen /\ UNCHANGED <<method, names, namings>>

(* The user names a variable, or gives it its default name back.           *)
NameVar(v, name) ==
    /\ namings < MaxNamings /\ namings' = namings + 1
    /\ \A u \in ObjcVars \ {v} : names[u] # name
    /\ names' = [names EXCEPT ![v] = name]
    /\ UNCHANGED <<method, options>>

ONext ==
    \/ RenameLvars
    \/ \E chosen \in OptionChoices : SetOptions(chosen)
    \/ \E v \in ObjcVars : \E name \in GivenNames \cup {DefaultName(v)} : NameVar(v, name)

OSpec == OInit /\ [][ONext]_objcVars

----------------------------------------------------------------------------
ObjcTypeOK ==
    /\ names \in [ObjcVars -> (Bases \cup {"a", "v"}) \X Nat]
    /\ \A v \in ObjcVars : IsDefaultName(names[v]) => names[v] = DefaultName(v)
    /\ options \in OptionChoices /\ namings \in 0..MaxNamings

(* What says how v should be called: the method's keyword, the result of a *)
(* getter, the keyword it is passed under; with its place, that of the     *)
(* source first.                                                           *)
SaysMethod(v) ==
    IF "args" \in options /\ method.method /\ Arguments = Len(method.pieces) + 2 /\ v \in 2..Arguments
    THEN {Proposal(<<1, v, 0>>, v, ArgName(v))} ELSE {}
SaysGetter(v) ==
    {Proposal(<<2, i, 0>>, v, method.calls[i].getter) :
        i \in {j \in DOMAIN method.calls :
                 LET c == method.calls[j]
                 IN  "getters" \in options /\ c.getter # NoGuess /\ c.target = v /\ c.passed = <<>>}}
SaysKeyword(v) ==
    UNION {LET c == method.calls[i]
           IN  {Proposal(<<3, i, k>>, v, c.pieces[k]) :
                  k \in {j \in DOMAIN c.pieces : /\ "callee-args" \in options /\ Len(c.passed) = Len(c.pieces)
                                                 /\ c.passed[j] = v /\ c.pieces[j] # NoGuess}} :
             i \in DOMAIN method.calls}
Says(v) == SaysMethod(v) \cup SaysGetter(v) \cup SaysKeyword(v)

Precedes(x, y) == \E k \in 1..3 : x[k] < y[k] /\ \A j \in 1..(k - 1) : x[j] = y[j]
Best(v) == CHOOSE s \in Says(v) : \A t \in Says(v) \ {s} : Precedes(s.at, t.at)

(* ObjcLvarRenameHook: through reloads with other options and names that   *)
(* the user gives or takes back, a variable has the name that the first of *)
(* the best source's proposals gave it when it had none; of two that want  *)
(* the same name the better proposal has the lower number; and no two      *)
(* variables of the function have the same name.                           *)
RankedStep ==
    RenameLvars =>
        /\ \A v \in ObjcVars :
             IF ~IsDefaultName(names[v]) \/ Says(v) = {} THEN names'[v] = names[v]
             ELSE names'[v][1] = Best(v).base
        /\ \A u, v \in ObjcVars :
             /\ u # v => names'[u] # names'[v]
             /\ (/\ names'[u] # names[u] /\ names'[v] # names[v] /\ names'[u][1] = names'[v][1]
                 /\ Precedes(Best(u).at, Best(v).at)) => names'[u][2] < names'[v][2]
ProposalsAreRanked == [][RankedStep]_objcVars

=============================================================================

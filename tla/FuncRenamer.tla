----------------------------- MODULE FuncRenamer ----------------------------
(***************************************************************************)
(* Kernelcache: variables are named and typed after the calls of           *)
(* well-known functions whose arguments are constants                      *)
(* (plugins/kernelcache/func_renamers).  What the calls of a function say  *)
(* is collected while its microcode is visited, and applied at the end.    *)
(***************************************************************************)
EXTENDS Integers, Sequences, FiniteSets

CONSTANTS
    KernelFuncs,        \* the functions whose calls are looked at
    Globals, Locals,
    Programs,           \* bound: function -> its calls, in the order of the visit
    Fixed,              \* the strings that are passed -> the same without dashes and blanks
    MaxEdits,           \* bound: names the user gives
    DefaultForce        \* force_name_change of a VariableModification that does not say

NoKey == "not const"
NoType == <<"no type", 0>>
NoName == <<"no name", "", 0>>

(* A call: the handler of its target, or "log" or another one; the key, its*)
(* string argument; what it is an operand of, innermost first; the operand *)
(* that is modified; the size of a boot argument.  An operand: the variable*)
(* it ends in, and what is around it, "address" or "extension".            *)
ProperCall(c) == /\ c.op.base \in {"none", "local", "global"}
                 /\ c.op.base = "local" => c.op.id \in Locals
                 /\ c.op.base = "global" => c.op.id \in Globals

ASSUME RenamerAssumption ==
    /\ IsFiniteSet(KernelFuncs) /\ IsFiniteSet(Globals) /\ DefaultForce \in BOOLEAN /\ MaxEdits \in Nat
    /\ \A p \in Programs : \A f \in KernelFuncs :
          /\ p[f] \in Seq({p[f][i] : i \in DOMAIN p[f]})
          /\ \A i \in DOMAIN p[f] : ProperCall(p[f][i])

VARIABLES
    prog,       \* function -> its calls
    found,      \* the handlers whose function can be found in the database
    local,      \* the handlers of the matcher of decompilations
    global,     \* {} or the set of the handlers of the matcher of the mass renaming
    gvars,      \* global -> [name, user, type]
    lvars,      \* function -> variable -> [name, user, type]
    fnames,     \* function -> [name, user]
    edits       \* how many names the user has given

renVars == <<prog, found, local, global, gvars, lvars, fnames, edits>>

(* handlers.py: what is named, with which prefix, and typed.               *)
Handler ==
    [symbol    |-> [names |-> "assignee", prefix |-> "sym",  type |-> <<"OSSymbol", 1>>],
     plane     |-> [names |-> "assignee", prefix |-> "plane", type |-> <<"IORegistryPlane", 1>>],
     metaclass |-> [names |-> "param", prefix |-> "gMetaclass", type |-> <<"OSMetaClass", 1>>],
     boot      |-> [names |-> "param", prefix |-> "boot", type |-> <<"of size", 1>>],
     get       |-> [names |-> "assignee", prefix |-> "val", type |-> NoType],
     set       |-> [names |-> "param", prefix |-> "val", type |-> NoType]]
GlobalHandlers == <<"symbol", "plane", "metaclass">>
Handlers == DOMAIN Handler

Fresh(v) == [name |-> <<v, "", 0>>, user |-> FALSE, type |-> NoType]

----------------------------------------------------------------------------
(* _try_extract_assignee: a cast passes the value on to what it is an      *)
(* operand of.                                                             *)
HasAssignee(c) ==
    \E n \in 1..Len(c.parents) : c.parents[n] = "move" /\ \A k \in 1..(n - 1) : c.parents[k] = "cast"

Reaches(c) == c.op.base # "none" /\ (Handler[c.h].names = "assignee" => HasAssignee(c))
Wraps(c, kind) == {i \in DOMAIN c.op.path : c.op.path[i] = kind}

(* The type, without a pointer for every address that is taken.            *)
TypeGiven(c) ==
    LET type == IF c.h = "boot" THEN IF c.size = 0 THEN NoType ELSE <<"of size", c.size, 1>>
                ELSE Handler[c.h].type
    IN  IF type = NoType THEN NoType
        ELSE [type EXCEPT ![Len(type)] = @ - Cardinality(Wraps(c, "address"))]

NoMod == [name |-> NoName, type |-> NoType, force |-> FALSE]

\* Mutant: a modification replaces the one before it.
Replaced(original, new) == new

(* _merge_modifications: the new one's, where it says something.           *)
Merged(original, new) ==
    [name |-> IF new.name # NoName THEN new.name ELSE original.name,
     type |-> IF new.type # NoType THEN new.type ELSE original.type,
     force |-> new.force \/ original.force]

Modify(mods, c, mod) ==
    CASE c.op.base = "global" -> [mods EXCEPT !.globals[c.op.id] = Merged(@, mod)]
      [] c.op.base = "local" -> [mods EXCEPT !.locals[c.op.id] = Merged(@, mod)]

(* on_call: the name first, then the type.  A field is left alone.         *)
OnCall(mods, c) ==
    IF ~Reaches(c) THEN mods
    ELSE LET named == IF c.key = NoKey THEN mods
                      ELSE Modify(mods, c, [NoMod EXCEPT !.name = <<Handler[c.h].prefix, c.key, 0>>])
         IN  IF TypeGiven(c) = NoType THEN named
             ELSE Modify(named, c, [NoMod EXCEPT !.type = TypeGiven(c), !.force = DefaultForce])

(* match_indirect_call for virtual functions, the address for the others.  *)
Matches(c, matcher) == c.h \in matcher /\ (c.h \in {"get", "set"} => c.on = "IORegistryEntry")

(* process_function_calls.                                                 *)
Collected(calls, matcher) ==
    LET f[i \in 0..Len(calls)] ==
          IF i = 0 THEN [locals |-> [v \in Locals |-> NoMod], globals |-> [g \in Globals |-> NoMod]]
          ELSE IF Matches(calls[i], matcher)
          THEN CHOOSE r \in {OnCall(mods, calls[i]) : mods \in {f[i - 1]}} : TRUE
          ELSE f[i - 1]
    IN  f[Len(calls)]

----------------------------------------------------------------------------
(* memory.set_name with retry: the first number that makes it unique.      *)
Unique(gs, g, base) ==
    LET free == {n \in 0..Cardinality(Globals) : \A o \in Globals \ {g} : gs[o].name # <<base[1], base[2], n>>}
    IN  <<base[1], base[2], CHOOSE n \in free : \A k \in free : n <= k>>

Typed(var, mod) == IF mod.type = NoType THEN var ELSE [var EXCEPT !.type = mod.type]

(* _fix_modifications_name.                                                *)
FixedName(name) == IF name = NoName THEN NoName ELSE [name EXCEPT ![2] = Fixed[@]]

(* _apply_global_modifications: a name the user, or an earlier renaming,   *)
(* gave stays, and the type with it.                                       *)
ApplyGlobal(gs, g, mod) ==
    IF mod = NoMod \/ (~mod.force /\ gs[g].user) THEN gs
    ELSE IF mod.name = NoName THEN [gs EXCEPT ![g] = Typed(@, mod)]
    ELSE [gs EXCEPT ![g] = [Typed(@, mod) EXCEPT !.name = Unique(gs, g, FixedName(mod.name)), !.user = TRUE]]

ApplyGlobals(gs, globals) ==
    LET order == CHOOSE s \in [1..Cardinality(Globals) -> Globals] : {s[i] : i \in DOMAIN s} = Globals
        f[i \in 0..Cardinality(Globals)] ==
          IF i = 0 THEN gs
          ELSE CHOOSE r \in {ApplyGlobal(acc, order[i], globals[order[i]]) : acc \in {f[i - 1]}} : TRUE
    IN  f[Cardinality(Globals)]

(* perform_lvar_modifications_during_decompilation.                        *)
ApplyLocal(var, mod) ==
    LET typed == Typed(var, mod)
    IN  IF mod.name = NoName \/ (var.user /\ ~mod.force) THEN typed
        ELSE [typed EXCEPT !.name = FixedName(mod.name), !.user = TRUE]

----------------------------------------------------------------------------
RInit ==
    /\ prog \in Programs /\ found \in {Handlers, Handlers \ {"symbol"}}
    /\ local = {} /\ global = {}
    /\ gvars = [g \in Globals |-> Fresh(g)]
    /\ lvars = [f \in KernelFuncs |-> [v \in Locals |-> Fresh(v)]]
    /\ fnames = [f \in KernelFuncs |-> [name |-> <<f, "", 0>>, user |-> FALSE]]
    /\ edits = 0

(* hooks(): the handlers that can be found now, for as long as the modules *)
(* stay loaded; a reload of the plugin runs it again.                      *)
Load ==
    /\ local' = found /\ global' = {}
    /\ UNCHANGED <<prog, found, gvars, lvars, fnames, edits>>

(* IDA's analysis, or the user, comes to name the function.                *)
Find(h) ==
    /\ h \notin found /\ found' = found \cup {h}
    /\ UNCHANGED <<prog, local, global, gvars, lvars, fnames, edits>>

(* LocalRenameHooks at CMAT_CASTED.                                        *)
Decompile(f) ==
    /\ \E mods \in {Collected(prog[f], local)} :
         /\ lvars' = [lvars EXCEPT ![f] = [v \in Locals |-> ApplyLocal(@[v], mods.locals[v])]]
         /\ gvars' = ApplyGlobals(gvars, mods.globals)
    /\ UNCHANGED <<prog, found, local, global, fnames, edits>>

Callers(h) == {f \in KernelFuncs : \E i \in DOMAIN prog[f] : prog[f][i].h = h}
Targets == found \cap {GlobalHandlers[i] : i \in DOMAIN GlobalHandlers}

(* apply_global_rename: for every handler the functions that call it, with *)
(* all the handlers of the matcher, which is made once; globals only.      *)
Matcher == IF global = {} THEN Targets ELSE CHOOSE m \in global : TRUE
Order == CHOOSE s \in [1..Cardinality(KernelFuncs) -> KernelFuncs] : {s[i] : i \in DOMAIN s} = KernelFuncs

MassRename ==
    /\ \E m \in {Matcher} :
         LET n == Cardinality(KernelFuncs)
             f[i \in 0..(n * Len(GlobalHandlers))] ==
               IF i = 0 THEN gvars
               ELSE LET h == GlobalHandlers[1 + ((i - 1) \div n)]
                        func == Order[1 + ((i - 1) % n)]
                    IN  IF h \in found /\ func \in Callers(h)
                        THEN CHOOSE r \in {ApplyGlobals(gs, Collected(prog[func], m).globals) : gs \in {f[i - 1]}} : TRUE
                        ELSE f[i - 1]
         IN  gvars' = f[n * Len(GlobalHandlers)] /\ global' = {m}
    /\ UNCHANGED <<prog, found, local, lvars, fnames, edits>>

(* rename_function_by_arg: every caller of a log function by the last      *)
(* constant it passes.                                                     *)
LogKeys(f) == {i \in DOMAIN prog[f] : prog[f][i].h = "log" /\ prog[f][i].key # NoKey}
NamedByArg(f, force) == LogKeys(f) # {} /\ (force \/ ~fnames[f].user)

RenameByArg(force) ==
    /\ fnames' = [f \in KernelFuncs |->
         IF ~NamedByArg(f, force) THEN fnames[f]
         ELSE [name |-> <<"func", prog[f][CHOOSE i \in LogKeys(f) : \A j \in LogKeys(f) : j <= i].key, 0>>,
               user |-> TRUE]]
    /\ UNCHANGED <<prog, found, local, global, gvars, lvars, edits>>

(* The user names something.                                               *)
Edit == edits < MaxEdits /\ edits' = edits + 1 /\ UNCHANGED <<prog, found, local, global>>

NameGlobal(g) ==
    /\ Edit /\ gvars' = [gvars EXCEPT ![g].name = <<"user", g, 0>>, ![g].user = TRUE]
    /\ UNCHANGED <<lvars, fnames>>
NameLocal(f, v) ==
    /\ Edit /\ lvars' = [lvars EXCEPT ![f][v].name = <<"user", v, 0>>, ![f][v].user = TRUE]
    /\ UNCHANGED <<gvars, fnames>>
NameFunc(f) ==
    /\ Edit /\ fnames' = [fnames EXCEPT ![f] = [name |-> <<"user", f, 0>>, user |-> TRUE]]
    /\ UNCHANGED <<gvars, lvars>>

RNext ==
    \/ Load \/ MassRename
    \/ \E h \in Handlers : Find(h)
    \/ \E f \in KernelFuncs : Decompile(f) \/ NameFunc(f) \/ \E v \in Locals : NameLocal(f, v)
    \/ \E g \in Globals : NameGlobal(g)
    \/ \E force \in BOOLEAN : RenameByArg(force)

RSpec == RInit /\ [][RNext]_renVars

----------------------------------------------------------------------------
RenamerTypeOK ==
    /\ local \subseteq Handlers /\ Cardinality(global) <= 1 /\ edits \in 0..MaxEdits
    /\ \A g, o \in Globals : gvars[g].name = gvars[o].name => g = o

(* The calls of f that name, or type, a variable.                          *)
Naming(f, base, id) ==
    {i \in DOMAIN prog[f] : /\ Matches(prog[f][i], local) /\ Reaches(prog[f][i])
                            /\ prog[f][i].op.base = base /\ prog[f][i].op.id = id /\ prog[f][i].key # NoKey}
Typing(f, base, id) ==
    {i \in DOMAIN prog[f] : /\ Matches(prog[f][i], local) /\ Reaches(prog[f][i])
                            /\ prog[f][i].op.base = base /\ prog[f][i].op.id = id
                            /\ TypeGiven(prog[f][i]) # NoType}
Forced(f, base, id) == DefaultForce /\ Typing(f, base, id) # {}
IsLast(i, S) == i \in S /\ \A j \in S : j <= i

(* The handlers and _merge_modifications: after a decompilation a variable *)
(* has the name that the last call with a constant gives it and the type   *)
(* of the last call that types it, whichever of the two comes first and    *)
(* whatever other calls say in between, except that a global of the user's *)
(* that is not forced is left as it was.                                   *)
LastCallsStep ==
    \A f \in KernelFuncs : Decompile(f) =>
        /\ \A v \in Locals :
             /\ \A i \in Naming(f, "local", v) :
                  IsLast(i, Naming(f, "local", v)) /\ (lvars[f][v].user => Forced(f, "local", v))
                  => lvars'[f][v].name = <<Handler[prog[f][i].h].prefix, Fixed[prog[f][i].key], 0>>
             /\ \A i \in Typing(f, "local", v) :
                  IsLast(i, Typing(f, "local", v)) => lvars'[f][v].type = TypeGiven(prog[f][i])
        /\ \A g \in Globals :
             IF gvars[g].user /\ ~Forced(f, "global", g) THEN gvars'[g] = gvars[g]
             ELSE /\ \A i \in Naming(f, "global", g) :
                       IsLast(i, Naming(f, "global", g)) =>
                         gvars'[g].name[1] = Handler[prog[f][i].h].prefix /\ gvars'[g].name[2] = Fixed[prog[f][i].key]
                  /\ \A i \in Typing(f, "global", g) :
                       IsLast(i, Typing(f, "global", g)) => gvars'[g].type = TypeGiven(prog[f][i])

LastCallsCount == [][LastCallsStep]_renVars

=============================================================================

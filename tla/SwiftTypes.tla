----------------------------- MODULE SwiftTypes -----------------------------
(***************************************************************************)
(* Prototypes of Swift functions and the decompiler's cache of functions   *)
(* (plugins/swift/swift_types: swift_types.py, and the frames and closures *)
(* of prolog_rewrite.py).  A prototype is changed before, inside and after *)
(* decompilations; a decompilation shows the prototype it began with, and  *)
(* what is marked dirty inside one is forgotten when its result is stored. *)
(***************************************************************************)
EXTENDS Integers, Sequences

CONSTANTS
    Order,          \* the functions, as the program lists them
    Programs,       \* bound: the programs, see below
    NativeSwift,    \* IDA 9.4 or later: __swiftcall and __swiftself
    UserTypes,      \* bound: the prototypes the user may set
    Sizes,          \* bound: bytes of dynamic alloca the user may patch in
    MaxEdits        \* bound: what the user changes

Funcs == {Order[i] : i \in 1..Len(Order)}
NoSite == "no site"

(* A program: x20 - functions that use X20 before their first call;        *)
(* imports - stubs, whose arguments only a caller shows; throws; calls;    *)
(* passes - the closure bodies a function hands to an API; small - bodies  *)
(* of at most _TRAMPOLINE_MAX_BYTES; rigid - frames IDA does not resize;   *)
(* late - functions found after the start; alloca - bytes of dynamic       *)
(* alloca; table - the prototypes in the table of signatures.              *)

(* A prototype: self, an argument in X20; plain, a first argument `id self`*)
(* elsewhere; captures, the call site whose struct X20 points to.          *)
NoProto == [cc |-> "none", self |-> FALSE, plain |-> FALSE, captures |-> NoSite, spoils |-> FALSE]
NotCached == [NoProto EXCEPT !.cc = "not cached"]
HasX20(p) == p.self \/ p.captures # NoSite

ProtoType == [cc : {"none", "native", "swift", "special"}, self : BOOLEAN, plain : BOOLEAN,
              captures : Funcs \cup {NoSite}, spoils : BOOLEAN]

ProgramType == [
    x20 : SUBSET Funcs, imports : SUBSET Funcs, throws : SUBSET Funcs, small : SUBSET Funcs,
    rigid : SUBSET Funcs, late : SUBSET Funcs, calls : [Funcs -> SUBSET Funcs],
    passes : [Funcs -> SUBSET Funcs], alloca : [Funcs -> Nat], table : [Funcs -> ProtoType]]

(* A prototype of the table or of the user: it has no struct of captures,  *)
(* which only the plugin makes, and one with a self is a prototype.        *)
Foreign(p) == p.captures = NoSite /\ (p.self => p.cc # "none")

ASSUME SwiftAssumption ==
    /\ Order \in Seq(Funcs) /\ MaxEdits \in Nat /\ Sizes \subseteq Nat
    /\ Programs \subseteq ProgramType
    /\ \A p \in Programs : \A f \in Funcs : Foreign(p.table[f])
    /\ UserTypes \subseteq ProtoType /\ \A p \in UserTypes : Foreign(p)

VARIABLES
    code,       \* the program
    db,         \* proto, cache, printed, alloca, frame, grown, bodyOf, layout, started
    present,    \* functions IDA knows
    missed,     \* history: views in a row without the stored X20 argument
    edits       \* bounded: changes of the user

swiftVars == <<code, db, present, missed, edits>>

MarkDirty(d, f) == [d EXCEPT !.cache[f] = NotCached]

----------------------------------------------------------------------------
(* The class-call hook.                                                    *)

\* A prototype is not written over: one with a self, or one that is rewritten
\* as text that does not parse (__usercall is not stripped).
Typeable(p) == p.cc = "none" \/ (~p.self /\ p.cc # "special")

(* An `id self` in front is kept as it is: natively it is not in X20.      *)
ClassCallType(p) ==
    [p EXCEPT !.cc = "swift", !.self = ~(p.plain /\ NativeSwift)]

UsesX20(f) == f \in code.x20

ClassCall(d, f) ==
    IF UsesX20(f) /\ Typeable(d.proto[f]) THEN [d EXCEPT !.proto[f] = ClassCallType(@)] ELSE d

FuncAdded(d, f) ==
    IF UsesX20(f) /\ Typeable(d.proto[f]) THEN MarkDirty(ClassCall(d, f), f) ELSE d

----------------------------------------------------------------------------
(* The prolog hook: frames, and the closures a function passes on.         *)

\* What the instructions of a function show.
DynamicAlloca(d, f) == d.alloca[f]
ClosureBodies(f) == code.passes[f]
IsTrampoline(b) == b \in code.small

\* Mutant: what an earlier run added is not taken off.
GrowsAgain(d, f) ==
    IF DynamicAlloca(d, f) \in {0, d.grown[f]} \/ f \in code.rigid THEN d
    ELSE [d EXCEPT !.frame[f] = @ + d.alloca[f], !.grown[f] = d.alloca[f]]

\* Mutant: the two sizes are swapped.
ShrinksFrame(d, f) ==
    IF DynamicAlloca(d, f) \in {0, d.grown[f]} \/ f \in code.rigid THEN d
    ELSE [d EXCEPT !.frame[f] = @ + d.grown[f] - d.alloca[f], !.grown[f] = d.alloca[f]]

(* _expand_frame_for_swift_dynamic_allocas, at the flowchart.              *)
ExpandFrame(d, f) ==
    IF DynamicAlloca(d, f) \in {0, d.grown[f]} \/ f \in code.rigid THEN d
    ELSE [d EXCEPT !.frame[f] = @ - d.grown[f] + d.alloca[f], !.grown[f] = d.alloca[f]]

ApplyCaptures(p, site) ==
    IF HasX20(p) THEN p ELSE [p EXCEPT !.captures = site, !.cc = "special"]

(* The call site is the function that has it: one call per body.           *)
EnsureLayout(layout, site) == [layout EXCEPT ![site] = IF @ = "none" THEN "slots" ELSE @]

TypeClosures(d, f) ==
    LET bodies == ClosureBodies(f)
    IN  [d EXCEPT
          !.layout = IF bodies = {} THEN @ ELSE EnsureLayout(@, f),
          !.bodyOf = [b \in Funcs |-> IF b \in bodies THEN f ELSE @[b]],
          !.proto = [b \in Funcs |-> IF b \in bodies /\ IsTrampoline(b) THEN ApplyCaptures(@[b], f) ELSE @[b]],
          !.cache = [b \in Funcs |-> IF b \in bodies THEN NotCached ELSE @[b]]]

\* Mutant: the stored prototype is not looked at.
TypesAgain(d, f, seen) ==
    IF d.bodyOf[f] = NoSite THEN d
    ELSE [d EXCEPT !.proto[f] = [seen EXCEPT !.captures = d.bodyOf[f], !.cc = "special"]]

(* _type_closure_body_x20_lvar: on top of the prototype that is decompiled.*)
TypeBody(d, f, seen) ==
    IF d.bodyOf[f] = NoSite \/ HasX20(d.proto[f]) THEN d
    ELSE [d EXCEPT !.proto[f] = [seen EXCEPT !.captures = d.bodyOf[f], !.cc = "special"]]

PrologCpa(d, f, seen) == TypeBody(TypeClosures(d, f), f, seen)

----------------------------------------------------------------------------
(* A decompilation: the flowchart, the hooks of CMAT_CPA in either order,  *)
(* the class-call hook once more, the storage.                             *)

Inferred(d, f) ==   \* what IDA writes back about the stubs that are called
    [d EXCEPT !.proto = [g \in Funcs |->
        IF g \in code.calls[f] \cap code.imports /\ @[g].cc = "none" THEN [@[g] EXCEPT !.cc = "native"] ELSE @[g]]]

StoreResult(d, f, seen) == [d EXCEPT !.cache[f] = seen, !.printed[f] = FALSE]

Decompile(d, f, first) ==
    IF d.cache[f] # NotCached THEN d
    ELSE LET seen == d.proto[f]
             start == Inferred(ExpandFrame(d, f), f)
             cpa == IF first = "class" THEN PrologCpa(ClassCall(start, f), f, seen)
                    ELSE ClassCall(PrologCpa(start, f, seen), f)
         IN  StoreResult(ClassCall(cpa, f), f, seen)

Stale(d, f) ==
    \/ d.proto[f].self /\ ~d.cache[f].self
    \/ d.proto[f].captures # NoSite /\ d.cache[f].captures = NoSite

\* Mutant: dirty is marked inside the decompilation only.
PrintsOnly(d, f) == [d EXCEPT !.printed[f] = TRUE]

(* func_printed of both hooks, when the text is made.                      *)
FuncPrinted(d, f) ==
    IF d.printed[f] THEN d
    ELSE IF Stale(d, f) THEN MarkDirty(d, f)
    ELSE [d EXCEPT !.printed[f] = TRUE]

----------------------------------------------------------------------------
(* The start: the table of signatures, the functions that throw, the       *)
(* methods that use X20.                                                   *)

HasArguments(d, f) == d.proto[f].cc # "none" \/ f \notin code.imports

Callers(f) == {i \in 1..Len(Order) : f \in code.calls[Order[i]]}

(* _resolve_func_tinfo decompiles one caller when nothing else is known.   *)
ResolveType(d, f) ==
    IF HasArguments(d, f) \/ Callers(f) = {} THEN d
    ELSE Decompile(d, Order[CHOOSE i \in Callers(f) : \A j \in Callers(f) : i <= j], "class")

\* What xcrun swift-demangle says of the name of a function, if there is one.
Throws(f) == f \in code.throws

EnsureSpoils(d, f) ==
    IF HasArguments(d, f) /\ ~d.proto[f].spoils
    THEN [d EXCEPT !.proto[f].spoils = TRUE, !.proto[f].cc = "special"] ELSE d

Throwing(d) ==
    LET f[i \in 0..Len(Order)] ==
          IF i = 0 THEN d
          ELSE IF Throws(Order[i])
               THEN CHOOSE r \in {EnsureSpoils(e, Order[i]) : e \in {ResolveType(f[i - 1], Order[i])}} : TRUE
          ELSE f[i - 1]
    IN  f[Len(Order)]

ClassCallAll(d) ==
    [d EXCEPT !.proto = [f \in Funcs |->
        IF f \in present /\ UsesX20(f) /\ Typeable(@[f]) THEN ClassCallType(@[f]) ELSE @[f]]]

(* FUNCTIONS_SIGNATURES: the prototypes of the functions it knows, in the  *)
(* words of IDA 9.4; before, __swiftcall becomes __swiftClassCall, which   *)
(* has its first argument in X20.                                          *)
Signature(f) == code.table[f]
Adapted(p) == IF p.cc = "swift" THEN [p EXCEPT !.self = @ \/ ~NativeSwift] ELSE p
Signed(d) ==
    [d EXCEPT !.proto = [f \in Funcs |-> IF Signature(f) # NoProto THEN Adapted(Signature(f)) ELSE @[f]]]

Loaded(p) ==
    [proto |-> [f \in Funcs |-> NoProto], cache |-> [f \in Funcs |-> NotCached],
     printed |-> [f \in Funcs |-> FALSE], alloca |-> p.alloca,
     frame |-> [f \in Funcs |-> 0], grown |-> [f \in Funcs |-> 0],
     bodyOf |-> [f \in Funcs |-> NoSite], layout |-> [f \in Funcs |-> "none"], started |-> FALSE]

SInit ==
    /\ code \in Programs
    /\ present = Funcs \ code.late
    /\ db = Loaded(code)
    /\ missed = [f \in Funcs |-> 0]
    /\ edits = 0

FixSwiftTypes ==
    /\ ~db.started
    /\ db' = [ClassCallAll(Throwing(Signed(db))) EXCEPT !.started = TRUE]
    /\ UNCHANGED <<code, present, missed, edits>>

----------------------------------------------------------------------------
(* The user looks at a function, changes its type, the struct of a call    *)
(* site or its code; IDA finds a function.                                 *)
View(f) ==
    /\ db.started /\ f \in present
    /\ \E first \in {"class", "prolog"} : \E d \in {Decompile(db, f, first)} :
         /\ db' = FuncPrinted(d, f)
         /\ missed' = [missed EXCEPT ![f] = IF Stale(d, f) THEN @ + 1 ELSE 0]
    /\ UNCHANGED <<code, present, edits>>

AddFunction(f) ==
    /\ db.started /\ f \notin present
    /\ present' = present \cup {f}
    /\ db' = FuncAdded(db, f)
    /\ UNCHANGED <<code, missed, edits>>

Edit(d) ==
    /\ db.started /\ edits < MaxEdits /\ edits' = edits + 1
    /\ db' = d
    /\ UNCHANGED <<code, present>>

EditType(f, p) == Edit(MarkDirty([db EXCEPT !.proto[f] = p], f)) /\ missed' = [missed EXCEPT ![f] = 0]
EditLayout(f) == db.layout[f] = "slots" /\ Edit([db EXCEPT !.layout[f] = "user"]) /\ UNCHANGED missed
Patch(f, size) == Edit(MarkDirty([db EXCEPT !.alloca[f] = size], f)) /\ UNCHANGED missed

SNext ==
    \/ FixSwiftTypes
    \/ \E f \in Funcs :
         \/ View(f) \/ AddFunction(f) \/ EditLayout(f)
         \/ \E p \in UserTypes : EditType(f, p)
         \/ \E size \in Sizes : Patch(f, size)

SwiftSpec == SInit /\ [][SNext]_swiftVars

----------------------------------------------------------------------------
SwiftTypeOK ==
    /\ present \subseteq Funcs /\ edits \in 0..MaxEdits
    /\ \A f \in Funcs :
         /\ db.proto[f] \in ProtoType /\ db.cache[f] \in ProtoType \cup {NotCached}
         /\ db.frame[f] \in Nat /\ db.grown[f] \in Nat /\ missed[f] \in Nat
         /\ db.bodyOf[f] \in Funcs \cup {NoSite} /\ db.layout[f] \in {"none", "slots", "user"}

(* The two hooks type X20 for different reasons and in either order, from  *)
(* the stored prototype or from the one being decompiled; no function gets *)
(* two arguments in X20 (prolog_rewrite.py:797, swift_types.py:761).       *)
OneX20Argument == \A f \in Funcs : ~(db.proto[f].self /\ db.proto[f].captures # NoSite)

(* The comment of SwiftClassCallHook.func_printed: a function whose stored *)
(* prototype has the X20 argument is shown without it once at most; the    *)
(* next time it is decompiled again.                                       *)
StaleShownOnce == \A f \in Funcs : missed[f] <= 1

(* _expand_frame_for_swift_dynamic_allocas: however the code is patched,   *)
(* a frame has grown by what is on record, and a function that is cached   *)
(* was decompiled with room for its allocas.                               *)
FrameMatchesRecord ==
    \A f \in Funcs :
      /\ db.frame[f] = db.grown[f]
      /\ db.cache[f] # NotCached /\ f \notin code.rigid => db.alloca[f] \in {0, db.grown[f]}

=============================================================================

--------------------------- MODULE BlockAnalysis ---------------------------
(***************************************************************************)
(* The analysis of the Clang blocks of one function (plugins/common/       *)
(* clang_blocks/analyzer): the hook that queues it on the UI event loop,   *)
(* the manual actions, the pipeline with its persisted marker, and the     *)
(* names and types it shares with the user, who edits them as well.        *)
(*                                                                         *)
(* A name is <<base, number, suffix>>: v8 is <<"v", 8, 0>>, stack_block1   *)
(* is <<"stack_block", 1, 0>>; the suffix is what makes a name unique.  A  *)
(* type is "val" or "ptr" (a pointer) to what is pointed to.               *)
(***************************************************************************)
EXTENDS Integers, Sequences, FiniteSets

CONSTANTS
    NV,             \* the local variables, 1..NV in declaration order
    Args,           \* those that are arguments of the function
    StackBlocks,    \* those IDA's stack-block analysis types as blocks
    GlobalRefs,     \* those assigned the address of a global block literal
    ByrefInits,     \* those the microcode initialises as __block structs
    Fields,         \* capture fields: <<struct, number>>
    Captures,       \* the assignments into the fields of the stack blocks
    TypeName,       \* name derived from the pointer type of each variable
    OptionChoices,  \* the steps enabled: subsets of Steps
    UserNames,      \* names the user gives
    EditedVars, EditedFields,  \* bound: what he edits
    MaxEdits,       \* bound: edits of the user
    MaxViews        \* bound: views of the function opened

Vars == 1..NV
Steps == {"auto", "byref", "rename_fields", "retype_fields", "rename_blocks"}
NoName == <<"", 0, 0>>
AnyName == STRING \X Nat \X Nat
GivenBases == {"v", "lvar", "block", "stack_block", "byref_block", "global_block"}

(* An assignment  block.field = source : a variable v, its address, a      *)
(* member p->name of another struct, or something else.                    *)
Capture == [block : StackBlocks, field : Fields, kind : {"var", "ref", "member", "other"},
            var : Vars, name : {NoName} \cup UserNames,
            cast : BOOLEAN,     \* a cast assignment
            fits : BOOLEAN]     \* the source's type has the field's size

ASSUME BlocksAssumption ==
    /\ NV \in Nat /\ MaxEdits \in Nat /\ MaxViews \in Nat
    /\ Args \cup StackBlocks \cup GlobalRefs \cup ByrefInits \cup EditedVars \subseteq Vars
    /\ EditedFields \subseteq Fields /\ IsFiniteSet(Fields)
    /\ \A f \in Fields : f = <<f[1], f[2]>> /\ f[2] \in Nat
    /\ UserNames \subseteq AnyName /\ \A n \in UserNames : n[1] \notin GivenBases
    /\ TypeName \in [Vars -> AnyName] /\ \A v \in Vars : TypeName[v][1] \notin GivenBases
    /\ StackBlocks \cap (ByrefInits \cup GlobalRefs) = {}
    /\ Captures \in Seq(Capture)
    /\ OptionChoices \subseteq SUBSET Steps

VARIABLES
    db,        \* names and types of variables and fields, in the database
    marker,    \* the function is marked as analyzed, in the database
    queue,     \* queued runs of the analysis, each with its options
    opts,      \* the options of the hook and the actions
    edits, views,  \* what the user did so far
    settled,   \* options of the last completed run, if nothing changed since
    autoRuns   \* completed runs from the queue

vars == <<db, marker, queue, opts, edits, views, settled, autoRuns>>
user == <<edits, views>>

----------------------------------------------------------------------------
(* Names.                                                                  *)
IsDefaultName(n)    == n[1] = "v"      \* v8, a1, ...
IsDefaultUdmName(n) == n[1] = "lvar"
IsGenericBlock(n)   == n[1] = "block"  \* block, blocka, block_4
IsRoleName(n)       == n[1] = "self"

(* unique_name: the first free suffix (the mutant takes the name as it is).*)
NameAsWanted(n, taken) == n
UniqueName(n, taken) ==
    CHOOSE u \in {<<n[1], n[2], s>> : s \in n[3]..(n[3] + Cardinality(taken))} :
        /\ u \notin taken
        /\ \A s \in n[3]..(u[3] - 1) : <<n[1], n[2], s>> \in taken

VarNames(d) == {d.vname[v] : v \in Vars}
Siblings(d, f) == {d.fname[g] : g \in {h \in Fields : h[1] = f[1] /\ h # f}}

----------------------------------------------------------------------------
(* The block variables of a decompiled function.                           *)
KindOf(d, v) == IF d.vtype[v] = "block" THEN "stack_block"
                ELSE IF d.vtype[v] = "byref" THEN "byref_block"
                ELSE IF v \in GlobalRefs THEN "global_block" ELSE "none"

BlockVars(d) == {v \in Vars : KindOf(d, v) # "none"}

(* IDA's own analysis types the stack blocks it has not typed yet.         *)
StackAnalysis(d) ==
    LET new == {b \in StackBlocks : d.vtype[b] = "raw"} IN
    [d EXCEPT !.vtype = [v \in Vars |-> IF v \in new THEN "block" ELSE @[v]],
              !.vname = [v \in Vars |->
                            IF v \in new /\ IsDefaultName(@[v])
                            THEN <<"block", v, 0>> ELSE @[v]],
              !.vuser = @ \cup new]

(* A decompilation shows the captures of the blocks typed so far.          *)
Seen(d, c) == d.vtype[c.block] = "block"

(* try_add_block_arg_byref_to_func: the initialised structs that a capture *)
(* refers to; of several captures of one, the last one's field is typed.   *)
RefCaptures == {i \in DOMAIN Captures : Captures[i].kind = "ref" /\ Captures[i].var \in ByrefInits}
ByrefCaptures(d) == {i \in RefCaptures : Seen(d, Captures[i]) /\ d.vtype[Captures[i].var] # "byref"}
ByrefFound(d) == {Captures[i].var : i \in ByrefCaptures(d)}
ByrefFields(d) ==
    LET caps == ByrefCaptures(d) IN
    {Captures[i].field : i \in {j \in caps : \A k \in caps : k > j => Captures[k].var # Captures[j].var}}

TypeByrefFields(d) ==
    LET typed == ByrefFields(d) IN
    [d EXCEPT !.ftype = [f \in Fields |-> IF f \in typed THEN <<"ptr", "byref">> ELSE @[f]]]

TypeByrefs(d) ==
    LET found == ByrefFound(d) IN
    [TypeByrefFields(d) EXCEPT
        !.vtype = [v \in Vars |-> IF v \in found THEN "byref" ELSE @[v]],
        !.vtyped = @ \cup found]

(* has_better_name.  The mutants take the analyzer's own names for generic *)
(* ones, or keep IDA's.                                                    *)
OnlyUserNameIsBetter(d, v) == v \in d.vuser /\ d.vname[v] \in UserNames
AnyUserNameIsBetter(d, v) == v \in d.vuser /\ ~IsDefaultName(d.vname[v])
HasBetterName(d, v) ==
    v \in d.vuser /\ ~IsDefaultName(d.vname[v]) /\ ~IsGenericBlock(d.vname[v])

(* _plan_block_names: numbered per kind, in declaration order.             *)
Unnamed(d) == {v \in BlockVars(d) : ~HasBetterName(d, v)}

PlannedNames(d) ==
    LET new == Unnamed(d)
        number(v) == Cardinality({u \in new : u <= v /\ KindOf(d, u) = KindOf(d, v)})
    IN [v \in new |-> UniqueName(<<KindOf(d, v), number(v), 0>>, VarNames(d))]

(* What a capture contributes: a name and a type, if any; NoSource for an  *)
(* rvalue that contributes nothing.                                        *)
NoType == <<"", "">>
NoSource == [name |-> NoName, type |-> NoType]

CaptureName(d, plan, v) ==
    LET n == IF v \in DOMAIN plan THEN plan[v] ELSE d.vname[v]
    IN IF IsRoleName(n) /\ TypeName[v] # NoName THEN TypeName[v] ELSE n

VariableSource(d, plan, v, kind) ==
    LET n == CaptureName(d, plan, v) IN
    [name |-> IF IsDefaultName(n) THEN NoName ELSE n,
     type |-> IF v \in d.vtyped \cup Args
              THEN <<IF kind = "ref" THEN "ptr" ELSE "val", d.vtype[v]>> ELSE NoType]

Source(d, plan, c) ==
    IF c.kind \in {"var", "ref"} THEN VariableSource(d, plan, c.var, c.kind)
    ELSE IF c.kind = "member" /\ c.name # NoName
    THEN [name |-> c.name, type |-> <<"val", "member">>]
    ELSE NoSource

Contributes(c) == /\ ~c.cast
                  /\ c.kind \in {"var", "ref"} \/ (c.kind = "member" /\ c.name # NoName)

(* The captures that are synced: the first one of each field of a block.   *)
FirstCaptures ==
    {i \in DOMAIN Captures :
        /\ Contributes(Captures[i])
        /\ \A j \in 1..(i - 1) : \/ Captures[j].block # Captures[i].block
                                 \/ Captures[j].field # Captures[i].field
                                 \/ ~Contributes(Captures[j])}

Synced(d) == {i \in FirstCaptures : Seen(d, Captures[i])}

(* _FieldSyncer.sync, for one capture: now is the database as it has       *)
(* become, d the decompilation, which saw the fields as they were.         *)
(* The mutant does not look at the field's name.                           *)
AnyField(d, f) == TRUE
MayTouch(d, f) == IsDefaultUdmName(d.fname[f])

SyncField(now, d, plan, c, opt) ==
    LET s == Source(d, plan, c)
        named == IF "rename_fields" \in opt /\ s.name # NoName
                 THEN [now EXCEPT !.fname[c.field] = UniqueName(s.name, Siblings(now, c.field))]
                 ELSE now
    IN IF ~MayTouch(d, c.field) THEN now
       ELSE IF "retype_fields" \in opt /\ s.type # NoType /\ c.fits
       THEN [named EXCEPT !.ftype[c.field] = s.type]
       ELSE named

SyncFields(d, plan, opt) ==
    IF opt \cap {"rename_fields", "retype_fields"} = {} THEN d
    ELSE LET f[i \in 0..Len(Captures)] ==
               IF i = 0 THEN d
               ELSE IF i \in FirstCaptures /\ Seen(d, Captures[i])
                    THEN CHOOSE r \in {SyncField(now, d, plan, Captures[i], opt) : now \in {f[i - 1]}} : TRUE
               ELSE f[i - 1]
         IN  f[Len(Captures)]

(* rename_blocks_in_func: the fields, then the block variables.            *)
NameBlocks(d, plan) ==
    [d EXCEPT !.vname = [v \in Vars |-> IF v \in DOMAIN plan THEN plan[v] ELSE @[v]],
              !.vuser = @ \cup DOMAIN plan]

NoPlan == <<>>
RenameAll(d, opt) ==
    UNION {{NameBlocks(f, plan) : f \in {SyncFields(d, plan, opt)}}
           : plan \in {IF "rename_blocks" \in opt THEN PlannedNames(d) ELSE NoPlan}}

----------------------------------------------------------------------------
(* analyze_blocks_in_func: the ways a run on database d can end.  Either   *)
(* decompilation may fail; the byref variables may refuse their new type,  *)
(* or one of them has no variable at its offset, which raises.  (Sets of   *)
(* one element name intermediate results.)                                 *)
Result(end, d, changed) ==
    [end |-> end, db |-> d, changed |-> changed, completed |-> end # "raise"]

Rename(d, opt, changed) == {Result("done", r, changed \/ r # d) : r \in RenameAll(d, opt)}

Recover(a, opt) ==
    (UNION {Rename(b, opt, TRUE) : b \in {TypeByrefs(a)}})
    \cup (UNION {{[r EXCEPT !.end = "refused"] : r \in Rename(b, opt, TRUE)} : b \in {TypeByrefFields(a)}})
    \cup {Result("lost", b, TRUE) : b \in {TypeByrefs(a)}}
    \cup {Result("raise", b, FALSE) : b \in {a, TypeByrefFields(a)}}

Pipeline(d, opt) ==
    UNION {{Result("nodecompile", a, FALSE)}
           \cup (IF "byref" \in opt /\ ByrefFound(a) # {} THEN Recover(a, opt) ELSE Rename(a, opt, FALSE))
           : a \in {StackAnalysis(d)}}

----------------------------------------------------------------------------
Init == /\ db = [vname  |-> [v \in Vars |-> <<"v", v, 0>>],
                 vuser  |-> {},
                 vtype  |-> [v \in Vars |-> "raw"],
                 vtyped |-> {},
                 fname  |-> [f \in Fields |-> <<"lvar", f[2], 0>>],
                 ftype  |-> [f \in Fields |-> <<"val", "raw">>]]
        /\ marker = FALSE
        /\ queue = <<>>
        /\ opts \in OptionChoices
        /\ edits = 0 /\ views = 0
        /\ settled = {}
        /\ autoRuns = 0

(* open_pseudocode, switch_pseudocode: the function is shown in a view.    *)
View ==
    /\ views < MaxViews
    /\ views' = views + 1
    /\ queue' = IF "auto" \in opts /\ ~marker THEN Append(queue, opts) ELSE queue
    /\ UNCHANGED <<db, marker, opts, edits, settled, autoRuns>>

(* A queued run is skipped if the function was analyzed in the meantime;   *)
(* one that changed something is queued once more.                         *)
(* Mutants: the marker is not looked at again; a skipped run asks for more.*)
NeverSkips == FALSE
Skips == marker
AlwaysAgain(changed) == TRUE
Again(changed) == changed

MarkedAfter(r) == marker \/ r.completed

SettledAfter(r, opt) == IF r.end = "done" THEN {opt}
                        ELSE IF r.db = db THEN settled ELSE {}

RunQueued ==
    /\ queue # <<>>
    /\ LET opt == Head(queue) IN
       \/ /\ Skips
          /\ queue' = IF Again(FALSE) THEN Append(Tail(queue), opt) ELSE Tail(queue)
          /\ UNCHANGED <<db, marker, settled, autoRuns>>
       \/ /\ ~Skips
          /\ \E r \in Pipeline(db, opt) :
             /\ db' = r.db
             /\ marker' = MarkedAfter(r)
             /\ queue' = IF r.completed /\ Again(r.changed)
                         THEN Append(Tail(queue), opt) ELSE Tail(queue)
             /\ settled' = SettledAfter(r, opt)
             /\ autoRuns' = IF r.completed THEN autoRuns + 1 ELSE autoRuns
    /\ UNCHANGED <<opts, user>>

(* The menu action: the pipeline runs whether or not it did before.        *)
AnalyzeAction ==
    /\ \E r \in Pipeline(db, opts) :
          /\ db' = r.db
          /\ marker' = MarkedAfter(r)
          /\ settled' = SettledAfter(r, opts)
    /\ UNCHANGED <<queue, opts, user, autoRuns>>

(* The fields action (F3): only the fields, no marker; without a           *)
(* decompilation it does nothing.                                          *)
FieldsAction ==
    /\ db' = SyncFields(db, NoPlan, opts)
    /\ settled' = IF db' = db THEN settled ELSE {}
    /\ UNCHANGED <<marker, queue, opts, user, autoRuns>>

(* A hot reload of the plugin with another configuration file; the queued  *)
(* runs keep their options.                                                *)
SetOptions ==
    /\ opts' \in OptionChoices \ {opts}
    /\ UNCHANGED <<db, marker, queue, user, settled, autoRuns>>

(* The user renames or retypes a variable or a field; IDA refuses a name   *)
(* that is taken.                                                          *)
Edit(d) ==
    /\ edits < MaxEdits
    /\ edits' = edits + 1
    /\ db' = d
    /\ settled' = {}
    /\ UNCHANGED <<marker, queue, opts, views, autoRuns>>

EditVariable ==
    \E v \in EditedVars :
        \/ \E n \in UserNames \ VarNames(db) :
              Edit([db EXCEPT !.vname[v] = n, !.vuser = @ \cup {v}])
        \/ Edit([db EXCEPT !.vtype[v] = "user", !.vtyped = @ \cup {v}])

EditField ==
    \E f \in EditedFields :
        \/ \E n \in UserNames \ Siblings(db, f) : Edit([db EXCEPT !.fname[f] = n])
        \/ Edit([db EXCEPT !.ftype[f] = <<"val", "user">>])

Next == View \/ RunQueued \/ AnalyzeAction \/ FieldsAction \/ SetOptions
        \/ EditVariable \/ EditField

(* The UI event loop runs what is queued: weak fairness of RunQueued,      *)
(* which is enabled exactly while something is queued.                     *)
Fairness == <>[](queue # <<>>) => []<><<RunQueued>>_vars
Spec == Init /\ [][Next]_vars /\ Fairness

----------------------------------------------------------------------------
(* Types; however often the function was shown, one run from the queue     *)
(* completes, and leaves the marker.                                       *)
Bases == GivenBases \cup {n[1] : n \in UserNames \cup {TypeName[v] : v \in Vars}}
Names == Bases \X Nat \X Nat
VarTypes == {"raw", "block", "byref", "user"}

TypeOK == /\ db \in [vname : [Vars -> Names], vuser : SUBSET Vars,
                     vtype : [Vars -> VarTypes], vtyped : SUBSET Vars,
                     fname : [Fields -> Names],
                     ftype : [Fields -> {"val", "ptr"} \X (VarTypes \cup {"member"})]]
          /\ marker \in BOOLEAN
          /\ queue \in Seq(OptionChoices)
          /\ opts \in OptionChoices
          /\ edits \in 0..MaxEdits /\ views \in 0..MaxViews
          /\ settled \in SUBSET OptionChoices
          /\ autoRuns \in 0..1 /\ (autoRuns > 0 => marker)

(* The analyzer and IDA's own analysis never give two variables of the     *)
(* function, or two fields of a block, the same name, in whichever order   *)
(* they and the user rename things.                                        *)
NamesDistinct ==
    /\ \A u, v \in Vars : u # v => db.vname[u] # db.vname[v]
    /\ \A f \in Fields : db.fname[f] \notin Siblings(db, f)

(* A run that completed left nothing to do: every block variable has a     *)
(* name that says more than "block", the byref structs it just recovered   *)
(* included, and no field that a named source is assigned to is lvarN.     *)
AnalysisIsComplete ==
    \A opt \in settled :
        /\ "rename_blocks" \in opt =>
              \A v \in BlockVars(db) : /\ ~IsDefaultName(db.vname[v])
                                       /\ ~IsGenericBlock(db.vname[v])
        /\ "byref" \in opt => ByrefFound(db) = {}
        /\ "rename_fields" \in opt =>
              \A i \in Synced(db) :
                  Source(db, NoPlan, Captures[i]).name # NoName =>
                      ~IsDefaultUdmName(db.fname[Captures[i].field])

(* Manual edits are never clobbered: only the user renames a variable he   *)
(* named or a field that has a name of its own, and such a field keeps its *)
(* type but for a pointer to a recovered byref struct.                     *)
UserEditsKept ==
    [][edits' = edits =>
          /\ \A v \in Vars : db.vname[v] \in UserNames => db'.vname[v] = db.vname[v]
          /\ \A f \in Fields : ~IsDefaultUdmName(db.fname[f]) =>
                /\ db'.fname[f] = db.fname[f]
                /\ db'.ftype[f] \in {db.ftype[f], <<"ptr", "byref">>}]_vars

(* Running the pipeline again when nothing was edited since changes        *)
(* nothing: names are not renumbered, fields not renamed again.            *)
RerunIsNoop ==
    [][settled = {opts} /\ db' # db /\ edits' = edits => ~AnalyzeAction]_vars

(* What is queued is run, and a run that asks for another one ends.        *)
QueueDrains == queue # <<>> ~> queue = <<>>

=============================================================================

----------------------------- MODULE BlockInit -----------------------------
(***************************************************************************)
(* The clang-blocks-optimizer hook (plugins/common/clang_blocks/           *)
(* optimizer.py): at each ctree maturity the assignments to the base       *)
(* fields of a block, or of a __block struct, are collapsed into one call  *)
(* of an initialiser.  Statements are in ctree order.                      *)
(***************************************************************************)
EXTENDS Integers, Sequences, FiniteSets

CONSTANTS
    BlockVars, ByrefVars,  \* the variables, by the kind of their struct
    Runs,                  \* runs of statements that make up the function
    MaxRuns                \* bound: runs of one function

StructVars == BlockVars \cup ByrefVars
Required(v) == IF v \in BlockVars THEN {"isa", "flags", "reserved", "invoke", "descriptor"}
                                  ELSE {"isa", "forwarding", "flags", "size"}
BaseFields(v) == Required(v) \cup (IF v \in BlockVars THEN {} ELSE {"keep", "dispose"})

(* The statements: one field is assigned; eight bytes at flags, by a cast  *)
(* assignment; the variable is used; what the hook puts in.                *)
Assign(v, f, val) == [op |-> "assign", var |-> v, field |-> f, val |-> val]
Wide(v, val) == [op |-> "wide", var |-> v, field |-> "flags", val |-> val]
Use(v) == [op |-> "use", var |-> v, field |-> "none", val |-> 0]
InitCall(v, vals) == [op |-> "init", var |-> v, field |-> "none", val |-> vals]
Empty == [op |-> "empty", var |-> "none", field |-> "none", val |-> 0]
NotConst == 0   \* the value of an expression that is no number

Statement ==
    [op : {"assign"}, var : StructVars, field : STRING, val : Int]
    \cup [op : {"wide"}, var : StructVars, field : {"flags"}, val : Int]
    \cup {Use(v) : v \in StructVars}

(* The compiler sets both helpers of a __block variable, or none.          *)
Helped(v, f, b) == \E k \in DOMAIN b : b[k].op = "assign" /\ b[k].var = v /\ b[k].field = f

ASSUME BlockAssumption ==
    /\ IsFiniteSet(BlockVars) /\ IsFiniteSet(ByrefVars) /\ "none" \notin StructVars
    /\ MaxRuns \in Nat /\ Runs \subseteq Seq(Statement)
    /\ \A r \in Runs : \A v \in ByrefVars : Helped(v, "keep", r) => Helped(v, "dispose", r)

VARIABLES
    source,     \* the statements as they were decompiled
    body,       \* the statements as the hook leaves them
    runs,       \* the runs emitted so far
    maturity    \* 0 while the decompiler builds the function, then 1..3

ivars == <<source, body, runs, maturity>>
CMAT_CPA == 2

----------------------------------------------------------------------------
(* add_assignment: what a statement contributes to the fields of v.        *)

Taken(v, s) ==
    /\ s.var = v
    /\ \/ s.op = "assign" /\ s.field \in BaseFields(v)
       \/ s.op = "wide" /\ s.val # NotConst

Sets(v, s) == IF s.op = "wide" THEN {"flags", IF v \in BlockVars THEN "reserved" ELSE "size"}
                               ELSE {s.field}

Where(v, b) == {k \in DOMAIN b : Taken(v, b[k])}
Greatest(S) == CHOOSE k \in S : \A j \in S : j <= k
Least(S) == CHOOSE k \in S : \A j \in S : k <= j

\* Mutant: the first of two assignments to a field is kept.
FirstWins(v, b) ==
    LET At(f) == {k \in Where(v, b) : f \in Sets(v, b[k])}
    IN  [f \in {g \in BaseFields(v) : At(g) # {}} |-> b[Least(At(f))].val]

(* The value of each field; of two assignments to it the last one wins.    *)
Fields(v, b) ==
    LET At(f) == {k \in Where(v, b) : f \in Sets(v, b[k])}
    IN  [f \in {g \in BaseFields(v) : At(g) # {}} |-> b[Greatest(At(f))].val]

IsCompleted(v, b) == Required(v) \subseteq DOMAIN Fields(v, b)

(* The arguments of the call; without a dispose helper the keep helper is  *)
(* not shown.  The fields the call's name stands for are kept with it.     *)
InitArgs(fields) == [f \in DOMAIN fields \ (IF "dispose" \in DOMAIN fields THEN {} ELSE {"keep"}) |-> fields[f]]

\* Mutant: the call is put in front and the assignments are deleted.
Deletes(v, b) ==
    IF ~IsCompleted(v, b) THEN b
    ELSE <<InitCall(v, InitArgs(Fields(v, b)))>> \o SelectSeq(b, LAMBDA s : ~Taken(v, s))

(* The first of the assignments becomes the call and the others are        *)
(* emptied, wherever they are.                                             *)
Collapse(v, b) ==
    IF ~IsCompleted(v, b) THEN b
    ELSE [k \in DOMAIN b |->
            IF k \notin Where(v, b) THEN b[k]
            ELSE IF k = Least(Where(v, b)) THEN InitCall(v, InitArgs(Fields(v, b))) ELSE Empty]

(* optimize_blocks, then optimize_block_byref_args: one variable after     *)
(* another.                                                                *)
Listed(S) == CHOOSE s \in [1..Cardinality(S) -> S] : {s[i] : i \in DOMAIN s} = S

OptimizeBlocks(b) ==
    LET vars == Listed(BlockVars) \o Listed(ByrefVars)
        f[i \in 0..Len(vars)] ==
            IF i = 0 THEN b ELSE CHOOSE r \in {Collapse(vars[i], acc) : acc \in {f[i - 1]}} : TRUE
    IN  f[Len(vars)]

----------------------------------------------------------------------------
IInit == source = <<>> /\ body = <<>> /\ runs = 0 /\ maturity = 0

EmitRun ==
    /\ maturity = 0 /\ runs < MaxRuns
    /\ \E r \in Runs : source' = source \o r /\ body' = body \o r
    /\ runs' = runs + 1 /\ UNCHANGED maturity

(* objc_blocks_optimizer_hooks_t.maturity                                  *)
Mature ==
    /\ maturity < CMAT_CPA + 1
    /\ maturity' = maturity + 1
    /\ body' = IF maturity' < CMAT_CPA THEN body ELSE OptimizeBlocks(body)
    /\ UNCHANGED <<source, runs>>

INext == EmitRun \/ Mature

ISpec == IInit /\ [][INext]_ivars

----------------------------------------------------------------------------
InitTypeOK ==
    /\ Len(body) = Len(source) /\ runs \in 0..MaxRuns /\ maturity \in 0..3
    /\ \A k \in DOMAIN body : body[k].op \in {"assign", "wide", "use", "init", "empty"}

(* What the statements of b before k leave in field f of v: the last of    *)
(* the assignments and calls that write it.                                *)
Writes(v, f, s) ==
    /\ s.var = v
    /\ CASE s.op = "assign" -> f = s.field
         [] s.op = "wide" -> f = "flags" \/ f = (IF v \in BlockVars THEN "reserved" ELSE "size")
         [] s.op = "init" -> f \in DOMAIN s.val
         [] OTHER -> FALSE
Left(v, f, b, k) ==
    LET at == {j \in 1..(k - 1) : Writes(v, f, b[j])}
    IN  IF at = {} THEN <<>>
        ELSE LET s == b[Greatest(at)] IN <<IF s.op = "init" THEN s.val[f] ELSE s.val>>

UseSees(k) ==
    LET v == source[k].var
    IN  \A f \in BaseFields(v) : Left(v, f, body, k) = Left(v, f, source, k)

(* All that is assigned to v is assigned before its first use, by          *)
(* statements the hook understands.                                        *)
InitialisedBeforeUse(v) ==
    /\ \A j, k \in DOMAIN source :
         (source[j] = Use(v) /\ source[k].var = v /\ source[k].op # "use") => k < j
    /\ \A k \in DOMAIN source : source[k] # Wide(v, NotConst)

(* optimize_block: a variable that is not assigned again after a use has   *)
(* at every use the contents the assignments give it, however they are     *)
(* split, repeated, and mixed with those of other variables.               *)
CollapseKeepsContents ==
    \A k \in DOMAIN source :
      (source[k].op = "use" /\ InitialisedBeforeUse(source[k].var)) => UseSees(k)

(* optimizer.py:5: "it collapses the runs of block / byref-struct          *)
(* field-assignment statements", so that every use sees what the run       *)
(* before it assigned.                                                     *)
RunsCollapseApart == \A k \in DOMAIN source : source[k].op = "use" => UseSees(k)

=============================================================================

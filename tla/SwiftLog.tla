------------------------------- MODULE SwiftLog -----------------------------
(***************************************************************************)
(* The os_log calls of Swift in the ctree: a buffer is allocated, filled   *)
(* piece by piece, handed to _os_log_impl and freed                        *)
(* (plugins/swift/swift_oslog/log_hook.py).  The call is rewritten with the*)
(* values, and the plumbing around it is erased.                           *)
(***************************************************************************)
EXTENDS LvarNames, SequencesExt

CONSTANT Slots      \* bound: what the compiler may emit, place by place

(* A statement: op; lv, the variable it assigns, fills or frees; args, the *)
(* variables it reads; off and size of a write, size of a buffer; label.   *)
(* An operation is alloc, write, log, dealloc, alias (lv = args[1]), level *)
(* (lv = a getter of os_log_type_t), call (no result), set (lv = f(args)). *)
NoLabel == 0
NoIndex == 0

VARIABLES
    source,     \* the statements of the function
    slot,       \* how many places are filled
    forges,     \* whether a type for the helper call can be made
    names,      \* variable -> [name, user]
    shown,      \* the statements after the pass
    comments,   \* the logs that have a summary comment
    done        \* whether the pass has run

logVars == <<source, slot, forges, names, shown, comments, done>>

Idx == 1..Len(source)
LastOf(S) == IF S = {} THEN NoIndex ELSE CHOOSE i \in S : \A j \in S : j <= i
FirstOf(S) == IF S = {} THEN NoIndex ELSE CHOOSE i \in S : \A j \in S : i <= j

----------------------------------------------------------------------------
(* _Detector: dictionaries by variable, in which the last statement counts,*)
(* but for the size of a buffer, which is that of its first allocation.    *)
Ops(op, v) == {i \in Idx : source[i].op = op /\ source[i].lv = v}
AllocInsn(v) == LastOf(Ops("alloc", v))
AllocSize(v) == IF Ops("alloc", v) = {} THEN NoIndex ELSE source[FirstOf(Ops("alloc", v))].size
DeallocInsn(v) == LastOf(Ops("dealloc", v))
AliasInsn(v) == LastOf(Ops("alias", v))
Level(v) == IF Ops("level", v) = {} THEN "log" ELSE source[LastOf(Ops("level", v))].args[1]
BufWrites(v) == SelectSeq([i \in Idx |-> [at |-> i] @@ source[i]], LAMBDA w : w.op = "write" /\ w.lv = v)
LvarUses(v) == {i \in Idx : source[i].lv = v \/ v \in ToSet(source[i].args)}

(* _find_dealloc: of the buffer, or of the first alias of it that is freed.*)
AliasOf(v) ==
    LET found == {i \in Idx : /\ source[i].op = "alias" /\ DeallocInsn(source[i].lv) # NoIndex
                              /\ source[AliasInsn(source[i].lv)].args[1] = v}
    IN  IF found = {} THEN NoIndex ELSE AliasInsn(source[FirstOf(found)].lv)

FindDealloc(v) ==
    IF DeallocInsn(v) # NoIndex THEN [dealloc |-> DeallocInsn(v), alias |-> NoIndex]
    ELSE IF AliasOf(v) # NoIndex
         THEN [dealloc |-> DeallocInsn(source[AliasOf(v)].lv), alias |-> AliasOf(v)]
    ELSE [dealloc |-> NoIndex, alias |-> NoIndex]

(* _parse_buffer: the writes by their offset, without gap or overlap.      *)
Adjacent(p, w) == w.off = p.size

Parse(v) ==
    LET sorted == SortSeq(BufWrites(v), LAMBDA a, b : a.off < b.off)
        After(p, w) ==
          IF ~Adjacent(p, w) THEN [p EXCEPT !.state = "no"]
          ELSE CASE p.state = "header" /\ w.size = 4 -> [p EXCEPT !.state = "value", !.size = @ + 4]
                 [] p.state \in {"header", "item"} /\ w.size = 2 ->
                      [p EXCEPT !.state = IF p.state = "header" THEN "item" ELSE "value", !.size = @ + 2]
                 [] p.state = "value" ->
                      [p EXCEPT !.state = "item", !.size = @ + w.size, !.values = Append(@, w.args[1])]
                 [] OTHER -> [p EXCEPT !.state = "no"]
        f[i \in 0..Len(sorted)] ==
          IF i = 0 THEN [state |-> "header", size |-> 0, values |-> <<>>]
          ELSE CHOOSE r \in {After(p, sorted[i]) : p \in {f[i - 1]}} : TRUE
    IN  f[Len(sorted)]

Recognised(i) ==
    LET v == source[i].lv
    IN  /\ AllocSize(v) = source[i].size /\ BufWrites(v) # <<>>
        /\ Parse(v).state # "no" /\ Parse(v).size = source[i].size

----------------------------------------------------------------------------
(* _is_lifecycle_shaped, on what is left of the statement: any call that   *)
(* is a statement of its own, and an alias.                                *)
LifecycleShaped(s, v) == s.op = "call" \/ s.op \in {"log", "os_log", "dealloc"} \/ (s.op = "alias" /\ s.args[1] = v)

\* Mutant: any other buffer is taken, wherever it is freed.
OtherBuffer(v, i) ==
    v # source[i].lv /\ AllocInsn(v) # NoIndex /\ FindDealloc(v).dealloc # NoIndex

Brackets(v, i) ==
    /\ v # source[i].lv /\ AllocInsn(v) # NoIndex /\ FindDealloc(v).dealloc # NoIndex
    /\ AllocInsn(v) < i /\ i < FindDealloc(v).dealloc

(* _collect_aux_buffer_insns: buffers that live around the log and are used*)
(* for nothing else.                                                       *)
AuxInsns(stmts, i) ==
    LET Own(v) == {AllocInsn(v), FindDealloc(v).dealloc, FindDealloc(v).alias}
        Aux(v) == Brackets(v, i) /\ \A u \in LvarUses(v) \ Own(v) : LifecycleShaped(stmts[u], v)
    IN  UNION {LvarUses(v) \cup Own(v) : v \in {w \in Lvars : Aux(w)}} \ {NoIndex}

\* Mutant: the target of a goto is erased as well.
NopAll(stmts, S) == [i \in Idx |-> IF i \in S THEN [stmts[i] EXCEPT !.op = "empty"] ELSE stmts[i]]

NopStatements(stmts, S) ==
    [i \in Idx |-> IF i \in S /\ stmts[i].label = NoLabel THEN [stmts[i] EXCEPT !.op = "empty"] ELSE stmts[i]]

(* _collapse_to_helper_call: in the place of the call, with its label.     *)
Collapsed(i) == source[i].known /\ forges

\* Mutant: the values are passed in the order of the stores.
CallAsStored(i) ==
    LET stored == SelectSeq(BufWrites(source[i].lv), LAMBDA w : w.args[1] # "header")
    IN  [source[i] EXCEPT !.op = "os_log", !.lv = "", !.args = [k \in 1..Len(stored) |-> stored[k].args[1]]]

HelperCall(i) == [source[i] EXCEPT !.op = "os_log", !.lv = "", !.args = Parse(source[i].lv).values]

(* _rename_lvars.                                                          *)
RenameAll(lvs, i) ==
    LET level == Level(source[i].args[1])
        values == Parse(source[i].lv).values
        f[k \in 0..Len(values)] ==
          IF k = 0 THEN Rename(lvs, source[i].lv, <<level, "buf">>)
          ELSE IF values[k] \in Lvars
          THEN CHOOSE r \in {Rename(l, values[k], <<level, "arg", k - 1>>) : l \in {f[k - 1]}} : TRUE
          ELSE f[k - 1]
        typed == CHOOSE l \in {f[Len(values)]} : TRUE
    IN  IF level # "log" THEN Rename(typed, source[i].args[1], <<"type", level>>) ELSE typed

(* _process_call and _try_nop_fluff.                                       *)
ProcessCall(d, i) ==
    IF ~Recognised(i) THEN d
    ELSE LET v == source[i].lv
             stmts == IF Collapsed(i) THEN [d.stmts EXCEPT ![i] = HelperCall(i)] ELSE d.stmts
             plumbing == {AllocInsn(v), FindDealloc(v).dealloc, FindDealloc(v).alias}
                            \cup {BufWrites(v)[k].at : k \in 1..Len(BufWrites(v))}
         IN  [stmts |-> NopStatements(stmts, plumbing \cup AuxInsns(stmts, i)),
              names |-> RenameAll(d.names, i),
              comments |-> IF source[i].known /\ ~forges THEN d.comments \cup {i} ELSE d.comments]

----------------------------------------------------------------------------
LInit ==
    /\ source = <<>> /\ slot = 0 /\ forges \in BOOLEAN
    /\ names = [v \in Lvars |-> [name |-> <<v>>, user |-> FALSE]]
    /\ shown = <<>> /\ comments = {} /\ done = FALSE

Emit ==
    /\ slot < Len(Slots) /\ slot' = slot + 1
    /\ \E stmts \in Slots[slot + 1] : source' = source \o stmts
    /\ UNCHANGED <<forges, names, shown, comments, done>>

PlaceLabel ==
    /\ slot = Len(Slots) /\ ~done /\ \A i \in Idx : source[i].label = NoLabel
    /\ \E i \in Idx : source' = [source EXCEPT ![i].label = 1]
    /\ UNCHANGED <<slot, forges, names, shown, comments, done>>

(* SwiftLogRewriteHook at CMAT_FINAL; empty statements are purged.         *)
Rewrite ==
    /\ slot = Len(Slots) /\ ~done /\ done' = TRUE
    /\ \E d \in {LET f[i \in 0..Len(source)] ==
                       IF i = 0 THEN [stmts |-> source, names |-> names, comments |-> {}]
                       ELSE IF source[i].op # "log" THEN f[i - 1]
                       ELSE CHOOSE r \in {ProcessCall(e, i) : e \in {f[i - 1]}} : TRUE
                 IN  f[Len(source)]} :
         /\ shown' = d.stmts /\ names' = d.names /\ comments' = d.comments
    /\ UNCHANGED <<source, slot, forges>>

LNext == Emit \/ PlaceLabel \/ Rewrite

----------------------------------------------------------------------------
SwiftLogTypeOK ==
    /\ slot \in 0..Len(Slots) /\ comments \subseteq Idx
    /\ done => Len(shown) = Len(source)
    /\ \A v, w \in Lvars : names[v].name = names[w].name => v = w

Erased(i) == shown[i].op = "empty" /\ source[i].op # "empty"

(* What the log at i has in its buffer: the stores since it was allocated, *)
(* values where headers are not.                                           *)
Stored(i) ==
    LET start == LastOf({j \in Ops("alloc", source[i].lv) : j < i})
        writes == SelectSeq(BufWrites(source[i].lv), LAMBDA w : w.at \in start..i)
    IN  SelectSeq(SortSeq(writes, LAMBDA a, b : a.off < b.off), LAMBDA w : w.args[1] # "header")

(* log_hook.py:8-21: a call that is rewritten has the values stored in its *)
(* own buffer, in the order of their offsets, also when variables are used *)
(* for several buffers and the stores are out of order.                    *)
LogsShowTheirValues ==
    done => \A i \in Idx : shown[i].op = "os_log" =>
        shown[i].args = [k \in 1..Len(Stored(i)) |-> Stored(i)[k].args[1]]

(* _collect_aux_buffer_insns, _nop_statement: what is erased is plumbing of*)
(* a log that was rewritten or of a buffer that lives around one.  It is   *)
(* never an assignment with a meaning, nor the target of a goto, and a     *)
(* buffer that is not filled for a log is erased with all its uses.        *)
PlumbingIsErasedWhole ==
    done =>
      /\ \A i \in Idx : Erased(i) =>
           source[i].label = NoLabel /\ source[i].op \notin {"set", "level", "log"}
      /\ \A v \in Lvars : \A a \in Ops("alloc", v) :
           (Erased(a) /\ \A i \in Idx : source[i].op = "log" => source[i].lv # v) =>
             /\ \A u \in LvarUses(v) : Erased(u) \/ source[u].label # NoLabel
             /\ \E i \in Idx : source[i].op = "log" /\ a < i /\ i < FindDealloc(v).dealloc

=============================================================================

---------------------------- MODULE PrologRewrite ---------------------------
(***************************************************************************)
(* The passes over the ctree of a Swift function that name the variables   *)
(* of its prologs and of its errors and remove what is noise in them       *)
(* (plugins/swift/swift_types/prolog_rewrite.py).                          *)
(***************************************************************************)
EXTENDS LvarNames

CONSTANTS
    Fragments,      \* bound: runs of statements the compiler emits
    Touched,        \* bound: what the user did to them, sets of [lv, name, typed]
    MaxFragments    \* bound: fragments in a function

(* A statement: op, the variable it assigns or tests (lv), the one it      *)
(* reads (arg), the type its accessor is for, its label.  `v = a - b` is   *)
(* "alloca" when b is an aligned size, "sub" when not, and "call - n".     *)
NoVar == "no variable"
NoLabel == 0
Differences == {"alloca", "sub", "call - n"}
Error == <<"", "error">>
Statement == [op : STRING, lv : Lvars \cup {NoVar}, arg : Lvars \cup {NoVar}, type : STRING, label : Nat]

\* A difference is assigned to a variable.
Assigns(s) == s.op \in Differences => s.lv # NoVar

(* The user named a variable once, apart from the others and not in the    *)
(* style of the decompiler.                                                *)
ASSUME PrologAssumption ==
    /\ NoVar \notin Lvars /\ MaxFragments \in Nat
    /\ Fragments \subseteq Seq(Statement)
    /\ \A stmts \in Fragments : \A i \in 1..Len(stmts) : Assigns(stmts[i])
    /\ \A touched \in Touched :
          /\ \A t, u \in touched : t.lv = u.lv \/ t.name = u.name => t = u
          /\ \A t \in touched : t.typed \in BOOLEAN /\ \A v \in Lvars : t.name # <<v>>

VARIABLES
    body,       \* <<the block of the function, the block of an if in it>>
    lvars,      \* variable -> [name, user, typed, vwt], own: history, named by the user
    final,      \* the body after the passes
    phase,      \* "code", "built", "final"
    fragments   \* bounded: fragments emitted

prologVars == <<body, lvars, final, phase, fragments>>

\* What a body holds, in the order of the walk.
Both(b) == b[1] \o b[2]

\* What the shape of a statement and the names in it tell.
SwiftType(s) == s.type
IsAlignedAlloca(s) == s.op = "alloca"
IsThrowsCall(s) == s.op = "throws"

----------------------------------------------------------------------------
(* _PrologPatternScanner: in the order of the statements, <<variable, type,*)
(* suffix>>; a vwt is read through a metadata pointer that was met before. *)
Scanned(stmts) ==
    LET MdType(v, found) ==
          LET at == {k \in 1..Len(found) : found[k].lv = v /\ found[k].suffix = "md"}
          IN  IF at = {} THEN "none" ELSE found[CHOOSE k \in at : \A o \in at : o <= k].type
        f[i \in 0..Len(stmts)] ==
          IF i = 0 THEN <<>>
          ELSE CHOOSE r \in {
                 LET s == stmts[i]
                 IN  IF s.op = "md" THEN Append(found, [lv |-> s.lv, type |-> SwiftType(s), suffix |-> "md"])
                     ELSE IF s.op = "vwt" /\ MdType(s.arg, found) # "none"
                     THEN Append(found, [lv |-> s.lv, type |-> MdType(s.arg, found), suffix |-> "vwt"])
                     ELSE found : found \in {f[i - 1]}} : TRUE
    IN  f[Len(stmts)]

(* _apply_prolog_rewrites: the metadata pointers, then the witness tables. *)
Retype(lvs, v) == IF lvs[v].typed THEN lvs ELSE [lvs EXCEPT ![v].typed = TRUE, ![v].vwt = TRUE]

RenameAll(lvs, found, suffix) ==
    LET f[i \in 0..Len(found)] ==
          IF i = 0 THEN lvs
          ELSE IF found[i].suffix # suffix THEN f[i - 1]
          ELSE CHOOSE r \in {
                 LET named == Rename(l, found[i].lv, <<found[i].type, suffix>>)
                 IN  IF suffix = "vwt" THEN Retype(named, found[i].lv) ELSE named : l \in {f[i - 1]}} : TRUE
    IN  f[Len(found)]

PrologRewrites(lvs, stmts) ==
    CHOOSE r \in {RenameAll(RenameAll(lvs, found, "md"), found, "vwt") : found \in {Scanned(stmts)}} : TRUE

----------------------------------------------------------------------------
(* _apply_buf_rewrites: the aligned alloca right after a chkstk of the size*)
(* in a witness table, known by the end of its name, is a buffer of the    *)
(* type; a second table of the type, T_vwt_1, is not known.                *)
IsVwt(lvs, v) == v # NoVar /\ lvs[v].vwt /\ Len(lvs[v].name) = 2 /\ lvs[v].name[2] = "vwt"

PendingType(lvs, stmts, i) ==
    IF i > 0 /\ stmts[i].op = "chkstk" /\ IsVwt(lvs, stmts[i].arg) THEN lvs[stmts[i].arg].name[1] ELSE "none"

BufRewrites(lvs, stmts) ==
    LET f[i \in 0..Len(stmts)] ==
          IF i = 0 THEN lvs
          ELSE IF IsAlignedAlloca(stmts[i]) /\ PendingType(lvs, stmts, i - 1) # "none"
          THEN CHOOSE r \in {Rename(l, stmts[i].lv, <<PendingType(lvs, stmts, i - 1), "buf">>) : l \in {f[i - 1]}} : TRUE
          ELSE f[i - 1]
    IN  f[Len(stmts)]

(* _rename_swift_error_lvars: the condition of the first if among the five *)
(* statements after a call that throws.                                    *)
Tested(stmts, i) ==
    LET ifs == {j \in (i + 1)..(i + 5) : j <= Len(stmts) /\ stmts[j].op = "if"}
    IN  IF ifs = {} THEN NoVar ELSE stmts[CHOOSE j \in ifs : \A k \in ifs : j <= k].lv

RenameErrors(lvs, stmts) ==
    LET f[i \in 0..Len(stmts)] ==
          IF i = 0 THEN lvs
          ELSE IF IsThrowsCall(stmts[i]) /\ Tested(stmts, i) # NoVar
          THEN CHOOSE r \in {IF l[Tested(stmts, i)].user THEN l
                              ELSE [l EXCEPT ![Tested(stmts, i)].name = UniqueName(l, Error),
                                             ![Tested(stmts, i)].user = TRUE] : l \in {f[i - 1]}} : TRUE
          ELSE f[i - 1]
    IN  f[Len(stmts)]

----------------------------------------------------------------------------
(* _nop_statement: the target of a goto stays.                             *)
Nop(s) == [s EXCEPT !.op = "empty", !.lv = NoVar, !.arg = NoVar]

\* Mutant: the target of a goto is removed as well.
NopAlways(s) == Nop(s)

NopStatement(s) == IF s.label # NoLabel THEN s ELSE Nop(s)

Each(Op(_), b) == <<[i \in 1..Len(b[1]) |-> Op(b[1][i])], [i \in 1..Len(b[2]) |-> Op(b[2][i])]>>

EraseChkstk(b) ==
    LET Erased(s) == IF s.op = "chkstk" THEN NopStatement(s) ELSE s
    IN  Each(Erased, b)

(* _count_lvar_uses: every occurrence, an assignment to it included.       *)
Uses(b, v) ==
    LET stmts == Both(b)
        f[i \in 0..Len(stmts)] ==
          IF i = 0 THEN 0
          ELSE f[i - 1] + (IF stmts[i].lv = v THEN 1 ELSE 0) + (IF stmts[i].arg = v THEN 1 ELSE 0)
    IN  f[Len(stmts)]

\* Mutant: one reader is not enough to keep a variable.
ReadOnceToo(b, lvs, s) ==
    s.op \in Differences /\ ~lvs[s.lv].user /\ ~lvs[s.lv].typed /\ Uses(b, s.lv) <= 2

Unused(b, lvs, s) ==
    s.op \in Differences /\ ~lvs[s.lv].user /\ ~lvs[s.lv].typed /\ Uses(b, s.lv) <= 1

EraseUnused(b, lvs) ==
    LET Erased(s) == IF Unused(b, lvs, s) THEN NopStatement(s) ELSE s
    IN  Each(Erased, b)

(* Those of the statements, in their order.                                *)
Only(stmts, those) ==
    LET f[i \in 0..Len(stmts)] ==
          IF i = 0 THEN <<>>
          ELSE IF stmts[i] \in those THEN Append(f[i - 1], stmts[i]) ELSE f[i - 1]
    IN  f[Len(stmts)]

Purge(b) ==
    LET all == Both(b)
        kept == {s \in {all[i] : i \in 1..Len(all)} : s.op # "empty" \/ s.label # NoLabel}
    IN  <<Only(b[1], kept), Only(b[2], kept)>>

----------------------------------------------------------------------------
PInit ==
    /\ \E touched \in Touched :
         lvars = [v \in Lvars |->
             [name |-> IF \E t \in touched : t.lv = v THEN (CHOOSE t \in touched : t.lv = v).name ELSE <<v>>,
              user |-> \E t \in touched : t.lv = v, own |-> \E t \in touched : t.lv = v,
              typed |-> \E t \in touched : t.lv = v /\ t.typed,
              vwt |-> \E t \in touched : t.lv = v /\ t.typed /\ t.name[2] = "vwt"]]
    /\ body = << <<>>, <<>> >> /\ final = << <<>>, <<>> >>
    /\ phase = "code" /\ fragments = 0

(* The compiler emits a fragment, in the function or under its last if;    *)
(* some statement may be where a goto leads.                               *)
EmitFragment ==
    /\ phase = "code" /\ fragments < MaxFragments /\ fragments' = fragments + 1
    /\ \E stmts \in Fragments, k \in 1..2 :
         /\ IF k = 1 THEN body[2] = <<>> ELSE body[1] # <<>> /\ body[1][Len(body[1])].op = "if"
         /\ body' = [body EXCEPT ![k] = @ \o stmts]
    /\ UNCHANGED <<lvars, final, phase>>

PlaceLabel ==
    /\ phase = "code" /\ \A i \in 1..Len(Both(body)) : Both(body)[i].label = NoLabel
    /\ \E k \in 1..2 : \E i \in 1..Len(body[k]) : body' = [body EXCEPT ![k][i].label = 1]
    /\ UNCHANGED <<lvars, final, phase, fragments>>

(* CMAT_BUILT.                                                             *)
Built ==
    /\ phase = "code" /\ phase' = "built"
    /\ lvars' = PrologRewrites(lvars, Both(body))
    /\ UNCHANGED <<body, final, fragments>>

(* CMAT_FINAL: the five passes, in their order.                            *)
Final ==
    /\ phase = "built" /\ phase' = "final"
    /\ lvars' = RenameErrors(RenameErrors(BufRewrites(lvars, body[1]), body[1]), body[2])
    /\ \E b \in {EraseChkstk(body)} : final' = Purge(EraseUnused(b, lvars'))
    /\ UNCHANGED <<body, fragments>>

PNext == EmitFragment \/ PlaceLabel \/ Built \/ Final

PSpec == PInit /\ [][PNext]_prologVars

----------------------------------------------------------------------------
PrologTypeOK ==
    /\ phase \in {"code", "built", "final"} /\ fragments \in 0..MaxFragments
    /\ \A v \in Lvars : lvars[v].user \in BOOLEAN /\ lvars[v].typed \in BOOLEAN /\ lvars[v].vwt \in BOOLEAN
    /\ \A i \in 1..Len(Both(final)) : Both(final)[i].op = "empty" => Both(final)[i].label # NoLabel

(* The comments of _nop_statement and _erase_unused_stack_allocations: a   *)
(* goto still has its target, and what is left reads and writes the same   *)
(* variables in the same order, but for calls of chkstk, empty statements, *)
(* and variables that nothing reads and the user did not touch.            *)
OnlyNoiseIsErased ==
    phase = "final" =>
      /\ \A i \in 1..Len(Both(body)) :
           Both(body)[i].label # NoLabel => \E j \in 1..Len(Both(final)) : Both(final)[j] = Both(body)[i]
      /\ LET Read(v) == \E j \in 1..Len(Both(final)) :
                Both(final)[j].arg = v \/ (Both(final)[j].op \in {"if", "use"} /\ Both(final)[j].lv = v)
              matter == {s \in Statement :
                /\ s.op \notin {"chkstk", "empty"}
                /\ s.op \in Differences => Read(s.lv) \/ lvars[s.lv].user \/ lvars[s.lv].typed}
          IN  \A k \in 1..2 : Only(body[k], matter) = Only(final[k], matter)

(* However many types a prolog has, names stay distinct, and a buffer is   *)
(* named for the type whose size was probed for it by the statement before.*)
NamesTellTheType ==
    phase = "final" =>
      /\ \A v, w \in Lvars : lvars[v].name = lvars[w].name => v = w
      /\ \A v \in Lvars :
           (~lvars[v].own /\ Len(lvars[v].name) > 1 /\ lvars[v].name[2] = "buf") =>
             \E i \in 2..Len(body[1]) :
                 /\ body[1][i].lv = v /\ body[1][i].op = "alloca" /\ body[1][i - 1].op = "chkstk"
                 /\ lvars[body[1][i - 1].arg].name[1] = lvars[v].name[1]

=============================================================================

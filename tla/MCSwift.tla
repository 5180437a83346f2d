------------------------------ MODULE MCSwift -------------------------------
(* The Swift plugin, one component at a time (`which`): prototypes and the *)
(* cache of decompiled functions (SwiftTypes), prologs and os_log calls.   *)
EXTENDS SwiftTypes, PrologRewrite, TLC

VARIABLES which,
          source, slot, forges, names, shown, comments, done   \* SwiftLog

MCOrder == <<"caller", "method", "body">>
No == [f \in Funcs |-> {}]
Prototype(cc, self, plain, spoils) ==
    [cc |-> cc, self |-> self, plain |-> plain, captures |-> "no site", spoils |-> spoils]
NoTable == [f \in Funcs |-> Prototype("none", FALSE, FALSE, FALSE)]
Plain ==
    [x20 |-> {"caller", "method"}, imports |-> {}, throws |-> {}, calls |-> No, passes |-> No,
     small |-> {}, rigid |-> {}, late |-> {}, alloca |-> [f \in Funcs |-> 0], table |-> NoTable]
Closures == [Plain EXCEPT !.x20 = {"method", "body"}, !.passes = ("caller" :> {"body"}) @@ ("method" :> {"body"}) @@ No]
MCPrograms ==
    {Plain, Closures,
     [Closures EXCEPT !.small = {"body"}, !.late = {"body"}],
     [Closures EXCEPT !.small = {"body"}, !.throws = {"body"}, !.alloca = [f \in Funcs |-> 16]],
     [Plain EXCEPT !.throws = {"method"}, !.imports = {"method"}, !.calls = ("caller" :> {"method"}) @@ No],
     [Plain EXCEPT !.throws = {"method", "body"}, !.imports = {"body"}, !.rigid = {"caller"},
        !.alloca = [f \in Funcs |-> 16], !.late = {"method"}],
     [Plain EXCEPT !.table = ("method" :> Prototype("swift", TRUE, FALSE, TRUE)) @@ NoTable]}
MCUserTypes == {Prototype("none", FALSE, FALSE, FALSE), Prototype("native", FALSE, TRUE, FALSE)}

Stmt(op, lv, arg, type) == [op |-> op, lv |-> lv, arg |-> arg, type |-> type, label |-> 0]
None == "no variable"
Opaque(md, vwt, buf, type) ==
    <<Stmt("md", md, None, type), Stmt("vwt", vwt, md, ""), Stmt("chkstk", None, vwt, ""),
      Stmt("alloca", buf, None, "")>>
MCFragments == {
    Opaque("m1", "w1", "b1", "T"), Opaque("m2", "w2", "b2", "T"), Opaque("m2", "w2", "b2", "U"),
    <<Stmt("chkstk", None, "w1", ""), Stmt("sub", "d", None, ""), Stmt("alloca", "b2", None, "")>>,
    <<Stmt("throws", "d", None, ""), Stmt("use", "b2", None, ""), Stmt("if", "e", None, "")>>,
    <<Stmt("throws", None, None, ""), Stmt("if", "d", None, "")>>,
    <<Stmt("sub", "d", "m1", ""), Stmt("call - n", "e", None, "")>>,
    <<Stmt("use", "d", None, "")>>, <<Stmt("chkstk", None, None, ""), Stmt("use", "b1", "w1", "")>>}
User(lv, name, typed) == [lv |-> lv, name |-> name, typed |-> typed]
MCTouched == {{}, {User("w1", <<"S", "vwt">>, TRUE), User("d", <<"", "error">>, FALSE)},
              {User("b2", <<"T", "buf">>, FALSE), User("m1", <<"T", "vwt">>, FALSE)}}

Insn(op, lv, args, off, size) ==
    [op |-> op, lv |-> lv, args |-> args, off |-> off, size |-> size, label |-> 0, known |-> TRUE]
Alloc(v, size) == Insn("alloc", v, <<>>, 0, size)
Write(v, off, size, val) == Insn("write", v, <<val>>, off, size)
Free(v) == Insn("dealloc", v, <<>>, 0, 0)
LogOf(v, size) == Insn("log", v, <<"ty">>, 0, size)
Alias(t, v) == Insn("alias", t, <<v>>, 0, 0)
MCSlots == <<
    {<<>>, <<Alloc("aux", 32), Insn("level", "ty", <<"info">>, 0, 0)>>, <<Insn("level", "ty", <<"info">>, 0, 0)>>},
    {<<Alloc("b", 12), Write("b", 0, 4, "header"), Write("b", 4, 8, "v")>>,
     <<Alloc("b", 22), Write("b", 14, 8, "w"), Write("b", 0, 2, "header"), Write("b", 2, 2, "header"),
       Write("b", 4, 8, "v"), Write("b", 12, 2, "header")>>,
     <<Alloc("b", 12), Write("b", 0, 2, "header"), Write("b", 4, 8, "v")>>},
    {<<>>, <<Free("aux")>>, <<Insn("call", "", <<"aux">>, 0, 0)>>, <<Insn("call", "", <<"v", "aux">>, 0, 0)>>,
     <<Insn("set", "w", <<"aux">>, 0, 0)>>, <<Alias("t", "aux")>>},
    {<<LogOf("b", 12)>>, <<LogOf("b", 22)>>, <<[LogOf("b", 12) EXCEPT !.known = FALSE]>>},
    {<<>>, <<Alloc("b", 12), Write("b", 0, 4, "header"), Write("b", 4, 8, "w"), LogOf("b", 12)>>,
     <<Alloc("c", 2), Write("c", 0, 2, "header"), LogOf("c", 2)>>},
    {<<>>, <<Free("b")>>, <<Alias("t", "b"), Free("t")>>},
    {<<>>, <<Free("aux")>>} >>
OsLog == INSTANCE SwiftLog WITH Lvars <- {"b", "c", "aux", "t", "v", "w", "ty"}, Slots <- MCSlots

logVars == <<source, slot, forges, names, shown, comments, done>>

Init ==
    /\ which \in {"types", "prolog", "log"}
    /\ SInit /\ (which # "types" => code = Plain)
    /\ PInit /\ (which # "prolog" => \A v \in {"d", "b2"} : ~lvars[v].user)
    /\ OsLog!LInit /\ (which # "log" => forges)

Next ==
    /\ UNCHANGED which
    /\ \/ which = "types" /\ SNext /\ UNCHANGED <<prologVars, logVars>>
       \/ which = "prolog" /\ PNext /\ UNCHANGED <<swiftVars, logVars>>
       \/ which = "log" /\ OsLog!LNext /\ UNCHANGED <<swiftVars, prologVars>>

vars == <<which, swiftVars, prologVars, logVars>>
Spec == Init /\ [][Next]_vars

(* The type invariants of the modules.                                     *)
TypeOK == SwiftTypeOK /\ PrologTypeOK /\ OsLog!SwiftLogTypeOK
(* A rewritten log has the values of its own buffer (SwiftLog).            *)
LogsShowTheirValues == OsLog!LogsShowTheirValues
(* The plumbing of a log is erased, whole, and nothing else (SwiftLog).    *)
PlumbingIsErasedWhole == OsLog!PlumbingIsErasedWhole
=============================================================================

---------------------------- MODULE MCScanners ------------------------------
(* The recognisers, one at a time: __block structs in microcode, block     *)
(* initialisers in the ctree, os_log macros, Swift type names in a         *)
(* section.  Each has its own variables; `which` says whose turn it is.    *)
EXTENDS ByrefScan, TyperefScan, BlockInit, TLC

CONSTANT Compensating   \* the environment of OsLog

VARIABLES which,
          blk, logs, others, level, cnt     \* OsLog

Value(size, kind, val) == [size |-> size, kind |-> kind, val |-> val]
MCCandidates == {0, 24}
MCShapes == [base : {0, 24}, helpers : BOOLEAN, split : BOOLEAN]
MCNoise == {[d |-> -1, v |-> Value(8, "reg", 0)], [d |-> 0, v |-> Value(8, "num", 0)],
            [d |-> 16, v |-> Value(4, "num", 2)]}

MCBlockRuns == {
    <<Assign("block", "isa", 1), Wide("block", 1), Assign("block", "invoke", 1), Assign("block", "descriptor", 1)>>,
    <<Assign("block", "isa", 2), Assign("block", "flags", 2), Assign("block", "reserved", 2), Assign("block", "arg", 2),
      Assign("block", "descriptor", 2), Assign("block", "invoke", 2)>>,
    <<Wide("block", 0), Assign("block", "arg", 1)>>,
    <<Assign("byref", "isa", 1), Assign("byref", "forwarding", 1), Wide("byref", 1),
      Assign("byref", "keep", 1), Assign("byref", "dispose", 1)>>,
    <<Assign("byref", "isa", 2), Assign("byref", "forwarding", 2), Wide("byref", 2)>>,
    <<Use("block")>>, <<Use("byref")>>}

Item(size, split) == [size |-> size, split |-> split]
MCMacros ==
    [base : {0}, front : {"apart"}, known : {1, 2},
     items : {<<>>, <<Item(8, TRUE)>>, <<Item(8, FALSE), Item(4, TRUE)>>}]
    \cup [base : {0, 4}, front : {"joined", "packed"}, known : {1}, items : {<<Item(4, FALSE), Item(8, FALSE)>>}]
Log == INSTANCE OsLog WITH
    Macros <- MCMacros, Noise <- {[off |-> 0, size |-> 2], [off |-> 4, size |-> 4]},
    Others <- {"enabled", "late enabled", "jz", "jnz", "count"},
    Compensates <- Compensating, MaxLogs <- 2, MaxOthers <- 1, maturity <- level

ASSUME MacrosFit == Log!MacroAssumption

logVars == <<blk, logs, others, level, cnt>>

Init ==
    /\ which \in {"byref", "blocks", "log", "typeref"}
    /\ BInit /\ IInit /\ Log!OInit
    /\ IF which = "typeref" THEN TInit
       ELSE section = <<>> /\ ea = 1 /\ names = {}

Next ==
    /\ UNCHANGED which
    /\ \/ which = "byref" /\ BNext /\ UNCHANGED <<ivars, logVars, tvars>>
       \/ which = "blocks" /\ INext /\ UNCHANGED <<bvars, logVars, tvars>>
       \/ which = "log" /\ Log!ONext /\ UNCHANGED <<bvars, ivars, tvars>>
       \/ which = "typeref" /\ TNext /\ UNCHANGED <<bvars, ivars, logVars>>

vars == <<which, bvars, ivars, logVars, tvars>>
Spec == Init /\ [][Next]_vars /\ Log!OFairness

(* The type invariants of the four modules.                                *)
TypeOK == ByrefTypeOK /\ InitTypeOK /\ Log!LogTypeOK /\ (which = "typeref" => TyperefTypeOK)

(* A rewritten log call has the arguments that were stored for it (OsLog). *)
LogsKeepTheirValues == Log!LogsKeepTheirValues
(* Every log that can be read is rewritten in the end (OsLog).             *)
LogsAreRewritten == (which = "log") => Log!LogsAreRewritten
=============================================================================

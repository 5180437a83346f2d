------------------------------- MODULE OsLog -------------------------------
(***************************************************************************)
(* The microcode optimizers of os_log (plugins/objc/oslog): a log macro    *)
(* fills a buffer on the stack, in front of the call that logs it, with    *)
(*                                                                         *)
(*     header (2 bytes), then for each item: item header (2), value        *)
(*                                                                         *)
(* log_macro_optimizer_t reads the arguments back from the stores; two     *)
(* more optimizers settle the tests whether logging is enabled.  IDA calls *)
(* them at every maturity again and again while they report changes.       *)
(***************************************************************************)
EXTENDS Integers, Sequences, SequencesExt, FiniteSets

CONSTANTS
    Macros,         \* log macros the compiler emits
    Noise,          \* other stores to the stack, [off, size]
    Others,         \* tests for logging: "enabled", "late enabled", "jz", "jnz", "count"
    Compensates,    \* a store that is missed may be made up for by another
    MaxLogs,        \* bound: log calls of the block
    MaxOthers       \* bound: other stores and tests

(* A macro: the offset of its buffer; its items, each with the size of the *)
(* value and how its header is written; the way the front is written: the  *)
(* header on its own, together with the first item's header, or with the   *)
(* value as well; and the maturity from which the call's arguments are the *)
(* constants the optimizer wants.                                          *)
CALLS == 1
LAST == 2
Macro == [base : Nat, front : {"apart", "joined", "packed"}, known : {CALLS, LAST},
          items : Seq([size : {4, 8}, split : BOOLEAN])]

(* What the instance must give.                                            *)
MacroAssumption ==
    \A m \in Macros : m \in Macro /\ (m.front # "apart" => m.items # <<>> /\ ~m.items[1].split)

Mov(off, size, val) == [op |-> "mov", off |-> off, size |-> size, val |-> val]
NoVal == <<>>
Nop == [op |-> "nop"]

VARIABLES
    blk,        \* the instructions of the basic block
    logs,       \* what was emitted for each log call: [at, stores, vals, clean, macro]
    others,     \* other stores and tests emitted
    maturity,   \* 0 while the block is emitted
    cnt         \* the changes the last pass reported

ovars == <<blk, logs, others, maturity, cnt>>

----------------------------------------------------------------------------
(* The compiler and IDA's earlier stages emit the block.                   *)

SizeOf(m) == LET Add(n, i) == n + 2 + i.size IN FoldLeft(Add, 2, m.items)

(* The stores of macro m as the n-th log: they follow each other in the    *)
(* buffer; value k of log n is <<n, k>>.                                   *)
StoresOf(m, n) ==
    LET Sizes(k) == (IF m.items[k].split THEN <<1, 1>> ELSE <<2>>) \o <<m.items[k].size>>
        Body(acc, k) == acc \o (IF k > 1 \/ m.front = "apart" THEN Sizes(k)
                                ELSE IF m.front = "joined" THEN <<m.items[1].size>> ELSE <<>>)
        front == CASE m.front = "apart" -> 2 [] m.front = "joined" -> 4
                   [] m.front = "packed" -> 4 + m.items[1].size
        sizes == FoldLeft(Body, <<front>>, [k \in 1..Len(m.items) |-> k])
        Before(i) == LET Add(a, b) == a + b IN FoldLeft(Add, 0, SubSeq(sizes, 1, i - 1))
        skipped == IF m.front = "packed" THEN 1 ELSE 0
        IsVal(i) == i > 1 /\ sizes[i] >= 4
        Nth(i) == skipped + Cardinality({j \in 2..i : sizes[j] >= 4})
    IN  [i \in 1..Len(sizes) |-> Mov(m.base + Before(i), sizes[i], IF IsVal(i) THEN <<n, Nth(i)>> ELSE NoVal)]

LogCall(m) == [op |-> "call", base |-> m.base, size |-> SizeOf(m), known |-> m.known]

OInit == blk = <<>> /\ logs = <<>> /\ others = 0 /\ maturity = 0 /\ cnt = 0

(* What makes up for a missed store: another store in the same place, or   *)
(* an earlier log that is not read yet.                                    *)
Missed(ls) == \E n \in DOMAIN ls : ls[n].missed
Late(ls) == \E n \in DOMAIN ls : ls[n].macro.known # CALLS

(* One store may be made by an instruction the optimizer does not know.    *)
EmitLog ==
    /\ maturity = 0 /\ Len(logs) < MaxLogs
    /\ \E m \in Macros : \E stores \in {StoresOf(m, Len(logs) + 1)} : \E missed \in 0..Len(stores) :
         /\ blk' = blk \o [i \in DOMAIN stores |-> IF i = missed THEN [stores[i] EXCEPT !.op = "ldx"]
                                                                 ELSE stores[i]]
                       \o <<LogCall(m)>>
         /\ logs' = Append(logs, [at |-> Len(blk) + Len(stores) + 1, macro |-> m, missed |-> missed # 0,
                                  stores |-> (Len(blk) + 1)..(Len(blk) + Len(stores)),
                                  vals |-> [k \in DOMAIN m.items |-> <<Len(logs) + 1, k>>]])
         /\ (Missed(logs') => others = 0 /\ ~Late(logs')) \/ Compensates
    /\ UNCHANGED <<others, maturity, cnt>>

EmitOther ==
    /\ maturity = 0 /\ others < MaxOthers /\ (~Missed(logs) \/ Compensates)
    /\ \/ \E s \in Noise : blk' = Append(blk, Mov(s.off, s.size, NoVal))
       \/ \E t \in Others : blk' = Append(blk, [op |-> t])
    /\ others' = others + 1
    /\ UNCHANGED <<logs, maturity, cnt>>

----------------------------------------------------------------------------
(* check_insn_part_of_log_macro                                            *)
InBuffer(i, c) == i.op = "mov" /\ c.base <= i.off /\ i.off + i.size <= c.base + c.size

(* collect_log_params, one store: the state is what is expected next, the  *)
(* bytes an item header in pieces still lacks (0: no piece was seen), the  *)
(* values and the bytes so far.                                            *)
Collect(r, i) ==
    LET n == [r EXCEPT !.bytes = @ + i.size]
        left == IF r.left = 0 THEN 2 - i.size ELSE r.left - i.size
    IN  CASE r.state = "header" -> [n EXCEPT !.state = CASE i.size = 2 -> "item" [] i.size = 4 -> "value" [] OTHER -> "failed"]
          [] r.state = "item" -> IF i.size > 2 THEN [n EXCEPT !.state = "failed"]
                                 ELSE IF i.size = 2 THEN [n EXCEPT !.state = "value"]
                                 ELSE [n EXCEPT !.left = left,
                                                !.state = IF r.left # 0 /\ left = 0 THEN "value" ELSE "item"]
          [] r.state = "value" -> [n EXCEPT !.state = "item", !.vals = Append(@, i.val)]
          [] OTHER -> r

\* Mutant: the size of the buffer is not compared.
AnySize(bytes, c) == TRUE
SizeMatches(bytes, c) == bytes = c.size

(* The stores in the buffer before the call at k, and what they collect.   *)
BufferStores(b, k) == {j \in 1..(k - 1) : InBuffer(b[j], b[k])}
Collected(b, k) ==
    LET start == [state |-> "header", left |-> 0, vals |-> <<>>, bytes |-> 0]
        stores == SelectSeq(SubSeq(b, 1, k - 1), LAMBDA i : InBuffer(i, b[k]))
        upTo[j \in 0..Len(stores)] ==
            IF j = 0 THEN start ELSE CHOOSE r \in {Collect(q, stores[j]) : q \in {upTo[j - 1]}} : TRUE
    IN  upTo[Len(stores)]

IsLogCall(i, mat) == i.op = "call" /\ i.known <= mat

(* optimize_log_macro, for the call at k: if its macro is understood, the  *)
(* call logs the values and the stores go.                                 *)
Rewritten(b, k, r, stores) ==
    IF r.state = "item" /\ SizeMatches(r.bytes, b[k])
    THEN [blk |-> [j \in DOMAIN b |-> IF j = k THEN [op |-> "os_log", args |-> r.vals]
                                      ELSE IF j \in stores THEN Nop ELSE b[j]],
          cnt |-> 4 + Len(r.vals) + Cardinality(stores)]
    ELSE [blk |-> b, cnt |-> 0]

(* Only the first call whose arguments can be extracted is looked at.      *)
MacroPass(b, mat) ==
    LET calls == {k \in DOMAIN b : IsLogCall(b[k], mat)}
        k == CHOOSE k \in calls : \A j \in calls : k <= j
    IN  IF calls = {} THEN {[blk |-> b, cnt |-> 0]}
        ELSE {Rewritten(b, k, r, stores) : r \in {Collected(b, k)}, stores \in {BufferStores(b, k)}}

(* os_log_enabled_optimizer_t, log_error_case_optimizer_t: a call becomes  *)
(* a helper without arguments, the number of log objects a large constant, *)
(* and a jump that depends on the table of log objects a jump on 0, 0: the *)
(* table is there.                                                         *)
Settled(i, mat) ==
    CASE i.op = "enabled" \/ (i.op = "late enabled" /\ mat = LAST) -> [op |-> "helper"]
      [] i.op = "count" -> [op |-> "number"]
      [] i.op = "jz" -> [op |-> "jnz 0,0"]
      [] i.op = "jnz" -> [op |-> "jz 0,0"]
      [] OTHER -> i

\* Mutant: what is done already is reported again.
CountsAll(b, mat) ==
    [blk |-> [j \in DOMAIN b |-> Settled(b[j], mat)], cnt |-> Len(b)]
InsnPass(b, mat) ==
    [blk |-> [j \in DOMAIN b |-> Settled(b[j], mat)],
     cnt |-> Cardinality({j \in DOMAIN b : Settled(b[j], mat) # b[j]})]

(* IDA: passes at a maturity until one of them reports no change.          *)
Pass ==
    /\ maturity > 0
    /\ cnt > 0
    /\ \E m \in MacroPass(blk, maturity) : \E i \in {InsnPass(m.blk, maturity)} :
         blk' = i.blk /\ cnt' = m.cnt + i.cnt
    /\ UNCHANGED <<logs, others, maturity>>

Mature ==
    /\ cnt = 0 /\ maturity < LAST /\ logs # <<>>
    /\ maturity' = maturity + 1 /\ cnt' = 1
    /\ UNCHANGED <<blk, logs, others>>

ONext == EmitLog \/ EmitOther \/ Pass \/ Mature
OFairness == WF_ovars(Pass) /\ WF_ovars(Mature)

----------------------------------------------------------------------------
LogTypeOK ==
    /\ Len(logs) <= MaxLogs /\ others \in 0..MaxOthers /\ maturity \in 0..LAST /\ cnt \in Nat
    /\ \A n \in DOMAIN logs : blk[logs[n].at].op \in {"call", "os_log"}

(* What is emitted in the range of log n's buffer and is not its own.      *)
Disturbed(n) ==
    LET l == logs[n]
        InRange(off, size) == l.macro.base <= off /\ off + size <= l.macro.base + SizeOf(l.macro)
    IN  \E j \in 1..(l.at - 1) :
          /\ blk[j].op = "mov" /\ InRange(blk[j].off, blk[j].size)
          /\ \A p \in 1..n : j \notin logs[p].stores

(* log_macro_optimizer_t: a call that was rewritten logs the values that   *)
(* were stored for it, in their order, and all that was removed for it is  *)
(* its own stores, also when a buffer is used by several logs, stores are  *)
(* not recognised or other variables shared the buffer's place before.     *)
LogsKeepTheirValues ==
    /\ \A n \in DOMAIN logs :
         blk[logs[n].at].op = "os_log" =>
           /\ blk[logs[n].at].args = logs[n].vals
           /\ \A j \in logs[n].stores : blk[j] = Nop
    /\ \A j \in DOMAIN blk :
         blk[j] = Nop => \E n \in DOMAIN logs : j \in logs[n].stores /\ blk[logs[n].at].op = "os_log"

(* IDA's passes end, and then every log is rewritten whose macro, like     *)
(* those of the logs before it, is stored piece by piece by instructions   *)
(* the optimizer knows.                                                    *)
Readable(n) == ~logs[n].missed /\ logs[n].macro.front # "packed" /\ ~Disturbed(n)
LogsAreRewritten ==
    \A n \in 1..MaxLogs :
      (maturity > 0 /\ n \in DOMAIN logs)
        ~> (maturity = LAST /\ cnt = 0 /\ n \in DOMAIN logs
            /\ ((\A p \in 1..n : Readable(p)) => blk[logs[n].at].op = "os_log"))
=============================================================================

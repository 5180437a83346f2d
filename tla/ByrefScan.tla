----------------------------- MODULE ByrefScan -----------------------------
(***************************************************************************)
(* The recognition of __block structs in the microcode of a function       *)
(* (plugins/common/clang_blocks/analyzer/byref_args.py): an automaton that *)
(* reads the instructions of all basic blocks one after the other and      *)
(* reports every complete initialisation of a struct                       *)
(*                                                                         *)
(*    isa, forwarding, flags, size, [keep, dispose,] variable              *)
(*                                                                         *)
(* on the stack.  The compiler is the environment: it emits the stores of  *)
(* such structs, and other instructions between them.                      *)
(***************************************************************************)
EXTENDS Integers, Sequences, FiniteSets

CONSTANTS
    Candidates,     \* stack offsets of variables assigned into blocks
    Shapes,         \* the structs the compiler emits: [base, helpers, split]
    Noise,          \* instructions that belong to no struct
    MaxCode,        \* bound: instructions
    MaxNoise        \* bound: noise instructions, and stores left out

(* Offsets in a frame are no negative numbers.                             *)
ASSUME ByrefAssumption ==
    /\ Candidates \subseteq Nat
    /\ Shapes \subseteq [base : Nat, helpers : BOOLEAN, split : BOOLEAN]
    /\ MaxCode \in Nat /\ MaxNoise \in Nat

(* A value that is stored: its size, its kind, and for a number whether    *)
(* it is zero or has the copy/dispose flag, for a stack address its offset *)
Num(size, val) == [size |-> size, kind |-> "num", val |-> val]
StackAddr(off) == [size |-> 8, kind |-> "ref", val |-> off]
Global == [size |-> 8, kind |-> "glb", val |-> 0]
Reg(size) == [size |-> size, kind |-> "reg", val |-> 0]
Zero == 0
Plain == 1
Copy == 2

NoOffset == -1      \* the destination is no stack variable, or it is no mov
Store(off, value) == [d |-> off, v |-> value]

(* Offsets of the fields, the variable's with and without helpers.         *)
Offset(field, helpers) ==
    CASE field = "isa" -> 0
      [] field = "forwarding" -> 8
      [] field = "flags" -> 16
      [] field = "size" -> 20
      [] field = "keep" -> 24
      [] field = "dispose" -> 32
      [] field = "variable" -> IF helpers THEN 40 ELSE 24

VARIABLES
    code,       \* the instructions read
    st,         \* the automaton's state
    results,    \* the structs it reported
    pending,    \* the stores of the current struct still to be emitted
    noise       \* noise so far

bvars == <<code, st, results, pending, noise>>

Fresh == [field |-> "isa", base |-> NoOffset, first |-> 0, flags |-> Zero, helpers |-> FALSE]

----------------------------------------------------------------------------
(* The automaton.  Each field accepts some values; anything else resets    *)
(* it, and the instruction that did so is not looked at again.             *)

IsNum(v) == v.kind = "num"
Accepts(s, i) ==
    CASE s.field = "isa" -> i.d \in Candidates /\ i.v = Num(8, Zero)
      [] s.field = "forwarding" -> i.v = StackAddr(s.base)
      [] s.field = "flags" -> IsNum(i.v) /\ i.v.size \in {4, 8}
      [] s.field = "size" -> IsNum(i.v) /\ i.v.size = 4
      [] s.field \in {"keep", "dispose"} -> i.v = Global
      [] s.field = "variable" -> TRUE

AfterFlags(s, flags) ==
    [s EXCEPT !.flags = flags, !.helpers = flags = Copy,
              !.field = IF flags = Copy THEN "keep" ELSE "variable"]

Accept(s, i) ==
    CASE s.field = "isa" -> [s EXCEPT !.field = "forwarding", !.base = i.d]
      [] s.field = "forwarding" -> [s EXCEPT !.field = "flags"]
      [] s.field = "flags" -> IF i.v.size = 4 THEN [s EXCEPT !.field = "size", !.flags = i.v.val]
                              ELSE AfterFlags(s, i.v.val)
      [] s.field = "size" -> AfterFlags(s, s.flags)
      [] s.field = "keep" -> [s EXCEPT !.field = "dispose"]
      [] s.field = "dispose" -> [s EXCEPT !.field = "variable"]
      [] OTHER -> Fresh

\* Mutant: the automaton does not wait for the address of the next field.
InPlaceAnywhere(s, i) == i.d # NoOffset

InPlace(s, i) ==
    /\ i.d # NoOffset
    /\ s.base # NoOffset => i.d = s.base + Offset(s.field, s.helpers)

(* The struct type made for a result: where its value lies.                *)
ByrefType(helpers) == IF helpers THEN 8 + 8 + 4 + 4 + 8 + 8 ELSE 8 + 8 + 4 + 4

OnInstruction(i) ==
    LET at == Len(code) + 1
        s == IF st.first = 0 THEN [st EXCEPT !.first = at] ELSE st
        ok == InPlace(st, i) /\ Accepts(s, i)
    IN  /\ code' = Append(code, i)
        /\ st' = IF ok THEN Accept(s, i) ELSE Fresh
        /\ results' = IF ok /\ s.field = "variable"
                      THEN results \cup {[first |-> s.first, last |-> at, base |-> s.base,
                                          helpers |-> s.helpers, size |-> i.v.size]}
                      ELSE results

----------------------------------------------------------------------------
(* The compiler.                                                           *)

StoresOf(shape) ==
    LET b == shape.base
        flags == IF shape.helpers THEN Copy ELSE Plain
    IN  <<Store(b, Num(8, Zero)), Store(b + 8, StackAddr(b))>>
        \o (IF shape.split THEN <<Store(b + 16, Num(4, flags)), Store(b + 20, Num(4, Plain))>>
                           ELSE <<Store(b + 16, Num(8, flags))>>)
        \o (IF shape.helpers THEN <<Store(b + 24, Global), Store(b + 32, Global)>> ELSE <<>>)
        \o <<Store(b + Offset("variable", shape.helpers), Reg(8))>>

BInit == code = <<>> /\ st = Fresh /\ results = {} /\ pending = <<>> /\ noise = 0

StartStruct ==
    /\ pending = <<>>
    /\ \E shape \in Shapes : pending' = StoresOf(shape)
    /\ UNCHANGED <<code, st, results, noise>>

EmitStore ==
    /\ pending # <<>> /\ Len(code) < MaxCode
    /\ OnInstruction(Head(pending))
    /\ pending' = Tail(pending) /\ UNCHANGED noise

(* The optimiser removed a store, or put one in between.                   *)
LeaveOutStore ==
    /\ pending # <<>> /\ noise < MaxNoise
    /\ pending' = Tail(pending) /\ noise' = noise + 1
    /\ UNCHANGED <<code, st, results>>

EmitNoise ==
    /\ noise < MaxNoise /\ Len(code) < MaxCode
    /\ \E i \in Noise : OnInstruction(i)
    /\ noise' = noise + 1 /\ UNCHANGED pending

BNext == StartStruct \/ EmitStore \/ LeaveOutStore \/ EmitNoise

BSpec == BInit /\ [][BNext]_bvars

----------------------------------------------------------------------------
(* Reference: the runs of instructions that lay out a struct at a base.    *)

IsLayout(run, b, helpers) ==
    \E split \in BOOLEAN :
        LET wanted == StoresOf([base |-> b, helpers |-> helpers, split |-> split])
            Fits(k) == /\ run[k].d = wanted[k].d
                       /\ \/ k = Len(wanted)
                          \/ run[k].v = wanted[k].v
                          \/ /\ wanted[k].v.kind = "num" /\ k > 2
                             /\ run[k].v.kind = "num" /\ run[k].v.size = wanted[k].v.size
                             /\ (run[k].d = b + 16) => (run[k].v.val = Copy <=> helpers)
        IN  Len(run) = Len(wanted) /\ \A k \in 1..Len(run) : Fits(k)

(* Some continuation makes the run a layout.                               *)
IsUnfinished(run) ==
    /\ run # <<>>
    /\ \E b \in Candidates, helpers, split \in BOOLEAN :
         LET wanted == StoresOf([base |-> b, helpers |-> helpers, split |-> split])
             n == Len(run)
         IN  /\ n < Len(wanted)
             /\ IsLayout(run \o SubSeq(wanted, n + 1, Len(wanted)), b, helpers)

ByrefTypeOK ==
    /\ st.field \in {"isa", "forwarding", "flags", "size", "keep", "dispose", "variable"}
    /\ st.first \in 0..MaxCode /\ st.base \in Candidates \cup {NoOffset}
    /\ Len(code) <= MaxCode /\ noise <= MaxNoise
    /\ (st.field = "isa") <=> (st.base = NoOffset)

(* ScanForRefArg: a struct is reported when, and only when, the last        *)
(* instructions read lay it out at a candidate offset, and its type has    *)
(* its value where the variable was stored.  It is missed only when it     *)
(* comes right after an unfinished run, because the instruction that       *)
(* breaks a pattern is not tried as the start of the next                  *)
(* (byref_args.py:156).                                                    *)
StructsAreRecovered ==
    LET n == Len(code)
    IN  /\ \A r \in results :
             r.last = n => /\ r.base \in Candidates
                           /\ IsLayout(SubSeq(code, r.first, n), r.base, r.helpers)
                           /\ code[n].d = r.base + ByrefType(r.helpers)
        /\ \A i \in 1..(n - 1), b \in Candidates, helpers \in BOOLEAN :
             IsLayout(SubSeq(code, i, n), b, helpers)
             => \/ \E r \in results : r.first = i /\ r.last = n
                \/ \E k \in 1..(i - 1) : IsUnfinished(SubSeq(code, k, i - 1))

=============================================================================

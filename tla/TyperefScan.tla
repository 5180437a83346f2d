---------------------------- MODULE TyperefScan ----------------------------
(***************************************************************************)
(* Marking the mangled type names of __swift5_typeref as strings           *)
(* (plugins/swift/swift_types/swift_types.py, apply_swift_typeref_strings).*)
(* Names end with a NUL, but a name may hold symbolic references: a marker *)
(* byte followed by four bytes of any value, NUL included.                 *)
(***************************************************************************)
EXTENDS Integers, Sequences

CONSTANT SectionSize    \* bound: bytes of the section

ASSUME SectionAssumption == SectionSize \in Nat

(* What the scan tells bytes apart by.                                     *)
Bytes == {"nul", "marker", "char"}
RefBytes == 4    \* bytes that follow a marker, in a reference

VARIABLES
    section,    \* the bytes, at addresses 1..SectionSize
    ea,         \* where the scan is
    names       \* the strings it created, [first, last]

tvars == <<section, ea, names>>

\* Mutant: every NUL ends a name, also one inside a reference.
SplitsAtNul ==
    LET f[a \in 1..(SectionSize + RefBytes + 1)] ==
          IF a > SectionSize \/ section[a] = "nul" THEN a ELSE f[a + 1]
    IN  f

(* Where a name that is entered at an address stops: at a NUL, or past the *)
(* section.                                                                *)
Stop ==
    LET f[a \in 1..(SectionSize + RefBytes + 1)] ==
          IF a > SectionSize \/ section[a] = "nul" THEN a
          ELSE f[IF section[a] = "marker" THEN a + 1 + RefBytes ELSE a + 1]
    IN  f

TInit == section \in [1..SectionSize -> Bytes] /\ ea = 1 /\ names = {}

SkipNul ==
    /\ ea <= SectionSize /\ section[ea] = "nul"
    /\ ea' = ea + 1 /\ UNCHANGED <<section, names>>

MarkName ==
    /\ ea <= SectionSize /\ section[ea] # "nul"
    /\ LET stop == Stop[ea]
       IN  /\ names' = names \cup {[first |-> ea, last |-> IF stop <= SectionSize THEN stop ELSE stop - 1]}
           /\ ea' = stop + 1
    /\ UNCHANGED section

TNext == SkipNul \/ MarkName

TSpec == TInit /\ [][TNext]_tvars

----------------------------------------------------------------------------
TyperefTypeOK ==
    /\ ea \in 1..(SectionSize + RefBytes + 2)
    /\ names \subseteq [first : 1..SectionSize, last : 1..(SectionSize + RefBytes)]

(* Reference: the bytes that are the tail of a symbolic reference, when    *)
(* the section is read from its start.                                     *)
InTail ==
    LET f[a \in 1..SectionSize] ==
          \E m \in (a - RefBytes)..(a - 1) : m >= 1 /\ section[m] = "marker" /\ ~f[m]
    IN  f

(* apply_swift_typeref_strings: once the section is scanned, the strings   *)
(* are disjoint, every byte that is neither NUL nor part of a reference is *)
(* in one of them, a NUL that is not part of a reference ends one or is in *)
(* none, none begins inside a reference, and a string leaves the section   *)
(* only by a reference the section cuts off (swift_types.py:928).          *)
NamesAreMarked ==
    (ea > SectionSize) =>
      /\ \A n, o \in names : n # o => n.last < o.first \/ o.last < n.first
      /\ \A a \in 1..SectionSize :
           /\ (section[a] # "nul" /\ ~InTail[a]) => \E n \in names : a \in n.first..n.last
           /\ (section[a] = "nul" /\ ~InTail[a]) => \A n \in names : a \in n.first..n.last => a = n.last
      /\ \A n \in names : ~InTail[n.first]
      /\ \A n \in names :
           (n.last > SectionSize) => \E m \in n.first..SectionSize :
                section[m] = "marker" /\ ~InTail[m] /\ m + RefBytes = n.last

=============================================================================

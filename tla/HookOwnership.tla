--------------------------- MODULE HookOwnership ---------------------------
(***************************************************************************)
(* What the plugin promises the decompiler: its hooks and optimizers act   *)
(* for at most one generation of the plugin at a time, the one that owns   *)
(* the slot.  A generation gets one attempt at the slot, when it is        *)
(* created or, if it is deferred (fresh), once later; one that lost the    *)
(* slot never has it back.                                                 *)
(***************************************************************************)
EXTENDS Integers

VARIABLES owner,   \* the generation in the slot, 0 if none
          latest,  \* the last generation created
          fresh,   \* the last generation has its attempt still to come
          acting   \* the generations whose hooks act

vars == <<owner, latest, fresh, acting>>

Init == owner = 0 /\ latest = 0 /\ fresh = FALSE /\ acting = {}

(* A generation is created, and does not get or want the slot yet.         *)
Create == /\ latest' = latest + 1
          /\ fresh' \in BOOLEAN
          /\ UNCHANGED <<owner, acting>>

(* The fresh generation takes the free slot, or gives up its attempt.      *)
Take == /\ fresh /\ owner = 0
        /\ fresh' = FALSE
        /\ owner' = latest
        /\ acting' \subseteq {latest}
        /\ UNCHANGED latest

GiveUp == fresh /\ fresh' = FALSE /\ UNCHANGED <<owner, latest, acting>>

(* The owner leaves; a generation created in its place may take over.      *)
Leave == /\ owner # 0
         /\ \/ latest' = latest /\ fresh' \in {FALSE, fresh}
            \/ latest' = latest + 1 /\ fresh' = FALSE
         /\ owner' = 0
         /\ acting' = {}

Replace == /\ latest' = latest + 1
           /\ owner' = latest + 1
           /\ fresh' = FALSE
           /\ acting' \subseteq {latest + 1}

(* The owner turns its hooks on or off.                                    *)
Act == owner # 0 /\ acting' \subseteq {owner} /\ UNCHANGED <<owner, latest, fresh>>

Next == Create \/ Take \/ GiveUp \/ Leave \/ Replace \/ Act

Spec == Init /\ [][Next]_vars
=============================================================================

--------------------------- MODULE RequestService ---------------------------
(***************************************************************************)
(* What the headless servers promise the users of the client command: a    *)
(* request is carried out at most once, it is answered only after it was   *)
(* carried out, and one that never got through is not carried out.         *)
(***************************************************************************)
EXTENDS Integers

CONSTANTS Clients

VARIABLES
    status,   \* what each client knows of its request
    done      \* how often each client's request was carried out

vars == <<status, done>>

Init == status = [c \in Clients |-> "idle"] /\ done = [c \in Clients |-> 0]

Submit(c) == /\ status[c] = "idle"
             /\ status' = [status EXCEPT ![c] = "submitted"]
             /\ UNCHANGED done

Reject(c) == /\ status[c] = "idle"
             /\ status' = [status EXCEPT ![c] = "rejected"]
             /\ UNCHANGED done

(* A client that gave up does not call its request back.                   *)
Perform(c) == /\ status[c] \in {"submitted", "lost"}
              /\ done[c] = 0
              /\ done' = [done EXCEPT ![c] = 1]
              /\ UNCHANGED status

Answer(c) == /\ status[c] = "submitted" /\ done[c] = 1
             /\ status' = [status EXCEPT ![c] = "answered"]
             /\ UNCHANGED done

Lose(c) == /\ status[c] = "submitted"
           /\ status' = [status EXCEPT ![c] = "lost"]
           /\ UNCHANGED done

Next == \E c \in Clients :
            Submit(c) \/ Reject(c) \/ Perform(c) \/ Answer(c) \/ Lose(c)

Spec == Init /\ [][Next]_vars
=============================================================================

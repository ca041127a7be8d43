------------------------------- MODULE Mutex -------------------------------
(***************************************************************************)
(* What the peer programs promise, whatever algorithm they run: a process  *)
(* out of the critical region may ask for it, waits, and enters it when    *)
(* nobody is inside.  The states are those of process_state_t.             *)
(***************************************************************************)
CONSTANT Proc

VARIABLE state

Init == state = [p \in Proc |-> "PS_IDLE"]

Want(p) ==
    /\ state[p] = "PS_IDLE"
    /\ state' = [state EXCEPT ![p] = "PS_PENDING"]

Enter(p) ==
    /\ state[p] = "PS_PENDING"
    /\ \A q \in Proc : state[q] # "PS_EXECUTING"
    /\ state' = [state EXCEPT ![p] = "PS_EXECUTING"]

(* A request granted on the spot, within one handler. *)
WantAndEnter(p) ==
    /\ state[p] = "PS_IDLE"
    /\ \A q \in Proc : state[q] # "PS_EXECUTING"
    /\ state' = [state EXCEPT ![p] = "PS_EXECUTING"]

Exit(p) ==
    /\ state[p] = "PS_EXECUTING"
    /\ state' = [state EXCEPT ![p] = "PS_IDLE"]

Next == \E p \in Proc : Want(p) \/ Enter(p) \/ WantAndEnter(p) \/ Exit(p)

Spec == Init /\ [][Next]_state
=============================================================================

----------------------------- MODULE EventLoop -----------------------------
(***************************************************************************)
(* What a peer program promises of its signals and timers, and the grain   *)
(* at which Peer, Suzuki, Lamport, Ricart and Singhal describe it: a peer  *)
(* takes its packets in the order they came, one handler at a time; an     *)
(* ENTERED event it has queued and an EXITED event it has scheduled are    *)
(* handled some time later, each once.  Packets that came before the       *)
(* program asked for signals (early) delay the others by as many: the peer *)
(* always leaves that number of them unread.                               *)
(*                                                                         *)
(* What an algorithm does with a message is left open: a peer that wants   *)
(* in or waits may be granted the critical region or not.                  *)
(***************************************************************************)
EXTENDS Naturals, Sequences

CONSTANT Packet         \* what may come: "SYNCRO", "WANT", "PEER" and others

VARIABLES
    ready,              \* the program waits for events
    socket, early,
    fsm_state,
    entered_queued,     \* ENTERED events queued and not handled
    exited_due,         \* EXITED events scheduled and not handled
    exit_request

vars == <<ready, socket, early, fsm_state, entered_queued, exited_due, exit_request>>

Init ==
    /\ ready = FALSE
    /\ socket = <<>>
    /\ early = 0
    /\ fsm_state = "PS_IDLE"
    /\ entered_queued = 0
    /\ exited_due = 0
    /\ exit_request = FALSE

Arrive ==
    /\ \E pkt \in Packet : socket' = Append(socket, pkt)
    /\ early' = IF ready THEN early ELSE early + 1
    /\ UNCHANGED <<ready, fsm_state, entered_queued, exited_due, exit_request>>

Start ==
    /\ ready' = TRUE
    /\ UNCHANGED <<socket, early, fsm_state, entered_queued, exited_due, exit_request>>

Running == ready /\ ~exit_request

Enter ==
    /\ fsm_state' = "PS_EXECUTING"
    /\ exited_due' = exited_due + 1

(* The peer asks and waits, or is granted the region now or by an event. *)
Want ==
    \/ fsm_state' = "PS_PENDING" /\ UNCHANGED <<entered_queued, exited_due>>
    \/ fsm_state' = "PS_PENDING" /\ entered_queued' = entered_queued + 1 /\ UNCHANGED exited_due
    \/ Enter /\ UNCHANGED entered_queued

Receive ==
    /\ Running
    /\ Len(socket) > early
    /\ socket' = Tail(socket)
    /\ \/ /\ fsm_state = "PS_IDLE" /\ Head(socket) = "WANT"
          /\ Want
       \/ /\ fsm_state = "PS_PENDING" /\ entered_queued = 0 /\ Head(socket) = "PEER"
          /\ Enter
          /\ UNCHANGED entered_queued
       \/ /\ ~(fsm_state = "PS_IDLE" /\ Head(socket) = "WANT")
          /\ UNCHANGED <<fsm_state, entered_queued, exited_due>>
    /\ UNCHANGED <<ready, early, exit_request>>

HandleEntered ==
    /\ Running
    /\ entered_queued > 0
    /\ fsm_state = "PS_PENDING"
    /\ entered_queued' = entered_queued - 1
    /\ Enter
    /\ UNCHANGED <<ready, socket, early, exit_request>>

HandleExited ==
    /\ Running
    /\ exited_due > 0
    /\ fsm_state = "PS_EXECUTING"
    /\ exited_due' = exited_due - 1
    /\ fsm_state' = "PS_IDLE"
    /\ UNCHANGED <<ready, socket, early, entered_queued, exit_request>>

(* The user stops the program; no handler does. *)
Stop ==
    /\ Running
    /\ exit_request' = TRUE
    /\ UNCHANGED <<ready, socket, early, fsm_state, entered_queued, exited_due>>

Next == Arrive \/ Start \/ Receive \/ HandleEntered \/ HandleExited \/ Stop

Spec ==
    /\ Init
    /\ [][Next]_vars
    /\ WF_vars(Receive)
    /\ WF_vars(HandleEntered)
    /\ WF_vars(HandleExited)
=============================================================================

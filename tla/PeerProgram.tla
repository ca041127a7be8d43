---------------------------- MODULE PeerProgram ----------------------------
(***************************************************************************)
(* One peer program as a process: main() of src/skel.c on the event engine *)
(* of src/common/init.c, from its command line to the end of the event     *)
(* loop.  Packets come from outside, whatever and whenever; the algorithm  *)
(* behind the handlers is left open where the four programs differ, that   *)
(* is, when a waiting process has been granted the critical region.        *)
(***************************************************************************)
EXTENDS Events, Startup

CONSTANTS
    Incoming,           \* packets: "SYNCRO", "WANT", "PEER" or unknown "OTHER"
    MaxPackets,         \* bound: packets that arrive in a behaviour
    MaxEarly            \* bound: those of them before init_handlers

ASSUME PeerProgramAssumption == MaxPackets \in Nat /\ MaxEarly \in Nat

VARIABLES
    fsm_state,
    arrived             \* number of packets so far

engineVars == <<netioVars, sigrt_network, sigrt_timerexp, sigrt_deliver, timerVars, exit_request>>

vars == <<startVars, engineVars, fsm_state, arrived>>

(* The seconds every WANT of the supervisor asks for. *)
critical_region_simulated_duration == 5

Init ==
    /\ StartInit
    /\ EventsInit
    /\ fsm_state = "PS_IDLE"
    /\ arrived = 0

Start == StartNext /\ UNCHANGED <<engineVars, fsm_state, arrived>>

(***************************************************************************)
(* init_handlers, the five calls of register_event_handler, and the call   *)
(* of wait_events: the signals are blocked all the while.                  *)
(***************************************************************************)
WaitForEvents ==
    /\ program = "peer" /\ pc = "bound"
    /\ ~o_async
    /\ init_handlers
    /\ UNCHANGED <<startVars, fsm_state, arrived>>

(* sigaction or fcntl fails: main() ends. *)
HandlersFail ==
    /\ program = "peer" /\ pc = "bound"
    /\ ~o_async
    /\ GiveUp
    /\ UNCHANGED <<engineVars, fsm_state, arrived>>

Arrive ==
    /\ program = "peer" /\ pc = "bound"
    /\ arrived < MaxPackets
    /\ o_async \/ early < MaxEarly
    /\ \E pkt \in Incoming : PacketArrives(pkt)
    /\ arrived' = arrived + 1
    /\ UNCHANGED <<startVars, fsm_state>>

Expire == \E ix \in Slot : TimerExpires(ix) /\ UNCHANGED <<startVars, fsm_state, arrived>>

Signal == EngineNext /\ UNCHANGED <<startVars, fsm_state, arrived>>
-----------------------------------------------------------------------------
(***************************************************************************)
(* The handlers.  q is the queue of events without the one being handled.  *)
(***************************************************************************)

(* The handler ends and leaves state and timers alone. *)
Return(q) == sigrt_deliver' = q /\ UNCHANGED <<timerVars, fsm_state, exit_request>>

Fatal(q) ==
    /\ exit_request' = TRUE
    /\ sigrt_deliver' = q
    /\ UNCHANGED <<timerVars, fsm_state>>

EnterTwice(state, q) ==     \* faulty: the exit is scheduled and queued
    /\ sigrt_deliver' = deliver_event(q, "EXITED")
    /\ fsm_state' = "PS_EXECUTING"
    /\ schedule_event("EXITED", critical_region_simulated_duration)
    /\ UNCHANGED exit_request

process_ev_entered_cr(state, q) ==
    IF state # "PS_PENDING"
    THEN Fatal(q)
    ELSE /\ sigrt_deliver' = q
         /\ fsm_state' = "PS_EXECUTING"
         /\ schedule_event("EXITED", critical_region_simulated_duration)
         /\ UNCHANGED exit_request

process_ev_exited_cr(q) ==
    IF fsm_state # "PS_EXECUTING"
    THEN Fatal(q)
    ELSE /\ fsm_state' = "PS_IDLE"
         /\ sigrt_deliver' = q
         /\ UNCHANGED <<timerVars, exit_request>>

(***************************************************************************)
(* WANT: the process asks its peers and waits; a holder of the token of    *)
(* suzuki.c queues ENTERED for itself; a process of singhal.c that needs   *)
(* nobody handles ENTERED at once.                                         *)
(***************************************************************************)
process_ev_want_cr(q) ==
    IF fsm_state # "PS_IDLE"
    THEN Fatal(q)
    ELSE \/ /\ fsm_state' = "PS_PENDING"
            /\ sigrt_deliver' \in {q, deliver_event(q, "ENTERED")}
            /\ UNCHANGED <<timerVars, exit_request>>
         \/ process_ev_entered_cr("PS_PENDING", q)

handle_supervisor_msg(type, q) ==
    IF fsm_state = "PS_IDLE" /\ type = "WANT" THEN process_ev_want_cr(q) ELSE Return(q)

(* A message of a peer may be the last a waiting process has waited for. *)
handle_peer_msg(q) ==
    \/ Return(q)
    \/ /\ fsm_state = "PS_PENDING"
       /\ Count(q, "ENTERED") = 0
       /\ process_ev_entered_cr(fsm_state, q)

PackIn ==
    /\ \E pkt \in Incoming :
          /\ net_demux(pkt)
          /\ LET q == Tail(sigrt_deliver) IN
                CASE pkt \in {"SYNCRO", "WANT"} -> handle_supervisor_msg(pkt, q)
                  [] pkt = "PEER" -> handle_peer_msg(q)
                  [] OTHER -> Return(q)
    /\ UNCHANGED <<startVars, arrived>>

Entered ==
    /\ Handles("ENTERED")
    /\ process_ev_entered_cr(fsm_state, Tail(sigrt_deliver))
    /\ UNCHANGED <<startVars, netioVars, sigrt_network, sigrt_timerexp, arrived>>

Exited ==
    /\ Handles("EXITED")
    /\ process_ev_exited_cr(Tail(sigrt_deliver))
    /\ UNCHANGED <<startVars, netioVars, sigrt_network, sigrt_timerexp, arrived>>

(* wait_events: the next pending signal. *)
WaitEvents == o_async /\ (Signal \/ PackIn \/ Entered \/ Exited)

Stop == o_async /\ ForcedExit /\ UNCHANGED <<startVars, fsm_state, arrived>>

Next ==
    \/ Start \/ WaitForEvents \/ HandlersFail
    \/ Arrive \/ Expire \/ WaitEvents \/ Stop

(***************************************************************************)
(* sigwaitinfo returns as long as a signal is pending, and the kernel ends *)
(* every timer it runs.                                                    *)
(***************************************************************************)
Spec ==
    /\ Init
    /\ [][Next]_vars
    /\ WF_vars(WaitEvents)
    /\ WF_vars(Expire)
-----------------------------------------------------------------------------
TypeOK ==
    /\ socket \in Seq(Incoming)
    /\ EventsTypeOK
    /\ fsm_state \in {"PS_IDLE", "PS_PENDING", "PS_EXECUTING"}
    /\ arrived \in 0 .. MaxPackets

(***************************************************************************)
(* The events under way are the ones the state waits for, however packets, *)
(* timers and the queue interleave: an executing process has its EXITED on *)
(* a timer, in the timer's signal or in the queue, once, and no other has; *)
(* ENTERED is queued once at most, and only while the process waits.       *)
(***************************************************************************)
EventsMatchPhase ==
    /\ Due("EXITED") = (IF fsm_state = "PS_EXECUTING" THEN 1 ELSE 0)
    /\ Due("ENTERED") <= (IF fsm_state = "PS_PENDING" THEN 1 ELSE 0)

(***************************************************************************)
(* The program implements the event loop the algorithms are modelled on:   *)
(* no packet, event or timer is lost, doubled or handled in a state that   *)
(* is not ready for it, and each is handled in the end.                    *)
(***************************************************************************)
Abstract == INSTANCE EventLoop WITH
    Packet <- Incoming,
    ready <- o_async,
    entered_queued <- Due("ENTERED"),
    exited_due <- Due("EXITED")

EventLoopSpec == Abstract!Spec
=============================================================================

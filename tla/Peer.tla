-------------------------------- MODULE Peer --------------------------------
(***************************************************************************)
(* What every peer program shares, as laid out in src/skel.c: the state    *)
(* machine, the messages of the supervisor, entering and leaving the       *)
(* critical region, and the timer that ends the stay in it.  lamport.c,    *)
(* ricart.c, suzuki.c and singhal.c repeat this code and add an algorithm. *)
(***************************************************************************)
EXTENDS Supervisor

VARIABLES
    fsm_state,      \* fsm_state[p]
    exited_due      \* exited_due[p]: EXITED events p has scheduled and not handled

peerVars == <<fsm_state, exited_due>>

PeerTypeOK ==
    /\ fsm_state \in [Proc -> State]
    /\ exited_due \in [Proc -> Nat]

PeerInit ==
    /\ fsm_state = [p \in Proc |-> "PS_IDLE"]
    /\ exited_due = [p \in Proc |-> 0]

(* A handler of p returns ERR_FATAL: p leaves its event loop. *)
Fatal(p, n) ==
    /\ exit_request' = [exit_request EXCEPT ![p] = TRUE]
    /\ net' = n
    /\ UNCHANGED peerVars

LargerOf(a, b) == IF a < b THEN b ELSE a

(***************************************************************************)
(* handle_supervisor_msg, the message that is not WANT in state IDLE: a    *)
(* SYNCRO sets the epoch of the time stamps (PeerClock), in the other two  *)
(* states whatever arrives is dropped.                                     *)
(***************************************************************************)
SupervisorMsgAt(p, slot) ==
    /\ Waiting(p)
    /\ slot \in Receivable(p)
    /\ PacketAt(slot).msg \in SupMsg

IsWant(p, slot) ==
    fsm_state[p] = "PS_IDLE" /\ PacketAt(slot).msg.type = "WANT"

IsSyncro(p, slot) ==
    fsm_state[p] = "PS_IDLE" /\ PacketAt(slot).msg.type = "SYNCRO"

SupervisorMsgNoted(p, slot) ==
    /\ SupervisorMsgAt(p, slot)
    /\ ~IsWant(p, slot)
    /\ net' = dme_recv_msg(slot)
    /\ UNCHANGED <<peerVars, exit_request>>

PeerMsgAt(p, slot) ==
    /\ Waiting(p)
    /\ slot \in Receivable(p)
    /\ PacketAt(slot).msg \notin SupMsg

(***************************************************************************)
(* process_ev_entered_cr: tell the supervisor, switch to EXECUTING and     *)
(* schedule the EXITED event.  state is the FSM state at the call, n the   *)
(* network.                                                                *)
(***************************************************************************)
process_ev_entered_cr(p, state, n) ==
    IF state # "PS_PENDING"
    THEN Fatal(p, n)
    ELSE /\ net' = dme_send_msg(n, p, SUPERVISOR_PID, [type |-> "ENTERED"])
         /\ fsm_state' = [fsm_state EXCEPT ![p] = "PS_EXECUTING"]
         /\ exited_due' = [exited_due EXCEPT ![p] = @ + 1]
         /\ UNCHANGED exit_request

(***************************************************************************)
(* The EXITED event is due when its timer expires; the duration is in      *)
(* seconds, so any number of other steps may come first.                   *)
(***************************************************************************)
ExitedDue(p) == Waiting(p) /\ exited_due[p] > 0

InformNobody(p) == net      \* faulty: the supervisor is not told

(* The network once the supervisor has been informed of the exit. *)
InformExited(p) == dme_send_msg(net, p, SUPERVISOR_PID, [type |-> "EXITED"])

LeaveTimerArmed(p) ==       \* faulty: the timer expires again
    /\ fsm_state' = [fsm_state EXCEPT ![p] = "PS_IDLE"]
    /\ UNCHANGED <<exited_due, exit_request>>

(* What all peers do in process_ev_exited_cr besides their algorithm. *)
LeaveCriticalRegion(p) ==
    /\ fsm_state' = [fsm_state EXCEPT ![p] = "PS_IDLE"]
    /\ exited_due' = [exited_due EXCEPT ![p] = @ - 1]
    /\ UNCHANGED exit_request

(* The state of the whole experiment that peers do not touch. *)
SupervisorUnchanged == UNCHANGED supVars

(***************************************************************************)
(* Every test allowed by the bound MaxTests has been started and played:   *)
(* the only way a behaviour may end without anything having gone wrong.    *)
(***************************************************************************)
ExperimentOver ==
    /\ test_number = MaxTests
    /\ NetEmpty
    /\ \A p \in Proc : fsm_state[p] = "PS_IDLE"
-----------------------------------------------------------------------------
(***************************************************************************)
(* Properties all algorithms share.                                        *)
(***************************************************************************)

(***************************************************************************)
(* No two peers are in the critical region at the same time: what the      *)
(* programs exist for, checked by the supervisor in critical_region_is_sane.*)
(***************************************************************************)
MutualExclusion ==
    \A p, q \in Proc :
        fsm_state[p] = "PS_EXECUTING" /\ fsm_state[q] = "PS_EXECUTING" => p = q

(***************************************************************************)
(* A WANT never reaches a peer that is not IDLE, so no election is dropped *)
(* by handle_supervisor_msg ("The supervisor should not send a message in  *)
(* these states"): the supervisor's delayed view of a peer never runs      *)
(* ahead of the peer.                                                      *)
(***************************************************************************)
WantFindsIdle ==
    \A pkt \in Packets :
        pkt.msg.type = "WANT" => fsm_state[pkt.dst] = "PS_IDLE"

(***************************************************************************)
(* process_messages stores the response times of a test at the index       *)
(* received_resps_count before it increments it: the arrays have           *)
(* nodes_count cells, and a test gets one response per elected process.    *)
(***************************************************************************)
ResponsesFit == received_resps_count <= elected_proc_count

(***************************************************************************)
(* No peer ever takes a fatal branch: the guards on fsm_state in           *)
(* process_ev_want_cr, process_ev_entered_cr and process_ev_exited_cr      *)
(* cannot fail, whatever the order of messages and timers.                 *)
(***************************************************************************)
NoPeerFatal == \A p \in Proc : ~exit_request[p]

(***************************************************************************)
(* The supervisor does not stop an experiment that is in order: the ENTERED*)
(* of one peer never overtakes the EXITED of the peer before it, and no    *)
(* peer message reaches the supervisor.                                    *)
(***************************************************************************)
NoFalseAlarm == ~exit_request[SUPERVISOR_PID]

(***************************************************************************)
(* "chec if there are more than 1 procceses in the critical region": with  *)
(* two peers inside in its own view the supervisor has stopped.            *)
(***************************************************************************)
SupervisorStops ==
    Cardinality({p \in Proc : nodes[p] = "PS_EXECUTING"}) > 1
        => exit_request[SUPERVISOR_PID]

(***************************************************************************)
(* Nobody is left waiting: when no packet is on its way to a peer and no   *)
(* timer runs, all peers are out of the protocol, and a supervisor that    *)
(* has handled its packets too, without an alarm, sees them so and has a   *)
(* response from every process it elected.  The bound on the tests makes   *)
(* every behaviour finite, and packets and timers are not held up for ever:*)
(* so each competitor has been inside and each test ends.  A request or a  *)
(* reply forgotten by an algorithm shows as a peer that waits in silence.  *)
(***************************************************************************)
NobodyForgotten ==
    /\ \A p \in Proc : exited_due[p] = 0
    /\ \A pkt \in Packets : pkt.dst \notin Proc
    => /\ \A p \in Proc : fsm_state[p] = "PS_IDLE"
       /\ NetEmpty /\ ~exit_request[SUPERVISOR_PID] =>
             /\ critical_region_is_idlle
             /\ received_resps_count = elected_proc_count

(***************************************************************************)
(* A peer that was told to compete gets its turn.                          *)
(***************************************************************************)
Served == \A p \in Proc : fsm_state[p] = "PS_PENDING" ~> fsm_state[p] = "PS_EXECUTING"

(***************************************************************************)
(* Every test ends: the supervisor sees all peers idle again and can start *)
(* the next one.                                                           *)
(***************************************************************************)
TestsEnd == test_number > 0 ~> (test_number = MaxTests /\ critical_region_is_idlle)
=============================================================================

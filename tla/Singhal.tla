------------------------------ MODULE Singhal ------------------------------
(***************************************************************************)
(* src/singhal.c: Singhal's dynamic information structure algorithm.  A    *)
(* process asks only the peers of its request set Ri for permission, and   *)
(* answers the peers of its information set Ii when it leaves.  Initially  *)
(* process p asks 1..p-1.                                                  *)
(***************************************************************************)
EXTENDS PeerClock

VARIABLES
    Requesting,
    Executing,
    Ri,                 \* Ri[p]: the peers p asks for permission
    Ii,                 \* Ii[p]: the peers p answers when it leaves
    pending_request     \* stamp of p's request; its pid is never set

singhalVars == <<Requesting, Executing, Ri, Ii, pending_request>>
vars == <<net, supVars, exit_request, peerVars, clockVars, singhalVars>>

REPLY(p) == [type |-> "REPLY", pid |-> p]

init_Ri(p) == 1 .. (p - 1)

Init ==
    /\ NetInit
    /\ SupInit
    /\ PeerInit
    /\ ClockInit
    /\ Requesting = [p \in Proc |-> FALSE]
    /\ Executing = [p \in Proc |-> FALSE]
    /\ Ri = [p \in Proc |-> init_Ri(p)]
    /\ Ii = [p \in Proc |-> {}]
    /\ pending_request = [p \in Proc |-> [sec |-> 0, nsec |-> 0]]

(***************************************************************************)
(* request_prio_cmp(&req, &pending_request) > 0, that is, req does not     *)
(* precede.  pending_request.pid is 0, so req never wins a tie.            *)
(***************************************************************************)
My_priority(p, ts) == ~Earlier(ts, pending_request[p])

EnterStillRequesting(p, state, n) ==    \* faulty: Requesting stays set
    /\ process_ev_entered_cr(p, state, n)
    /\ Executing' = [Executing EXCEPT ![p] = TRUE]
    /\ UNCHANGED Requesting

void_Ri_short(r) == r \subseteq {nodes_count}   \* faulty: the last peer is not looked at

(* Nobody is left to ask. *)
void_Ri(r) == r = {}

(* process_ev_entered_cr: the common part and the algorithm's own flags. *)
EnterCriticalRegion(p, state, n) ==
    /\ process_ev_entered_cr(p, state, n)
    /\ Requesting' = [Requesting EXCEPT ![p] = FALSE]
    /\ Executing' = [Executing EXCEPT ![p] = TRUE]

(***************************************************************************)
(* process_ev_want_cr, called by handle_supervisor_msg: with an empty Ri   *)
(* the process enters in the same handler.  The stamp is read at t.        *)
(***************************************************************************)
process_ev_want_cr(p, slot, t) ==
    /\ SupervisorMsgAt(p, slot)
    /\ IsWant(p, slot)
    /\ pending_request' = [pending_request EXCEPT ![p] = Stamp(p, t)]
    /\ IF void_Ri(Ri[p])
       THEN EnterCriticalRegion(p, "PS_PENDING", dme_recv_msg(slot))
       ELSE /\ fsm_state' = [fsm_state EXCEPT ![p] = "PS_PENDING"]
            /\ Requesting' = [Requesting EXCEPT ![p] = TRUE]
            /\ net' = SendToEach(dme_recv_msg(slot), p, Ascending(Ri[p]), REQUEST(p, t))
            /\ UNCHANGED <<exited_due, exit_request, Executing>>
    /\ StampTaken(t)
    /\ UNCHANGED <<Ri, Ii>>

(* handle_peer_msg, a REQUEST that has to wait until p leaves. *)
RequestDeferred(p, slot) ==
    /\ PeerMsgAt(p, slot)
    /\ LET msg == PacketAt(slot).msg IN
       /\ msg.type = "REQUEST"
       /\ Executing[p] \/ (Requesting[p] /\ My_priority(p, msg.ts))
       /\ Ii' = [Ii EXCEPT ![p] = @ \cup {msg.pid}]
       /\ RequestArrives(msg)
    /\ net' = dme_recv_msg(slot)
    /\ UNCHANGED <<peerVars, exit_request, Requesting, Executing, Ri, pending_request>>

(***************************************************************************)
(* handle_peer_msg, a REQUEST that comes before p's own.  A sender that p  *)
(* has not asked yet is asked now, under a new stamp that replaces the one *)
(* p's other requests carry.                                               *)
(***************************************************************************)
RequestYielded(p, slot) ==
    /\ PeerMsgAt(p, slot)
    /\ LET msg == PacketAt(slot).msg
           replied == dme_send_msg(dme_recv_msg(slot), p, msg.pid, REPLY(p))
       IN
       /\ msg.type = "REQUEST"
       /\ Requesting[p] /\ ~My_priority(p, msg.ts)
       /\ IF msg.pid \in Ri[p]
          THEN /\ net' = replied
               /\ RequestArrives(msg)
               /\ UNCHANGED <<Ri, pending_request>>
          ELSE \E t \in StampInstants(ArrivalTime(msg)) :
               /\ net' = dme_send_msg(replied, p, msg.pid, REQUEST(p, t))
               /\ Ri' = [Ri EXCEPT ![p] = @ \cup {msg.pid}]
               /\ pending_request' = [pending_request EXCEPT ![p] = Stamp(p, t)]
               /\ StampTaken(t)
    /\ UNCHANGED <<peerVars, exit_request, Requesting, Executing, Ii>>

GrantedUnasked(p, slot) ==              \* faulty: the requester is not asked later
    /\ PeerMsgAt(p, slot)
    /\ LET msg == PacketAt(slot).msg IN
       /\ msg.type = "REQUEST"
       /\ ~Requesting[p] /\ ~Executing[p]
       /\ net' = dme_send_msg(dme_recv_msg(slot), p, msg.pid, REPLY(p))
       /\ RequestArrives(msg)
    /\ UNCHANGED <<peerVars, exit_request, singhalVars>>

(* handle_peer_msg, a REQUEST while p neither requests nor executes. *)
RequestGranted(p, slot) ==
    /\ PeerMsgAt(p, slot)
    /\ LET msg == PacketAt(slot).msg IN
       /\ msg.type = "REQUEST"
       /\ ~Requesting[p] /\ ~Executing[p]
       /\ Ri' = [Ri EXCEPT ![p] = @ \cup {msg.pid}]
       /\ net' = dme_send_msg(dme_recv_msg(slot), p, msg.pid, REPLY(p))
       /\ RequestArrives(msg)
    /\ UNCHANGED <<peerVars, exit_request, Requesting, Executing, Ii, pending_request>>

ReplyReceived(p, slot) ==
    /\ PeerMsgAt(p, slot)
    /\ PacketAt(slot).msg.type = "REPLY"
    /\ Ri' = [Ri EXCEPT ![p] = @ \ {PacketAt(slot).msg.pid}]
    /\ IF Requesting[p] /\ void_Ri(Ri'[p])
       THEN EnterCriticalRegion(p, fsm_state[p], dme_recv_msg(slot))
       ELSE /\ net' = dme_recv_msg(slot)
            /\ UNCHANGED <<peerVars, exit_request, Requesting, Executing>>
    /\ UNCHANGED <<clockVars, Ii, pending_request>>

AnsweredButLast(p) == Ascending(Ii[p] \ {nodes_count})  \* faulty: ix < N

(* The peers answered at the exit, in the order of the pids. *)
Answered(p) == Ascending(Ii[p])

ExitForgetsAnswered(p) ==               \* faulty: Ri does not grow
    /\ ExitedDue(p)
    /\ LeaveCriticalRegion(p)
    /\ Executing' = [Executing EXCEPT ![p] = FALSE]
    /\ net' = SendToEach(InformExited(p), p, Answered(p), REPLY(p))
    /\ Ii' = [Ii EXCEPT ![p] = {}]
    /\ UNCHANGED <<clockVars, Requesting, Ri, pending_request>>

(* Those answered at the exit are those p will ask the next time. *)
process_ev_exited_cr(p) ==
    /\ ExitedDue(p)
    /\ IF fsm_state[p] # "PS_EXECUTING"
       THEN Fatal(p, net) /\ UNCHANGED <<Executing, Ri, Ii>>
       ELSE /\ LeaveCriticalRegion(p)
            /\ Executing' = [Executing EXCEPT ![p] = FALSE]
            /\ net' = SendToEach(InformExited(p), p, Answered(p), REPLY(p))
            /\ Ri' = [Ri EXCEPT ![p] = @ \cup Ii[p]]
            /\ Ii' = [Ii EXCEPT ![p] = {}]
    /\ UNCHANGED <<clockVars, Requesting, pending_request>>

handle_message(p) ==
    \E slot \in Receivable(p) :
        \/ SupervisorMsgKept(p, slot) /\ UNCHANGED singhalVars
        \/ \E t \in StampInstants(now) : process_ev_want_cr(p, slot, t)
        \/ RequestDeferred(p, slot)
        \/ RequestYielded(p, slot)
        \/ RequestGranted(p, slot)
        \/ ReplyReceived(p, slot)

PeerNext(p) ==
    /\ \/ handle_message(p)
       \/ process_ev_exited_cr(p)
       \/ sendto(p) /\ UNCHANGED <<exit_request, peerVars, clockVars, singhalVars>>
    /\ SupervisorUnchanged

SupervisorNext ==
    /\ SupNext \/ (sendto(SUPERVISOR_PID) /\ UNCHANGED <<supVars, exit_request>>)
    /\ UNCHANGED <<peerVars, clockVars, singhalVars>>

Next ==
    \/ SupervisorNext
    \/ \E p \in Proc : PeerNext(p)
    \/ ExperimentOver /\ UNCHANGED vars

Spec == Init /\ [][Next]_vars

(* As in the other algorithms: whoever has something to do does it. *)
FairSpec ==
    /\ Spec
    /\ WF_vars(SupervisorNext)
    /\ \A p \in Proc : WF_vars(PeerNext(p))
-----------------------------------------------------------------------------
PeerMsg ==
    [type : {"REQUEST"}, pid : Proc, ts : Timespec, at : Nat]
        \cup [type : {"REPLY"}, pid : Proc]

PacketType == [src : Node, dst : Node, msg : SupMsg \cup PeerMsg]

TypeOK ==
    /\ net \in [Lane -> Seq(PacketType)]
    /\ SupTypeOK
    /\ PeerTypeOK
    /\ ClockTypeOK
    /\ Requesting \in [Proc -> BOOLEAN]
    /\ Executing \in [Proc -> BOOLEAN]
    /\ Ri \in [Proc -> SUBSET Proc]
    /\ Ii \in [Proc -> SUBSET Proc]
    /\ pending_request \in [Proc -> Timespec]

(***************************************************************************)
(* Whoever is in the critical region is in the request set of every other  *)
(* peer: nobody can enter without its REPLY, whether it asks by itself or  *)
(* was added by a request it yielded to.                                   *)
(***************************************************************************)
InsideIsAsked ==
    \A p, q \in Proc :
        p # q /\ fsm_state[p] = "PS_EXECUTING" => Ri[p] = {} /\ p \in Ri[q]

(***************************************************************************)
(* "The Singhal's algorithm uses it's own state variables": they never     *)
(* disagree with the state machine the supervisor's messages go by.        *)
(***************************************************************************)
FlagsAgree ==
    \A p \in Proc :
        /\ Requesting[p] <=> fsm_state[p] = "PS_PENDING"
        /\ Executing[p] <=> fsm_state[p] = "PS_EXECUTING"

(***************************************************************************)
(* The information structure: of two peers that are both out of the        *)
(* protocol, with nothing on its way between them, one asks the other, so  *)
(* no two of them can enter without either knowing of the other.           *)
(***************************************************************************)
OneAsksTheOther ==
    \A p, q \in Proc :
        p # q /\ NetEmpty
            => p \in Ri[q] \/ q \in Ri[p] \/ p \in Ii[q] \/ q \in Ii[p]

Abstract == INSTANCE Mutex WITH state <- fsm_state

(***************************************************************************)
(* The peers running singhal.c are a mutual exclusion protocol.            *)
(***************************************************************************)
MutexSpec == Abstract!Spec
=============================================================================

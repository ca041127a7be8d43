------------------------------- MODULE Ricart -------------------------------
(***************************************************************************)
(* src/ricart.c: the Ricart-Agrawala algorithm.  A process enters when all *)
(* the others have replied to its request; it defers its own REPLY to a    *)
(* later request until it leaves.                                          *)
(***************************************************************************)
EXTENDS PeerClock

VARIABLES
    ricart_RD,          \* ricart_RD[p]: the peers whose REPLY p defers
    ricart_replies,     \* ricart_replies[p]: the peers whose REPLY p has
    my_tstamp           \* my_tstamp[p]: stamp of p's last request

ricartVars == <<ricart_RD, ricart_replies, my_tstamp>>
vars == <<net, supVars, exit_request, peerVars, clockVars, ricartVars>>

REPLY(p) == [type |-> "REPLY", pid |-> p]

Init ==
    /\ NetInit
    /\ SupInit
    /\ PeerInit
    /\ ClockInit
    /\ ricart_RD = [p \in Proc |-> {}]
    /\ ricart_replies = [p \in Proc |-> {}]
    /\ my_tstamp = [p \in Proc |-> [sec |-> 0, nsec |-> 0]]

my_turn_one_short(p, r) ==          \* faulty: the last reply is not waited for
    Cardinality(r) >= nodes_count - 2

(* All the others have replied; r is the set of replies at the call. *)
my_turn(p, r) == Proc \ {p} \subseteq r

(* process_ev_want_cr, called by handle_supervisor_msg; the stamp is read at t. *)
process_ev_want_cr(p, slot, t) ==
    /\ SupervisorMsgAt(p, slot)
    /\ IsWant(p, slot)
    /\ fsm_state' = [fsm_state EXCEPT ![p] = "PS_PENDING"]
    /\ ricart_replies' = [ricart_replies EXCEPT ![p] = {}]
    /\ my_tstamp' = [my_tstamp EXCEPT ![p] = Stamp(p, t)]
    /\ net' = dme_broadcast_msg(dme_recv_msg(slot), p, REQUEST(p, t))
    /\ StampTaken(t)
    /\ UNCHANGED <<exited_due, exit_request, ricart_RD>>

RepliesUnlessInside(p, ts) == fsm_state[p] # "PS_EXECUTING"     \* faulty

(* What handle_peer_msg does with a REQUEST carrying the stamp ts. *)
Replies(p, ts) ==
    \/ fsm_state[p] = "PS_IDLE"
    \/ fsm_state[p] = "PS_PENDING" /\ Earlier(ts, my_tstamp[p])

Defers(p, ts) ==
    \/ fsm_state[p] = "PS_EXECUTING"
    \/ fsm_state[p] = "PS_PENDING" /\ Earlier(my_tstamp[p], ts)

(***************************************************************************)
(* handle_peer_msg, a REQUEST.  Two pending processes with equal stamps    *)
(* neither reply nor defer: the pids are not compared.                     *)
(***************************************************************************)
RequestReceived(p, slot) ==
    /\ PeerMsgAt(p, slot)
    /\ LET msg == PacketAt(slot).msg IN
       /\ msg.type = "REQUEST"
       /\ ricart_RD' =
             [ricart_RD EXCEPT ![p] =
                 IF Defers(p, msg.ts) THEN @ \cup {msg.pid}
                 ELSE IF fsm_state[p] = "PS_IDLE" THEN @ \ {msg.pid}
                 ELSE @]
       /\ net' = IF Replies(p, msg.ts)
                 THEN dme_send_msg(dme_recv_msg(slot), p, msg.pid, REPLY(p))
                 ELSE dme_recv_msg(slot)
       /\ RequestArrives(msg)
    /\ UNCHANGED <<peerVars, exit_request, ricart_replies, my_tstamp>>

(* handle_peer_msg, a REPLY: dropped unless p is PENDING. *)
ReplyReceived(p, slot) ==
    /\ PeerMsgAt(p, slot)
    /\ LET msg == PacketAt(slot).msg IN
       /\ msg.type = "REPLY"
       /\ ricart_replies' = IF fsm_state[p] = "PS_PENDING"
                            THEN [ricart_replies EXCEPT ![p] = @ \cup {msg.pid}]
                            ELSE ricart_replies
    /\ IF fsm_state[p] = "PS_PENDING" /\ my_turn(p, ricart_replies'[p])
       THEN process_ev_entered_cr(p, fsm_state[p], dme_recv_msg(slot))
       ELSE net' = dme_recv_msg(slot) /\ UNCHANGED <<peerVars, exit_request>>
    /\ UNCHANGED <<clockVars, ricart_RD, my_tstamp>>

DeferredButLast(p) == Ascending(ricart_RD[p] \ {nodes_count})    \* faulty: ix < N

(* The deferred REPLYs go out in the order of the pids. *)
Deferred(p) == Ascending(ricart_RD[p])

ExitKeepsDeferred(p) ==             \* faulty: ricart_RD is not cleared
    /\ ExitedDue(p)
    /\ LeaveCriticalRegion(p)
    /\ net' = SendToEach(InformExited(p), p, Deferred(p), REPLY(p))
    /\ UNCHANGED <<clockVars, ricartVars>>

process_ev_exited_cr(p) ==
    /\ ExitedDue(p)
    /\ IF fsm_state[p] # "PS_EXECUTING"
       THEN Fatal(p, net) /\ UNCHANGED ricart_RD
       ELSE /\ LeaveCriticalRegion(p)
            /\ net' = SendToEach(InformExited(p), p, Deferred(p), REPLY(p))
            /\ ricart_RD' = [ricart_RD EXCEPT ![p] = {}]
    /\ UNCHANGED <<clockVars, ricart_replies, my_tstamp>>

handle_message(p) ==
    \E slot \in Receivable(p) :
        \/ SupervisorMsgKept(p, slot) /\ UNCHANGED ricartVars
        \/ \E t \in StampInstants(now) : process_ev_want_cr(p, slot, t)
        \/ RequestReceived(p, slot)
        \/ ReplyReceived(p, slot)

PeerNext(p) ==
    /\ \/ handle_message(p)
       \/ process_ev_exited_cr(p)
       \/ sendto(p) /\ UNCHANGED <<exit_request, peerVars, clockVars, ricartVars>>
    /\ SupervisorUnchanged

SupervisorNext ==
    /\ SupNext \/ (sendto(SUPERVISOR_PID) /\ UNCHANGED <<supVars, exit_request>>)
    /\ UNCHANGED <<peerVars, clockVars, ricartVars>>

Next ==
    \/ SupervisorNext
    \/ \E p \in Proc : PeerNext(p)
    \/ ExperimentOver /\ UNCHANGED vars

Spec == Init /\ [][Next]_vars

(* As in the other algorithms: whoever has something to do does it. *)
FairSpec ==
    /\ Spec
    /\ WF_vars(SupervisorNext)
    /\ \A p \in Proc : WF_vars(PeerNext(p))
-----------------------------------------------------------------------------
PeerMsg ==
    [type : {"REQUEST"}, pid : Proc, ts : Timespec, at : Nat]
        \cup [type : {"REPLY"}, pid : Proc]

PacketType == [src : Node, dst : Node, msg : SupMsg \cup PeerMsg]

TypeOK ==
    /\ net \in [Lane -> Seq(PacketType)]
    /\ SupTypeOK
    /\ PeerTypeOK
    /\ ClockTypeOK
    /\ ricart_RD \in [Proc -> SUBSET Proc]
    /\ ricart_replies \in [Proc -> SUBSET Proc]
    /\ my_tstamp \in [Proc -> Timespec]

(***************************************************************************)
(* A REPLY finds its receiver PENDING and still without a REPLY of that    *)
(* sender: one that came twice, or too late, would count for a request it  *)
(* does not answer, since a REPLY carries no request number.               *)
(***************************************************************************)
RepliesAreExpected ==
    \A pkt \in Packets :
        pkt.msg.type = "REPLY" =>
            /\ fsm_state[pkt.dst] = "PS_PENDING"
            /\ pkt.src \notin ricart_replies[pkt.dst]

(***************************************************************************)
(* A deferred REPLY is owed to a process that is still waiting for it, and *)
(* by a process that will send it: one that competes itself.               *)
(***************************************************************************)
DeferredAreWaiting ==
    \A p \in Proc : \A q \in ricart_RD[p] :
        /\ fsm_state[p] # "PS_IDLE"
        /\ fsm_state[q] = "PS_PENDING"
        /\ p \notin ricart_replies[q]

(***************************************************************************)
(* The tie is the only way to starve: if nothing is on its way any more    *)
(* and somebody still waits, two waiting processes carry the same stamp.   *)
(***************************************************************************)
OnlyTiesBlock ==
    /\ NetEmpty
    /\ \A p \in Proc : exited_due[p] = 0
    /\ \E p \in Proc : fsm_state[p] = "PS_PENDING"
    => \E p, q \in Proc :
          /\ p # q
          /\ fsm_state[p] = "PS_PENDING" /\ fsm_state[q] = "PS_PENDING"
          /\ my_tstamp[p] = my_tstamp[q]

Abstract == INSTANCE Mutex WITH state <- fsm_state

(***************************************************************************)
(* The peers running ricart.c are a mutual exclusion protocol.             *)
(***************************************************************************)
MutexSpec == Abstract!Spec
=============================================================================

------------------------------ MODULE Lamport ------------------------------
(***************************************************************************)
(* src/lamport.c: Lamport's algorithm.  Every process keeps a queue of all *)
(* requests in the order of their time stamps; it enters when everybody    *)
(* has replied to its request and the head of its queue is its own.        *)
(***************************************************************************)
EXTENDS PeerClock

VARIABLES
    request_queue,      \* request_queue[p]: sequence of stamped requests
    replies             \* replies[p]: the peers whose REPLY p has

lamportVars == <<request_queue, replies>>
vars == <<net, supVars, exit_request, peerVars, clockVars, lamportVars>>

REPLY(p) == [type |-> "REPLY", pid |-> p]
RELEASE(p) == [type |-> "RELEASE", pid |-> p]

Element(msg) == [ts |-> msg.ts, pid |-> msg.pid]

Init ==
    /\ NetInit
    /\ SupInit
    /\ PeerInit
    /\ ClockInit
    /\ request_queue = [p \in Proc |-> <<>>]
    /\ replies = [p \in Proc |-> {}]

PrecedesByStamp(a, b) == Earlier(a.ts, b.ts)    \* faulty: the pids are not compared

(* req_elmt_cmp(a, b) < 0 *)
Precedes(a, b) == Earlier(a.ts, b.ts) \/ (a.ts = b.ts /\ a.pid < b.pid)

insert_on_top(q, elmt) == <<elmt>> \o q     \* faulty: the order is ignored

(* Before the first element that the new one precedes, or at the end. *)
request_queue_insert(q, elmt) ==
    LET spots == {ix \in DOMAIN q : Precedes(elmt, q[ix])} \cup {Len(q) + 1}
    IN  InsertAt(q, Min(spots), elmt)

pop_last(q) == IF q = <<>> THEN q ELSE Front(q)     \* faulty: the wrong end

(* The head goes, whoever asked for it; an empty queue stays empty. *)
request_queue_pop(q) == IF q = <<>> THEN q ELSE Tail(q)

my_turn_unanswered(p, q, r) ==      \* faulty: does not wait for the replies
    q # <<>> /\ Head(q).pid = p

my_turn_one_short(p, q, r) ==       \* faulty: the last reply is not waited for
    Cardinality(r) >= nodes_count - 2 /\ q # <<>> /\ Head(q).pid = p

(***************************************************************************)
(* my_turn; q and r are the queue and the replies at the call.             *)
(***************************************************************************)
my_turn(p, q, r) ==
    /\ Proc \ {p} \subseteq r
    /\ q # <<>>
    /\ Head(q).pid = p

(* process_ev_want_cr, called by handle_supervisor_msg; the stamp is read at t. *)
process_ev_want_cr(p, slot, t) ==
    /\ SupervisorMsgAt(p, slot)
    /\ IsWant(p, slot)
    /\ fsm_state' = [fsm_state EXCEPT ![p] = "PS_PENDING"]
    /\ replies' = [replies EXCEPT ![p] = {}]
    /\ net' = dme_broadcast_msg(dme_recv_msg(slot), p, REQUEST(p, t))
    /\ request_queue' =
          [request_queue EXCEPT ![p] = request_queue_insert(@, Element(REQUEST(p, t)))]
    /\ StampTaken(t)
    /\ UNCHANGED <<exited_due, exit_request>>

(* handle_peer_msg, a REQUEST: in every state, REPLY and insert. *)
RequestReceived(p, slot) ==
    /\ PeerMsgAt(p, slot)
    /\ LET msg == PacketAt(slot).msg IN
       /\ msg.type = "REQUEST"
       /\ net' = dme_send_msg(dme_recv_msg(slot), p, msg.pid, REPLY(p))
       /\ request_queue' =
             [request_queue EXCEPT ![p] = request_queue_insert(@, Element(msg))]
       /\ RequestArrives(msg)
    /\ UNCHANGED <<peerVars, exit_request, replies>>

(***************************************************************************)
(* The end of handle_peer_msg for RELEASE and REPLY: p enters in the same  *)
(* handler when it is its turn.                                            *)
(***************************************************************************)
EnterOnTurn(p, slot, q, r) ==
    IF fsm_state[p] = "PS_PENDING" /\ my_turn(p, q, r)
    THEN process_ev_entered_cr(p, fsm_state[p], dme_recv_msg(slot))
    ELSE net' = dme_recv_msg(slot) /\ UNCHANGED <<peerVars, exit_request>>

ReleaseReceived(p, slot) ==
    /\ PeerMsgAt(p, slot)
    /\ PacketAt(slot).msg.type = "RELEASE"
    /\ request_queue' = [request_queue EXCEPT ![p] = request_queue_pop(@)]
    /\ EnterOnTurn(p, slot, request_queue'[p], replies[p])
    /\ UNCHANGED <<clockVars, replies>>

(* A REPLY outside PENDING is an error that is reported and ignored. *)
ReplyReceived(p, slot) ==
    /\ PeerMsgAt(p, slot)
    /\ LET msg == PacketAt(slot).msg IN
       /\ msg.type = "REPLY"
       /\ replies' = IF fsm_state[p] = "PS_PENDING"
                     THEN [replies EXCEPT ![p] = @ \cup {msg.pid}]
                     ELSE replies
    /\ EnterOnTurn(p, slot, request_queue[p], replies'[p])
    /\ UNCHANGED <<clockVars, request_queue>>

ExitWithoutPop(p) ==                \* faulty: p's request stays in its queue
    /\ ExitedDue(p)
    /\ LeaveCriticalRegion(p)
    /\ net' = dme_broadcast_msg(InformExited(p), p, RELEASE(p))
    /\ UNCHANGED <<clockVars, lamportVars>>

process_ev_exited_cr(p) ==
    /\ ExitedDue(p)
    /\ IF fsm_state[p] # "PS_EXECUTING"
       THEN Fatal(p, net) /\ UNCHANGED request_queue
       ELSE /\ LeaveCriticalRegion(p)
            /\ request_queue' = [request_queue EXCEPT ![p] = request_queue_pop(@)]
            /\ net' = dme_broadcast_msg(InformExited(p), p, RELEASE(p))
    /\ UNCHANGED <<clockVars, replies>>

handle_message(p) ==
    \E slot \in Receivable(p) :
        \/ SupervisorMsgKept(p, slot) /\ UNCHANGED lamportVars
        \/ \E t \in StampInstants(now) : process_ev_want_cr(p, slot, t)
        \/ RequestReceived(p, slot)
        \/ ReleaseReceived(p, slot)
        \/ ReplyReceived(p, slot)

PeerNext(p) ==
    /\ \/ handle_message(p)
       \/ process_ev_exited_cr(p)
       \/ sendto(p) /\ UNCHANGED <<exit_request, peerVars, clockVars, lamportVars>>
    /\ SupervisorUnchanged

SupervisorNext ==
    /\ SupNext \/ (sendto(SUPERVISOR_PID) /\ UNCHANGED <<supVars, exit_request>>)
    /\ UNCHANGED <<peerVars, clockVars, lamportVars>>

Next ==
    \/ SupervisorNext
    \/ \E p \in Proc : PeerNext(p)
    \/ ExperimentOver /\ UNCHANGED vars

Spec == Init /\ [][Next]_vars

(***************************************************************************)
(* wait_events handles whatever signal is queued and the kernel delivers:  *)
(* a node with something to do does it.                                    *)
(***************************************************************************)
FairSpec ==
    /\ Spec
    /\ WF_vars(SupervisorNext)
    /\ \A p \in Proc : WF_vars(PeerNext(p))
-----------------------------------------------------------------------------
PeerMsg ==
    [type : {"REQUEST"}, pid : Proc, ts : Timespec, at : Nat]
        \cup [type : {"REPLY", "RELEASE"}, pid : Proc]

PacketType == [src : Node, dst : Node, msg : SupMsg \cup PeerMsg]

TypeOK ==
    /\ net \in [Lane -> Seq(PacketType)]
    /\ SupTypeOK
    /\ PeerTypeOK
    /\ ClockTypeOK
    /\ request_queue \in [Proc -> Seq([ts : Timespec, pid : Proc])]
    /\ replies \in [Proc -> SUBSET Proc]

(***************************************************************************)
(* A process in the critical region has its own request at the head of its *)
(* own queue: it is what process_ev_exited_cr pops, "our request".         *)
(***************************************************************************)
OwnRequestAtHead ==
    \A p \in Proc :
        fsm_state[p] = "PS_EXECUTING" =>
            request_queue[p] # <<>> /\ Head(request_queue[p]).pid = p

(***************************************************************************)
(* A process has its own request in its queue exactly while it competes,   *)
(* and never two requests of one process that both count: a RELEASE that   *)
(* pops the wrong entry would leave one behind or take one too many.       *)
(***************************************************************************)
OwnRequestQueued ==
    \A p \in Proc :
        Cardinality({ix \in DOMAIN request_queue[p] : request_queue[p][ix].pid = p})
            = (IF fsm_state[p] = "PS_IDLE" THEN 0 ELSE 1)

(***************************************************************************)
(* No REPLY is ever "unexpected": it finds its receiver PENDING, and from  *)
(* a peer it has no REPLY of yet.                                          *)
(***************************************************************************)
RepliesAreExpected ==
    \A pkt \in Packets :
        pkt.msg.type = "REPLY" =>
            /\ fsm_state[pkt.dst] = "PS_PENDING"
            /\ pkt.src \notin replies[pkt.dst]

(***************************************************************************)
(* When the experiment is over no request is left in any queue: every      *)
(* insertion was matched by one pop, on every process.                     *)
(***************************************************************************)
QueuesDrained ==
    NetEmpty /\ (\A p \in Proc : fsm_state[p] = "PS_IDLE")
        => \A p \in Proc : request_queue[p] = <<>>

(***************************************************************************)
(* The peers running lamport.c are a mutual exclusion protocol.            *)
(***************************************************************************)
Abstract == INSTANCE Mutex WITH state <- fsm_state

MutexSpec == Abstract!Spec
=============================================================================

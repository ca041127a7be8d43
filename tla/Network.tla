------------------------------ MODULE Network ------------------------------
(***************************************************************************)
(* The datagram layer of src/common/net.c.  Every node owns one UDP        *)
(* socket; dme_send_msg hands a packet to sendto and ignores its result,   *)
(* dme_recv_msg takes one packet from the node's own socket.  What lies    *)
(* between the two is not code of the repository, so Net names three       *)
(* environments, from the strongest to the weakest:                        *)
(*                                                                         *)
(*   "loopback"  all nodes on one host, which is what dme.conf and         *)
(*               start.sh set up: sendto puts the packet at the end of the *)
(*               receiver's socket buffer before it returns, so a socket   *)
(*               is one queue, and the packets of one handler are put into *)
(*               the buffers one after another (action sendto);            *)
(*   "fifo"      several hosts, packets of one sender to one receiver keep *)
(*               their order, packets of different senders race freely;    *)
(*   "udp"       several hosts, packets overtake each other.               *)
(***************************************************************************)
EXTENDS Naturals, Sequences, FiniteSets, SequencesExt

CONSTANTS
    nodes_count,    \* number of peers; node 0 is the supervisor
    Net             \* "loopback", "fifo" or "udp"

ASSUME NetworkAssumption ==
    /\ nodes_count \in Nat \ {0}
    /\ Net \in {"loopback", "fifo", "udp"}

SUPERVISOR_PID == 0
Proc == 1 .. nodes_count
Node == 0 .. nodes_count

VARIABLE net        \* net[lane]: the packets on that lane, oldest first

(***************************************************************************)
(* A lane is a place where packets wait in order.  On one host these are   *)
(* the packets a running handler has still to hand to sendto and the       *)
(* socket buffer of a node; between hosts, one lane per sender and         *)
(* receiver.                                                               *)
(***************************************************************************)
Lane == IF Net = "loopback" THEN {"out", "in"} \X Node ELSE Node \X Node

SendLane(src, dst) == IF Net = "loopback" THEN <<"out", src>> ELSE <<src, dst>>

RecvLanes(dst) ==
    IF Net = "loopback" THEN {<<"in", dst>>} ELSE {<<src, dst>> : src \in Node}

Packet(src, dst, msg) == [src |-> src, dst |-> dst, msg |-> msg]

NetInit == net = [l \in Lane |-> <<>>]

(***************************************************************************)
(* dme_send_msg: a destination outside 0..nodes_count is refused.  n is    *)
(* the network before the call, so that the calls of a handler compose.    *)
(***************************************************************************)
dme_send_msg(n, src, dst, msg) ==
    IF dst \notin Node
    THEN n
    ELSE [n EXCEPT ![SendLane(src, dst)] = Append(@, Packet(src, dst, msg))]

(***************************************************************************)
(* A handler's loop of dme_send_msg over a sequence of distinct receivers. *)
(***************************************************************************)
SendToEach(n, src, dests, msg) ==
    IF Net = "loopback"
    THEN [n EXCEPT ![<<"out", src>>] =
              @ \o [ix \in DOMAIN dests |-> Packet(src, dests[ix], msg)]]
    ELSE [l \in Lane |->
              IF l[1] = src /\ l[2] \in ToSet(dests)
              THEN Append(n[l], Packet(src, l[2], msg))
              ELSE n[l]]

(***************************************************************************)
(* The receivers of a loop over 1..nodes_count that skips all but S.       *)
(***************************************************************************)
Ascending(S) ==
    [ix \in 1 .. Cardinality(S) |->
        CHOOSE p \in S : Cardinality({q \in S : q <= p}) = ix]

BroadcastFromZero(src) ==       \* faulty: the loop starts at the supervisor
    [ix \in 1 .. nodes_count |-> IF ix - 1 < src THEN ix - 1 ELSE ix]

(***************************************************************************)
(* dme_broadcast_msg: 1..nodes_count except the sender, in that order.     *)
(* The supervisor is not a receiver; as a sender (pid 0) it reaches all.   *)
(***************************************************************************)
BroadcastOrder(src) ==
    [ix \in 1 .. (IF src = SUPERVISOR_PID THEN nodes_count ELSE nodes_count - 1) |->
        IF src = SUPERVISOR_PID \/ ix < src THEN ix ELSE ix + 1]

dme_broadcast_msg(n, src, msg) == SendToEach(n, src, BroadcastOrder(src), msg)

(***************************************************************************)
(* dme_recv_msg: the places a node may take its next packet from, and the  *)
(* network without that packet.                                            *)
(***************************************************************************)
Receivable(dst) ==
    {slot \in UNION {{l} \X DOMAIN net[l] : l \in RecvLanes(dst)} :
        slot[2] = 1 \/ Net = "udp"}

PacketAt(slot) == net[slot[1]][slot[2]]

dme_recv_msg(slot) == [net EXCEPT ![slot[1]] = RemoveAt(@, slot[2])]

(***************************************************************************)
(* A handler runs to its end before its process takes the next signal: a   *)
(* node with packets still to be handed to sendto is inside a handler.     *)
(***************************************************************************)
InHandler(n) == Net = "loopback" /\ net[<<"out", n>>] # <<>>

(***************************************************************************)
(* sendto on one host: the oldest packet of the running handler reaches    *)
(* the receiver's socket buffer.                                           *)
(***************************************************************************)
sendto(src) ==
    /\ InHandler(src)
    /\ LET pkt == Head(net[<<"out", src>>])
       IN  net' = [net EXCEPT ![<<"out", src>>] = Tail(@),
                              ![<<"in", pkt.dst>>] = Append(@, pkt)]

Packets == UNION {ToSet(net[l]) : l \in DOMAIN net}

NetEmpty == \A l \in DOMAIN net : net[l] = <<>>

(***************************************************************************)
(* For properties: how many packets of a kind T are on their way.          *)
(***************************************************************************)
NoneOf(n, T) == \A l \in Lane : \A i \in 1 .. Len(n[l]) : n[l][i] \notin T

AtMostOneOf(n, T) ==
    \A l, k \in Lane : \A i \in 1 .. Len(n[l]), j \in 1 .. Len(n[k]) :
        n[l][i] \in T /\ n[k][j] \in T => l = k /\ i = j
=============================================================================

---------------------------- MODULE LamportProofs ---------------------------
(***************************************************************************)
(* Theorems about Lamport for every nodes_count, OutOfBounds, clock and    *)
(* number of tests.  For every Net: its types, that no handler is fatal,   *)
(* and that each REPLY is one its receiver still waits for.  Where packets *)
(* between two nodes keep their order: that a peer which competes knows    *)
(* the epoch, exclusion, what the queues hold, the refinement of Mutex,    *)
(* that nobody is left waiting, and that the supervisor's view of a peer   *)
(* never runs ahead of it.  On one host: that the supervisor never stops   *)
(* without a reason.                                                       *)
(***************************************************************************)
EXTENDS Lamport, PeerProofs, WellFoundedInduction

(***************************************************************************)
(* What one peer sends to another names its sender.                        *)
(***************************************************************************)
GoodPackets ==
    {pkt \in PacketType :
        pkt.msg \notin SupMsg =>
            /\ pkt.src \in Proc /\ pkt.dst \in Proc /\ pkt.src # pkt.dst
            /\ pkt.msg.pid = pkt.src}

(***************************************************************************)
(* An EXITED event is due exactly while its peer is inside, so that it     *)
(* cannot be fatal.                                                        *)
(***************************************************************************)
EventsMatch ==
    \A p \in Proc : exited_due[p] = IF fsm_state[p] = "PS_EXECUTING" THEN 1 ELSE 0

Request(p, q) ==
    {pkt \in GoodPackets : pkt.src = p /\ pkt.dst = q /\ pkt.msg.type = "REQUEST"}

Reply(p, q) ==
    {pkt \in GoodPackets : pkt.src = p /\ pkt.dst = q /\ pkt.msg.type = "REPLY"}

(* The request of p to q, from when it is sent until its answer is received. *)
Asking(p, q) == Request(p, q) \cup Reply(q, p)

(***************************************************************************)
(* A competing p asks q once: its request is on its way, or the reply is,  *)
(* or p has it.  Nobody else asks, and p is inside only with the reply of  *)
(* every q.                                                                *)
(***************************************************************************)
AskedOnce(n, st, rp, p, q) ==
    /\ AtMostOneOf(n, Asking(p, q))
    /\ st[p] # "PS_PENDING" => NoneOf(n, Asking(p, q))
    /\ st[p] = "PS_EXECUTING" => q \in rp[p]
    /\ st[p] = "PS_PENDING" => (q \in rp[p] <=> NoneOf(n, Asking(p, q)))

(* What the types, the network and a single peer allow. *)
Basics ==
    /\ TypeOK
    /\ net \in Nets(GoodPackets)
    /\ Placed(net)
    /\ EventsMatch
    /\ NoPeerFatal

AllAskedOnce ==
    \A p \in Proc : \A q \in Proc \ {p} : AskedOnce(net, fsm_state, replies, p, q)

IInv == Basics /\ AllAskedOnce

Assumptions == NetworkAssumption /\ SupervisorAssumption /\ ClockAssumption

-----------------------------------------------------------------------------
(* Messages and packets. *)

LEMMA StampType ==
    ASSUME Assumptions, sup_syncro \in [Proc -> Timespec], NEW p \in Proc, NEW t \in Nat
    PROVE  Stamp(p, t) \in Timespec
<1>1. NsecPerSec \in Nat \ {0} /\ Uint32 \in Nat \ {0}
  BY DEF Assumptions, ClockAssumption
<1>2. ASSUME NEW a \in Nat, NEW b \in Nat PROVE MinusUint32(a, b) \in Nat
  <2>1. b % Uint32 \in Nat /\ b % Uint32 < Uint32
    BY <1>1
  <2>2. a + Uint32 - (b % Uint32) \in Nat
    BY <1>1, <2>1
  <2>3. QED
    BY <1>1, <2>2 DEF MinusUint32
<1>3. t \div NsecPerSec \in Nat /\ t % NsecPerSec \in Nat
  BY <1>1
<1>4. sup_syncro[p].sec \in Nat /\ sup_syncro[p].nsec \in Nat
  BY DEF Timespec
<1>5. QED
  BY <1>2, <1>3, <1>4 DEF Stamp, Reading, Timespec

LEMMA SupPacketsGood == SupPackets \subseteq GoodPackets
BY DEF SupPackets, GoodPackets, PacketType

LEMMA RequestGood ==
    ASSUME Assumptions, sup_syncro \in [Proc -> Timespec], NEW t \in Nat,
           NEW p \in Proc, NEW q \in Proc, p # q
    PROVE  /\ Packet(p, q, REQUEST(p, t)) \in GoodPackets
           /\ REQUEST(p, t) \notin SupMsg
<1>1. REQUEST(p, t) \in PeerMsg
  BY StampType DEF REQUEST, PeerMsg
<1>2. REQUEST(p, t).type = "REQUEST" /\ REQUEST(p, t).pid = p
  BY DEF REQUEST
<1>3. REQUEST(p, t) \notin SupMsg
  BY <1>2 DEF SupMsg
<1>4. QED
  BY <1>1, <1>2, <1>3, PidFacts DEF Packet, PacketType, GoodPackets, Assumptions

LEMMA ReplyGood ==
    ASSUME Assumptions, NEW p \in Proc, NEW q \in Proc, p # q
    PROVE  /\ Packet(p, q, REPLY(p)) \in GoodPackets
           /\ REPLY(p) \notin SupMsg
<1>1. REPLY(p) \in PeerMsg
  BY DEF REPLY, PeerMsg
<1>2. REPLY(p).type = "REPLY" /\ REPLY(p).pid = p
  BY DEF REPLY
<1>3. REPLY(p) \notin SupMsg
  BY <1>2 DEF SupMsg
<1>4. QED
  BY <1>1, <1>2, <1>3, PidFacts DEF Packet, PacketType, GoodPackets, Assumptions

LEMMA ReleaseGood ==
    ASSUME Assumptions, NEW p \in Proc, NEW q \in Proc, p # q
    PROVE  /\ Packet(p, q, RELEASE(p)) \in GoodPackets
           /\ RELEASE(p) \notin SupMsg
<1>1. RELEASE(p) \in PeerMsg
  BY DEF RELEASE, PeerMsg
<1>2. RELEASE(p).type = "RELEASE" /\ RELEASE(p).pid = p
  BY DEF RELEASE
<1>3. RELEASE(p) \notin SupMsg
  BY <1>2 DEF SupMsg
<1>4. QED
  BY <1>1, <1>2, <1>3, PidFacts DEF Packet, PacketType, GoodPackets, Assumptions

(* What a peer finds in a packet. *)
LEMMA PacketFields ==
    ASSUME NEW pkt \in GoodPackets
    PROVE  /\ pkt.dst \in Node
           /\ pkt.msg.type \in {"REQUEST", "REPLY", "RELEASE"} => pkt.msg \notin SupMsg
           /\ pkt.msg \notin SupMsg =>
                 /\ pkt.src \in Proc /\ pkt.dst \in Proc /\ pkt.src # pkt.dst
                 /\ pkt.msg.pid = pkt.src
           /\ pkt.msg.type = "REQUEST" => pkt.msg.ts \in Timespec /\ pkt.msg.at \in Nat
<1>1. pkt.dst \in Node /\ pkt.msg \in SupMsg \cup PeerMsg
  BY DEF GoodPackets, PacketType
<1>2. pkt.msg.type \in {"REQUEST", "REPLY", "RELEASE"} => pkt.msg \notin SupMsg
  BY DEF SupMsg
<1>3. pkt.msg.type = "REQUEST" => pkt.msg.ts \in Timespec /\ pkt.msg.at \in Nat
  <2>1. SUFFICES ASSUME pkt.msg.type = "REQUEST" PROVE pkt.msg.ts \in Timespec /\ pkt.msg.at \in Nat
    OBVIOUS
  <2>2. pkt.msg \in PeerMsg
    BY <1>1, <1>2, <2>1
  <2>3. QED
    BY <2>1, <2>2 DEF PeerMsg
<1>4. QED
  BY <1>1, <1>2, <1>3 DEF GoodPackets

(* What every handler of a message starts from. *)
LEMMA MessageTaken ==
    ASSUME Assumptions, Basics, NEW p \in Proc, NEW slot \in Receivable(p)
    PROVE  /\ p \in Node
           /\ dme_recv_msg(slot) \in Nets(GoodPackets)
           /\ Placed(dme_recv_msg(slot))
           /\ PacketAt(slot) \in GoodPackets
           /\ PacketAt(slot).dst = p
<1>1. p \in Node /\ net \in Nets(GoodPackets) /\ Placed(net)
  BY PidFacts DEF Assumptions, Basics
<1>2. QED
  BY <1>1, ReceiveProperties, ReceivePlaced

LEMMA GoodAddressed == \A pkt \in GoodPackets : pkt.dst \in Node
BY PacketFields

LEMMA GoodIsType == ASSUME NEW n \in Nets(GoodPackets) PROVE n \in [Lane -> Seq(PacketType)]
<1>1. GoodPackets \subseteq PacketType
  BY DEF GoodPackets
<1>2. QED
  BY <1>1, Widened DEF Nets

(* A peer's step leaves the supervisor's state well typed. *)
LEMMA SupKept ==
    ASSUME SupTypeOK, SupervisorUnchanged, UNCHANGED exit_request
    PROVE  SupTypeOK'
BY DEF SupTypeOK, SupervisorUnchanged, supVars

LEMMA ClockRead ==
    ASSUME Assumptions, ClockTypeOK, NEW t \in Nat, StampTaken(t)
    PROVE  ClockTypeOK'
<1>1. now' \in {t, t + 1} /\ UNCHANGED sup_syncro
  BY DEF StampTaken
<1>2. QED
  BY <1>1 DEF ClockTypeOK

LEMMA ClockArrival ==
    ASSUME Assumptions, Basics, NEW pkt \in GoodPackets, pkt.msg.type = "REQUEST"
    PROVE  /\ ArrivalTime(pkt.msg) \in Nat
           /\ RequestArrives(pkt.msg) => ClockTypeOK'
<1>1. pkt.msg.at \in Nat /\ ClockTypeOK
  BY PacketFields DEF Basics, TypeOK
<1>2. ArrivalTime(pkt.msg) \in Nat
  BY <1>1 DEF ArrivalTime, LargerOf, ClockTypeOK
<1>3. QED
  BY <1>1, <1>2 DEF RequestArrives, ClockTypeOK

(* The packet a peer message came in: from another peer, who signed it. *)
LEMMA PeerMessage ==
    ASSUME Assumptions, Basics, NEW p \in Proc, NEW slot \in Receivable(p), PeerMsgAt(p, slot)
    PROVE  LET pkt == PacketAt(slot) IN
           /\ pkt.msg.pid \in Proc \ {p}
           /\ pkt.src = pkt.msg.pid /\ pkt.dst = p
<1>1. PacketAt(slot) \in GoodPackets /\ PacketAt(slot).dst = p /\ PacketAt(slot).msg \notin SupMsg
  BY MessageTaken DEF PeerMsgAt
<1>2. QED
  BY <1>1, PacketFields

-----------------------------------------------------------------------------
(* The queue of requests. *)

Entry == [ts : Timespec, pid : Proc]

(* A new entry goes before the first one it precedes. *)
LEMMA Inserted ==
    ASSUME NEW S, NEW q \in Seq(S), NEW e \in S
    PROVE  LET r == request_queue_insert(q, e) IN
           /\ r \in Seq(S) /\ Len(r) = Len(q) + 1
           /\ \E k \in 1 .. Len(q) + 1 :
                 /\ \A i \in 1 .. Len(q) + 1 :
                       r[i] = IF i < k THEN q[i] ELSE IF i = k THEN e ELSE q[i - 1]
                 /\ \A i \in 1 .. k - 1 : ~Precedes(e, q[i])
                 /\ k <= Len(q) => Precedes(e, q[k])
<1> DEFINE spots == {ix \in DOMAIN q : Precedes(e, q[ix])} \cup {Len(q) + 1}
           k == Min(spots)
<1>1. spots \in SUBSET (1 .. Len(q) + 1) /\ Len(q) + 1 \in spots
  OBVIOUS
<1>2. k \in spots /\ \A j \in spots : k <= j
  <2>1. spots \in SUBSET Nat
    BY <1>1
  <2> HIDE DEF spots
  <2>2. \E j \in spots : \A i \in spots : j <= i
    <3>1. PICK j \in spots : \A i \in spots : <<i, j>> \notin OpToRel(<, Nat)
      BY <1>1, <2>1, WFMin, NatLessThanWellFounded
    <3>2. \A i \in spots : i \in Nat /\ j \in Nat /\ ~(i < j)
      BY <2>1, <3>1, Zenon DEF OpToRel
    <3>3. QED
      BY <3>2
  <2>3. QED
    BY <2>2 DEF Min
<1>3. k \in 1 .. Len(q) + 1 /\ k \in Nat
  BY <1>1, <1>2
<1>4. /\ \A i \in 1 .. k - 1 : ~Precedes(e, q[i])
      /\ k <= Len(q) => Precedes(e, q[k])
  <2>1. \A i \in 1 .. k - 1 : i \in DOMAIN q /\ i \notin spots
    <3> HIDE DEF k
    <3>1. \A i \in 1 .. k - 1 : i \in DOMAIN q /\ i < k
      BY <1>3
    <3>2. QED
      BY <1>2, <1>3, <3>1
  <2>2. QED
    BY <1>2, <1>3, <2>1
<1> HIDE DEF k
<1> DEFINE front == SubSeq(q, 1, k - 1)
           back == SubSeq(q, k, Len(q))
           r == (front \o <<e>>) \o back
<1>5. request_queue_insert(q, e) = r
  BY DEF request_queue_insert, InsertAt, k
<1>6. /\ front \in Seq(S) /\ Len(front) = k - 1
      /\ \A i \in 1 .. k - 1 : front[i] = q[i]
  <2>1. CASE k = 1
    BY <2>1
  <2>2. CASE k > 1
    BY <1>3, <2>2
  <2>3. QED
    BY <1>3, <2>1, <2>2
<1>7. /\ back \in Seq(S) /\ Len(back) = Len(q) + 1 - k
      /\ \A i \in 1 .. Len(q) + 1 - k : back[i] = q[i + k - 1]
  <2>1. CASE k = Len(q) + 1
    BY <2>1
  <2>2. CASE k <= Len(q)
    BY <1>3, <2>2
  <2>3. QED
    BY <1>3, <2>1, <2>2
<1> HIDE DEF front, back, spots
<1> DEFINE start == front \o <<e>>
<1>8. /\ start \in Seq(S) /\ Len(start) = k
      /\ \A i \in 1 .. k : start[i] = IF i < k THEN q[i] ELSE e
  BY <1>3, <1>6
<1> HIDE DEF start
<1>9. r = start \o back /\ r \in Seq(S) /\ Len(r) = Len(q) + 1
  <2>1. r = start \o back
    BY DEF start
  <2> HIDE DEF r
  <2>2. QED
    BY <1>3, <1>7, <1>8, <2>1
<1> HIDE DEF r
<1>10. ASSUME NEW i \in 1 .. Len(q) + 1
       PROVE  r[i] = IF i < k THEN q[i] ELSE IF i = k THEN e ELSE q[i - 1]
  <2>1. CASE i <= k
    BY <1>3, <1>7, <1>8, <1>9, <2>1
  <2>2. CASE i > k
    <3>1. r[i] = back[i - k]
      BY <1>3, <1>7, <1>8, <1>9, <2>2
    <3>2. i - k \in 1 .. Len(q) + 1 - k /\ (i - k) + k - 1 = i - 1
      BY <1>3, <2>2
    <3>3. QED
      BY <1>3, <1>7, <2>2, <3>1, <3>2
  <2>3. QED
    BY <1>3, <2>1, <2>2
<1>11. QED
  BY <1>3, <1>4, <1>5, <1>9, <1>10 DEF r

(* The head leaves; the others move up. *)
LEMMA Popped ==
    ASSUME NEW S, NEW q \in Seq(S)
    PROVE  LET r == request_queue_pop(q) IN
           /\ r \in Seq(S)
           /\ q # <<>> =>
                 /\ Len(r) = Len(q) - 1 /\ Len(q) \in Nat \ {0}
                 /\ \A i \in 1 .. Len(q) - 1 : r[i] = q[i + 1]
BY DEF request_queue_pop

-----------------------------------------------------------------------------
(***************************************************************************)
(* What the types, the network and a single peer allow.                    *)
(***************************************************************************)
LEMMA BasicsInit == ASSUME Assumptions, Init PROVE Basics
<1>1. TypeOK
  <2>1. net \in [Lane -> Seq(PacketType)]
    BY DEF Init, NetInit
  <2>2. SupTypeOK
    BY DEF Init, SupInit, SupTypeOK, State
  <2>3. PeerTypeOK
    BY DEF Init, PeerInit, PeerTypeOK, State
  <2>4. ClockTypeOK
    BY DEF Init, ClockInit, ClockTypeOK, Timespec, Assumptions, ClockAssumption
  <2>5. request_queue \in [Proc -> Seq([ts : Timespec, pid : Proc])]
    BY DEF Init
  <2>6. replies \in [Proc -> SUBSET Proc]
    BY DEF Init
  <2>7. QED
    BY <2>1, <2>2, <2>3, <2>4, <2>5, <2>6 DEF TypeOK
<1>2. net \in Nets(GoodPackets) /\ Placed(net)
  BY NothingPlaced DEF Init, NetInit, Nets
<1>3. EventsMatch
  BY DEF Init, PeerInit, EventsMatch
<1>4. NoPeerFatal
  BY PidFacts DEF Assumptions, Init, SupInit, NoPeerFatal
<1>5. QED
  BY <1>1, <1>2, <1>3, <1>4 DEF Basics

(* A step that leaves the FSM and the supervisor alone. *)
LEMMA BasicsKept ==
    ASSUME Assumptions, Basics, UNCHANGED peerVars, ClockTypeOK', SupTypeOK',
           net' \in Nets(GoodPackets), Placed(net'),
           \A p \in Proc : exit_request'[p] = exit_request[p],
           request_queue' \in [Proc -> Seq(Entry)], replies' \in [Proc -> SUBSET Proc]
    PROVE  Basics'
<1>1. TypeOK'
  BY GoodIsType DEF Basics, TypeOK, PeerTypeOK, peerVars, Entry
<1>2. EventsMatch'
  BY DEF Basics, EventsMatch, peerVars
<1>3. NoPeerFatal'
  BY DEF Basics, NoPeerFatal
<1>4. QED
  BY <1>1, <1>2, <1>3 DEF Basics

(* What a single peer has, in one place. *)
LEMMA BasicTypes ==
    ASSUME Basics
    PROVE  /\ fsm_state \in [Proc -> State] /\ exited_due \in [Proc -> Nat]
           /\ request_queue \in [Proc -> Seq(Entry)] /\ replies \in [Proc -> SUBSET Proc]
           /\ ClockTypeOK /\ now \in Nat /\ SupTypeOK /\ EventsMatch /\ NoPeerFatal
           /\ net \in Nets(GoodPackets) /\ Placed(net)
BY DEF Basics, TypeOK, PeerTypeOK, ClockTypeOK, Entry

LEMMA BasicsUntouched ==
    ASSUME Assumptions, Basics, UNCHANGED <<peerVars, lamportVars>>, ClockTypeOK', SupTypeOK',
           net' \in Nets(GoodPackets), Placed(net'),
           \A p \in Proc : exit_request'[p] = exit_request[p]
    PROVE  Basics'
<1>1. request_queue' \in [Proc -> Seq(Entry)] /\ replies' \in [Proc -> SUBSET Proc]
  BY BasicTypes DEF lamportVars
<1>2. QED
  BY <1>1, BasicsKept

LEMMA BasicsSendto ==
    ASSUME Assumptions, Basics, NEW n \in Node, sendto(n),
           UNCHANGED <<supVars, exit_request, peerVars, clockVars, lamportVars>>
    PROVE  Basics'
<1>1. net \in Nets(GoodPackets) /\ Placed(net) /\ SupTypeOK /\ ClockTypeOK
  BY BasicTypes
<1>2. net' \in Nets(GoodPackets) /\ Placed(net')
  BY <1>1, GoodAddressed, SendtoProperties, SendtoPlaced
<1>3. SupTypeOK' /\ ClockTypeOK'
  BY <1>1 DEF SupTypeOK, supVars, ClockTypeOK, clockVars
<1>4. QED
  BY <1>2, <1>3, BasicsUntouched

LEMMA BasicsSupervisor == ASSUME Assumptions, Basics, SupervisorNext PROVE Basics'
<1>1. UNCHANGED <<peerVars, clockVars, lamportVars>>
  BY DEF SupervisorNext
<1>2. CASE SupNext
  <2>1. net \in Nets(GoodPackets) /\ Placed(net) /\ SupTypeOK /\ ClockTypeOK
    BY BasicTypes
  <2>2. /\ net' \in Nets(GoodPackets) /\ SupTypeOK'
        /\ \A p \in Proc : exit_request'[p] = exit_request[p]
    <3>1. SupPackets \cap {} = {}
      OBVIOUS
    <3>2. QED
      BY <1>2, <2>1, <3>1, SupPacketsGood, SupervisorStep DEF Assumptions
  <2>3. Placed(net')
    BY <1>2, <2>1, SupPacketsGood, SupervisorPlaced DEF Assumptions
  <2>4. ClockTypeOK'
    BY <1>1, <2>1 DEF ClockTypeOK, clockVars
  <2>5. QED
    BY <1>1, <2>2, <2>3, <2>4, BasicsUntouched
<1>3. CASE sendto(SUPERVISOR_PID) /\ UNCHANGED <<supVars, exit_request>>
  BY <1>1, <1>3, PidFacts, BasicsSendto DEF Assumptions
<1>4. QED
  BY <1>2, <1>3 DEF SupervisorNext

LEMMA BasicsNoted ==
    ASSUME Assumptions, Basics, NEW p \in Proc, NEW slot \in Receivable(p),
           SupervisorMsgKept(p, slot), UNCHANGED lamportVars, SupervisorUnchanged
    PROVE  Basics'
<1>1. net' \in Nets(GoodPackets) /\ Placed(net')
  BY MessageTaken DEF SupervisorMsgKept, SupervisorMsgNoted
<1>2. SupTypeOK' /\ UNCHANGED <<peerVars, exit_request>>
  BY BasicTypes, SupKept DEF SupervisorMsgKept, SupervisorMsgNoted
<1>3. ClockTypeOK'
  <2>1. Reading(SyncroInstant) \in Timespec
    BY DEF Reading, Timespec, Assumptions, ClockAssumption
  <2>2. QED
    BY <2>1, BasicTypes DEF SupervisorMsgKept, ClockTypeOK
<1>4. QED
  BY <1>1, <1>2, <1>3, BasicsUntouched

(* A request is stamped at an instant of the clock. *)
LEMMA InstantFacts ==
    ASSUME Assumptions, ClockTypeOK, NEW t \in StampInstants(now)
    PROVE  t \in Instants /\ t \in Nat /\ now \in Nat /\ now <= t
BY DEF StampInstants, Assumptions, ClockAssumption, ClockTypeOK

LEMMA RequestsGood ==
    ASSUME Assumptions, Basics, NEW p \in Proc, NEW t \in StampInstants(now)
    PROVE  /\ \A q \in Proc \ {p} : Packet(p, q, REQUEST(p, t)) \in GoodPackets
           /\ Element(REQUEST(p, t)) = [ts |-> Stamp(p, t), pid |-> p]
           /\ Element(REQUEST(p, t)) \in Entry
<1>1. sup_syncro \in [Proc -> Timespec] /\ t \in Nat
  BY BasicTypes, InstantFacts DEF ClockTypeOK
<1>2. Stamp(p, t) \in Timespec
  BY <1>1, StampType
<1>3. QED
  BY <1>1, <1>2, RequestGood DEF Element, REQUEST, Entry

LEMMA BasicsWant ==
    ASSUME Assumptions, Basics, NEW p \in Proc, NEW slot \in Receivable(p),
           NEW t \in StampInstants(now), process_ev_want_cr(p, slot, t), SupervisorUnchanged
    PROVE  Basics'
<1> DEFINE m == dme_recv_msg(slot)
           e == Element(REQUEST(p, t))
<1>1. p \in Node /\ m \in Nets(GoodPackets) /\ Placed(m)
  BY MessageTaken
<1>2. /\ fsm_state[p] = "PS_IDLE"
      /\ fsm_state' = [fsm_state EXCEPT ![p] = "PS_PENDING"]
      /\ replies' = [replies EXCEPT ![p] = {}]
      /\ request_queue' = [request_queue EXCEPT ![p] = request_queue_insert(@, e)]
      /\ net' = dme_broadcast_msg(m, p, REQUEST(p, t))
      /\ StampTaken(t)
      /\ UNCHANGED <<exited_due, exit_request>>
  BY DEF process_ev_want_cr, IsWant
<1>3. e \in Entry
  BY RequestsGood
<1> HIDE DEF m, e
<1>4. net' \in Nets(GoodPackets) /\ Placed(net')
  BY <1>1, <1>2, RequestsGood, OthersTold DEF Assumptions
<1>5. SupTypeOK' /\ ClockTypeOK'
  BY <1>2, BasicTypes, InstantFacts, SupKept, ClockRead
<1>6. PeerTypeOK' /\ EventsMatch' /\ NoPeerFatal'
  BY <1>2, BasicTypes DEF PeerTypeOK, State, EventsMatch, NoPeerFatal
<1>7. replies' \in [Proc -> SUBSET Proc]
  BY <1>2, BasicTypes
<1>8. request_queue' \in [Proc -> Seq(Entry)]
  <2>1. request_queue_insert(request_queue[p], e) \in Seq(Entry)
    BY <1>3, BasicTypes, Inserted
  <2>2. QED
    BY <1>2, <2>1, BasicTypes
<1>9. QED
  BY <1>4, <1>5, <1>6, <1>7, <1>8, GoodIsType DEF Basics, TypeOK, Entry

LEMMA BasicsRequest ==
    ASSUME Assumptions, Basics, NEW p \in Proc, NEW slot \in Receivable(p),
           RequestReceived(p, slot), SupervisorUnchanged
    PROVE  Basics'
<1> DEFINE m == dme_recv_msg(slot)
           pkt == PacketAt(slot)
           q == pkt.msg.pid
           e == Element(pkt.msg)
<1>1. p \in Node /\ m \in Nets(GoodPackets) /\ Placed(m) /\ pkt \in GoodPackets
  BY MessageTaken
<1>2. q \in Proc \ {p} /\ q \in Node
  BY PeerMessage, PidFacts DEF RequestReceived, Assumptions
<1>3. /\ pkt.msg.type = "REQUEST" /\ RequestArrives(pkt.msg)
      /\ request_queue' = [request_queue EXCEPT ![p] = request_queue_insert(@, e)]
      /\ net' = dme_send_msg(m, p, q, REPLY(p))
      /\ UNCHANGED <<peerVars, exit_request, replies>>
  BY DEF RequestReceived
<1>4. Packet(p, q, REPLY(p)) \in GoodPackets
  BY <1>2, ReplyGood
<1>5. e \in Entry
  BY <1>1, <1>2, <1>3, PacketFields DEF Element, Entry
<1> HIDE DEF m, pkt, q, e
<1>6. net' \in Nets(GoodPackets) /\ Placed(net')
  BY <1>1, <1>2, <1>3, <1>4, OneTold
<1>7. ClockTypeOK'
  BY <1>1, <1>3, ClockArrival
<1>8. SupTypeOK'
  BY <1>3, BasicTypes, SupKept
<1>9. request_queue' \in [Proc -> Seq(Entry)] /\ replies' \in [Proc -> SUBSET Proc]
  <2>1. request_queue_insert(request_queue[p], e) \in Seq(Entry)
    BY <1>5, BasicTypes, Inserted
  <2>2. QED
    BY <1>3, <2>1, BasicTypes
<1>10. QED
  BY <1>3, <1>6, <1>7, <1>8, <1>9, BasicsKept

(* The end of the handlers of REPLY and RELEASE. *)
LEMMA BasicsOnTurn ==
    ASSUME Assumptions, Basics, NEW p \in Proc, NEW slot \in Receivable(p),
           NEW q, NEW r, EnterOnTurn(p, slot, q, r), SupervisorUnchanged, UNCHANGED clockVars,
           request_queue' \in [Proc -> Seq(Entry)], replies' \in [Proc -> SUBSET Proc]
    PROVE  Basics'
<1> DEFINE m == dme_recv_msg(slot)
<1>1. p \in Node /\ m \in Nets(GoodPackets) /\ Placed(m)
  BY MessageTaken
<1>2. IF fsm_state[p] = "PS_PENDING" /\ my_turn(p, q, r)
      THEN process_ev_entered_cr(p, fsm_state[p], m)
      ELSE net' = m /\ UNCHANGED <<peerVars, exit_request>>
  BY DEF EnterOnTurn
<1> HIDE DEF m
<1>3. ClockTypeOK'
  BY BasicTypes DEF ClockTypeOK, clockVars
<1>4. CASE fsm_state[p] = "PS_PENDING" /\ my_turn(p, q, r)
  <2>1. /\ net' = dme_send_msg(m, p, SUPERVISOR_PID, [type |-> "ENTERED"])
        /\ fsm_state' = [fsm_state EXCEPT ![p] = "PS_EXECUTING"]
        /\ exited_due' = [exited_due EXCEPT ![p] = @ + 1]
        /\ UNCHANGED exit_request
    BY <1>2, <1>4 DEF process_ev_entered_cr
  <2>2. net' \in Nets(GoodPackets) /\ Placed(net')
    BY <1>1, <2>1, SupPacketsGood, SupervisorTold DEF Assumptions
  <2>3. SupTypeOK'
    BY <2>1, BasicTypes, SupKept
  <2>4. exited_due[p] = 0
    BY <1>4, BasicTypes DEF EventsMatch
  <2>5. PeerTypeOK' /\ EventsMatch' /\ NoPeerFatal'
    BY <2>1, <2>4, BasicTypes DEF PeerTypeOK, State, EventsMatch, NoPeerFatal
  <2>6. QED
    BY <1>3, <2>2, <2>3, <2>5, GoodIsType DEF Basics, TypeOK, Entry
<1>5. CASE ~(fsm_state[p] = "PS_PENDING" /\ my_turn(p, q, r))
  <2>1. net' = m /\ UNCHANGED <<peerVars, exit_request>>
    BY <1>2, <1>5
  <2>2. SupTypeOK'
    BY <2>1, BasicTypes, SupKept
  <2>3. QED
    BY <1>1, <1>3, <2>1, <2>2, BasicsKept
<1>6. QED
  BY <1>4, <1>5

LEMMA BasicsReply ==
    ASSUME Assumptions, Basics, NEW p \in Proc, NEW slot \in Receivable(p),
           ReplyReceived(p, slot), SupervisorUnchanged
    PROVE  Basics'
<1>1. PacketAt(slot).msg.pid \in Proc
  BY PeerMessage DEF ReplyReceived
<1>2. request_queue' \in [Proc -> Seq(Entry)] /\ replies' \in [Proc -> SUBSET Proc]
  BY <1>1, BasicTypes DEF ReplyReceived
<1>3. QED
  BY <1>2, BasicsOnTurn DEF ReplyReceived

LEMMA BasicsRelease ==
    ASSUME Assumptions, Basics, NEW p \in Proc, NEW slot \in Receivable(p),
           ReleaseReceived(p, slot), SupervisorUnchanged
    PROVE  Basics'
<1>1. request_queue_pop(request_queue[p]) \in Seq(Entry)
  BY BasicTypes, Popped
<1>2. request_queue' \in [Proc -> Seq(Entry)] /\ replies' \in [Proc -> SUBSET Proc]
  BY <1>1, BasicTypes DEF ReleaseReceived
<1>3. QED
  BY <1>2, BasicsOnTurn DEF ReleaseReceived

(* What leaving comes to: p is inside, so that the handler is not fatal. *)
LEMMA Left ==
    ASSUME Basics, NEW p \in Proc, process_ev_exited_cr(p)
    PROVE  /\ fsm_state[p] = "PS_EXECUTING"
           /\ fsm_state' = [fsm_state EXCEPT ![p] = "PS_IDLE"]
           /\ exited_due' = [exited_due EXCEPT ![p] = @ - 1]
           /\ net' = dme_broadcast_msg(InformExited(p), p, RELEASE(p))
           /\ request_queue' = [request_queue EXCEPT ![p] = request_queue_pop(@)]
           /\ UNCHANGED <<exit_request, clockVars, replies>>
<1>1. fsm_state[p] = "PS_EXECUTING"
  BY DEF process_ev_exited_cr, ExitedDue, Basics, EventsMatch
<1>2. QED
  BY <1>1 DEF process_ev_exited_cr, LeaveCriticalRegion

(* What it sends, to the supervisor first. *)
LEMMA LeftSent ==
    ASSUME Assumptions, Basics, NEW p \in Proc, process_ev_exited_cr(p)
    PROVE  LET m == InformExited(p) IN
           /\ m \in Nets(GoodPackets) /\ Placed(m)
           /\ Sent(net, m, {Packet(p, SUPERVISOR_PID, [type |-> "EXITED"])})
           /\ net' \in Nets(GoodPackets) /\ Placed(net')
           /\ Sent(m, net', {Packet(p, d, RELEASE(p)) : d \in Proc \ {p}})
<1> DEFINE m == InformExited(p)
<1>1. p \in Node /\ net \in Nets(GoodPackets) /\ Placed(net)
  BY PidFacts, BasicTypes DEF Assumptions
<1>2. /\ m \in Nets(GoodPackets) /\ Placed(m)
      /\ Sent(net, m, {Packet(p, SUPERVISOR_PID, [type |-> "EXITED"])})
  BY <1>1, SupPacketsGood, SupervisorTold DEF Assumptions, InformExited
<1>3. net' = dme_broadcast_msg(m, p, RELEASE(p))
  BY Left
<1>4. \A d \in Proc \ {p} : Packet(p, d, RELEASE(p)) \in GoodPackets
  BY ReleaseGood
<1> HIDE DEF m
<1>5. /\ net' \in Nets(GoodPackets) /\ Placed(net')
      /\ Sent(m, net', {Packet(p, d, RELEASE(p)) : d \in Proc \ {p}})
  BY <1>1, <1>2, <1>3, <1>4, OthersTold DEF Assumptions
<1>6. QED
  BY <1>2, <1>5 DEF m

LEMMA BasicsExited ==
    ASSUME Assumptions, Basics, NEW p \in Proc, process_ev_exited_cr(p), SupervisorUnchanged
    PROVE  Basics'
<1>1. net' \in Nets(GoodPackets) /\ Placed(net')
  BY LeftSent
<1>2. /\ fsm_state[p] = "PS_EXECUTING"
      /\ fsm_state' = [fsm_state EXCEPT ![p] = "PS_IDLE"]
      /\ exited_due' = [exited_due EXCEPT ![p] = @ - 1]
      /\ request_queue' = [request_queue EXCEPT ![p] = request_queue_pop(@)]
      /\ UNCHANGED <<exit_request, clockVars, replies>>
  BY Left
<1>3. exited_due[p] = 1
  BY <1>2, BasicTypes DEF EventsMatch
<1>4. SupTypeOK'
  BY <1>2, BasicTypes, SupKept
<1>5. PeerTypeOK' /\ EventsMatch' /\ NoPeerFatal'
  BY <1>2, <1>3, BasicTypes DEF PeerTypeOK, State, EventsMatch, NoPeerFatal
<1>6. replies' \in [Proc -> SUBSET Proc] /\ ClockTypeOK'
  BY <1>2, BasicTypes DEF ClockTypeOK, clockVars
<1>7. request_queue' \in [Proc -> Seq(Entry)]
  <2>1. request_queue_pop(request_queue[p]) \in Seq(Entry)
    BY BasicTypes, Popped
  <2>2. QED
    BY <1>2, <2>1, BasicTypes
<1>8. QED
  BY <1>1, <1>4, <1>5, <1>6, <1>7, GoodIsType DEF Basics, TypeOK, Entry

LEMMA BasicsNext == ASSUME Assumptions, Basics, [Next]_vars PROVE Basics'
<1>1. CASE SupervisorNext
  BY <1>1, BasicsSupervisor
<1>2. ASSUME NEW p \in Proc, PeerNext(p) PROVE Basics'
  <2>1. CASE handle_message(p)
    <3>1. PICK slot \in Receivable(p) :
             \/ SupervisorMsgKept(p, slot) /\ UNCHANGED lamportVars
             \/ \E t \in StampInstants(now) : process_ev_want_cr(p, slot, t)
             \/ RequestReceived(p, slot)
             \/ ReleaseReceived(p, slot)
             \/ ReplyReceived(p, slot)
      BY <2>1 DEF handle_message
    <3>2. SupervisorUnchanged
      BY <1>2 DEF PeerNext
    <3>3. QED
      BY <3>1, <3>2, BasicsNoted, BasicsWant, BasicsRequest, BasicsRelease, BasicsReply
  <2>2. CASE process_ev_exited_cr(p)
    BY <1>2, <2>2, BasicsExited DEF PeerNext
  <2>3. CASE sendto(p) /\ UNCHANGED <<exit_request, peerVars, clockVars, lamportVars>>
    BY <1>2, <2>3, PidFacts, BasicsSendto DEF PeerNext, SupervisorUnchanged, Assumptions
  <2>4. QED
    BY <1>2, <2>1, <2>2, <2>3 DEF PeerNext
<1>3. CASE UNCHANGED vars
  <2>1. SupTypeOK' /\ ClockTypeOK' /\ net' \in Nets(GoodPackets) /\ Placed(net')
    BY <1>3, BasicTypes DEF vars, SupTypeOK, supVars, ClockTypeOK, clockVars
  <2>2. QED
    BY <1>3, <2>1, BasicsUntouched DEF vars
<1>4. QED
  BY <1>1, <1>2, <1>3 DEF Next

-----------------------------------------------------------------------------
(***************************************************************************)
(* Who asks whom.  Nothing here needs the order of the packets.            *)
(***************************************************************************)
LEMMA OnlyPeersAsk ==
    ASSUME Assumptions, NEW p \in Proc, NEW q \in Proc, NEW pkt,
           \/ pkt.src = SUPERVISOR_PID \/ pkt.dst = SUPERVISOR_PID
           \/ pkt.msg \in SupMsg \/ pkt.msg.type = "RELEASE"
    PROVE  pkt \notin Asking(p, q)
<1>1. pkt \in GoodPackets /\ pkt.msg.type \in {"REQUEST", "REPLY"} => pkt.msg \notin SupMsg
  BY PacketFields
<1>2. QED
  BY <1>1, PidFacts DEF Asking, Request, Reply, Assumptions

(* A pair depends on its own packets, state, and replies only. *)
LEMMA AskedSame ==
    ASSUME NEW n, NEW m, NEW st, NEW rp, NEW su, NEW rq, NEW p, NEW q,
           AskedOnce(n, st, rp, p, q), Kept(n, m, Asking(p, q)),
           su[p] = st[p], q \in rq[p] <=> q \in rp[p]
    PROVE  AskedOnce(m, su, rq, p, q)
BY DEF AskedOnce, Kept

LEMMA AskedUntouched ==
    ASSUME AllAskedOnce, UNCHANGED <<fsm_state, replies>>,
           \A p, q \in Proc : Kept(net, net', Asking(p, q))
    PROVE  AllAskedOnce'
<1>1. SUFFICES ASSUME NEW p \in Proc, NEW q \in Proc \ {p}
               PROVE  AskedOnce(net', fsm_state', replies', p, q)
  BY DEF AllAskedOnce
<1>2. AskedOnce(net, fsm_state, replies, p, q)
  BY DEF AllAskedOnce
<1>3. QED
  BY <1>2, AskedSame

LEMMA AskedInit == ASSUME Assumptions, Init PROVE AllAskedOnce
<1>1. \A T : NoneOf(net, T) /\ AtMostOneOf(net, T)
  BY NothingThere, NoneIsAtMostOne DEF Init
<1>2. QED
  BY <1>1 DEF AllAskedOnce, AskedOnce, Init, PeerInit

LEMMA AskedSendto ==
    ASSUME Assumptions, IInv, NEW n \in Node, sendto(n), UNCHANGED <<peerVars, lamportVars>>
    PROVE  AllAskedOnce'
<1>1. \A p, q \in Proc : Kept(net, net', Asking(p, q))
  BY GoodAddressed, SendtoKept DEF IInv, Basics
<1>2. QED
  BY <1>1, AskedUntouched DEF IInv, peerVars, lamportVars

LEMMA AskedSupervisor == ASSUME Assumptions, IInv, SupervisorNext PROVE AllAskedOnce'
<1>1. UNCHANGED <<peerVars, lamportVars>> /\ UNCHANGED <<fsm_state, replies>>
  BY DEF SupervisorNext, peerVars, lamportVars
<1>2. net \in Nets(GoodPackets) /\ Placed(net) /\ AllAskedOnce
  BY DEF IInv, Basics
<1>3. CASE SupNext
  <2>1. ASSUME NEW New \in SUBSET (FromSupervisor("SYNCRO") \cup FromSupervisor("WANT")),
               net' \in Nets(GoodPackets), Sent(net, net', New)
        PROVE  AllAskedOnce'
    <3>1. \A pkt \in New : pkt.src = SUPERVISOR_PID
      BY DEF FromSupervisor, Packet
    <3>2. \A p, q \in Proc : New \cap Asking(p, q) = {}
      BY <3>1, OnlyPeersAsk
    <3>3. QED
      BY <1>1, <1>2, <2>1, <3>2, SentKept, AskedUntouched
  <2>2. ASSUME NEW slot \in Receivable(SUPERVISOR_PID), net' = dme_recv_msg(slot)
        PROVE  AllAskedOnce'
    <3>1. SUPERVISOR_PID \in Node /\ PacketAt(slot).dst = SUPERVISOR_PID
      BY <1>2, PidFacts, ReceivePlaced DEF Assumptions
    <3>2. \A p, q \in Proc : PacketAt(slot) \notin Asking(p, q)
      BY <3>1, OnlyPeersAsk
    <3>3. QED
      BY <1>1, <1>2, <2>2, <3>1, <3>2, ReceiveKept, AskedUntouched
  <2>3. QED
    BY <1>2, <1>3, <2>1, <2>2, SupPacketsGood, SupervisorEffect DEF Assumptions
<1>4. CASE sendto(SUPERVISOR_PID)
  BY <1>1, <1>4, PidFacts, AskedSendto DEF Assumptions
<1>5. QED
  BY <1>3, <1>4 DEF SupervisorNext

(* Receiving a packet that is not of the pair. *)
LEMMA NotTaken ==
    ASSUME Assumptions, Basics, NEW p \in Proc, NEW slot \in Receivable(p),
           NEW a, NEW b, PacketAt(slot) \notin Asking(a, b)
    PROVE  Kept(net, dme_recv_msg(slot), Asking(a, b))
BY PidFacts, ReceiveKept DEF Basics, Assumptions

LEMMA AskedNoted ==
    ASSUME Assumptions, IInv, NEW p \in Proc, NEW slot \in Receivable(p),
           SupervisorMsgKept(p, slot), UNCHANGED lamportVars
    PROVE  AllAskedOnce'
<1>1. /\ PacketAt(slot).msg \in SupMsg /\ net' = dme_recv_msg(slot)
      /\ UNCHANGED <<fsm_state, replies>>
  BY DEF SupervisorMsgKept, SupervisorMsgNoted, SupervisorMsgAt, peerVars, lamportVars
<1>2. \A a, b \in Proc : Kept(net, net', Asking(a, b))
  BY <1>1, OnlyPeersAsk, NotTaken DEF IInv
<1>3. QED
  BY <1>1, <1>2, AskedUntouched DEF IInv

LEMMA AskedWant ==
    ASSUME Assumptions, IInv, NEW p \in Proc, NEW slot \in Receivable(p),
           NEW t \in StampInstants(now), process_ev_want_cr(p, slot, t)
    PROVE  AllAskedOnce'
<1> DEFINE m == dme_recv_msg(slot)
           New == {Packet(p, d, REQUEST(p, t)) : d \in Proc \ {p}}
<1>1. p \in Node /\ m \in Nets(GoodPackets) /\ Placed(m)
  BY MessageTaken DEF IInv
<1>2. \A a, b \in Proc : Kept(net, m, Asking(a, b))
  BY OnlyPeersAsk, NotTaken DEF IInv, process_ev_want_cr, SupervisorMsgAt
<1>3. /\ fsm_state[p] = "PS_IDLE"
      /\ fsm_state' = [fsm_state EXCEPT ![p] = "PS_PENDING"]
      /\ replies' = [replies EXCEPT ![p] = {}]
      /\ net' = dme_broadcast_msg(m, p, REQUEST(p, t))
  BY DEF process_ev_want_cr, IsWant
<1> HIDE DEF m
<1>4. net' \in Nets(GoodPackets) /\ Sent(m, net', New)
  BY <1>1, <1>3, RequestsGood, OthersTold DEF Assumptions, IInv
<1>5. \A pkt \in New : /\ pkt.src = p /\ pkt.msg.type = "REQUEST"
                       /\ pkt = Packet(p, pkt.dst, REQUEST(p, t))
  BY DEF Packet, REQUEST
<1>6. \A b \in Proc \ {p} : Packet(p, b, REQUEST(p, t)) \in New \cap Asking(p, b)
  BY RequestsGood DEF IInv, Asking, Request, Packet, REQUEST
<1> HIDE DEF New
<1>7. SUFFICES ASSUME NEW a \in Proc, NEW b \in Proc \ {a}
               PROVE  AskedOnce(net', fsm_state', replies', a, b)
  BY DEF AllAskedOnce
<1>8. AskedOnce(net, fsm_state, replies, a, b)
  BY DEF IInv, AllAskedOnce
<1>9. fsm_state \in [Proc -> State] /\ replies \in [Proc -> SUBSET Proc]
  BY BasicTypes DEF IInv
<1>10. CASE a = p
  <2>1. NoneOf(m, Asking(a, b))
    BY <1>2, <1>3, <1>8, <1>10 DEF AskedOnce, Kept
  <2>2. \A pkt \in New \cap Asking(a, b) : pkt = Packet(p, b, REQUEST(p, t))
    BY <1>5, <1>7, <1>10 DEF Asking, Request, Reply
  <2>3. AtMostOneOf(net', Asking(a, b))
    BY <1>1, <1>4, <2>1, <2>2, SentProperties
  <2>4. fsm_state'[a] = "PS_PENDING" /\ replies'[a] = {}
    BY <1>3, <1>9, <1>10
  <2>5. ~NoneOf(net', Asking(a, b))
    <3>1. New \cap Asking(a, b) # {}
      BY <1>7, <1>10, <1>6
    <3>2. QED
      BY <1>1, <1>4, <3>1, SentProperties
  <2>6. QED
    BY <2>3, <2>4, <2>5 DEF AskedOnce
<1>11. CASE a # p
  <2>1. New \cap Asking(a, b) = {}
    BY <1>5, <1>11 DEF Asking, Request, Reply
  <2>2. Kept(net, net', Asking(a, b))
    <3>1. Kept(m, net', Asking(a, b))
      BY <1>1, <1>4, <2>1, SentKept
    <3>2. QED
      BY <1>2, <3>1 DEF Kept
  <2>3. fsm_state'[a] = fsm_state[a] /\ replies'[a] = replies[a]
    BY <1>3, <1>9, <1>11
  <2>4. QED
    BY <1>8, <2>2, <2>3, AskedSame
<1>12. QED
  BY <1>10, <1>11

(***************************************************************************)
(* p takes a message that belongs to a's asking b: afterwards nothing of   *)
(* it is on its way.                                                       *)
(***************************************************************************)
LEMMA AskingTaken ==
    ASSUME Assumptions, IInv, NEW p \in Proc, NEW slot \in Receivable(p),
           NEW a \in Proc, NEW b \in Proc \ {a}, PacketAt(slot) \in Asking(a, b)
    PROVE  /\ NoneOf(dme_recv_msg(slot), Asking(a, b))
           /\ fsm_state[a] = "PS_PENDING"
           /\ b \notin replies[a]
<1>1. AskedOnce(net, fsm_state, replies, a, b)
  BY DEF IInv, AllAskedOnce
<1>2. p \in Node /\ net \in Nets(GoodPackets) /\ Placed(net)
  BY PidFacts DEF IInv, Basics, Assumptions
<1>3. ~NoneOf(net, Asking(a, b))
  BY <1>2, ReceivePlaced
<1>4. NoneOf(dme_recv_msg(slot), Asking(a, b))
  BY <1>1, <1>2, ReceiveProperties DEF AskedOnce
<1>5. QED
  BY <1>1, <1>3, <1>4 DEF AskedOnce

(* The only pair a message from q to p can belong to. *)
LEMMA TakenIsOf ==
    ASSUME Assumptions, Basics, NEW p \in Proc, NEW slot \in Receivable(p), PeerMsgAt(p, slot)
    PROVE  LET pkt == PacketAt(slot)
               q == pkt.msg.pid
           IN
           /\ q \in Proc \ {p}
           /\ pkt.msg.type = "REQUEST" =>
                 /\ pkt \in Asking(q, p)
                 /\ \A a, b : pkt \in Asking(a, b) => a = q /\ b = p
           /\ pkt.msg.type = "REPLY" =>
                 /\ pkt \in Asking(p, q)
                 /\ \A a, b : pkt \in Asking(a, b) => a = p /\ b = q
<1> DEFINE pkt == PacketAt(slot)
<1>1. pkt \in GoodPackets
  BY MessageTaken
<1>2. pkt.msg.pid \in Proc \ {p} /\ pkt.src = pkt.msg.pid /\ pkt.dst = p
  BY PeerMessage
<1> HIDE DEF pkt
<1>3. QED
  BY <1>1, <1>2 DEF Asking, Request, Reply, pkt

LEMMA AskedRequest ==
    ASSUME Assumptions, IInv, NEW p \in Proc, NEW slot \in Receivable(p),
           RequestReceived(p, slot)
    PROVE  AllAskedOnce'
<1> DEFINE m == dme_recv_msg(slot)
           pkt == PacketAt(slot)
           q == pkt.msg.pid
           reply == Packet(p, q, REPLY(p))
<1>1. p \in Node /\ m \in Nets(GoodPackets) /\ Placed(m) /\ Basics
  BY MessageTaken DEF IInv
<1>2. q \in Proc \ {p} /\ q \in Node
  BY <1>1, PeerMessage, PidFacts DEF RequestReceived, Assumptions
<1>3. pkt \in Asking(q, p) /\ \A a, b : pkt \in Asking(a, b) => a = q /\ b = p
  BY <1>1, TakenIsOf DEF RequestReceived
<1>4. NoneOf(m, Asking(q, p)) /\ fsm_state[q] = "PS_PENDING" /\ p \notin replies[q]
  BY <1>2, <1>3, AskingTaken
<1>5. \A a, b : ~(a = q /\ b = p) => Kept(net, m, Asking(a, b))
  BY <1>1, <1>3, NotTaken
<1>6. net' = dme_send_msg(m, p, q, REPLY(p)) /\ UNCHANGED <<fsm_state, replies>>
  BY DEF RequestReceived, peerVars
<1>7. reply \in GoodPackets
  BY <1>2, ReplyGood
<1>8. \A a, b : reply \in Asking(a, b) => a = q /\ b = p
  BY DEF Asking, Request, Reply, Packet, REPLY
<1>9. reply \in Asking(q, p)
  BY <1>7 DEF Asking, Reply, Packet, REPLY
<1> HIDE DEF m, pkt, q
<1>10. net' \in Nets(GoodPackets) /\ Sent(m, net', {reply})
  BY <1>1, <1>2, <1>6, <1>7, OneTold DEF reply
<1> HIDE DEF reply
<1>11. AtMostOneOf(net', Asking(q, p)) /\ ~NoneOf(net', Asking(q, p))
  <2>1. AtMostOneOf(net', Asking(q, p))
    BY <1>1, <1>4, <1>10, SentProperties
  <2>2. {reply} \cap Asking(q, p) # {}
    BY <1>9
  <2>3. ~NoneOf(net', Asking(q, p))
    BY <1>1, <1>10, <2>2, SentProperties
  <2>4. QED
    BY <2>1, <2>3
<1>12. \A a, b : ~(a = q /\ b = p) => Kept(net, net', Asking(a, b))
  <2>1. SUFFICES ASSUME NEW a, NEW b, ~(a = q /\ b = p) PROVE Kept(m, net', Asking(a, b))
    BY <1>5 DEF Kept
  <2>2. {reply} \cap Asking(a, b) = {}
    BY <1>8, <2>1
  <2>3. QED
    BY <1>1, <1>10, <2>2, SentKept
<1>13. SUFFICES ASSUME NEW a \in Proc, NEW b \in Proc \ {a}
                PROVE  AskedOnce(net', fsm_state', replies', a, b)
  BY DEF AllAskedOnce
<1>14. CASE a = q /\ b = p
  BY <1>4, <1>6, <1>11, <1>14 DEF AskedOnce
<1>15. CASE ~(a = q /\ b = p)
  BY <1>6, <1>12, <1>15, AskedSame DEF IInv, AllAskedOnce
<1>16. QED
  BY <1>14, <1>15

(* Entering tells the supervisor only. *)
LEMMA OnTurnKept ==
    ASSUME Assumptions, Basics, NEW p \in Proc, NEW slot \in Receivable(p),
           NEW q, NEW r, EnterOnTurn(p, slot, q, r)
    PROVE  /\ \A a, b \in Proc : Kept(dme_recv_msg(slot), net', Asking(a, b))
           /\ \A a \in Proc \ {p} : fsm_state'[a] = fsm_state[a]
           /\ \/ fsm_state'[p] = fsm_state[p]
              \/ /\ fsm_state[p] = "PS_PENDING" /\ fsm_state'[p] = "PS_EXECUTING"
                 /\ my_turn(p, q, r)
<1> DEFINE m == dme_recv_msg(slot)
<1>1. p \in Node /\ m \in Nets(GoodPackets) /\ Placed(m)
  BY MessageTaken
<1>2. IF fsm_state[p] = "PS_PENDING" /\ my_turn(p, q, r)
      THEN process_ev_entered_cr(p, fsm_state[p], m)
      ELSE net' = m /\ UNCHANGED <<peerVars, exit_request>>
  BY DEF EnterOnTurn
<1> HIDE DEF m
<1>3. CASE fsm_state[p] = "PS_PENDING" /\ my_turn(p, q, r)
  <2> DEFINE told == Packet(p, SUPERVISOR_PID, [type |-> "ENTERED"])
  <2>1. /\ net' = dme_send_msg(m, p, SUPERVISOR_PID, [type |-> "ENTERED"])
        /\ fsm_state' = [fsm_state EXCEPT ![p] = "PS_EXECUTING"]
    BY <1>2, <1>3 DEF process_ev_entered_cr
  <2>2. net' \in Nets(GoodPackets) /\ Sent(m, net', {told})
    BY <1>1, <2>1, SupPacketsGood, SupervisorTold DEF Assumptions
  <2>3. told.dst = SUPERVISOR_PID
    BY DEF Packet
  <2> HIDE DEF told
  <2>4. \A a, b \in Proc : {told} \cap Asking(a, b) = {}
    BY <2>3, OnlyPeersAsk
  <2>5. \A a, b \in Proc : Kept(m, net', Asking(a, b))
    BY <1>1, <2>2, <2>4, SentKept
  <2>6. QED
    BY <1>3, <2>1, <2>5, BasicTypes DEF m
<1>4. CASE ~(fsm_state[p] = "PS_PENDING" /\ my_turn(p, q, r))
  BY <1>2, <1>4 DEF Kept, peerVars, m
<1>5. QED
  BY <1>3, <1>4

LEMMA AskedReply ==
    ASSUME Assumptions, IInv, NEW p \in Proc, NEW slot \in Receivable(p),
           ReplyReceived(p, slot)
    PROVE  AllAskedOnce'
<1> DEFINE m == dme_recv_msg(slot)
           pkt == PacketAt(slot)
           q == pkt.msg.pid
<1>1. Basics
  BY DEF IInv
<1>2. q \in Proc \ {p}
  BY <1>1, PeerMessage DEF ReplyReceived
<1>3. pkt \in Asking(p, q) /\ \A a, b : pkt \in Asking(a, b) => a = p /\ b = q
  BY <1>1, TakenIsOf DEF ReplyReceived
<1>4. NoneOf(m, Asking(p, q)) /\ fsm_state[p] = "PS_PENDING" /\ q \notin replies[p]
  BY <1>2, <1>3, AskingTaken
<1>5. \A a, b : ~(a = p /\ b = q) => Kept(net, m, Asking(a, b))
  BY <1>1, <1>3, NotTaken
<1>6. /\ replies' = [replies EXCEPT ![p] = @ \cup {q}]
      /\ EnterOnTurn(p, slot, request_queue[p], replies'[p])
  BY <1>4 DEF ReplyReceived
<1>7. /\ \A a, b \in Proc : Kept(m, net', Asking(a, b))
      /\ \A a \in Proc \ {p} : fsm_state'[a] = fsm_state[a]
      /\ \/ fsm_state'[p] = "PS_PENDING"
         \/ fsm_state'[p] = "PS_EXECUTING" /\ Proc \ {p} \subseteq replies'[p]
  BY <1>1, <1>4, <1>6, OnTurnKept DEF my_turn
<1> HIDE DEF m, pkt, q
<1>8. /\ \A a \in Proc \ {p} : replies'[a] = replies[a]
      /\ replies'[p] = replies[p] \cup {q}
  BY <1>1, <1>6, BasicTypes
<1>9. SUFFICES ASSUME NEW a \in Proc, NEW b \in Proc \ {a}
               PROVE  AskedOnce(net', fsm_state', replies', a, b)
  BY DEF AllAskedOnce
<1>10. AskedOnce(net, fsm_state, replies, a, b)
  BY DEF IInv, AllAskedOnce
<1>11. CASE a = p /\ b = q
  <2>1. NoneOf(net', Asking(a, b)) /\ b \in replies'[a]
    BY <1>4, <1>7, <1>8, <1>11 DEF Kept
  <2>2. QED
    BY <2>1, NoneIsAtMostOne DEF AskedOnce
<1>12. CASE a = p /\ b # q
  <2>1. Kept(net, net', Asking(a, b))
    BY <1>5, <1>7, <1>12 DEF Kept
  <2>2. b \in replies'[a] <=> b \in replies[a]
    BY <1>8, <1>12
  <2>3. fsm_state[a] = "PS_PENDING"
    BY <1>4, <1>12
  <2>4. fsm_state'[a] = "PS_PENDING" \/ (fsm_state'[a] = "PS_EXECUTING" /\ b \in replies'[a])
    BY <1>7, <1>9, <1>12
  <2>5. QED
    BY <1>10, <2>1, <2>2, <2>3, <2>4 DEF AskedOnce, Kept
<1>13. CASE a # p
  <2>1. Kept(net, net', Asking(a, b))
    BY <1>5, <1>7, <1>13 DEF Kept
  <2>2. fsm_state'[a] = fsm_state[a] /\ replies'[a] = replies[a]
    BY <1>7, <1>8, <1>13
  <2>3. QED
    BY <1>10, <2>1, <2>2, AskedSame
<1>14. QED
  BY <1>11, <1>12, <1>13

LEMMA AskedRelease ==
    ASSUME Assumptions, IInv, NEW p \in Proc, NEW slot \in Receivable(p),
           ReleaseReceived(p, slot)
    PROVE  AllAskedOnce'
<1> DEFINE m == dme_recv_msg(slot)
<1>1. Basics /\ PacketAt(slot).msg.type = "RELEASE"
  BY DEF IInv, ReleaseReceived
<1>2. \A a, b \in Proc : Kept(net, m, Asking(a, b))
  BY <1>1, OnlyPeersAsk, NotTaken
<1>3. UNCHANGED replies /\ EnterOnTurn(p, slot, request_queue'[p], replies[p])
  BY DEF ReleaseReceived
<1>4. /\ \A a, b \in Proc : Kept(m, net', Asking(a, b))
      /\ \A a \in Proc \ {p} : fsm_state'[a] = fsm_state[a]
      /\ \/ fsm_state'[p] = fsm_state[p]
         \/ /\ fsm_state[p] = "PS_PENDING" /\ fsm_state'[p] = "PS_EXECUTING"
            /\ Proc \ {p} \subseteq replies[p]
  BY <1>1, <1>3, OnTurnKept DEF my_turn
<1> HIDE DEF m
<1>5. SUFFICES ASSUME NEW a \in Proc, NEW b \in Proc \ {a}
               PROVE  AskedOnce(net', fsm_state', replies', a, b)
  BY DEF AllAskedOnce
<1>6. AskedOnce(net, fsm_state, replies, a, b) /\ Kept(net, net', Asking(a, b))
  BY <1>2, <1>4 DEF IInv, AllAskedOnce, Kept
<1>7. CASE fsm_state'[a] = fsm_state[a]
  BY <1>3, <1>6, <1>7, AskedSame
<1>8. CASE fsm_state'[a] # fsm_state[a]
  <2>1. /\ fsm_state[a] = "PS_PENDING" /\ fsm_state'[a] = "PS_EXECUTING"
        /\ b \in replies[a]
    BY <1>4, <1>5, <1>8
  <2>2. QED
    BY <1>3, <1>6, <2>1, NoneIsAtMostOne DEF AskedOnce, Kept
<1>9. QED
  BY <1>7, <1>8

LEMMA AskedExited ==
    ASSUME Assumptions, IInv, NEW p \in Proc, process_ev_exited_cr(p)
    PROVE  AllAskedOnce'
<1> DEFINE m == InformExited(p)
           told == Packet(p, SUPERVISOR_PID, [type |-> "EXITED"])
           New == {Packet(p, d, RELEASE(p)) : d \in Proc \ {p}}
<1>1. /\ m \in Nets(GoodPackets) /\ Placed(m) /\ Sent(net, m, {told})
      /\ net' \in Nets(GoodPackets) /\ Sent(m, net', New)
  BY LeftSent DEF IInv
<1>2. /\ fsm_state[p] = "PS_EXECUTING"
      /\ fsm_state' = [fsm_state EXCEPT ![p] = "PS_IDLE"]
      /\ UNCHANGED replies
  BY Left DEF IInv
<1>3. told.dst = SUPERVISOR_PID
  BY DEF Packet
<1>4. \A pkt \in New : pkt.msg.type = "RELEASE"
  BY DEF Packet, RELEASE
<1> HIDE DEF m, told, New
<1>5. SUFFICES ASSUME NEW a \in Proc, NEW b \in Proc \ {a}
               PROVE  AskedOnce(net', fsm_state', replies', a, b)
  BY DEF AllAskedOnce
<1>6. AskedOnce(net, fsm_state, replies, a, b)
  BY DEF IInv, AllAskedOnce
<1>7. Kept(net, net', Asking(a, b))
  <2>1. {told} \cap Asking(a, b) = {} /\ New \cap Asking(a, b) = {}
    BY <1>3, <1>4, OnlyPeersAsk
  <2>2. net \in Nets(GoodPackets)
    BY DEF IInv, Basics
  <2>3. Kept(net, m, Asking(a, b)) /\ Kept(m, net', Asking(a, b))
    BY <1>1, <2>1, <2>2, SentKept
  <2>4. QED
    BY <2>3 DEF Kept
<1>8. fsm_state \in [Proc -> State]
  BY BasicTypes DEF IInv
<1>9. CASE a = p
  <2>1. fsm_state[a] = "PS_EXECUTING" /\ fsm_state'[a] = "PS_IDLE"
    BY <1>2, <1>8, <1>9
  <2>2. QED
    BY <1>6, <1>7, <2>1, NoneIsAtMostOne DEF AskedOnce, Kept
<1>10. CASE a # p
  <2>1. fsm_state'[a] = fsm_state[a]
    BY <1>2, <1>8, <1>10
  <2>2. QED
    BY <1>2, <1>6, <1>7, <2>1, AskedSame
<1>11. QED
  BY <1>9, <1>10

LEMMA AskedNext == ASSUME Assumptions, IInv, [Next]_vars PROVE AllAskedOnce'
<1>1. CASE SupervisorNext
  BY <1>1, AskedSupervisor
<1>2. ASSUME NEW p \in Proc, PeerNext(p) PROVE AllAskedOnce'
  <2>1. CASE handle_message(p)
    <3>1. PICK slot \in Receivable(p) :
             \/ SupervisorMsgKept(p, slot) /\ UNCHANGED lamportVars
             \/ \E t \in StampInstants(now) : process_ev_want_cr(p, slot, t)
             \/ RequestReceived(p, slot)
             \/ ReleaseReceived(p, slot)
             \/ ReplyReceived(p, slot)
      BY <2>1 DEF handle_message
    <3>2. QED
      BY <3>1, AskedNoted, AskedWant, AskedRequest, AskedRelease, AskedReply
  <2>2. CASE process_ev_exited_cr(p)
    BY <2>2, AskedExited
  <2>3. CASE sendto(p) /\ UNCHANGED <<exit_request, peerVars, clockVars, lamportVars>>
    BY <2>3, PidFacts, AskedSendto DEF Assumptions
  <2>4. QED
    BY <1>2, <2>1, <2>2, <2>3 DEF PeerNext
<1>3. CASE UNCHANGED vars
  BY <1>3, AskedUntouched DEF vars, peerVars, lamportVars, Kept, IInv
<1>4. QED
  BY <1>1, <1>2, <1>3 DEF Next

LEMMA Invariance == Spec => []IInv
<1>1. Assumptions
  BY NetworkAssumption, SupervisorAssumption, ClockAssumption DEF Assumptions
<1>2. Init => IInv
  BY <1>1, BasicsInit, AskedInit DEF IInv
<1>3. IInv /\ [Next]_vars => IInv'
  BY <1>1, BasicsNext, AskedNext DEF IInv
<1>4. QED
  BY <1>2, <1>3, PTL DEF Spec

(***************************************************************************)
(* Everything keeps the type the code gives it.                            *)
(***************************************************************************)
THEOREM TypeCorrect == Spec => []TypeOK
<1>1. IInv => TypeOK
  BY DEF IInv, Basics
<1>2. QED
  BY <1>1, Invariance, PTL

(***************************************************************************)
(* No peer running lamport.c takes a fatal branch.                         *)
(***************************************************************************)
THEOREM NeverFatal == Spec => []NoPeerFatal
<1>1. IInv => NoPeerFatal
  BY DEF IInv, Basics
<1>2. QED
  BY <1>1, Invariance, PTL

(***************************************************************************)
(* Every REPLY on its way is one its receiver, PENDING, waits for and has  *)
(* not got: on networks that reorder packets, too.                         *)
(***************************************************************************)
THEOREM RepliesExpected == Spec => []RepliesAreExpected
<1>1. ASSUME IInv PROVE RepliesAreExpected
  <2>1. SUFFICES ASSUME NEW pkt \in Packets, pkt.msg.type = "REPLY"
                 PROVE  /\ fsm_state[pkt.dst] = "PS_PENDING"
                        /\ pkt.src \notin replies[pkt.dst]
    BY DEF RepliesAreExpected
  <2>2. net \in Nets(GoodPackets)
    BY <1>1 DEF IInv, Basics
  <2>3. pkt \in GoodPackets
    BY <2>2, OnItsWay
  <2>4. pkt.src \in Proc /\ pkt.dst \in Proc /\ pkt.src # pkt.dst
    BY <2>1, <2>3, PacketFields
  <2>5. pkt \in Asking(pkt.dst, pkt.src)
    BY <2>1, <2>3 DEF Asking, Reply
  <2>6. ~NoneOf(net, Asking(pkt.dst, pkt.src))
    BY <2>2, <2>5, OnItsWay
  <2>7. AskedOnce(net, fsm_state, replies, pkt.dst, pkt.src)
    BY <1>1, <2>4 DEF IInv, AllAskedOnce
  <2>8. QED
    BY <2>6, <2>7 DEF AskedOnce
<1>2. QED
  BY <1>1, Invariance, PTL

-----------------------------------------------------------------------------
(***************************************************************************)
(* The epoch of the experiment, on networks that keep the order of the     *)
(* packets between two nodes: what the supervisor sees of its peers, and   *)
(* which of them know when the experiment started.                         *)
(***************************************************************************)
Informed == {p \in Proc : sup_syncro[p] = Reading(SyncroInstant)}

Announced(n, st) ==
    /\ Sight(GoodPackets, n, st, nodes)
    /\ AllHeard(n, st, Informed, syncro_done)

LEMMA PacketKinds == TypesApart(GoodPackets)
<1>1. \A msg \in PeerMsg : msg.type \in {"REQUEST", "REPLY", "RELEASE"}
  BY DEF PeerMsg
<1>2. QED
  BY <1>1 DEF TypesApart, SupTypes, GoodPackets, PacketType

LEMMA AnnouncedInit == ASSUME Assumptions, Init PROVE Announced(net, fsm_state)
<1>1. \A p \in Proc : fsm_state[p] = "PS_IDLE" /\ nodes[p] = "PS_IDLE"
  BY DEF Init, PeerInit, SupInit
<1>2. Sight(GoodPackets, net, fsm_state, nodes)
  BY <1>1, SightInit DEF Init
<1>3. AllHeard(net, fsm_state, Informed, syncro_done)
  BY <1>1, NothingHeard DEF Init, SupInit
<1>4. QED
  BY <1>2, <1>3 DEF Announced

(* It is the supervisor's state and sup_syncro that the rest depends on. *)
LEMMA AnnouncedSame ==
    ASSUME Announced(net', fsm_state'), SupervisorUnchanged, UNCHANGED sup_syncro
    PROVE  Announced(net, fsm_state)'
BY DEF Announced, Informed, SupervisorUnchanged, supVars

LEMMA AnnouncedSupervisor ==
    ASSUME Net # "udp", Assumptions, Basics, Announced(net, fsm_state), SupervisorNext
    PROVE  Announced(net, fsm_state)'
<1>1. UNCHANGED <<fsm_state, sup_syncro>>
  BY DEF SupervisorNext, peerVars, clockVars
<1>2. /\ net \in Nets(GoodPackets) /\ Placed(net) /\ SupTypeOK
      /\ Sight(GoodPackets, net, fsm_state, nodes)
      /\ AllHeard(net, fsm_state, Informed, syncro_done)
  BY BasicTypes DEF Announced
<1>3. CASE SupNext
  <2>1. Sight(GoodPackets, net', fsm_state, nodes')
    BY <1>2, <1>3, SupPacketsGood, PacketKinds, SightSupervisor DEF Assumptions
  <2>2. AllHeard(net', fsm_state, Informed, syncro_done')
    BY <1>2, <1>3, SupPacketsGood, HeardSupervisor DEF Assumptions
  <2>3. QED
    BY <1>1, <2>1, <2>2 DEF Announced, Informed
<1>4. CASE sendto(SUPERVISOR_PID) /\ UNCHANGED <<supVars, exit_request>>
  <2>1. Sight(GoodPackets, net', fsm_state, nodes)
    BY <1>2, <1>4, GoodAddressed, PidFacts, SightSendto DEF Assumptions
  <2>2. AllHeard(net', fsm_state, Informed, syncro_done)
    BY <1>2, <1>4, GoodAddressed, PidFacts, HeardSendto DEF Assumptions
  <2>3. QED
    BY <1>1, <1>4, <2>1, <2>2 DEF Announced, Informed, supVars
<1>5. QED
  BY <1>3, <1>4 DEF SupervisorNext

LEMMA AnnouncedSendto ==
    ASSUME Assumptions, Basics, NEW p \in Proc, sendto(p), Announced(net, fsm_state)
    PROVE  Announced(net', fsm_state)
BY BasicTypes, GoodAddressed, PidFacts, SightSendto, HeardSendto DEF Assumptions, Announced

(* What one peer sends to another does not matter. *)
LEMMA AnnouncedSent ==
    ASSUME Assumptions, NEW n \in Nets(GoodPackets), Placed(n), NEW m \in Nets(GoodPackets),
           NEW New, Sent(n, m, New), \A pkt \in New : pkt.msg \notin SupMsg,
           NEW st, Announced(n, st)
    PROVE  Announced(m, st)
<1>1. \A pkt \in New, p \in Proc : pkt \notin SyncroTo(p) /\ pkt \notin WantTo(p)
  <2>1. \A p \in Proc : \A pkt \in SyncroTo(p) \cup WantTo(p) : pkt.msg \in SupMsg
    BY DEF SyncroTo, WantTo, FromSupervisor, Packet, SupMsg
  <2>2. QED
    BY <2>1
<1>2. QED
  BY <1>1, SightSent, HeardSent DEF Assumptions, Announced

LEMMA AnnouncedTaken ==
    ASSUME Assumptions, Basics, NEW p \in Proc, NEW slot \in Receivable(p), PeerMsgAt(p, slot),
           Announced(net, fsm_state)
    PROVE  Announced(dme_recv_msg(slot), fsm_state)
BY BasicTypes, PidFacts, SightOthers, HeardOthers DEF PeerMsgAt, Assumptions, Announced

LEMMA AnnouncedNoted ==
    ASSUME Assumptions, Basics, NEW p \in Proc, NEW slot \in Receivable(p),
           SupervisorMsgKept(p, slot), SupervisorUnchanged, Announced(net, fsm_state)
    PROVE  Announced(net, fsm_state)'
<1>1. /\ net \in Nets(GoodPackets) /\ Placed(net)
      /\ Sight(GoodPackets, net, fsm_state, nodes)
      /\ AllHeard(net, fsm_state, Informed, syncro_done)
  BY BasicTypes DEF Announced
<1>2. SupervisorMsgNoted(p, slot) /\ UNCHANGED fsm_state /\ UNCHANGED <<nodes, syncro_done>>
  BY DEF SupervisorMsgKept, SupervisorMsgNoted, peerVars, SupervisorUnchanged, supVars
<1>3. Sight(GoodPackets, net', fsm_state, nodes)
  BY <1>1, <1>2, SightNoted DEF Assumptions
<1>4. \A q \in Proc : q \in Informed' <=> q \in Informed \/ (q = p /\ IsSyncro(p, slot))
  <2>1. sup_syncro \in [Proc -> Timespec]
    BY BasicTypes DEF ClockTypeOK
  <2>2. sup_syncro' = IF IsSyncro(p, slot)
                      THEN [sup_syncro EXCEPT ![p] = Reading(SyncroInstant)]
                      ELSE sup_syncro
    BY DEF SupervisorMsgKept
  <2>3. QED
    BY <2>1, <2>2 DEF Informed
<1>5. AllHeard(net', fsm_state, Informed', syncro_done)
  <2> DEFINE L == Informed'
             K == Informed
  <2>1. \A q \in Proc : q \in L <=> q \in K \/ (q = p /\ IsSyncro(p, slot))
    BY <1>4
  <2> HIDE DEF L
  <2>2. AllHeard(net, fsm_state, K, syncro_done)
    BY <1>1
  <2> HIDE DEF K
  <2>3. AllHeard(net', fsm_state, L, syncro_done)
    BY <1>1, <1>2, <2>1, <2>2, HeardNoted DEF Assumptions
  <2>4. QED
    BY <2>3 DEF L
<1>6. QED
  BY <1>2, <1>3, <1>5 DEF Announced

(* Who is told to compete has read the announcement. *)
LEMMA AnnouncedWant ==
    ASSUME Net # "udp", Assumptions, Basics, NEW p \in Proc, NEW slot \in Receivable(p),
           SupervisorMsgAt(p, slot), IsWant(p, slot), Announced(net, fsm_state)
    PROVE  /\ p \in Informed
           /\ Announced(dme_recv_msg(slot), [fsm_state EXCEPT ![p] = "PS_PENDING"])
<1>1. /\ net \in Nets(GoodPackets) /\ Placed(net) /\ fsm_state \in [Proc -> State]
      /\ Sight(GoodPackets, net, fsm_state, nodes)
      /\ AllHeard(net, fsm_state, Informed, syncro_done)
      /\ syncro_done \in BOOLEAN
  BY BasicTypes DEF Announced, SupTypeOK
<1>2. PacketAt(slot).msg \in SupMsg /\ PacketAt(slot).msg.type = "WANT"
  BY DEF SupervisorMsgAt, IsWant
<1>3. Sight(GoodPackets, dme_recv_msg(slot), [fsm_state EXCEPT ![p] = "PS_PENDING"], nodes)
  BY <1>1, <1>2, SightWanted DEF Assumptions
<1>4. /\ p \in Informed
      /\ AllHeard(dme_recv_msg(slot), [fsm_state EXCEPT ![p] = "PS_PENDING"],
                  Informed, syncro_done)
  <2> DEFINE m == dme_recv_msg(slot)
             K == Informed
  <2>1. /\ p \in K
        /\ \A s : AllHeard(m, [fsm_state EXCEPT ![p] = s], K, syncro_done)
    <3> HIDE DEF K
    <3>1. AllHeard(net, fsm_state, K, syncro_done)
      BY <1>1 DEF K
    <3>2. QED
      BY <1>1, <1>2, <3>1, HeardWanted DEF Assumptions
  <2> HIDE DEF m, K
  <2>2. AllHeard(m, [fsm_state EXCEPT ![p] = "PS_PENDING"], K, syncro_done)
    BY <2>1
  <2>3. QED
    BY <2>1, <2>2 DEF m, K
<1>5. QED
  BY <1>3, <1>4 DEF Announced

(* Entering and leaving: the supervisor is told. *)
LEMMA AnnouncedEntered ==
    ASSUME Assumptions, Basics, NEW p \in Proc, fsm_state[p] = "PS_PENDING",
           NEW n \in Nets(GoodPackets), Placed(n), Announced(n, fsm_state)
    PROVE  Announced(dme_send_msg(n, p, SUPERVISOR_PID, [type |-> "ENTERED"]),
                     [fsm_state EXCEPT ![p] = "PS_EXECUTING"])
<1> DEFINE m == dme_send_msg(n, p, SUPERVISOR_PID, [type |-> "ENTERED"])
<1>1. fsm_state \in [Proc -> State] /\ SupPackets \subseteq GoodPackets
  BY BasicTypes, SupPacketsGood
<1>2. Sight(GoodPackets, n, fsm_state, nodes) /\ AllHeard(n, fsm_state, Informed, syncro_done)
  BY DEF Announced
<1>3. Sight(GoodPackets, m, [fsm_state EXCEPT ![p] = "PS_EXECUTING"], nodes)
  BY <1>1, <1>2, SightEntered DEF Assumptions
<1>4. AllHeard(m, fsm_state, Informed, syncro_done)
  BY <1>1, <1>2, HeardTold DEF Assumptions
<1> HIDE DEF m
<1>5. AllHeard(m, [fsm_state EXCEPT ![p] = "PS_EXECUTING"], Informed, syncro_done)
  BY <1>1, <1>4, HeardMoved
<1>6. QED
  BY <1>3, <1>5 DEF Announced, m

LEMMA AnnouncedExited ==
    ASSUME Assumptions, Basics, NEW p \in Proc, fsm_state[p] = "PS_EXECUTING",
           Announced(net, fsm_state)
    PROVE  Announced(InformExited(p), [fsm_state EXCEPT ![p] = "PS_IDLE"])
<1> DEFINE m == dme_send_msg(net, p, SUPERVISOR_PID, [type |-> "EXITED"])
<1>1. /\ fsm_state \in [Proc -> State] /\ SupPackets \subseteq GoodPackets
      /\ net \in Nets(GoodPackets) /\ Placed(net)
  BY BasicTypes, SupPacketsGood
<1>2. /\ Sight(GoodPackets, net, fsm_state, nodes)
      /\ AllHeard(net, fsm_state, Informed, syncro_done)
  BY DEF Announced
<1>3. Sight(GoodPackets, m, [fsm_state EXCEPT ![p] = "PS_IDLE"], nodes)
  BY <1>1, <1>2, SightExited DEF Assumptions
<1>4. AllHeard(m, fsm_state, Informed, syncro_done)
  BY <1>1, <1>2, HeardTold DEF Assumptions
<1> HIDE DEF m
<1>5. AllHeard(m, [fsm_state EXCEPT ![p] = "PS_IDLE"], Informed, syncro_done)
  BY <1>1, <1>4, HeardMoved
<1>6. QED
  BY <1>3, <1>5 DEF Announced, m, InformExited

(* The handlers. *)
LEMMA AnnouncedNext ==
    ASSUME Net # "udp", Assumptions, Basics, [Next]_vars, Announced(net, fsm_state)
    PROVE  Announced(net, fsm_state)'
<1>1. CASE SupervisorNext
  BY <1>1, AnnouncedSupervisor
<1>2. ASSUME NEW p \in Proc, PeerNext(p) PROVE Announced(net, fsm_state)'
  <2>1. SupervisorUnchanged
    BY <1>2 DEF PeerNext
  <2>2. ASSUME NEW slot \in Receivable(p),
               NEW t \in StampInstants(now), process_ev_want_cr(p, slot, t)
        PROVE  Announced(net, fsm_state)'
    <3> DEFINE m == dme_recv_msg(slot)
               New == {Packet(p, d, REQUEST(p, t)) : d \in Proc \ {p}}
    <3>1. p \in Node /\ m \in Nets(GoodPackets) /\ Placed(m)
      BY MessageTaken
    <3>2. /\ SupervisorMsgAt(p, slot) /\ IsWant(p, slot)
          /\ fsm_state' = [fsm_state EXCEPT ![p] = "PS_PENDING"]
          /\ net' = dme_broadcast_msg(m, p, REQUEST(p, t))
          /\ UNCHANGED sup_syncro
      BY <2>2 DEF process_ev_want_cr, StampTaken
    <3>3. Announced(m, fsm_state')
      BY <3>2, AnnouncedWant
    <3> HIDE DEF m
    <3>4. net' \in Nets(GoodPackets) /\ Sent(m, net', New)
      BY <3>1, <3>2, RequestsGood, OthersTold DEF Assumptions
    <3>5. \A pkt \in New : pkt.msg \notin SupMsg
      BY DEF Packet, REQUEST, SupMsg
    <3> HIDE DEF New
    <3>6. Announced(net', fsm_state')
      BY <3>1, <3>3, <3>4, <3>5, AnnouncedSent
    <3>7. QED
      BY <2>1, <3>2, <3>6, AnnouncedSame
  <2>3. ASSUME NEW slot \in Receivable(p), RequestReceived(p, slot)
        PROVE  Announced(net, fsm_state)'
    <3> DEFINE m == dme_recv_msg(slot)
               q == PacketAt(slot).msg.pid
    <3>1. p \in Node /\ m \in Nets(GoodPackets) /\ Placed(m)
      BY MessageTaken
    <3>2. q \in Proc \ {p} /\ q \in Node
      BY <2>3, PeerMessage, PidFacts DEF RequestReceived, Assumptions
    <3>3. Announced(m, fsm_state)
      BY <2>3, AnnouncedTaken DEF RequestReceived
    <3>4. net' = dme_send_msg(m, p, q, REPLY(p)) /\ UNCHANGED <<fsm_state, sup_syncro>>
      BY <2>3 DEF RequestReceived, peerVars, RequestArrives
    <3> HIDE DEF m, q
    <3>5. net' \in Nets(GoodPackets) /\ Sent(m, net', {Packet(p, q, REPLY(p))})
      BY <3>1, <3>2, <3>4, ReplyGood, OneTold
    <3>6. Packet(p, q, REPLY(p)).msg \notin SupMsg
      BY DEF Packet, REPLY, SupMsg
    <3>7. Announced(net', fsm_state)
      BY <3>1, <3>3, <3>5, <3>6, AnnouncedSent
    <3>8. QED
      BY <2>1, <3>4, <3>7, AnnouncedSame
  <2>4. ASSUME NEW slot \in Receivable(p), NEW q, NEW r, EnterOnTurn(p, slot, q, r),
               PeerMsgAt(p, slot), UNCHANGED clockVars
        PROVE  Announced(net, fsm_state)'
    <3> DEFINE m == dme_recv_msg(slot)
    <3>1. p \in Node /\ m \in Nets(GoodPackets) /\ Placed(m)
      BY MessageTaken
    <3>2. Announced(m, fsm_state)
      BY <2>4, AnnouncedTaken
    <3>3. IF fsm_state[p] = "PS_PENDING" /\ my_turn(p, q, r)
          THEN process_ev_entered_cr(p, fsm_state[p], m)
          ELSE net' = m /\ UNCHANGED <<peerVars, exit_request>>
      BY <2>4 DEF EnterOnTurn
    <3> HIDE DEF m
    <3>4. Announced(net', fsm_state')
      <4>1. CASE fsm_state[p] = "PS_PENDING" /\ my_turn(p, q, r)
        <5>1. /\ net' = dme_send_msg(m, p, SUPERVISOR_PID, [type |-> "ENTERED"])
              /\ fsm_state' = [fsm_state EXCEPT ![p] = "PS_EXECUTING"]
          BY <3>3, <4>1 DEF process_ev_entered_cr
        <5>2. QED
          BY <3>1, <3>2, <4>1, <5>1, AnnouncedEntered
      <4>2. CASE ~(fsm_state[p] = "PS_PENDING" /\ my_turn(p, q, r))
        BY <3>2, <3>3, <4>2 DEF peerVars
      <4>3. QED
        BY <4>1, <4>2
    <3>5. QED
      BY <2>1, <2>4, <3>4, AnnouncedSame DEF clockVars
  <2>5. CASE process_ev_exited_cr(p)
    <3> DEFINE m == InformExited(p)
               New == {Packet(p, d, RELEASE(p)) : d \in Proc \ {p}}
    <3>1. /\ m \in Nets(GoodPackets) /\ Placed(m)
          /\ net' \in Nets(GoodPackets) /\ Sent(m, net', New)
      BY <2>5, LeftSent
    <3>2. /\ fsm_state[p] = "PS_EXECUTING"
          /\ fsm_state' = [fsm_state EXCEPT ![p] = "PS_IDLE"]
          /\ UNCHANGED sup_syncro
      BY <2>5, Left DEF clockVars
    <3>3. Announced(m, fsm_state')
      BY <3>2, AnnouncedExited
    <3>4. \A pkt \in New : pkt.msg \notin SupMsg
      BY DEF Packet, RELEASE, SupMsg
    <3> HIDE DEF m, New
    <3>5. Announced(net', fsm_state')
      BY <3>1, <3>3, <3>4, AnnouncedSent
    <3>6. QED
      BY <2>1, <3>2, <3>5, AnnouncedSame
  <2>6. CASE sendto(p) /\ UNCHANGED <<exit_request, peerVars, clockVars, lamportVars>>
    BY <2>1, <2>6, AnnouncedSendto, AnnouncedSame DEF peerVars, clockVars
  <2>7. ASSUME NEW slot \in Receivable(p), SupervisorMsgKept(p, slot)
        PROVE  Announced(net, fsm_state)'
    BY <2>1, <2>7, AnnouncedNoted
  <2>8. CASE handle_message(p)
    <3>1. PICK slot \in Receivable(p) :
             \/ SupervisorMsgKept(p, slot) /\ UNCHANGED lamportVars
             \/ \E t \in StampInstants(now) : process_ev_want_cr(p, slot, t)
             \/ RequestReceived(p, slot)
             \/ ReleaseReceived(p, slot)
             \/ ReplyReceived(p, slot)
      BY <2>8 DEF handle_message
    <3>2. CASE ReleaseReceived(p, slot)
      BY <2>4, <3>2 DEF ReleaseReceived
    <3>3. CASE ReplyReceived(p, slot)
      BY <2>4, <3>3 DEF ReplyReceived
    <3>4. QED
      BY <2>2, <2>3, <2>7, <3>1, <3>2, <3>3
  <2>9. QED
    BY <1>2, <2>5, <2>6, <2>8 DEF PeerNext
<1>3. CASE UNCHANGED vars
  BY <1>3 DEF vars, peerVars, clockVars, supVars, Announced, Informed
<1>4. QED
  BY <1>1, <1>2, <1>3 DEF Next

LEMMA AnnouncedInvariance == ASSUME Net # "udp" PROVE Spec => []Announced(net, fsm_state)
<1>1. Assumptions
  BY NetworkAssumption, SupervisorAssumption, ClockAssumption DEF Assumptions
<1>2. Init => Announced(net, fsm_state)
  BY <1>1, AnnouncedInit
<1>3. IInv /\ Announced(net, fsm_state) /\ [Next]_vars => Announced(net, fsm_state)'
  BY <1>1, AnnouncedNext DEF IInv
<1>4. QED
  BY <1>2, <1>3, Invariance, PTL DEF Spec

(***************************************************************************)
(* A peer that competes knows the epoch its stamps are taken from.         *)
(***************************************************************************)
THEOREM EpochHeard == ASSUME Net # "udp" PROVE Spec => []EpochKnown
<1>1. Announced(net, fsm_state) => EpochKnown
  BY DEF Announced, AllHeard, Heard, EpochKnown, Informed
<1>2. QED
  BY <1>1, AnnouncedInvariance, PTL

-----------------------------------------------------------------------------
(***************************************************************************)
(* Exclusion and the queues, on networks that keep the order of packets    *)
(* between two nodes, for stamps that increase with the instants they are  *)
(* taken at.                                                               *)
(* A peer's queue has two parts.  In front are the entries that have been  *)
(* released: as many as there are RELEASEs on their way to the peer, each  *)
(* of which will take off the head, whoever sent it and whosever it is.    *)
(* Behind them are the requests of those that compete now, sorted, one of  *)
(* each peer whose REQUEST is here.  The own stamps ts are in no variable  *)
(* of lamport.c; they are carried by the requests.                         *)
(***************************************************************************)
(* The stamp s was taken before instant t. *)
Past(s, t) == \E u \in Instants : u < t /\ s = EpochStamp(u)

(* Requests of p that do not carry the stamp s, or were not read by the epoch. *)
Misdated(s, p) ==
    {pkt \in GoodPackets :
        /\ pkt.msg.type = "REQUEST" /\ pkt.src = p
        /\ ~ /\ pkt.msg.at \in Instants
             /\ pkt.msg.ts = EpochStamp(pkt.msg.at) /\ pkt.msg.ts = s}

Release(p, q) ==
    {pkt \in GoodPackets : pkt.src = p /\ pkt.dst = q /\ pkt.msg.type = "RELEASE"}

(* p's entry in a queue, while it competes. *)
Own(ts, p) == [ts |-> ts[p], pid |-> p]

Older(ts, p, q) == Precedes(Own(ts, p), Own(ts, q))

(* q has replied to the request p competes with. *)
Answered(n, st, rp, p, q) ==
    st[p] # "PS_IDLE" /\ (q \in rp[p] \/ ~NoneOf(n, Reply(q, p)))

(***************************************************************************)
(* q replies at once, so that p has to know what q asked before: a peer    *)
(* that has been answered asked before now; it is older than the one that  *)
(* answered, or the other's request was sent in front of the answer.       *)
(***************************************************************************)
Consent(n, st, rp, ts, t, p, q) ==
    /\ Answered(n, st, rp, p, q) => Past(ts[p], t)
    /\ Answered(n, st, rp, p, q) /\ st[q] # "PS_IDLE" /\ ~Older(ts, p, q) =>
          /\ InOrder(n, Request(q, p), Reply(q, p))
          /\ q \in rp[p] => NoneOf(n, Request(q, p))

(* The RELEASE of p to q is received before p asks again. *)
ReleasedOnce(n, st, p, q) ==
    /\ AtMostOneOf(n, Release(p, q))
    /\ InOrder(n, Release(p, q), Request(p, q))
    /\ st[p] # "PS_IDLE" /\ NoneOf(n, Request(p, q)) => NoneOf(n, Release(p, q))

Releasing(n, q) == {p \in Proc \ {q} : ~NoneOf(n, Release(p, q))}

Competing(st) == {p \in Proc : st[p] # "PS_IDLE"}

(* Those whose request is in q's queue. *)
Known(n, st, q) == {p \in Competing(st) : p = q \/ NoneOf(n, Request(p, q))}

Queued(s, k, known, comp, ts, t, q) ==
    /\ k <= Len(s)
    /\ \A i \in 1 .. k :
          /\ s[i].pid # q /\ Past(s[i].ts, t)
          /\ \A p \in comp : Precedes(s[i], Own(ts, p))
    /\ \A i \in k + 1 .. Len(s) : s[i].pid \in known /\ s[i] = Own(ts, s[i].pid)
    /\ \A p \in known : \E i \in k + 1 .. Len(s) : s[i].pid = p
    /\ \A i, j \in k + 1 .. Len(s) : i < j => Precedes(s[i], s[j])

(* Inside, a peer is the oldest of all that compete, and nothing is released to it. *)
Oldest(n, st, ts, p) ==
    /\ \A q \in Competing(st) \ {p} : Older(ts, p, q)
    /\ Releasing(n, p) = {}

Ordering(n, st, rp, rq, ts, t) ==
    /\ \A p \in Proc : NoneOf(n, Misdated(ts[p], p))
    /\ \A p \in Proc : \A q \in Proc \ {p} :
          Consent(n, st, rp, ts, t, p, q) /\ ReleasedOnce(n, st, p, q)
    /\ \A p \in Proc : st[p] = "PS_EXECUTING" => Oldest(n, st, ts, p)
    /\ \A q \in Proc :
          Queued(rq[q], Cardinality(Releasing(n, q)), Known(n, st, q), Competing(st), ts, t, q)

Ordered(ts) ==
    Ordering(net, fsm_state, replies, request_queue, ts, now)

LEMMA PrecedesOrder ==
    ASSUME Assumptions, NEW a \in Entry, NEW b \in Entry, NEW c \in Entry
    PROVE  /\ ~(Precedes(a, b) /\ Precedes(b, a))
           /\ Precedes(a, b) /\ Precedes(b, c) => Precedes(a, c)
           /\ a.pid # b.pid => Precedes(a, b) \/ Precedes(b, a)
<1>1. \A e \in {a, b, c} : e.ts.sec \in Nat /\ e.ts.nsec \in Nat /\ e.pid \in Nat
  BY DEF Entry, Timespec, Proc
<1>2. a.ts = [sec |-> a.ts.sec, nsec |-> a.ts.nsec] /\ b.ts = [sec |-> b.ts.sec, nsec |-> b.ts.nsec]
  BY DEF Entry, Timespec
<1>3. a.ts.sec = b.ts.sec /\ a.ts.nsec = b.ts.nsec => a.ts = b.ts
  BY <1>2
<1>4. QED
  BY <1>1, <1>3 DEF Precedes, Earlier

LEMMA OwnEntry ==
    ASSUME NEW ts \in [Proc -> Timespec], NEW p \in Proc
    PROVE  Own(ts, p) \in Entry /\ Own(ts, p).pid = p /\ Own(ts, p).ts = ts[p]
BY DEF Own, Entry

LEMMA OlderOrder ==
    ASSUME Assumptions, NEW ts \in [Proc -> Timespec], NEW p \in Proc, NEW q \in Proc \ {p}
    PROVE  ~(Older(ts, p, q) /\ Older(ts, q, p)) /\ (Older(ts, p, q) \/ Older(ts, q, p))
BY OwnEntry, PrecedesOrder DEF Older

LEMMA PastLasts ==
    ASSUME NEW s, NEW t \in Nat, NEW u \in Nat, t <= u, Instants \subseteq Nat, Past(s, t)
    PROVE  Past(s, u)
<1>1. \A v \in Instants : v < t => v < u
  OBVIOUS
<1>2. QED
  BY <1>1 DEF Past

(* Whoever asks now is younger than all that asked before. *)
LEMMA PastIsOlder ==
    ASSUME StampsIncrease, Instants \subseteq Nat, NEW n \in Nat, NEW t \in Instants, n <= t,
           NEW a, NEW b, Past(a.ts, n), b.ts = EpochStamp(t)
    PROVE  Precedes(a, b)
<1>1. PICK u \in Instants : u < n /\ a.ts = EpochStamp(u)
  BY DEF Past
<1>2. u < t
  BY <1>1
<1>3. QED
  BY <1>1, <1>2 DEF StampsIncrease, Precedes

-----------------------------------------------------------------------------
(* What the operations do to a queue. *)

LEMMA QueuedSame ==
    ASSUME NEW s \in Seq(Entry), NEW k \in Nat, NEW known \in SUBSET Proc, NEW comp, NEW com2,
           com2 \subseteq comp,
           NEW ts, NEW t \in Nat, NEW u \in Nat, t <= u, Instants \subseteq Nat,
           NEW q, Queued(s, k, known, comp, ts, t, q)
    PROVE  Queued(s, k, known, com2, ts, u, q)
BY PastLasts DEF Queued

(* x asks: it is younger than the released entries. *)
LEMMA QueuedNewcomer ==
    ASSUME NEW s \in Seq(Entry), NEW k \in Nat,
           NEW comp \in SUBSET Proc, NEW known \in SUBSET comp,
           NEW ts \in [Proc -> Timespec], NEW ts2 \in [Proc -> Timespec],
           NEW x \in Proc \ comp, \A p \in Proc \ {x} : ts2[p] = ts[p],
           NEW t \in Nat, NEW u \in Nat, t <= u, Instants \subseteq Nat,
           NEW q, Queued(s, k, known, comp, ts, t, q),
           \A a : Past(a.ts, t) => Precedes(a, Own(ts2, x))
    PROVE  Queued(s, k, known, comp \cup {x}, ts2, u, q)
<1>1. \A p \in comp : Own(ts2, p) = Own(ts, p)
  BY DEF Own
<1>2. ASSUME NEW i \in 1 .. k
      PROVE  /\ s[i].pid # q /\ Past(s[i].ts, u)
             /\ \A p \in comp \cup {x} : Precedes(s[i], Own(ts2, p))
  <2>1. s[i].pid # q /\ Past(s[i].ts, t) /\ \A p \in comp : Precedes(s[i], Own(ts, p))
    BY DEF Queued
  <2>2. QED
    BY <1>1, <2>1, PastLasts
<1>3. ASSUME NEW i \in k + 1 .. Len(s)
      PROVE  s[i].pid \in known /\ s[i] = Own(ts2, s[i].pid)
  BY <1>1 DEF Queued
<1>4. QED
  BY <1>2, <1>3 DEF Queued

(* x's request is received, or queued by x itself. *)
LEMMA QueuedInserted ==
    ASSUME Assumptions, NEW s \in Seq(Entry), NEW k \in Nat,
           NEW comp \in SUBSET Proc, NEW known \in SUBSET comp,
           NEW ts \in [Proc -> Timespec], NEW t, NEW q, NEW x \in comp \ known,
           Queued(s, k, known, comp, ts, t, q)
    PROVE  Queued(request_queue_insert(s, Own(ts, x)), k, known \cup {x}, comp, ts, t, q)
<1> DEFINE e == Own(ts, x)
           r == request_queue_insert(s, e)
<1>1. e \in Entry /\ e.pid = x
  BY OwnEntry
<1>2. Len(s) \in Nat /\ k <= Len(s) /\ \A i \in 1 .. Len(s) : s[i] \in Entry
  BY DEF Queued
<1>3. PICK j \in 1 .. Len(s) + 1 :
         /\ \A i \in 1 .. Len(s) + 1 :
               r[i] = IF i < j THEN s[i] ELSE IF i = j THEN e ELSE s[i - 1]
         /\ \A i \in 1 .. j - 1 : ~Precedes(e, s[i])
         /\ j <= Len(s) => Precedes(e, s[j])
  <2> HIDE DEF e
  <2>1. QED
    BY <1>1, Inserted
<1>4. Len(r) = Len(s) + 1
  <2> HIDE DEF e
  <2>1. QED
    BY <1>1, Inserted
<1> HIDE DEF r
<1>5. \A i \in 1 .. k : Precedes(s[i], e)
  BY DEF Queued
<1>6. j > k
  <2>1. SUFFICES ASSUME j <= k PROVE FALSE
    BY <1>2
  <2>2. j \in 1 .. k /\ j \in 1 .. Len(s) /\ j <= Len(s)
    BY <1>2, <2>1
  <2>3. Precedes(e, s[j]) /\ Precedes(s[j], e) /\ s[j] \in Entry
    BY <1>2, <1>3, <1>5, <2>2
  <2> HIDE DEF e
  <2>4. QED
    BY <1>1, <2>3, PrecedesOrder
<1>7. /\ \A i \in k + 1 .. Len(s) : s[i].pid \in known /\ s[i] = Own(ts, s[i].pid)
      /\ \A p \in known : \E i \in k + 1 .. Len(s) : s[i].pid = p
      /\ \A i, l \in k + 1 .. Len(s) : i < l => Precedes(s[i], s[l])
  BY DEF Queued
<1>8. /\ \A i \in k + 1 .. j - 1 : Precedes(s[i], e)
      /\ \A i \in j .. Len(s) : Precedes(e, s[i])
  <2>1. ASSUME NEW i \in k + 1 .. j - 1 PROVE Precedes(s[i], e)
    <3>1. i \in k + 1 .. Len(s) /\ i \in 1 .. Len(s) /\ i \in 1 .. j - 1
      BY <1>2
    <3>2. s[i] \in Entry /\ s[i].pid # e.pid /\ ~Precedes(e, s[i])
      BY <1>1, <1>2, <1>3, <1>7, <3>1
    <3> HIDE DEF e
    <3>3. QED
      BY <1>1, <3>2, PrecedesOrder
  <2>2. ASSUME NEW i \in j .. Len(s) PROVE Precedes(e, s[i])
    <3>1. j \in k + 1 .. Len(s) /\ i \in k + 1 .. Len(s) /\ j \in 1 .. Len(s) /\ i \in 1 .. Len(s)
      BY <1>2, <1>6
    <3>2. Precedes(e, s[j]) /\ (j < i => Precedes(s[j], s[i])) /\ s[j] \in Entry /\ s[i] \in Entry
      BY <1>2, <1>3, <1>7, <3>1
    <3> HIDE DEF e
    <3>3. QED
      BY <1>1, <3>2, PrecedesOrder
  <2>3. QED
    BY <2>1, <2>2
<1>9. /\ \A i \in 1 .. j - 1 : r[i] = s[i]
      /\ r[j] = e
      /\ \A i \in j + 1 .. Len(s) + 1 : r[i] = s[i - 1]
  <2> HIDE DEF e
  <2>1. \A i \in 1 .. j - 1 : i \in 1 .. Len(s) + 1 /\ i < j
    BY <1>2
  <2>2. \A i \in j + 1 .. Len(s) + 1 : i \in 1 .. Len(s) + 1 /\ ~(i < j) /\ i # j
    BY <1>2
  <2>3. ~(j < j)
    BY <1>2
  <2>4. QED
    BY <1>3, <2>1, <2>2, <2>3, Zenon
<1>10. ASSUME NEW i \in 1 .. k
       PROVE  /\ r[i].pid # q /\ Past(r[i].ts, t)
              /\ \A p \in comp : Precedes(r[i], Own(ts, p))
  <2>1. r[i] = s[i]
    BY <1>6, <1>9
  <2>2. QED
    BY <2>1 DEF Queued
<1>11. ASSUME NEW i \in k + 1 .. Len(s) + 1
       PROVE  r[i].pid \in known \cup {x} /\ r[i] = Own(ts, r[i].pid)
  <2>1. CASE i < j
    BY <1>2, <1>7, <1>9, <2>1
  <2>2. CASE i = j
    BY <1>1, <1>9, <2>2
  <2>3. CASE i > j
    <3>1. i - 1 \in k + 1 .. Len(s) /\ r[i] = s[i - 1]
      BY <1>2, <1>6, <1>9, <2>3
    <3>2. QED
      BY <1>7, <3>1
  <2>4. QED
    BY <2>1, <2>2, <2>3
<1>12. ASSUME NEW p \in known \cup {x} PROVE \E i \in k + 1 .. Len(s) + 1 : r[i].pid = p
  <2>1. CASE p = x
    BY <1>1, <1>2, <1>6, <1>9, <2>1
  <2>2. CASE p \in known
    <3>1. PICK i \in k + 1 .. Len(s) : s[i].pid = p
      BY <1>7, <2>2
    <3>2. CASE i < j
      BY <1>2, <1>9, <3>1, <3>2
    <3>3. CASE i >= j
      <4>1. i + 1 \in k + 1 .. Len(s) + 1 /\ r[i + 1] = s[i]
        BY <1>2, <1>6, <1>9, <3>3
      <4>2. QED
        BY <3>1, <4>1
    <3>4. QED
      BY <1>2, <3>2, <3>3
  <2>3. QED
    BY <2>1, <2>2
<1>13. ASSUME NEW i \in k + 1 .. Len(s) + 1, NEW l \in k + 1 .. Len(s) + 1, i < l
       PROVE  Precedes(r[i], r[l])
  <2>1. CASE l < j
    BY <1>2, <1>7, <1>9, <1>13, <2>1
  <2>2. CASE l = j
    BY <1>2, <1>8, <1>9, <1>13, <2>2
  <2>3. CASE i = j
    <3>1. r[l] = s[l - 1] /\ l - 1 \in j .. Len(s) /\ r[i] = e
      BY <1>2, <1>9, <1>13, <2>3
    <3>2. QED
      BY <1>8, <3>1
  <2>4. CASE i < j /\ l > j
    <3>1. r[i] = s[i] /\ r[l] = s[l - 1] /\ i \in k + 1 .. Len(s) /\ l - 1 \in k + 1 .. Len(s)
          /\ i < l - 1
      BY <1>2, <1>6, <1>9, <1>13, <2>4
    <3>2. QED
      BY <1>7, <3>1
  <2>5. CASE i > j
    <3>1. r[i] = s[i - 1] /\ r[l] = s[l - 1] /\ i - 1 \in k + 1 .. Len(s)
          /\ l - 1 \in k + 1 .. Len(s) /\ i - 1 < l - 1
      BY <1>2, <1>6, <1>9, <1>13, <2>5
    <3>2. QED
      BY <1>7, <3>1
  <2>6. QED
    BY <1>2, <1>13, <2>1, <2>2, <2>3, <2>4, <2>5
<1>14. k <= Len(r)
  BY <1>2, <1>4
<1>15. Queued(r, k, known \cup {x}, comp, ts, t, q)
  BY <1>4, <1>10, <1>11, <1>12, <1>13, <1>14 DEF Queued
<1>16. QED
  BY <1>15 DEF r

(* A RELEASE is received: one released entry less, whosever it was. *)
LEMMA QueuedPopped ==
    ASSUME NEW s \in Seq(Entry), NEW k \in Nat \ {0}, NEW known, NEW comp,
           NEW ts, NEW t, NEW q, Queued(s, k, known, comp, ts, t, q)
    PROVE  Queued(request_queue_pop(s), k - 1, known, comp, ts, t, q)
<1> DEFINE r == request_queue_pop(s)
<1>1. k <= Len(s) /\ Len(s) \in Nat
  BY DEF Queued
<1>2. s # <<>>
  BY <1>1
<1>3. Len(r) = Len(s) - 1 /\ \A i \in 1 .. Len(s) - 1 : r[i] = s[i + 1]
  BY <1>2, Popped
<1> HIDE DEF r
<1>4. ASSUME NEW i \in 1 .. k - 1
      PROVE  /\ r[i].pid # q /\ Past(r[i].ts, t)
             /\ \A p \in comp : Precedes(r[i], Own(ts, p))
  <2>1. r[i] = s[i + 1] /\ i + 1 \in 1 .. k
    BY <1>1, <1>3
  <2>2. QED
    BY <2>1 DEF Queued
<1>5. ASSUME NEW i \in k .. Len(s) - 1
      PROVE  r[i].pid \in known /\ r[i] = Own(ts, r[i].pid)
  <2>1. r[i] = s[i + 1] /\ i + 1 \in k + 1 .. Len(s)
    BY <1>1, <1>3
  <2>2. QED
    BY <2>1 DEF Queued
<1>6. ASSUME NEW p \in known PROVE \E i \in k .. Len(s) - 1 : r[i].pid = p
  <2>1. PICK i \in k + 1 .. Len(s) : s[i].pid = p
    BY DEF Queued
  <2>2. i - 1 \in k .. Len(s) - 1 /\ r[i - 1] = s[i]
    BY <1>1, <1>3
  <2>3. QED
    BY <2>1, <2>2
<1>7. ASSUME NEW i \in k .. Len(s) - 1, NEW l \in k .. Len(s) - 1, i < l
      PROVE  Precedes(r[i], r[l])
  <2>1. /\ r[i] = s[i + 1] /\ i + 1 \in k + 1 .. Len(s)
        /\ r[l] = s[l + 1] /\ l + 1 \in k + 1 .. Len(s) /\ i + 1 < l + 1
    BY <1>1, <1>3, <1>7
  <2>2. QED
    BY <2>1 DEF Queued
<1>8. (k - 1) + 1 = k /\ k - 1 <= Len(r)
  BY <1>1, <1>3
<1>9. Queued(r, k - 1, known, comp, ts, t, q)
  BY <1>3, <1>4, <1>5, <1>6, <1>7, <1>8 DEF Queued
<1>10. QED
  BY <1>9 DEF r

(* Of the requests in q's queue the one of the oldest peer is the first. *)
LEMMA OldestFirst ==
    ASSUME Assumptions, NEW s \in Seq(Entry), NEW k \in Nat,
           NEW comp \in SUBSET Proc, NEW known \in SUBSET comp, NEW x \in known,
           NEW ts \in [Proc -> Timespec], \A p \in comp \ {x} : Older(ts, x, p),
           NEW t, NEW q, Queued(s, k, known, comp, ts, t, q)
    PROVE  /\ Len(s) \in Nat /\ k + 1 <= Len(s) /\ s[k + 1] = Own(ts, x)
           /\ \A i \in k + 2 .. Len(s) : s[i].pid # x
<1>1. k <= Len(s) /\ Len(s) \in Nat
  BY DEF Queued
<1>2. PICK i \in k + 1 .. Len(s) : s[i].pid = x
  BY DEF Queued
<1>3. k + 1 \in k + 1 .. Len(s) /\ s[i] = Own(ts, x)
  BY <1>1, <1>2 DEF Queued
<1>4. s[k + 1].pid \in known /\ s[k + 1] = Own(ts, s[k + 1].pid)
  BY <1>3 DEF Queued
<1>5. i = k + 1
  <2>1. SUFFICES ASSUME k + 1 < i PROVE FALSE
    BY <1>1, <1>2
  <2> DEFINE y == s[k + 1].pid
  <2>2. Precedes(Own(ts, y), Own(ts, x))
    BY <1>3, <1>4, <2>1 DEF Queued
  <2>3. y \in comp
    BY <1>4
  <2> HIDE DEF y
  <2>4. CASE y = x
    BY <2>2, <2>4, OwnEntry, PrecedesOrder
  <2>5. CASE y # x
    <3>1. y \in Proc \ {x} /\ x \in Proc /\ Older(ts, x, y) /\ Older(ts, y, x)
      BY <2>2, <2>3, <2>5 DEF Older
    <3>2. QED
      BY <3>1, OlderOrder
  <2>6. QED
    BY <2>4, <2>5
<1>6. ASSUME NEW j \in k + 2 .. Len(s), s[j].pid = x PROVE FALSE
  <2>1. j \in k + 1 .. Len(s) /\ k + 1 < j
    BY <1>1
  <2>2. s[j] = Own(ts, x) /\ Precedes(s[k + 1], s[j])
    BY <1>3, <1>6, <2>1 DEF Queued
  <2>3. QED
    BY <1>3, <1>5, <2>2, OwnEntry, PrecedesOrder
<1>7. QED
  BY <1>1, <1>3, <1>5, <1>6

(* The oldest peer x leaves: its entry is the first that it releases. *)
LEMMA QueuedReleased ==
    ASSUME Assumptions, NEW s \in Seq(Entry), NEW k \in Nat,
           NEW comp \in SUBSET Proc, NEW known \in SUBSET comp, NEW x \in known,
           NEW ts \in [Proc -> Timespec], \A p \in comp \ {x} : Older(ts, x, p),
           NEW t, Past(ts[x], t), NEW q, x # q, Queued(s, k, known, comp, ts, t, q)
    PROVE  Queued(s, k + 1, known \ {x}, comp \ {x}, ts, t, q)
<1>1. /\ Len(s) \in Nat /\ k + 1 <= Len(s) /\ s[k + 1] = Own(ts, x)
      /\ \A i \in k + 2 .. Len(s) : s[i].pid # x
  BY OldestFirst
<1>2. ASSUME NEW i \in 1 .. k + 1
      PROVE  /\ s[i].pid # q /\ Past(s[i].ts, t)
             /\ \A p \in comp \ {x} : Precedes(s[i], Own(ts, p))
  <2>1. CASE i = k + 1
    BY <1>1, <2>1, OwnEntry DEF Older
  <2>2. CASE i \in 1 .. k
    BY <2>2 DEF Queued
  <2>3. QED
    BY <2>1, <2>2
<1>3. k + 2 .. Len(s) \subseteq k + 1 .. Len(s) /\ (k + 1) + 1 = k + 2
  BY <1>1
<1>4. ASSUME NEW i \in k + 2 .. Len(s)
      PROVE  s[i].pid \in known \ {x} /\ s[i] = Own(ts, s[i].pid)
  BY <1>1, <1>3 DEF Queued
<1>5. ASSUME NEW p \in known \ {x} PROVE \E i \in k + 2 .. Len(s) : s[i].pid = p
  <2>1. PICK i \in k + 1 .. Len(s) : s[i].pid = p
    BY DEF Queued
  <2>2. i # k + 1
    BY <1>1, <2>1, OwnEntry
  <2>3. i \in k + 2 .. Len(s)
    BY <1>1, <2>2
  <2>4. QED
    BY <2>1, <2>3
<1>6. \A i, l \in k + 2 .. Len(s) : i < l => Precedes(s[i], s[l])
  BY <1>3 DEF Queued
<1>7. QED
  BY <1>1, <1>2, <1>3, <1>4, <1>5, <1>6 DEF Queued

(* The oldest peer q leaves, and takes its entry off its own queue. *)
LEMMA QueuedLeft ==
    ASSUME Assumptions, NEW s \in Seq(Entry),
           NEW comp \in SUBSET Proc, NEW known \in SUBSET comp, NEW q \in known,
           NEW ts \in [Proc -> Timespec], \A p \in comp \ {q} : Older(ts, q, p),
           NEW t, Queued(s, 0, known, comp, ts, t, q)
    PROVE  Queued(request_queue_pop(s), 0, known \ {q}, comp \ {q}, ts, t, q)
<1> DEFINE r == request_queue_pop(s)
<1>1. /\ Len(s) \in Nat /\ 1 <= Len(s) /\ s[1] = Own(ts, q)
      /\ \A i \in 2 .. Len(s) : s[i].pid # q
  <2>1. /\ Len(s) \in Nat /\ 0 + 1 <= Len(s) /\ s[0 + 1] = Own(ts, q)
        /\ \A i \in 0 + 2 .. Len(s) : s[i].pid # q
    BY OldestFirst, 0 \in Nat
  <2>2. 0 + 1 = 1 /\ 0 + 2 = 2
    OBVIOUS
  <2>3. QED
    BY <2>1, <2>2
<1>2. s # <<>>
  BY <1>1
<1>3. Len(r) = Len(s) - 1 /\ \A i \in 1 .. Len(s) - 1 : r[i] = s[i + 1]
  BY <1>2, Popped
<1> HIDE DEF r
<1>4. /\ \A i \in 1 .. Len(s) : s[i].pid \in known /\ s[i] = Own(ts, s[i].pid)
      /\ \A p \in known : \E i \in 1 .. Len(s) : s[i].pid = p
      /\ \A i, l \in 1 .. Len(s) : i < l => Precedes(s[i], s[l])
  <2>1. 0 + 1 = 1
    OBVIOUS
  <2>2. QED
    BY <2>1 DEF Queued
<1>5. ASSUME NEW i \in 1 .. Len(s) - 1
      PROVE  r[i].pid \in known \ {q} /\ r[i] = Own(ts, r[i].pid)
  <2>1. i + 1 \in 1 .. Len(s) /\ i + 1 \in 2 .. Len(s) /\ r[i] = s[i + 1]
    BY <1>1, <1>3
  <2>2. QED
    BY <1>1, <1>4, <2>1
<1>6. ASSUME NEW p \in known \ {q} PROVE \E i \in 1 .. Len(s) - 1 : r[i].pid = p
  <2>1. PICK i \in 1 .. Len(s) : s[i].pid = p
    BY <1>4
  <2>2. i # 1
    BY <1>1, <2>1, OwnEntry
  <2>3. i - 1 \in 1 .. Len(s) - 1 /\ r[i - 1] = s[i]
    BY <1>1, <1>3, <2>2
  <2>4. QED
    BY <2>1, <2>3
<1>7. ASSUME NEW i \in 1 .. Len(s) - 1, NEW l \in 1 .. Len(s) - 1, i < l
      PROVE  Precedes(r[i], r[l])
  <2>1. /\ r[i] = s[i + 1] /\ i + 1 \in 1 .. Len(s)
        /\ r[l] = s[l + 1] /\ l + 1 \in 1 .. Len(s) /\ i + 1 < l + 1
    BY <1>1, <1>3, <1>7
  <2>2. QED
    BY <1>4, <2>1
<1>8. 0 + 1 = 1 /\ 1 .. 0 = {} /\ 0 <= Len(r)
  BY <1>1, <1>3
<1>9. Queued(r, 0, known \ {q}, comp \ {q}, ts, t, q)
  BY <1>3, <1>5, <1>6, <1>7, <1>8 DEF Queued
<1>10. QED
  BY <1>9 DEF r

(* Whose request is on top of the own queue has no entry released in front of it. *)
LEMMA HeadIsFirst ==
    ASSUME Assumptions, NEW s \in Seq(Entry), NEW k \in Nat,
           NEW known \in SUBSET Proc, NEW comp, NEW q \in known,
           NEW ts \in [Proc -> Timespec], NEW t, Queued(s, k, known, comp, ts, t, q),
           s # <<>>, Head(s).pid = q
    PROVE  k = 0 /\ \A p \in known \ {q} : Older(ts, q, p)
<1>1. k <= Len(s) /\ Len(s) \in Nat
  BY DEF Queued
<1>2. Len(s) > 0 /\ s[1].pid = q
  BY <1>1
<1>3. k = 0
  <2>1. SUFFICES ASSUME k # 0 PROVE FALSE
    OBVIOUS
  <2>2. 1 \in 1 .. k
    BY <2>1
  <2>3. QED
    BY <1>2, <2>2 DEF Queued
<1>4. ASSUME NEW p \in known \ {q} PROVE Older(ts, q, p)
  <2>1. 0 + 1 = 1
    OBVIOUS
  <2>2. PICK i \in 1 .. Len(s) : s[i].pid = p
    BY <1>3, <2>1 DEF Queued
  <2>3. 1 \in 1 .. Len(s) /\ 1 < i
    BY <1>1, <1>2, <2>2
  <2>4. s[1] = Own(ts, q) /\ s[i] = Own(ts, p) /\ Precedes(s[1], s[i])
    BY <1>2, <1>3, <2>1, <2>2, <2>3 DEF Queued
  <2>5. QED
    BY <2>4 DEF Older
<1>5. QED
  BY <1>3, <1>4

(* Nothing is released, nobody competes: the queue is empty. *)
LEMMA QueuedNothing ==
    ASSUME NEW s \in Seq(Entry), NEW comp, NEW ts, NEW t, NEW q, Queued(s, 0, {}, comp, ts, t, q)
    PROVE  s = <<>>
<1>1. \A i \in 0 + 1 .. Len(s) : FALSE
  BY DEF Queued
<1>2. Len(s) \in Nat /\ Len(s) = 0
  BY <1>1
<1>3. QED
  BY <1>2

-----------------------------------------------------------------------------
(* What goes from one peer to another. *)
Link(a, b) == Request(a, b) \cup Reply(a, b) \cup Release(a, b)

SameLink(n, m, a, b) ==
    /\ Kept(n, m, Request(a, b)) /\ Kept(n, m, Reply(a, b)) /\ Kept(n, m, Release(a, b))
    /\ InOrder(n, Request(a, b), Reply(a, b)) => InOrder(m, Request(a, b), Reply(a, b))
    /\ InOrder(n, Release(a, b), Request(a, b)) => InOrder(m, Release(a, b), Request(a, b))

LEMMA LinkFacts ==
    ASSUME NEW a, NEW b
    PROVE  /\ OneLink(Request(a, b) \cup Reply(a, b)) /\ OneLink(Release(a, b) \cup Request(a, b))
           /\ Request(a, b) \cap Reply(a, b) = {} /\ Request(a, b) \cap Release(a, b) = {}
           /\ Reply(a, b) \cap Release(a, b) = {}
           /\ Request(a, b) \subseteq Link(a, b) /\ Reply(a, b) \subseteq Link(a, b)
           /\ Release(a, b) \subseteq Link(a, b)
BY DEF OneLink, Request, Reply, Release, Link

LEMMA LinkSent ==
    ASSUME NEW n \in Nets(GoodPackets), NEW m \in Nets(GoodPackets), Placed(n),
           NEW New, Sent(n, m, New), NEW a, NEW b, New \cap Link(a, b) = {}
    PROVE  SameLink(n, m, a, b)
<1>1. New \cap Request(a, b) = {} /\ New \cap Reply(a, b) = {} /\ New \cap Release(a, b) = {}
  BY LinkFacts
<1>2. Kept(n, m, Request(a, b)) /\ Kept(n, m, Reply(a, b)) /\ Kept(n, m, Release(a, b))
  BY <1>1, SentKept
<1>3. InOrder(n, Request(a, b), Reply(a, b)) => InOrder(m, Request(a, b), Reply(a, b))
  BY <1>1, LinkFacts, SentInOrder
<1>4. InOrder(n, Release(a, b), Request(a, b)) => InOrder(m, Release(a, b), Request(a, b))
  BY <1>1, LinkFacts, SentInOrder
<1>5. QED
  BY <1>2, <1>3, <1>4 DEF SameLink

LEMMA LinkReceived ==
    ASSUME net \in Nets(GoodPackets), Placed(net), NEW d \in Node, NEW slot \in Receivable(d),
           NEW a, NEW b, PacketAt(slot) \notin Link(a, b)
    PROVE  SameLink(net, dme_recv_msg(slot), a, b)
<1>1. /\ PacketAt(slot) \notin Request(a, b) /\ PacketAt(slot) \notin Reply(a, b)
      /\ PacketAt(slot) \notin Release(a, b)
  BY LinkFacts
<1>2. QED
  BY <1>1, ReceiveKept, ReceiveInOrder DEF SameLink

LEMMA LinkSendto ==
    ASSUME net \in Nets(GoodPackets), Placed(net), NEW d \in Node, sendto(d), NEW a, NEW b
    PROVE  SameLink(net, net', a, b)
<1>1. \A T : Kept(net, net', T)
  BY GoodAddressed, SendtoKept
<1>2. InOrder(net, Request(a, b), Reply(a, b)) => InOrder(net', Request(a, b), Reply(a, b))
  BY GoodAddressed, LinkFacts, SendtoInOrder
<1>3. InOrder(net, Release(a, b), Request(a, b)) => InOrder(net', Release(a, b), Request(a, b))
  BY GoodAddressed, LinkFacts, SendtoInOrder
<1>4. QED
  BY <1>1, <1>2, <1>3 DEF SameLink

LEMMA LinkTwice ==
    ASSUME NEW n, NEW m, NEW o, NEW a, NEW b, SameLink(n, m, a, b), SameLink(m, o, a, b)
    PROVE  SameLink(n, o, a, b)
BY DEF SameLink, Kept

LEMMA NoLink ==
    ASSUME Assumptions, NEW a \in Proc, NEW b \in Proc, NEW pkt,
           pkt.src = SUPERVISOR_PID \/ pkt.dst = SUPERVISOR_PID \/ pkt.msg \in SupMsg
    PROVE  pkt \notin Link(a, b)
<1>1. pkt \in GoodPackets /\ pkt.msg.type \in {"REQUEST", "REPLY", "RELEASE"}
        => pkt.msg \notin SupMsg
  BY PacketFields
<1>2. QED
  BY <1>1, PidFacts DEF Link, Request, Reply, Release, Assumptions

(* What the predicates on pairs depend on. *)
LEMMA ConsentSame ==
    ASSUME NEW n, NEW m, NEW st, NEW su, NEW rp, NEW rq, NEW ts, NEW tt,
           NEW t \in Nat, NEW u \in Nat, t <= u, Instants \subseteq Nat, NEW p, NEW q,
           Consent(n, st, rp, ts, t, p, q), SameLink(n, m, q, p),
           su[p] # "PS_IDLE" => st[p] # "PS_IDLE", su[q] # "PS_IDLE" => st[q] # "PS_IDLE",
           q \in rq[p] => q \in rp[p], tt[p] = ts[p], tt[q] = ts[q]
    PROVE  Consent(m, su, rq, tt, u, p, q)
<1>1. Answered(m, su, rq, p, q) => Answered(n, st, rp, p, q)
  BY DEF Answered, SameLink, Kept
<1>2. Past(ts[p], t) => Past(tt[p], u)
  BY PastLasts
<1>3. Older(tt, p, q) <=> Older(ts, p, q)
  BY DEF Older, Own
<1>4. QED
  BY <1>1, <1>2, <1>3 DEF Consent, SameLink, Kept

LEMMA ReleasedSame ==
    ASSUME NEW n, NEW m, NEW st, NEW su, NEW p, NEW q,
           ReleasedOnce(n, st, p, q), SameLink(n, m, p, q),
           su[p] # "PS_IDLE" => st[p] # "PS_IDLE"
    PROVE  ReleasedOnce(m, su, p, q)
BY DEF ReleasedOnce, SameLink, Kept

LEMMA ReleasingSame ==
    ASSUME NEW n, NEW m, NEW q, \A p \in Proc \ {q} : SameLink(n, m, p, q)
    PROVE  Releasing(m, q) = Releasing(n, q)
BY DEF Releasing, SameLink, Kept

LEMMA ReleasingFinite ==
    ASSUME Assumptions, NEW n, NEW q
    PROVE  /\ Releasing(n, q) \in SUBSET Proc /\ IsFiniteSet(Releasing(n, q))
           /\ Cardinality(Releasing(n, q)) \in Nat
BY ProcFinite DEF Releasing, Assumptions

LEMMA KnownSame ==
    ASSUME NEW n, NEW m, NEW st, NEW su, Competing(su) = Competing(st), NEW q,
           \A p \in Proc \ {q} : SameLink(n, m, p, q)
    PROVE  Known(m, su, q) = Known(n, st, q)
BY DEF Known, Competing, SameLink, Kept

LEMMA CompetingFacts ==
    ASSUME NEW n, NEW st, NEW q
    PROVE  /\ Competing(st) \in SUBSET Proc /\ Known(n, st, q) \in SUBSET Competing(st)
           /\ \A p \in Proc : p \in Competing(st) <=> st[p] # "PS_IDLE"
BY DEF Competing, Known

(* A step that sends nothing a peer would understand. *)
LEMMA OrderedUntouched ==
    ASSUME NEW ts, Assumptions, IInv, Ordered(ts),
           now' \in Nat, now <= now', UNCHANGED <<fsm_state, lamportVars>>,
           \A p \in Proc : NoneOf(net, Misdated(ts[p], p))
                               => NoneOf(net', Misdated(ts[p], p)),
           \A p \in Proc, q \in Proc : SameLink(net, net', p, q)
    PROVE  Ordered(ts)'
<1>1. now \in Nat /\ Instants \subseteq Nat /\ request_queue \in [Proc -> Seq(Entry)]
  BY BasicTypes DEF IInv, Assumptions, ClockAssumption
<1>3. ASSUME NEW p \in Proc, NEW q \in Proc \ {p}
      PROVE  /\ Consent(net', fsm_state, replies, ts, now', p, q)
             /\ ReleasedOnce(net', fsm_state, p, q)
  BY <1>1, ConsentSame, ReleasedSame DEF Ordered, Ordering
<1>4. \A q \in Proc : /\ Releasing(net', q) = Releasing(net, q)
                      /\ Known(net', fsm_state, q) = Known(net, fsm_state, q)
  BY ReleasingSame, KnownSame
<1>5. ASSUME NEW p \in Proc, fsm_state[p] = "PS_EXECUTING"
      PROVE  Oldest(net', fsm_state, ts, p)
  BY <1>4, <1>5 DEF Ordered, Ordering, Oldest
<1>6. ASSUME NEW q \in Proc
      PROVE  Queued(request_queue[q], Cardinality(Releasing(net, q)),
                    Known(net, fsm_state, q), Competing(fsm_state), ts, now', q)
  <2> DEFINE k == Cardinality(Releasing(net, q))
             known == Known(net, fsm_state, q)
             comp == Competing(fsm_state)
  <2>1. k \in Nat /\ known \in SUBSET Proc /\ request_queue[q] \in Seq(Entry) /\ comp \subseteq comp
    BY <1>1, ReleasingFinite, CompetingFacts
  <2>2. Queued(request_queue[q], k, known, comp, ts, now, q)
    BY DEF Ordered, Ordering
  <2> HIDE DEF k, known, comp
  <2>3. Queued(request_queue[q], k, known, comp, ts, now', q)
    BY <1>1, <2>1, <2>2, QueuedSame
  <2>4. QED
    BY <2>3 DEF k, known, comp
<1>7. \A p \in Proc : NoneOf(net', Misdated(ts[p], p))
  BY DEF Ordered, Ordering
<1>8. fsm_state' = fsm_state /\ request_queue' = request_queue /\ replies' = replies
  BY DEF lamportVars
<1>9. QED
  BY <1>3, <1>4, <1>5, <1>6, <1>7, <1>8 DEF Ordered, Ordering

LEMMA OrderedInit ==
    ASSUME Assumptions, Init, NEW ts PROVE Ordered(ts)
<1>1. \A T : NoneOf(net, T) /\ AtMostOneOf(net, T)
  BY NothingThere, NoneIsAtMostOne DEF Init
<1>2. \A T, U : InOrder(net, T, U)
  BY <1>1, NoneInOrder
<1>4. \A p \in Proc : fsm_state[p] = "PS_IDLE" /\ request_queue[p] = <<>>
  BY DEF Init, PeerInit
<1>5. \A q \in Proc : Releasing(net, q) = {} /\ Known(net, fsm_state, q) = {}
  BY <1>1, <1>4 DEF Releasing, Known, Competing
<1>6. ASSUME NEW q \in Proc
      PROVE  Queued(request_queue[q], Cardinality(Releasing(net, q)),
                    Known(net, fsm_state, q), Competing(fsm_state), ts, now, q)
  <2>1. Cardinality(Releasing(net, q)) = 0
    BY <1>5, FS_EmptySet
  <2>2. Len(<<>>) = 0 /\ 1 .. 0 = {} /\ 0 + 1 .. 0 = {} /\ 0 <= 0
    OBVIOUS
  <2>3. Queued(<<>>, 0, {}, Competing(fsm_state), ts, now, q)
    BY <2>2 DEF Queued
  <2>4. QED
    BY <1>4, <1>5, <2>1, <2>3
<1>7. ASSUME NEW p \in Proc, NEW q \in Proc \ {p}
      PROVE  /\ Consent(net, fsm_state, replies, ts, now, p, q)
             /\ ReleasedOnce(net, fsm_state, p, q)
  BY <1>1, <1>2, <1>4 DEF Consent, Answered, ReleasedOnce
<1>8. \A p \in Proc : fsm_state[p] = "PS_EXECUTING" => Oldest(net, fsm_state, ts, p)
  BY <1>4
<1>9. QED
  BY <1>1, <1>6, <1>7, <1>8 DEF Ordered, Ordering

LEMMA OrderedSendto ==
    ASSUME NEW ts, Assumptions, IInv, Ordered(ts),
           NEW n \in Node, sendto(n), UNCHANGED <<fsm_state, lamportVars, now>>
    PROVE  Ordered(ts)'
<1>1. \A T : Kept(net, net', T)
  BY GoodAddressed, SendtoKept DEF IInv, Basics
<1>2. now \in Nat /\ \A p \in Proc, q \in Proc : SameLink(net, net', p, q)
  BY BasicTypes, LinkSendto DEF IInv
<1>3. QED
  BY <1>1, <1>2, OrderedUntouched DEF Kept

(* Misdated requests are not among what the supervisor sends and gets. *)
LEMMA NotMisdated ==
    ASSUME Assumptions, NEW s, NEW p \in Proc, NEW pkt,
           \/ pkt.src = SUPERVISOR_PID \/ pkt.dst = SUPERVISOR_PID
           \/ pkt.msg \in SupMsg \/ pkt.msg.type # "REQUEST"
    PROVE  pkt \notin Misdated(s, p)
<1>1. pkt \in GoodPackets /\ pkt.msg.type = "REQUEST" => pkt.msg \notin SupMsg
  BY PacketFields
<1>2. pkt \in GoodPackets /\ pkt.msg \notin SupMsg => pkt.src \in Proc /\ pkt.dst \in Proc
  BY PacketFields
<1>3. QED
  BY <1>1, <1>2, PidFacts DEF Misdated, Assumptions

LEMMA OrderedSupervisor ==
    ASSUME NEW ts, Assumptions, IInv, Ordered(ts), SupervisorNext
    PROVE  Ordered(ts)'
<1>1. UNCHANGED <<fsm_state, lamportVars, now>>
  BY DEF SupervisorNext, peerVars, clockVars
<1>2. net \in Nets(GoodPackets) /\ Placed(net) /\ now \in Nat
  BY BasicTypes DEF IInv
<1>3. CASE SupNext
  <2>1. ASSUME NEW New \in SUBSET (FromSupervisor("SYNCRO") \cup FromSupervisor("WANT")),
               net' \in Nets(GoodPackets), Sent(net, net', New)
        PROVE  Ordered(ts)'
    <3>1. \A pkt \in New : pkt.src = SUPERVISOR_PID
      BY DEF FromSupervisor, Packet
    <3>2. \A p, q \in Proc : New \cap Link(p, q) = {}
      BY <3>1, NoLink
    <3>3. \A p \in Proc : New \cap Misdated(ts[p], p) = {}
      BY <3>1, NotMisdated
    <3>4. \A p \in Proc, q \in Proc : SameLink(net, net', p, q)
      BY <1>2, <2>1, <3>2, LinkSent
    <3>5. \A p \in Proc : NoneOf(net, Misdated(ts[p], p))
                              => NoneOf(net', Misdated(ts[p], p))
      BY <1>2, <2>1, <3>3, SentProperties
    <3>6. QED
      BY <1>1, <1>2, <3>4, <3>5, OrderedUntouched
  <2>2. ASSUME NEW slot \in Receivable(SUPERVISOR_PID), net' = dme_recv_msg(slot)
        PROVE  Ordered(ts)'
    <3>1. SUPERVISOR_PID \in Node /\ PacketAt(slot).dst = SUPERVISOR_PID
      BY <1>2, PidFacts, ReceivePlaced DEF Assumptions
    <3>2. \A p, q \in Proc : PacketAt(slot) \notin Link(p, q)
      BY <3>1, NoLink
    <3>3. \A p \in Proc, q \in Proc : SameLink(net, net', p, q)
      BY <1>2, <2>2, <3>1, <3>2, LinkReceived
    <3>4. \A T : NoneOf(net, T) => NoneOf(net', T)
      BY <1>2, <2>2, <3>1, ReceiveProperties
    <3>5. QED
      BY <1>1, <1>2, <3>3, <3>4, OrderedUntouched
  <2>3. QED
    BY <1>2, <1>3, <2>1, <2>2, SupPacketsGood, SupervisorEffect DEF Assumptions
<1>4. CASE sendto(SUPERVISOR_PID)
  BY <1>1, <1>4, PidFacts, OrderedSendto DEF Assumptions
<1>5. QED
  BY <1>3, <1>4 DEF SupervisorNext

(* Nothing comes up by receiving. *)
LEMMA Fewer ==
    ASSUME Assumptions, Basics, NEW p \in Proc, NEW slot \in Receivable(p), NEW T
    PROVE  NoneOf(net, T) => NoneOf(dme_recv_msg(slot), T)
BY PidFacts, BasicTypes, ReceiveProperties DEF Assumptions

LEMMA LinkLeft ==
    ASSUME Assumptions, Basics, NEW p \in Proc, NEW slot \in Receivable(p),
           NEW a, NEW b, PacketAt(slot) \notin Link(a, b)
    PROVE  SameLink(net, dme_recv_msg(slot), a, b)
BY PidFacts, BasicTypes, LinkReceived DEF Assumptions

LEMMA OrderedNoted ==
    ASSUME NEW ts, Assumptions, IInv, Ordered(ts),
           NEW p \in Proc, NEW slot \in Receivable(p),
           SupervisorMsgKept(p, slot), UNCHANGED lamportVars
    PROVE  Ordered(ts)'
<1>1. net' = dme_recv_msg(slot) /\ UNCHANGED <<fsm_state, now>> /\ PacketAt(slot).msg \in SupMsg
  BY DEF SupervisorMsgKept, SupervisorMsgNoted, SupervisorMsgAt, peerVars
<1>2. now \in Nat /\ Basics
  BY BasicTypes DEF IInv
<1>3. \A a \in Proc, b \in Proc : SameLink(net, net', a, b)
  BY <1>1, <1>2, NoLink, LinkLeft
<1>4. \A T : NoneOf(net, T) => NoneOf(net', T)
  BY <1>1, <1>2, Fewer
<1>5. QED
  BY <1>1, <1>2, <1>3, <1>4, OrderedUntouched

(* Who takes a stamp takes it from the epoch. *)
LEMMA StampOfEpoch ==
    ASSUME NEW p \in Proc, sup_syncro[p] = Reading(SyncroInstant), NEW t
    PROVE  Stamp(p, t) = EpochStamp(t)
BY DEF Stamp, EpochStamp

(* A message from a peer belongs to one link only. *)
LEMMA LinkTaken ==
    ASSUME Assumptions, Basics, NEW p \in Proc, NEW slot \in Receivable(p), PeerMsgAt(p, slot)
    PROVE  LET pkt == PacketAt(slot)
               q == pkt.msg.pid
           IN
           /\ q \in Proc \ {p} /\ q \in Node /\ pkt.src = q /\ pkt \in GoodPackets
           /\ \A a, b : pkt \in Link(a, b) => a = q /\ b = p
           /\ pkt.msg.type = "REQUEST" => pkt \in Request(q, p)
           /\ pkt.msg.type = "REPLY" => pkt \in Reply(q, p)
           /\ pkt.msg.type = "RELEASE" => pkt \in Release(q, p)
<1> DEFINE pkt == PacketAt(slot)
           q == pkt.msg.pid
<1>1. pkt \in GoodPackets
  BY MessageTaken
<1>2. q \in Proc \ {p} /\ pkt.src = q /\ pkt.dst = p /\ q \in Node
  BY PeerMessage, PidFacts DEF Assumptions
<1> HIDE DEF pkt, q
<1>3. /\ \A a, b : pkt \in Link(a, b) => a = q /\ b = p
      /\ pkt.msg.type = "REQUEST" => pkt \in Request(q, p)
      /\ pkt.msg.type = "REPLY" => pkt \in Reply(q, p)
      /\ pkt.msg.type = "RELEASE" => pkt \in Release(q, p)
  BY <1>1, <1>2 DEF Link, Request, Reply, Release
<1>4. QED
  BY <1>1, <1>2, <1>3 DEF pkt, q

-----------------------------------------------------------------------------
(* p asks: the new stamp is younger than all that others know of. *)
LEMMA OrderedWant ==
    ASSUME StampsIncrease, EpochKnown', Assumptions, IInv,
           NEW ts \in [Proc -> Timespec], Ordered(ts),
           NEW p \in Proc, NEW slot \in Receivable(p),
           NEW t \in StampInstants(now), process_ev_want_cr(p, slot, t),
           NEW e, e = EpochStamp(t)
    PROVE  /\ e \in Timespec
           /\ Ordered([ts EXCEPT ![p] = e])'
<1> DEFINE m == dme_recv_msg(slot)
           New == {Packet(p, d, REQUEST(p, t)) : d \in Proc \ {p}}
           tt == [ts EXCEPT ![p] = e]
           c == Competing(fsm_state)
<1>1. /\ p \in Node /\ m \in Nets(GoodPackets) /\ Placed(m) /\ Basics
      /\ Instants \subseteq Nat /\ t \in Instants /\ t \in Nat /\ now \in Nat /\ now <= t
  BY MessageTaken, BasicTypes, InstantFacts DEF IInv, Assumptions, ClockAssumption
<1>2. /\ fsm_state[p] = "PS_IDLE" /\ PacketAt(slot).msg \in SupMsg
      /\ fsm_state' = [fsm_state EXCEPT ![p] = "PS_PENDING"]
      /\ replies' = [replies EXCEPT ![p] = {}]
      /\ request_queue' =
            [request_queue EXCEPT ![p] = request_queue_insert(@, Element(REQUEST(p, t)))]
      /\ net' = dme_broadcast_msg(m, p, REQUEST(p, t))
      /\ StampTaken(t)
  BY DEF process_ev_want_cr, IsWant, SupervisorMsgAt
<1>3. /\ fsm_state \in [Proc -> State] /\ replies \in [Proc -> SUBSET Proc]
      /\ request_queue \in [Proc -> Seq(Entry)] /\ sup_syncro \in [Proc -> Timespec]
  BY <1>1, BasicTypes DEF ClockTypeOK
<1>4. now' \in Nat /\ now <= now' /\ UNCHANGED sup_syncro
  BY <1>1, <1>2 DEF StampTaken
<1>5. Stamp(p, t) = e
  <2>1. fsm_state'[p] # "PS_IDLE"
    BY <1>2, <1>3
  <2>2. sup_syncro[p] = Reading(SyncroInstant)
    BY <1>4, <2>1 DEF EpochKnown
  <2>3. QED
    BY <2>2, StampOfEpoch
<1>6. e \in Timespec
  BY <1>1, <1>3, <1>5, StampType
<1>7. net' \in Nets(GoodPackets) /\ Sent(m, net', New)
  <2> HIDE DEF m
  <2>1. \A d \in Proc \ {p} : Packet(p, d, REQUEST(p, t)) \in GoodPackets
    BY <1>1, RequestsGood
  <2>2. QED
    BY <1>1, <1>2, <2>1, OthersTold DEF Assumptions
<1>8. \A pkt \in New : /\ pkt.src = p /\ pkt.msg.type = "REQUEST"
                       /\ pkt.msg.at = t /\ pkt.msg.ts = e
                       /\ pkt = Packet(p, pkt.dst, REQUEST(p, t))
  BY <1>5 DEF Packet, REQUEST
<1>9. \A b \in Proc \ {p} : \E pkt \in New : pkt \in Request(p, b)
  <2>1. ASSUME NEW b \in Proc \ {p} PROVE Packet(p, b, REQUEST(p, t)) \in Request(p, b)
    BY <1>1, RequestsGood DEF Request, Packet, REQUEST
  <2>2. QED
    BY <2>1
<1>10. \A a \in Proc, b \in Proc : SameLink(net, m, a, b)
  BY <1>1, <1>2, NoLink, LinkLeft
<1>11. \A T : NoneOf(net, T) => NoneOf(m, T)
  BY <1>1, Fewer
<1>12. Element(REQUEST(p, t)) = Own(tt, p)
  BY <1>1, <1>5, RequestsGood DEF Own
<1>13. tt \in [Proc -> Timespec] /\ tt[p] = e /\ \A a \in Proc \ {p} : tt[a] = ts[a]
  BY <1>6
<1> HIDE DEF m, New, tt
<1>14. /\ fsm_state'[p] = "PS_PENDING" /\ replies'[p] = {}
       /\ request_queue'[p] = request_queue_insert(request_queue[p], Own(tt, p))
       /\ \A a \in Proc \ {p} : /\ fsm_state'[a] = fsm_state[a]
                                /\ replies'[a] = replies[a]
                                /\ request_queue'[a] = request_queue[a]
  BY <1>2, <1>3, <1>12
<1>15. ASSUME NEW a \in Proc \ {p}, NEW b \in Proc PROVE SameLink(net, net', a, b)
  <2>1. New \cap Link(a, b) = {}
    BY <1>8 DEF Link, Request, Reply, Release
  <2>2. SameLink(m, net', a, b)
    BY <1>1, <1>7, <2>1, LinkSent
  <2>3. QED
    BY <1>10, <2>2, LinkTwice
<1>16. ASSUME NEW b \in Proc \ {p}
       PROVE  /\ Kept(net, net', Reply(p, b)) /\ Kept(net, net', Release(p, b))
              /\ InOrder(net, Release(p, b), Request(p, b))
                    => InOrder(net', Release(p, b), Request(p, b))
              /\ NoneOf(net, Reply(p, b)) => InOrder(net', Request(p, b), Reply(p, b))
              /\ ~NoneOf(net', Request(p, b))
  <2>1. New \cap Reply(p, b) = {} /\ New \cap Release(p, b) = {}
    BY <1>8 DEF Reply, Release
  <2>2. Kept(m, net', Reply(p, b)) /\ Kept(m, net', Release(p, b))
    BY <1>1, <1>7, <2>1, SentKept
  <2>3. Kept(net, net', Reply(p, b)) /\ Kept(net, net', Release(p, b))
    BY <1>10, <2>2 DEF SameLink, Kept
  <2>4. InOrder(net, Release(p, b), Request(p, b)) => InOrder(net', Release(p, b), Request(p, b))
    BY <1>1, <1>7, <1>10, <2>1, LinkFacts, SentInOrder DEF SameLink
  <2>5. NoneOf(net, Reply(p, b)) => InOrder(net', Request(p, b), Reply(p, b))
    BY <2>3, NoneInOrder DEF Kept
  <2>6. ~NoneOf(net', Request(p, b))
    <3>1. New \cap Request(p, b) # {}
      BY <1>9
    <3>2. QED
      BY <1>1, <1>7, <3>1, SentProperties
  <2>7. QED
    BY <2>3, <2>4, <2>5, <2>6
<1>17. \A b \in Proc \ {p} : NoneOf(net, Asking(p, b))
  BY <1>2 DEF IInv, AllAskedOnce, AskedOnce
<1>18. \A a \in Proc \ {p} : Past(ts[a], now) => Older(tt, a, p)
  <2>1. ASSUME NEW a \in Proc \ {p}, Past(ts[a], now) PROVE Older(tt, a, p)
    <3>1. Own(tt, a).ts = ts[a] /\ Own(tt, p).ts = EpochStamp(t)
      BY <1>13 DEF Own
    <3>2. QED
      BY <1>1, <2>1, <3>1, PastIsOlder DEF Older
  <2>2. QED
    BY <2>1
<1>19. \A a : Past(a.ts, now) => Precedes(a, Own(tt, p))
  <2>1. Own(tt, p).ts = EpochStamp(t)
    BY <1>13 DEF Own
  <2>2. QED
    BY <1>1, <2>1, PastIsOlder
<1>20. ASSUME NEW a \in Proc PROVE NoneOf(net', Misdated(tt[a], a))
  <2>1. \A T : New \cap T = {} /\ NoneOf(net, T) => NoneOf(net', T)
    BY <1>1, <1>7, <1>11, SentProperties
  <2>2. CASE a = p
    <3> DEFINE T == Misdated(e, p)
    <3>1. New \cap T = {}
      BY <1>1, <1>8 DEF Misdated
    <3>2. NoneOf(net, T)
      <4>1. ASSUME NEW pkt \in T PROVE \E b \in Proc \ {p} : pkt \in Asking(p, b)
        <5>1. pkt \in GoodPackets /\ pkt.msg.type = "REQUEST" /\ pkt.src = p
          BY DEF Misdated
        <5>2. pkt.dst \in Proc \ {p}
          BY <5>1, PacketFields
        <5>3. QED
          BY <5>1, <5>2 DEF Asking, Request
      <4> HIDE DEF T
      <4>2. QED
        BY <1>17, <4>1 DEF NoneOf
    <3> HIDE DEF T
    <3>3. NoneOf(net', T)
      BY <2>1, <3>1, <3>2
    <3>4. QED
      BY <1>13, <2>2, <3>3 DEF T
  <2>3. CASE a # p
    <3>1. New \cap Misdated(ts[a], a) = {}
      BY <1>8, <2>3 DEF Misdated
    <3>2. QED
      BY <1>13, <2>1, <2>3, <3>1 DEF Ordered, Ordering
  <2>4. QED
    BY <2>2, <2>3
<1> DEFINE n == net'
           st == fsm_state'
           rp == replies'
           then == now'
<1>21. then \in Nat /\ now <= then
  BY <1>4
<1>22. ASSUME NEW a \in Proc, NEW b \in Proc \ {a} PROVE Consent(n, st, rp, tt, then, a, b)
  <2>1. Consent(net, fsm_state, replies, ts, now, a, b)
    BY DEF Ordered, Ordering
  <2>2. CASE a = p
    <3>1. NoneOf(net, Reply(b, a))
      BY <1>17, <2>2 DEF Asking, NoneOf
    <3>2. NoneOf(n, Reply(b, a))
      BY <1>15, <2>2, <3>1 DEF SameLink, Kept
    <3>3. ~Answered(n, st, rp, a, b)
      BY <1>14, <2>2, <3>2 DEF Answered
    <3>4. QED
      BY <3>3 DEF Consent
  <2>3. CASE b = p
    <3>1. Kept(net, n, Reply(p, a)) /\ a \in Proc \ {p}
      BY <1>16, <2>3
    <3>2. Answered(n, st, rp, a, b) => Answered(net, fsm_state, replies, a, b)
      BY <1>14, <2>3, <3>1 DEF Answered, Kept
    <3>3. Answered(n, st, rp, a, b) => Past(ts[a], now) /\ Past(ts[a], then)
      <4> HIDE DEF then
      <4>1. QED
        BY <1>1, <1>21, <2>1, <3>2, PastLasts DEF Consent
    <3>4. Answered(n, st, rp, a, b) => Past(tt[a], then) /\ Older(tt, a, b)
      BY <1>13, <1>18, <2>3, <3>1, <3>3
    <3>5. QED
      BY <3>4 DEF Consent
  <2>4. CASE a # p /\ b # p
    <3>1. /\ st[a] = fsm_state[a] /\ st[b] = fsm_state[b] /\ rp[a] = replies[a]
          /\ tt[a] = ts[a] /\ tt[b] = ts[b] /\ SameLink(net, n, b, a)
      BY <1>13, <1>14, <1>15, <2>4
    <3> HIDE DEF n, st, rp, then
    <3>2. QED
      BY <1>1, <1>21, <2>1, <3>1, ConsentSame
  <2>5. QED
    BY <2>2, <2>3, <2>4
<1>23. ASSUME NEW a \in Proc, NEW b \in Proc \ {a} PROVE ReleasedOnce(n, st, a, b)
  <2>1. ReleasedOnce(net, fsm_state, a, b)
    BY DEF Ordered, Ordering
  <2>2. CASE a = p
    BY <1>16, <2>1, <2>2 DEF ReleasedOnce, Kept
  <2>3. CASE a # p
    <3>1. st[a] = fsm_state[a] /\ SameLink(net, n, a, b)
      BY <1>14, <1>15, <2>3
    <3> HIDE DEF n, st
    <3>2. QED
      BY <2>1, <3>1, ReleasedSame
  <2>4. QED
    BY <2>2, <2>3
<1>24. \A q \in Proc : Releasing(n, q) = Releasing(net, q)
  <2>1. \A a \in Proc, q \in Proc : a # q => Kept(net, n, Release(a, q))
    BY <1>15, <1>16 DEF SameLink
  <2>2. QED
    BY <2>1 DEF Releasing, Kept
<1>25. Competing(st) = c \cup {p} /\ p \in Proc \ c
  BY <1>2, <1>14 DEF Competing
<1>26. ASSUME NEW q \in Proc
       PROVE  Known(n, st, q) = Known(net, fsm_state, q) \cup (IF q = p THEN {p} ELSE {})
  <2>1. \A a \in Proc \ {p} : NoneOf(n, Request(a, q)) <=> NoneOf(net, Request(a, q))
    BY <1>15 DEF SameLink, Kept
  <2>2. q # p => ~NoneOf(n, Request(p, q))
    BY <1>16
  <2>3. \A a \in Proc \ {p} : a \in Known(n, st, q) <=> a \in Known(net, fsm_state, q)
    BY <1>25, <2>1 DEF Known
  <2>4. p \notin Known(net, fsm_state, q) /\ (p \in Known(n, st, q) <=> p = q)
    BY <1>25, <2>2 DEF Known
  <2>5. Known(n, st, q) \subseteq Proc /\ Known(net, fsm_state, q) \subseteq Proc
    BY DEF Known, Competing
  <2> HIDE DEF n, st
  <2>6. QED
    BY <2>3, <2>4, <2>5
<1>27. ASSUME NEW a \in Proc, st[a] = "PS_EXECUTING" PROVE Oldest(n, st, tt, a)
  <2>1. a \in Proc \ {p} /\ fsm_state[a] = "PS_EXECUTING"
    BY <1>14, <1>27
  <2>2. Oldest(net, fsm_state, ts, a)
    BY <2>1 DEF Ordered, Ordering
  <2>3. Older(tt, a, p)
    <3>1. p \in replies[a]
      BY <2>1 DEF IInv, AllAskedOnce, AskedOnce
    <3>2. Consent(net, fsm_state, replies, ts, now, a, p)
      BY <2>1 DEF Ordered, Ordering
    <3>3. Past(ts[a], now)
      BY <2>1, <3>1, <3>2 DEF Consent, Answered
    <3>4. QED
      BY <1>18, <2>1, <3>3
  <2>4. \A q \in c \ {a} : Older(tt, a, q)
    <3>1. \A q \in c : Own(tt, q) = Own(ts, q)
      BY <1>13, <1>25 DEF Own, Competing
    <3>2. a \in c
      BY <2>1 DEF Competing
    <3>3. QED
      BY <2>2, <3>1, <3>2 DEF Oldest, Older
  <2>5. QED
    BY <1>24, <1>25, <2>2, <2>3, <2>4 DEF Oldest
<1>28. ASSUME NEW q \in Proc
       PROVE  Queued(request_queue'[q], Cardinality(Releasing(n, q)),
                     Known(n, st, q), Competing(st), tt, then, q)
  <2> DEFINE s == request_queue[q]
             k == Cardinality(Releasing(net, q))
             known == Known(net, fsm_state, q)
  <2>1. k \in Nat /\ c \in SUBSET Proc /\ known \in SUBSET c /\ s \in Seq(Entry)
    BY <1>3, ReleasingFinite, CompetingFacts
  <2>2. Queued(s, k, known, c, ts, now, q)
    BY DEF Ordered, Ordering
  <2> HIDE DEF k, known, s, c, then, n, st
  <2>3. Queued(s, k, known, c \cup {p}, tt, then, q)
    BY <1>1, <1>13, <1>19, <1>21, <1>25, <2>1, <2>2, QueuedNewcomer
  <2>4. CASE q = p
    <3>1. Queued(request_queue_insert(s, Own(tt, p)), k, known \cup {p}, c \cup {p}, tt, then, q)
      <4>1. c \cup {p} \in SUBSET Proc /\ known \in SUBSET (c \cup {p}) /\ p \in (c \cup {p}) \ known
        BY <1>25, <2>1
      <4>2. QED
        BY <1>13, <2>1, <2>3, <4>1, QueuedInserted
    <3>2. request_queue'[q] = request_queue_insert(s, Own(tt, p))
      BY <1>14, <2>4 DEF s
    <3>3. QED
      BY <1>24, <1>25, <1>26, <2>4, <3>1, <3>2 DEF k, known
  <2>5. CASE q # p
    BY <1>14, <1>24, <1>25, <1>26, <2>3, <2>5 DEF k, known, s
  <2>6. QED
    BY <2>4, <2>5
<1> HIDE DEF c
<1>30. Ordered(tt)'
  <2>1. tt' = tt
    BY DEF tt
  <2>2. QED
    BY <1>20, <1>22, <1>23, <1>27, <1>28 DEF Ordered, Ordering
<1>31. QED
  BY <1>6, <1>30 DEF tt

(***************************************************************************)
(* p takes the request of q and replies: only the links between the two    *)
(* change.                                                                 *)
(***************************************************************************)
LEMMA OrderedRequest ==
    ASSUME Net # "udp", Assumptions, IInv,
           NEW ts \in [Proc -> Timespec], Ordered(ts),
           NEW p \in Proc, NEW slot \in Receivable(p), RequestReceived(p, slot)
    PROVE  Ordered(ts)'
<1> DEFINE m == dme_recv_msg(slot)
           pkt == PacketAt(slot)
           q == pkt.msg.pid
           reply == Packet(p, q, REPLY(p))
<1>1. /\ p \in Node /\ m \in Nets(GoodPackets) /\ Placed(m) /\ Basics
      /\ now \in Nat /\ Instants \subseteq Nat
      /\ net \in Nets(GoodPackets) /\ Placed(net)
      /\ request_queue \in [Proc -> Seq(Entry)]
  BY MessageTaken, BasicTypes DEF IInv, Assumptions, ClockAssumption
<1>2. /\ q \in Proc \ {p} /\ q \in Node /\ pkt.src = q /\ pkt \in GoodPackets
      /\ pkt.msg.type = "REQUEST" /\ pkt \in Request(q, p)
      /\ \A a, b : pkt \in Link(a, b) => a = q /\ b = p
  BY <1>1, LinkTaken DEF RequestReceived
<1>3. NoneOf(m, Asking(q, p)) /\ fsm_state[q] = "PS_PENDING" /\ p \notin replies[q]
  <2>1. pkt \in Asking(q, p)
    BY <1>2 DEF Asking
  <2>2. QED
    BY <1>2, <2>1, AskingTaken
<1>4. /\ pkt.msg.at \in Instants
      /\ pkt.msg.ts = EpochStamp(pkt.msg.at) /\ pkt.msg.ts = ts[q]
  <2>1. NoneOf(net, Misdated(ts[q], q))
    BY <1>2 DEF Ordered, Ordering
  <2>2. pkt \notin Misdated(ts[q], q)
    BY <1>1, <2>1, ReceivePlaced
  <2> HIDE DEF pkt, q
  <2>3. QED
    BY <1>2, <2>2 DEF Misdated
<1>5. Element(pkt.msg) = Own(ts, q)
  BY <1>4 DEF Element, Own
<1>6. /\ request_queue' =
            [request_queue EXCEPT ![p] = request_queue_insert(@, Element(pkt.msg))]
      /\ net' = dme_send_msg(m, p, q, REPLY(p))
      /\ now' = ArrivalTime(pkt.msg)
      /\ UNCHANGED <<fsm_state, replies>>
  BY DEF RequestReceived, peerVars, RequestArrives
<1>7. reply \in GoodPackets
  BY <1>2, ReplyGood
<1>8. /\ \A a, b : reply \in Link(a, b) => a = p /\ b = q
      /\ reply \notin Request(p, q) /\ reply \notin Release(p, q)
      /\ \A s, a : reply \notin Misdated(s, a)
  BY DEF Misdated, Link, Request, Reply, Release, Packet, REPLY
<1>9. NoneOf(m, Request(q, p)) /\ NoneOf(m, Reply(p, q)) /\ ~NoneOf(net, Request(q, p))
  BY <1>1, <1>2, <1>3, ReceivePlaced DEF Asking, NoneOf
<1>10. \A a, b : ~(a = q /\ b = p) => SameLink(net, m, a, b)
  BY <1>1, <1>2, LinkLeft
<1>11. \A T : NoneOf(net, T) => NoneOf(m, T)
  BY <1>1, Fewer
<1>12. /\ Kept(net, m, Reply(q, p)) /\ Kept(net, m, Release(q, p))
       /\ NoneOf(net, Release(q, p)) \/ ~InOrder(net, Release(q, p), Request(q, p))
       /\ InOrder(net, Request(q, p), Reply(q, p)) => InOrder(m, Request(q, p), Reply(q, p))
  <2>1. pkt \notin Reply(q, p) /\ pkt \notin Release(q, p)
    BY <1>2 DEF Reply, Release
  <2>2. QED
    BY <1>1, <1>2, <2>1, ReceiveKept, ReceiveInOrder
<1> HIDE DEF m, pkt, q
<1>13. net' \in Nets(GoodPackets) /\ Sent(m, net', {reply})
  BY <1>1, <1>2, <1>6, <1>7, OneTold DEF reply
<1> HIDE DEF reply
<1>14. \A a, b : ~(a = p /\ b = q) => SameLink(m, net', a, b)
  <2>1. ASSUME NEW a, NEW b, ~(a = p /\ b = q) PROVE SameLink(m, net', a, b)
    <3>1. {reply} \cap Link(a, b) = {}
      BY <1>8, <2>1
    <3>2. QED
      BY <1>1, <1>13, <3>1, LinkSent
  <2>2. QED
    BY <2>1
<1>15. /\ Kept(m, net', Request(p, q)) /\ Kept(m, net', Release(p, q))
       /\ InOrder(m, Release(p, q), Request(p, q)) => InOrder(net', Release(p, q), Request(p, q))
       /\ InOrder(net', Request(p, q), Reply(p, q))
  <2>1. {reply} \cap Request(p, q) = {} /\ {reply} \cap Release(p, q) = {}
    BY <1>8
  <2>2. InOrder(m, Request(p, q), Reply(p, q))
    BY <1>9, NoneInOrder
  <2>3. Kept(m, net', Request(p, q)) /\ Kept(m, net', Release(p, q))
    BY <1>1, <1>13, <2>1, SentKept
  <2>4. InOrder(m, Release(p, q), Request(p, q)) => InOrder(net', Release(p, q), Request(p, q))
    BY <1>1, <1>13, <2>1, LinkFacts, SentInOrder
  <2>5. InOrder(net', Request(p, q), Reply(p, q))
    BY <1>1, <1>13, <2>1, <2>2, LinkFacts, SentInOrder
  <2>6. QED
    BY <2>3, <2>4, <2>5
<1>16. \A a, b : ~(a = q /\ b = p) /\ ~(a = p /\ b = q) => SameLink(net, net', a, b)
  BY <1>10, <1>14, LinkTwice
<1>17. SameLink(net, m, p, q) /\ SameLink(m, net', q, p)
  BY <1>2, <1>10, <1>14
<1>18. \A a, b : Kept(net, net', Release(a, b))
  <2>1. Kept(net, net', Release(p, q))
    BY <1>15, <1>17 DEF SameLink, Kept
  <2>2. Kept(net, net', Release(q, p))
    BY <1>12, <1>17 DEF SameLink, Kept
  <2>3. QED
    BY <1>16, <2>1, <2>2 DEF SameLink
<1>19. \A a, b : ~(a = q /\ b = p) => Kept(net, net', Request(a, b))
  <2>1. Kept(net, net', Request(p, q))
    BY <1>15, <1>17 DEF SameLink, Kept
  <2>2. QED
    BY <1>16, <2>1 DEF SameLink
<1>20. NoneOf(net', Request(q, p))
  BY <1>9, <1>17 DEF SameLink, Kept
<1>21. /\ now' \in Nat /\ now <= now' /\ Past(ts[q], now')
  <2>1. pkt.msg.at \in Nat
    BY <1>1, <1>4
  <2>2. now' \in Nat /\ now <= now' /\ pkt.msg.at < now'
    BY <1>1, <1>6, <2>1 DEF ArrivalTime, LargerOf
  <2>3. QED
    BY <1>4, <2>2 DEF Past
<1> DEFINE n == net'
           t == now'
<1>22. ASSUME NEW a \in Proc PROVE NoneOf(n, Misdated(ts[a], a))
  <2>1. NoneOf(m, Misdated(ts[a], a))
    BY <1>11 DEF Ordered, Ordering
  <2>2. {reply} \cap Misdated(ts[a], a) = {}
    BY <1>8
  <2>3. QED
    BY <1>1, <1>13, <2>1, <2>2, SentProperties
<1>23. ASSUME NEW a \in Proc, NEW b \in Proc \ {a}
       PROVE  Consent(n, fsm_state, replies, ts, t, a, b)
  <2>1. Consent(net, fsm_state, replies, ts, now, a, b)
    BY DEF Ordered, Ordering
  <2>2. Past(ts[a], now) => Past(ts[a], t)
    <3> HIDE DEF t
    <3>1. t \in Nat /\ now <= t
      BY <1>21 DEF t
    <3>2. QED
      BY <1>1, <3>1, PastLasts
  <2>3. CASE a = p /\ b = q
    <3>1. Answered(n, fsm_state, replies, p, q) => Answered(net, fsm_state, replies, p, q)
      BY <1>12, <1>17 DEF Answered, SameLink, Kept
    <3>2. InOrder(net, Request(q, p), Reply(q, p)) => InOrder(n, Request(q, p), Reply(q, p))
      BY <1>12, <1>17 DEF SameLink
    <3>3. QED
      BY <1>20, <2>1, <2>2, <2>3, <3>1, <3>2 DEF Consent
  <2>4. CASE a = q /\ b = p
    BY <1>3, <1>15, <1>21, <2>4 DEF Consent
  <2>5. CASE ~(a = p /\ b = q) /\ ~(a = q /\ b = p)
    <3>1. SameLink(net, n, b, a)
      BY <1>16, <2>5
    <3>2. t \in Nat /\ now <= t
      BY <1>21
    <3> HIDE DEF n, t
    <3>3. QED
      BY <1>1, <2>1, <3>1, <3>2, ConsentSame
  <2>6. QED
    BY <2>3, <2>4, <2>5
<1>24. ASSUME NEW a \in Proc, NEW b \in Proc \ {a} PROVE ReleasedOnce(n, fsm_state, a, b)
  <2>1. ReleasedOnce(net, fsm_state, a, b)
    BY DEF Ordered, Ordering
  <2>2. CASE a = q /\ b = p
    <3>1. NoneOf(net, Release(q, p))
      BY <1>12, <2>1, <2>2 DEF ReleasedOnce
    <3>2. NoneOf(n, Release(q, p))
      BY <1>18, <3>1 DEF Kept
    <3>3. QED
      BY <2>2, <3>2, NoneInOrder, NoneIsAtMostOne DEF ReleasedOnce
  <2>3. CASE a = p /\ b = q
    <3>1. Kept(net, n, Request(p, q)) /\ Kept(net, n, Release(p, q))
      BY <1>2, <1>18, <1>19
    <3>2. InOrder(net, Release(p, q), Request(p, q)) => InOrder(n, Release(p, q), Request(p, q))
      BY <1>15, <1>17 DEF SameLink
    <3>3. QED
      BY <2>1, <2>3, <3>1, <3>2 DEF ReleasedOnce, Kept
  <2>4. CASE ~(a = p /\ b = q) /\ ~(a = q /\ b = p)
    <3>1. SameLink(net, n, a, b)
      BY <1>16, <2>4
    <3> HIDE DEF n
    <3>2. QED
      BY <2>1, <3>1, ReleasedSame
  <2>5. QED
    BY <2>2, <2>3, <2>4
<1>25. \A b : Releasing(n, b) = Releasing(net, b)
  BY <1>18 DEF Releasing, Kept
<1>26. \A a \in Proc : fsm_state[a] = "PS_EXECUTING" => Oldest(n, fsm_state, ts, a)
  BY <1>25 DEF Ordered, Ordering, Oldest
<1>27. ASSUME NEW b \in Proc \ {p} PROVE Known(n, fsm_state, b) = Known(net, fsm_state, b)
  BY <1>19 DEF Known, Kept
<1>28. Known(n, fsm_state, p) = Known(net, fsm_state, p) \cup {q}
  <2>1. q \in Competing(fsm_state)
    BY <1>2, <1>3 DEF Competing
  <2>2. \A a : a # q => (NoneOf(n, Request(a, p)) <=> NoneOf(net, Request(a, p)))
    BY <1>19 DEF Kept
  <2>3. QED
    BY <1>20, <2>1, <2>2 DEF Known
<1>29. q \in Competing(fsm_state) \ Known(net, fsm_state, p)
  BY <1>2, <1>3, <1>9 DEF Known, Competing
<1>30. ASSUME NEW b \in Proc
       PROVE  Queued(request_queue'[b], Cardinality(Releasing(n, b)),
                     Known(n, fsm_state, b), Competing(fsm_state), ts, t, b)
  <2> DEFINE s == request_queue[b]
             k == Cardinality(Releasing(net, b))
             known == Known(net, fsm_state, b)
             comp == Competing(fsm_state)
  <2>1. k \in Nat /\ comp \in SUBSET Proc /\ known \in SUBSET comp /\ s \in Seq(Entry)
    BY <1>1, ReleasingFinite, CompetingFacts
  <2>2. Queued(s, k, known, comp, ts, now, b)
    BY DEF Ordered, Ordering
  <2>3. t \in Nat /\ now <= t
    BY <1>21
  <2>4. b = p => q \in comp \ known
    BY <1>29
  <2>5. /\ request_queue'[b] = IF b = p THEN request_queue_insert(s, Own(ts, q)) ELSE s
        /\ Cardinality(Releasing(n, b)) = k
        /\ Known(n, fsm_state, b) = IF b = p THEN known \cup {q} ELSE known
    BY <1>1, <1>5, <1>6, <1>25, <1>27, <1>28
  <2> DEFINE s2 == request_queue'[b]
             k2 == Cardinality(Releasing(n, b))
             known2 == Known(n, fsm_state, b)
  <2> HIDE DEF s, k, known, comp, t, n, s2, k2, known2
  <2>6. Queued(s, k, known, comp, ts, t, b)
    <3>1. known \in SUBSET Proc /\ comp \subseteq comp
      BY <2>1
    <3>2. QED
      BY <1>1, <2>1, <2>2, <2>3, <3>1, QueuedSame
  <2>7. b = p => Queued(request_queue_insert(s, Own(ts, q)), k, known \cup {q}, comp, ts, t, b)
    BY <2>1, <2>4, <2>6, QueuedInserted
  <2>8. Queued(s2, k2, known2, comp, ts, t, b)
    BY <2>5, <2>6, <2>7 DEF s2, k2, known2
  <2>9. QED
    BY <2>8 DEF s2, k2, known2, comp
<1>32. fsm_state' = fsm_state /\ replies' = replies
  BY <1>6
<1>33. QED
  BY <1>22, <1>23, <1>24, <1>26, <1>30, <1>32 DEF Ordered, Ordering

(* Entering tells the supervisor only. *)
LEMMA OnTurnTold ==
    ASSUME Assumptions, Basics, NEW p \in Proc, NEW slot \in Receivable(p),
           NEW q, NEW r, EnterOnTurn(p, slot, q, r)
    PROVE  LET m == dme_recv_msg(slot) IN
           /\ \A a, b \in Proc : SameLink(m, net', a, b)
           /\ \A s : \A a \in Proc : NoneOf(m, Misdated(s, a))
                                         => NoneOf(net', Misdated(s, a))
<1> DEFINE m == dme_recv_msg(slot)
           told == Packet(p, SUPERVISOR_PID, [type |-> "ENTERED"])
<1>1. p \in Node /\ m \in Nets(GoodPackets) /\ Placed(m)
  BY MessageTaken
<1>2. IF fsm_state[p] = "PS_PENDING" /\ my_turn(p, q, r)
      THEN process_ev_entered_cr(p, fsm_state[p], m)
      ELSE net' = m
  BY DEF EnterOnTurn
<1> HIDE DEF m
<1>3. CASE fsm_state[p] = "PS_PENDING" /\ my_turn(p, q, r)
  <2>1. net' = dme_send_msg(m, p, SUPERVISOR_PID, [type |-> "ENTERED"])
    BY <1>2, <1>3 DEF process_ev_entered_cr
  <2>2. net' \in Nets(GoodPackets) /\ Sent(m, net', {told})
    BY <1>1, <2>1, SupPacketsGood, SupervisorTold DEF Assumptions
  <2>3. told.dst = SUPERVISOR_PID
    BY DEF Packet
  <2> HIDE DEF told
  <2>4. \A a, b \in Proc : {told} \cap Link(a, b) = {}
    BY <2>3, NoLink
  <2>5. \A a, b \in Proc : SameLink(m, net', a, b)
    BY <1>1, <2>2, <2>4, LinkSent
  <2>6. \A s : \A a \in Proc : {told} \cap Misdated(s, a) = {}
    BY <2>3, NotMisdated
  <2>7. \A s : \A a \in Proc : NoneOf(m, Misdated(s, a))
                                   => NoneOf(net', Misdated(s, a))
    BY <1>1, <2>2, <2>6, SentProperties
  <2>8. QED
    BY <2>5, <2>7 DEF m
<1>4. CASE ~(fsm_state[p] = "PS_PENDING" /\ my_turn(p, q, r))
  BY <1>2, <1>4 DEF SameLink, Kept, m
<1>5. QED
  BY <1>3, <1>4

(***************************************************************************)
(* The end of a handler: p enters if it has every reply and its request is *)
(* the head of its queue.  Then there is no released entry in front, and   *)
(* each other that competes has its request in the queue, or has consented *)
(* to be younger.                                                          *)
(***************************************************************************)
LEMMA OrderedTurn ==
    ASSUME Assumptions, Basics, NEW ts \in [Proc -> Timespec],
           NEW p \in Proc, NEW slot \in Receivable(p), UNCHANGED now,
           request_queue' \in [Proc -> Seq(Entry)],
           Ordering(dme_recv_msg(slot), fsm_state, replies', request_queue', ts, now),
           EnterOnTurn(p, slot, request_queue'[p], replies'[p])
    PROVE  Ordered(ts)'
<1> DEFINE m == dme_recv_msg(slot)
           n == net'
           st == fsm_state
           su == fsm_state'
           rp == replies'
           rq == request_queue'
<1>1. /\ \A a, b \in Proc : SameLink(m, n, a, b)
      /\ \A s : \A a \in Proc : NoneOf(m, Misdated(s, a))
                                    => NoneOf(n, Misdated(s, a))
  BY OnTurnTold
<1>2. /\ \A a \in Proc \ {p} : su[a] = st[a]
      /\ \/ su[p] = st[p]
         \/ /\ st[p] = "PS_PENDING" /\ su[p] = "PS_EXECUTING"
            /\ my_turn(p, rq[p], rp[p])
  BY OnTurnKept
<1>3. Ordering(m, st, rp, rq, ts, now)
  OBVIOUS
<1>4. now \in Nat /\ Instants \subseteq Nat
  BY BasicTypes DEF Assumptions, ClockAssumption
<1> HIDE DEF m, n, st, su, rp, rq
<1>5. Competing(su) = Competing(st)
  <2>1. \A a \in Proc : su[a] # "PS_IDLE" <=> st[a] # "PS_IDLE"
    BY <1>2
  <2>2. QED
    BY <2>1 DEF Competing
<1>6. ASSUME NEW a \in Proc, NEW b \in Proc \ {a}
      PROVE  Consent(n, su, rp, ts, now, a, b) /\ ReleasedOnce(n, su, a, b)
  <2>1. Consent(m, st, rp, ts, now, a, b) /\ ReleasedOnce(m, st, a, b)
    BY <1>3 DEF Ordering
  <2>2. \A c \in Proc : su[c] # "PS_IDLE" => st[c] # "PS_IDLE"
    BY <1>2
  <2>3. SameLink(m, n, b, a) /\ SameLink(m, n, a, b)
    BY <1>1
  <2>4. now <= now
    BY <1>4
  <2>5. Consent(n, su, rp, ts, now, a, b)
    BY <1>4, <2>1, <2>2, <2>3, <2>4, ConsentSame
  <2>6. ReleasedOnce(n, su, a, b)
    BY <2>1, <2>2, <2>3, ReleasedSame
  <2>7. QED
    BY <2>5, <2>6
<1>7. \A b \in Proc : Releasing(n, b) = Releasing(m, b) /\ Known(n, su, b) = Known(m, st, b)
  BY <1>1, <1>5, ReleasingSame, KnownSame
<1>8. ASSUME NEW b \in Proc
      PROVE  Queued(rq[b], Cardinality(Releasing(n, b)), Known(n, su, b), Competing(su), ts, now, b)
  BY <1>3, <1>5, <1>7 DEF Ordering
<1>9. ASSUME NEW a \in Proc, su[a] = "PS_EXECUTING" PROVE Oldest(n, su, ts, a)
  <2>1. CASE st[a] = "PS_EXECUTING"
    <3>1. Oldest(m, st, ts, a)
      BY <1>3, <2>1 DEF Ordering
    <3>2. QED
      BY <1>5, <1>7, <3>1 DEF Oldest
  <2>2. CASE st[a] # "PS_EXECUTING"
    <3> DEFINE k == Cardinality(Releasing(m, p))
               known == Known(m, st, p)
               comp == Competing(st)
    <3>1. a = p /\ st[p] = "PS_PENDING" /\ my_turn(p, rq[p], rp[p])
      BY <1>2, <1>9, <2>2
    <3>2. Queued(rq[p], k, known, comp, ts, now, p)
      BY <1>3 DEF Ordering
    <3>3. k \in Nat /\ known \in SUBSET Proc /\ rq[p] \in Seq(Entry) /\ p \in known
      <4>1. p \in Competing(st)
        BY <3>1 DEF Competing
      <4>2. p \in known
        BY <4>1 DEF Known
      <4>3. QED
        BY <4>2, ReleasingFinite, CompetingFacts DEF rq
    <3> HIDE DEF k, known, comp
    <3>4. k = 0 /\ \A b \in known \ {p} : Older(ts, p, b)
      BY <3>1, <3>2, <3>3, HeadIsFirst DEF my_turn
    <3>5. Releasing(m, p) = {}
      <4>1. IsFiniteSet(Releasing(m, p))
        BY ReleasingFinite
      <4>2. QED
        BY <3>4, <4>1, FS_EmptySet DEF k
    <3>6. ASSUME NEW b \in comp \ {p} PROVE Older(ts, p, b)
      <4>1. b \in Proc \ {p} /\ st[b] # "PS_IDLE" /\ b \in rp[p]
        BY <3>1 DEF my_turn, comp, Competing
      <4>2. Consent(m, st, rp, ts, now, p, b)
        BY <1>3, <4>1 DEF Ordering
      <4>3. SUFFICES ASSUME ~Older(ts, p, b) PROVE FALSE
        OBVIOUS
      <4>4. NoneOf(m, Request(b, p))
        BY <3>1, <4>1, <4>2, <4>3 DEF Consent, Answered
      <4>5. b \in known
        BY <3>6, <4>4 DEF known, Known, comp
      <4>6. QED
        BY <3>4, <4>1, <4>3, <4>5
    <3>7. QED
      BY <1>5, <1>7, <3>1, <3>5, <3>6 DEF Oldest, comp
  <2>3. QED
    BY <2>1, <2>2
<1>10. \A a \in Proc : NoneOf(n, Misdated(ts[a], a))
  BY <1>1, <1>3 DEF Ordering
<1>11. Ordering(n, su, rp, rq, ts, now)
  BY <1>3, <1>6, <1>8, <1>9, <1>10 DEF Ordering
<1>12. QED
  BY <1>11 DEF Ordered, n, su, rp, rq

LEMMA OrderedReply ==
    ASSUME Net # "udp", Assumptions, IInv,
           NEW ts \in [Proc -> Timespec], Ordered(ts),
           NEW p \in Proc, NEW slot \in Receivable(p), ReplyReceived(p, slot)
    PROVE  Ordered(ts)'
<1> DEFINE m == dme_recv_msg(slot)
           pkt == PacketAt(slot)
           q == pkt.msg.pid
           rp == replies'
           rq == request_queue'
<1>1. /\ Basics /\ now \in Nat /\ Instants \subseteq Nat
      /\ net \in Nets(GoodPackets) /\ Placed(net) /\ p \in Node
      /\ request_queue \in [Proc -> Seq(Entry)] /\ replies \in [Proc -> SUBSET Proc]
  BY MessageTaken, BasicTypes DEF IInv, Assumptions, ClockAssumption
<1>2. /\ q \in Proc \ {p} /\ pkt \in GoodPackets /\ pkt.msg.type = "REPLY" /\ pkt \in Reply(q, p)
      /\ \A a, b : pkt \in Link(a, b) => a = q /\ b = p
  BY <1>1, LinkTaken DEF ReplyReceived
<1>3. NoneOf(m, Asking(p, q)) /\ fsm_state[p] = "PS_PENDING" /\ q \notin replies[p]
  <2>1. pkt \in Asking(p, q)
    BY <1>2 DEF Asking
  <2>2. QED
    BY <1>2, <2>1, AskingTaken
<1>4. /\ replies' = [replies EXCEPT ![p] = @ \cup {q}]
      /\ EnterOnTurn(p, slot, request_queue[p], replies'[p])
      /\ UNCHANGED <<request_queue, now>>
  BY <1>3 DEF ReplyReceived, clockVars
<1>5. \A a, b : ~(a = q /\ b = p) => SameLink(net, m, a, b)
  BY <1>1, <1>2, LinkLeft
<1>6. \A T : NoneOf(net, T) => NoneOf(m, T)
  BY <1>1, Fewer
<1>7. /\ Kept(net, m, Request(q, p)) /\ Kept(net, m, Release(q, p))
      /\ InOrder(net, Release(q, p), Request(q, p)) => InOrder(m, Release(q, p), Request(q, p))
      /\ InOrder(net, Request(q, p), Reply(q, p)) =>
            /\ InOrder(m, Request(q, p), Reply(q, p))
            /\ NoneOf(m, Request(q, p))
      /\ ~NoneOf(net, Reply(q, p))
  <2>1. pkt \notin Request(q, p) /\ pkt \notin Release(q, p)
    BY <1>2, LinkFacts
  <2>2. Kept(net, m, Request(q, p)) /\ Kept(net, m, Release(q, p))
    BY <1>1, <2>1, ReceiveKept
  <2>3. InOrder(net, Release(q, p), Request(q, p)) => InOrder(m, Release(q, p), Request(q, p))
    BY <1>1, ReceiveInOrder
  <2>4. InOrder(net, Request(q, p), Reply(q, p)) =>
            /\ InOrder(m, Request(q, p), Reply(q, p))
            /\ NoneOf(m, Request(q, p))
    BY <1>1, <1>2, <1>6, ReceiveInOrder
  <2>5. ~NoneOf(net, Reply(q, p))
    BY <1>1, <1>2, ReceivePlaced
  <2>6. QED
    BY <2>2, <2>3, <2>4, <2>5
<1>8. /\ rp[p] = replies[p] \cup {q}
      /\ \A a \in Proc : \A b : ~(a = p /\ b = q) /\ b \in rp[a] => b \in replies[a]
  BY <1>1, <1>4
<1> HIDE DEF m, pkt, q, rp, rq
<1>9. ASSUME NEW a \in Proc, NEW b \in Proc \ {a}
      PROVE  Consent(m, fsm_state, rp, ts, now, a, b)
  <2>1. Consent(net, fsm_state, replies, ts, now, a, b)
    BY DEF Ordered, Ordering
  <2>2. CASE a = p /\ b = q
    BY <1>3, <1>7, <2>1, <2>2 DEF Consent, Answered
  <2>3. CASE ~(a = p /\ b = q)
    <3>1. SameLink(net, m, b, a) /\ (b \in rp[a] => b \in replies[a])
      BY <1>5, <1>8, <2>3
    <3>2. now <= now
      BY <1>1
    <3>3. QED
      BY <1>1, <2>1, <3>1, <3>2, ConsentSame
  <2>4. QED
    BY <2>2, <2>3
<1>10. ASSUME NEW a \in Proc, NEW b \in Proc \ {a} PROVE ReleasedOnce(m, fsm_state, a, b)
  <2>1. ReleasedOnce(net, fsm_state, a, b)
    BY DEF Ordered, Ordering
  <2>2. CASE a = q /\ b = p
    BY <1>7, <2>1, <2>2 DEF ReleasedOnce, Kept
  <2>3. CASE ~(a = q /\ b = p)
    BY <1>5, <2>1, <2>3, ReleasedSame
  <2>4. QED
    BY <2>2, <2>3
<1>11. \A a, b : Kept(net, m, Request(a, b)) /\ Kept(net, m, Release(a, b))
  BY <1>5, <1>7 DEF SameLink
<1>12. \A b : /\ Releasing(m, b) = Releasing(net, b)
              /\ Known(m, fsm_state, b) = Known(net, fsm_state, b)
  BY <1>11 DEF Releasing, Known, Kept
<1>13. \A a \in Proc : fsm_state[a] = "PS_EXECUTING" => Oldest(m, fsm_state, ts, a)
  BY <1>12 DEF Ordered, Ordering, Oldest
<1>14. \A b \in Proc : Queued(rq[b], Cardinality(Releasing(m, b)), Known(m, fsm_state, b),
                              Competing(fsm_state), ts, now, b)
  BY <1>4, <1>12 DEF Ordered, Ordering, rq
<1>15. \A a \in Proc : NoneOf(m, Misdated(ts[a], a))
  BY <1>6 DEF Ordered, Ordering
<1>16. Ordering(m, fsm_state, rp, rq, ts, now)
  BY <1>9, <1>10, <1>13, <1>14, <1>15 DEF Ordered, Ordering
<1>17. rq \in [Proc -> Seq(Entry)] /\ EnterOnTurn(p, slot, rq[p], rp[p])
  BY <1>1, <1>4 DEF rq, rp
<1>18. QED
  BY <1>1, <1>4, <1>16, <1>17, OrderedTurn DEF m, rq, rp

(* The RELEASE is the only one of q on its way to p, and takes off one released entry. *)
LEMMA OrderedRelease ==
    ASSUME Net # "udp", Assumptions, IInv,
           NEW ts \in [Proc -> Timespec], Ordered(ts),
           NEW p \in Proc, NEW slot \in Receivable(p), ReleaseReceived(p, slot)
    PROVE  Ordered(ts)'
<1> DEFINE m == dme_recv_msg(slot)
           pkt == PacketAt(slot)
           q == pkt.msg.pid
           rq == request_queue'
<1>1. /\ Basics /\ now \in Nat /\ Instants \subseteq Nat
      /\ net \in Nets(GoodPackets) /\ Placed(net) /\ p \in Node
      /\ request_queue \in [Proc -> Seq(Entry)]
  BY MessageTaken, BasicTypes DEF IInv, Assumptions, ClockAssumption
<1>2. /\ q \in Proc \ {p} /\ pkt \in GoodPackets /\ pkt.msg.type = "RELEASE"
      /\ pkt \in Release(q, p)
      /\ \A a, b : pkt \in Link(a, b) => a = q /\ b = p
  BY <1>1, LinkTaken DEF ReleaseReceived
<1>3. /\ request_queue' = [request_queue EXCEPT ![p] = request_queue_pop(@)]
      /\ EnterOnTurn(p, slot, request_queue'[p], replies[p])
      /\ UNCHANGED <<replies, now>>
  BY DEF ReleaseReceived, clockVars
<1>4. \A a, b : ~(a = q /\ b = p) => SameLink(net, m, a, b)
  BY <1>1, <1>2, LinkLeft
<1>5. \A T : NoneOf(net, T) => NoneOf(m, T)
  BY <1>1, Fewer
<1>6. /\ Kept(net, m, Request(q, p)) /\ Kept(net, m, Reply(q, p))
      /\ InOrder(net, Request(q, p), Reply(q, p)) => InOrder(m, Request(q, p), Reply(q, p))
      /\ ~NoneOf(net, Release(q, p)) /\ NoneOf(m, Release(q, p))
  <2>1. pkt \notin Request(q, p) /\ pkt \notin Reply(q, p)
    BY <1>2, LinkFacts
  <2>2. Kept(net, m, Request(q, p)) /\ Kept(net, m, Reply(q, p))
    BY <1>1, <2>1, ReceiveKept
  <2>3. InOrder(net, Request(q, p), Reply(q, p)) => InOrder(m, Request(q, p), Reply(q, p))
    BY <1>1, ReceiveInOrder
  <2>4. ~NoneOf(net, Release(q, p))
    BY <1>1, <1>2, ReceivePlaced
  <2>5. AtMostOneOf(net, Release(q, p))
    BY <1>2 DEF Ordered, Ordering, ReleasedOnce
  <2>6. NoneOf(m, Release(q, p))
    BY <1>1, <1>2, <2>5, ReceiveProperties
  <2>7. QED
    BY <2>2, <2>3, <2>4, <2>6
<1> HIDE DEF m, pkt, q, rq
<1>7. ASSUME NEW a \in Proc, NEW b \in Proc \ {a}
      PROVE  Consent(m, fsm_state, replies, ts, now, a, b)
  <2>1. Consent(net, fsm_state, replies, ts, now, a, b)
    BY DEF Ordered, Ordering
  <2>2. CASE a = p /\ b = q
    BY <1>6, <2>1, <2>2 DEF Consent, Answered, Kept
  <2>3. CASE ~(a = p /\ b = q)
    <3>1. SameLink(net, m, b, a)
      BY <1>4, <2>3
    <3>2. now <= now
      BY <1>1
    <3>3. QED
      BY <1>1, <2>1, <3>1, <3>2, ConsentSame
  <2>4. QED
    BY <2>2, <2>3
<1>8. ASSUME NEW a \in Proc, NEW b \in Proc \ {a} PROVE ReleasedOnce(m, fsm_state, a, b)
  <2>1. ReleasedOnce(net, fsm_state, a, b)
    BY DEF Ordered, Ordering
  <2>2. CASE a = q /\ b = p
    BY <1>6, <2>2, NoneInOrder, NoneIsAtMostOne DEF ReleasedOnce
  <2>3. CASE ~(a = q /\ b = p)
    BY <1>4, <2>1, <2>3, ReleasedSame
  <2>4. QED
    BY <2>2, <2>3
<1>9. \A a, b : Kept(net, m, Request(a, b))
  BY <1>4, <1>6 DEF SameLink
<1>10. \A b : Known(m, fsm_state, b) = Known(net, fsm_state, b)
  BY <1>9 DEF Known, Kept
<1>11. \A b \in Proc \ {p} : Releasing(m, b) = Releasing(net, b)
  BY <1>4 DEF Releasing, SameLink, Kept
<1>12. /\ q \in Releasing(net, p) /\ Releasing(m, p) = Releasing(net, p) \ {q}
  <2>1. \A a : a # q => Kept(net, m, Release(a, p))
    BY <1>4 DEF SameLink
  <2>2. QED
    BY <1>2, <1>6, <2>1 DEF Releasing, Kept
<1>13. ASSUME NEW a \in Proc, fsm_state[a] = "PS_EXECUTING" PROVE Oldest(m, fsm_state, ts, a)
  <2>1. Oldest(net, fsm_state, ts, a)
    BY <1>13 DEF Ordered, Ordering
  <2>2. Releasing(m, a) = {}
    BY <1>11, <1>12, <2>1 DEF Oldest
  <2>3. QED
    BY <2>1, <2>2 DEF Oldest
<1>14. ASSUME NEW b \in Proc
       PROVE  Queued(rq[b], Cardinality(Releasing(m, b)), Known(m, fsm_state, b),
                     Competing(fsm_state), ts, now, b)
  <2> DEFINE s == request_queue[b]
             k == Cardinality(Releasing(net, b))
             known == Known(net, fsm_state, b)
             comp == Competing(fsm_state)
  <2>1. Queued(s, k, known, comp, ts, now, b) /\ s \in Seq(Entry) /\ k \in Nat
    BY <1>1, ReleasingFinite DEF Ordered, Ordering
  <2>2. CASE b = p
    <3>1. k # 0 /\ Cardinality(Releasing(m, b)) = k - 1
      <4>1. IsFiniteSet(Releasing(net, b))
        BY ReleasingFinite
      <4>2. Cardinality(Releasing(m, b)) = k - 1
        BY <1>12, <2>2, <4>1, FS_RemoveElement
      <4>3. k # 0
        BY <1>12, <2>2, <4>1, FS_EmptySet
      <4>4. QED
        BY <4>2, <4>3
    <3>2. rq[b] = request_queue_pop(s)
      BY <1>1, <1>3, <2>2 DEF rq
    <3> HIDE DEF s, k, known, comp
    <3>3. Queued(request_queue_pop(s), k - 1, known, comp, ts, now, b)
      BY <2>1, <3>1, QueuedPopped
    <3>4. QED
      BY <1>10, <3>1, <3>2, <3>3 DEF known, comp
  <2>3. CASE b # p
    <3>1. rq[b] = s
      BY <1>1, <1>3, <2>3 DEF rq
    <3>2. QED
      BY <1>10, <1>11, <2>1, <2>3, <3>1
  <2>4. QED
    BY <2>2, <2>3
<1>15. \A a \in Proc : NoneOf(m, Misdated(ts[a], a))
  BY <1>5 DEF Ordered, Ordering
<1>16. Ordering(m, fsm_state, replies, rq, ts, now)
  BY <1>7, <1>8, <1>13, <1>14, <1>15 DEF Ordered, Ordering
<1>17. rq \in [Proc -> Seq(Entry)] /\ EnterOnTurn(p, slot, rq[p], replies'[p])
  <2>1. request_queue_pop(request_queue[p]) \in Seq(Entry)
    BY <1>1, Popped
  <2>2. QED
    BY <1>1, <1>3, <2>1 DEF rq
<1>18. QED
  BY <1>1, <1>3, <1>16, <1>17, OrderedTurn DEF m, rq

(***************************************************************************)
(* p leaves.  It was the oldest, so that it heads its own queue, and the   *)
(* live part of every other; there its entry joins the released ones, with *)
(* one RELEASE more on its way.                                            *)
(***************************************************************************)
LEMMA OrderedExited ==
    ASSUME Assumptions, IInv,
           NEW ts \in [Proc -> Timespec], Ordered(ts),
           NEW p \in Proc, process_ev_exited_cr(p)
    PROVE  Ordered(ts)'
<1> DEFINE m == InformExited(p)
           told == Packet(p, SUPERVISOR_PID, [type |-> "EXITED"])
           New == {Packet(p, d, RELEASE(p)) : d \in Proc \ {p}}
           n == net'
           st == fsm_state
           su == fsm_state'
           rq == request_queue'
<1>1. /\ m \in Nets(GoodPackets) /\ Placed(m) /\ Sent(net, m, {told})
      /\ n \in Nets(GoodPackets) /\ Sent(m, n, New)
      /\ net \in Nets(GoodPackets) /\ Placed(net)
  BY LeftSent, BasicTypes DEF IInv
<1>2. /\ st[p] = "PS_EXECUTING"
      /\ fsm_state' = [fsm_state EXCEPT ![p] = "PS_IDLE"]
      /\ request_queue' = [request_queue EXCEPT ![p] = request_queue_pop(@)]
      /\ UNCHANGED <<replies, now>>
  BY Left DEF IInv, clockVars
<1>3. /\ fsm_state \in [Proc -> State] /\ request_queue \in [Proc -> Seq(Entry)]
      /\ now \in Nat /\ Instants \subseteq Nat
  BY BasicTypes DEF IInv, Assumptions, ClockAssumption
<1>4. su[p] = "PS_IDLE" /\ \A a \in Proc \ {p} : su[a] = st[a]
  BY <1>2, <1>3
<1>5. told.dst = SUPERVISOR_PID
  BY DEF Packet
<1>6. /\ \A pkt \in New : /\ pkt.src = p /\ pkt.msg.type = "RELEASE"
                          /\ pkt = Packet(p, pkt.dst, RELEASE(p))
      /\ \A b \in Proc \ {p} : New \cap Release(p, b) # {}
  <2>1. ASSUME NEW b \in Proc \ {p} PROVE Packet(p, b, RELEASE(p)) \in New \cap Release(p, b)
    <3>1. Packet(p, b, RELEASE(p)) \in GoodPackets
      BY ReleaseGood
    <3>2. QED
      BY <3>1 DEF Release, Packet, RELEASE
  <2>2. \A pkt \in New : /\ pkt.src = p /\ pkt.msg.type = "RELEASE"
                         /\ pkt = Packet(p, pkt.dst, RELEASE(p))
    BY DEF Packet, RELEASE
  <2> HIDE DEF New
  <2>3. \A b \in Proc \ {p} : New \cap Release(p, b) # {}
    BY <2>1
  <2>4. QED
    BY <2>2, <2>3
<1> HIDE DEF m, told, New, n, st, su, rq
<1>7. \A a, b \in Proc : {told} \cap Link(a, b) = {}
  BY <1>5, NoLink
<1>8. \A a, b \in Proc : SameLink(net, m, a, b)
  BY <1>1, <1>7, LinkSent
<1>9. \A a \in Proc \ {p} : \A b \in Proc : SameLink(net, n, a, b)
  <2>1. ASSUME NEW a \in Proc \ {p}, NEW b \in Proc PROVE SameLink(net, n, a, b)
    <3>1. New \cap Link(a, b) = {}
      BY <1>6 DEF Link, Request, Reply, Release
    <3>2. SameLink(m, n, a, b)
      BY <1>1, <3>1, LinkSent
    <3>3. QED
      BY <1>8, <3>2, LinkTwice
  <2>2. QED
    BY <2>1
<1>10. ASSUME NEW b \in Proc
       PROVE  Kept(net, n, Request(p, b)) /\ Kept(net, n, Reply(p, b))
  <2>1. New \cap Request(p, b) = {} /\ New \cap Reply(p, b) = {}
    BY <1>6 DEF Request, Reply
  <2>2. Kept(m, n, Request(p, b)) /\ Kept(m, n, Reply(p, b))
    BY <1>1, <2>1, SentKept
  <2>3. QED
    BY <1>8, <2>2 DEF SameLink, Kept
<1>11. ASSUME NEW b \in Proc \ {p}
       PROVE  /\ NoneOf(net, Request(p, b)) /\ NoneOf(net, Release(p, b))
              /\ b \in replies[p] /\ Past(ts[p], now)
  <2>1. AskedOnce(net, st, replies, p, b)
    BY DEF IInv, AllAskedOnce, st
  <2>2. NoneOf(net, Request(p, b)) /\ b \in replies[p]
    BY <1>2, <2>1 DEF AskedOnce, Asking, NoneOf
  <2>3. Consent(net, st, replies, ts, now, p, b) /\ ReleasedOnce(net, st, p, b)
    BY DEF Ordered, Ordering, st
  <2>4. QED
    BY <1>2, <2>2, <2>3 DEF Consent, Answered, ReleasedOnce
<1>12. Oldest(net, st, ts, p) /\ p \in Competing(st)
  BY <1>2 DEF Ordered, Ordering, Competing, st
<1>13. ASSUME NEW a \in Proc PROVE NoneOf(n, Misdated(ts[a], a))
  <2>1. {told} \cap Misdated(ts[a], a) = {} /\ New \cap Misdated(ts[a], a) = {}
    BY <1>5, <1>6, NotMisdated
  <2>2. NoneOf(net, Misdated(ts[a], a))
    BY DEF Ordered, Ordering
  <2>3. NoneOf(m, Misdated(ts[a], a))
    BY <1>1, <2>1, <2>2, SentProperties
  <2>4. QED
    BY <1>1, <2>1, <2>3, SentProperties
<1>14. ASSUME NEW a \in Proc, NEW b \in Proc \ {a} PROVE Consent(n, su, replies, ts, now, a, b)
  <2>1. Consent(net, st, replies, ts, now, a, b)
    BY DEF Ordered, Ordering, st
  <2>2. CASE a = p
    BY <1>4, <2>2 DEF Consent, Answered
  <2>3. CASE b = p
    <3>1. Answered(n, su, replies, a, p) => Answered(net, st, replies, a, p)
      BY <1>4, <1>10, <2>3 DEF Answered, Kept
    <3>2. QED
      BY <1>4, <2>1, <2>3, <3>1 DEF Consent
  <2>4. CASE a # p /\ b # p
    <3>1. SameLink(net, n, b, a) /\ now <= now
      BY <1>3, <1>9, <2>4
    <3>2. su[a] = st[a] /\ su[b] = st[b]
      BY <1>4, <2>4
    <3>3. QED
      BY <1>3, <2>1, <3>1, <3>2, ConsentSame
  <2>5. QED
    BY <2>2, <2>3, <2>4
<1>15. ASSUME NEW a \in Proc, NEW b \in Proc \ {a} PROVE ReleasedOnce(n, su, a, b)
  <2>1. CASE a = p
    <3>1. NoneOf(net, Release(p, b)) /\ NoneOf(net, Request(p, b))
      BY <1>11, <2>1
    <3>2. NoneOf(m, Release(p, b))
      BY <1>8, <3>1 DEF SameLink, Kept
    <3>3. \A x, y \in New \cap Release(p, b) : x = y
      BY <1>6 DEF Release
    <3>4. AtMostOneOf(n, Release(p, b))
      BY <1>1, <3>2, <3>3, SentProperties
    <3>5. NoneOf(n, Request(p, b))
      BY <1>10, <3>1 DEF Kept
    <3>6. QED
      BY <1>4, <2>1, <3>4, <3>5, NoneInOrder DEF ReleasedOnce
  <2>2. CASE a # p
    <3>1. ReleasedOnce(net, st, a, b)
      BY DEF Ordered, Ordering, st
    <3>2. SameLink(net, n, a, b) /\ su[a] = st[a]
      BY <1>4, <1>9, <2>2
    <3>3. QED
      BY <3>1, <3>2, ReleasedSame
  <2>3. QED
    BY <2>1, <2>2
<1>16. ASSUME NEW a \in Proc, su[a] = "PS_EXECUTING" PROVE FALSE
  <2>1. a \in Proc \ {p} /\ st[a] = "PS_EXECUTING"
    BY <1>4, <1>16
  <2>2. Oldest(net, st, ts, a) /\ a \in Competing(st)
    BY <2>1 DEF Ordered, Ordering, Competing, st
  <2>3. Older(ts, p, a) /\ Older(ts, a, p)
    BY <1>12, <2>1, <2>2 DEF Oldest
  <2>4. QED
    BY <2>1, <2>3, OlderOrder
<1>17. Competing(su) = Competing(st) \ {p}
  BY <1>4 DEF Competing
<1>18. /\ Releasing(net, p) = {} /\ Releasing(n, p) = {}
       /\ \A b \in Proc \ {p} : /\ p \notin Releasing(net, b)
                                /\ Releasing(n, b) = Releasing(net, b) \cup {p}
  <2>1. \A a \in Proc \ {p} : \A b \in Proc : Kept(net, n, Release(a, b))
    BY <1>9 DEF SameLink
  <2>2. \A b \in Proc \ {p} : ~NoneOf(n, Release(p, b))
    BY <1>1, <1>6, SentProperties
  <2>3. Releasing(net, p) = {}
    BY <1>12 DEF Oldest
  <2>4. Releasing(n, p) = {}
    BY <2>1, <2>3 DEF Releasing, Kept
  <2>5. \A b \in Proc \ {p} : /\ p \notin Releasing(net, b)
                              /\ Releasing(n, b) = Releasing(net, b) \cup {p}
    BY <1>11, <2>1, <2>2 DEF Releasing, Kept
  <2>6. QED
    BY <2>3, <2>4, <2>5
<1>19. \A b \in Proc : /\ Known(n, su, b) = Known(net, st, b) \ {p}
                       /\ p \in Known(net, st, b)
  <2>1. \A a \in Proc, b \in Proc : NoneOf(n, Request(a, b)) <=> NoneOf(net, Request(a, b))
    BY <1>9, <1>10 DEF SameLink, Kept
  <2>2. \A b \in Proc : p \in Known(net, st, b)
    BY <1>11, <1>12 DEF Known
  <2>3. QED
    BY <1>17, <2>1, <2>2 DEF Known, Competing
<1>20. ASSUME NEW b \in Proc
       PROVE  Queued(rq[b], Cardinality(Releasing(n, b)), Known(n, su, b), Competing(su), ts, now, b)
  <2> DEFINE s == request_queue[b]
             k == Cardinality(Releasing(net, b))
             known == Known(net, st, b)
             comp == Competing(st)
  <2>1. Queued(s, k, known, comp, ts, now, b)
    BY DEF Ordered, Ordering, st
  <2>2. /\ s \in Seq(Entry) /\ k \in Nat /\ comp \in SUBSET Proc /\ known \in SUBSET comp
        /\ p \in known
    BY <1>3, <1>19, ReleasingFinite, CompetingFacts
  <2>3. \A a \in comp \ {p} : Older(ts, p, a)
    BY <1>12 DEF Oldest
  <2>4. Competing(su) = comp \ {p} /\ Known(n, su, b) = known \ {p}
    BY <1>17, <1>19
  <2>5. CASE b = p
    <3>1. k = 0 /\ Cardinality(Releasing(n, b)) = 0
      BY <1>18, <2>5, FS_EmptySet
    <3>2. rq[b] = request_queue_pop(s)
      BY <1>2, <1>3, <2>5 DEF rq
    <3> HIDE DEF s, k, known, comp
    <3>3. Queued(request_queue_pop(s), 0, known \ {b}, comp \ {b}, ts, now, b)
      BY <2>1, <2>2, <2>3, <2>5, <3>1, QueuedLeft
    <3>4. QED
      BY <2>4, <2>5, <3>1, <3>2, <3>3
  <2>6. CASE b # p
    <3>1. Cardinality(Releasing(n, b)) = k + 1
      <4>1. IsFiniteSet(Releasing(net, b))
        BY ReleasingFinite
      <4>2. p \notin Releasing(net, b) /\ Releasing(n, b) = Releasing(net, b) \cup {p}
        BY <1>18, <2>6
      <4>3. QED
        BY <4>1, <4>2, FS_AddElement
    <3>2. rq[b] = s
      BY <1>2, <1>3, <2>6 DEF rq
    <3>3. Past(ts[p], now)
      BY <1>11, <2>6
    <3> HIDE DEF s, k, known, comp
    <3>4. Queued(s, k + 1, known \ {p}, comp \ {p}, ts, now, b)
      BY <2>1, <2>2, <2>3, <2>6, <3>3, QueuedReleased
    <3>5. QED
      BY <2>4, <3>1, <3>2, <3>4
  <2>7. QED
    BY <2>5, <2>6
<1>22. Ordering(n, su, replies, rq, ts, now)
  BY <1>13, <1>14, <1>15, <1>16, <1>20 DEF Ordering
<1>23. QED
  BY <1>2, <1>22 DEF Ordered, n, su, rq

LEMMA OrderedNext ==
    ASSUME StampsIncrease, EpochKnown',
           Net # "udp", Assumptions, IInv, [Next]_vars,
           NEW ts \in [Proc -> Timespec], Ordered(ts)
    PROVE  \E tt \in [Proc -> Timespec] : Ordered(tt)'
<1>1. CASE SupervisorNext
  BY <1>1, OrderedSupervisor
<1>2. ASSUME NEW p \in Proc, PeerNext(p)
      PROVE  \E tt \in [Proc -> Timespec] : Ordered(tt)'
  <2>1. CASE handle_message(p)
    <3>1. PICK slot \in Receivable(p) :
             \/ SupervisorMsgKept(p, slot) /\ UNCHANGED lamportVars
             \/ \E t \in StampInstants(now) : process_ev_want_cr(p, slot, t)
             \/ RequestReceived(p, slot)
             \/ ReleaseReceived(p, slot)
             \/ ReplyReceived(p, slot)
      BY <2>1 DEF handle_message
    <3>2. CASE \E t \in StampInstants(now) : process_ev_want_cr(p, slot, t)
      <4>1. PICK t \in StampInstants(now) : process_ev_want_cr(p, slot, t)
        BY <3>2
      <4> DEFINE e == EpochStamp(t)
      <4>2. e \in Timespec /\ Ordered([ts EXCEPT ![p] = e])'
        BY <4>1, OrderedWant
      <4>3. [ts EXCEPT ![p] = e] \in [Proc -> Timespec]
        BY <4>2
      <4>4. QED
        BY <4>2, <4>3
    <3>3. CASE ~(\E t \in StampInstants(now) : process_ev_want_cr(p, slot, t))
      BY <3>1, <3>3, OrderedNoted, OrderedRequest, OrderedRelease, OrderedReply
    <3>4. QED
      BY <3>2, <3>3
  <2>2. CASE process_ev_exited_cr(p)
    BY <2>2, OrderedExited
  <2>3. CASE sendto(p) /\ UNCHANGED <<exit_request, peerVars, clockVars, lamportVars>>
    BY <2>3, PidFacts, OrderedSendto DEF Assumptions, peerVars, clockVars
  <2>4. QED
    BY <1>2, <2>1, <2>2, <2>3 DEF PeerNext
<1>3. CASE UNCHANGED vars
  <2>1. UNCHANGED <<net, now, fsm_state, replies, request_queue>>
    BY <1>3 DEF vars, peerVars, clockVars, lamportVars
  <2>2. Ordered(ts)'
    BY <2>1 DEF Ordered
  <2>3. QED
    BY <2>2
<1>4. QED
  BY <1>1, <1>2, <1>3 DEF Next

(* What the order comes to. *)
LEMMA OrderedExcludes ==
    ASSUME Assumptions, NEW ts \in [Proc -> Timespec], Ordered(ts)
    PROVE  MutualExclusion
<1>1. SUFFICES ASSUME NEW p \in Proc, NEW q \in Proc, p # q,
                      fsm_state[p] = "PS_EXECUTING", fsm_state[q] = "PS_EXECUTING"
               PROVE  FALSE
  BY DEF MutualExclusion
<1>2. Older(ts, p, q) /\ Older(ts, q, p)
  BY <1>1 DEF Ordered, Ordering, Oldest, Competing
<1>3. QED
  BY <1>1, <1>2, OlderOrder

LEMMA OrderedHeads ==
    ASSUME Assumptions, Basics,
           NEW ts \in [Proc -> Timespec], Ordered(ts)
    PROVE  OwnRequestAtHead
<1>1. SUFFICES ASSUME NEW p \in Proc, fsm_state[p] = "PS_EXECUTING"
               PROVE  request_queue[p] # <<>> /\ Head(request_queue[p]).pid = p
  BY DEF OwnRequestAtHead
<1> DEFINE s == request_queue[p]
           known == Known(net, fsm_state, p)
           comp == Competing(fsm_state)
<1>2. Releasing(net, p) = {} /\ \A q \in comp \ {p} : Older(ts, p, q)
  BY <1>1 DEF Ordered, Ordering, Oldest
<1>3. Queued(s, 0, known, comp, ts, now, p)
  BY <1>2, FS_EmptySet DEF Ordered, Ordering
<1>4. s \in Seq(Entry) /\ comp \in SUBSET Proc /\ known \in SUBSET comp /\ p \in known
  BY <1>1, BasicTypes, CompetingFacts DEF Known, Competing
<1> HIDE DEF s, known, comp
<1>5. Len(s) \in Nat /\ 0 + 1 <= Len(s) /\ s[0 + 1] = Own(ts, p)
  BY <1>2, <1>3, <1>4, OldestFirst
<1>6. s # <<>> /\ Head(s).pid = p
  BY <1>4, <1>5, OwnEntry
<1>7. QED
  BY <1>6 DEF s

LEMMA OrderedOwn ==
    ASSUME Assumptions, Basics,
           NEW ts \in [Proc -> Timespec], Ordered(ts)
    PROVE  OwnRequestQueued
<1>1. SUFFICES ASSUME NEW p \in Proc
               PROVE  Cardinality({ix \in DOMAIN request_queue[p] : request_queue[p][ix].pid = p})
                          = (IF fsm_state[p] = "PS_IDLE" THEN 0 ELSE 1)
  BY DEF OwnRequestQueued
<1> DEFINE s == request_queue[p]
           k == Cardinality(Releasing(net, p))
           known == Known(net, fsm_state, p)
           mine == {ix \in DOMAIN s : s[ix].pid = p}
<1>2. s \in Seq(Entry) /\ k \in Nat /\ known \in SUBSET Proc
  BY BasicTypes, ReleasingFinite, CompetingFacts
<1>3. Queued(s, k, known, Competing(fsm_state), ts, now, p)
  BY DEF Ordered, Ordering
<1>4. p \in known <=> fsm_state[p] # "PS_IDLE"
  BY DEF Known, Competing
<1> HIDE DEF s, k, known
<1>5. \A i \in mine : /\ i \in k + 1 .. Len(s)
                      /\ p \in known /\ s[i] = Own(ts, p)
  <2>1. ASSUME NEW i \in mine PROVE i \in k + 1 .. Len(s) /\ p \in known /\ s[i] = Own(ts, p)
    <3>1. i \in 1 .. Len(s) /\ s[i].pid = p
      BY <1>2
    <3>2. i \notin 1 .. k
      BY <1>3, <3>1 DEF Queued
    <3>3. i \in k + 1 .. Len(s)
      BY <1>2, <3>1, <3>2
    <3>4. QED
      BY <1>3, <3>1, <3>3 DEF Queued
  <2>2. QED
    BY <2>1
<1>6. \A i, j \in mine : i = j
  <2>1. ASSUME NEW i \in mine, NEW j \in mine, i < j PROVE FALSE
    <3>1. Precedes(s[i], s[j])
      BY <1>3, <1>5, <2>1 DEF Queued
    <3>2. Precedes(Own(ts, p), Own(ts, p)) /\ Own(ts, p) \in Entry
      BY <1>5, <3>1, OwnEntry
    <3>3. QED
      BY <3>2, PrecedesOrder
  <2>2. \A i \in mine : i \in Nat
    BY <1>2
  <2>3. \A i, j \in mine : ~(i < j) /\ ~(j < i)
    BY <2>1
  <2>4. \A i, j \in mine : i = j
    <3>1. SUFFICES ASSUME NEW i \in mine, NEW j \in mine PROVE i = j
      OBVIOUS
    <3>2. i \in Nat /\ j \in Nat /\ ~(i < j) /\ ~(j < i)
      BY <2>2, <2>3
    <3>3. QED
      BY <3>2
  <2>5. QED
    BY <2>4
<1>7. CASE fsm_state[p] = "PS_IDLE"
  <2>1. mine = {}
    BY <1>4, <1>5, <1>7
  <2>2. QED
    BY <1>7, <2>1, FS_EmptySet DEF s
<1>8. CASE fsm_state[p] # "PS_IDLE"
  <2>1. PICK i \in k + 1 .. Len(s) : s[i].pid = p
    BY <1>3, <1>4, <1>8 DEF Queued
  <2>2. i \in mine
    <3>1. i \in 1 .. Len(s)
      BY <1>2
    <3>2. QED
      BY <1>2, <2>1, <3>1
  <2>3. mine = {i}
    BY <1>6, <2>2
  <2>4. QED
    BY <1>8, <2>3, FS_Singleton DEF s
<1>9. QED
  BY <1>7, <1>8

LEMMA OrderedDrained ==
    ASSUME Assumptions, Basics,
           NEW ts \in [Proc -> Timespec], Ordered(ts)
    PROVE  QueuesDrained
<1>1. SUFFICES ASSUME NetEmpty, \A p \in Proc : fsm_state[p] = "PS_IDLE", NEW p \in Proc
               PROVE  request_queue[p] = <<>>
  BY DEF QueuesDrained
<1>2. \A T : NoneOf(net, T)
  <2>1. \A l \in Lane : net[l] = <<>>
    BY <1>1, BasicTypes DEF NetEmpty, Nets
  <2>2. QED
    BY <2>1 DEF NoneOf
<1>3. Releasing(net, p) = {} /\ Known(net, fsm_state, p) = {}
  BY <1>1, <1>2 DEF Releasing, Known, Competing
<1>4. Queued(request_queue[p], 0, {}, Competing(fsm_state), ts, now, p)
  BY <1>3, FS_EmptySet DEF Ordered, Ordering
<1>5. request_queue[p] \in Seq(Entry)
  BY BasicTypes
<1>6. QED
  BY <1>4, <1>5, QueuedNothing

-----------------------------------------------------------------------------
(***************************************************************************)
(* When stamps increase with the instants they are taken at.               *)
(***************************************************************************)

(* The instants whose seconds since the start fit a uint32. *)
Tellable ==
    {t \in Nat : /\ SyncroInstant <= t
                 /\ t \div NsecPerSec - SyncroInstant \div NsecPerSec < Uint32}

(* t is earlier in its second than the start was in its own. *)
BeforeStart(t) == t % NsecPerSec < SyncroInstant % NsecPerSec

(* The nanoseconds of a stamp: those before the start wrap round. *)
LEMMA NsecStamped ==
    ASSUME NEW N \in Nat \ {0}, NEW U \in Nat, N < U,
           NEW r \in Nat, r < N, NEW s \in Nat, s < N
    PROVE  (r + U - (s % U)) % U = (IF r < s THEN r + U - s ELSE r - s)
<1>1. s % U = s
  <2>1. U \in Nat \ {0} /\ 0 \in Nat /\ s < U /\ s = U * 0 + s
    BY Z3
  <2>2. QED
    BY <2>1, Rest
<1>2. CASE r < s
  <2>1. r + U - s \in Nat /\ r + U - s < U
    BY <1>2
  <2>2. r + U - s = U * 0 + (r + U - s)
    BY Z3
  <2>3. U \in Nat \ {0} /\ 0 \in Nat
    OBVIOUS
  <2>4. (r + U - s) % U = r + U - s
    BY <2>1, <2>2, <2>3, Rest
  <2>5. QED
    BY <1>1, <1>2, <2>4
<1>3. CASE ~(r < s)
  <2> DEFINE e == r - s
  <2>1. e \in Nat /\ e < U /\ U \in Nat \ {0} /\ s + e = r
    BY <1>3
  <2> HIDE DEF e
  <2>2. (s + e + U - (s % U)) % U = e
    BY <2>1, Difference
  <2>3. QED
    BY <1>3, <2>1, <2>2 DEF e
<1>4. QED
  BY <1>2, <1>3

LEMMA StampOf ==
    ASSUME Assumptions, NEW t \in Tellable
    PROVE  EpochStamp(t) =
             [sec  |-> t \div NsecPerSec - SyncroInstant \div NsecPerSec,
              nsec |-> IF BeforeStart(t)
                         THEN (t % NsecPerSec) + Uint32 - (SyncroInstant % NsecPerSec)
                         ELSE (t % NsecPerSec) - (SyncroInstant % NsecPerSec)]
<1> DEFINE a == SyncroInstant \div NsecPerSec
           x == t \div NsecPerSec
           r == t % NsecPerSec
           s == SyncroInstant % NsecPerSec
<1>1. /\ NsecPerSec \in Nat \ {0} /\ Uint32 \in Nat \ {0} /\ NsecPerSec < Uint32
      /\ SyncroInstant \in Nat
  BY DEF Assumptions, ClockAssumption
<1>2. t \in Nat /\ SyncroInstant <= t /\ x - a < Uint32
  BY DEF Tellable
<1>3. /\ a \in Nat /\ x \in Nat
      /\ r \in Nat /\ r < NsecPerSec /\ s \in Nat /\ s < NsecPerSec
  BY <1>1, <1>2, DivMod
<1>4. x = a \/ a < x
  <2>1. CASE SyncroInstant = t
    BY <2>1
  <2>2. CASE SyncroInstant < t
    BY <1>1, <1>2, <2>2, LaterReading
  <2>3. QED
    BY <1>1, <1>2, <2>1, <2>2
<1>5. MinusUint32(x, a) = x - a
  <2> DEFINE e == x - a
  <2> HIDE DEF a, x
  <2>1. e \in Nat /\ e < Uint32 /\ a + e = x
    BY <1>2, <1>3, <1>4
  <2> HIDE DEF e
  <2>2. (a + e + Uint32 - (a % Uint32)) % Uint32 = e
    BY <1>1, <1>3, <2>1, Difference
  <2>3. QED
    BY <2>1, <2>2 DEF MinusUint32, e
<1>6. MinusUint32(r, s) = (IF r < s THEN r + Uint32 - s ELSE r - s)
  <2> HIDE DEF r, s
  <2>1. QED
    BY <1>1, <1>3, NsecStamped DEF MinusUint32
<1>7. EpochStamp(t) = [sec |-> MinusUint32(x, a), nsec |-> MinusUint32(r, s)]
  BY DEF EpochStamp, Reading
<1>8. BeforeStart(t) <=> r < s
  BY DEF BeforeStart
<1> HIDE DEF a, x, r, s
<1>9. EpochStamp(t) = [sec |-> x - a, nsec |-> IF BeforeStart(t) THEN r + Uint32 - s ELSE r - s]
  BY <1>5, <1>6, <1>7, <1>8
<1>10. QED
  BY <1>9 DEF a, x, r, s

LEMMA StampEarlier ==
    ASSUME Assumptions, NEW t \in Tellable, NEW u \in Tellable, t < u
    PROVE  Earlier(EpochStamp(t), EpochStamp(u)) <=>
             ~ /\ t \div NsecPerSec = u \div NsecPerSec
               /\ BeforeStart(t) /\ ~BeforeStart(u)
<1> DEFINE a == SyncroInstant \div NsecPerSec
           x == t \div NsecPerSec
           y == u \div NsecPerSec
           r == t % NsecPerSec
           s == u % NsecPerSec
           z == SyncroInstant % NsecPerSec
<1>1. /\ NsecPerSec \in Nat \ {0} /\ Uint32 \in Nat /\ NsecPerSec < Uint32
      /\ SyncroInstant \in Nat /\ t \in Nat /\ u \in Nat
  BY DEF Assumptions, ClockAssumption, Tellable
<1>2. /\ a \in Nat /\ x \in Nat /\ y \in Nat
      /\ r \in Nat /\ r < NsecPerSec /\ s \in Nat /\ s < NsecPerSec
      /\ z \in Nat /\ z < NsecPerSec
  BY <1>1, DivMod
<1>3. x < y \/ (x = y /\ r < s)
  BY <1>1, LaterReading
<1>4. /\ EpochStamp(t) = [sec |-> x - a, nsec |-> IF r < z THEN r + Uint32 - z ELSE r - z]
      /\ EpochStamp(u) = [sec |-> y - a, nsec |-> IF s < z THEN s + Uint32 - z ELSE s - z]
  <2>1. /\ EpochStamp(t) = [sec |-> x - a, nsec |-> IF BeforeStart(t) THEN r + Uint32 - z ELSE r - z]
        /\ EpochStamp(u) = [sec |-> y - a, nsec |-> IF BeforeStart(u) THEN s + Uint32 - z ELSE s - z]
    BY StampOf
  <2>2. (BeforeStart(t) <=> r < z) /\ (BeforeStart(u) <=> s < z)
    BY DEF BeforeStart
  <2> HIDE DEF a, x, y, r, s, z
  <2>3. QED
    BY <2>1, <2>2
<1>5. (BeforeStart(t) <=> r < z) /\ (BeforeStart(u) <=> s < z)
  BY DEF BeforeStart
<1> HIDE DEF a, x, y, r, s, z
<1>6. Earlier(EpochStamp(t), EpochStamp(u)) <=> ~(x = y /\ r < z /\ ~(s < z))
  BY <1>1, <1>2, <1>3, <1>4 DEF Earlier
<1>7. QED
  BY <1>5, <1>6 DEF x, y

(***************************************************************************)
(* Wherever in its second the experiment starts, and as long as its        *)
(* seconds fit a uint32, later requests carry later stamps just when no    *)
(* two requests of one second are stamped on both sides of the start's     *)
(* nanoseconds: peer_msg_add_timestamp borrows nothing from the seconds.   *)
(***************************************************************************)
THEOREM StampsInOrder ==
    ASSUME Instants \subseteq Tellable
    PROVE  StampsIncrease <=>
             \A t, u \in Instants :
                t < u /\ t \div NsecPerSec = u \div NsecPerSec
                    => (BeforeStart(t) => BeforeStart(u))
<1>1. Assumptions
  BY NetworkAssumption, SupervisorAssumption, ClockAssumption DEF Assumptions
<1>2. ASSUME NEW t \in Instants, NEW u \in Instants, t < u
      PROVE  Earlier(EpochStamp(t), EpochStamp(u)) <=>
               (t \div NsecPerSec = u \div NsecPerSec => (BeforeStart(t) => BeforeStart(u)))
  BY <1>1, <1>2, StampEarlier
<1>3. QED
  BY <1>2 DEF StampsIncrease

-----------------------------------------------------------------------------
(***************************************************************************)
(* The refinement.                                                         *)
(***************************************************************************)
LEMMA EnterStep ==
    ASSUME IInv, MutualExclusion', NEW p \in Proc, NEW slot, NEW q, NEW r,
           EnterOnTurn(p, slot, q, r)
    PROVE  [Abstract!Next]_fsm_state
<1>1. CASE fsm_state[p] = "PS_PENDING" /\ my_turn(p, q, r)
  <2>1. fsm_state' = [fsm_state EXCEPT ![p] = "PS_EXECUTING"]
    BY <1>1 DEF EnterOnTurn, process_ev_entered_cr
  <2>2. fsm_state \in [Proc -> State]
    BY BasicTypes DEF IInv
  <2>3. ASSUME NEW b \in Proc, fsm_state[b] = "PS_EXECUTING" PROVE FALSE
    <3>1. b # p
      BY <1>1, <2>3
    <3>2. fsm_state'[p] = "PS_EXECUTING" /\ fsm_state'[b] = "PS_EXECUTING"
      BY <2>1, <2>2, <2>3, <3>1
    <3>3. QED
      BY <3>1, <3>2 DEF MutualExclusion
  <2>4. Abstract!Enter(p)
    BY <1>1, <2>1, <2>3 DEF Abstract!Enter
  <2>5. QED
    BY <2>4 DEF Abstract!Next
<1>2. CASE ~(fsm_state[p] = "PS_PENDING" /\ my_turn(p, q, r))
  BY <1>2 DEF EnterOnTurn, peerVars
<1>3. QED
  BY <1>1, <1>2

LEMMA AbstractStep ==
    ASSUME IInv, MutualExclusion', [Next]_vars
    PROVE  [Abstract!Next]_fsm_state
<1>1. CASE SupervisorNext
  BY <1>1 DEF SupervisorNext, peerVars
<1>2. ASSUME NEW p \in Proc, PeerNext(p) PROVE [Abstract!Next]_fsm_state
  <2>1. CASE handle_message(p)
    <3>1. PICK slot \in Receivable(p) :
             \/ SupervisorMsgKept(p, slot) /\ UNCHANGED lamportVars
             \/ \E t \in StampInstants(now) : process_ev_want_cr(p, slot, t)
             \/ RequestReceived(p, slot)
             \/ ReleaseReceived(p, slot)
             \/ ReplyReceived(p, slot)
      BY <2>1 DEF handle_message
    <3>2. CASE SupervisorMsgKept(p, slot) \/ RequestReceived(p, slot)
      BY <3>2 DEF SupervisorMsgKept, SupervisorMsgNoted, RequestReceived, peerVars
    <3>3. CASE \E t \in StampInstants(now) : process_ev_want_cr(p, slot, t)
      <4>1. Abstract!Want(p)
        BY <3>3 DEF process_ev_want_cr, IsWant, Abstract!Want
      <4>2. QED
        BY <4>1 DEF Abstract!Next
    <3>4. CASE ReleaseReceived(p, slot)
      BY <3>4, EnterStep DEF ReleaseReceived
    <3>5. CASE ReplyReceived(p, slot)
      BY <3>5, EnterStep DEF ReplyReceived
    <3>6. QED
      BY <3>1, <3>2, <3>3, <3>4, <3>5
  <2>2. CASE process_ev_exited_cr(p)
    <3>1. fsm_state[p] = "PS_EXECUTING" /\ fsm_state' = [fsm_state EXCEPT ![p] = "PS_IDLE"]
      BY <2>2, Left DEF IInv
    <3>2. Abstract!Exit(p)
      BY <3>1 DEF Abstract!Exit
    <3>3. QED
      BY <3>2 DEF Abstract!Next
  <2>3. CASE sendto(p) /\ UNCHANGED <<exit_request, peerVars, clockVars, lamportVars>>
    BY <2>3 DEF peerVars
  <2>4. QED
    BY <1>2, <2>1, <2>2, <2>3 DEF PeerNext
<1>3. CASE UNCHANGED vars
  BY <1>3 DEF vars, peerVars
<1>4. QED
  BY <1>1, <1>2, <1>3 DEF Next

-----------------------------------------------------------------------------
(* The queues are ordered, by whatever stamps the peers compete with. *)
AllOrdered == \E ts \in [Proc -> Timespec] : Ordered(ts)

LEMMA AllOrderedSteps ==
    ASSUME StampsIncrease, Net # "udp", Assumptions
    PROVE  /\ Init => AllOrdered
           /\ IInv /\ AllOrdered /\ EpochKnown' /\ [Next]_vars
                 => AllOrdered'
           /\ IInv /\ AllOrdered =>
                 MutualExclusion /\ OwnRequestAtHead /\ OwnRequestQueued /\ QueuesDrained
<1>1. Init => AllOrdered
  <2>1. [p \in Proc |-> [sec |-> 0, nsec |-> 0]] \in [Proc -> Timespec]
    BY DEF Timespec
  <2>2. QED
    BY <2>1, OrderedInit DEF AllOrdered
<1>2. IInv /\ AllOrdered /\ EpochKnown' /\ [Next]_vars
         => AllOrdered'
  BY OrderedNext DEF AllOrdered
<1>3. IInv /\ AllOrdered =>
         MutualExclusion /\ OwnRequestAtHead /\ OwnRequestQueued /\ QueuesDrained
  BY OrderedExcludes, OrderedHeads, OrderedOwn, OrderedDrained DEF AllOrdered, IInv
<1>4. QED
  BY <1>1, <1>2, <1>3

(***************************************************************************)
(* Two peers of lamport.c are never inside together, on a network that     *)
(* keeps the order of packets between two nodes, while stamps increase     *)
(* with the instants they are taken at.                                    *)
(***************************************************************************)
THEOREM Exclusion ==
    ASSUME StampsIncrease, Net # "udp"
    PROVE  Spec => []MutualExclusion
<1>1. Assumptions
  BY NetworkAssumption, SupervisorAssumption, ClockAssumption DEF Assumptions
<1>2. /\ Init => AllOrdered
      /\ IInv /\ AllOrdered /\ EpochKnown' /\ [Next]_vars
            => AllOrdered'
      /\ IInv /\ AllOrdered => MutualExclusion
  BY <1>1, AllOrderedSteps
<1>3. Spec => []EpochKnown
  BY EpochHeard
<1>4. QED
  BY <1>2, <1>3, Invariance, PTL DEF Spec

LEMMA QueuesInvariance ==
    ASSUME Net # "udp", StampsIncrease
    PROVE  Spec =>
              [](IInv /\ MutualExclusion /\ OwnRequestAtHead /\ OwnRequestQueued /\ QueuesDrained)
<1>1. Assumptions
  BY NetworkAssumption, SupervisorAssumption, ClockAssumption DEF Assumptions
<1>2. /\ Init => AllOrdered
      /\ IInv /\ AllOrdered /\ EpochKnown' /\ [Next]_vars => AllOrdered'
      /\ IInv /\ AllOrdered =>
            MutualExclusion /\ OwnRequestAtHead /\ OwnRequestQueued /\ QueuesDrained
  BY <1>1, AllOrderedSteps
<1>3. Spec => []EpochKnown
  BY EpochHeard
<1>4. QED
  BY <1>2, <1>3, Invariance, PTL DEF Spec

(***************************************************************************)
(* What process_ev_exited_cr pops, "our request", is the peer's own: it    *)
(* heads the queue of who is inside.                                       *)
(***************************************************************************)
THEOREM OwnRequestHeads ==
    ASSUME Net # "udp", StampsIncrease
    PROVE  Spec => []OwnRequestAtHead
BY QueuesInvariance, PTL

(***************************************************************************)
(* A peer's queue holds one request of its own while it competes, and none *)
(* when it does not.                                                       *)
(***************************************************************************)
THEOREM OneOwnRequest ==
    ASSUME Net # "udp", StampsIncrease
    PROVE  Spec => []OwnRequestQueued
BY QueuesInvariance, PTL

(***************************************************************************)
(* Though a RELEASE takes off the head whoever sent it, no request is left *)
(* in a queue when nobody competes and nothing is on its way.              *)
(***************************************************************************)
THEOREM QueuesEmpty ==
    ASSUME Net # "udp", StampsIncrease
    PROVE  Spec => []QueuesDrained
BY QueuesInvariance, PTL

(***************************************************************************)
(* lamport.c implements Mutex on a network that keeps the order of packets *)
(* between two nodes, whenever the supervisor starts, when stamps increase *)
(* with the instants they are taken at.                                    *)
(***************************************************************************)
THEOREM Implementation ==
    ASSUME Net # "udp", StampsIncrease
    PROVE  Spec => MutexSpec
<1>1. Init => Abstract!Init
  BY DEF Init, PeerInit, Abstract!Init
<1>2. IInv /\ MutualExclusion' /\ [Next]_vars => [Abstract!Next]_fsm_state
  BY AbstractStep
<1>3. Spec => [](IInv /\ MutualExclusion)
  BY QueuesInvariance, PTL
<1>4. QED
  BY <1>1, <1>2, <1>3, PTL DEF Spec, MutexSpec, Abstract!Spec

-----------------------------------------------------------------------------
(***************************************************************************)
(* Nobody is forgotten.  When the turn of a peer comes, a RELEASE or REPLY *)
(* has just arrived, so that it is noticed: an insertion puts at the head  *)
(* of a queue what another peer asked for, or leaves the head alone.  When *)
(* nothing is on its way, the oldest request heads the queue of its owner, *)
(* who has every reply.                                                    *)
(***************************************************************************)
TurnsTaken ==
    \A p \in Proc : fsm_state[p] = "PS_PENDING" => ~my_turn(p, request_queue[p], replies[p])

Attentive == TurnsTaken /\ Counted

LEMMA SupAttends ==
    ASSUME Assumptions, IInv, Announced(net, fsm_state), Counted, [Next]_vars
    PROVE  Net # "udp" => Counted'
<1>1. SUFFICES ASSUME Net # "udp" PROVE Counted'
  OBVIOUS
<1>2. CASE UNCHANGED supVars
  BY <1>2 DEF supVars, Counted, Awaited
<1>3. CASE SupNext
  <2>1. /\ net \in Nets(GoodPackets) /\ Placed(net) /\ SupTypeOK
        /\ Sight(GoodPackets, net, fsm_state, nodes)
    BY BasicTypes DEF IInv, Announced
  <2>2. QED
    BY <1>1, <1>3, <2>1, SupPacketsGood, PacketKinds, CountedSupervisor DEF Assumptions
<1>4. QED
  BY <1>2, <1>3 DEF Next, SupervisorNext, PeerNext, SupervisorUnchanged, vars

(* An entry of another peer does not bring p's own to the head. *)
LEMMA InsertedHead ==
    ASSUME NEW s \in Seq(Entry), NEW e \in Entry, NEW p, e.pid # p
    PROVE  LET r == request_queue_insert(s, e) IN
           r # <<>> /\ Head(r).pid = p => s # <<>> /\ Head(s).pid = p
<1> DEFINE r == request_queue_insert(s, e)
<1>1. /\ r \in Seq(Entry) /\ Len(r) = Len(s) + 1
      /\ \E k \in 1 .. Len(s) + 1 :
            \A i \in 1 .. Len(s) + 1 :
               r[i] = IF i < k THEN s[i] ELSE IF i = k THEN e ELSE s[i - 1]
  BY Inserted
<1> HIDE DEF r
<1>2. PICK k \in 1 .. Len(s) + 1 :
         \A i \in 1 .. Len(s) + 1 :
            r[i] = IF i < k THEN s[i] ELSE IF i = k THEN e ELSE s[i - 1]
  BY <1>1
<1>3. Len(s) \in Nat /\ 1 \in 1 .. Len(s) + 1
  OBVIOUS
<1>4. CASE k = 1
  <2>1. r[1] = e
    BY <1>2, <1>3, <1>4
  <2>2. Head(r) = e
    BY <1>1, <1>3, <2>1
  <2>3. QED
    BY <2>2 DEF r
<1>5. CASE 1 < k
  <2>1. r[1] = s[1] /\ 1 <= Len(s)
    BY <1>2, <1>3, <1>5
  <2>2. Head(r) = s[1] /\ s # <<>> /\ Head(s) = s[1]
    BY <1>1, <1>3, <2>1
  <2>3. QED
    BY <2>2 DEF r
<1>6. QED
  BY <1>4, <1>5

LEMMA TurnsWant ==
    ASSUME Assumptions, nodes_count > 1, IInv, TurnsTaken,
           NEW p \in Proc, NEW slot \in Receivable(p),
           NEW t \in StampInstants(now), process_ev_want_cr(p, slot, t)
    PROVE  TurnsTaken'
<1>1. /\ fsm_state' = [fsm_state EXCEPT ![p] = "PS_PENDING"]
      /\ replies' = [replies EXCEPT ![p] = {}]
      /\ request_queue' =
            [request_queue EXCEPT ![p] = request_queue_insert(@, Element(REQUEST(p, t)))]
  BY DEF process_ev_want_cr
<1>2. /\ fsm_state \in [Proc -> State] /\ request_queue \in [Proc -> Seq(Entry)]
      /\ replies \in [Proc -> SUBSET Proc]
  BY BasicTypes DEF IInv
<1>3. Proc \ {p} # {}
  <2>1. 1 \in Proc /\ 2 \in Proc
    BY DEF Proc, Assumptions, NetworkAssumption
  <2>2. QED
    BY <2>1
<1>4. ASSUME NEW a \in Proc, fsm_state'[a] = "PS_PENDING"
      PROVE  ~my_turn(a, request_queue'[a], replies'[a])
  <2>1. CASE a = p
    BY <1>1, <1>2, <1>3, <2>1 DEF my_turn
  <2>2. CASE a # p
    <3>1. /\ fsm_state'[a] = fsm_state[a] /\ request_queue'[a] = request_queue[a]
          /\ replies'[a] = replies[a]
      BY <1>1, <1>2, <2>2
    <3>2. QED
      BY <1>4, <3>1 DEF TurnsTaken
  <2>3. QED
    BY <2>1, <2>2
<1>5. QED
  BY <1>4 DEF TurnsTaken, my_turn

LEMMA TurnsRequest ==
    ASSUME Assumptions, IInv, TurnsTaken,
           NEW p \in Proc, NEW slot \in Receivable(p), RequestReceived(p, slot)
    PROVE  TurnsTaken'
<1> DEFINE msg == PacketAt(slot).msg
           e == Element(msg)
<1>1. /\ request_queue' = [request_queue EXCEPT ![p] = request_queue_insert(@, e)]
      /\ UNCHANGED <<fsm_state, replies>>
      /\ PeerMsgAt(p, slot) /\ msg.type = "REQUEST"
  BY DEF RequestReceived, peerVars
<1>2. Basics /\ request_queue \in [Proc -> Seq(Entry)]
  BY BasicTypes DEF IInv
<1>3. e \in Entry /\ e.pid # p
  <2>1. msg.pid \in Proc \ {p} /\ PacketAt(slot) \in GoodPackets
    BY <1>1, <1>2, PeerMessage, MessageTaken
  <2>2. msg.ts \in Timespec
    BY <1>1, <2>1, PacketFields
  <2> HIDE DEF msg
  <2>3. QED
    BY <2>1, <2>2 DEF Element, Entry
<1> HIDE DEF e, msg
<1>4. ASSUME NEW a \in Proc, fsm_state[a] = "PS_PENDING"
      PROVE  ~my_turn(a, request_queue'[a], replies[a])
  <2>1. ~my_turn(a, request_queue[a], replies[a])
    BY <1>4 DEF TurnsTaken
  <2>2. CASE a = p
    <3>1. request_queue'[p] = request_queue_insert(request_queue[p], e)
          /\ request_queue[p] \in Seq(Entry)
      BY <1>1, <1>2
    <3>2. request_queue'[p] # <<>> /\ Head(request_queue'[p]).pid = p
             => request_queue[p] # <<>> /\ Head(request_queue[p]).pid = p
      BY <1>3, <3>1, InsertedHead
    <3>3. QED
      BY <2>1, <2>2, <3>2 DEF my_turn
  <2>3. CASE a # p
    <3>1. request_queue'[a] = request_queue[a]
      BY <1>1, <1>2, <2>3
    <3>2. QED
      BY <2>1, <3>1
  <2>4. QED
    BY <2>2, <2>3
<1>5. QED
  BY <1>1, <1>4 DEF TurnsTaken, my_turn

(* A turn that has come is taken in the handler of the message that brought it. *)
LEMMA TurnsOnTurn ==
    ASSUME Assumptions, IInv, TurnsTaken, NEW p \in Proc, NEW slot \in Receivable(p),
           EnterOnTurn(p, slot, request_queue'[p], replies'[p]),
           \A a \in Proc \ {p} : /\ request_queue'[a] = request_queue[a]
                                 /\ replies'[a] = replies[a]
    PROVE  TurnsTaken'
<1>1. fsm_state \in [Proc -> State]
  BY BasicTypes DEF IInv
<1> DEFINE turn == my_turn(p, request_queue'[p], replies'[p])
<1>2. IF fsm_state[p] = "PS_PENDING" /\ turn
      THEN fsm_state' = [fsm_state EXCEPT ![p] = "PS_EXECUTING"]
      ELSE UNCHANGED fsm_state
  BY DEF EnterOnTurn, process_ev_entered_cr, peerVars
<1> HIDE DEF turn
<1>3. fsm_state'[p] = "PS_PENDING" => ~turn
  BY <1>1, <1>2
<1>4. ASSUME NEW a \in Proc, fsm_state'[a] = "PS_PENDING"
      PROVE  ~my_turn(a, request_queue'[a], replies'[a])
  <2>1. CASE a = p
    BY <1>3, <1>4, <2>1 DEF turn
  <2>2. CASE a # p
    <3>1. fsm_state'[a] = fsm_state[a]
      BY <1>1, <1>2, <2>2
    <3>2. ~my_turn(a, request_queue[a], replies[a])
      BY <1>4, <3>1 DEF TurnsTaken
    <3>3. QED
      BY <2>2, <3>2
  <2>3. QED
    BY <2>1, <2>2
<1>5. QED
  BY <1>4 DEF TurnsTaken, my_turn

LEMMA TurnsNext ==
    ASSUME Assumptions, nodes_count > 1, IInv, TurnsTaken, [Next]_vars
    PROVE  TurnsTaken'
<1>1. CASE UNCHANGED <<fsm_state, request_queue, replies>>
  BY <1>1 DEF TurnsTaken, my_turn
<1>2. ASSUME NEW p \in Proc, process_ev_exited_cr(p) PROVE TurnsTaken'
  <2>1. /\ fsm_state' = [fsm_state EXCEPT ![p] = "PS_IDLE"]
        /\ request_queue' = [request_queue EXCEPT ![p] = request_queue_pop(@)]
        /\ UNCHANGED replies
    BY <1>2, Left DEF IInv
  <2>2. fsm_state \in [Proc -> State] /\ request_queue \in [Proc -> Seq(Entry)]
    BY BasicTypes DEF IInv
  <2>3. ASSUME NEW a \in Proc, fsm_state'[a] = "PS_PENDING"
        PROVE  fsm_state[a] = "PS_PENDING" /\ request_queue'[a] = request_queue[a]
    BY <2>1, <2>2, <2>3
  <2>4. QED
    BY <2>1, <2>3 DEF TurnsTaken, my_turn
<1>3. ASSUME NEW p \in Proc, NEW slot \in Receivable(p), ReleaseReceived(p, slot)
      PROVE  TurnsTaken'
  <2>1. /\ request_queue' = [request_queue EXCEPT ![p] = request_queue_pop(@)]
        /\ EnterOnTurn(p, slot, request_queue'[p], replies'[p])
        /\ UNCHANGED replies
    BY <1>3 DEF ReleaseReceived
  <2>2. request_queue \in [Proc -> Seq(Entry)]
    BY BasicTypes DEF IInv
  <2>3. QED
    BY <2>1, <2>2, TurnsOnTurn
<1>4. ASSUME NEW p \in Proc, NEW slot \in Receivable(p), ReplyReceived(p, slot)
      PROVE  TurnsTaken'
  <2>1. /\ replies' = IF fsm_state[p] = "PS_PENDING"
                      THEN [replies EXCEPT ![p] = @ \cup {PacketAt(slot).msg.pid}]
                      ELSE replies
        /\ EnterOnTurn(p, slot, request_queue'[p], replies'[p])
        /\ UNCHANGED request_queue
    BY <1>4 DEF ReplyReceived
  <2>2. replies \in [Proc -> SUBSET Proc]
    BY BasicTypes DEF IInv
  <2>3. QED
    BY <2>1, <2>2, TurnsOnTurn
<1>5. ASSUME NEW p \in Proc, handle_message(p) PROVE TurnsTaken'
  <2>1. ASSUME NEW slot \in Receivable(p), SupervisorMsgKept(p, slot), UNCHANGED lamportVars
        PROVE  UNCHANGED <<fsm_state, request_queue, replies>>
    BY <2>1 DEF SupervisorMsgKept, SupervisorMsgNoted, peerVars, lamportVars
  <2>2. QED
    BY <1>1, <1>3, <1>4, <1>5, <2>1, TurnsWant, TurnsRequest DEF handle_message
<1>6. SupervisorNext \/ UNCHANGED vars => UNCHANGED <<fsm_state, request_queue, replies>>
  BY DEF SupervisorNext, vars, peerVars, lamportVars
<1>7. QED
  BY <1>1, <1>2, <1>5, <1>6 DEF Next, PeerNext, peerVars, lamportVars

(* Of several peers that compete one is older than all others. *)
LEMMA SomeOldest ==
    ASSUME Assumptions, NEW ts \in [Proc -> Timespec], NEW comp \in SUBSET Proc, comp # {}
    PROVE  \E x \in comp : \A p \in comp \ {x} : Older(ts, x, p)
<1> DEFINE before(x) == {p \in comp : p # x /\ Older(ts, p, x)}
           counts == {Cardinality(before(x)) : x \in comp}
<1>1. \A x : before(x) \in SUBSET Proc /\ IsFiniteSet(before(x)) /\ Cardinality(before(x)) \in Nat
  BY ProcFinite DEF Assumptions
<1>2. counts \in SUBSET Nat /\ counts # {}
  BY <1>1
<1>3. PICK x \in comp : \A y \in comp : Cardinality(before(x)) <= Cardinality(before(y))
  <2>1. PICK c \in counts : \A d \in counts : <<d, c>> \notin OpToRel(<, Nat)
    <3> HIDE DEF counts
    <3>1. QED
      BY <1>2, WFMin, NatLessThanWellFounded
  <2>2. \A d \in counts : d \in Nat /\ c \in Nat /\ ~(d < c)
    <3> HIDE DEF counts
    <3>1. QED
      BY <1>2, <2>1, Zenon DEF OpToRel
  <2> HIDE DEF before
  <2>3. QED
    BY <2>2
<1>4. ASSUME NEW p \in comp \ {x} PROVE Older(ts, x, p)
  <2>1. SUFFICES ASSUME Older(ts, p, x) PROVE FALSE
    BY OlderOrder
  <2>2. ASSUME NEW a \in before(p) PROVE a \in before(x)
    <3>1. /\ Own(ts, a) \in Entry /\ Own(ts, p) \in Entry /\ Own(ts, x) \in Entry
          /\ Older(ts, a, p) /\ a \in comp
      BY <2>2, OwnEntry
    <3>2. Older(ts, a, x)
      BY <2>1, <3>1, PrecedesOrder DEF Older
    <3>3. a # x
      BY <2>1, <3>1, PrecedesOrder DEF Older
    <3>4. QED
      BY <3>1, <3>2, <3>3
  <2>3. p \in before(x) /\ p \notin before(p)
    BY <2>1
  <2>4. before(p) \in SUBSET before(x)
    BY <2>2
  <2> HIDE DEF before
  <2>5. /\ Cardinality(before(p)) <= Cardinality(before(x))
        /\ Cardinality(before(p)) # Cardinality(before(x))
    BY <1>1, <2>3, <2>4, FS_Subset
  <2>6. Cardinality(before(x)) <= Cardinality(before(p))
    BY <1>3
  <2>7. QED
    BY <1>1, <2>5, <2>6
<1>5. QED
  BY <1>4

(* When no packet is on its way to a peer, none of any kind that peers get is. *)
LEMMA SilentLinks ==
    ASSUME Assumptions, Basics, \A pkt \in Packets : pkt.dst \notin Proc,
           NEW T, \A pkt \in T : pkt.dst \in Proc
    PROVE  NoneOf(net, T)
<1>1. net \in Nets(GoodPackets)
  BY BasicTypes
<1>2. ASSUME NEW l \in Lane, NEW i \in 1 .. Len(net[l]) PROVE net[l][i] \notin T
  <2>1. net[l] \in Seq(GoodPackets) /\ l \in DOMAIN net
    BY <1>1 DEF Nets
  <2>2. net[l][i] \in ToSet(net[l])
    BY <1>2, <2>1 DEF ToSet
  <2>3. net[l][i] \in Packets
    BY <2>1, <2>2 DEF Packets
  <2>4. QED
    BY <2>3
<1>3. QED
  BY <1>2 DEF NoneOf

LEMMA NobodyWaits ==
    ASSUME Assumptions, IInv, TurnsTaken,
           NEW ts \in [Proc -> Timespec], Ordered(ts),
           \A p \in Proc : exited_due[p] = 0, \A pkt \in Packets : pkt.dst \notin Proc
    PROVE  \A p \in Proc : fsm_state[p] = "PS_IDLE"
<1> DEFINE comp == Competing(fsm_state)
<1>1. Basics /\ request_queue \in [Proc -> Seq(Entry)]
  BY BasicTypes DEF IInv
<1>2. \A p \in Proc : fsm_state[p] \in {"PS_IDLE", "PS_PENDING"}
  <2>1. fsm_state \in [Proc -> State] /\ EventsMatch
    BY <1>1, BasicTypes
  <2>2. QED
    BY <2>1 DEF EventsMatch, State
<1>3. comp \in SUBSET Proc /\ \A p \in Proc : p \in comp <=> fsm_state[p] # "PS_IDLE"
  BY CompetingFacts
<1>4. \A a, b \in Proc : /\ NoneOf(net, Asking(a, b))
                         /\ NoneOf(net, Request(a, b)) /\ NoneOf(net, Release(a, b))
  <2>1. \A a, b \in Proc :
           \A pkt \in Asking(a, b) \cup Request(a, b) \cup Release(a, b) : pkt.dst \in Proc
    BY DEF Asking, Request, Reply, Release
  <2>2. QED
    BY <1>1, <2>1, SilentLinks
<1>5. SUFFICES ASSUME comp # {} PROVE FALSE
  BY <1>3
<1>6. PICK x \in comp : \A p \in comp \ {x} : Older(ts, x, p)
  BY <1>3, <1>5, SomeOldest
<1>7. x \in Proc /\ fsm_state[x] = "PS_PENDING"
  BY <1>2, <1>3, <1>6
<1>8. Releasing(net, x) = {} /\ Known(net, fsm_state, x) = comp
  BY <1>3, <1>4, <1>7 DEF Releasing, Known
<1>9. Queued(request_queue[x], 0, comp, comp, ts, now, x)
  BY <1>7, <1>8, FS_EmptySet DEF Ordered, Ordering
<1> HIDE DEF comp
<1>10. request_queue[x] # <<>> /\ Head(request_queue[x]).pid = x
  <2> DEFINE s == request_queue[x]
  <2>1. s \in Seq(Entry)
    BY <1>1, <1>7
  <2>2. Queued(s, 0, comp, comp, ts, now, x)
    BY <1>9
  <2> HIDE DEF s
  <2>3. Len(s) \in Nat /\ 0 + 1 <= Len(s) /\ s[0 + 1] = Own(ts, x)
    BY <1>3, <1>6, <2>1, <2>2, OldestFirst
  <2>4. s # <<>> /\ Head(s).pid = x
    BY <1>7, <2>1, <2>3, OwnEntry
  <2>5. QED
    BY <2>4 DEF s
<1>11. Proc \ {x} \subseteq replies[x]
  <2>1. ASSUME NEW q \in Proc \ {x} PROVE q \in replies[x]
    <3>1. AskedOnce(net, fsm_state, replies, x, q)
      BY <1>7 DEF IInv, AllAskedOnce
    <3>2. QED
      BY <1>4, <1>7, <3>1 DEF AskedOnce
  <2>2. QED
    BY <2>1
<1>12. QED
  BY <1>7, <1>10, <1>11 DEF TurnsTaken, my_turn

LEMMA NoneForgotten ==
    ASSUME Assumptions, IInv, Announced(net, fsm_state), Attentive,
           AllOrdered
    PROVE  NobodyForgotten
<1>1. SUFFICES ASSUME \A p \in Proc : exited_due[p] = 0, \A pkt \in Packets : pkt.dst \notin Proc
               PROVE  /\ \A p \in Proc : fsm_state[p] = "PS_IDLE"
                      /\ NetEmpty => critical_region_is_idlle
                                     /\ received_resps_count = elected_proc_count
  BY DEF NobodyForgotten
<1>2. \A p \in Proc : fsm_state[p] = "PS_IDLE"
  BY <1>1, NobodyWaits DEF AllOrdered, Attentive
<1>3. ASSUME NetEmpty
      PROVE  critical_region_is_idlle /\ received_resps_count = elected_proc_count
  <2>1. /\ net \in Nets(GoodPackets) /\ SupTypeOK
        /\ Sight(GoodPackets, net, fsm_state, nodes) /\ Counted
    BY BasicTypes DEF IInv, Announced, Attentive
  <2>2. QED
    BY <1>2, <1>3, <2>1, NothingUnseen DEF Assumptions
<1>4. QED
  BY <1>2, <1>3

(***************************************************************************)
(* When no packet is on its way to a peer of lamport.c and no timer runs,  *)
(* no peer waits, and a supervisor that has handled its packets too counts *)
(* a response from every process it elected.  A single peer would wait for *)
(* ever: nothing arrives to make it look whose turn it is.                 *)
(***************************************************************************)
THEOREM NobodyLeftWaiting ==
    ASSUME Net # "udp", StampsIncrease, nodes_count > 1
    PROVE  Spec => []NobodyForgotten
<1>1. Assumptions
  BY NetworkAssumption, SupervisorAssumption, ClockAssumption DEF Assumptions
<1>2. /\ Init => AllOrdered
      /\ IInv /\ AllOrdered /\ EpochKnown' /\ [Next]_vars => AllOrdered'
  BY <1>1, AllOrderedSteps
<1>3. Init => Attentive
  <2>1. Init => TurnsTaken
    BY DEF Init, PeerInit, TurnsTaken
  <2>2. QED
    BY <1>1, <2>1, CountedInit DEF Init, Attentive, Assumptions
<1>4. IInv /\ Announced(net, fsm_state) /\ Attentive /\ [Next]_vars => Attentive'
  BY <1>1, SupAttends, TurnsNext DEF Attentive
<1>5. IInv /\ Announced(net, fsm_state) /\ Attentive /\ AllOrdered => NobodyForgotten
  BY <1>1, NoneForgotten
<1>6. Spec => [](IInv /\ EpochKnown /\ Announced(net, fsm_state))
  BY Invariance, EpochHeard, AnnouncedInvariance, PTL
<1>7. QED
  BY <1>2, <1>3, <1>4, <1>5, <1>6, PTL DEF Spec

-----------------------------------------------------------------------------
LEMMA Assumed == Assumptions
BY NetworkAssumption, SupervisorAssumption, ClockAssumption DEF Assumptions

(***************************************************************************)
(* The supervisor's view of the peers of lamport.c, on networks that keep   *)
(* the order of packets between two nodes: a WANT finds its peer idle, so  *)
(* that no election is dropped.                                            *)
(***************************************************************************)
THEOREM WantsFindIdle == ASSUME Net # "udp" PROVE Spec => []WantFindsIdle
<1>1. IInv /\ Announced(net, fsm_state) => WantFindsIdle
  BY Assumed, BasicTypes, PacketKinds, SeenWantsFindIdle DEF IInv, Announced, Assumptions
<1>2. QED
  BY <1>1, Invariance, AnnouncedInvariance, PTL

(***************************************************************************)
(* A test gets no more responses than it elected processes: the arrays     *)
(* process_messages stores the response times in are not overrun.          *)
(***************************************************************************)
THEOREM NoResponseTooMany == ASSUME Net # "udp" PROVE Spec => []ResponsesFit
<1>1. Init => Counted
  BY Assumed, CountedInit DEF Init, Assumptions
<1>2. IInv /\ Announced(net, fsm_state) /\ Counted /\ [Next]_vars => Counted'
  BY Assumed, SupAttends
<1>3. IInv /\ Counted => ResponsesFit
  BY Assumed, BasicTypes, CountedFit DEF IInv, Assumptions
<1>4. QED
  BY <1>1, <1>2, <1>3, Invariance, AnnouncedInvariance, PTL DEF Spec

-----------------------------------------------------------------------------
(***************************************************************************)
(* No false alarm, on one host.  The RELEASE of r is behind its EXITED, so *)
(* that r has reported when no RELEASE of it is on its way to a peer, and  *)
(* none is to the peer that is inside.                                     *)
(***************************************************************************)
Asks(n) == {pair \in Proc \X Proc : ~NoneOf(n, Release(pair[2], pair[1]))}

Freed(n, st) == OnHost(GoodPackets, "RELEASE", n, st, Asks(n))

AInv == Freed(net, fsm_state) /\ Unalarmed

(* What is sent leaves the RELEASEs on their way. *)
LEMMA FreedSent ==
    ASSUME NEW n \in Nets(GoodPackets), NEW m \in Nets(GoodPackets), NEW New, Sent(n, m, New),
           NEW st, OnHost(GoodPackets, "RELEASE", m, st, Asks(n))
    PROVE  Freed(m, st)
<1>1. \A a, b \in Proc : ~NoneOf(n, Release(a, b)) => ~NoneOf(m, Release(a, b))
  BY SentProperties
<1>2. Asks(n) \subseteq Asks(m)
  BY <1>1 DEF Asks
<1>3. QED
  BY <1>2, HostMore DEF Freed

LEMMA MessageRead ==
    ASSUME Net = "loopback", Assumptions, Basics, AInv, NEW p \in Proc, NEW slot \in Receivable(p)
    PROVE  LET m == dme_recv_msg(slot) IN
           /\ p \in Node /\ m \in Nets(GoodPackets) /\ Placed(m)
           /\ Freed(m, fsm_state) /\ Reports(m) = Reports(net)
<1> DEFINE m == dme_recv_msg(slot)
           q == PacketAt(slot).src
           asks == Asks(net)
           more == Asks(m)
<1>1. /\ p \in Node /\ net \in Nets(GoodPackets) /\ Placed(net)
      /\ m \in Nets(GoodPackets) /\ Placed(m)
      /\ PacketAt(slot) \in GoodPackets /\ PacketAt(slot).dst = p
  BY MessageTaken, BasicTypes
<1>2. OnHost(GoodPackets, "RELEASE", net, fsm_state, asks)
  BY DEF AInv, Freed
<1>3. \A a, b \in Proc : PacketAt(slot) \notin Release(a, b) /\ ~NoneOf(net, Release(a, b))
                            => ~NoneOf(m, Release(a, b))
  BY <1>1, ReceivePlaced
<1>4. Reports(m) = Reports(net)
  BY <1>1, ReportsReceived DEF Assumptions
<1>5. CASE PacketAt(slot).msg.type = "RELEASE"
  <2>1. q \in Proc \ {p}
    BY <1>1, <1>5, PacketFields
  <2>2. \A a, b \in Proc : PacketAt(slot) \in Release(a, b) => a = q /\ b = p
    BY <1>1 DEF Release
  <2>3. asks \ {<<p, q>>} \subseteq more
    BY <1>3, <2>2 DEF Asks
  <2>4. PacketAt(slot) \in FromTo(GoodPackets, "RELEASE", q, p)
    BY <1>1, <1>5 DEF FromTo
  <2> HIDE DEF asks, more, q
  <2>5. OnHost(GoodPackets, "RELEASE", m, fsm_state, asks \ {<<p, q>>})
    BY <1>1, <1>2, <2>1, <2>4, HostTaken DEF Assumptions
  <2> HIDE DEF m
  <2>6. OnHost(GoodPackets, "RELEASE", m, fsm_state, more)
    BY <2>3, <2>5, HostMore
  <2>7. QED
    BY <1>1, <1>4, <2>6 DEF Freed, m, more
<1>6. CASE PacketAt(slot).msg.type # "RELEASE"
  <2>1. asks \subseteq more
    BY <1>3, <1>6 DEF Asks, Release
  <2> HIDE DEF asks, more, q
  <2>2. OnHost(GoodPackets, "RELEASE", m, fsm_state, asks)
    BY <1>1, <1>2, HostTaken DEF Assumptions
  <2> HIDE DEF m
  <2>3. OnHost(GoodPackets, "RELEASE", m, fsm_state, more)
    BY <2>1, <2>2, HostMore
  <2>4. QED
    BY <1>1, <1>4, <2>3 DEF Freed, m, more
<1>7. QED
  BY <1>5, <1>6

LEMMA AWantOK ==
    ASSUME Net = "loopback", Assumptions, Basics, AInv, NEW p \in Proc,
           NEW slot \in Receivable(p), NEW t \in StampInstants(now), process_ev_want_cr(p, slot, t)
    PROVE  Freed(net', fsm_state') /\ Reports(net') = Reports(net)
<1> DEFINE m == dme_recv_msg(slot)
           New == {Packet(p, d, REQUEST(p, t)) : d \in Proc \ {p}}
           asks == Asks(m)
<1>1. /\ fsm_state \in [Proc -> State] /\ fsm_state[p] # "PS_EXECUTING"
      /\ fsm_state' = [fsm_state EXCEPT ![p] = "PS_PENDING"]
      /\ net' = dme_broadcast_msg(m, p, REQUEST(p, t))
  BY BasicTypes DEF process_ev_want_cr, IsWant
<1>2. /\ p \in Node /\ m \in Nets(GoodPackets) /\ Placed(m)
      /\ OnHost(GoodPackets, "RELEASE", m, fsm_state, asks) /\ Reports(m) = Reports(net)
  BY MessageRead DEF Freed
<1> HIDE DEF m
<1>3. net' \in Nets(GoodPackets) /\ Sent(m, net', New)
  BY <1>1, <1>2, RequestsGood, OthersTold DEF Assumptions
<1>4. \A pkt \in New : pkt.msg.type \notin {"ENTERED", "EXITED"}
  BY DEF Packet, REQUEST
<1>5. \A r \in Proc : fsm_state'[r] # "PS_EXECUTING" => fsm_state[r] # "PS_EXECUTING"
  BY <1>1
<1> HIDE DEF New, asks
<1>6. OnHost(GoodPackets, "RELEASE", net', fsm_state, asks) /\ Reports(net') = Reports(m)
  BY <1>2, <1>3, <1>4, HostSent DEF Assumptions
<1>7. OnHost(GoodPackets, "RELEASE", net', fsm_state', asks)
  BY <1>5, <1>6 DEF OnHost, Reporting
<1>8. QED
  BY <1>2, <1>3, <1>6, <1>7, FreedSent DEF asks

LEMMA ARequestOK ==
    ASSUME Net = "loopback", Assumptions, Basics, AInv, NEW p \in Proc,
           NEW slot \in Receivable(p), RequestReceived(p, slot)
    PROVE  Freed(net', fsm_state') /\ Reports(net') = Reports(net)
<1> DEFINE m == dme_recv_msg(slot)
           q == PacketAt(slot).msg.pid
           asks == Asks(m)
<1>1. q \in Proc \ {p} /\ q \in Node
  BY PeerMessage, PidFacts DEF RequestReceived, Assumptions
<1>2. /\ p \in Node /\ m \in Nets(GoodPackets) /\ Placed(m)
      /\ OnHost(GoodPackets, "RELEASE", m, fsm_state, asks) /\ Reports(m) = Reports(net)
  BY MessageRead DEF Freed
<1>3. net' = dme_send_msg(m, p, q, REPLY(p)) /\ UNCHANGED fsm_state
  BY DEF RequestReceived, peerVars
<1>4. Packet(p, q, REPLY(p)) \in GoodPackets /\ REPLY(p).type \notin {"ENTERED", "EXITED"}
  BY <1>1, ReplyGood DEF REPLY
<1> HIDE DEF m, q, asks
<1>5. net' \in Nets(GoodPackets) /\ Sent(m, net', {Packet(p, q, REPLY(p))})
  BY <1>1, <1>2, <1>3, <1>4, OneTold
<1>6. OnHost(GoodPackets, "RELEASE", net', fsm_state, asks) /\ Reports(net') = Reports(m)
  BY <1>1, <1>2, <1>3, <1>4, HostTold DEF Assumptions
<1>7. QED
  BY <1>2, <1>3, <1>5, <1>6, FreedSent DEF asks

LEMMA ATurnOK ==
    ASSUME Net = "loopback", Assumptions, Basics, AInv, NEW p \in Proc,
           NEW slot \in Receivable(p), NEW q, NEW r, EnterOnTurn(p, slot, q, r)
    PROVE  Freed(net', fsm_state') /\ Reports(net') = Reports(net) /\ UNCHANGED exit_request
<1> DEFINE m == dme_recv_msg(slot)
           New == {Packet(p, SUPERVISOR_PID, [type |-> "ENTERED"])}
           asks == Asks(m)
<1>1. /\ p \in Node /\ m \in Nets(GoodPackets) /\ Placed(m)
      /\ OnHost(GoodPackets, "RELEASE", m, fsm_state, asks) /\ Reports(m) = Reports(net)
      /\ fsm_state \in [Proc -> State]
  BY MessageRead, BasicTypes DEF Freed
<1>2. CASE fsm_state[p] = "PS_PENDING" /\ my_turn(p, q, r)
  <2>1. /\ net' = dme_send_msg(m, p, SUPERVISOR_PID, [type |-> "ENTERED"])
        /\ fsm_state' = [fsm_state EXCEPT ![p] = "PS_EXECUTING"]
        /\ UNCHANGED exit_request
    BY <1>2 DEF EnterOnTurn, process_ev_entered_cr
  <2> HIDE DEF m, asks
  <2>2. OnHost(GoodPackets, "RELEASE", net', fsm_state', asks) /\ Reports(net') = Reports(m)
    BY <1>1, <2>1, SupPacketsGood, HostEntered DEF Assumptions
  <2>3. net' \in Nets(GoodPackets) /\ Sent(m, net', New)
    BY <1>1, <2>1, SupPacketsGood, SupervisorTold DEF Assumptions
  <2> HIDE DEF New
  <2>4. QED
    BY <1>1, <2>1, <2>2, <2>3, FreedSent DEF asks
<1>3. CASE ~(fsm_state[p] = "PS_PENDING" /\ my_turn(p, q, r))
  BY <1>1, <1>3 DEF EnterOnTurn, peerVars, Freed
<1>4. QED
  BY <1>2, <1>3

(* Who leaves has nothing to release before, and releases everybody. *)
LEMMA AExitedOK ==
    ASSUME Net = "loopback", Assumptions, IInv, AllOrdered, AInv,
           NEW p \in Proc, process_ev_exited_cr(p)
    PROVE  Freed(net', fsm_state') /\ Reports(net') = Reports(net)
<1> DEFINE m == InformExited(p)
           New == {Packet(p, d, RELEASE(p)) : d \in Proc \ {p}}
           asks == Asks(net) \cup {<<d, p>> : d \in Proc \ {p}}
<1>1. /\ net \in Nets(GoodPackets) /\ Placed(net) /\ fsm_state \in [Proc -> State]
      /\ OnHost(GoodPackets, "RELEASE", net, fsm_state, Asks(net))
  BY BasicTypes DEF IInv, AInv, Freed
<1>2. /\ fsm_state[p] = "PS_EXECUTING" /\ Waiting(p)
      /\ fsm_state' = [fsm_state EXCEPT ![p] = "PS_IDLE"]
  BY Left DEF process_ev_exited_cr, ExitedDue, IInv
<1>3. /\ m \in Nets(GoodPackets) /\ Placed(m)
      /\ Sent(net, m, {Packet(p, SUPERVISOR_PID, [type |-> "EXITED"])})
      /\ net' \in Nets(GoodPackets) /\ Sent(m, net', New)
  BY LeftSent DEF IInv
<1>4. ASSUME NEW d \in Proc \ {p} PROVE NoneOf(net, Release(p, d))
  <2>1. NoneOf(net, Asking(p, d))
    BY <1>2 DEF IInv, AllAskedOnce, AskedOnce
  <2>2. NoneOf(net, Request(p, d))
    BY <2>1 DEF NoneOf, Asking
  <2>3. ReleasedOnce(net, fsm_state, p, d)
    BY DEF AllOrdered, Ordered, Ordering
  <2>4. QED
    BY <1>2, <2>2, <2>3 DEF ReleasedOnce
<1>5. \A d \in Proc \ {p} : <<d, p>> \in asks /\ NoneOf(net, FromTo(GoodPackets, "RELEASE", p, d))
  BY <1>4 DEF Release, FromTo
<1>6. \A pkt \in New : pkt.msg.type \notin {"ENTERED", "EXITED"}
  BY DEF Packet, RELEASE
<1>7. asks \subseteq Asks(net')
  <2>1. \A a, b \in Proc : ~NoneOf(net, Release(a, b)) => ~NoneOf(m, Release(a, b))
    <3> HIDE DEF m, New
    <3>1. QED
      BY <1>1, <1>3, SentProperties
  <2>2. \A a, b \in Proc : ~NoneOf(m, Release(a, b)) => ~NoneOf(net', Release(a, b))
    <3> HIDE DEF m, New
    <3>1. QED
      BY <1>3, SentProperties
  <2>3. ASSUME NEW d \in Proc \ {p} PROVE ~NoneOf(net', Release(p, d))
    <3>1. Packet(p, d, RELEASE(p)) \in New \cap Release(p, d)
      BY ReleaseGood DEF Release, Packet, RELEASE
    <3> HIDE DEF m, New
    <3>2. QED
      BY <1>3, <3>1, SentProperties
  <2>4. QED
    BY <2>1, <2>2, <2>3 DEF Asks
<1>8. Asks(net) \subseteq asks
  OBVIOUS
<1> HIDE DEF New, asks
<1>9. OnHost(GoodPackets, "RELEASE", net, fsm_state, asks)
  BY <1>1, <1>8, HostMore
<1>10. OnHost(GoodPackets, "RELEASE", m, fsm_state', asks) /\ Reports(m) = Reports(net)
  BY <1>1, <1>2, <1>5, <1>9, SupPacketsGood, HostLeft DEF Assumptions
<1> HIDE DEF m
<1>11. OnHost(GoodPackets, "RELEASE", net', fsm_state', asks) /\ Reports(net') = Reports(m)
  BY <1>3, <1>6, <1>10, HostSent DEF Assumptions
<1>12. QED
  BY <1>7, <1>10, <1>11, HostMore DEF Freed

(* To the peer that is inside nothing is released: all have reported that they left. *)
LEMMA InsideAlone ==
    ASSUME Assumptions, IInv, AllOrdered, Freed(net, fsm_state)
    PROVE  Alone(net, fsm_state)
<1>1. SUFFICES ASSUME NEW p \in Proc, NEW q \in Proc \ {p}, fsm_state[q] = "PS_EXECUTING"
               PROVE  fsm_state[p] # "PS_EXECUTING" /\ HandedOver(net, ExitedFrom(p))
  BY DEF Alone
<1>2. fsm_state[p] # "PS_EXECUTING"
  BY <1>1, OrderedExcludes DEF AllOrdered, MutualExclusion
<1>3. p \notin Releasing(net, q)
  BY <1>1 DEF AllOrdered, Ordered, Ordering, Oldest
<1>4. <<q, p>> \notin Asks(net)
  BY <1>3 DEF Asks, Releasing
<1>5. Cleared(net, <<q, p>> \in Asks(net), p, FromTo(GoodPackets, "RELEASE", p, q))
  BY DEF Freed, OnHost
<1>6. QED
  BY <1>2, <1>4, <1>5 DEF Cleared

(* The supervisor neither sends nor receives what one peer sends another. *)
LEMMA ReleasesKept ==
    ASSUME Net = "loopback", Assumptions, Basics, SupNext \/ \E s \in Node : sendto(s)
    PROVE  Asks(net) \subseteq Asks(net')
<1>1. net \in Nets(GoodPackets) /\ Placed(net) /\ SUPERVISOR_PID \in Node
  BY BasicTypes, PidFacts DEF Assumptions
<1>2. ASSUME NEW a \in Proc, NEW b \in Proc, ~NoneOf(net, Release(a, b))
      PROVE  ~NoneOf(net', Release(a, b))
  <2>1. CASE syncro \/ do_work
    <3>1. PICK New : net' \in Nets(GoodPackets) /\ Sent(net, net', New)
      BY <1>1, <2>1, SupPacketsGood, SupervisorSends DEF Assumptions
    <3>2. QED
      BY <1>1, <1>2, <3>1, SentProperties
  <2>2. CASE SupReceive
    <3>1. PICK slot \in Receivable(SUPERVISOR_PID) : net' = dme_recv_msg(slot)
      BY <2>2 DEF SupReceive
    <3>2. PacketAt(slot).dst = SUPERVISOR_PID
      BY <1>1, ReceivePlaced
    <3>3. PacketAt(slot) \notin Release(a, b)
      BY <3>2, PidFacts DEF Release, Assumptions
    <3>4. QED
      BY <1>1, <1>2, <3>1, <3>3, ReceivePlaced
  <2>3. ASSUME NEW s \in Node, sendto(s) PROVE ~NoneOf(net', Release(a, b))
    BY <1>1, <1>2, <2>3, GoodAddressed, SendtoPlaced
  <2>4. QED
    BY <2>1, <2>2, <2>3 DEF SupNext
<1>3. QED
  BY <1>2 DEF Asks

LEMMA ANextOK ==
    ASSUME Net = "loopback", OutOfBounds = {FALSE}, Assumptions, IInv,
           AllOrdered, Announced(net, fsm_state), AInv, [Next]_vars
    PROVE  AInv'
<1> DEFINE asks == Asks(net)
<1>1. /\ net \in Nets(GoodPackets) /\ Placed(net) /\ SupTypeOK
      /\ OnHost(GoodPackets, "RELEASE", net, fsm_state, asks) /\ Unalarmed
      /\ Sight(GoodPackets, net, fsm_state, nodes) /\ Alone(net, fsm_state)
  BY InsideAlone, BasicTypes DEF IInv, AInv, Freed, Announced
<1>2. ForPeers(GoodPackets) /\ SUPERVISOR_PID \in Node
  BY PacketFields, PidFacts DEF ForPeers, Assumptions
<1>3. ASSUME UNCHANGED fsm_state, SupNext \/ \E s \in Node : sendto(s),
             OnHost(GoodPackets, "RELEASE", net', fsm_state, asks), Unalarmed'
      PROVE  AInv'
  <2>1. asks \subseteq Asks(net')
    BY <1>3, ReleasesKept DEF IInv
  <2> HIDE DEF asks
  <2>2. Freed(net', fsm_state)
    BY <1>3, <2>1, HostMore DEF Freed
  <2>3. QED
    BY <1>3, <2>2 DEF AInv
<1>4. CASE SupervisorNext
  <2>1. UNCHANGED fsm_state
    BY <1>4 DEF SupervisorNext, peerVars
  <2> HIDE DEF asks
  <2>2. OnHost(GoodPackets, "RELEASE", net', fsm_state, asks) /\ Unalarmed'
    BY <1>1, <1>2, <1>4, SupPacketsGood, HostSupervisor DEF SupervisorNext, Assumptions
  <2>3. QED
    BY <1>2, <1>3, <1>4, <2>1, <2>2 DEF SupervisorNext
<1>5. ASSUME NEW p \in Proc, PeerNext(p) PROVE AInv'
  <2>1. SupervisorUnchanged
    BY <1>5 DEF PeerNext
  <2>2. ASSUME Freed(net', fsm_state'), Reports(net') = Reports(net),
               exit_request'[SUPERVISOR_PID] = exit_request[SUPERVISOR_PID]
        PROVE  AInv'
    BY <2>1, <2>2, AlarmPeer DEF AInv, SupervisorUnchanged
  <2>3. CASE sendto(p) /\ UNCHANGED <<exit_request, peerVars, clockVars, lamportVars>>
    <3> HIDE DEF asks
    <3>1. p \in Node
      BY PidFacts DEF Assumptions
    <3>2. OnHost(GoodPackets, "RELEASE", net', fsm_state, asks) /\ Unalarmed'
      BY <1>1, <1>2, <2>1, <2>3, <3>1, HostSendto DEF Assumptions, SupervisorUnchanged
    <3>3. QED
      BY <1>3, <2>3, <3>1, <3>2 DEF peerVars
  <2>4. CASE process_ev_exited_cr(p)
    BY <2>2, <2>4, Left, AExitedOK DEF IInv
  <2>5. CASE handle_message(p)
    <3>1. PICK slot \in Receivable(p) :
             \/ SupervisorMsgKept(p, slot) /\ UNCHANGED lamportVars
             \/ \E t \in StampInstants(now) : process_ev_want_cr(p, slot, t)
             \/ RequestReceived(p, slot)
             \/ ReleaseReceived(p, slot)
             \/ ReplyReceived(p, slot)
      BY <2>5 DEF handle_message
    <3>2. CASE SupervisorMsgKept(p, slot) /\ UNCHANGED lamportVars
      <4>1. net' = dme_recv_msg(slot) /\ UNCHANGED <<fsm_state, exit_request>>
        BY <3>2 DEF SupervisorMsgKept, SupervisorMsgNoted, peerVars
      <4>2. QED
        BY <2>2, <4>1, MessageRead DEF IInv
    <3>3. CASE \E t \in StampInstants(now) : process_ev_want_cr(p, slot, t)
      BY <2>2, <3>3, AWantOK DEF IInv, process_ev_want_cr
    <3>4. CASE RequestReceived(p, slot)
      BY <2>2, <3>4, ARequestOK DEF IInv, RequestReceived
    <3>5. CASE ReleaseReceived(p, slot)
      BY <2>2, <3>5, ATurnOK DEF IInv, ReleaseReceived
    <3>6. CASE ReplyReceived(p, slot)
      BY <2>2, <3>6, ATurnOK DEF IInv, ReplyReceived
    <3>7. QED
      BY <3>1, <3>2, <3>3, <3>4, <3>5, <3>6
  <2>6. QED
    BY <1>5, <2>3, <2>4, <2>5 DEF PeerNext
<1>6. CASE UNCHANGED vars
  BY <1>6 DEF vars, peerVars, supVars, AInv, Unalarmed, Freed, Asks
<1>7. QED
  BY <1>4, <1>5, <1>6 DEF Next

(***************************************************************************)
(* On one host the supervisor does not stop an experiment that is in order,*)
(* when the memory behind its nodes array does not read as a peer that     *)
(* executes, and stamps increase with the instants they are taken at.      *)
(***************************************************************************)
THEOREM NoAlarm ==
    ASSUME Net = "loopback", OutOfBounds = {FALSE}, StampsIncrease
    PROVE  Spec => []NoFalseAlarm
<1>1. /\ Init => AllOrdered
      /\ IInv /\ AllOrdered /\ EpochKnown' /\ [Next]_vars => AllOrdered'
  BY Assumed, AllOrderedSteps
<1>2. Init => AInv
  BY Assumed, HostInit DEF Init, Assumptions, AInv, Freed
<1>3. IInv /\ AllOrdered /\ Announced(net, fsm_state) /\ AInv /\ [Next]_vars => AInv'
  BY Assumed, ANextOK
<1>4. AInv => NoFalseAlarm
  BY DEF AInv, Unalarmed, NoFalseAlarm
<1>5. Spec => []EpochKnown
  BY EpochHeard
<1>6. Spec => []Announced(net, fsm_state)
  BY AnnouncedInvariance
<1>7. QED
  BY <1>1, <1>2, <1>3, <1>4, <1>5, <1>6, Invariance, PTL DEF Spec
=============================================================================

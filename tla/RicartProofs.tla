---------------------------- MODULE RicartProofs ----------------------------
(***************************************************************************)
(* Theorems about Ricart for every nodes_count, OutOfBounds, clock and     *)
(* number of tests.  For every Net: its types, that no handler is fatal,   *)
(* and that each REPLY, on its way or deferred, is one its receiver still  *)
(* waits for.  While the competing peers know the epoch and stamps grow    *)
(* with time: mutual exclusion and the refinement of Mutex, and that only  *)
(* equal stamps can leave a process waiting.  Where packets between two    *)
(* nodes keep their order: that the supervisor's view of a peer never runs *)
(* ahead of it; and on one host, that it never stops without a reason.     *)
(***************************************************************************)
EXTENDS Ricart, PeerProofs, WellFoundedInduction

(***************************************************************************)
(* What one peer sends to another names its sender.                        *)
(***************************************************************************)
GoodPackets ==
    {pkt \in PacketType :
        pkt.msg \notin SupMsg =>
            /\ pkt.src \in Proc /\ pkt.dst \in Proc /\ pkt.src # pkt.dst
            /\ pkt.msg.pid = pkt.src}

(***************************************************************************)
(* An EXITED event is due exactly while its peer is inside, so that it     *)
(* cannot be fatal.                                                        *)
(***************************************************************************)
EventsMatch ==
    \A p \in Proc : exited_due[p] = IF fsm_state[p] = "PS_EXECUTING" THEN 1 ELSE 0

Request(p, q) ==
    {pkt \in GoodPackets : pkt.src = p /\ pkt.dst = q /\ pkt.msg.type = "REQUEST"}

Reply(p, q) ==
    {pkt \in GoodPackets : pkt.src = p /\ pkt.dst = q /\ pkt.msg.type = "REPLY"}

(* The request of p to q, from when it is sent until its answer is received. *)
Asking(p, q) == Request(p, q) \cup Reply(q, p)

(***************************************************************************)
(* A competing p asks q once: its request is on its way, or the reply is,  *)
(* or q defers the reply, or p has it (or the stamps were equal, and q has *)
(* forgotten the request).  Nobody else asks, and p is inside only with    *)
(* the reply of every q.  q defers only while it competes itself.          *)
(***************************************************************************)
AskedOnce(n, st, rd, rp, p, q) ==
    /\ AtMostOneOf(n, Asking(p, q))
    /\ p \in rd[q] => NoneOf(n, Asking(p, q)) /\ st[q] # "PS_IDLE"
    /\ st[p] # "PS_PENDING" => NoneOf(n, Asking(p, q)) /\ p \notin rd[q]
    /\ st[p] = "PS_EXECUTING" => q \in rp[p]
    /\ st[p] = "PS_PENDING" /\ q \in rp[p] => NoneOf(n, Asking(p, q)) /\ p \notin rd[q]

(* What the types, the network and a single peer allow. *)
Basics ==
    /\ TypeOK
    /\ net \in Nets(GoodPackets)
    /\ Placed(net)
    /\ EventsMatch
    /\ \A p \in Proc : p \notin ricart_RD[p]
    /\ NoPeerFatal

AllAskedOnce ==
    \A p \in Proc : \A q \in Proc \ {p} :
        AskedOnce(net, fsm_state, ricart_RD, ricart_replies, p, q)

IInv == Basics /\ AllAskedOnce

Assumptions == NetworkAssumption /\ SupervisorAssumption /\ ClockAssumption

-----------------------------------------------------------------------------
(* Messages and packets. *)

LEMMA StampType ==
    ASSUME Assumptions, sup_syncro \in [Proc -> Timespec], NEW p \in Proc, NEW t \in Nat
    PROVE  Stamp(p, t) \in Timespec
<1>1. NsecPerSec \in Nat \ {0} /\ Uint32 \in Nat \ {0}
  BY DEF Assumptions, ClockAssumption
<1>2. ASSUME NEW a \in Nat, NEW b \in Nat PROVE MinusUint32(a, b) \in Nat
  <2>1. b % Uint32 \in Nat /\ b % Uint32 < Uint32
    BY <1>1
  <2>2. a + Uint32 - (b % Uint32) \in Nat
    BY <1>1, <2>1
  <2>3. QED
    BY <1>1, <2>2 DEF MinusUint32
<1>3. t \div NsecPerSec \in Nat /\ t % NsecPerSec \in Nat
  BY <1>1
<1>4. sup_syncro[p].sec \in Nat /\ sup_syncro[p].nsec \in Nat
  BY DEF Timespec
<1>5. QED
  BY <1>2, <1>3, <1>4 DEF Stamp, Reading, Timespec

LEMMA SupPacketsGood == SupPackets \subseteq GoodPackets
BY DEF SupPackets, GoodPackets, PacketType

LEMMA RequestGood ==
    ASSUME Assumptions, sup_syncro \in [Proc -> Timespec], NEW t \in Nat,
           NEW p \in Proc, NEW q \in Proc, p # q
    PROVE  /\ Packet(p, q, REQUEST(p, t)) \in GoodPackets
           /\ REQUEST(p, t) \notin SupMsg
<1>1. REQUEST(p, t) \in PeerMsg
  BY StampType DEF REQUEST, PeerMsg
<1>2. REQUEST(p, t).type = "REQUEST" /\ REQUEST(p, t).pid = p
  BY DEF REQUEST
<1>3. REQUEST(p, t) \notin SupMsg
  BY <1>2 DEF SupMsg
<1>4. QED
  BY <1>1, <1>2, <1>3, PidFacts DEF Packet, PacketType, GoodPackets, Assumptions

LEMMA ReplyGood ==
    ASSUME Assumptions, NEW p \in Proc, NEW q \in Proc, p # q
    PROVE  /\ Packet(p, q, REPLY(p)) \in GoodPackets
           /\ REPLY(p) \notin SupMsg
<1>1. REPLY(p) \in PeerMsg
  BY DEF REPLY, PeerMsg
<1>2. REPLY(p).type = "REPLY" /\ REPLY(p).pid = p
  BY DEF REPLY
<1>3. REPLY(p) \notin SupMsg
  BY <1>2 DEF SupMsg
<1>4. QED
  BY <1>1, <1>2, <1>3, PidFacts DEF Packet, PacketType, GoodPackets, Assumptions

(* What a peer finds in a packet. *)
LEMMA PacketFields ==
    ASSUME NEW pkt \in GoodPackets
    PROVE  /\ pkt.dst \in Node
           /\ pkt.msg.type \in {"REQUEST", "REPLY"} => pkt.msg \notin SupMsg
           /\ pkt.msg \notin SupMsg =>
                 /\ pkt.src \in Proc /\ pkt.dst \in Proc /\ pkt.src # pkt.dst
                 /\ pkt.msg.pid = pkt.src
           /\ pkt.msg.type = "REQUEST" => pkt.msg.ts \in Timespec /\ pkt.msg.at \in Nat
<1>1. pkt.dst \in Node /\ pkt.msg \in SupMsg \cup PeerMsg
  BY DEF GoodPackets, PacketType
<1>2. pkt.msg.type \in {"REQUEST", "REPLY"} => pkt.msg \notin SupMsg
  BY DEF SupMsg
<1>3. pkt.msg.type = "REQUEST" => pkt.msg.ts \in Timespec /\ pkt.msg.at \in Nat
  <2>1. SUFFICES ASSUME pkt.msg.type = "REQUEST" PROVE pkt.msg.ts \in Timespec /\ pkt.msg.at \in Nat
    OBVIOUS
  <2>2. pkt.msg \in PeerMsg
    BY <1>1, <1>2, <2>1
  <2>3. QED
    BY <2>1, <2>2 DEF PeerMsg
<1>4. QED
  BY <1>1, <1>2, <1>3 DEF GoodPackets

(* What every handler of a message starts from. *)
LEMMA MessageTaken ==
    ASSUME Assumptions, Basics, NEW p \in Proc, NEW slot \in Receivable(p)
    PROVE  /\ p \in Node
           /\ dme_recv_msg(slot) \in Nets(GoodPackets)
           /\ Placed(dme_recv_msg(slot))
           /\ PacketAt(slot) \in GoodPackets
           /\ PacketAt(slot).dst = p
<1>1. p \in Node /\ net \in Nets(GoodPackets) /\ Placed(net)
  BY PidFacts DEF Assumptions, Basics
<1>2. QED
  BY <1>1, ReceiveProperties, ReceivePlaced

LEMMA GoodAddressed == \A pkt \in GoodPackets : pkt.dst \in Node
BY PacketFields

LEMMA GoodIsType == ASSUME NEW n \in Nets(GoodPackets) PROVE n \in [Lane -> Seq(PacketType)]
<1>1. GoodPackets \subseteq PacketType
  BY DEF GoodPackets
<1>2. QED
  BY <1>1, Widened DEF Nets

(* A peer's step leaves the supervisor's state well typed. *)
LEMMA SupKept ==
    ASSUME SupTypeOK, SupervisorUnchanged, UNCHANGED exit_request
    PROVE  SupTypeOK'
BY DEF SupTypeOK, SupervisorUnchanged, supVars

(* A request is stamped at an instant of the clock. *)
LEMMA InstantFacts ==
    ASSUME Assumptions, ClockTypeOK, NEW t \in StampInstants(now)
    PROVE  t \in Instants /\ t \in Nat /\ now \in Nat /\ now <= t
BY DEF StampInstants, Assumptions, ClockAssumption, ClockTypeOK

LEMMA ClockRead ==
    ASSUME Assumptions, ClockTypeOK, NEW t \in Nat, StampTaken(t)
    PROVE  ClockTypeOK'
<1>1. now' \in {t, t + 1} /\ UNCHANGED sup_syncro
  BY DEF StampTaken
<1>2. QED
  BY <1>1 DEF ClockTypeOK

LEMMA ClockArrival ==
    ASSUME Assumptions, Basics, NEW pkt \in GoodPackets, pkt.msg.type = "REQUEST"
    PROVE  /\ ArrivalTime(pkt.msg) \in Nat
           /\ RequestArrives(pkt.msg) => ClockTypeOK'
<1>1. pkt.msg.at \in Nat /\ ClockTypeOK
  BY PacketFields DEF Basics, TypeOK
<1>2. ArrivalTime(pkt.msg) \in Nat
  BY <1>1 DEF ArrivalTime, LargerOf, ClockTypeOK
<1>3. QED
  BY <1>1, <1>2 DEF RequestArrives, ClockTypeOK

(* The packet a peer message came in: from another peer, who signed it. *)
LEMMA PeerMessage ==
    ASSUME Assumptions, Basics, NEW p \in Proc, NEW slot \in Receivable(p), PeerMsgAt(p, slot)
    PROVE  LET pkt == PacketAt(slot) IN
           /\ pkt.msg.pid \in Proc \ {p}
           /\ pkt.src = pkt.msg.pid /\ pkt.dst = p
<1>1. PacketAt(slot) \in GoodPackets /\ PacketAt(slot).dst = p /\ PacketAt(slot).msg \notin SupMsg
  BY MessageTaken DEF PeerMsgAt
<1>2. QED
  BY <1>1, PacketFields

-----------------------------------------------------------------------------
(***************************************************************************)
(* What the types, the network and a single peer allow.                    *)
(***************************************************************************)
LEMMA BasicsInit == ASSUME Assumptions, Init PROVE Basics
<1>1. TypeOK
  <2>1. net \in [Lane -> Seq(PacketType)]
    BY DEF Init, NetInit
  <2>2. SupTypeOK
    BY DEF Init, SupInit, SupTypeOK, State
  <2>3. PeerTypeOK
    BY DEF Init, PeerInit, PeerTypeOK, State
  <2>4. ClockTypeOK
    BY DEF Init, ClockInit, ClockTypeOK, Timespec, Assumptions, ClockAssumption
  <2>5. /\ ricart_RD \in [Proc -> SUBSET Proc]
        /\ ricart_replies \in [Proc -> SUBSET Proc]
        /\ my_tstamp \in [Proc -> Timespec]
    BY DEF Init, Timespec
  <2>6. QED
    BY <2>1, <2>2, <2>3, <2>4, <2>5 DEF TypeOK
<1>2. net \in Nets(GoodPackets) /\ Placed(net)
  BY NothingPlaced DEF Init, NetInit, Nets
<1>3. EventsMatch
  BY DEF Init, PeerInit, EventsMatch
<1>4. NoPeerFatal
  BY PidFacts DEF Assumptions, Init, SupInit, NoPeerFatal
<1>5. \A p \in Proc : p \notin ricart_RD[p]
  BY DEF Init
<1>6. QED
  BY <1>1, <1>2, <1>3, <1>4, <1>5 DEF Basics

(* A step that leaves the FSM and the supervisor alone. *)
LEMMA BasicsKept ==
    ASSUME Assumptions, Basics, UNCHANGED peerVars, ClockTypeOK', SupTypeOK',
           net' \in Nets(GoodPackets), Placed(net'),
           \A p \in Proc : exit_request'[p] = exit_request[p],
           ricart_RD' \in [Proc -> SUBSET Proc], \A p \in Proc : p \notin ricart_RD'[p],
           ricart_replies' \in [Proc -> SUBSET Proc], my_tstamp' \in [Proc -> Timespec]
    PROVE  Basics'
<1>1. TypeOK'
  BY GoodIsType DEF Basics, TypeOK, PeerTypeOK, peerVars
<1>2. EventsMatch'
  BY DEF Basics, EventsMatch, peerVars
<1>3. NoPeerFatal'
  BY DEF Basics, NoPeerFatal
<1>4. QED
  BY <1>1, <1>2, <1>3 DEF Basics

LEMMA BasicsUntouched ==
    ASSUME Assumptions, Basics, UNCHANGED <<peerVars, ricartVars>>, ClockTypeOK', SupTypeOK',
           net' \in Nets(GoodPackets), Placed(net'),
           \A p \in Proc : exit_request'[p] = exit_request[p]
    PROVE  Basics'
<1>1. /\ ricart_RD' \in [Proc -> SUBSET Proc] /\ (\A p \in Proc : p \notin ricart_RD'[p])
      /\ ricart_replies' \in [Proc -> SUBSET Proc] /\ my_tstamp' \in [Proc -> Timespec]
  BY DEF Basics, TypeOK, ricartVars
<1>2. QED
  BY <1>1, BasicsKept

LEMMA BasicsSendto ==
    ASSUME Assumptions, Basics, NEW n \in Node, sendto(n),
           UNCHANGED <<supVars, exit_request, peerVars, clockVars, ricartVars>>
    PROVE  Basics'
<1>1. net \in Nets(GoodPackets) /\ Placed(net) /\ SupTypeOK /\ ClockTypeOK
  BY DEF Basics, TypeOK
<1>2. net' \in Nets(GoodPackets) /\ Placed(net')
  BY <1>1, GoodAddressed, SendtoProperties, SendtoPlaced
<1>3. SupTypeOK' /\ ClockTypeOK'
  BY <1>1 DEF SupTypeOK, supVars, ClockTypeOK, clockVars
<1>4. QED
  BY <1>2, <1>3, BasicsUntouched

LEMMA BasicsSupervisor == ASSUME Assumptions, Basics, SupervisorNext PROVE Basics'
<1>1. UNCHANGED <<peerVars, clockVars, ricartVars>>
  BY DEF SupervisorNext
<1>2. CASE SupNext
  <2>1. net \in Nets(GoodPackets) /\ Placed(net) /\ SupTypeOK /\ ClockTypeOK
    BY DEF Basics, TypeOK
  <2>2. /\ net' \in Nets(GoodPackets) /\ SupTypeOK'
        /\ \A p \in Proc : exit_request'[p] = exit_request[p]
    <3>1. SupPackets \cap {} = {}
      OBVIOUS
    <3>2. QED
      BY <1>2, <2>1, <3>1, SupPacketsGood, SupervisorStep DEF Assumptions
  <2>3. Placed(net')
    BY <1>2, <2>1, SupPacketsGood, SupervisorPlaced DEF Assumptions
  <2>4. ClockTypeOK'
    BY <1>1, <2>1 DEF ClockTypeOK, clockVars
  <2>5. QED
    BY <1>1, <2>2, <2>3, <2>4, BasicsUntouched
<1>3. CASE sendto(SUPERVISOR_PID) /\ UNCHANGED <<supVars, exit_request>>
  BY <1>1, <1>3, PidFacts, BasicsSendto DEF Assumptions
<1>4. QED
  BY <1>2, <1>3 DEF SupervisorNext

LEMMA BasicsNoted ==
    ASSUME Assumptions, Basics, NEW p \in Proc, NEW slot \in Receivable(p),
           SupervisorMsgKept(p, slot), UNCHANGED ricartVars, SupervisorUnchanged
    PROVE  Basics'
<1>1. net' \in Nets(GoodPackets) /\ Placed(net')
  BY MessageTaken DEF SupervisorMsgKept, SupervisorMsgNoted
<1>2. SupTypeOK' /\ UNCHANGED <<peerVars, exit_request>>
  BY SupKept DEF Basics, TypeOK, SupervisorMsgKept, SupervisorMsgNoted
<1>3. ClockTypeOK'
  <2>1. Reading(SyncroInstant) \in Timespec
    BY DEF Reading, Timespec, Assumptions, ClockAssumption
  <2>2. QED
    BY <2>1 DEF SupervisorMsgKept, Basics, TypeOK, ClockTypeOK
<1>4. QED
  BY <1>1, <1>2, <1>3, BasicsUntouched

LEMMA RequestsGood ==
    ASSUME Assumptions, Basics, NEW p \in Proc, NEW t \in StampInstants(now)
    PROVE  /\ \A q \in Proc \ {p} : Packet(p, q, REQUEST(p, t)) \in GoodPackets
           /\ Stamp(p, t) \in Timespec
<1>1. t \in Nat /\ sup_syncro \in [Proc -> Timespec]
  BY InstantFacts DEF Basics, TypeOK, ClockTypeOK
<1>2. QED
  BY <1>1, RequestGood, StampType

LEMMA BasicsWant ==
    ASSUME Assumptions, Basics, NEW p \in Proc, NEW slot \in Receivable(p),
           NEW t \in StampInstants(now), process_ev_want_cr(p, slot, t), SupervisorUnchanged
    PROVE  Basics'
<1> DEFINE m == dme_recv_msg(slot)
<1>1. p \in Node /\ m \in Nets(GoodPackets) /\ Placed(m)
  BY MessageTaken
<1>2. /\ fsm_state[p] = "PS_IDLE"
      /\ fsm_state' = [fsm_state EXCEPT ![p] = "PS_PENDING"]
      /\ ricart_replies' = [ricart_replies EXCEPT ![p] = {}]
      /\ my_tstamp' = [my_tstamp EXCEPT ![p] = Stamp(p, t)]
      /\ net' = dme_broadcast_msg(m, p, REQUEST(p, t))
      /\ StampTaken(t)
      /\ UNCHANGED <<exited_due, exit_request, ricart_RD>>
  BY DEF process_ev_want_cr, IsWant
<1> HIDE DEF m
<1>3. net' \in Nets(GoodPackets) /\ Placed(net')
  BY <1>1, <1>2, RequestsGood, OthersTold DEF Assumptions
<1>4. /\ fsm_state \in [Proc -> State] /\ exited_due \in [Proc -> Nat]
      /\ ricart_RD \in [Proc -> SUBSET Proc] /\ ricart_replies \in [Proc -> SUBSET Proc]
      /\ my_tstamp \in [Proc -> Timespec] /\ t \in Nat /\ ClockTypeOK
      /\ EventsMatch /\ NoPeerFatal
  BY InstantFacts DEF Basics, TypeOK, PeerTypeOK
<1>5. SupTypeOK' /\ ClockTypeOK'
  BY <1>2, <1>4, SupKept, ClockRead DEF Basics, TypeOK
<1>6. PeerTypeOK' /\ EventsMatch' /\ NoPeerFatal'
  BY <1>2, <1>4 DEF PeerTypeOK, State, EventsMatch, NoPeerFatal
<1>7. /\ ricart_RD' \in [Proc -> SUBSET Proc] /\ ricart_replies' \in [Proc -> SUBSET Proc]
      /\ my_tstamp' \in [Proc -> Timespec]
  BY <1>2, <1>4, RequestsGood
<1>8. QED
  BY <1>2, <1>3, <1>5, <1>6, <1>7, GoodIsType DEF Basics, TypeOK

LEMMA BasicsRequest ==
    ASSUME Assumptions, Basics, NEW p \in Proc, NEW slot \in Receivable(p),
           RequestReceived(p, slot), SupervisorUnchanged
    PROVE  Basics'
<1> DEFINE m == dme_recv_msg(slot)
           pkt == PacketAt(slot)
           q == pkt.msg.pid
<1>1. p \in Node /\ m \in Nets(GoodPackets) /\ Placed(m) /\ pkt \in GoodPackets
  BY MessageTaken
<1>2. q \in Proc \ {p} /\ q \in Node
  BY PeerMessage, PidFacts DEF RequestReceived, Assumptions
<1>3. /\ pkt.msg.type = "REQUEST" /\ RequestArrives(pkt.msg)
      /\ \E S \in {ricart_RD[p] \cup {q}, ricart_RD[p] \ {q}, ricart_RD[p]} :
             ricart_RD' = [ricart_RD EXCEPT ![p] = S]
      /\ net' = dme_send_msg(m, p, q, REPLY(p)) \/ net' = m
      /\ UNCHANGED <<peerVars, exit_request, ricart_replies, my_tstamp>>
  BY DEF RequestReceived
<1>4. Packet(p, q, REPLY(p)) \in GoodPackets
  BY <1>2, ReplyGood
<1> HIDE DEF m, pkt, q
<1>5. net' \in Nets(GoodPackets) /\ Placed(net')
  <2>1. CASE net' = m
    BY <1>1, <2>1
  <2>2. CASE net' = dme_send_msg(m, p, q, REPLY(p))
    BY <1>1, <1>2, <1>4, <2>2, OneTold
  <2>3. QED
    BY <1>3, <2>1, <2>2
<1>6. ClockTypeOK'
  BY <1>1, <1>3, ClockArrival
<1>7. SupTypeOK'
  BY <1>3, SupKept DEF Basics, TypeOK
<1>8. ricart_RD \in [Proc -> SUBSET Proc] /\ \A r \in Proc : r \notin ricart_RD[r]
  BY DEF Basics, TypeOK
<1>9. ricart_RD' \in [Proc -> SUBSET Proc] /\ \A r \in Proc : r \notin ricart_RD'[r]
  BY <1>2, <1>3, <1>8
<1>10. ricart_replies' \in [Proc -> SUBSET Proc] /\ my_tstamp' \in [Proc -> Timespec]
  BY <1>3 DEF Basics, TypeOK
<1>11. QED
  BY <1>3, <1>5, <1>6, <1>7, <1>9, <1>10, BasicsKept

LEMMA BasicsReply ==
    ASSUME Assumptions, Basics, NEW p \in Proc, NEW slot \in Receivable(p),
           ReplyReceived(p, slot), SupervisorUnchanged
    PROVE  Basics'
<1> DEFINE m == dme_recv_msg(slot)
           q == PacketAt(slot).msg.pid
<1>1. p \in Node /\ m \in Nets(GoodPackets) /\ Placed(m)
  BY MessageTaken
<1>2. q \in Proc
  BY PeerMessage DEF ReplyReceived
<1>3. /\ ricart_replies' = IF fsm_state[p] = "PS_PENDING"
                           THEN [ricart_replies EXCEPT ![p] = @ \cup {q}]
                           ELSE ricart_replies
      /\ IF fsm_state[p] = "PS_PENDING" /\ my_turn(p, ricart_replies'[p])
         THEN process_ev_entered_cr(p, fsm_state[p], m)
         ELSE net' = m /\ UNCHANGED <<peerVars, exit_request>>
      /\ UNCHANGED <<clockVars, ricart_RD, my_tstamp>>
  BY DEF ReplyReceived
<1> HIDE DEF m, q
<1>4. /\ fsm_state \in [Proc -> State] /\ exited_due \in [Proc -> Nat]
      /\ ricart_RD \in [Proc -> SUBSET Proc] /\ ricart_replies \in [Proc -> SUBSET Proc]
      /\ my_tstamp \in [Proc -> Timespec] /\ ClockTypeOK
      /\ EventsMatch /\ NoPeerFatal /\ \A r \in Proc : r \notin ricart_RD[r]
  BY DEF Basics, TypeOK, PeerTypeOK
<1>5. /\ ricart_RD' \in [Proc -> SUBSET Proc] /\ ricart_replies' \in [Proc -> SUBSET Proc]
      /\ my_tstamp' \in [Proc -> Timespec] /\ ClockTypeOK'
      /\ \A r \in Proc : r \notin ricart_RD'[r]
  BY <1>2, <1>3, <1>4 DEF ClockTypeOK, clockVars
<1>6. CASE fsm_state[p] = "PS_PENDING" /\ my_turn(p, ricart_replies'[p])
  <2>1. /\ net' = dme_send_msg(m, p, SUPERVISOR_PID, [type |-> "ENTERED"])
        /\ fsm_state' = [fsm_state EXCEPT ![p] = "PS_EXECUTING"]
        /\ exited_due' = [exited_due EXCEPT ![p] = @ + 1]
        /\ UNCHANGED exit_request
    BY <1>3, <1>6 DEF process_ev_entered_cr
  <2>2. net' \in Nets(GoodPackets) /\ Placed(net')
    BY <1>1, <2>1, SupPacketsGood, SupervisorTold DEF Assumptions
  <2>3. SupTypeOK'
    BY <2>1, SupKept DEF Basics, TypeOK
  <2>4. exited_due[p] = 0
    BY <1>4, <1>6 DEF EventsMatch
  <2>5. PeerTypeOK' /\ EventsMatch' /\ NoPeerFatal'
    BY <1>4, <2>1, <2>4 DEF PeerTypeOK, State, EventsMatch, NoPeerFatal
  <2>6. QED
    BY <1>5, <2>2, <2>3, <2>5, GoodIsType DEF Basics, TypeOK
<1>7. CASE ~(fsm_state[p] = "PS_PENDING" /\ my_turn(p, ricart_replies'[p]))
  <2>1. net' = m /\ UNCHANGED <<peerVars, exit_request>>
    BY <1>3, <1>7
  <2>2. SupTypeOK'
    BY <2>1, SupKept DEF Basics, TypeOK
  <2>3. QED
    BY <1>1, <1>5, <2>1, <2>2, BasicsKept
<1>8. QED
  BY <1>6, <1>7

(* What leaving comes to: p is inside, so that the handler is not fatal. *)
LEMMA Left ==
    ASSUME Basics, NEW p \in Proc, process_ev_exited_cr(p)
    PROVE  /\ fsm_state[p] = "PS_EXECUTING"
           /\ fsm_state' = [fsm_state EXCEPT ![p] = "PS_IDLE"]
           /\ exited_due' = [exited_due EXCEPT ![p] = @ - 1]
           /\ net' = SendToEach(InformExited(p), p, Ascending(ricart_RD[p]), REPLY(p))
           /\ ricart_RD' = [ricart_RD EXCEPT ![p] = {}]
           /\ UNCHANGED <<exit_request, clockVars, ricart_replies, my_tstamp>>
<1>1. fsm_state[p] = "PS_EXECUTING"
  BY DEF process_ev_exited_cr, ExitedDue, Basics, EventsMatch
<1>2. QED
  BY <1>1 DEF process_ev_exited_cr, LeaveCriticalRegion, Deferred

(* What it sends, to the supervisor first. *)
LEMMA LeftSent ==
    ASSUME Assumptions, Basics, NEW p \in Proc, process_ev_exited_cr(p)
    PROVE  LET m == InformExited(p) IN
           /\ m \in Nets(GoodPackets) /\ Placed(m)
           /\ Sent(net, m, {Packet(p, SUPERVISOR_PID, [type |-> "EXITED"])})
           /\ net' \in Nets(GoodPackets) /\ Placed(net')
           /\ Sent(m, net', {Packet(p, d, REPLY(p)) : d \in ricart_RD[p]})
<1> DEFINE m == InformExited(p)
<1>1. p \in Node /\ net \in Nets(GoodPackets) /\ Placed(net)
  BY PidFacts DEF Basics, Assumptions
<1>2. /\ m \in Nets(GoodPackets) /\ Placed(m)
      /\ Sent(net, m, {Packet(p, SUPERVISOR_PID, [type |-> "EXITED"])})
  BY <1>1, SupPacketsGood, SupervisorTold DEF Assumptions, InformExited
<1>3. net' = SendToEach(m, p, Ascending(ricart_RD[p]), REPLY(p))
  BY Left
<1>4. ricart_RD[p] \in SUBSET Proc /\ \A d \in ricart_RD[p] : Packet(p, d, REPLY(p)) \in GoodPackets
  BY ReplyGood DEF Basics, TypeOK
<1> HIDE DEF m
<1>5. /\ net' \in Nets(GoodPackets) /\ Placed(net')
      /\ Sent(m, net', {Packet(p, d, REPLY(p)) : d \in ricart_RD[p]})
  BY <1>1, <1>2, <1>3, <1>4, EachTold DEF Assumptions
<1>6. QED
  BY <1>2, <1>5 DEF m

LEMMA BasicsExited ==
    ASSUME Assumptions, Basics, NEW p \in Proc, process_ev_exited_cr(p), SupervisorUnchanged
    PROVE  Basics'
<1>1. net' \in Nets(GoodPackets) /\ Placed(net')
  BY LeftSent
<1>2. /\ fsm_state \in [Proc -> State] /\ exited_due \in [Proc -> Nat]
      /\ ricart_RD \in [Proc -> SUBSET Proc] /\ ricart_replies \in [Proc -> SUBSET Proc]
      /\ my_tstamp \in [Proc -> Timespec] /\ ClockTypeOK
      /\ EventsMatch /\ NoPeerFatal /\ \A r \in Proc : r \notin ricart_RD[r]
  BY DEF Basics, TypeOK, PeerTypeOK
<1>3. /\ fsm_state[p] = "PS_EXECUTING"
      /\ fsm_state' = [fsm_state EXCEPT ![p] = "PS_IDLE"]
      /\ exited_due' = [exited_due EXCEPT ![p] = @ - 1]
      /\ ricart_RD' = [ricart_RD EXCEPT ![p] = {}]
      /\ UNCHANGED <<exit_request, clockVars, ricart_replies, my_tstamp>>
  BY Left
<1>4. exited_due[p] = 1
  BY <1>2, <1>3 DEF EventsMatch
<1>5. SupTypeOK'
  BY <1>3, SupKept DEF Basics, TypeOK
<1>6. PeerTypeOK' /\ EventsMatch' /\ NoPeerFatal'
  BY <1>2, <1>3, <1>4 DEF PeerTypeOK, State, EventsMatch, NoPeerFatal
<1>7. /\ ricart_RD' \in [Proc -> SUBSET Proc] /\ ricart_replies' \in [Proc -> SUBSET Proc]
      /\ my_tstamp' \in [Proc -> Timespec] /\ ClockTypeOK'
      /\ \A r \in Proc : r \notin ricart_RD'[r]
  BY <1>2, <1>3 DEF ClockTypeOK, clockVars
<1>8. QED
  BY <1>1, <1>5, <1>6, <1>7, GoodIsType DEF Basics, TypeOK

LEMMA BasicsNext == ASSUME Assumptions, Basics, [Next]_vars PROVE Basics'
<1>1. CASE SupervisorNext
  BY <1>1, BasicsSupervisor
<1>2. ASSUME NEW p \in Proc, PeerNext(p) PROVE Basics'
  <2>1. CASE handle_message(p)
    <3>1. PICK slot \in Receivable(p) :
             \/ SupervisorMsgKept(p, slot) /\ UNCHANGED ricartVars
             \/ \E t \in StampInstants(now) : process_ev_want_cr(p, slot, t)
             \/ RequestReceived(p, slot)
             \/ ReplyReceived(p, slot)
      BY <2>1 DEF handle_message
    <3>2. SupervisorUnchanged
      BY <1>2 DEF PeerNext
    <3>3. QED
      BY <3>1, <3>2, BasicsNoted, BasicsWant, BasicsRequest, BasicsReply
  <2>2. CASE process_ev_exited_cr(p)
    BY <1>2, <2>2, BasicsExited DEF PeerNext
  <2>3. CASE sendto(p) /\ UNCHANGED <<exit_request, peerVars, clockVars, ricartVars>>
    BY <1>2, <2>3, PidFacts, BasicsSendto DEF PeerNext, SupervisorUnchanged, Assumptions
  <2>4. QED
    BY <1>2, <2>1, <2>2, <2>3 DEF PeerNext
<1>3. CASE UNCHANGED vars
  <2>1. SupTypeOK' /\ ClockTypeOK' /\ net' \in Nets(GoodPackets) /\ Placed(net')
    BY <1>3 DEF vars, Basics, TypeOK, SupTypeOK, supVars, ClockTypeOK, clockVars
  <2>2. QED
    BY <1>3, <2>1, BasicsUntouched DEF vars
<1>4. QED
  BY <1>1, <1>2, <1>3 DEF Next

-----------------------------------------------------------------------------
(***************************************************************************)
(* Who asks whom.  Nothing here needs the order of the packets.            *)
(***************************************************************************)
LEMMA OnlyPeersAsk ==
    ASSUME Assumptions, NEW p \in Proc, NEW q \in Proc, NEW pkt,
           pkt.src = SUPERVISOR_PID \/ pkt.dst = SUPERVISOR_PID \/ pkt.msg \in SupMsg
    PROVE  pkt \notin Asking(p, q)
<1>1. pkt \in GoodPackets /\ pkt.msg.type \in {"REQUEST", "REPLY"} => pkt.msg \notin SupMsg
  BY PacketFields
<1>2. QED
  BY <1>1, PidFacts DEF Asking, Request, Reply, Assumptions

(* A pair depends on its own packets, states, and sets only. *)
LEMMA AskedSame ==
    ASSUME NEW n, NEW m, NEW st, NEW rd, NEW rp, NEW su, NEW re, NEW rq, NEW p, NEW q,
           AskedOnce(n, st, rd, rp, p, q), Kept(n, m, Asking(p, q)),
           su[p] = st[p], su[q] = st[q], p \in re[q] <=> p \in rd[q], q \in rq[p] <=> q \in rp[p]
    PROVE  AskedOnce(m, su, re, rq, p, q)
BY DEF AskedOnce, Kept

LEMMA AskedUntouched ==
    ASSUME AllAskedOnce, UNCHANGED <<fsm_state, ricartVars>>,
           \A p, q \in Proc : Kept(net, net', Asking(p, q))
    PROVE  AllAskedOnce'
<1>1. SUFFICES ASSUME NEW p \in Proc, NEW q \in Proc \ {p}
               PROVE  AskedOnce(net', fsm_state', ricart_RD', ricart_replies', p, q)
  BY DEF AllAskedOnce
<1>2. AskedOnce(net, fsm_state, ricart_RD, ricart_replies, p, q)
  BY DEF AllAskedOnce
<1>3. QED
  BY <1>2, AskedSame DEF ricartVars

LEMMA AskedInit == ASSUME Assumptions, Init PROVE AllAskedOnce
<1>1. \A T : NoneOf(net, T) /\ AtMostOneOf(net, T)
  BY NothingThere, NoneIsAtMostOne DEF Init
<1>2. QED
  BY <1>1 DEF AllAskedOnce, AskedOnce, Init, PeerInit

LEMMA AskedSendto ==
    ASSUME Assumptions, IInv, NEW n \in Node, sendto(n), UNCHANGED <<peerVars, ricartVars>>
    PROVE  AllAskedOnce'
<1>1. \A p, q \in Proc : Kept(net, net', Asking(p, q))
  BY GoodAddressed, SendtoKept DEF IInv, Basics
<1>2. QED
  BY <1>1, AskedUntouched DEF IInv, peerVars

LEMMA AskedSupervisor == ASSUME Assumptions, IInv, SupervisorNext PROVE AllAskedOnce'
<1>1. UNCHANGED <<peerVars, ricartVars>> /\ UNCHANGED fsm_state
  BY DEF SupervisorNext, peerVars
<1>2. net \in Nets(GoodPackets) /\ Placed(net) /\ AllAskedOnce
  BY DEF IInv, Basics
<1>3. CASE SupNext
  <2>1. ASSUME NEW New \in SUBSET (FromSupervisor("SYNCRO") \cup FromSupervisor("WANT")),
               net' \in Nets(GoodPackets), Sent(net, net', New)
        PROVE  AllAskedOnce'
    <3>1. \A pkt \in New : pkt.src = SUPERVISOR_PID
      BY DEF FromSupervisor, Packet
    <3>2. \A p, q \in Proc : New \cap Asking(p, q) = {}
      BY <3>1, OnlyPeersAsk
    <3>3. QED
      BY <1>1, <1>2, <2>1, <3>2, SentKept, AskedUntouched
  <2>2. ASSUME NEW slot \in Receivable(SUPERVISOR_PID), net' = dme_recv_msg(slot)
        PROVE  AllAskedOnce'
    <3>1. SUPERVISOR_PID \in Node /\ PacketAt(slot).dst = SUPERVISOR_PID
      BY <1>2, PidFacts, ReceivePlaced DEF Assumptions
    <3>2. \A p, q \in Proc : PacketAt(slot) \notin Asking(p, q)
      BY <3>1, OnlyPeersAsk
    <3>3. QED
      BY <1>1, <1>2, <2>2, <3>1, <3>2, ReceiveKept, AskedUntouched
  <2>3. QED
    BY <1>2, <1>3, <2>1, <2>2, SupPacketsGood, SupervisorEffect DEF Assumptions
<1>4. CASE sendto(SUPERVISOR_PID)
  BY <1>1, <1>4, PidFacts, AskedSendto DEF Assumptions
<1>5. QED
  BY <1>3, <1>4 DEF SupervisorNext

(* Receiving a packet that is not of the pair. *)
LEMMA NotTaken ==
    ASSUME Assumptions, Basics, NEW p \in Proc, NEW slot \in Receivable(p),
           NEW a, NEW b, PacketAt(slot) \notin Asking(a, b)
    PROVE  Kept(net, dme_recv_msg(slot), Asking(a, b))
BY PidFacts, ReceiveKept DEF Basics, Assumptions

LEMMA AskedNoted ==
    ASSUME Assumptions, IInv, NEW p \in Proc, NEW slot \in Receivable(p),
           SupervisorMsgKept(p, slot), UNCHANGED ricartVars
    PROVE  AllAskedOnce'
<1>1. PacketAt(slot).msg \in SupMsg /\ net' = dme_recv_msg(slot) /\ UNCHANGED fsm_state
  BY DEF SupervisorMsgKept, SupervisorMsgNoted, SupervisorMsgAt, peerVars
<1>2. \A a, b \in Proc : Kept(net, net', Asking(a, b))
  BY <1>1, OnlyPeersAsk, NotTaken DEF IInv
<1>3. QED
  BY <1>1, <1>2, AskedUntouched DEF IInv

LEMMA AskedWant ==
    ASSUME Assumptions, IInv, NEW p \in Proc, NEW slot \in Receivable(p),
           NEW t \in StampInstants(now), process_ev_want_cr(p, slot, t)
    PROVE  AllAskedOnce'
<1> DEFINE m == dme_recv_msg(slot)
           New == {Packet(p, d, REQUEST(p, t)) : d \in Proc \ {p}}
<1>1. p \in Node /\ m \in Nets(GoodPackets) /\ Placed(m)
  BY MessageTaken DEF IInv
<1>2. \A a, b \in Proc : Kept(net, m, Asking(a, b))
  BY OnlyPeersAsk, NotTaken DEF IInv, process_ev_want_cr, SupervisorMsgAt
<1>3. /\ fsm_state[p] = "PS_IDLE"
      /\ fsm_state' = [fsm_state EXCEPT ![p] = "PS_PENDING"]
      /\ ricart_replies' = [ricart_replies EXCEPT ![p] = {}]
      /\ net' = dme_broadcast_msg(m, p, REQUEST(p, t))
      /\ UNCHANGED ricart_RD
  BY DEF process_ev_want_cr, IsWant
<1> HIDE DEF m
<1>4. net' \in Nets(GoodPackets) /\ Sent(m, net', New)
  BY <1>1, <1>3, RequestsGood, OthersTold DEF Assumptions, IInv
<1>5. \A pkt \in New : /\ pkt.src = p /\ pkt.msg.type = "REQUEST"
                       /\ pkt = Packet(p, pkt.dst, REQUEST(p, t))
  BY DEF Packet, REQUEST
<1> HIDE DEF New
<1>6. SUFFICES ASSUME NEW a \in Proc, NEW b \in Proc \ {a}
               PROVE  AskedOnce(net', fsm_state', ricart_RD', ricart_replies', a, b)
  BY DEF AllAskedOnce
<1>7. AskedOnce(net, fsm_state, ricart_RD, ricart_replies, a, b)
  BY DEF IInv, AllAskedOnce
<1>8. fsm_state \in [Proc -> State] /\ ricart_replies \in [Proc -> SUBSET Proc]
  BY DEF IInv, Basics, TypeOK, PeerTypeOK
<1>9. CASE a = p
  <2>1. NoneOf(m, Asking(a, b)) /\ a \notin ricart_RD[b]
    BY <1>2, <1>3, <1>7, <1>9 DEF AskedOnce, Kept
  <2>2. \A pkt \in New \cap Asking(a, b) : pkt = Packet(p, b, REQUEST(p, t))
    BY <1>5, <1>6, <1>9 DEF Asking, Request, Reply
  <2>3. AtMostOneOf(net', Asking(a, b))
    BY <1>1, <1>4, <2>1, <2>2, SentProperties
  <2>4. fsm_state'[a] = "PS_PENDING" /\ ricart_replies'[a] = {}
    BY <1>3, <1>8, <1>9
  <2>5. QED
    BY <1>3, <2>1, <2>3, <2>4 DEF AskedOnce
<1>10. CASE a # p
  <2>1. New \cap Asking(a, b) = {}
    BY <1>5, <1>10 DEF Asking, Request, Reply
  <2>2. AskedOnce(net', fsm_state, ricart_RD, ricart_replies, a, b)
    <3>1. Kept(m, net', Asking(a, b))
      BY <1>1, <1>4, <2>1, SentKept
    <3>2. QED
      BY <1>2, <1>7, <3>1 DEF AskedOnce, Kept
  <2>3. fsm_state'[a] = fsm_state[a] /\ ricart_replies'[a] = ricart_replies[a]
    BY <1>3, <1>8, <1>10
  <2>4. fsm_state[b] # "PS_IDLE" => fsm_state'[b] # "PS_IDLE"
    BY <1>3, <1>8
  <2>5. QED
    BY <1>3, <2>2, <2>3, <2>4 DEF AskedOnce
<1>11. QED
  BY <1>9, <1>10

(***************************************************************************)
(* p takes a message of q that belongs to a's asking b: afterwards nothing *)
(* of it is on its way, and b owes a nothing.                              *)
(***************************************************************************)
LEMMA AskingTaken ==
    ASSUME Assumptions, IInv, NEW p \in Proc, NEW slot \in Receivable(p),
           NEW a \in Proc, NEW b \in Proc \ {a}, PacketAt(slot) \in Asking(a, b)
    PROVE  /\ NoneOf(dme_recv_msg(slot), Asking(a, b))
           /\ fsm_state[a] = "PS_PENDING"
           /\ a \notin ricart_RD[b] /\ b \notin ricart_replies[a]
<1>1. AskedOnce(net, fsm_state, ricart_RD, ricart_replies, a, b)
  BY DEF IInv, AllAskedOnce
<1>2. p \in Node /\ net \in Nets(GoodPackets) /\ Placed(net)
  BY PidFacts DEF IInv, Basics, Assumptions
<1>3. ~NoneOf(net, Asking(a, b))
  BY <1>2, ReceivePlaced
<1>4. NoneOf(dme_recv_msg(slot), Asking(a, b))
  BY <1>1, <1>2, ReceiveProperties DEF AskedOnce
<1>5. QED
  BY <1>1, <1>3, <1>4 DEF AskedOnce

(* The only pair a message from q to p can belong to. *)
LEMMA TakenIsOf ==
    ASSUME Assumptions, Basics, NEW p \in Proc, NEW slot \in Receivable(p), PeerMsgAt(p, slot)
    PROVE  LET pkt == PacketAt(slot)
               q == pkt.msg.pid
           IN
           /\ q \in Proc \ {p}
           /\ pkt.msg.type = "REQUEST" =>
                 /\ pkt \in Asking(q, p)
                 /\ \A a, b : pkt \in Asking(a, b) => a = q /\ b = p
           /\ pkt.msg.type = "REPLY" =>
                 /\ pkt \in Asking(p, q)
                 /\ \A a, b : pkt \in Asking(a, b) => a = p /\ b = q
<1> DEFINE pkt == PacketAt(slot)
<1>1. pkt \in GoodPackets
  BY MessageTaken
<1>2. pkt.msg.pid \in Proc \ {p} /\ pkt.src = pkt.msg.pid /\ pkt.dst = p
  BY PeerMessage
<1> HIDE DEF pkt
<1>3. QED
  BY <1>1, <1>2 DEF Asking, Request, Reply, pkt

LEMMA AskedRequest ==
    ASSUME Assumptions, IInv, NEW p \in Proc, NEW slot \in Receivable(p),
           RequestReceived(p, slot)
    PROVE  AllAskedOnce'
<1> DEFINE m == dme_recv_msg(slot)
           pkt == PacketAt(slot)
           q == pkt.msg.pid
           reply == Packet(p, q, REPLY(p))
<1>1. p \in Node /\ m \in Nets(GoodPackets) /\ Placed(m) /\ Basics
  BY MessageTaken DEF IInv
<1>2. q \in Proc \ {p} /\ q \in Node
  BY <1>1, PeerMessage, PidFacts DEF RequestReceived, Assumptions
<1>3. pkt \in Asking(q, p) /\ \A a, b : pkt \in Asking(a, b) => a = q /\ b = p
  BY <1>1, TakenIsOf DEF RequestReceived
<1>4. /\ NoneOf(m, Asking(q, p)) /\ fsm_state[q] = "PS_PENDING"
      /\ q \notin ricart_RD[p] /\ p \notin ricart_replies[q]
  BY <1>2, <1>3, AskingTaken
<1>5. \A a, b : ~(a = q /\ b = p) => Kept(net, m, Asking(a, b))
  BY <1>1, <1>3, NotTaken
<1>6. /\ ricart_RD' = [ricart_RD EXCEPT ![p] =
                          IF Defers(p, pkt.msg.ts) THEN @ \cup {q}
                          ELSE IF fsm_state[p] = "PS_IDLE" THEN @ \ {q}
                          ELSE @]
      /\ net' = IF Replies(p, pkt.msg.ts) THEN dme_send_msg(m, p, q, REPLY(p)) ELSE m
      /\ UNCHANGED <<fsm_state, ricart_replies>>
  BY DEF RequestReceived, peerVars
<1>7. ~(Replies(p, pkt.msg.ts) /\ Defers(p, pkt.msg.ts))
  <2>1. pkt.msg.ts \in Timespec /\ my_tstamp[p] \in Timespec
    BY <1>1, MessageTaken, PacketFields DEF RequestReceived, Basics, TypeOK
  <2>2. QED
    BY <2>1 DEF Replies, Defers, Earlier, Timespec
<1>8. Defers(p, pkt.msg.ts) => fsm_state[p] # "PS_IDLE"
  BY DEF Defers
<1>9. reply \in GoodPackets
  BY <1>2, ReplyGood
<1>10. \A a, b : reply \in Asking(a, b) => a = q /\ b = p
  BY DEF Asking, Request, Reply, Packet, REPLY
<1>11. ricart_RD \in [Proc -> SUBSET Proc]
  BY <1>1 DEF Basics, TypeOK
<1>12. dme_send_msg(m, p, q, REPLY(p)) \in Nets(GoodPackets) /\ Sent(m, dme_send_msg(m, p, q, REPLY(p)), {reply})
  <2> HIDE DEF m, q
  <2>1. QED
    BY <1>1, <1>2, <1>9, OneTold DEF reply
<1> HIDE DEF m, pkt, q, reply
<1>13. AtMostOneOf(net', Asking(q, p)) /\ (Defers(p, pkt.msg.ts) => NoneOf(net', Asking(q, p)))
  <2>1. CASE Replies(p, pkt.msg.ts)
    <3>1. Sent(m, net', {reply}) /\ net' \in Nets(GoodPackets)
      BY <1>6, <1>12, <2>1
    <3>2. AtMostOneOf(net', Asking(q, p))
      BY <1>1, <1>4, <3>1, SentProperties
    <3>3. QED
      BY <1>7, <2>1, <3>2
  <2>2. CASE ~Replies(p, pkt.msg.ts)
    BY <1>4, <1>6, <2>2, NoneIsAtMostOne
  <2>3. QED
    BY <2>1, <2>2
<1>14. \A a, b : ~(a = q /\ b = p) => Kept(net, net', Asking(a, b))
  <2>1. SUFFICES ASSUME NEW a, NEW b, ~(a = q /\ b = p) PROVE Kept(m, net', Asking(a, b))
    BY <1>5 DEF Kept
  <2>2. CASE Replies(p, pkt.msg.ts)
    <3>1. {reply} \cap Asking(a, b) = {}
      BY <1>10, <2>1
    <3>2. Sent(m, net', {reply}) /\ net' \in Nets(GoodPackets)
      BY <1>6, <1>12, <2>2
    <3>3. QED
      BY <1>1, <3>1, <3>2, SentKept
  <2>3. CASE ~Replies(p, pkt.msg.ts)
    BY <1>6, <2>3 DEF Kept
  <2>4. QED
    BY <2>2, <2>3
<1>15. \A a, b \in Proc : ~(a = q /\ b = p) => (a \in ricart_RD'[b] <=> a \in ricart_RD[b])
  BY <1>2, <1>4, <1>6, <1>11
<1>16. q \in ricart_RD'[p] <=> Defers(p, pkt.msg.ts)
  BY <1>2, <1>4, <1>6, <1>11
<1>17. SUFFICES ASSUME NEW a \in Proc, NEW b \in Proc \ {a}
                PROVE  AskedOnce(net', fsm_state', ricart_RD', ricart_replies', a, b)
  BY DEF AllAskedOnce
<1>18. CASE a = q /\ b = p
  BY <1>4, <1>6, <1>8, <1>13, <1>16, <1>18 DEF AskedOnce
<1>19. CASE ~(a = q /\ b = p)
  <2>1. AskedOnce(net, fsm_state, ricart_RD, ricart_replies, a, b)
    BY DEF IInv, AllAskedOnce
  <2>2. /\ Kept(net, net', Asking(a, b)) /\ UNCHANGED <<fsm_state, ricart_replies>>
        /\ a \in ricart_RD'[b] <=> a \in ricart_RD[b]
    BY <1>6, <1>14, <1>15, <1>17, <1>19
  <2>3. QED
    BY <2>1, <2>2 DEF AskedOnce, Kept
<1>20. QED
  BY <1>18, <1>19

LEMMA AskedReply ==
    ASSUME Assumptions, IInv, NEW p \in Proc, NEW slot \in Receivable(p),
           ReplyReceived(p, slot)
    PROVE  AllAskedOnce'
<1> DEFINE m == dme_recv_msg(slot)
           pkt == PacketAt(slot)
           q == pkt.msg.pid
<1>1. p \in Node /\ m \in Nets(GoodPackets) /\ Placed(m) /\ Basics
  BY MessageTaken DEF IInv
<1>2. q \in Proc \ {p}
  BY <1>1, PeerMessage DEF ReplyReceived
<1>3. pkt \in Asking(p, q) /\ \A a, b : pkt \in Asking(a, b) => a = p /\ b = q
  BY <1>1, TakenIsOf DEF ReplyReceived
<1>4. /\ NoneOf(m, Asking(p, q)) /\ fsm_state[p] = "PS_PENDING"
      /\ p \notin ricart_RD[q] /\ q \notin ricart_replies[p]
  BY <1>2, <1>3, AskingTaken
<1>5. \A a, b : ~(a = p /\ b = q) => Kept(net, m, Asking(a, b))
  BY <1>1, <1>3, NotTaken
<1>6. /\ ricart_replies' = [ricart_replies EXCEPT ![p] = @ \cup {q}]
      /\ IF my_turn(p, ricart_replies'[p])
         THEN process_ev_entered_cr(p, "PS_PENDING", m)
         ELSE net' = m /\ UNCHANGED <<peerVars, exit_request>>
      /\ UNCHANGED ricart_RD
  BY <1>4 DEF ReplyReceived
<1> HIDE DEF m, pkt, q
<1>7. fsm_state \in [Proc -> State] /\ ricart_replies \in [Proc -> SUBSET Proc]
  BY <1>1 DEF Basics, TypeOK, PeerTypeOK
<1>8. /\ \A a \in Proc \ {p} : fsm_state'[a] = fsm_state[a] /\ ricart_replies'[a] = ricart_replies[a]
      /\ ricart_replies'[p] = ricart_replies[p] \cup {q}
      /\ \/ fsm_state'[p] = "PS_PENDING"
         \/ fsm_state'[p] = "PS_EXECUTING" /\ Proc \ {p} \subseteq ricart_replies'[p]
  <2>1. CASE my_turn(p, ricart_replies'[p])
    <3>1. fsm_state' = [fsm_state EXCEPT ![p] = "PS_EXECUTING"]
      BY <1>6, <2>1 DEF process_ev_entered_cr
    <3>2. QED
      BY <1>6, <1>7, <2>1, <3>1 DEF my_turn
  <2>2. CASE ~my_turn(p, ricart_replies'[p])
    BY <1>4, <1>6, <1>7, <2>2 DEF peerVars
  <2>3. QED
    BY <2>1, <2>2
<1>9. \A a, b \in Proc : Kept(m, net', Asking(a, b))
  <2>1. CASE my_turn(p, ricart_replies'[p])
    <3> DEFINE told == Packet(p, SUPERVISOR_PID, [type |-> "ENTERED"])
    <3>1. net' = dme_send_msg(m, p, SUPERVISOR_PID, [type |-> "ENTERED"])
      BY <1>6, <2>1 DEF process_ev_entered_cr
    <3>2. net' \in Nets(GoodPackets) /\ Sent(m, net', {told})
      BY <1>1, <3>1, SupPacketsGood, SupervisorTold DEF Assumptions
    <3>3. told.dst = SUPERVISOR_PID
      BY DEF Packet
    <3> HIDE DEF told
    <3>4. \A a, b \in Proc : {told} \cap Asking(a, b) = {}
      BY <3>3, OnlyPeersAsk
    <3>5. QED
      BY <1>1, <3>2, <3>4, SentKept
  <2>2. CASE ~my_turn(p, ricart_replies'[p])
    BY <1>6, <2>2 DEF Kept
  <2>3. QED
    BY <2>1, <2>2
<1>10. SUFFICES ASSUME NEW a \in Proc, NEW b \in Proc \ {a}
                PROVE  AskedOnce(net', fsm_state', ricart_RD', ricart_replies', a, b)
  BY DEF AllAskedOnce
<1>11. AskedOnce(net, fsm_state, ricart_RD, ricart_replies, a, b)
  BY DEF IInv, AllAskedOnce
<1>12. fsm_state[b] # "PS_IDLE" => fsm_state'[b] # "PS_IDLE"
  BY <1>8
<1>13. CASE a = p /\ b = q
  <2>1. NoneOf(net', Asking(a, b))
    BY <1>2, <1>4, <1>9, <1>13 DEF Kept
  <2>2. b \in ricart_replies'[a] /\ a \notin ricart_RD'[b]
    BY <1>4, <1>6, <1>8, <1>13
  <2>3. QED
    BY <2>1, <2>2, NoneIsAtMostOne DEF AskedOnce
<1>14. CASE a = p /\ b # q
  <2>1. Kept(net, net', Asking(a, b))
    BY <1>5, <1>9, <1>14 DEF Kept
  <2>2. b \in ricart_replies'[a] <=> b \in ricart_replies[a]
    BY <1>8, <1>14
  <2>3. fsm_state[a] = "PS_PENDING" /\ (a \in ricart_RD'[b] <=> a \in ricart_RD[b])
    BY <1>4, <1>6, <1>14
  <2>4. fsm_state'[a] = "PS_PENDING" \/ (fsm_state'[a] = "PS_EXECUTING" /\ b \in ricart_replies'[a])
    BY <1>8, <1>10, <1>14
  <2>5. QED
    BY <1>11, <1>12, <2>1, <2>2, <2>3, <2>4 DEF AskedOnce, Kept
<1>15. CASE a # p
  <2>1. Kept(net, net', Asking(a, b))
    BY <1>5, <1>9, <1>15 DEF Kept
  <2>2. fsm_state'[a] = fsm_state[a] /\ ricart_replies'[a] = ricart_replies[a]
    BY <1>8, <1>15
  <2>3. QED
    BY <1>6, <1>11, <1>12, <2>1, <2>2 DEF AskedOnce, Kept
<1>16. QED
  BY <1>13, <1>14, <1>15

LEMMA AskedExited ==
    ASSUME Assumptions, IInv, NEW p \in Proc, process_ev_exited_cr(p)
    PROVE  AllAskedOnce'
<1> DEFINE m == InformExited(p)
           told == Packet(p, SUPERVISOR_PID, [type |-> "EXITED"])
           New == {Packet(p, d, REPLY(p)) : d \in ricart_RD[p]}
<1>1. /\ m \in Nets(GoodPackets) /\ Placed(m) /\ Sent(net, m, {told})
      /\ net' \in Nets(GoodPackets) /\ Sent(m, net', New)
  BY LeftSent DEF IInv
<1>2. /\ fsm_state[p] = "PS_EXECUTING"
      /\ fsm_state' = [fsm_state EXCEPT ![p] = "PS_IDLE"]
      /\ ricart_RD' = [ricart_RD EXCEPT ![p] = {}]
      /\ UNCHANGED ricart_replies
  BY Left DEF IInv
<1>3. told.dst = SUPERVISOR_PID
  BY DEF Packet
<1>4. \A pkt \in New : /\ pkt.src = p /\ pkt.dst \in ricart_RD[p] /\ pkt.msg.type = "REPLY"
                       /\ pkt = Packet(p, pkt.dst, REPLY(p))
  BY DEF Packet, REPLY
<1> HIDE DEF m, told, New
<1>5. \A a, b \in Proc : Kept(net, m, Asking(a, b))
  <2>1. \A a, b \in Proc : {told} \cap Asking(a, b) = {}
    BY <1>3, OnlyPeersAsk
  <2>2. net \in Nets(GoodPackets)
    BY DEF IInv, Basics
  <2>3. QED
    BY <1>1, <2>1, <2>2, SentKept
<1>6. /\ fsm_state \in [Proc -> State] /\ ricart_RD \in [Proc -> SUBSET Proc]
  BY DEF IInv, Basics, TypeOK, PeerTypeOK
<1>7. SUFFICES ASSUME NEW a \in Proc, NEW b \in Proc \ {a}
               PROVE  AskedOnce(net', fsm_state', ricart_RD', ricart_replies', a, b)
  BY DEF AllAskedOnce
<1>8. AskedOnce(net, fsm_state, ricart_RD, ricart_replies, a, b)
  BY DEF IInv, AllAskedOnce
<1>9. \A pkt \in New \cap Asking(a, b) :
         b = p /\ a \in ricart_RD[p] /\ pkt = Packet(p, a, REPLY(p))
  BY <1>4 DEF Asking, Request, Reply
<1>10. CASE b = p /\ a \in ricart_RD[p]
  <2>1. NoneOf(m, Asking(a, b)) /\ fsm_state[a] = "PS_PENDING"
    BY <1>5, <1>8, <1>10 DEF AskedOnce, Kept
  <2>2. b \notin ricart_replies[a]
    BY <1>8, <1>10, <2>1 DEF AskedOnce
  <2>3. AtMostOneOf(net', Asking(a, b))
    BY <1>1, <1>9, <2>1, SentProperties
  <2>4. fsm_state'[a] = "PS_PENDING" /\ a \notin ricart_RD'[b]
    BY <1>2, <1>6, <1>7, <1>10, <2>1
  <2>5. QED
    BY <1>2, <2>2, <2>3, <2>4 DEF AskedOnce
<1>11. CASE ~(b = p /\ a \in ricart_RD[p])
  <2>1. New \cap Asking(a, b) = {}
    BY <1>9, <1>11
  <2>2. Kept(net, net', Asking(a, b))
    <3>1. Kept(m, net', Asking(a, b))
      BY <1>1, <2>1, SentKept
    <3>2. QED
      BY <1>5, <3>1 DEF Kept
  <2>3. a \in ricart_RD'[b] <=> a \in ricart_RD[b]
    BY <1>2, <1>6, <1>11
  <2>4. a \in ricart_RD[b] => b # p
    BY <1>11
  <2>5. CASE a = p
    <3>1. fsm_state'[a] = "PS_IDLE" /\ fsm_state'[b] = fsm_state[b]
      BY <1>2, <1>6, <1>7, <2>5
    <3>2. NoneOf(net, Asking(a, b)) /\ a \notin ricart_RD[b]
      BY <1>2, <1>8, <2>5 DEF AskedOnce
    <3>3. QED
      BY <2>2, <2>3, <3>1, <3>2, NoneIsAtMostOne DEF AskedOnce, Kept
  <2>6. CASE a # p
    <3>1. fsm_state'[a] = fsm_state[a] /\ (b # p => fsm_state'[b] = fsm_state[b])
      BY <1>2, <1>6, <2>6
    <3>2. QED
      BY <1>2, <1>8, <2>2, <2>3, <2>4, <3>1 DEF AskedOnce, Kept
  <2>7. QED
    BY <2>5, <2>6
<1>12. QED
  BY <1>10, <1>11

LEMMA AskedNext == ASSUME Assumptions, IInv, [Next]_vars PROVE AllAskedOnce'
<1>1. CASE SupervisorNext
  BY <1>1, AskedSupervisor
<1>2. ASSUME NEW p \in Proc, PeerNext(p) PROVE AllAskedOnce'
  <2>1. CASE handle_message(p)
    <3>1. PICK slot \in Receivable(p) :
             \/ SupervisorMsgKept(p, slot) /\ UNCHANGED ricartVars
             \/ \E t \in StampInstants(now) : process_ev_want_cr(p, slot, t)
             \/ RequestReceived(p, slot)
             \/ ReplyReceived(p, slot)
      BY <2>1 DEF handle_message
    <3>2. QED
      BY <3>1, AskedNoted, AskedWant, AskedRequest, AskedReply
  <2>2. CASE process_ev_exited_cr(p)
    BY <2>2, AskedExited
  <2>3. CASE sendto(p) /\ UNCHANGED <<exit_request, peerVars, clockVars, ricartVars>>
    BY <2>3, PidFacts, AskedSendto DEF Assumptions
  <2>4. QED
    BY <1>2, <2>1, <2>2, <2>3 DEF PeerNext
<1>3. CASE UNCHANGED vars
  BY <1>3, AskedUntouched DEF vars, peerVars, Kept, IInv
<1>4. QED
  BY <1>1, <1>2, <1>3 DEF Next

LEMMA Invariance == Spec => []IInv
<1>1. Assumptions
  BY NetworkAssumption, SupervisorAssumption, ClockAssumption DEF Assumptions
<1>2. Init => IInv
  BY <1>1, BasicsInit, AskedInit DEF IInv
<1>3. IInv /\ [Next]_vars => IInv'
  BY <1>1, BasicsNext, AskedNext DEF IInv
<1>4. QED
  BY <1>2, <1>3, PTL DEF Spec

(***************************************************************************)
(* Everything keeps the type the code gives it.                            *)
(***************************************************************************)
THEOREM TypeCorrect == Spec => []TypeOK
<1>1. IInv => TypeOK
  BY DEF IInv, Basics
<1>2. QED
  BY <1>1, Invariance, PTL

(***************************************************************************)
(* No peer running ricart.c takes a fatal branch.                          *)
(***************************************************************************)
THEOREM NeverFatal == Spec => []NoPeerFatal
<1>1. IInv => NoPeerFatal
  BY DEF IInv, Basics
<1>2. QED
  BY <1>1, Invariance, PTL

(***************************************************************************)
(* Every REPLY on its way is one its receiver, PENDING, waits for and has  *)
(* not got: on networks that reorder packets, too.                         *)
(***************************************************************************)
THEOREM RepliesExpected == Spec => []RepliesAreExpected
<1>1. ASSUME IInv PROVE RepliesAreExpected
  <2>1. SUFFICES ASSUME NEW pkt \in Packets, pkt.msg.type = "REPLY"
                 PROVE  /\ fsm_state[pkt.dst] = "PS_PENDING"
                        /\ pkt.src \notin ricart_replies[pkt.dst]
    BY DEF RepliesAreExpected
  <2>2. net \in Nets(GoodPackets)
    BY <1>1 DEF IInv, Basics
  <2>3. pkt \in GoodPackets
    BY <2>2, OnItsWay
  <2>4. pkt.src \in Proc /\ pkt.dst \in Proc /\ pkt.src # pkt.dst
    BY <2>1, <2>3, PacketFields
  <2>5. pkt \in Asking(pkt.dst, pkt.src)
    BY <2>1, <2>3 DEF Asking, Reply
  <2>6. ~NoneOf(net, Asking(pkt.dst, pkt.src))
    BY <2>2, <2>5, OnItsWay
  <2>7. AskedOnce(net, fsm_state, ricart_RD, ricart_replies, pkt.dst, pkt.src)
    BY <1>1, <2>4 DEF IInv, AllAskedOnce
  <2>8. QED
    BY <2>6, <2>7 DEF AskedOnce
<1>2. QED
  BY <1>1, Invariance, PTL

(***************************************************************************)
(* Every deferred REPLY is owed to a process that waits for it, by one     *)
(* that is still to leave the critical region.                             *)
(***************************************************************************)
THEOREM DeferredWaiting == Spec => []DeferredAreWaiting
<1>1. ASSUME IInv PROVE DeferredAreWaiting
  <2>1. SUFFICES ASSUME NEW p \in Proc, NEW q \in ricart_RD[p]
                 PROVE  /\ fsm_state[p] # "PS_IDLE"
                        /\ fsm_state[q] = "PS_PENDING"
                        /\ p \notin ricart_replies[q]
    BY DEF DeferredAreWaiting
  <2>2. q \in Proc \ {p}
    BY <1>1 DEF IInv, Basics, TypeOK
  <2>3. AskedOnce(net, fsm_state, ricart_RD, ricart_replies, q, p)
    BY <1>1, <2>2 DEF IInv, AllAskedOnce
  <2>4. QED
    BY <2>3 DEF AskedOnce
<1>2. QED
  BY <1>1, Invariance, PTL

-----------------------------------------------------------------------------
(* What a single peer has, in one place. *)
LEMMA BasicTypes ==
    ASSUME Basics
    PROVE  /\ fsm_state \in [Proc -> State] /\ exited_due \in [Proc -> Nat]
           /\ ricart_RD \in [Proc -> SUBSET Proc] /\ ricart_replies \in [Proc -> SUBSET Proc]
           /\ my_tstamp \in [Proc -> Timespec]
           /\ ClockTypeOK /\ now \in Nat /\ SupTypeOK /\ EventsMatch /\ NoPeerFatal
           /\ net \in Nets(GoodPackets) /\ Placed(net)
BY DEF Basics, TypeOK, PeerTypeOK, ClockTypeOK

(***************************************************************************)
(* The epoch of the experiment, on networks that keep the order of the     *)
(* packets between two nodes: what the supervisor sees of its peers, and   *)
(* which of them know when the experiment started.                         *)
(***************************************************************************)
Informed == {p \in Proc : sup_syncro[p] = Reading(SyncroInstant)}

Announced(n, st) ==
    /\ Sight(GoodPackets, n, st, nodes)
    /\ AllHeard(n, st, Informed, syncro_done)

LEMMA PacketKinds == TypesApart(GoodPackets)
<1>1. \A msg \in PeerMsg : msg.type \in {"REQUEST", "REPLY"}
  BY DEF PeerMsg
<1>2. QED
  BY <1>1 DEF TypesApart, SupTypes, GoodPackets, PacketType

LEMMA AnnouncedInit == ASSUME Assumptions, Init PROVE Announced(net, fsm_state)
<1>1. \A p \in Proc : fsm_state[p] = "PS_IDLE" /\ nodes[p] = "PS_IDLE"
  BY DEF Init, PeerInit, SupInit
<1>2. Sight(GoodPackets, net, fsm_state, nodes)
  BY <1>1, SightInit DEF Init
<1>3. AllHeard(net, fsm_state, Informed, syncro_done)
  BY <1>1, NothingHeard DEF Init, SupInit
<1>4. QED
  BY <1>2, <1>3 DEF Announced

(* It is the supervisor's state and sup_syncro that the rest depends on. *)
LEMMA AnnouncedSame ==
    ASSUME Announced(net', fsm_state'), SupervisorUnchanged, UNCHANGED sup_syncro
    PROVE  Announced(net, fsm_state)'
BY DEF Announced, Informed, SupervisorUnchanged, supVars

LEMMA AnnouncedSupervisor ==
    ASSUME Net # "udp", Assumptions, Basics, Announced(net, fsm_state), SupervisorNext
    PROVE  Announced(net, fsm_state)'
<1>1. UNCHANGED <<fsm_state, sup_syncro>>
  BY DEF SupervisorNext, peerVars, clockVars
<1>2. /\ net \in Nets(GoodPackets) /\ Placed(net) /\ SupTypeOK
      /\ Sight(GoodPackets, net, fsm_state, nodes)
      /\ AllHeard(net, fsm_state, Informed, syncro_done)
  BY BasicTypes DEF Announced
<1>3. CASE SupNext
  <2>1. Sight(GoodPackets, net', fsm_state, nodes')
    BY <1>2, <1>3, SupPacketsGood, PacketKinds, SightSupervisor DEF Assumptions
  <2>2. AllHeard(net', fsm_state, Informed, syncro_done')
    BY <1>2, <1>3, SupPacketsGood, HeardSupervisor DEF Assumptions
  <2>3. QED
    BY <1>1, <2>1, <2>2 DEF Announced, Informed
<1>4. CASE sendto(SUPERVISOR_PID) /\ UNCHANGED <<supVars, exit_request>>
  <2>1. Sight(GoodPackets, net', fsm_state, nodes)
    BY <1>2, <1>4, GoodAddressed, PidFacts, SightSendto DEF Assumptions
  <2>2. AllHeard(net', fsm_state, Informed, syncro_done)
    BY <1>2, <1>4, GoodAddressed, PidFacts, HeardSendto DEF Assumptions
  <2>3. QED
    BY <1>1, <1>4, <2>1, <2>2 DEF Announced, Informed, supVars
<1>5. QED
  BY <1>3, <1>4 DEF SupervisorNext

LEMMA AnnouncedSendto ==
    ASSUME Assumptions, Basics, NEW p \in Proc, sendto(p), Announced(net, fsm_state)
    PROVE  Announced(net', fsm_state)
BY BasicTypes, GoodAddressed, PidFacts, SightSendto, HeardSendto DEF Assumptions, Announced

(* What one peer sends to another does not matter. *)
LEMMA AnnouncedSent ==
    ASSUME Assumptions, NEW n \in Nets(GoodPackets), Placed(n), NEW m \in Nets(GoodPackets),
           NEW New, Sent(n, m, New), \A pkt \in New : pkt.msg \notin SupMsg,
           NEW st, Announced(n, st)
    PROVE  Announced(m, st)
<1>1. \A pkt \in New, p \in Proc : pkt \notin SyncroTo(p) /\ pkt \notin WantTo(p)
  <2>1. \A p \in Proc : \A pkt \in SyncroTo(p) \cup WantTo(p) : pkt.msg \in SupMsg
    BY DEF SyncroTo, WantTo, FromSupervisor, Packet, SupMsg
  <2>2. QED
    BY <2>1
<1>2. QED
  BY <1>1, SightSent, HeardSent DEF Assumptions, Announced

LEMMA AnnouncedTaken ==
    ASSUME Assumptions, Basics, NEW p \in Proc, NEW slot \in Receivable(p), PeerMsgAt(p, slot),
           Announced(net, fsm_state)
    PROVE  Announced(dme_recv_msg(slot), fsm_state)
BY BasicTypes, PidFacts, SightOthers, HeardOthers DEF PeerMsgAt, Assumptions, Announced

LEMMA AnnouncedNoted ==
    ASSUME Assumptions, Basics, NEW p \in Proc, NEW slot \in Receivable(p),
           SupervisorMsgKept(p, slot), SupervisorUnchanged, Announced(net, fsm_state)
    PROVE  Announced(net, fsm_state)'
<1>1. /\ net \in Nets(GoodPackets) /\ Placed(net)
      /\ Sight(GoodPackets, net, fsm_state, nodes)
      /\ AllHeard(net, fsm_state, Informed, syncro_done)
  BY BasicTypes DEF Announced
<1>2. SupervisorMsgNoted(p, slot) /\ UNCHANGED fsm_state /\ UNCHANGED <<nodes, syncro_done>>
  BY DEF SupervisorMsgKept, SupervisorMsgNoted, peerVars, SupervisorUnchanged, supVars
<1>3. Sight(GoodPackets, net', fsm_state, nodes)
  BY <1>1, <1>2, SightNoted DEF Assumptions
<1>4. \A q \in Proc : q \in Informed' <=> q \in Informed \/ (q = p /\ IsSyncro(p, slot))
  <2>1. sup_syncro \in [Proc -> Timespec]
    BY BasicTypes DEF ClockTypeOK
  <2>2. sup_syncro' = IF IsSyncro(p, slot)
                      THEN [sup_syncro EXCEPT ![p] = Reading(SyncroInstant)]
                      ELSE sup_syncro
    BY DEF SupervisorMsgKept
  <2>3. QED
    BY <2>1, <2>2 DEF Informed
<1>5. AllHeard(net', fsm_state, Informed', syncro_done)
  <2> DEFINE L == Informed'
             K == Informed
  <2>1. \A q \in Proc : q \in L <=> q \in K \/ (q = p /\ IsSyncro(p, slot))
    BY <1>4
  <2> HIDE DEF L
  <2>2. AllHeard(net, fsm_state, K, syncro_done)
    BY <1>1
  <2> HIDE DEF K
  <2>3. AllHeard(net', fsm_state, L, syncro_done)
    BY <1>1, <1>2, <2>1, <2>2, HeardNoted DEF Assumptions
  <2>4. QED
    BY <2>3 DEF L
<1>6. QED
  BY <1>2, <1>3, <1>5 DEF Announced

(* Who is told to compete has read the announcement. *)
LEMMA AnnouncedWant ==
    ASSUME Net # "udp", Assumptions, Basics, NEW p \in Proc, NEW slot \in Receivable(p),
           SupervisorMsgAt(p, slot), IsWant(p, slot), Announced(net, fsm_state)
    PROVE  /\ p \in Informed
           /\ Announced(dme_recv_msg(slot), [fsm_state EXCEPT ![p] = "PS_PENDING"])
<1>1. /\ net \in Nets(GoodPackets) /\ Placed(net) /\ fsm_state \in [Proc -> State]
      /\ Sight(GoodPackets, net, fsm_state, nodes)
      /\ AllHeard(net, fsm_state, Informed, syncro_done)
      /\ syncro_done \in BOOLEAN
  BY BasicTypes DEF Announced, SupTypeOK
<1>2. PacketAt(slot).msg \in SupMsg /\ PacketAt(slot).msg.type = "WANT"
  BY DEF SupervisorMsgAt, IsWant
<1>3. Sight(GoodPackets, dme_recv_msg(slot), [fsm_state EXCEPT ![p] = "PS_PENDING"], nodes)
  BY <1>1, <1>2, SightWanted DEF Assumptions
<1>4. /\ p \in Informed
      /\ AllHeard(dme_recv_msg(slot), [fsm_state EXCEPT ![p] = "PS_PENDING"],
                  Informed, syncro_done)
  <2> DEFINE m == dme_recv_msg(slot)
             K == Informed
  <2>1. /\ p \in K
        /\ \A s : AllHeard(m, [fsm_state EXCEPT ![p] = s], K, syncro_done)
    <3> HIDE DEF K
    <3>1. AllHeard(net, fsm_state, K, syncro_done)
      BY <1>1 DEF K
    <3>2. QED
      BY <1>1, <1>2, <3>1, HeardWanted DEF Assumptions
  <2> HIDE DEF m, K
  <2>2. AllHeard(m, [fsm_state EXCEPT ![p] = "PS_PENDING"], K, syncro_done)
    BY <2>1
  <2>3. QED
    BY <2>1, <2>2 DEF m, K
<1>5. QED
  BY <1>3, <1>4 DEF Announced

(* Entering and leaving: the supervisor is told. *)
LEMMA AnnouncedEntered ==
    ASSUME Assumptions, Basics, NEW p \in Proc, fsm_state[p] = "PS_PENDING",
           NEW n \in Nets(GoodPackets), Placed(n), Announced(n, fsm_state)
    PROVE  Announced(dme_send_msg(n, p, SUPERVISOR_PID, [type |-> "ENTERED"]),
                     [fsm_state EXCEPT ![p] = "PS_EXECUTING"])
<1> DEFINE m == dme_send_msg(n, p, SUPERVISOR_PID, [type |-> "ENTERED"])
<1>1. fsm_state \in [Proc -> State] /\ SupPackets \subseteq GoodPackets
  BY BasicTypes, SupPacketsGood
<1>2. Sight(GoodPackets, n, fsm_state, nodes) /\ AllHeard(n, fsm_state, Informed, syncro_done)
  BY DEF Announced
<1>3. Sight(GoodPackets, m, [fsm_state EXCEPT ![p] = "PS_EXECUTING"], nodes)
  BY <1>1, <1>2, SightEntered DEF Assumptions
<1>4. AllHeard(m, fsm_state, Informed, syncro_done)
  BY <1>1, <1>2, HeardTold DEF Assumptions
<1> HIDE DEF m
<1>5. AllHeard(m, [fsm_state EXCEPT ![p] = "PS_EXECUTING"], Informed, syncro_done)
  BY <1>1, <1>4, HeardMoved
<1>6. QED
  BY <1>3, <1>5 DEF Announced, m

LEMMA AnnouncedExited ==
    ASSUME Assumptions, Basics, NEW p \in Proc, fsm_state[p] = "PS_EXECUTING",
           Announced(net, fsm_state)
    PROVE  Announced(InformExited(p), [fsm_state EXCEPT ![p] = "PS_IDLE"])
<1> DEFINE m == dme_send_msg(net, p, SUPERVISOR_PID, [type |-> "EXITED"])
<1>1. /\ fsm_state \in [Proc -> State] /\ SupPackets \subseteq GoodPackets
      /\ net \in Nets(GoodPackets) /\ Placed(net)
  BY BasicTypes, SupPacketsGood
<1>2. /\ Sight(GoodPackets, net, fsm_state, nodes)
      /\ AllHeard(net, fsm_state, Informed, syncro_done)
  BY DEF Announced
<1>3. Sight(GoodPackets, m, [fsm_state EXCEPT ![p] = "PS_IDLE"], nodes)
  BY <1>1, <1>2, SightExited DEF Assumptions
<1>4. AllHeard(m, fsm_state, Informed, syncro_done)
  BY <1>1, <1>2, HeardTold DEF Assumptions
<1> HIDE DEF m
<1>5. AllHeard(m, [fsm_state EXCEPT ![p] = "PS_IDLE"], Informed, syncro_done)
  BY <1>1, <1>4, HeardMoved
<1>6. QED
  BY <1>3, <1>5 DEF Announced, m, InformExited

(* The handlers. *)
LEMMA AnnouncedNext ==
    ASSUME Net # "udp", Assumptions, Basics, [Next]_vars, Announced(net, fsm_state)
    PROVE  Announced(net, fsm_state)'
<1>1. CASE SupervisorNext
  BY <1>1, AnnouncedSupervisor
<1>2. ASSUME NEW p \in Proc, PeerNext(p) PROVE Announced(net, fsm_state)'
  <2>1. SupervisorUnchanged
    BY <1>2 DEF PeerNext
  <2>2. ASSUME NEW slot \in Receivable(p), NEW t \in StampInstants(now), process_ev_want_cr(p, slot, t)
        PROVE  Announced(net, fsm_state)'
    <3> DEFINE m == dme_recv_msg(slot)
               New == {Packet(p, d, REQUEST(p, t)) : d \in Proc \ {p}}
    <3>1. p \in Node /\ m \in Nets(GoodPackets) /\ Placed(m)
      BY MessageTaken
    <3>2. /\ SupervisorMsgAt(p, slot) /\ IsWant(p, slot)
          /\ fsm_state' = [fsm_state EXCEPT ![p] = "PS_PENDING"]
          /\ net' = dme_broadcast_msg(m, p, REQUEST(p, t))
          /\ UNCHANGED sup_syncro
      BY <2>2 DEF process_ev_want_cr, StampTaken
    <3>3. Announced(m, fsm_state')
      BY <3>2, AnnouncedWant
    <3> HIDE DEF m
    <3>4. net' \in Nets(GoodPackets) /\ Sent(m, net', New)
      BY <3>1, <3>2, RequestsGood, OthersTold DEF Assumptions
    <3>5. \A pkt \in New : pkt.msg \notin SupMsg
      BY DEF Packet, REQUEST, SupMsg
    <3> HIDE DEF New
    <3>6. Announced(net', fsm_state')
      BY <3>1, <3>3, <3>4, <3>5, AnnouncedSent
    <3>7. QED
      BY <2>1, <3>2, <3>6, AnnouncedSame
  <2>3. ASSUME NEW slot \in Receivable(p), RequestReceived(p, slot)
        PROVE  Announced(net, fsm_state)'
    <3> DEFINE m == dme_recv_msg(slot)
               q == PacketAt(slot).msg.pid
    <3>1. p \in Node /\ m \in Nets(GoodPackets) /\ Placed(m)
      BY MessageTaken
    <3>2. q \in Proc \ {p} /\ q \in Node
      BY <2>3, PeerMessage, PidFacts DEF RequestReceived, Assumptions
    <3>3. Announced(m, fsm_state)
      BY <2>3, AnnouncedTaken DEF RequestReceived
    <3>4. /\ net' = dme_send_msg(m, p, q, REPLY(p)) \/ net' = m
          /\ UNCHANGED <<fsm_state, sup_syncro>>
      BY <2>3 DEF RequestReceived, peerVars, RequestArrives
    <3> HIDE DEF m, q
    <3>5. Announced(net', fsm_state)
      <4>1. CASE net' = dme_send_msg(m, p, q, REPLY(p))
        <5>1. net' \in Nets(GoodPackets) /\ Sent(m, net', {Packet(p, q, REPLY(p))})
          BY <3>1, <3>2, <4>1, ReplyGood, OneTold
        <5>2. Packet(p, q, REPLY(p)).msg \notin SupMsg
          BY DEF Packet, REPLY, SupMsg
        <5>3. QED
          BY <3>1, <3>3, <5>1, <5>2, AnnouncedSent
      <4>2. CASE net' = m
        BY <3>3, <4>2
      <4>3. QED
        BY <3>4, <4>1, <4>2
    <3>6. QED
      BY <2>1, <3>4, <3>5, AnnouncedSame
  <2>4. ASSUME NEW slot \in Receivable(p), ReplyReceived(p, slot)
        PROVE  Announced(net, fsm_state)'
    <3> DEFINE m == dme_recv_msg(slot)
               turn == fsm_state[p] = "PS_PENDING" /\ my_turn(p, ricart_replies'[p])
    <3>1. p \in Node /\ m \in Nets(GoodPackets) /\ Placed(m)
      BY MessageTaken
    <3>2. Announced(m, fsm_state)
      BY <2>4, AnnouncedTaken DEF ReplyReceived
    <3>3. /\ IF turn
             THEN process_ev_entered_cr(p, fsm_state[p], m)
             ELSE net' = m /\ UNCHANGED <<peerVars, exit_request>>
          /\ UNCHANGED clockVars
      BY <2>4 DEF ReplyReceived
    <3>4. turn => fsm_state[p] = "PS_PENDING"
      OBVIOUS
    <3> HIDE DEF m, turn
    <3>5. Announced(net', fsm_state')
      <4>1. CASE turn
        <5>1. /\ net' = dme_send_msg(m, p, SUPERVISOR_PID, [type |-> "ENTERED"])
              /\ fsm_state' = [fsm_state EXCEPT ![p] = "PS_EXECUTING"]
          BY <3>3, <3>4, <4>1 DEF process_ev_entered_cr
        <5>2. QED
          BY <3>1, <3>2, <3>4, <4>1, <5>1, AnnouncedEntered
      <4>2. CASE ~turn
        BY <3>2, <3>3, <4>2 DEF peerVars
      <4>3. QED
        BY <4>1, <4>2
    <3>6. QED
      BY <2>1, <3>3, <3>5, AnnouncedSame DEF clockVars
  <2>5. CASE process_ev_exited_cr(p)
    <3> DEFINE m == InformExited(p)
               New == {Packet(p, d, REPLY(p)) : d \in ricart_RD[p]}
    <3>1. /\ m \in Nets(GoodPackets) /\ Placed(m)
          /\ net' \in Nets(GoodPackets) /\ Sent(m, net', New)
      BY <2>5, LeftSent
    <3>2. /\ fsm_state[p] = "PS_EXECUTING"
          /\ fsm_state' = [fsm_state EXCEPT ![p] = "PS_IDLE"]
          /\ UNCHANGED sup_syncro
      BY <2>5, Left DEF clockVars
    <3>3. Announced(m, fsm_state')
      BY <3>2, AnnouncedExited
    <3>4. \A pkt \in New : pkt.msg \notin SupMsg
      BY DEF Packet, REPLY, SupMsg
    <3> HIDE DEF m, New
    <3>5. Announced(net', fsm_state')
      BY <3>1, <3>3, <3>4, AnnouncedSent
    <3>6. QED
      BY <2>1, <3>2, <3>5, AnnouncedSame
  <2>6. CASE sendto(p) /\ UNCHANGED <<exit_request, peerVars, clockVars, ricartVars>>
    BY <2>1, <2>6, AnnouncedSendto, AnnouncedSame DEF peerVars, clockVars
  <2>7. ASSUME NEW slot \in Receivable(p), SupervisorMsgKept(p, slot)
        PROVE  Announced(net, fsm_state)'
    BY <2>1, <2>7, AnnouncedNoted
  <2>8. CASE handle_message(p)
    <3>1. PICK slot \in Receivable(p) :
             \/ SupervisorMsgKept(p, slot) /\ UNCHANGED ricartVars
             \/ \E t \in StampInstants(now) : process_ev_want_cr(p, slot, t)
             \/ RequestReceived(p, slot)
             \/ ReplyReceived(p, slot)
      BY <2>8 DEF handle_message
    <3>2. QED
      BY <2>2, <2>3, <2>4, <2>7, <3>1
  <2>9. QED
    BY <1>2, <2>5, <2>6, <2>8 DEF PeerNext
<1>3. CASE UNCHANGED vars
  BY <1>3 DEF vars, peerVars, clockVars, supVars, Announced, Informed
<1>4. QED
  BY <1>1, <1>2, <1>3 DEF Next

LEMMA AnnouncedInvariance == ASSUME Net # "udp" PROVE Spec => []Announced(net, fsm_state)
<1>1. Assumptions
  BY NetworkAssumption, SupervisorAssumption, ClockAssumption DEF Assumptions
<1>2. Init => Announced(net, fsm_state)
  BY <1>1, AnnouncedInit
<1>3. IInv /\ Announced(net, fsm_state) /\ [Next]_vars => Announced(net, fsm_state)'
  BY <1>1, AnnouncedNext DEF IInv
<1>4. QED
  BY <1>2, <1>3, Invariance, PTL DEF Spec

(* A peer that competes knows the epoch its stamps are taken from. *)
LEMMA EpochHeard == ASSUME Net # "udp" PROVE Spec => []EpochKnown
<1>1. Announced(net, fsm_state) => EpochKnown
  BY DEF Announced, AllHeard, Heard, EpochKnown, Informed
<1>2. QED
  BY <1>1, AnnouncedInvariance, PTL

-----------------------------------------------------------------------------
(***************************************************************************)
(* Exclusion, for stamps that increase with the instants they are taken at.*)
(***************************************************************************)

(* The stamp s was taken before instant t. *)
Past(s, t) == \E u \in Instants : u < t /\ s = EpochStamp(u)

(* Requests of p that do not carry the stamp s, or were not read by the epoch. *)
Misdated(s, p) ==
    {pkt \in GoodPackets :
        /\ pkt.msg.type = "REQUEST" /\ pkt.src = p
        /\ ~ /\ pkt.msg.at \in Instants
             /\ pkt.msg.ts = EpochStamp(pkt.msg.at) /\ pkt.msg.ts = s}

(* q has replied to the request p competes with. *)
Answered(n, st, rp, p, q) ==
    st[p] # "PS_IDLE" /\ (q \in rp[p] \/ ~NoneOf(n, Reply(q, p)))

(***************************************************************************)
(* A peer whose request has been seen asked before now, and a peer that    *)
(* has been answered comes before the one that answered, if that competes. *)
(***************************************************************************)
Consent(n, st, rd, rp, ts, t, p, q) ==
    /\ Answered(n, st, rp, p, q) \/ p \in rd[q] => Past(ts[p], t)
    /\ Answered(n, st, rp, p, q) /\ st[q] # "PS_IDLE" => Earlier(ts[p], ts[q])

Dated ==
    /\ \A p \in Proc : NoneOf(net, Misdated(my_tstamp[p], p))
    /\ \A p \in Proc : \A q \in Proc \ {p} :
          Consent(net, fsm_state, ricart_RD, ricart_replies, my_tstamp, now, p, q)

LEMMA ConsentSame ==
    ASSUME NEW n, NEW m, NEW st, NEW su, NEW rd, NEW re, NEW rp, NEW rq, NEW ts, NEW tt,
           NEW t \in Nat, NEW u \in Nat, NEW p, NEW q,
           Consent(n, st, rd, rp, ts, t, p, q),
           NoneOf(n, Reply(q, p)) => NoneOf(m, Reply(q, p)),
           su[p] # "PS_IDLE" => st[p] # "PS_IDLE", su[q] # "PS_IDLE" => st[q] # "PS_IDLE",
           p \in re[q] => p \in rd[q],
           su[p] # "PS_IDLE" /\ q \in rq[p] => q \in rp[p] \/ ~NoneOf(n, Reply(q, p)),
           tt[p] = ts[p], tt[q] = ts[q], t <= u, Instants \subseteq Nat
    PROVE  Consent(m, su, re, rq, tt, u, p, q)
<1>1. Answered(m, su, rq, p, q) => Answered(n, st, rp, p, q)
  BY DEF Answered
<1>2. Past(ts[p], t) => Past(tt[p], u)
  <2>1. \A v \in Instants : v < t => v < u
    OBVIOUS
  <2>2. QED
    BY <2>1 DEF Past
<1>3. QED
  BY <1>1, <1>2 DEF Consent

(* A step that sends nothing a peer would understand. *)
LEMMA DatedUntouched ==
    ASSUME Assumptions, IInv, Dated, now' \in Nat, now <= now',
           UNCHANGED <<fsm_state, ricartVars>>,
           \A p \in Proc : NoneOf(net, Misdated(my_tstamp[p], p))
                               => NoneOf(net', Misdated(my_tstamp[p], p)),
           \A p, q \in Proc : NoneOf(net, Reply(q, p)) => NoneOf(net', Reply(q, p))
    PROVE  Dated'
<1>1. now \in Nat /\ Instants \subseteq Nat
  BY DEF IInv, Basics, TypeOK, ClockTypeOK, Assumptions, ClockAssumption
<1>2. ASSUME NEW p \in Proc, NEW q \in Proc \ {p}
      PROVE  Consent(net', fsm_state, ricart_RD, ricart_replies, my_tstamp, now', p, q)
  BY <1>1, ConsentSame DEF Dated
<1>3. QED
  BY <1>2 DEF Dated, ricartVars

LEMMA DatedInit == ASSUME Assumptions, Init PROVE Dated
<1>1. \A T : NoneOf(net, T)
  BY NothingThere DEF Init
<1>2. QED
  BY <1>1 DEF Dated, Consent, Answered, Init, PeerInit

(* What is about the requests and replies of peers. *)
LEMMA PeerKinds ==
    ASSUME Assumptions, NEW p \in Proc, NEW q \in Proc, NEW s, NEW pkt,
           pkt.src = SUPERVISOR_PID \/ pkt.dst = SUPERVISOR_PID \/ pkt.msg \in SupMsg
    PROVE  pkt \notin Misdated(s, p) /\ pkt \notin Reply(q, p)
<1>1. /\ pkt \in GoodPackets /\ pkt.msg.type \in {"REQUEST", "REPLY"} => pkt.msg \notin SupMsg
      /\ pkt \in GoodPackets /\ pkt.msg \notin SupMsg => pkt.src \in Proc /\ pkt.dst \in Proc
  BY PacketFields
<1>2. QED
  BY <1>1, PidFacts DEF Misdated, Reply, Assumptions

LEMMA DatedSendto ==
    ASSUME Assumptions, IInv, Dated, NEW n \in Node, sendto(n),
           UNCHANGED <<fsm_state, ricartVars, now>>
    PROVE  Dated'
<1>1. \A T : Kept(net, net', T)
  BY GoodAddressed, SendtoKept DEF IInv, Basics
<1>2. now \in Nat
  BY BasicTypes DEF IInv
<1>3. QED
  BY <1>1, <1>2, DatedUntouched DEF Kept

LEMMA DatedSupervisor ==
    ASSUME Assumptions, IInv, Dated, SupervisorNext
    PROVE  Dated'
<1>1. UNCHANGED <<fsm_state, ricartVars, now>>
  BY DEF SupervisorNext, peerVars, clockVars
<1>2. net \in Nets(GoodPackets) /\ Placed(net) /\ now \in Nat
  BY BasicTypes DEF IInv
<1>3. CASE SupNext
  <2>1. ASSUME NEW New \in SUBSET (FromSupervisor("SYNCRO") \cup FromSupervisor("WANT")),
               net' \in Nets(GoodPackets), Sent(net, net', New)
        PROVE  Dated'
    <3>1. \A pkt \in New : pkt.src = SUPERVISOR_PID
      BY DEF FromSupervisor, Packet
    <3>2. \A p, q \in Proc : \A s : New \cap Misdated(s, p) = {} /\ New \cap Reply(q, p) = {}
      BY <3>1, PeerKinds
    <3>3. \A T : New \cap T = {} => (NoneOf(net, T) => NoneOf(net', T))
      BY <1>2, <2>1, SentProperties
    <3>4. QED
      BY <1>1, <1>2, <3>2, <3>3, DatedUntouched
  <2>2. ASSUME NEW slot \in Receivable(SUPERVISOR_PID), net' = dme_recv_msg(slot)
        PROVE  Dated'
    <3>1. \A T : NoneOf(net, T) => NoneOf(net', T)
      BY <1>2, <2>2, PidFacts, ReceiveProperties DEF Assumptions
    <3>2. QED
      BY <1>1, <1>2, <3>1, DatedUntouched
  <2>3. QED
    BY <1>2, <1>3, <2>1, <2>2, SupPacketsGood, SupervisorEffect DEF Assumptions
<1>4. CASE sendto(SUPERVISOR_PID)
  BY <1>1, <1>4, PidFacts, DatedSendto DEF Assumptions
<1>5. QED
  BY <1>3, <1>4 DEF SupervisorNext

(* Nothing comes up by receiving. *)
LEMMA Fewer ==
    ASSUME Assumptions, Basics, NEW p \in Proc, NEW slot \in Receivable(p), NEW T
    PROVE  NoneOf(net, T) => NoneOf(dme_recv_msg(slot), T)
BY PidFacts, BasicTypes, ReceiveProperties DEF Assumptions

LEMMA DatedNoted ==
    ASSUME Assumptions, IInv, Dated,
           NEW p \in Proc, NEW slot \in Receivable(p),
           SupervisorMsgKept(p, slot), UNCHANGED ricartVars
    PROVE  Dated'
<1>1. net' = dme_recv_msg(slot) /\ UNCHANGED <<fsm_state, now>>
  BY DEF SupervisorMsgKept, SupervisorMsgNoted, peerVars
<1>2. now \in Nat
  BY BasicTypes DEF IInv
<1>3. QED
  BY <1>1, <1>2, Fewer, DatedUntouched DEF IInv

(* Who takes a stamp takes it from the epoch, after all the stamps of the past. *)
LEMMA StampOfEpoch ==
    ASSUME Assumptions, NEW p \in Proc, sup_syncro[p] = Reading(SyncroInstant), NEW t
    PROVE  Stamp(p, t) = EpochStamp(t)
BY DEF Stamp, EpochStamp

LEMMA DatedWant ==
    ASSUME StampsIncrease, EpochKnown', Assumptions, IInv, Dated,
           NEW p \in Proc, NEW slot \in Receivable(p),
           NEW t \in StampInstants(now), process_ev_want_cr(p, slot, t)
    PROVE  Dated'
<1> DEFINE m == dme_recv_msg(slot)
           New == {Packet(p, d, REQUEST(p, t)) : d \in Proc \ {p}}
<1>1. /\ p \in Node /\ m \in Nets(GoodPackets) /\ Placed(m) /\ Instants \subseteq Nat
      /\ t \in Instants /\ t \in Nat /\ now \in Nat /\ now <= t
  BY MessageTaken, BasicTypes, InstantFacts
     DEF IInv, Basics, TypeOK, Assumptions, ClockAssumption
<1>2. /\ fsm_state[p] = "PS_IDLE"
      /\ fsm_state' = [fsm_state EXCEPT ![p] = "PS_PENDING"]
      /\ ricart_replies' = [ricart_replies EXCEPT ![p] = {}]
      /\ my_tstamp' = [my_tstamp EXCEPT ![p] = Stamp(p, t)]
      /\ net' = dme_broadcast_msg(m, p, REQUEST(p, t))
      /\ StampTaken(t) /\ UNCHANGED ricart_RD
  BY DEF process_ev_want_cr, IsWant
<1>3. /\ fsm_state \in [Proc -> State] /\ ricart_replies \in [Proc -> SUBSET Proc]
      /\ my_tstamp \in [Proc -> Timespec]
  BY BasicTypes DEF IInv
<1>4. now' \in Nat /\ now <= now' /\ UNCHANGED sup_syncro
  BY <1>1, <1>2 DEF StampTaken
<1>5. Stamp(p, t) = EpochStamp(t)
  <2>1. fsm_state'[p] # "PS_IDLE"
    BY <1>2, <1>3
  <2>2. sup_syncro[p] = Reading(SyncroInstant)
    BY <1>4, <2>1 DEF EpochKnown
  <2>3. QED
    BY <2>2, StampOfEpoch
<1>6. /\ my_tstamp'[p] = EpochStamp(t) /\ fsm_state'[p] = "PS_PENDING"
      /\ ricart_replies'[p] = {}
      /\ \A a \in Proc \ {p} : /\ fsm_state'[a] = fsm_state[a]
                               /\ ricart_replies'[a] = ricart_replies[a]
                               /\ my_tstamp'[a] = my_tstamp[a]
  BY <1>2, <1>3, <1>5
<1>7. \A T : NoneOf(net, T) => NoneOf(m, T)
  BY Fewer DEF IInv
<1>8. \A a \in Proc \ {p} : NoneOf(net, Asking(p, a)) /\ p \notin ricart_RD[a]
  BY <1>2 DEF IInv, AllAskedOnce, AskedOnce
<1> HIDE DEF m
<1>9. net' \in Nets(GoodPackets) /\ Sent(m, net', New)
  BY <1>1, <1>2, RequestsGood, OthersTold DEF Assumptions, IInv
<1>10. \A pkt \in New : /\ pkt.src = p /\ pkt.msg.type = "REQUEST"
                        /\ pkt.msg.at = t /\ pkt.msg.ts = EpochStamp(t)
  BY <1>5 DEF Packet, REQUEST
<1> HIDE DEF New
<1>11. \A T : New \cap T = {} /\ NoneOf(net, T) => NoneOf(net', T)
  BY <1>1, <1>7, <1>9, SentProperties
<1>12. ASSUME NEW a \in Proc PROVE NoneOf(net', Misdated(my_tstamp'[a], a))
  <2>1. CASE a = p
    <3> DEFINE T == Misdated(EpochStamp(t), p)
    <3>1. New \cap T = {}
      BY <1>1, <1>10 DEF Misdated
    <3>2. NoneOf(net, T)
      <4>1. \A pkt \in T : \E b \in Proc \ {p} : pkt \in Asking(p, b)
        <5>1. ASSUME NEW pkt \in T PROVE \E b \in Proc \ {p} : pkt \in Asking(p, b)
          <6>1. pkt \in GoodPackets /\ pkt.msg.type = "REQUEST" /\ pkt.src = p
            BY DEF Misdated
          <6>2. pkt.dst \in Proc \ {p}
            BY <6>1, PacketFields
          <6>3. QED
            BY <6>1, <6>2 DEF Asking, Request
        <5>2. QED
          BY <5>1
      <4> HIDE DEF T
      <4>2. QED
        BY <1>8, <4>1 DEF NoneOf
    <3> HIDE DEF T
    <3>3. NoneOf(net', T)
      BY <1>11, <3>1, <3>2
    <3>4. QED
      BY <1>6, <2>1, <3>3 DEF T
  <2>2. CASE a # p
    <3>1. New \cap Misdated(my_tstamp[a], a) = {}
      BY <1>10, <2>2 DEF Misdated
    <3>2. QED
      BY <1>6, <1>11, <2>2, <3>1 DEF Dated
  <2>3. QED
    BY <2>1, <2>2
<1>13. ASSUME NEW a \in Proc, NEW b \in Proc \ {a}
       PROVE  Consent(net', fsm_state', ricart_RD', ricart_replies', my_tstamp', now', a, b)
  <2>1. Consent(net, fsm_state, ricart_RD, ricart_replies, my_tstamp, now, a, b)
    BY DEF Dated
  <2>2. NoneOf(net, Reply(b, a)) => NoneOf(net', Reply(b, a))
    <3>1. New \cap Reply(b, a) = {}
      BY <1>10 DEF Reply
    <3>2. QED
      BY <1>11, <3>1
  <2>3. CASE a = p
    <3>1. NoneOf(net, Reply(b, a))
      BY <1>8, <2>3 DEF Asking, NoneOf
    <3>2. ~Answered(net', fsm_state', ricart_replies', a, b) /\ a \notin ricart_RD'[b]
      BY <1>2, <1>6, <1>8, <2>2, <2>3, <3>1 DEF Answered
    <3>3. QED
      BY <3>2 DEF Consent
  <2>4. CASE b = p
    <3>1. Answered(net', fsm_state', ricart_replies', a, b)
             => Answered(net, fsm_state, ricart_replies, a, b)
      BY <1>6, <1>13, <2>2, <2>4 DEF Answered
    <3>2. my_tstamp'[a] = my_tstamp[a] /\ my_tstamp'[b] = EpochStamp(t)
      BY <1>6, <1>13, <2>4
    <3>3. Past(my_tstamp[a], now) => Past(my_tstamp[a], now')
      <4> DEFINE then == now'
      <4>1. then \in Nat /\ now <= then
        BY <1>4
      <4> HIDE DEF then
      <4>2. \A u \in Instants : u < now => u < then
        BY <1>1, <4>1
      <4>3. QED
        BY <4>2 DEF Past, then
    <3>4. Past(my_tstamp[a], now) => Earlier(my_tstamp[a], EpochStamp(t))
      <4>1. ASSUME NEW u \in Instants, u < now
            PROVE  Earlier(EpochStamp(u), EpochStamp(t))
        <5>1. u < t
          BY <1>1, <4>1
        <5>2. QED
          BY <1>1, <5>1 DEF StampsIncrease
      <4>2. QED
        BY <4>1 DEF Past
    <3>5. QED
      BY <1>2, <2>1, <3>1, <3>2, <3>3, <3>4 DEF Consent
  <2>5. CASE a # p /\ b # p
    <3>1. /\ fsm_state'[a] = fsm_state[a] /\ fsm_state'[b] = fsm_state[b]
          /\ my_tstamp'[a] = my_tstamp[a] /\ my_tstamp'[b] = my_tstamp[b]
          /\ ricart_replies'[a] = ricart_replies[a] /\ ricart_RD' = ricart_RD
      BY <1>2, <1>6, <1>13, <2>5
    <3> DEFINE st == fsm_state'
               rp == ricart_replies'
               ts == my_tstamp'
               n == net'
               then == now'
    <3>2. /\ st[a] = fsm_state[a] /\ st[b] = fsm_state[b] /\ rp[a] = ricart_replies[a]
          /\ ts[a] = my_tstamp[a] /\ ts[b] = my_tstamp[b] /\ then \in Nat /\ now <= then
          /\ NoneOf(net, Reply(b, a)) => NoneOf(n, Reply(b, a))
      BY <1>4, <2>2, <3>1
    <3> HIDE DEF st, rp, ts, n, then
    <3>3. Consent(n, st, ricart_RD, rp, ts, then, a, b)
      BY <1>1, <2>1, <3>2, ConsentSame
    <3>4. QED
      BY <3>1, <3>3 DEF st, rp, ts, n, then
  <2>6. QED
    BY <2>3, <2>4, <2>5
<1>14. QED
  BY <1>12, <1>13 DEF Dated

LEMMA DatedRequest ==
    ASSUME Assumptions, IInv, Dated,
           NEW p \in Proc, NEW slot \in Receivable(p), RequestReceived(p, slot)
    PROVE  Dated'
<1> DEFINE m == dme_recv_msg(slot)
           pkt == PacketAt(slot)
           q == pkt.msg.pid
           reply == Packet(p, q, REPLY(p))
<1>1. /\ p \in Node /\ m \in Nets(GoodPackets) /\ Placed(m) /\ Basics
      /\ now \in Nat /\ Instants \subseteq Nat
      /\ net \in Nets(GoodPackets) /\ Placed(net)
  BY MessageTaken, BasicTypes DEF IInv, Assumptions, ClockAssumption
<1>2. q \in Proc \ {p} /\ q \in Node
  BY <1>1, PeerMessage, PidFacts DEF RequestReceived, Assumptions
<1>3. pkt \in Asking(q, p) /\ pkt.msg.type = "REQUEST" /\ pkt \in GoodPackets /\ pkt.src = q
  <2>1. pkt \in Asking(q, p) /\ pkt.msg.type = "REQUEST"
    BY <1>1, TakenIsOf DEF RequestReceived
  <2> HIDE DEF pkt, q
  <2>2. QED
    BY <2>1 DEF Asking, Request, Reply
<1>4. /\ NoneOf(m, Asking(q, p)) /\ fsm_state[q] = "PS_PENDING"
      /\ q \notin ricart_RD[p] /\ p \notin ricart_replies[q]
  BY <1>2, <1>3, AskingTaken
<1>5. /\ pkt.msg.at \in Instants
      /\ pkt.msg.ts = EpochStamp(pkt.msg.at) /\ pkt.msg.ts = my_tstamp[q]
  <2>1. NoneOf(net, Misdated(my_tstamp[q], q))
    BY <1>2 DEF Dated
  <2>2. pkt \notin Misdated(my_tstamp[q], q)
    BY <1>1, <2>1, ReceivePlaced
  <2> HIDE DEF pkt, q
  <2>3. QED
    BY <1>3, <2>2 DEF Misdated
<1>6. /\ ricart_RD' = [ricart_RD EXCEPT ![p] =
                          IF Defers(p, pkt.msg.ts) THEN @ \cup {q}
                          ELSE IF fsm_state[p] = "PS_IDLE" THEN @ \ {q}
                          ELSE @]
      /\ net' = IF Replies(p, pkt.msg.ts) THEN dme_send_msg(m, p, q, REPLY(p)) ELSE m
      /\ now' = ArrivalTime(pkt.msg)
      /\ UNCHANGED <<fsm_state, ricart_replies, my_tstamp>>
  BY DEF RequestReceived, peerVars, RequestArrives
<1>7. \A T : NoneOf(net, T) => NoneOf(m, T)
  BY <1>1, Fewer
<1>8. reply \in GoodPackets
  BY <1>2, ReplyGood
<1>9. /\ \A a, b : reply \in Reply(b, a) => a = q /\ b = p
      /\ \A s, a : reply \notin Misdated(s, a)
  BY DEF Misdated, Reply, Packet, REPLY
<1>10. dme_send_msg(m, p, q, REPLY(p)) \in Nets(GoodPackets)
       /\ Sent(m, dme_send_msg(m, p, q, REPLY(p)), {reply})
  <2> HIDE DEF m, q
  <2>1. QED
    BY <1>1, <1>2, <1>8, OneTold DEF reply
<1> HIDE DEF m, pkt, q, reply
<1>11. \A T : reply \notin T /\ NoneOf(net, T) => NoneOf(net', T)
  <2>1. CASE Replies(p, pkt.msg.ts)
    <3>1. Sent(m, net', {reply}) /\ net' \in Nets(GoodPackets)
      BY <1>6, <1>10, <2>1
    <3>2. \A T : reply \notin T /\ NoneOf(m, T) => NoneOf(net', T)
      <4>1. \A T : reply \notin T => {reply} \cap T = {}
        OBVIOUS
      <4>2. QED
        BY <1>1, <3>1, <4>1, SentProperties
    <3>3. QED
      BY <1>7, <3>2
  <2>2. CASE ~Replies(p, pkt.msg.ts)
    BY <1>6, <1>7, <2>2
  <2>3. QED
    BY <2>1, <2>2
<1>12. /\ now' \in Nat /\ now <= now' /\ pkt.msg.at < now' /\ pkt.msg.at \in Nat
  <2>1. pkt.msg.at \in Nat
    BY <1>1, <1>5
  <2>2. QED
    BY <1>1, <1>6, <2>1 DEF ArrivalTime, LargerOf
<1>13. Past(my_tstamp[q], now')
  BY <1>5, <1>12 DEF Past
<1>14. ASSUME NEW a \in Proc PROVE NoneOf(net', Misdated(my_tstamp'[a], a))
  BY <1>6, <1>9, <1>11 DEF Dated
<1>15. ASSUME NEW a \in Proc, NEW b \in Proc \ {a}
       PROVE  Consent(net', fsm_state', ricart_RD', ricart_replies', my_tstamp', now', a, b)
  <2>1. Consent(net, fsm_state, ricart_RD, ricart_replies, my_tstamp, now, a, b)
    BY DEF Dated
  <2>2. CASE a = q /\ b = p
    <3>1. Answered(net', fsm_state', ricart_replies', a, b) => Replies(p, pkt.msg.ts)
      <4>1. SUFFICES ASSUME ~Replies(p, pkt.msg.ts) PROVE NoneOf(net', Reply(p, q))
        BY <1>4, <1>6, <2>2 DEF Answered
      <4>2. NoneOf(m, Reply(p, q))
        BY <1>4 DEF Asking, NoneOf
      <4>3. QED
        BY <1>6, <4>1, <4>2
    <3>2. Replies(p, pkt.msg.ts) /\ fsm_state[p] # "PS_IDLE"
             => Earlier(my_tstamp[q], my_tstamp[p])
      BY <1>5 DEF Replies
    <3>3. QED
      BY <1>6, <1>13, <2>2, <3>1, <3>2 DEF Consent
  <2>3. CASE ~(a = q /\ b = p)
    <3>1. NoneOf(net, Reply(b, a)) => NoneOf(net', Reply(b, a))
      BY <1>9, <1>11, <2>3
    <3>2. a \in ricart_RD'[b] => a \in ricart_RD[b]
      <4>1. ricart_RD \in [Proc -> SUBSET Proc]
        BY <1>1, BasicTypes
      <4>2. QED
        BY <1>6, <2>3, <4>1
    <3>3. QED
      <4> DEFINE rd == ricart_RD'
                 n == net'
                 t == now'
      <4>1. /\ t \in Nat /\ now <= t
            /\ a \in rd[b] => a \in ricart_RD[b]
            /\ NoneOf(net, Reply(b, a)) => NoneOf(n, Reply(b, a))
        BY <1>12, <3>1, <3>2
      <4> HIDE DEF rd, n, t
      <4>2. Consent(n, fsm_state, rd, ricart_replies, my_tstamp, t, a, b)
        BY <1>1, <2>1, <4>1, ConsentSame
      <4>3. QED
        BY <1>6, <4>2 DEF rd, n, t
  <2>4. QED
    BY <2>2, <2>3
<1>16. QED
  BY <1>14, <1>15 DEF Dated

LEMMA DatedReply ==
    ASSUME Assumptions, IInv, Dated,
           NEW p \in Proc, NEW slot \in Receivable(p), ReplyReceived(p, slot)
    PROVE  Dated'
<1> DEFINE m == dme_recv_msg(slot)
           pkt == PacketAt(slot)
           q == pkt.msg.pid
<1>1. /\ p \in Node /\ m \in Nets(GoodPackets) /\ Placed(m) /\ Basics
      /\ now \in Nat /\ Instants \subseteq Nat
      /\ net \in Nets(GoodPackets) /\ Placed(net)
  BY MessageTaken, BasicTypes DEF IInv, Assumptions, ClockAssumption
<1>2. q \in Proc \ {p}
  BY <1>1, PeerMessage DEF ReplyReceived
<1>3. pkt \in Asking(p, q) /\ pkt \in Reply(q, p)
  <2>1. pkt \in Asking(p, q) /\ pkt.msg.type = "REPLY"
    BY <1>1, TakenIsOf DEF ReplyReceived
  <2> HIDE DEF pkt, q
  <2>2. QED
    BY <2>1 DEF Asking, Request, Reply
<1>4. fsm_state[p] = "PS_PENDING" /\ ~NoneOf(net, Reply(q, p))
  BY <1>1, <1>2, <1>3, AskingTaken, ReceivePlaced
<1>5. /\ ricart_replies' = [ricart_replies EXCEPT ![p] = @ \cup {q}]
      /\ IF my_turn(p, ricart_replies'[p])
         THEN process_ev_entered_cr(p, "PS_PENDING", m)
         ELSE net' = m /\ UNCHANGED <<peerVars, exit_request>>
      /\ UNCHANGED <<clockVars, ricart_RD, my_tstamp>>
  BY <1>4 DEF ReplyReceived
<1>6. \A T : NoneOf(net, T) => NoneOf(m, T)
  BY <1>1, Fewer
<1> HIDE DEF m, pkt, q
<1>7. \A a \in Proc : fsm_state'[a] # "PS_IDLE" => fsm_state[a] # "PS_IDLE"
  BY <1>1, <1>4, <1>5, BasicTypes DEF process_ev_entered_cr, peerVars
<1>8. /\ \A a, b \in Proc : NoneOf(net, Reply(b, a)) => NoneOf(net', Reply(b, a))
      /\ \A a \in Proc : \A s : NoneOf(net, Misdated(s, a))
                                    => NoneOf(net', Misdated(s, a))
  <2>1. CASE my_turn(p, ricart_replies'[p])
    <3> DEFINE told == Packet(p, SUPERVISOR_PID, [type |-> "ENTERED"])
    <3>1. net' = dme_send_msg(m, p, SUPERVISOR_PID, [type |-> "ENTERED"])
      BY <1>5, <2>1 DEF process_ev_entered_cr
    <3>2. net' \in Nets(GoodPackets) /\ Sent(m, net', {told})
      BY <1>1, <3>1, SupPacketsGood, SupervisorTold DEF Assumptions
    <3>3. told.dst = SUPERVISOR_PID
      BY DEF Packet
    <3> HIDE DEF told
    <3>4. \A T : {told} \cap T = {} /\ NoneOf(m, T) => NoneOf(net', T)
      BY <1>1, <3>2, SentProperties
    <3>5. \A a, b \in Proc : {told} \cap Reply(b, a) = {}
      BY <3>3, PeerKinds
    <3>6. \A a \in Proc : \A s : {told} \cap Misdated(s, a) = {}
      BY <3>3, PeerKinds
    <3>7. QED
      BY <1>6, <3>4, <3>5, <3>6
  <2>2. CASE ~my_turn(p, ricart_replies'[p])
    BY <1>5, <1>6, <2>2
  <2>3. QED
    BY <2>1, <2>2
<1>9. ASSUME NEW a \in Proc PROVE NoneOf(net', Misdated(my_tstamp'[a], a))
  BY <1>5, <1>8 DEF Dated
<1>10. ASSUME NEW a \in Proc, NEW b \in Proc \ {a}
       PROVE  Consent(net', fsm_state', ricart_RD', ricart_replies', my_tstamp', now', a, b)
  <2>1. Consent(net, fsm_state, ricart_RD, ricart_replies, my_tstamp, now, a, b)
    BY DEF Dated
  <2>2. b \in ricart_replies'[a] => b \in ricart_replies[a] \/ ~NoneOf(net, Reply(b, a))
    <3>1. ricart_replies \in [Proc -> SUBSET Proc]
      BY <1>1, BasicTypes
    <3>2. QED
      BY <1>4, <1>5, <3>1
  <2> DEFINE st == fsm_state'
             rp == ricart_replies'
             n == net'
  <2>3. /\ NoneOf(net, Reply(b, a)) => NoneOf(n, Reply(b, a))
        /\ st[a] # "PS_IDLE" => fsm_state[a] # "PS_IDLE"
        /\ st[b] # "PS_IDLE" => fsm_state[b] # "PS_IDLE"
        /\ b \in rp[a] => b \in ricart_replies[a] \/ ~NoneOf(net, Reply(b, a))
    BY <1>7, <1>8, <2>2
  <2> HIDE DEF st, rp, n
  <2>4. Consent(n, st, ricart_RD, rp, my_tstamp, now, a, b)
    BY <1>1, <2>1, <2>3, ConsentSame
  <2>5. QED
    BY <1>5, <2>4 DEF st, rp, n, clockVars
<1>11. QED
  BY <1>9, <1>10 DEF Dated

LEMMA DatedExited ==
    ASSUME Assumptions, IInv, Dated,
           NEW p \in Proc, process_ev_exited_cr(p)
    PROVE  Dated'
<1> DEFINE m == InformExited(p)
           told == Packet(p, SUPERVISOR_PID, [type |-> "EXITED"])
           New == {Packet(p, d, REPLY(p)) : d \in ricart_RD[p]}
<1>1. /\ m \in Nets(GoodPackets) /\ Placed(m) /\ Sent(net, m, {told})
      /\ net' \in Nets(GoodPackets) /\ Sent(m, net', New)
  BY LeftSent DEF IInv
<1>2. /\ fsm_state[p] = "PS_EXECUTING"
      /\ fsm_state' = [fsm_state EXCEPT ![p] = "PS_IDLE"]
      /\ ricart_RD' = [ricart_RD EXCEPT ![p] = {}]
      /\ UNCHANGED <<ricart_replies, my_tstamp, now>>
  BY Left DEF IInv, clockVars
<1>3. /\ fsm_state \in [Proc -> State] /\ ricart_RD \in [Proc -> SUBSET Proc]
      /\ net \in Nets(GoodPackets) /\ now \in Nat /\ Instants \subseteq Nat
  BY BasicTypes DEF IInv, Assumptions, ClockAssumption
<1>4. told.dst = SUPERVISOR_PID
  BY DEF Packet
<1>5. \A pkt \in New : pkt.src = p /\ pkt.dst \in ricart_RD[p] /\ pkt.msg.type = "REPLY"
  BY DEF Packet, REPLY
<1> HIDE DEF m, told, New
<1>6. \A T : told \notin T /\ New \cap T = {} /\ NoneOf(net, T) => NoneOf(net', T)
  <2>1. \A T : {told} \cap T = {} /\ NoneOf(net, T) => NoneOf(m, T)
    BY <1>1, <1>3, SentProperties
  <2>2. \A T : New \cap T = {} /\ NoneOf(m, T) => NoneOf(net', T)
    BY <1>1, SentProperties
  <2>3. \A T : told \notin T => {told} \cap T = {}
    OBVIOUS
  <2>4. QED
    BY <2>1, <2>2, <2>3
<1>7. ASSUME NEW a \in Proc PROVE NoneOf(net', Misdated(my_tstamp'[a], a))
  <2>1. told \notin Misdated(my_tstamp[a], a)
    BY <1>4, PeerKinds
  <2>2. New \cap Misdated(my_tstamp[a], a) = {}
    BY <1>5 DEF Misdated
  <2>3. QED
    BY <1>2, <1>6, <2>1, <2>2 DEF Dated
<1>8. ASSUME NEW a \in Proc, NEW b \in Proc \ {a}
      PROVE  Consent(net', fsm_state', ricart_RD', ricart_replies', my_tstamp', now', a, b)
  <2>1. Consent(net, fsm_state, ricart_RD, ricart_replies, my_tstamp, now, a, b)
    BY DEF Dated
  <2>2. told \notin Reply(b, a)
    BY <1>4, PeerKinds
  <2>3. CASE b = p /\ a \in ricart_RD[p]
    <3>1. Past(my_tstamp[a], now)
      BY <2>1, <2>3 DEF Consent
    <3>2. fsm_state'[b] = "PS_IDLE"
      BY <1>2, <1>3, <2>3
    <3>3. QED
      BY <1>2, <3>1, <3>2 DEF Consent
  <2>4. CASE ~(b = p /\ a \in ricart_RD[p])
    <3>1. New \cap Reply(b, a) = {}
      BY <1>5, <2>4 DEF Reply
    <3>2. NoneOf(net, Reply(b, a)) => NoneOf(net', Reply(b, a))
      BY <1>6, <2>2, <3>1
    <3> DEFINE st == fsm_state'
               rd == ricart_RD'
               n == net'
    <3>3. /\ NoneOf(net, Reply(b, a)) => NoneOf(n, Reply(b, a))
          /\ st[a] # "PS_IDLE" => fsm_state[a] # "PS_IDLE"
          /\ st[b] # "PS_IDLE" => fsm_state[b] # "PS_IDLE"
          /\ a \in rd[b] => a \in ricart_RD[b]
      BY <1>2, <1>3, <3>2
    <3> HIDE DEF st, rd, n
    <3>4. Consent(n, st, rd, ricart_replies, my_tstamp, now, a, b)
      BY <1>3, <2>1, <3>3, ConsentSame
    <3>5. QED
      BY <1>2, <3>4 DEF st, rd, n
  <2>5. QED
    BY <2>3, <2>4
<1>9. QED
  BY <1>2, <1>7, <1>8 DEF Dated

LEMMA DatedNext ==
    ASSUME StampsIncrease, EpochKnown', Assumptions, IInv, Dated, [Next]_vars
    PROVE  Dated'
<1>1. CASE SupervisorNext
  BY <1>1, DatedSupervisor
<1>2. ASSUME NEW p \in Proc, PeerNext(p) PROVE Dated'
  <2>1. CASE handle_message(p)
    <3>1. PICK slot \in Receivable(p) :
             \/ SupervisorMsgKept(p, slot) /\ UNCHANGED ricartVars
             \/ \E t \in StampInstants(now) : process_ev_want_cr(p, slot, t)
             \/ RequestReceived(p, slot)
             \/ ReplyReceived(p, slot)
      BY <2>1 DEF handle_message
    <3>2. QED
      BY <3>1, DatedNoted, DatedWant, DatedRequest, DatedReply
  <2>2. CASE process_ev_exited_cr(p)
    BY <2>2, DatedExited
  <2>3. CASE sendto(p) /\ UNCHANGED <<exit_request, peerVars, clockVars, ricartVars>>
    BY <2>3, PidFacts, DatedSendto DEF Assumptions, peerVars, clockVars
  <2>4. QED
    BY <1>2, <2>1, <2>2, <2>3 DEF PeerNext
<1>3. CASE UNCHANGED vars
  BY <1>3 DEF vars, peerVars, clockVars, ricartVars, Dated
<1>4. QED
  BY <1>1, <1>2, <1>3 DEF Next

LEMMA DatedExcludes ==
    ASSUME IInv, Dated PROVE MutualExclusion
<1>1. SUFFICES ASSUME NEW p \in Proc, NEW q \in Proc, p # q,
                      fsm_state[p] = "PS_EXECUTING", fsm_state[q] = "PS_EXECUTING"
               PROVE  FALSE
  BY DEF MutualExclusion
<1>2. q \in ricart_replies[p] /\ p \in ricart_replies[q]
  BY <1>1 DEF IInv, AllAskedOnce, AskedOnce
<1>3. Earlier(my_tstamp[p], my_tstamp[q]) /\ Earlier(my_tstamp[q], my_tstamp[p])
  BY <1>1, <1>2 DEF Dated, Consent, Answered
<1>4. my_tstamp[p] \in Timespec /\ my_tstamp[q] \in Timespec
  BY BasicTypes DEF IInv
<1>5. QED
  BY <1>3, <1>4 DEF Earlier, Timespec

-----------------------------------------------------------------------------
(***************************************************************************)
(* The refinement.                                                         *)
(***************************************************************************)
LEMMA AbstractStep ==
    ASSUME IInv, MutualExclusion', [Next]_vars
    PROVE  [Abstract!Next]_fsm_state
<1>1. CASE SupervisorNext
  BY <1>1 DEF SupervisorNext, peerVars
<1>2. ASSUME NEW p \in Proc, PeerNext(p) PROVE [Abstract!Next]_fsm_state
  <2>1. CASE handle_message(p)
    <3>1. PICK slot \in Receivable(p) :
             \/ SupervisorMsgKept(p, slot) /\ UNCHANGED ricartVars
             \/ \E t \in StampInstants(now) : process_ev_want_cr(p, slot, t)
             \/ RequestReceived(p, slot)
             \/ ReplyReceived(p, slot)
      BY <2>1 DEF handle_message
    <3>2. CASE SupervisorMsgKept(p, slot) \/ RequestReceived(p, slot)
      BY <3>2 DEF SupervisorMsgKept, SupervisorMsgNoted, RequestReceived, peerVars
    <3>3. CASE \E t \in StampInstants(now) : process_ev_want_cr(p, slot, t)
      <4>1. Abstract!Want(p)
        BY <3>3 DEF process_ev_want_cr, IsWant, Abstract!Want
      <4>2. QED
        BY <4>1 DEF Abstract!Next
    <3>4. CASE ReplyReceived(p, slot)
      <4>1. CASE fsm_state[p] = "PS_PENDING" /\ my_turn(p, ricart_replies'[p])
        <5>1. fsm_state' = [fsm_state EXCEPT ![p] = "PS_EXECUTING"]
          BY <3>4, <4>1 DEF ReplyReceived, process_ev_entered_cr
        <5>2. fsm_state \in [Proc -> State]
          BY BasicTypes DEF IInv
        <5>3. \A q \in Proc : fsm_state[q] # "PS_EXECUTING"
          <6>1. ASSUME NEW q \in Proc, fsm_state[q] = "PS_EXECUTING" PROVE FALSE
            <7>1. q # p
              BY <4>1, <6>1
            <7>2. fsm_state'[p] = "PS_EXECUTING" /\ fsm_state'[q] = "PS_EXECUTING"
              BY <5>1, <5>2, <6>1, <7>1
            <7>3. QED
              BY <7>1, <7>2 DEF MutualExclusion
          <6>2. QED
            BY <6>1
        <5>4. Abstract!Enter(p)
          BY <4>1, <5>1, <5>3 DEF Abstract!Enter
        <5>5. QED
          BY <5>4 DEF Abstract!Next
      <4>2. CASE ~(fsm_state[p] = "PS_PENDING" /\ my_turn(p, ricart_replies'[p]))
        BY <3>4, <4>2 DEF ReplyReceived, peerVars
      <4>3. QED
        BY <4>1, <4>2
    <3>5. QED
      BY <3>1, <3>2, <3>3, <3>4
  <2>2. CASE process_ev_exited_cr(p)
    <3>1. fsm_state[p] = "PS_EXECUTING" /\ fsm_state' = [fsm_state EXCEPT ![p] = "PS_IDLE"]
      BY <2>2, Left DEF IInv
    <3>2. Abstract!Exit(p)
      BY <3>1 DEF Abstract!Exit
    <3>3. QED
      BY <3>2 DEF Abstract!Next
  <2>3. CASE sendto(p) /\ UNCHANGED <<exit_request, peerVars, clockVars, ricartVars>>
    BY <2>3 DEF peerVars
  <2>4. QED
    BY <1>2, <2>1, <2>2, <2>3 DEF PeerNext
<1>3. CASE UNCHANGED vars
  BY <1>3 DEF vars, peerVars
<1>4. QED
  BY <1>1, <1>2, <1>3 DEF Next

(***************************************************************************)
(* Two peers of ricart.c are never inside together, on any network, while  *)
(* those that compete know the epoch and stamps increase with the instants *)
(* they are taken at.                                                      *)
(***************************************************************************)
THEOREM Exclusion ==
    ASSUME StampsIncrease
    PROVE  Spec /\ []EpochKnown => []MutualExclusion
<1>1. Assumptions
  BY NetworkAssumption, SupervisorAssumption, ClockAssumption DEF Assumptions
<1>2. Init => Dated
  BY <1>1, DatedInit
<1>3. IInv /\ Dated /\ EpochKnown' /\ [Next]_vars => Dated'
  BY <1>1, DatedNext
<1>4. IInv /\ Dated => MutualExclusion
  BY DatedExcludes
<1>5. QED
  BY <1>2, <1>3, <1>4, Invariance, PTL DEF Spec

(* Only on networks that reorder packets can a peer compete before it has SYNCRO. *)
LEMMA EpochAgreed == Spec /\ (Net = "udp" => []EpochKnown) => []EpochKnown
<1>1. CASE Net # "udp"
  BY <1>1, EpochHeard, PTL
<1>2. CASE Net = "udp"
  BY <1>2, PTL
<1>3. QED
  BY <1>1, <1>2

(***************************************************************************)
(* ricart.c implements Mutex, whenever the supervisor starts, when stamps  *)
(* increase with the instants they are taken at, and provided that no WANT *)
(* overtakes the SYNCRO before it where packets may overtake each other.   *)
(***************************************************************************)
THEOREM Implementation ==
    ASSUME StampsIncrease
    PROVE  Spec /\ (Net = "udp" => []EpochKnown) => MutexSpec
<1>1. Spec /\ (Net = "udp" => []EpochKnown) => []MutualExclusion
  BY EpochAgreed, Exclusion, PTL
<1>2. Init => Abstract!Init
  BY DEF Init, PeerInit, Abstract!Init
<1>3. IInv /\ MutualExclusion' /\ [Next]_vars => [Abstract!Next]_fsm_state
  BY AbstractStep
<1>4. QED
  BY <1>1, <1>2, <1>3, Invariance, PTL DEF Spec, MutexSpec, Abstract!Spec

-----------------------------------------------------------------------------
(***************************************************************************)
(* What keeps p waiting, once its requests have been received: q defers    *)
(* its reply, which it does for those that come later only, or q carries   *)
(* the same stamp and has forgotten p.  Who has all replies does not wait. *)
(***************************************************************************)
Owed(n, st, rd, rp, ts, p, q) ==
    /\ st[p] = "PS_PENDING" /\ q \notin rp[p] /\ NoneOf(n, Asking(p, q)) =>
          st[q] # "PS_IDLE" /\ (p \in rd[q] \/ ts[p] = ts[q])
    /\ p \in rd[q] => Earlier(ts[q], ts[p])

AllOwed ==
    \A p \in Proc : \A q \in Proc \ {p} :
        Owed(net, fsm_state, ricart_RD, ricart_replies, my_tstamp, p, q)

StillWaiting ==
    \A p \in Proc : fsm_state[p] = "PS_PENDING" => ~(Proc \ {p} \subseteq ricart_replies[p])

LEMMA OwedUntouched ==
    ASSUME AllOwed, UNCHANGED <<fsm_state, ricartVars>>,
           \A p, q \in Proc : NoneOf(net', Asking(p, q)) => NoneOf(net, Asking(p, q))
    PROVE  AllOwed'
<1>1. SUFFICES ASSUME NEW p \in Proc, NEW q \in Proc \ {p}
               PROVE  Owed(net', fsm_state, ricart_RD, ricart_replies, my_tstamp, p, q)
  BY DEF AllOwed, ricartVars
<1>2. Owed(net, fsm_state, ricart_RD, ricart_replies, my_tstamp, p, q)
  BY DEF AllOwed
<1>3. QED
  BY <1>2 DEF Owed

LEMMA OwedInit == ASSUME Init PROVE AllOwed /\ StillWaiting
BY DEF Init, PeerInit, AllOwed, Owed, StillWaiting

LEMMA OwedSendto ==
    ASSUME IInv, NEW n \in Node, sendto(n), UNCHANGED <<fsm_state, ricartVars>>, AllOwed
    PROVE  AllOwed'
<1>1. \A T : Kept(net, net', T)
  BY GoodAddressed, SendtoKept DEF IInv, Basics
<1>2. QED
  BY <1>1, OwedUntouched DEF Kept

LEMMA OwedSupervisor ==
    ASSUME Assumptions, IInv, SupervisorNext, AllOwed
    PROVE  AllOwed'
<1>1. UNCHANGED <<fsm_state, ricartVars>>
  BY DEF SupervisorNext, peerVars
<1>2. net \in Nets(GoodPackets) /\ Placed(net)
  BY BasicTypes DEF IInv
<1>3. CASE SupNext
  <2>1. ASSUME NEW New, net' \in Nets(GoodPackets), Sent(net, net', New)
        PROVE  AllOwed'
    <3>1. \A T : ~NoneOf(net, T) => ~NoneOf(net', T)
      BY <1>2, <2>1, SentProperties
    <3>2. QED
      BY <1>1, <3>1, OwedUntouched
  <2>2. ASSUME NEW slot \in Receivable(SUPERVISOR_PID), net' = dme_recv_msg(slot)
        PROVE  AllOwed'
    <3>1. PacketAt(slot).dst = SUPERVISOR_PID
      BY <1>2, PidFacts, ReceivePlaced DEF Assumptions
    <3>2. \A p, q \in Proc : PacketAt(slot) \notin Asking(p, q)
      BY <3>1, OnlyPeersAsk
    <3>3. \A p, q \in Proc : ~NoneOf(net, Asking(p, q)) => ~NoneOf(net', Asking(p, q))
      BY <1>2, <2>2, <3>2, PidFacts, ReceivePlaced DEF Assumptions
    <3>4. QED
      BY <1>1, <3>3, OwedUntouched
  <2>3. QED
    BY <1>2, <1>3, <2>1, <2>2, SupPacketsGood, SupervisorEffect DEF Assumptions
<1>4. CASE sendto(SUPERVISOR_PID)
  BY <1>1, <1>4, PidFacts, OwedSendto DEF Assumptions
<1>5. QED
  BY <1>3, <1>4 DEF SupervisorNext

LEMMA OwedNoted ==
    ASSUME Assumptions, IInv, AllOwed, NEW p \in Proc, NEW slot \in Receivable(p),
           SupervisorMsgKept(p, slot), UNCHANGED ricartVars
    PROVE  AllOwed'
<1>1. net' = dme_recv_msg(slot) /\ UNCHANGED fsm_state /\ PacketAt(slot).msg \in SupMsg
  BY DEF SupervisorMsgKept, SupervisorMsgNoted, SupervisorMsgAt, peerVars
<1>2. \A a, b \in Proc : Kept(net, net', Asking(a, b))
  BY <1>1, OnlyPeersAsk, NotTaken DEF IInv
<1>3. QED
  BY <1>1, <1>2, OwedUntouched DEF Kept

LEMMA OwedWant ==
    ASSUME Assumptions, IInv, AllOwed, NEW p \in Proc, NEW slot \in Receivable(p),
           NEW t \in StampInstants(now), process_ev_want_cr(p, slot, t)
    PROVE  AllOwed'
<1> DEFINE m == dme_recv_msg(slot)
           New == {Packet(p, d, REQUEST(p, t)) : d \in Proc \ {p}}
<1>1. p \in Node /\ m \in Nets(GoodPackets) /\ Placed(m)
  BY MessageTaken DEF IInv
<1>2. \A a, b \in Proc : Kept(net, m, Asking(a, b))
  BY OnlyPeersAsk, NotTaken DEF IInv, process_ev_want_cr, SupervisorMsgAt
<1>3. /\ fsm_state[p] = "PS_IDLE"
      /\ fsm_state' = [fsm_state EXCEPT ![p] = "PS_PENDING"]
      /\ ricart_replies' = [ricart_replies EXCEPT ![p] = {}]
      /\ my_tstamp' = [my_tstamp EXCEPT ![p] = Stamp(p, t)]
      /\ net' = dme_broadcast_msg(m, p, REQUEST(p, t))
      /\ UNCHANGED ricart_RD
  BY DEF process_ev_want_cr, IsWant
<1> HIDE DEF m
<1>4. net' \in Nets(GoodPackets) /\ Sent(m, net', New)
  BY <1>1, <1>3, RequestsGood, OthersTold DEF Assumptions, IInv
<1>5. /\ fsm_state \in [Proc -> State] /\ ricart_replies \in [Proc -> SUBSET Proc]
      /\ my_tstamp \in [Proc -> Timespec]
  BY BasicTypes DEF IInv
<1>6. SUFFICES ASSUME NEW a \in Proc, NEW b \in Proc \ {a}
               PROVE  Owed(net', fsm_state', ricart_RD', ricart_replies', my_tstamp', a, b)
  BY DEF AllOwed
<1>7. /\ Owed(net, fsm_state, ricart_RD, ricart_replies, my_tstamp, a, b)
      /\ AskedOnce(net, fsm_state, ricart_RD, ricart_replies, a, b)
  BY DEF AllOwed, IInv, AllAskedOnce
<1>8. ~NoneOf(net, Asking(a, b)) => ~NoneOf(net', Asking(a, b))
  BY <1>1, <1>2, <1>4, SentProperties DEF Kept
<1>9. CASE a = p
  <2>1. ~NoneOf(net', Asking(a, b))
    <3>1. Packet(p, b, REQUEST(p, t)) \in New \cap Asking(a, b)
      BY <1>6, <1>9, RequestsGood DEF IInv, Asking, Request, Packet, REQUEST
    <3> HIDE DEF New
    <3>2. QED
      BY <1>1, <1>4, <3>1, SentProperties
  <2>2. a \notin ricart_RD'[b]
    BY <1>3, <1>7, <1>9 DEF AskedOnce
  <2>3. QED
    BY <2>1, <2>2 DEF Owed
<1>10. CASE b = p
  <2>1. a \notin ricart_RD'[b] /\ fsm_state[b] = "PS_IDLE"
    BY <1>3, <1>7, <1>10 DEF AskedOnce
  <2>2. fsm_state'[a] = fsm_state[a] /\ ricart_replies'[a] = ricart_replies[a]
    BY <1>3, <1>5, <1>6, <1>10
  <2>3. QED
    BY <1>7, <1>8, <2>1, <2>2 DEF Owed
<1>11. CASE a # p /\ b # p
  <2>1. /\ fsm_state'[a] = fsm_state[a] /\ ricart_replies'[a] = ricart_replies[a]
        /\ fsm_state'[b] = fsm_state[b] /\ ricart_RD' = ricart_RD
        /\ my_tstamp'[a] = my_tstamp[a] /\ my_tstamp'[b] = my_tstamp[b]
    BY <1>3, <1>5, <1>6, <1>11
  <2>2. QED
    BY <1>7, <1>8, <2>1 DEF Owed
<1>12. QED
  BY <1>9, <1>10, <1>11

(* A peer that is inside has been answered, and so comes before all that compete. *)
LEMMA InsideIsEarlier ==
    ASSUME IInv, Dated, NEW p \in Proc, NEW q \in Proc \ {p},
           fsm_state[p] = "PS_EXECUTING", fsm_state[q] # "PS_IDLE"
    PROVE  Earlier(my_tstamp[p], my_tstamp[q])
<1>1. q \in ricart_replies[p]
  BY DEF IInv, AllAskedOnce, AskedOnce
<1>2. QED
  BY <1>1 DEF Dated, Consent, Answered

LEMMA OwedRequest ==
    ASSUME Assumptions, IInv, Dated, AllOwed,
           NEW p \in Proc, NEW slot \in Receivable(p), RequestReceived(p, slot)
    PROVE  AllOwed'
<1> DEFINE m == dme_recv_msg(slot)
           pkt == PacketAt(slot)
           q == pkt.msg.pid
           reply == Packet(p, q, REPLY(p))
<1>1. /\ p \in Node /\ m \in Nets(GoodPackets) /\ Placed(m) /\ Basics
      /\ net \in Nets(GoodPackets) /\ Placed(net)
  BY MessageTaken, BasicTypes DEF IInv
<1>2. q \in Proc \ {p} /\ q \in Node
  BY <1>1, PeerMessage, PidFacts DEF RequestReceived, Assumptions
<1>3. /\ pkt \in Asking(q, p) /\ pkt.msg.type = "REQUEST"
      /\ \A a, b : pkt \in Asking(a, b) => a = q /\ b = p
  BY <1>1, TakenIsOf DEF RequestReceived
<1>4. /\ NoneOf(m, Asking(q, p)) /\ fsm_state[q] = "PS_PENDING"
      /\ q \notin ricart_RD[p] /\ p \notin ricart_replies[q]
  BY <1>2, <1>3, AskingTaken
<1>5. pkt.msg.ts = my_tstamp[q]
  <2>1. NoneOf(net, Misdated(my_tstamp[q], q))
    BY <1>2 DEF Dated
  <2>2. pkt \notin Misdated(my_tstamp[q], q)
    BY <1>1, <2>1, ReceivePlaced
  <2> HIDE DEF pkt, q
  <2>3. pkt \in GoodPackets /\ pkt.src = q
    BY <1>3 DEF Asking, Request, Reply
  <2>4. QED
    BY <1>3, <2>2, <2>3 DEF Misdated
<1>6. \A a, b : ~(a = q /\ b = p) => Kept(net, m, Asking(a, b))
  BY <1>1, <1>3, NotTaken
<1>7. /\ ricart_RD' = [ricart_RD EXCEPT ![p] =
                          IF Defers(p, pkt.msg.ts) THEN @ \cup {q}
                          ELSE IF fsm_state[p] = "PS_IDLE" THEN @ \ {q}
                          ELSE @]
      /\ net' = IF Replies(p, pkt.msg.ts) THEN dme_send_msg(m, p, q, REPLY(p)) ELSE m
      /\ UNCHANGED <<fsm_state, ricart_replies, my_tstamp>>
  BY DEF RequestReceived, peerVars
<1>8. reply \in GoodPackets /\ reply \in Asking(q, p)
  BY <1>2, ReplyGood DEF Asking, Reply, Packet, REPLY
<1>9. dme_send_msg(m, p, q, REPLY(p)) \in Nets(GoodPackets)
      /\ Sent(m, dme_send_msg(m, p, q, REPLY(p)), {reply})
  <2> HIDE DEF m, q
  <2>1. QED
    BY <1>1, <1>2, <1>8, OneTold DEF reply
<1>10. /\ ricart_RD \in [Proc -> SUBSET Proc]
       /\ my_tstamp[p] \in Timespec /\ my_tstamp[q] \in Timespec /\ fsm_state[p] \in State
  BY <1>1, <1>2, BasicTypes
<1> HIDE DEF m, pkt, q, reply
<1>11. \A T : ~NoneOf(m, T) => ~NoneOf(net', T)
  <2>1. CASE Replies(p, pkt.msg.ts)
    <3>1. Sent(m, net', {reply}) /\ net' \in Nets(GoodPackets)
      BY <1>7, <1>9, <2>1
    <3>2. QED
      BY <1>1, <3>1, SentProperties
  <2>2. CASE ~Replies(p, pkt.msg.ts)
    BY <1>7, <2>2
  <2>3. QED
    BY <2>1, <2>2
<1>12. SUFFICES ASSUME NEW a \in Proc, NEW b \in Proc \ {a}
                PROVE  Owed(net', fsm_state, ricart_RD', ricart_replies, my_tstamp, a, b)
  BY <1>7 DEF AllOwed
<1>13. CASE a = q /\ b = p
  <2>1. Replies(p, pkt.msg.ts) => ~NoneOf(net', Asking(q, p))
    <3>1. SUFFICES ASSUME Replies(p, pkt.msg.ts) PROVE ~NoneOf(net', Asking(q, p))
      OBVIOUS
    <3>2. Sent(m, net', {reply}) /\ net' \in Nets(GoodPackets)
      BY <1>7, <1>9, <3>1
    <3>3. {reply} \cap Asking(q, p) # {}
      BY <1>8
    <3>4. QED
      BY <1>1, <3>2, <3>3, SentProperties
  <2>2. q \in ricart_RD'[p] <=> Defers(p, pkt.msg.ts)
    BY <1>4, <1>7, <1>10
  <2>3. Defers(p, pkt.msg.ts) => Earlier(my_tstamp[p], my_tstamp[q])
    <3>1. fsm_state[p] = "PS_EXECUTING" => Earlier(my_tstamp[p], my_tstamp[q])
      BY <1>2, <1>4, InsideIsEarlier
    <3>2. QED
      BY <1>5, <3>1 DEF Defers
  <2>4. \/ Replies(p, pkt.msg.ts)
        \/ Defers(p, pkt.msg.ts)
        \/ fsm_state[p] = "PS_PENDING" /\ my_tstamp[q] = my_tstamp[p]
    <3>1. \/ Earlier(my_tstamp[p], my_tstamp[q]) \/ Earlier(my_tstamp[q], my_tstamp[p])
          \/ my_tstamp[q] = my_tstamp[p]
      BY <1>10 DEF Earlier, Timespec
    <3>2. QED
      BY <1>5, <1>10, <3>1 DEF Replies, Defers, State
  <2>5. Defers(p, pkt.msg.ts) => fsm_state[p] # "PS_IDLE"
    BY DEF Defers
  <2>6. QED
    BY <1>13, <2>1, <2>2, <2>3, <2>4, <2>5 DEF Owed
<1>14. CASE ~(a = q /\ b = p)
  <2>1. Owed(net, fsm_state, ricart_RD, ricart_replies, my_tstamp, a, b)
    BY DEF AllOwed
  <2>2. NoneOf(net', Asking(a, b)) => NoneOf(net, Asking(a, b))
    BY <1>6, <1>11, <1>14 DEF Kept
  <2>3. a \in ricart_RD'[b] <=> a \in ricart_RD[b]
    BY <1>7, <1>10, <1>14
  <2>4. QED
    BY <2>1, <2>2, <2>3 DEF Owed
<1>15. QED
  BY <1>13, <1>14

LEMMA OwedReply ==
    ASSUME Assumptions, IInv, AllOwed, StillWaiting,
           NEW p \in Proc, NEW slot \in Receivable(p), ReplyReceived(p, slot)
    PROVE  AllOwed' /\ StillWaiting'
<1> DEFINE m == dme_recv_msg(slot)
           pkt == PacketAt(slot)
           q == pkt.msg.pid
<1>1. p \in Node /\ m \in Nets(GoodPackets) /\ Placed(m) /\ Basics
  BY MessageTaken DEF IInv
<1>2. q \in Proc \ {p}
  BY <1>1, PeerMessage DEF ReplyReceived
<1>3. pkt \in Asking(p, q) /\ \A a, b : pkt \in Asking(a, b) => a = p /\ b = q
  BY <1>1, TakenIsOf DEF ReplyReceived
<1>4. fsm_state[p] = "PS_PENDING" /\ p \notin ricart_RD[q]
  BY <1>2, <1>3, AskingTaken
<1>5. \A a, b : ~(a = p /\ b = q) => Kept(net, m, Asking(a, b))
  BY <1>1, <1>3, NotTaken
<1>6. /\ ricart_replies' = [ricart_replies EXCEPT ![p] = @ \cup {q}]
      /\ IF my_turn(p, ricart_replies'[p])
         THEN process_ev_entered_cr(p, "PS_PENDING", m)
         ELSE net' = m /\ UNCHANGED <<peerVars, exit_request>>
      /\ UNCHANGED <<ricart_RD, my_tstamp>>
  BY <1>4 DEF ReplyReceived
<1> HIDE DEF m, pkt, q
<1>7. fsm_state \in [Proc -> State] /\ ricart_replies \in [Proc -> SUBSET Proc]
  BY <1>1, BasicTypes
<1>8. /\ \A a \in Proc \ {p} : fsm_state'[a] = fsm_state[a] /\ ricart_replies'[a] = ricart_replies[a]
      /\ ricart_replies'[p] = ricart_replies[p] \cup {q}
      /\ IF Proc \ {p} \subseteq ricart_replies'[p] THEN fsm_state'[p] = "PS_EXECUTING"
                                                   ELSE fsm_state'[p] = "PS_PENDING"
  <2>1. CASE my_turn(p, ricart_replies'[p])
    <3>1. fsm_state' = [fsm_state EXCEPT ![p] = "PS_EXECUTING"]
      BY <1>6, <2>1 DEF process_ev_entered_cr
    <3>2. QED
      BY <1>6, <1>7, <2>1, <3>1 DEF my_turn
  <2>2. CASE ~my_turn(p, ricart_replies'[p])
    BY <1>4, <1>6, <1>7, <2>2 DEF peerVars, my_turn
  <2>3. QED
    BY <2>1, <2>2
<1>9. \A T : ~NoneOf(m, T) => ~NoneOf(net', T)
  <2>1. CASE my_turn(p, ricart_replies'[p])
    <3>1. net' = dme_send_msg(m, p, SUPERVISOR_PID, [type |-> "ENTERED"])
      BY <1>6, <2>1 DEF process_ev_entered_cr
    <3>2. net' \in Nets(GoodPackets)
          /\ Sent(m, net', {Packet(p, SUPERVISOR_PID, [type |-> "ENTERED"])})
      BY <1>1, <3>1, SupPacketsGood, SupervisorTold DEF Assumptions
    <3>3. QED
      BY <1>1, <3>2, SentProperties
  <2>2. CASE ~my_turn(p, ricart_replies'[p])
    BY <1>6, <2>2
  <2>3. QED
    BY <2>1, <2>2
<1>10. StillWaiting'
  BY <1>8 DEF StillWaiting
<1>11. ASSUME NEW a \in Proc, NEW b \in Proc \ {a}
       PROVE  Owed(net', fsm_state', ricart_RD, ricart_replies', my_tstamp, a, b)
  <2>1. Owed(net, fsm_state, ricart_RD, ricart_replies, my_tstamp, a, b)
    BY DEF AllOwed
  <2>2. fsm_state[b] # "PS_IDLE" => fsm_state'[b] # "PS_IDLE"
    BY <1>8
  <2>3. CASE a = p /\ b = q
    BY <1>4, <1>8, <2>3 DEF Owed
  <2>4. CASE ~(a = p /\ b = q)
    <3>1. NoneOf(net', Asking(a, b)) => NoneOf(net, Asking(a, b))
      BY <1>5, <1>9, <2>4 DEF Kept
    <3>2. /\ fsm_state'[a] = "PS_PENDING" => fsm_state[a] = "PS_PENDING"
          /\ b \in ricart_replies[a] => b \in ricart_replies'[a]
      BY <1>4, <1>8
    <3>3. QED
      BY <2>1, <2>2, <3>1, <3>2 DEF Owed
  <2>5. QED
    BY <2>3, <2>4
<1>12. QED
  BY <1>6, <1>10, <1>11 DEF AllOwed

LEMMA OwedExited ==
    ASSUME Assumptions, IInv, Dated, AllOwed,
           NEW p \in Proc, process_ev_exited_cr(p)
    PROVE  AllOwed'
<1> DEFINE m == InformExited(p)
           told == Packet(p, SUPERVISOR_PID, [type |-> "EXITED"])
           New == {Packet(p, d, REPLY(p)) : d \in ricart_RD[p]}
<1>1. /\ m \in Nets(GoodPackets) /\ Sent(net, m, {told})
      /\ net' \in Nets(GoodPackets) /\ Sent(m, net', New)
  BY LeftSent DEF IInv
<1>2. /\ fsm_state[p] = "PS_EXECUTING"
      /\ fsm_state' = [fsm_state EXCEPT ![p] = "PS_IDLE"]
      /\ ricart_RD' = [ricart_RD EXCEPT ![p] = {}]
      /\ UNCHANGED <<ricart_replies, my_tstamp>>
  BY Left DEF IInv
<1>3. /\ fsm_state \in [Proc -> State] /\ ricart_RD \in [Proc -> SUBSET Proc]
      /\ my_tstamp \in [Proc -> Timespec] /\ net \in Nets(GoodPackets)
  BY BasicTypes DEF IInv
<1> HIDE DEF m, told
<1>4. \A T : ~NoneOf(net, T) => ~NoneOf(net', T)
  <2> HIDE DEF New
  <2>1. QED
    BY <1>1, <1>3, SentProperties
<1>5. ASSUME NEW a \in ricart_RD[p], a # p PROVE ~NoneOf(net', Asking(a, p))
  <2>1. a \in Proc
    BY <1>3
  <2>2. Packet(p, a, REPLY(p)) \in New /\ Packet(p, a, REPLY(p)) \in Asking(a, p)
    BY <1>5, <2>1, ReplyGood DEF Asking, Reply, Packet, REPLY
  <2>3. New \cap Asking(a, p) # {}
    BY <2>2
  <2> HIDE DEF New
  <2>4. QED
    BY <1>1, <2>3, SentProperties
<1>6. SUFFICES ASSUME NEW a \in Proc, NEW b \in Proc \ {a}
               PROVE  Owed(net', fsm_state', ricart_RD', ricart_replies, my_tstamp, a, b)
  BY <1>2 DEF AllOwed
<1>7. Owed(net, fsm_state, ricart_RD, ricart_replies, my_tstamp, a, b)
  BY DEF AllOwed
<1>8. CASE b = p
  <2>1. a \notin ricart_RD'[b] /\ fsm_state'[a] = fsm_state[a]
    BY <1>2, <1>3, <1>6, <1>8
  <2>2. fsm_state[a] # "PS_IDLE" => my_tstamp[a] # my_tstamp[p]
    <3>1. fsm_state[a] # "PS_IDLE" => Earlier(my_tstamp[p], my_tstamp[a])
      BY <1>2, <1>6, <1>8, InsideIsEarlier
    <3>2. my_tstamp[p] \in Timespec
      BY <1>3
    <3>3. QED
      BY <3>1, <3>2 DEF Earlier, Timespec
  <2>3. QED
    BY <1>4, <1>5, <1>6, <1>7, <1>8, <2>1, <2>2 DEF Owed
<1>9. CASE b # p
  <2>1. /\ fsm_state'[b] = fsm_state[b] /\ ricart_RD'[b] = ricart_RD[b]
        /\ fsm_state'[a] = "PS_PENDING" => fsm_state[a] = "PS_PENDING"
    BY <1>2, <1>3, <1>6, <1>9
  <2>2. QED
    BY <1>4, <1>7, <2>1 DEF Owed
<1>10. QED
  BY <1>8, <1>9

LEMMA StillWaitingNext ==
    ASSUME nodes_count > 1, Assumptions, IInv, AllOwed, StillWaiting, [Next]_vars
    PROVE  StillWaiting'
<1>1. /\ fsm_state \in [Proc -> State] /\ ricart_replies \in [Proc -> SUBSET Proc]
  BY BasicTypes DEF IInv
<1>2. ASSUME NEW p \in Proc, NEW slot \in Receivable(p),
             NEW t \in StampInstants(now), process_ev_want_cr(p, slot, t)
      PROVE  StillWaiting'
  <2>1. Proc \ {p} # {}
    <3>1. 1 \in Proc /\ 2 \in Proc
      BY DEF Assumptions, NetworkAssumption, Proc
    <3>2. QED
      BY <3>1
  <2>2. /\ \A a \in Proc \ {p} : fsm_state'[a] = fsm_state[a] /\ ricart_replies'[a] = ricart_replies[a]
        /\ ricart_replies'[p] = {}
    BY <1>1, <1>2 DEF process_ev_want_cr
  <2>3. QED
    BY <2>1, <2>2 DEF StillWaiting
<1>3. ASSUME NEW p \in Proc, process_ev_exited_cr(p) PROVE StillWaiting'
  <2>1. fsm_state' = [fsm_state EXCEPT ![p] = "PS_IDLE"] /\ UNCHANGED ricart_replies
    BY <1>3, Left DEF IInv
  <2>2. QED
    BY <1>1, <2>1 DEF StillWaiting
<1>4. ASSUME UNCHANGED <<fsm_state, ricart_replies>> PROVE StillWaiting'
  BY <1>4 DEF StillWaiting
<1>5. CASE SupervisorNext
  BY <1>4, <1>5 DEF SupervisorNext, peerVars, ricartVars
<1>6. ASSUME NEW p \in Proc, PeerNext(p) PROVE StillWaiting'
  <2>1. CASE handle_message(p)
    <3>1. PICK slot \in Receivable(p) :
             \/ SupervisorMsgKept(p, slot) /\ UNCHANGED ricartVars
             \/ \E t \in StampInstants(now) : process_ev_want_cr(p, slot, t)
             \/ RequestReceived(p, slot)
             \/ ReplyReceived(p, slot)
      BY <2>1 DEF handle_message
    <3>2. CASE (SupervisorMsgKept(p, slot) /\ UNCHANGED ricartVars) \/ RequestReceived(p, slot)
      BY <1>4, <3>2 DEF SupervisorMsgKept, SupervisorMsgNoted, RequestReceived, peerVars, ricartVars
    <3>3. QED
      BY <1>2, <3>1, <3>2, OwedReply
  <2>2. CASE sendto(p) /\ UNCHANGED <<exit_request, peerVars, clockVars, ricartVars>>
    BY <1>4, <2>2 DEF peerVars, ricartVars
  <2>3. QED
    BY <1>3, <1>6, <2>1, <2>2 DEF PeerNext
<1>7. CASE UNCHANGED vars
  BY <1>4, <1>7 DEF vars, peerVars, ricartVars
<1>8. QED
  BY <1>5, <1>6, <1>7 DEF Next

LEMMA OwedNext ==
    ASSUME Assumptions, IInv, Dated, AllOwed, StillWaiting,
           [Next]_vars
    PROVE  AllOwed'
<1>1. CASE SupervisorNext
  BY <1>1, OwedSupervisor
<1>2. ASSUME NEW p \in Proc, PeerNext(p) PROVE AllOwed'
  <2>1. CASE handle_message(p)
    <3>1. PICK slot \in Receivable(p) :
             \/ SupervisorMsgKept(p, slot) /\ UNCHANGED ricartVars
             \/ \E t \in StampInstants(now) : process_ev_want_cr(p, slot, t)
             \/ RequestReceived(p, slot)
             \/ ReplyReceived(p, slot)
      BY <2>1 DEF handle_message
    <3>2. QED
      BY <3>1, OwedNoted, OwedWant, OwedRequest, OwedReply
  <2>2. CASE process_ev_exited_cr(p)
    BY <2>2, OwedExited
  <2>3. CASE sendto(p) /\ UNCHANGED <<exit_request, peerVars, clockVars, ricartVars>>
    BY <2>3, PidFacts, OwedSendto DEF Assumptions, peerVars
  <2>4. QED
    BY <1>2, <2>1, <2>2, <2>3 DEF PeerNext
<1>3. CASE UNCHANGED vars
  BY <1>3, OwedUntouched DEF vars, peerVars
<1>4. QED
  BY <1>1, <1>2, <1>3 DEF Next

(***************************************************************************)
(* Among any peers there is one that comes after none of them.             *)
(***************************************************************************)
LEMMA Least ==
    ASSUME NEW S \in SUBSET Nat, S # {}
    PROVE  \E x \in S : \A y \in S : x <= y
<1>1. PICK x \in S : \A y \in S : <<y, x>> \notin OpToRel(<, Nat)
  BY WFMin, NatLessThanWellFounded
<1>2. \A y \in S : y \in Nat /\ x \in Nat /\ ~(y < x)
  BY <1>1, Zenon DEF OpToRel
<1>3. QED
  BY <1>2

LEMMA Foremost ==
    ASSUME NEW S \in SUBSET Proc, S # {}, my_tstamp \in [Proc -> Timespec]
    PROVE  \E p \in S : \A q \in S : ~Earlier(my_tstamp[q], my_tstamp[p])
<1> DEFINE Secs == {my_tstamp[p].sec : p \in S}
<1>1. \A p \in S : my_tstamp[p].sec \in Nat /\ my_tstamp[p].nsec \in Nat
  BY DEF Timespec
<1>2. PICK s \in Secs : \A y \in Secs : s <= y
  <2>1. Secs \in SUBSET Nat /\ Secs # {}
    BY <1>1
  <2> HIDE DEF Secs
  <2>2. QED
    BY <2>1, Least
<1> DEFINE First == {p \in S : my_tstamp[p].sec = s}
           Nsecs == {my_tstamp[p].nsec : p \in First}
<1>3. PICK n \in Nsecs : \A y \in Nsecs : n <= y
  <2>1. Nsecs \in SUBSET Nat /\ Nsecs # {}
    BY <1>1, <1>2
  <2> HIDE DEF Nsecs
  <2>2. QED
    BY <2>1, Least
<1>4. PICK p \in First : my_tstamp[p].nsec = n
  BY <1>3
<1>5. ASSUME NEW q \in S PROVE ~Earlier(my_tstamp[q], my_tstamp[p])
  <2>1. s <= my_tstamp[q].sec /\ (my_tstamp[q].sec = s => n <= my_tstamp[q].nsec)
    BY <1>2, <1>3
  <2>2. my_tstamp[q].sec \in Nat /\ my_tstamp[q].nsec \in Nat /\ s \in Nat /\ n \in Nat
    BY <1>1, <1>4
  <2>3. my_tstamp[p].sec = s /\ my_tstamp[p].nsec = n
    BY <1>4
  <2>4. QED
    BY <2>1, <2>2, <2>3 DEF Earlier
<1>6. QED
  BY <1>4, <1>5

LEMMA OwedBlocks == ASSUME IInv, AllOwed, StillWaiting PROVE OnlyTiesBlock
<1> DEFINE S == {p \in Proc : fsm_state[p] = "PS_PENDING"}
<1>1. SUFFICES ASSUME NetEmpty, \A p \in Proc : exited_due[p] = 0, S # {},
                      \A p, q \in S : p # q => my_tstamp[p] # my_tstamp[q]
               PROVE  FALSE
  BY DEF OnlyTiesBlock
<1>2. /\ fsm_state \in [Proc -> State] /\ my_tstamp \in [Proc -> Timespec]
      /\ net \in Nets(GoodPackets) /\ EventsMatch
  BY BasicTypes DEF IInv
<1>3. \A p \in Proc : fsm_state[p] # "PS_EXECUTING"
  BY <1>1, <1>2 DEF EventsMatch
<1>4. \A T : NoneOf(net, T)
  <2>1. \A l \in Lane : net[l] = <<>>
    BY <1>1, <1>2 DEF NetEmpty, Nets
  <2>2. QED
    BY <2>1 DEF NoneOf
<1>5. PICK p \in S : \A q \in S : ~Earlier(my_tstamp[q], my_tstamp[p])
  <2>1. S \in SUBSET Proc
    OBVIOUS
  <2> HIDE DEF S
  <2>2. QED
    BY <1>1, <1>2, <2>1, Foremost
<1>6. PICK q \in Proc \ {p} : q \notin ricart_replies[p]
  BY <1>5 DEF StillWaiting
<1>7. fsm_state[q] # "PS_IDLE" /\ (p \in ricart_RD[q] \/ my_tstamp[p] = my_tstamp[q])
      /\ (p \in ricart_RD[q] => Earlier(my_tstamp[q], my_tstamp[p]))
  BY <1>4, <1>5, <1>6 DEF AllOwed, Owed
<1>8. q \in S
  BY <1>2, <1>3, <1>6, <1>7 DEF State
<1>9. QED
  BY <1>1, <1>5, <1>6, <1>7, <1>8

(***************************************************************************)
(* Among two processes or more only equal stamps, taken at one instant,    *)
(* can leave one waiting for good, whenever the supervisor starts.  (A     *)
(* single process of ricart.c waits for a REPLY nobody sends.)             *)
(***************************************************************************)
THEOREM OnlyTies ==
    ASSUME StampsIncrease, nodes_count > 1
    PROVE  Spec /\ (Net = "udp" => []EpochKnown) => []OnlyTiesBlock
<1>1. Assumptions
  BY NetworkAssumption, SupervisorAssumption, ClockAssumption DEF Assumptions
<1> DEFINE Waits == Dated /\ AllOwed /\ StillWaiting
<1>2. Init => Waits
  BY <1>1, DatedInit, OwedInit
<1>3. IInv /\ Waits /\ EpochKnown' /\ [Next]_vars => Waits'
  BY <1>1, DatedNext, OwedNext, StillWaitingNext
<1>4. IInv /\ Waits => OnlyTiesBlock
  BY OwedBlocks
<1> HIDE DEF Waits
<1>5. QED
  BY <1>2, <1>3, <1>4, EpochAgreed, Invariance, PTL DEF Spec

-----------------------------------------------------------------------------
LEMMA Assumed == Assumptions
BY NetworkAssumption, SupervisorAssumption, ClockAssumption DEF Assumptions

(***************************************************************************)
(* The supervisor's view of the peers of ricart.c, on networks that keep   *)
(* the order of packets between two nodes: a WANT finds its peer idle, so  *)
(* that no election is dropped.                                            *)
(***************************************************************************)
THEOREM WantsFindIdle == ASSUME Net # "udp" PROVE Spec => []WantFindsIdle
<1>1. IInv /\ Announced(net, fsm_state) => WantFindsIdle
  BY Assumed, BasicTypes, PacketKinds, SeenWantsFindIdle DEF IInv, Announced, Assumptions
<1>2. QED
  BY <1>1, Invariance, AnnouncedInvariance, PTL

LEMMA CountKept ==
    ASSUME Net # "udp", Assumptions, IInv, Announced(net, fsm_state), Counted, [Next]_vars
    PROVE  Counted'
<1>1. CASE UNCHANGED supVars
  BY <1>1 DEF supVars, Counted, Awaited
<1>2. CASE SupNext
  <2>1. /\ net \in Nets(GoodPackets) /\ Placed(net) /\ SupTypeOK
        /\ Sight(GoodPackets, net, fsm_state, nodes)
    BY BasicTypes DEF IInv, Announced
  <2>2. QED
    BY <1>2, <2>1, SupPacketsGood, PacketKinds, CountedSupervisor DEF Assumptions
<1>3. QED
  BY <1>1, <1>2 DEF Next, SupervisorNext, PeerNext, SupervisorUnchanged, vars

(***************************************************************************)
(* A test gets no more responses than it elected processes: the arrays     *)
(* process_messages stores the response times in are not overrun.          *)
(***************************************************************************)
THEOREM NoResponseTooMany == ASSUME Net # "udp" PROVE Spec => []ResponsesFit
<1>1. Init => Counted
  BY Assumed, CountedInit DEF Init, Assumptions
<1>2. IInv /\ Announced(net, fsm_state) /\ Counted /\ [Next]_vars => Counted'
  BY Assumed, CountKept
<1>3. IInv /\ Counted => ResponsesFit
  BY Assumed, BasicTypes, CountedFit DEF IInv, Assumptions
<1>4. QED
  BY <1>1, <1>2, <1>3, Invariance, AnnouncedInvariance, PTL DEF Spec

-----------------------------------------------------------------------------
(***************************************************************************)
(* No false alarm, on one host.  A peer asks r until it has the REPLY that *)
(* r sent behind its EXITED.  Who is inside has a REPLY of everybody, and  *)
(* gives none before it leaves.                                            *)
(***************************************************************************)
Asks(st, rp) ==
    {pair \in Proc \X Proc : ~(st[pair[1]] # "PS_IDLE" /\ pair[2] \in rp[pair[1]])}

Freed(n, st, rp) == OnHost(GoodPackets, "REPLY", n, st, Asks(st, rp))

AInv == Freed(net, fsm_state, ricart_replies) /\ Unalarmed

LEMMA MessageRead ==
    ASSUME Net = "loopback", Assumptions, Basics, AInv, NEW p \in Proc, NEW slot \in Receivable(p)
    PROVE  LET m == dme_recv_msg(slot) IN
           /\ p \in Node /\ m \in Nets(GoodPackets) /\ Placed(m)
           /\ Freed(m, fsm_state, ricart_replies) /\ Reports(m) = Reports(net)
           /\ \A q \in Proc \ {p} : PacketAt(slot) \in Reply(q, p) =>
                 Freed(m, fsm_state, [ricart_replies EXCEPT ![p] = @ \cup {q}])
<1> DEFINE m == dme_recv_msg(slot)
           asks == Asks(fsm_state, ricart_replies)
<1>1. /\ p \in Node /\ net \in Nets(GoodPackets) /\ m \in Nets(GoodPackets) /\ Placed(m)
      /\ ricart_replies \in [Proc -> SUBSET Proc]
  BY MessageTaken, BasicTypes
<1>2. OnHost(GoodPackets, "REPLY", net, fsm_state, asks)
  BY DEF AInv, Freed
<1>3. OnHost(GoodPackets, "REPLY", m, fsm_state, asks) /\ Reports(m) = Reports(net)
  <2> HIDE DEF asks
  <2>1. QED
    BY <1>1, <1>2, HostTaken DEF Assumptions
<1>4. ASSUME NEW q \in Proc \ {p}, PacketAt(slot) \in Reply(q, p)
      PROVE  Freed(m, fsm_state, [ricart_replies EXCEPT ![p] = @ \cup {q}])
  <2> DEFINE more == Asks(fsm_state, [ricart_replies EXCEPT ![p] = @ \cup {q}])
  <2>1. PacketAt(slot) \in FromTo(GoodPackets, "REPLY", q, p)
    BY <1>4 DEF Reply, FromTo
  <2>2. asks \ {<<p, q>>} \subseteq more
    BY <1>1 DEF Asks
  <2> HIDE DEF asks, more
  <2>3. OnHost(GoodPackets, "REPLY", m, fsm_state, asks \ {<<p, q>>})
    BY <1>1, <1>2, <2>1, HostTaken DEF Assumptions
  <2> HIDE DEF m
  <2>4. OnHost(GoodPackets, "REPLY", m, fsm_state, more)
    BY <2>2, <2>3, HostMore
  <2>5. QED
    BY <2>4 DEF Freed, more
<1>5. QED
  BY <1>1, <1>3, <1>4 DEF Freed

(* Whoever is told to compete forgets the replies it had. *)
LEMMA AWantOK ==
    ASSUME Net = "loopback", Assumptions, Basics, AInv, NEW p \in Proc,
           NEW slot \in Receivable(p), NEW t \in StampInstants(now), process_ev_want_cr(p, slot, t)
    PROVE  Freed(net, fsm_state, ricart_replies)' /\ Reports(net') = Reports(net)
<1> DEFINE m == dme_recv_msg(slot)
           New == {Packet(p, d, REQUEST(p, t)) : d \in Proc \ {p}}
           asks == Asks(fsm_state, ricart_replies)
           more == Asks(fsm_state', ricart_replies')
<1>1. /\ fsm_state \in [Proc -> State] /\ ricart_replies \in [Proc -> SUBSET Proc]
      /\ fsm_state' = [fsm_state EXCEPT ![p] = "PS_PENDING"]
      /\ ricart_replies' = [ricart_replies EXCEPT ![p] = {}]
      /\ net' = dme_broadcast_msg(m, p, REQUEST(p, t))
  BY BasicTypes DEF process_ev_want_cr
<1>2. /\ p \in Node /\ m \in Nets(GoodPackets) /\ Placed(m)
      /\ OnHost(GoodPackets, "REPLY", m, fsm_state, asks) /\ Reports(m) = Reports(net)
  BY MessageRead DEF Freed
<1> HIDE DEF m
<1>3. net' \in Nets(GoodPackets) /\ Sent(m, net', New)
  BY <1>1, <1>2, RequestsGood, OthersTold DEF Assumptions
<1>4. \A pkt \in New : pkt.msg.type \notin {"ENTERED", "EXITED"}
  BY DEF Packet, REQUEST
<1>5. asks \subseteq more
  BY <1>1 DEF Asks
<1>6. \A r \in Proc : fsm_state'[r] # "PS_EXECUTING" => fsm_state[r] # "PS_EXECUTING"
                                                        \/ r = p
  BY <1>1
<1>7. fsm_state[p] # "PS_EXECUTING"
  BY DEF process_ev_want_cr, IsWant
<1> HIDE DEF New, asks, more
<1>8. OnHost(GoodPackets, "REPLY", net', fsm_state, asks) /\ Reports(net') = Reports(m)
  BY <1>2, <1>3, <1>4, HostSent DEF Assumptions
<1>9. OnHost(GoodPackets, "REPLY", net', fsm_state, more)
  BY <1>5, <1>8, HostMore
<1>10. OnHost(GoodPackets, "REPLY", net', fsm_state', more)
  BY <1>6, <1>7, <1>9 DEF OnHost, Reporting
<1>11. QED
  BY <1>2, <1>8, <1>10 DEF Freed, more

LEMMA ARequestOK ==
    ASSUME Net = "loopback", Assumptions, Basics, AInv, NEW p \in Proc,
           NEW slot \in Receivable(p), RequestReceived(p, slot)
    PROVE  Freed(net, fsm_state, ricart_replies)' /\ Reports(net') = Reports(net)
<1> DEFINE m == dme_recv_msg(slot)
           q == PacketAt(slot).msg.pid
           asks == Asks(fsm_state, ricart_replies)
<1>1. q \in Proc \ {p} /\ q \in Node
  BY PeerMessage, PidFacts DEF RequestReceived, Assumptions
<1>2. /\ p \in Node /\ m \in Nets(GoodPackets) /\ Placed(m)
      /\ OnHost(GoodPackets, "REPLY", m, fsm_state, asks) /\ Reports(m) = Reports(net)
  BY MessageRead DEF Freed
<1>3. /\ net' = dme_send_msg(m, p, q, REPLY(p)) \/ net' = m
      /\ UNCHANGED <<fsm_state, ricart_replies>>
  BY DEF RequestReceived, peerVars
<1>4. Packet(p, q, REPLY(p)) \in GoodPackets /\ REPLY(p).type \notin {"ENTERED", "EXITED"}
  BY <1>1, ReplyGood DEF REPLY
<1> HIDE DEF m, q, asks
<1>5. OnHost(GoodPackets, "REPLY", net', fsm_state, asks) /\ Reports(net') = Reports(m)
  BY <1>1, <1>2, <1>3, <1>4, HostTold DEF Assumptions
<1>6. QED
  BY <1>2, <1>3, <1>5 DEF Freed, asks

LEMMA AReplyOK ==
    ASSUME Net = "loopback", Assumptions, Basics, AInv, NEW p \in Proc,
           NEW slot \in Receivable(p), ReplyReceived(p, slot)
    PROVE  Freed(net, fsm_state, ricart_replies)' /\ Reports(net') = Reports(net)
<1> DEFINE m == dme_recv_msg(slot)
           q == PacketAt(slot).msg.pid
           asks == Asks(fsm_state, ricart_replies')
           more == Asks(fsm_state', ricart_replies')
<1>1. q \in Proc \ {p} /\ PacketAt(slot) \in Reply(q, p)
  BY MessageTaken, PeerMessage DEF ReplyReceived, Reply
<1>2. /\ ricart_replies' = IF fsm_state[p] = "PS_PENDING"
                           THEN [ricart_replies EXCEPT ![p] = @ \cup {q}]
                           ELSE ricart_replies
      /\ IF fsm_state[p] = "PS_PENDING" /\ my_turn(p, ricart_replies'[p])
         THEN process_ev_entered_cr(p, fsm_state[p], m)
         ELSE net' = m /\ UNCHANGED fsm_state
      /\ fsm_state \in [Proc -> State]
  BY BasicTypes DEF ReplyReceived, peerVars
<1>3. /\ m \in Nets(GoodPackets) /\ Placed(m)
      /\ OnHost(GoodPackets, "REPLY", m, fsm_state, asks) /\ Reports(m) = Reports(net)
  <2> HIDE DEF m, q
  <2>1. Freed(m, fsm_state, ricart_replies')
    BY <1>1, <1>2, MessageRead DEF m
  <2>2. QED
    BY <2>1, MessageRead DEF Freed, m
<1> HIDE DEF q
<1>4. CASE fsm_state[p] = "PS_PENDING" /\ my_turn(p, ricart_replies'[p])
  <2>1. /\ net' = dme_send_msg(m, p, SUPERVISOR_PID, [type |-> "ENTERED"])
        /\ fsm_state' = [fsm_state EXCEPT ![p] = "PS_EXECUTING"]
    BY <1>2, <1>4 DEF process_ev_entered_cr
  <2>2. asks \subseteq more
    BY <1>2, <1>4, <2>1 DEF Asks
  <2> HIDE DEF m, asks, more
  <2>3. OnHost(GoodPackets, "REPLY", net', fsm_state', asks) /\ Reports(net') = Reports(m)
    BY <1>2, <1>3, <2>1, SupPacketsGood, HostEntered DEF Assumptions
  <2>4. OnHost(GoodPackets, "REPLY", net', fsm_state', more)
    BY <2>2, <2>3, HostMore
  <2>5. QED
    BY <1>3, <2>3, <2>4 DEF Freed, more
<1>5. CASE ~(fsm_state[p] = "PS_PENDING" /\ my_turn(p, ricart_replies'[p]))
  BY <1>2, <1>3, <1>5 DEF Freed
<1>6. QED
  BY <1>4, <1>5

(* Who leaves has replied to nobody that competes, as it came first. *)
LEMMA InsideUnanswering ==
    ASSUME IInv, Dated, NEW p \in Proc, NEW d \in Proc \ {p},
           fsm_state[p] = "PS_EXECUTING"
    PROVE  /\ ~(fsm_state[d] # "PS_IDLE" /\ p \in ricart_replies[d])
           /\ NoneOf(net, Reply(p, d))
<1>1. ~Answered(net, fsm_state, ricart_replies, d, p)
  <2>1. SUFFICES ASSUME Answered(net, fsm_state, ricart_replies, d, p) PROVE FALSE
    OBVIOUS
  <2>2. Earlier(my_tstamp[d], my_tstamp[p])
    BY <2>1 DEF Dated, Consent
  <2>3. Earlier(my_tstamp[p], my_tstamp[d])
    BY <2>1, InsideIsEarlier DEF Answered
  <2>4. my_tstamp[p] \in Timespec /\ my_tstamp[d] \in Timespec
    BY BasicTypes DEF IInv
  <2>5. QED
    BY <2>2, <2>3, <2>4 DEF Earlier, Timespec
<1>2. fsm_state[d] = "PS_IDLE" => NoneOf(net, Asking(d, p))
  BY DEF IInv, AllAskedOnce, AskedOnce
<1>3. NoneOf(net, Asking(d, p)) => NoneOf(net, Reply(p, d))
  BY DEF NoneOf, Asking
<1>4. QED
  BY <1>1, <1>2, <1>3 DEF Answered

LEMMA AExitedOK ==
    ASSUME Net = "loopback", Assumptions, IInv, Dated, AInv,
           NEW p \in Proc, process_ev_exited_cr(p)
    PROVE  Freed(net, fsm_state, ricart_replies)' /\ Reports(net') = Reports(net)
<1> DEFINE m == InformExited(p)
           New == {Packet(p, d, REPLY(p)) : d \in ricart_RD[p]}
           asks == Asks(fsm_state, ricart_replies)
           more == Asks(fsm_state', ricart_replies')
<1>1. /\ net \in Nets(GoodPackets) /\ Placed(net) /\ fsm_state \in [Proc -> State]
      /\ ricart_replies \in [Proc -> SUBSET Proc]
      /\ OnHost(GoodPackets, "REPLY", net, fsm_state, asks)
  BY BasicTypes DEF IInv, AInv, Freed
<1>2. /\ fsm_state[p] = "PS_EXECUTING" /\ Waiting(p)
      /\ fsm_state' = [fsm_state EXCEPT ![p] = "PS_IDLE"]
      /\ UNCHANGED ricart_replies
  BY Left DEF process_ev_exited_cr, ExitedDue, IInv
<1>3. /\ m \in Nets(GoodPackets) /\ Placed(m)
      /\ net' \in Nets(GoodPackets) /\ Sent(m, net', New)
  BY LeftSent DEF IInv
<1>4. \A d \in Proc \ {p} : <<d, p>> \in asks /\ NoneOf(net, FromTo(GoodPackets, "REPLY", p, d))
  BY <1>2, InsideUnanswering DEF Asks, Reply, FromTo
<1>5. \A pkt \in New : pkt.msg.type \notin {"ENTERED", "EXITED"}
  BY DEF Packet, REPLY
<1>6. asks \subseteq more
  BY <1>1, <1>2 DEF Asks
<1> HIDE DEF New, asks, more
<1>7. OnHost(GoodPackets, "REPLY", m, fsm_state', asks) /\ Reports(m) = Reports(net)
  BY <1>1, <1>2, <1>4, SupPacketsGood, HostLeft DEF Assumptions
<1> HIDE DEF m
<1>8. OnHost(GoodPackets, "REPLY", net', fsm_state', asks) /\ Reports(net') = Reports(m)
  BY <1>3, <1>5, <1>7, HostSent DEF Assumptions
<1>9. OnHost(GoodPackets, "REPLY", net', fsm_state', more)
  BY <1>6, <1>8, HostMore
<1>10. QED
  BY <1>7, <1>8, <1>9 DEF Freed, more

(* Who is inside has the REPLY of everybody: all have reported that they left. *)
LEMMA InsideAlone ==
    ASSUME IInv, Dated, Freed(net, fsm_state, ricart_replies)
    PROVE  Alone(net, fsm_state)
<1> DEFINE asks == Asks(fsm_state, ricart_replies)
<1>1. SUFFICES ASSUME NEW p \in Proc, NEW q \in Proc \ {p}, fsm_state[q] = "PS_EXECUTING"
               PROVE  fsm_state[p] # "PS_EXECUTING" /\ HandedOver(net, ExitedFrom(p))
  BY DEF Alone
<1>2. fsm_state[p] # "PS_EXECUTING"
  BY <1>1, DatedExcludes DEF MutualExclusion
<1>3. p \in ricart_replies[q]
  BY <1>1 DEF IInv, AllAskedOnce, AskedOnce
<1>4. <<q, p>> \notin asks
  BY <1>1, <1>3 DEF Asks
<1>5. Cleared(net, <<q, p>> \in asks, p, FromTo(GoodPackets, "REPLY", p, q))
  BY DEF Freed, OnHost
<1>6. QED
  BY <1>2, <1>4, <1>5 DEF Cleared

LEMMA ANextOK ==
    ASSUME Net = "loopback", OutOfBounds = {FALSE}, Assumptions, IInv, Dated,
           Announced(net, fsm_state), AInv, [Next]_vars
    PROVE  AInv'
<1> DEFINE asks == Asks(fsm_state, ricart_replies)
<1>1. /\ net \in Nets(GoodPackets) /\ Placed(net) /\ SupTypeOK
      /\ OnHost(GoodPackets, "REPLY", net, fsm_state, asks) /\ Unalarmed
      /\ Sight(GoodPackets, net, fsm_state, nodes) /\ Alone(net, fsm_state)
  BY InsideAlone, BasicTypes DEF IInv, AInv, Freed, Announced
<1>2. ForPeers(GoodPackets)
  BY PacketFields DEF ForPeers
<1>3. CASE SupervisorNext
  <2>1. UNCHANGED <<fsm_state, ricart_replies>>
    BY <1>3 DEF SupervisorNext, peerVars, ricartVars
  <2> HIDE DEF asks
  <2>2. OnHost(GoodPackets, "REPLY", net', fsm_state, asks) /\ Unalarmed'
    BY <1>1, <1>2, <1>3, SupPacketsGood, HostSupervisor DEF SupervisorNext, Assumptions
  <2>3. QED
    BY <2>1, <2>2 DEF AInv, Freed, asks
<1>4. ASSUME NEW p \in Proc, PeerNext(p) PROVE AInv'
  <2>1. SupervisorUnchanged
    BY <1>4 DEF PeerNext
  <2>2. ASSUME Freed(net, fsm_state, ricart_replies)', Reports(net') = Reports(net),
               exit_request'[SUPERVISOR_PID] = exit_request[SUPERVISOR_PID]
        PROVE  AInv'
    BY <2>1, <2>2, AlarmPeer DEF AInv, SupervisorUnchanged
  <2>3. CASE sendto(p) /\ UNCHANGED <<exit_request, peerVars, clockVars, ricartVars>>
    <3> HIDE DEF asks
    <3>1. OnHost(GoodPackets, "REPLY", net', fsm_state, asks) /\ Unalarmed'
      BY <1>1, <1>2, <2>1, <2>3, PidFacts, HostSendto DEF Assumptions, SupervisorUnchanged
    <3>2. UNCHANGED <<fsm_state, ricart_replies>>
      BY <2>3 DEF peerVars, ricartVars
    <3>3. QED
      BY <3>1, <3>2 DEF AInv, Freed, asks
  <2>4. CASE process_ev_exited_cr(p)
    BY <2>2, <2>4, Left, AExitedOK DEF IInv
  <2>5. CASE handle_message(p)
    <3>1. PICK slot \in Receivable(p) :
             \/ SupervisorMsgKept(p, slot) /\ UNCHANGED ricartVars
             \/ \E t \in StampInstants(now) : process_ev_want_cr(p, slot, t)
             \/ RequestReceived(p, slot)
             \/ ReplyReceived(p, slot)
      BY <2>5 DEF handle_message
    <3>2. CASE SupervisorMsgKept(p, slot) /\ UNCHANGED ricartVars
      <4>1. net' = dme_recv_msg(slot) /\ UNCHANGED <<fsm_state, ricart_replies, exit_request>>
        BY <3>2 DEF SupervisorMsgKept, SupervisorMsgNoted, peerVars, ricartVars
      <4>2. QED
        BY <2>2, <4>1, MessageRead DEF IInv
    <3>3. CASE \E t \in StampInstants(now) : process_ev_want_cr(p, slot, t)
      BY <2>2, <3>3, AWantOK DEF IInv, process_ev_want_cr
    <3>4. CASE RequestReceived(p, slot)
      BY <2>2, <3>4, ARequestOK DEF IInv, RequestReceived
    <3>5. CASE ReplyReceived(p, slot)
      <4>1. UNCHANGED exit_request
        BY <3>5 DEF ReplyReceived, process_ev_entered_cr
      <4>2. QED
        BY <2>2, <3>5, <4>1, AReplyOK DEF IInv
    <3>6. QED
      BY <3>1, <3>2, <3>3, <3>4, <3>5
  <2>6. QED
    BY <1>4, <2>3, <2>4, <2>5 DEF PeerNext
<1>5. CASE UNCHANGED vars
  BY <1>5 DEF vars, peerVars, supVars, ricartVars, AInv, Unalarmed, Freed
<1>6. QED
  BY <1>3, <1>4, <1>5 DEF Next

(***************************************************************************)
(* On one host the supervisor does not stop an experiment that is in order,*)
(* whenever it starts it, when the memory behind its nodes array does not  *)
(* read as a peer that executes and stamps increase with the instants they *)
(* are taken at.                                                           *)
(***************************************************************************)
THEOREM NoAlarm ==
    ASSUME Net = "loopback", OutOfBounds = {FALSE}, StampsIncrease
    PROVE  Spec => []NoFalseAlarm
<1>1. Init => AInv /\ Dated
  BY Assumed, DatedInit, HostInit DEF Init, Assumptions, AInv, Freed
<1>2. IInv /\ Dated /\ EpochKnown' /\ [Next]_vars => Dated'
  BY Assumed, DatedNext
<1>3. IInv /\ Dated /\ Announced(net, fsm_state) /\ AInv /\ [Next]_vars => AInv'
  BY Assumed, ANextOK
<1>4. AInv => NoFalseAlarm
  BY DEF AInv, Unalarmed, NoFalseAlarm
<1>5. Spec => []EpochKnown
  BY EpochHeard
<1>6. Spec => []Announced(net, fsm_state)
  BY AnnouncedInvariance
<1>7. QED
  BY <1>1, <1>2, <1>3, <1>4, <1>5, <1>6, Invariance, PTL DEF Spec
=============================================================================

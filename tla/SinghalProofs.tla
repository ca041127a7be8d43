---------------------------- MODULE SinghalProofs ----------------------------
(***************************************************************************)
(* Theorems about Singhal for every nodes_count, OutOfBounds, clock and    *)
(* number of tests.  For every Net: its types, that its own flags agree    *)
(* with the state machine, and that no handler is fatal.  For networks     *)
(* that keep the order of packets between two nodes: the information       *)
(* structure, mutual exclusion, that it implements Mutex, and that the     *)
(* supervisor's view of a peer never runs ahead of it.  On one host: that  *)
(* the supervisor never stops without a reason.                            *)
(***************************************************************************)
EXTENDS Singhal, PeerProofs

(***************************************************************************)
(* What one peer sends to another names its sender.                        *)
(***************************************************************************)
GoodPackets ==
    {pkt \in PacketType :
        pkt.msg \notin SupMsg =>
            /\ pkt.src \in Proc /\ pkt.dst \in Proc /\ pkt.src # pkt.dst
            /\ pkt.msg.pid = pkt.src}

(***************************************************************************)
(* An EXITED event is due exactly while its peer is inside, so that it     *)
(* cannot be fatal.                                                        *)
(***************************************************************************)
EventsMatch ==
    \A p \in Proc : exited_due[p] = IF fsm_state[p] = "PS_EXECUTING" THEN 1 ELSE 0

(* Inside, nobody is left to ask; nobody asks or answers itself. *)
SetsMatch ==
    \A p \in Proc :
        /\ Executing[p] => Ri[p] = {}
        /\ p \notin Ri[p] /\ p \notin Ii[p]

(* What holds on every network. *)
IInv ==
    /\ TypeOK
    /\ net \in Nets(GoodPackets)
    /\ Placed(net)
    /\ FlagsAgree
    /\ EventsMatch
    /\ SetsMatch
    /\ NoPeerFatal

Assumptions == NetworkAssumption /\ SupervisorAssumption /\ ClockAssumption

-----------------------------------------------------------------------------
(* Messages and packets. *)

LEMMA StampType ==
    ASSUME Assumptions, sup_syncro \in [Proc -> Timespec], NEW p \in Proc, NEW t \in Nat
    PROVE  Stamp(p, t) \in Timespec
<1>1. NsecPerSec \in Nat \ {0} /\ Uint32 \in Nat \ {0}
  BY DEF Assumptions, ClockAssumption
<1>2. ASSUME NEW a \in Nat, NEW b \in Nat PROVE MinusUint32(a, b) \in Nat
  <2>1. b % Uint32 \in Nat /\ b % Uint32 < Uint32
    BY <1>1
  <2>2. a + Uint32 - (b % Uint32) \in Nat
    BY <1>1, <2>1
  <2>3. QED
    BY <1>1, <2>2 DEF MinusUint32
<1>3. t \div NsecPerSec \in Nat /\ t % NsecPerSec \in Nat
  BY <1>1
<1>4. sup_syncro[p].sec \in Nat /\ sup_syncro[p].nsec \in Nat
  BY DEF Timespec
<1>5. QED
  BY <1>2, <1>3, <1>4 DEF Stamp, Reading, Timespec

LEMMA SupPacketsGood == SupPackets \subseteq GoodPackets
BY DEF SupPackets, GoodPackets, PacketType

LEMMA RequestGood ==
    ASSUME Assumptions, sup_syncro \in [Proc -> Timespec], NEW t \in Nat,
           NEW p \in Proc, NEW q \in Proc, p # q
    PROVE  /\ Packet(p, q, REQUEST(p, t)) \in GoodPackets
           /\ REQUEST(p, t) \notin SupMsg
<1>1. REQUEST(p, t) \in PeerMsg
  BY StampType DEF REQUEST, PeerMsg
<1>2. REQUEST(p, t).type = "REQUEST" /\ REQUEST(p, t).pid = p
  BY DEF REQUEST
<1>3. REQUEST(p, t) \notin SupMsg
  BY <1>2 DEF SupMsg
<1>4. QED
  BY <1>1, <1>2, <1>3, PidFacts DEF Packet, PacketType, GoodPackets, Assumptions

LEMMA ReplyGood ==
    ASSUME Assumptions, NEW p \in Proc, NEW q \in Proc, p # q
    PROVE  /\ Packet(p, q, REPLY(p)) \in GoodPackets
           /\ REPLY(p) \notin SupMsg
<1>1. REPLY(p) \in PeerMsg
  BY DEF REPLY, PeerMsg
<1>2. REPLY(p).type = "REPLY" /\ REPLY(p).pid = p
  BY DEF REPLY
<1>3. REPLY(p) \notin SupMsg
  BY <1>2 DEF SupMsg
<1>4. QED
  BY <1>1, <1>2, <1>3, PidFacts DEF Packet, PacketType, GoodPackets, Assumptions

(* What a peer finds in a packet. *)
LEMMA PacketFields ==
    ASSUME NEW pkt \in GoodPackets
    PROVE  /\ pkt.dst \in Node
           /\ pkt.msg.type \in {"REQUEST", "REPLY"} => pkt.msg \notin SupMsg
           /\ pkt.msg \notin SupMsg =>
                 /\ pkt.src \in Proc /\ pkt.dst \in Proc /\ pkt.src # pkt.dst
                 /\ pkt.msg.pid = pkt.src
           /\ pkt.msg.type = "REQUEST" => pkt.msg.ts \in Timespec /\ pkt.msg.at \in Nat
<1>1. pkt.dst \in Node /\ pkt.msg \in SupMsg \cup PeerMsg
  BY DEF GoodPackets, PacketType
<1>2. pkt.msg.type \in {"REQUEST", "REPLY"} => pkt.msg \notin SupMsg
  BY DEF SupMsg
<1>3. pkt.msg.type = "REQUEST" => pkt.msg.ts \in Timespec /\ pkt.msg.at \in Nat
  <2>1. SUFFICES ASSUME pkt.msg.type = "REQUEST" PROVE pkt.msg.ts \in Timespec /\ pkt.msg.at \in Nat
    OBVIOUS
  <2>2. pkt.msg \in PeerMsg
    BY <1>1, <1>2, <2>1
  <2>3. QED
    BY <2>1, <2>2 DEF PeerMsg
<1>4. QED
  BY <1>1, <1>2, <1>3 DEF GoodPackets

(* What every handler of a message starts from. *)
LEMMA MessageTaken ==
    ASSUME Assumptions, IInv, NEW p \in Proc, NEW slot \in Receivable(p)
    PROVE  /\ p \in Node
           /\ dme_recv_msg(slot) \in Nets(GoodPackets)
           /\ Placed(dme_recv_msg(slot))
           /\ PacketAt(slot) \in GoodPackets
           /\ PacketAt(slot).dst = p
<1>1. p \in Node /\ net \in Nets(GoodPackets) /\ Placed(net)
  BY PidFacts DEF Assumptions, IInv
<1>2. QED
  BY <1>1, ReceiveProperties, ReceivePlaced

LEMMA GoodAddressed == \A pkt \in GoodPackets : pkt.dst \in Node
BY PacketFields

-----------------------------------------------------------------------------
(***************************************************************************)
(* On every network.                                                       *)
(***************************************************************************)
LEMMA InitOK == ASSUME Assumptions, Init PROVE IInv
<1>1. TypeOK
  <2>1. net \in [Lane -> Seq(PacketType)]
    BY DEF Init, NetInit
  <2>2. SupTypeOK
    BY DEF Init, SupInit, SupTypeOK, State
  <2>3. PeerTypeOK
    BY DEF Init, PeerInit, PeerTypeOK, State
  <2>4. ClockTypeOK
    BY DEF Init, ClockInit, ClockTypeOK, Timespec, Assumptions, ClockAssumption
  <2>5. \A p \in Proc : init_Ri(p) \subseteq Proc
    BY DEF init_Ri, Proc, Assumptions, NetworkAssumption
  <2>6. /\ Requesting \in [Proc -> BOOLEAN]
        /\ Executing \in [Proc -> BOOLEAN]
        /\ Ri \in [Proc -> SUBSET Proc]
        /\ Ii \in [Proc -> SUBSET Proc]
        /\ pending_request \in [Proc -> Timespec]
    BY <2>5 DEF Init, Timespec
  <2>7. QED
    BY <2>1, <2>2, <2>3, <2>4, <2>6 DEF TypeOK
<1>2. net \in Nets(GoodPackets) /\ Placed(net)
  BY NothingPlaced DEF Init, NetInit, Nets
<1>3. FlagsAgree
  BY DEF Init, PeerInit, FlagsAgree
<1>4. EventsMatch
  BY DEF Init, PeerInit, EventsMatch
<1>5. SetsMatch
  BY DEF Init, SetsMatch, init_Ri, Proc
<1>6. NoPeerFatal
  BY PidFacts DEF Assumptions, Init, SupInit, NoPeerFatal
<1>7. QED
  BY <1>1, <1>2, <1>3, <1>4, <1>5, <1>6 DEF IInv

LEMMA GoodIsType == ASSUME NEW n \in Nets(GoodPackets) PROVE n \in [Lane -> Seq(PacketType)]
<1>1. GoodPackets \subseteq PacketType
  BY DEF GoodPackets
<1>2. QED
  BY <1>1, Widened DEF Nets

(* A step that leaves the peers alone only moves packets. *)
LEMMA PeersUntouched ==
    ASSUME Assumptions, IInv, UNCHANGED <<peerVars, singhalVars>>, ClockTypeOK',
           net' \in Nets(GoodPackets), Placed(net'), SupTypeOK',
           \A p \in Proc : exit_request'[p] = exit_request[p]
    PROVE  IInv'
<1>1. TypeOK'
  BY GoodIsType DEF IInv, TypeOK, PeerTypeOK, peerVars, singhalVars
<1>2. FlagsAgree' /\ EventsMatch' /\ SetsMatch'
  BY DEF IInv, FlagsAgree, EventsMatch, SetsMatch, peerVars, singhalVars
<1>3. NoPeerFatal'
  BY DEF IInv, NoPeerFatal
<1>4. QED
  BY <1>1, <1>2, <1>3 DEF IInv

LEMMA SendtoOK ==
    ASSUME Assumptions, IInv, NEW n \in Node, sendto(n),
           UNCHANGED <<supVars, exit_request, peerVars, clockVars, singhalVars>>
    PROVE  IInv'
<1>1. net \in Nets(GoodPackets) /\ Placed(net) /\ SupTypeOK /\ ClockTypeOK
  BY DEF IInv, TypeOK
<1>2. net' \in Nets(GoodPackets) /\ Placed(net')
  BY <1>1, GoodAddressed, SendtoProperties, SendtoPlaced
<1>3. SupTypeOK' /\ ClockTypeOK'
  BY <1>1 DEF SupTypeOK, supVars, ClockTypeOK, clockVars
<1>4. QED
  BY <1>2, <1>3, PeersUntouched

LEMMA SupervisorNextOK == ASSUME Assumptions, IInv, SupervisorNext PROVE IInv'
<1>1. UNCHANGED <<peerVars, clockVars, singhalVars>>
  BY DEF SupervisorNext
<1>2. CASE SupNext
  <2>1. net \in Nets(GoodPackets) /\ Placed(net) /\ SupTypeOK /\ ClockTypeOK
    BY DEF IInv, TypeOK
  <2>2. /\ net' \in Nets(GoodPackets) /\ SupTypeOK'
        /\ \A p \in Proc : exit_request'[p] = exit_request[p]
    <3>1. SupPackets \cap {} = {}
      OBVIOUS
    <3>2. QED
      BY <1>2, <2>1, <3>1, SupPacketsGood, SupervisorStep DEF Assumptions
  <2>3. Placed(net')
    BY <1>2, <2>1, SupPacketsGood, SupervisorPlaced DEF Assumptions
  <2>4. ClockTypeOK'
    BY <1>1, <2>1 DEF ClockTypeOK, clockVars
  <2>5. QED
    BY <1>1, <2>2, <2>3, <2>4, PeersUntouched
<1>3. CASE sendto(SUPERVISOR_PID) /\ UNCHANGED <<supVars, exit_request>>
  BY <1>1, <1>3, PidFacts, SendtoOK DEF Assumptions
<1>4. QED
  BY <1>2, <1>3 DEF SupervisorNext

(* A peer's step leaves the supervisor's state well typed. *)
LEMMA SupKept ==
    ASSUME SupTypeOK, SupervisorUnchanged, UNCHANGED exit_request
    PROVE  SupTypeOK'
BY DEF SupTypeOK, SupervisorUnchanged, supVars

(* A request is stamped at an instant of the clock. *)
LEMMA InstantFacts ==
    ASSUME Assumptions, NEW u \in Nat, NEW t \in StampInstants(u)
    PROVE  t \in Nat
BY DEF StampInstants, Assumptions, ClockAssumption

LEMMA ClockRead ==
    ASSUME Assumptions, ClockTypeOK, NEW t \in Nat, StampTaken(t)
    PROVE  ClockTypeOK'
<1>1. now' \in {t, t + 1} /\ UNCHANGED sup_syncro
  BY DEF StampTaken
<1>2. QED
  BY <1>1 DEF ClockTypeOK

LEMMA ClockArrival ==
    ASSUME Assumptions, IInv, NEW pkt \in GoodPackets, pkt.msg.type = "REQUEST"
    PROVE  /\ ArrivalTime(pkt.msg) \in Nat
           /\ RequestArrives(pkt.msg) => ClockTypeOK'
<1>1. pkt.msg.at \in Nat /\ ClockTypeOK
  BY PacketFields DEF IInv, TypeOK
<1>2. ArrivalTime(pkt.msg) \in Nat
  BY <1>1 DEF ArrivalTime, LargerOf, ClockTypeOK
<1>3. QED
  BY <1>1, <1>2 DEF RequestArrives, ClockTypeOK

(* A step of p that keeps its FSM state, and so its flags. *)
LEMMA OnlySets ==
    ASSUME Assumptions, IInv, SupervisorUnchanged,
           UNCHANGED <<peerVars, exit_request, Requesting, Executing>>,
           net' \in Nets(GoodPackets), Placed(net'), ClockTypeOK',
           Ri' \in [Proc -> SUBSET Proc], Ii' \in [Proc -> SUBSET Proc],
           pending_request' \in [Proc -> Timespec],
           \A p \in Proc : p \notin Ri'[p] /\ p \notin Ii'[p],
           \A p \in Proc : Executing[p] => Ri'[p] = {}
    PROVE  IInv'
<1>1. SupTypeOK'
  BY SupKept DEF IInv, TypeOK
<1>2. TypeOK'
  BY <1>1, GoodIsType DEF IInv, TypeOK, PeerTypeOK, peerVars
<1>3. FlagsAgree' /\ EventsMatch' /\ NoPeerFatal'
  BY DEF IInv, FlagsAgree, EventsMatch, NoPeerFatal, peerVars
<1>4. SetsMatch'
  BY DEF SetsMatch
<1>5. QED
  BY <1>2, <1>3, <1>4 DEF IInv

LEMMA KeptOK ==
    ASSUME Assumptions, IInv, NEW p \in Proc, NEW slot \in Receivable(p),
           SupervisorMsgKept(p, slot), UNCHANGED singhalVars, SupervisorUnchanged
    PROVE  IInv'
<1>1. net' \in Nets(GoodPackets) /\ Placed(net')
  BY MessageTaken DEF SupervisorMsgKept, SupervisorMsgNoted
<1>2. SupTypeOK' /\ UNCHANGED <<peerVars, exit_request>>
  BY SupKept DEF IInv, TypeOK, SupervisorMsgKept, SupervisorMsgNoted
<1>3. ClockTypeOK'
  <2>1. Reading(SyncroInstant) \in Timespec
    BY DEF Reading, Timespec, Assumptions, ClockAssumption
  <2>2. QED
    BY <2>1 DEF SupervisorMsgKept, IInv, TypeOK, ClockTypeOK
<1>4. QED
  BY <1>1, <1>2, <1>3, PeersUntouched

(* process_ev_entered_cr of a pending process, with an empty request set. *)
LEMMA EnterOK ==
    ASSUME Assumptions, IInv, NEW p \in Proc, NEW n \in Nets(GoodPackets), Placed(n),
           EnterCriticalRegion(p, "PS_PENDING", n), SupervisorUnchanged,
           ~Executing[p], Ri'[p] = {},
           Ri' \in [Proc -> SUBSET Proc], \A q \in Proc : Ri'[q] \subseteq Ri[q],
           UNCHANGED Ii, pending_request' \in [Proc -> Timespec], ClockTypeOK'
    PROVE  IInv'
<1>1. /\ net' = dme_send_msg(n, p, SUPERVISOR_PID, [type |-> "ENTERED"])
      /\ fsm_state' = [fsm_state EXCEPT ![p] = "PS_EXECUTING"]
      /\ exited_due' = [exited_due EXCEPT ![p] = @ + 1]
      /\ UNCHANGED exit_request
      /\ Requesting' = [Requesting EXCEPT ![p] = FALSE]
      /\ Executing' = [Executing EXCEPT ![p] = TRUE]
  BY DEF EnterCriticalRegion, process_ev_entered_cr
<1>2. net' \in Nets(GoodPackets) /\ Placed(net')
  BY <1>1, SupPacketsGood, SupervisorTold DEF Assumptions
<1>3. /\ fsm_state \in [Proc -> State] /\ exited_due \in [Proc -> Nat]
      /\ Requesting \in [Proc -> BOOLEAN] /\ Executing \in [Proc -> BOOLEAN]
      /\ FlagsAgree /\ EventsMatch /\ SetsMatch /\ NoPeerFatal
  BY DEF IInv, TypeOK, PeerTypeOK
<1>4. SupTypeOK'
  BY <1>1, SupKept DEF IInv, TypeOK
<1>5. PeerTypeOK'
  BY <1>1, <1>3 DEF PeerTypeOK, State
<1>6. TypeOK'
  BY <1>1, <1>2, <1>3, <1>4, <1>5, GoodIsType DEF IInv, TypeOK
<1>7. FlagsAgree'
  BY <1>1, <1>3 DEF FlagsAgree
<1>8. EventsMatch'
  <2>1. exited_due[p] = 0
    BY <1>3 DEF FlagsAgree, EventsMatch
  <2>2. QED
    BY <1>1, <1>3, <2>1 DEF EventsMatch
<1>9. SetsMatch'
  BY <1>1, <1>3 DEF SetsMatch
<1>10. NoPeerFatal'
  BY <1>1, <1>3 DEF NoPeerFatal
<1>11. QED
  BY <1>2, <1>6, <1>7, <1>8, <1>9, <1>10 DEF IInv

LEMMA WantOK ==
    ASSUME Assumptions, IInv, NEW p \in Proc, NEW slot \in Receivable(p),
           NEW t \in StampInstants(now), process_ev_want_cr(p, slot, t), SupervisorUnchanged
    PROVE  IInv'
<1> DEFINE m == dme_recv_msg(slot)
<1>1. p \in Node /\ m \in Nets(GoodPackets) /\ Placed(m)
  BY MessageTaken
<1>2. /\ fsm_state[p] = "PS_IDLE"
      /\ pending_request' = [pending_request EXCEPT ![p] = Stamp(p, t)]
      /\ StampTaken(t)
      /\ UNCHANGED <<Ri, Ii>>
  BY DEF process_ev_want_cr, IsWant
<1>3. /\ fsm_state \in [Proc -> State] /\ exited_due \in [Proc -> Nat]
      /\ Requesting \in [Proc -> BOOLEAN] /\ Executing \in [Proc -> BOOLEAN]
      /\ Ri \in [Proc -> SUBSET Proc] /\ Ii \in [Proc -> SUBSET Proc]
      /\ pending_request \in [Proc -> Timespec]
      /\ t \in Nat /\ sup_syncro \in [Proc -> Timespec] /\ ClockTypeOK
      /\ FlagsAgree /\ EventsMatch /\ SetsMatch /\ NoPeerFatal
  BY InstantFacts DEF IInv, TypeOK, PeerTypeOK, ClockTypeOK
<1>4. ~Requesting[p] /\ ~Executing[p]
  BY <1>2, <1>3 DEF FlagsAgree
<1>5. ClockTypeOK' /\ pending_request' \in [Proc -> Timespec]
  <2>1. Stamp(p, t) \in Timespec
    BY <1>3, StampType
  <2>2. QED
    BY <1>2, <1>3, <2>1, ClockRead
<1> HIDE DEF m
<1>6. CASE void_Ri(Ri[p])
  <2>1. EnterCriticalRegion(p, "PS_PENDING", m)
    BY <1>6 DEF process_ev_want_cr, m
  <2>2. Ri'[p] = {}
    BY <1>2, <1>6 DEF void_Ri
  <2>3. \A q \in Proc : Ri'[q] \subseteq Ri[q]
    BY <1>2
  <2>4. QED
    BY <1>1, <1>2, <1>3, <1>4, <1>5, <2>1, <2>2, <2>3, EnterOK
<1>7. CASE ~void_Ri(Ri[p])
  <2>1. /\ fsm_state' = [fsm_state EXCEPT ![p] = "PS_PENDING"]
        /\ Requesting' = [Requesting EXCEPT ![p] = TRUE]
        /\ net' = SendToEach(m, p, Ascending(Ri[p]), REQUEST(p, t))
        /\ UNCHANGED <<exited_due, exit_request, Executing>>
    BY <1>7 DEF process_ev_want_cr, m
  <2>2. \A q \in Ri[p] : Packet(p, q, REQUEST(p, t)) \in GoodPackets
    BY <1>3, RequestGood DEF SetsMatch
  <2>3. net' \in Nets(GoodPackets) /\ Placed(net')
    BY <1>1, <1>3, <2>1, <2>2, EachTold DEF Assumptions
  <2>4. SupTypeOK'
    BY <2>1, SupKept DEF IInv, TypeOK
  <2>5. PeerTypeOK'
    BY <1>3, <2>1 DEF PeerTypeOK, State
  <2>6. TypeOK'
    BY <1>2, <1>3, <1>5, <2>1, <2>3, <2>4, <2>5, GoodIsType DEF TypeOK
  <2>7. FlagsAgree' /\ EventsMatch' /\ SetsMatch' /\ NoPeerFatal'
    BY <1>2, <1>3, <1>4, <2>1 DEF FlagsAgree, EventsMatch, SetsMatch, NoPeerFatal
  <2>8. QED
    BY <2>3, <2>6, <2>7 DEF IInv
<1>8. QED
  BY <1>6, <1>7

(* The packet a peer message came in: from another peer, who signed it. *)
LEMMA PeerMessage ==
    ASSUME Assumptions, IInv, NEW p \in Proc, NEW slot \in Receivable(p), PeerMsgAt(p, slot)
    PROVE  LET pkt == PacketAt(slot) IN
           /\ pkt.msg.pid \in Proc \ {p}
           /\ pkt.src = pkt.msg.pid /\ pkt.dst = p
<1>1. PacketAt(slot) \in GoodPackets /\ PacketAt(slot).dst = p /\ PacketAt(slot).msg \notin SupMsg
  BY MessageTaken DEF PeerMsgAt
<1>2. QED
  BY <1>1, PacketFields

LEMMA DeferredOK ==
    ASSUME Assumptions, IInv, NEW p \in Proc, NEW slot \in Receivable(p),
           RequestDeferred(p, slot), SupervisorUnchanged
    PROVE  IInv'
<1> DEFINE pkt == PacketAt(slot)
<1>1. net' \in Nets(GoodPackets) /\ Placed(net') /\ pkt \in GoodPackets
  BY MessageTaken DEF RequestDeferred
<1>2. pkt.msg.pid \in Proc \ {p}
  BY PeerMessage DEF RequestDeferred
<1>3. /\ Ii' = [Ii EXCEPT ![p] = @ \cup {pkt.msg.pid}]
      /\ pkt.msg.type = "REQUEST" /\ RequestArrives(pkt.msg)
      /\ UNCHANGED <<peerVars, exit_request, Requesting, Executing, Ri, pending_request>>
  BY DEF RequestDeferred
<1> HIDE DEF pkt
<1>4. ClockTypeOK'
  BY <1>1, <1>3, ClockArrival
<1>5. /\ Ri \in [Proc -> SUBSET Proc] /\ Ii \in [Proc -> SUBSET Proc]
      /\ pending_request \in [Proc -> Timespec] /\ SetsMatch
  BY DEF IInv, TypeOK
<1>6. Ii' \in [Proc -> SUBSET Proc]
  BY <1>2, <1>3, <1>5
<1>7. /\ \A q \in Proc : q \notin Ri'[q] /\ q \notin Ii'[q]
      /\ \A q \in Proc : Executing[q] => Ri'[q] = {}
  BY <1>2, <1>3, <1>5 DEF SetsMatch
<1>8. Ri' \in [Proc -> SUBSET Proc] /\ pending_request' \in [Proc -> Timespec]
  BY <1>3, <1>5
<1>9. QED
  BY <1>1, <1>3, <1>4, <1>6, <1>7, <1>8, OnlySets

(* p asks q from now on, as it yields to its request or grants it. *)
LEMMA AskedFromNowOn ==
    ASSUME Assumptions, IInv, NEW p \in Proc, NEW q \in Proc \ {p}, ~Executing[p],
           Ri' = [Ri EXCEPT ![p] = @ \cup {q}]
    PROVE  /\ Ri' \in [Proc -> SUBSET Proc]
           /\ \A r \in Proc : r \notin Ri'[r]
           /\ \A r \in Proc : Executing[r] => Ri'[r] = {}
BY DEF IInv, TypeOK, SetsMatch

LEMMA YieldedOK ==
    ASSUME Assumptions, IInv, NEW p \in Proc, NEW slot \in Receivable(p),
           RequestYielded(p, slot), SupervisorUnchanged
    PROVE  IInv'
<1> DEFINE pkt == PacketAt(slot)
           q == pkt.msg.pid
           m == dme_recv_msg(slot)
           replied == dme_send_msg(m, p, q, REPLY(p))
<1>1. p \in Node /\ m \in Nets(GoodPackets) /\ Placed(m) /\ pkt \in GoodPackets
  BY MessageTaken
<1>2. q \in Proc \ {p} /\ q \in Node
  BY PeerMessage, PidFacts DEF RequestYielded, Assumptions
<1>3. /\ pkt.msg.type = "REQUEST"
      /\ Requesting[p]
      /\ IF q \in Ri[p]
         THEN net' = replied /\ RequestArrives(pkt.msg) /\ UNCHANGED <<Ri, pending_request>>
         ELSE \E t \in StampInstants(ArrivalTime(pkt.msg)) :
              /\ net' = dme_send_msg(replied, p, q, REQUEST(p, t))
              /\ Ri' = [Ri EXCEPT ![p] = @ \cup {q}]
              /\ pending_request' = [pending_request EXCEPT ![p] = Stamp(p, t)]
              /\ StampTaken(t)
      /\ UNCHANGED <<peerVars, exit_request, Requesting, Executing, Ii>>
  BY DEF RequestYielded
<1> HIDE DEF pkt
<1>4. ArrivalTime(pkt.msg) \in Nat /\ (RequestArrives(pkt.msg) => ClockTypeOK')
  BY <1>1, <1>3, ClockArrival
<1>5. /\ Ri \in [Proc -> SUBSET Proc] /\ Ii \in [Proc -> SUBSET Proc]
      /\ pending_request \in [Proc -> Timespec] /\ SetsMatch /\ FlagsAgree
      /\ sup_syncro \in [Proc -> Timespec] /\ ClockTypeOK
  BY DEF IInv, TypeOK, ClockTypeOK
<1>6. ~Executing[p]
  BY <1>3, <1>5 DEF FlagsAgree
<1>7. Packet(p, q, REPLY(p)) \in GoodPackets
  BY <1>2, ReplyGood
<1> HIDE DEF m, q, replied
<1>8. replied \in Nets(GoodPackets) /\ Placed(replied)
  BY <1>1, <1>2, <1>7, OneTold DEF replied
<1>9. CASE q \in Ri[p]
  <2>1. net' \in Nets(GoodPackets) /\ Placed(net')
    BY <1>3, <1>8, <1>9
  <2>2. ClockTypeOK' /\ UNCHANGED <<Ri, Ii, pending_request>>
    BY <1>3, <1>4, <1>9
  <2>3. /\ \A r \in Proc : r \notin Ri'[r] /\ r \notin Ii'[r]
        /\ \A r \in Proc : Executing[r] => Ri'[r] = {}
    BY <1>5, <2>2 DEF SetsMatch
  <2>4. QED
    BY <1>3, <1>5, <2>1, <2>2, <2>3, OnlySets
<1>10. CASE q \notin Ri[p]
  <2>1. PICK t \in StampInstants(ArrivalTime(pkt.msg)) :
           /\ net' = dme_send_msg(replied, p, q, REQUEST(p, t))
           /\ Ri' = [Ri EXCEPT ![p] = @ \cup {q}]
           /\ pending_request' = [pending_request EXCEPT ![p] = Stamp(p, t)]
           /\ StampTaken(t)
    BY <1>3, <1>10
  <2>2. t \in Nat /\ Packet(p, q, REQUEST(p, t)) \in GoodPackets
    <3>1. t \in Nat
      BY <1>4, InstantFacts
    <3>2. QED
      BY <1>2, <1>5, <3>1, RequestGood
  <2>3. /\ net' \in Nets(GoodPackets) /\ Placed(net')
        /\ ClockTypeOK' /\ pending_request' \in [Proc -> Timespec]
    <3>1. net' \in Nets(GoodPackets) /\ Placed(net')
      BY <1>1, <1>2, <1>8, <2>1, <2>2, OneTold
    <3>2. QED
      BY <1>5, <2>1, <2>2, <3>1, StampType, ClockRead
  <2>4. /\ Ri' \in [Proc -> SUBSET Proc]
        /\ \A r \in Proc : r \notin Ri'[r]
        /\ \A r \in Proc : Executing[r] => Ri'[r] = {}
    BY <1>2, <1>6, <2>1, AskedFromNowOn
  <2>5. Ii' \in [Proc -> SUBSET Proc] /\ \A r \in Proc : r \notin Ii'[r]
    BY <1>3, <1>5 DEF SetsMatch
  <2>6. QED
    BY <1>3, <2>3, <2>4, <2>5, OnlySets
<1>11. QED
  BY <1>9, <1>10

LEMMA GrantedOK ==
    ASSUME Assumptions, IInv, NEW p \in Proc, NEW slot \in Receivable(p),
           RequestGranted(p, slot), SupervisorUnchanged
    PROVE  IInv'
<1> DEFINE pkt == PacketAt(slot)
           q == pkt.msg.pid
           m == dme_recv_msg(slot)
<1>1. p \in Node /\ m \in Nets(GoodPackets) /\ Placed(m) /\ pkt \in GoodPackets
  BY MessageTaken
<1>2. q \in Proc \ {p} /\ q \in Node
  BY PeerMessage, PidFacts DEF RequestGranted, Assumptions
<1>3. /\ pkt.msg.type = "REQUEST"
      /\ ~Executing[p]
      /\ Ri' = [Ri EXCEPT ![p] = @ \cup {q}]
      /\ net' = dme_send_msg(m, p, q, REPLY(p))
      /\ RequestArrives(pkt.msg)
      /\ UNCHANGED <<peerVars, exit_request, Requesting, Executing, Ii, pending_request>>
  BY DEF RequestGranted
<1> HIDE DEF pkt, m
<1>4. ClockTypeOK'
  BY <1>1, <1>3, ClockArrival
<1> HIDE DEF q
<1>5. net' \in Nets(GoodPackets) /\ Placed(net')
  <2>1. Packet(p, q, REPLY(p)) \in GoodPackets
    BY <1>2, ReplyGood
  <2>2. QED
    BY <1>1, <1>2, <1>3, <2>1, OneTold
<1>6. /\ Ri' \in [Proc -> SUBSET Proc]
      /\ \A r \in Proc : r \notin Ri'[r]
      /\ \A r \in Proc : Executing[r] => Ri'[r] = {}
  BY <1>2, <1>3, AskedFromNowOn
<1>7. /\ Ii' \in [Proc -> SUBSET Proc] /\ \A r \in Proc : r \notin Ii'[r]
      /\ pending_request' \in [Proc -> Timespec]
  BY <1>3 DEF IInv, TypeOK, SetsMatch
<1>8. QED
  BY <1>3, <1>4, <1>5, <1>6, <1>7, OnlySets

LEMMA ReplyReceivedOK ==
    ASSUME Assumptions, IInv, NEW p \in Proc, NEW slot \in Receivable(p),
           ReplyReceived(p, slot), SupervisorUnchanged
    PROVE  IInv'
<1> DEFINE q == PacketAt(slot).msg.pid
           m == dme_recv_msg(slot)
<1>1. m \in Nets(GoodPackets) /\ Placed(m)
  BY MessageTaken
<1>2. /\ Ri' = [Ri EXCEPT ![p] = @ \ {q}]
      /\ IF Requesting[p] /\ void_Ri(Ri'[p])
         THEN EnterCriticalRegion(p, fsm_state[p], m)
         ELSE /\ net' = m
              /\ UNCHANGED <<peerVars, exit_request, Requesting, Executing>>
      /\ UNCHANGED <<clockVars, Ii, pending_request>>
  BY DEF ReplyReceived
<1> HIDE DEF q, m
<1>3. /\ Ri \in [Proc -> SUBSET Proc] /\ Ii \in [Proc -> SUBSET Proc]
      /\ pending_request \in [Proc -> Timespec] /\ SetsMatch /\ FlagsAgree /\ ClockTypeOK
      /\ fsm_state \in [Proc -> State]
  BY DEF IInv, TypeOK, PeerTypeOK
<1>4. ClockTypeOK' /\ pending_request' \in [Proc -> Timespec] /\ Ii' \in [Proc -> SUBSET Proc]
  BY <1>2, <1>3 DEF ClockTypeOK, clockVars
<1>5. Ri' \in [Proc -> SUBSET Proc] /\ \A r \in Proc : Ri'[r] \subseteq Ri[r]
  BY <1>2, <1>3
<1>6. CASE Requesting[p] /\ void_Ri(Ri'[p])
  <2>1. EnterCriticalRegion(p, "PS_PENDING", m) /\ ~Executing[p]
    BY <1>2, <1>3, <1>6 DEF FlagsAgree
  <2>2. Ri'[p] = {} /\ UNCHANGED Ii
    BY <1>2, <1>6 DEF void_Ri
  <2>3. QED
    BY <1>1, <1>4, <1>5, <2>1, <2>2, EnterOK
<1>7. CASE ~(Requesting[p] /\ void_Ri(Ri'[p]))
  <2>1. net' = m /\ UNCHANGED <<peerVars, exit_request, Requesting, Executing>>
    BY <1>2, <1>7
  <2>2. /\ \A r \in Proc : r \notin Ri'[r] /\ r \notin Ii'[r]
        /\ \A r \in Proc : Executing[r] => Ri'[r] = {}
    BY <1>2, <1>3, <1>5 DEF SetsMatch
  <2>3. QED
    BY <1>1, <1>4, <1>5, <2>1, <2>2, OnlySets
<1>8. QED
  BY <1>6, <1>7

LEMMA ExitedOK ==
    ASSUME Assumptions, IInv, NEW p \in Proc, process_ev_exited_cr(p), SupervisorUnchanged
    PROVE  IInv'
<1> DEFINE m == InformExited(p)
<1>1. p \in Node /\ net \in Nets(GoodPackets) /\ Placed(net)
  BY PidFacts DEF IInv, Assumptions
<1>2. m \in Nets(GoodPackets) /\ Placed(m)
  BY <1>1, SupPacketsGood, SupervisorTold DEF Assumptions, InformExited
<1>3. /\ fsm_state \in [Proc -> State] /\ exited_due \in [Proc -> Nat]
      /\ Requesting \in [Proc -> BOOLEAN] /\ Executing \in [Proc -> BOOLEAN]
      /\ Ri \in [Proc -> SUBSET Proc] /\ Ii \in [Proc -> SUBSET Proc]
      /\ pending_request \in [Proc -> Timespec] /\ ClockTypeOK
      /\ FlagsAgree /\ EventsMatch /\ SetsMatch /\ NoPeerFatal
  BY DEF IInv, TypeOK, PeerTypeOK
<1>4. exited_due[p] = 1 /\ fsm_state[p] = "PS_EXECUTING"
  BY <1>3 DEF process_ev_exited_cr, ExitedDue, EventsMatch
<1>5. /\ LeaveCriticalRegion(p)
      /\ Executing' = [Executing EXCEPT ![p] = FALSE]
      /\ net' = SendToEach(m, p, Ascending(Ii[p]), REPLY(p))
      /\ Ri' = [Ri EXCEPT ![p] = @ \cup Ii[p]]
      /\ Ii' = [Ii EXCEPT ![p] = {}]
      /\ UNCHANGED <<clockVars, Requesting, pending_request>>
  BY <1>4 DEF process_ev_exited_cr, Answered
<1>6. /\ fsm_state' = [fsm_state EXCEPT ![p] = "PS_IDLE"]
      /\ exited_due' = [exited_due EXCEPT ![p] = @ - 1]
      /\ UNCHANGED exit_request
  BY <1>5 DEF LeaveCriticalRegion
<1> HIDE DEF m
<1>7. \A q \in Ii[p] : Packet(p, q, REPLY(p)) \in GoodPackets
  BY <1>3, ReplyGood DEF SetsMatch
<1>8. net' \in Nets(GoodPackets) /\ Placed(net')
  BY <1>1, <1>2, <1>3, <1>5, <1>7, EachTold DEF Assumptions
<1>9. SupTypeOK' /\ ClockTypeOK'
  BY <1>3, <1>5, <1>6, SupKept DEF IInv, TypeOK, ClockTypeOK, clockVars
<1>10. PeerTypeOK'
  BY <1>3, <1>4, <1>6 DEF PeerTypeOK, State
<1>11. TypeOK'
  <2>1. Ri' \in [Proc -> SUBSET Proc] /\ Ii' \in [Proc -> SUBSET Proc]
    BY <1>3, <1>5
  <2>2. QED
    BY <1>3, <1>5, <1>8, <1>9, <1>10, <2>1, GoodIsType DEF TypeOK
<1>12. FlagsAgree' /\ EventsMatch' /\ NoPeerFatal'
  BY <1>3, <1>4, <1>5, <1>6 DEF FlagsAgree, EventsMatch, NoPeerFatal
<1>13. SetsMatch'
  BY <1>3, <1>5 DEF SetsMatch
<1>14. QED
  BY <1>8, <1>11, <1>12, <1>13 DEF IInv

LEMMA NextOK == ASSUME Assumptions, IInv, [Next]_vars PROVE IInv'
<1>1. CASE SupervisorNext
  BY <1>1, SupervisorNextOK
<1>2. ASSUME NEW p \in Proc, PeerNext(p) PROVE IInv'
  <2>1. CASE handle_message(p)
    <3>1. PICK slot \in Receivable(p) :
             \/ SupervisorMsgKept(p, slot) /\ UNCHANGED singhalVars
             \/ \E t \in StampInstants(now) : process_ev_want_cr(p, slot, t)
             \/ RequestDeferred(p, slot)
             \/ RequestYielded(p, slot)
             \/ RequestGranted(p, slot)
             \/ ReplyReceived(p, slot)
      BY <2>1 DEF handle_message
    <3>2. SupervisorUnchanged
      BY <1>2 DEF PeerNext
    <3>3. QED
      BY <3>1, <3>2, KeptOK, WantOK, DeferredOK, YieldedOK, GrantedOK, ReplyReceivedOK
  <2>2. CASE process_ev_exited_cr(p)
    BY <1>2, <2>2, ExitedOK DEF PeerNext
  <2>3. CASE sendto(p) /\ UNCHANGED <<exit_request, peerVars, clockVars, singhalVars>>
    BY <1>2, <2>3, PidFacts, SendtoOK DEF PeerNext, SupervisorUnchanged, Assumptions
  <2>4. QED
    BY <1>2, <2>1, <2>2, <2>3 DEF PeerNext
<1>3. CASE UNCHANGED vars
  <2>1. SupTypeOK' /\ ClockTypeOK' /\ net' \in Nets(GoodPackets) /\ Placed(net')
    BY <1>3 DEF vars, IInv, TypeOK, SupTypeOK, supVars, ClockTypeOK, clockVars
  <2>2. QED
    BY <1>3, <2>1, PeersUntouched DEF vars
<1>4. QED
  BY <1>1, <1>2, <1>3 DEF Next

-----------------------------------------------------------------------------
(***************************************************************************)
(* On networks that keep the order of packets between two nodes.  Whether  *)
(* two requests are compared right does not matter for any of this: a peer *)
(* that yields asks again, so that the sets, and the requests and replies  *)
(* on their way, decide alone who may enter.                               *)
(***************************************************************************)
Request(p, q) ==
    {pkt \in GoodPackets : pkt.src = p /\ pkt.dst = q /\ pkt.msg.type = "REQUEST"}

Reply(p, q) ==
    {pkt \in GoodPackets : pkt.src = p /\ pkt.dst = q /\ pkt.msg.type = "REPLY"}

(* The request of p to q, from when it is sent until it is answered. *)
Asking(p, q) == Request(p, q) \cup Reply(q, p)

(***************************************************************************)
(* p asks q at most once at a time: its request is on its way, or noted by *)
(* q, or its reply is.  A reply comes before the request sent behind it.   *)
(***************************************************************************)
AskedOnce(n, rq, ri, ii, p, q) ==
    /\ AtMostOneOf(n, Asking(p, q))
    /\ p \in ii[q] => NoneOf(n, Asking(p, q))
    /\ p \in ii[q] \/ ~NoneOf(n, Asking(p, q)) => rq[p] /\ q \in ri[p]
    /\ InOrder(n, Reply(p, q), Request(p, q))

(***************************************************************************)
(* Of two peers exactly one need not ask the other; or both do, and one of *)
(* the two has been answered and does not know yet.                        *)
(***************************************************************************)
OneNeedNotAsk(n, ri, p, q) ==
    /\ ~(q \notin ri[p] /\ p \notin ri[q])
    /\ q \in ri[p] /\ p \in ri[q] => ~NoneOf(n, Reply(p, q)) \/ ~NoneOf(n, Reply(q, p))
    /\ ~NoneOf(n, Reply(p, q)) => q \in ri[p] /\ p \in ri[q] /\ NoneOf(n, Reply(q, p))

PairOK(n, rq, ri, ii, p, q) ==
    AskedOnce(n, rq, ri, ii, p, q) /\ OneNeedNotAsk(n, ri, p, q)

PInv ==
    \A p \in Proc : \A q \in Proc \ {p} : PairOK(net, Requesting, Ri, Ii, p, q)

(* The packets of a pair of peers. *)
Between(p, q) ==
    {pkt \in GoodPackets :
        /\ pkt.msg \notin SupMsg
        /\ (pkt.src = p /\ pkt.dst = q) \/ (pkt.src = q /\ pkt.dst = p)}

LEMMA Kinds ==
    ASSUME NEW p, NEW q
    PROVE  /\ Request(p, q) \subseteq Between(p, q) /\ Reply(p, q) \subseteq Between(p, q)
           /\ Reply(q, p) \subseteq Between(p, q) /\ Asking(p, q) \subseteq Between(p, q)
           /\ Request(p, q) \subseteq Asking(p, q) /\ Reply(q, p) \subseteq Asking(p, q)
           /\ Request(p, q) \cap Reply(p, q) = {}
           /\ OneLink(Reply(p, q) \cup Request(p, q))
<1>1. \A pkt \in GoodPackets : pkt.msg.type \in {"REQUEST", "REPLY"} => pkt.msg \notin SupMsg
  BY PacketFields
<1>2. QED
  BY <1>1 DEF Request, Reply, Asking, Between, OneLink

(* A pair depends on its own packets and on its own members' sets only. *)
LEMMA PairSame ==
    ASSUME NEW n, NEW rq, NEW ri, NEW ii, NEW rr, NEW rj, NEW ij, NEW p, NEW q,
           PairOK(n, rq, ri, ii, p, q),
           rr[p] = rq[p], q \in rj[p] <=> q \in ri[p], p \in rj[q] <=> p \in ri[q],
           p \in ij[q] <=> p \in ii[q]
    PROVE  PairOK(n, rr, rj, ij, p, q)
BY DEF PairOK, AskedOnce, OneNeedNotAsk

LEMMA PairMoved ==
    ASSUME NEW n, NEW m, NEW rq, NEW ri, NEW ii, NEW p, NEW q,
           PairOK(n, rq, ri, ii, p, q),
           Kept(n, m, Asking(p, q)), Kept(n, m, Reply(p, q)), Kept(n, m, Reply(q, p)),
           InOrder(m, Reply(p, q), Request(p, q))
    PROVE  PairOK(m, rq, ri, ii, p, q)
BY DEF PairOK, AskedOnce, OneNeedNotAsk, Kept

LEMMA PairSent ==
    ASSUME NEW n \in Nets(GoodPackets), NEW m \in Nets(GoodPackets), NEW New, Sent(n, m, New),
           Placed(n), NEW rq, NEW ri, NEW ii, NEW p, NEW q,
           PairOK(n, rq, ri, ii, p, q), New \cap Between(p, q) = {}
    PROVE  PairOK(m, rq, ri, ii, p, q)
<1>1. /\ New \cap Asking(p, q) = {} /\ New \cap Reply(p, q) = {} /\ New \cap Reply(q, p) = {}
      /\ OneLink(Reply(p, q) \cup Request(p, q))
  BY Kinds
<1>2. Kept(n, m, Asking(p, q)) /\ Kept(n, m, Reply(p, q)) /\ Kept(n, m, Reply(q, p))
  BY <1>1, SentKept
<1>3. InOrder(m, Reply(p, q), Request(p, q))
  BY <1>1, SentInOrder DEF PairOK, AskedOnce
<1>4. QED
  BY <1>2, <1>3, PairMoved

LEMMA PairReceived ==
    ASSUME net \in Nets(GoodPackets), Placed(net), NEW d \in Node, NEW slot \in Receivable(d),
           NEW rq, NEW ri, NEW ii, NEW p, NEW q,
           PairOK(net, rq, ri, ii, p, q), PacketAt(slot) \notin Between(p, q)
    PROVE  PairOK(dme_recv_msg(slot), rq, ri, ii, p, q)
<1>1. /\ PacketAt(slot) \notin Asking(p, q)
      /\ PacketAt(slot) \notin Reply(p, q) /\ PacketAt(slot) \notin Reply(q, p)
  BY Kinds
<1> DEFINE m == dme_recv_msg(slot)
<1>2. Kept(net, m, Asking(p, q)) /\ Kept(net, m, Reply(p, q)) /\ Kept(net, m, Reply(q, p))
  BY <1>1, ReceiveKept
<1>3. InOrder(m, Reply(p, q), Request(p, q))
  BY ReceiveInOrder DEF PairOK, AskedOnce
<1> HIDE DEF m
<1>4. PairOK(m, rq, ri, ii, p, q)
  BY <1>2, <1>3, PairMoved
<1>5. QED
  BY <1>4 DEF m

LEMMA PairSendto ==
    ASSUME net \in Nets(GoodPackets), Placed(net), NEW src \in Node, sendto(src),
           NEW rq, NEW ri, NEW ii, NEW p, NEW q, PairOK(net, rq, ri, ii, p, q)
    PROVE  PairOK(net', rq, ri, ii, p, q)
<1>1. Kept(net, net', Asking(p, q)) /\ Kept(net, net', Reply(p, q)) /\ Kept(net, net', Reply(q, p))
  BY GoodAddressed, SendtoKept
<1>2. InOrder(net', Reply(p, q), Request(p, q))
  BY GoodAddressed, Kinds, SendtoInOrder DEF PairOK, AskedOnce
<1>3. QED
  BY <1>1, <1>2, PairMoved

(* What is sent to or by the supervisor is between no two peers. *)
LEMMA NotBetween ==
    ASSUME Assumptions, NEW p \in Proc, NEW q \in Proc, NEW pkt,
           pkt.src = SUPERVISOR_PID \/ pkt.dst = SUPERVISOR_PID \/ pkt.msg \in SupMsg
    PROVE  pkt \notin Between(p, q)
BY PidFacts DEF Between, Assumptions

LEMMA PInitOK == ASSUME Assumptions, Init PROVE PInv
<1>1. \A T : NoneOf(net, T) /\ AtMostOneOf(net, T)
  BY NothingThere, NoneIsAtMostOne DEF Init
<1>2. \A T, U : InOrder(net, T, U)
  BY <1>1, NoneInOrder
<1>3. SUFFICES ASSUME NEW p \in Proc, NEW q \in Proc \ {p} PROVE PairOK(net, Requesting, Ri, Ii, p, q)
  BY DEF PInv
<1>4. p \notin Ii[q] /\ Ri[p] = init_Ri(p) /\ Ri[q] = init_Ri(q)
  BY DEF Init
<1>5. (q \in Ri[p]) <=> ~(p \in Ri[q])
  BY <1>4 DEF init_Ri, Proc
<1>6. QED
  BY <1>1, <1>2, <1>4, <1>5 DEF PairOK, AskedOnce, OneNeedNotAsk

LEMMA PUntouched ==
    ASSUME PInv, UNCHANGED singhalVars,
           \A p \in Proc : \A q \in Proc \ {p} :
               PairOK(net, Requesting, Ri, Ii, p, q) => PairOK(net', Requesting, Ri, Ii, p, q)
    PROVE  PInv'
<1>1. SUFFICES ASSUME NEW p \in Proc, NEW q \in Proc \ {p}
               PROVE  PairOK(net', Requesting', Ri', Ii', p, q)
  BY DEF PInv
<1>2. PairOK(net', Requesting, Ri, Ii, p, q)
  BY DEF PInv
<1>3. QED
  BY <1>2 DEF singhalVars

LEMMA PSendtoOK ==
    ASSUME Assumptions, IInv, PInv, NEW n \in Node, sendto(n), UNCHANGED singhalVars
    PROVE  PInv'
<1>1. net \in Nets(GoodPackets) /\ Placed(net)
  BY DEF IInv
<1>2. QED
  BY <1>1, PairSendto, PUntouched

LEMMA PSupervisorNextOK == ASSUME Assumptions, IInv, PInv, SupervisorNext PROVE PInv'
<1>1. UNCHANGED singhalVars
  BY DEF SupervisorNext
<1>2. net \in Nets(GoodPackets) /\ Placed(net)
  BY DEF IInv
<1>3. CASE SupNext
  <2>1. ASSUME NEW New \in SUBSET (FromSupervisor("SYNCRO") \cup FromSupervisor("WANT")),
               net' \in Nets(GoodPackets), Sent(net, net', New)
        PROVE  PInv'
    <3>1. \A pkt \in New : pkt.src = SUPERVISOR_PID
      BY DEF FromSupervisor, Packet
    <3>2. \A p, q \in Proc : New \cap Between(p, q) = {}
      BY <3>1, NotBetween
    <3>3. QED
      BY <1>1, <1>2, <2>1, <3>2, PairSent, PUntouched
  <2>2. ASSUME NEW slot \in Receivable(SUPERVISOR_PID), net' = dme_recv_msg(slot)
        PROVE  PInv'
    <3>1. SUPERVISOR_PID \in Node /\ PacketAt(slot).dst = SUPERVISOR_PID
      BY <1>2, PidFacts, ReceivePlaced DEF Assumptions
    <3>2. \A p, q \in Proc : PacketAt(slot) \notin Between(p, q)
      BY <3>1, NotBetween
    <3>3. QED
      BY <1>1, <1>2, <2>2, <3>1, <3>2, PairReceived, PUntouched
  <2>3. QED
    BY <1>2, <1>3, <2>1, <2>2, SupPacketsGood, SupervisorEffect DEF Assumptions
<1>4. CASE sendto(SUPERVISOR_PID)
  BY <1>1, <1>4, PidFacts, PSendtoOK DEF Assumptions
<1>5. QED
  BY <1>3, <1>4 DEF SupervisorNext

-----------------------------------------------------------------------------
(* A packet between two peers is between no others. *)
LEMMA OtherPairs ==
    ASSUME NEW p, NEW q, NEW a, NEW b, NEW pkt, pkt \in Between(a, b),
           pkt.src = p, pkt.dst = q
    PROVE  (a = p /\ b = q) \/ (a = q /\ b = p)
BY DEF Between

(* What p sends besides its requests and replies. *)
LEMMA PairInformed ==
    ASSUME Assumptions, NEW p \in Proc, NEW t \in {"ENTERED", "EXITED"},
           NEW n \in Nets(GoodPackets), Placed(n), NEW rq, NEW ri, NEW ii,
           NEW a \in Proc, NEW b \in Proc, PairOK(n, rq, ri, ii, a, b)
    PROVE  PairOK(dme_send_msg(n, p, SUPERVISOR_PID, [type |-> t]), rq, ri, ii, a, b)
<1> DEFINE m == dme_send_msg(n, p, SUPERVISOR_PID, [type |-> t])
           pkt == Packet(p, SUPERVISOR_PID, [type |-> t])
<1>1. m \in Nets(GoodPackets) /\ Sent(n, m, {pkt})
  BY SupPacketsGood, SupervisorTold DEF Assumptions
<1>2. pkt.dst = SUPERVISOR_PID
  BY DEF Packet
<1> HIDE DEF m, pkt
<1>3. {pkt} \cap Between(a, b) = {}
  BY <1>2, NotBetween
<1>4. PairOK(m, rq, ri, ii, a, b)
  BY <1>1, <1>3, PairSent
<1>5. QED
  BY <1>4 DEF m

LEMMA PKeptOK ==
    ASSUME Assumptions, IInv, PInv, NEW p \in Proc, NEW slot \in Receivable(p),
           SupervisorMsgAt(p, slot)
    PROVE  \A a \in Proc : \A b \in Proc \ {a} :
               PairOK(dme_recv_msg(slot), Requesting, Ri, Ii, a, b)
<1>1. SUFFICES ASSUME NEW a \in Proc, NEW b \in Proc \ {a}
               PROVE  PairOK(dme_recv_msg(slot), Requesting, Ri, Ii, a, b)
  OBVIOUS
<1>2. PacketAt(slot).msg \in SupMsg
  BY DEF SupervisorMsgAt
<1>3. p \in Node /\ net \in Nets(GoodPackets) /\ Placed(net) /\ PairOK(net, Requesting, Ri, Ii, a, b)
  BY PidFacts DEF Assumptions, IInv, PInv
<1>4. PacketAt(slot) \notin Between(a, b)
  BY <1>2, NotBetween
<1>5. QED
  BY <1>3, <1>4, PairReceived

LEMMA PWantOK ==
    ASSUME Assumptions, IInv, PInv, NEW p \in Proc, NEW slot \in Receivable(p),
           NEW t \in StampInstants(now), process_ev_want_cr(p, slot, t)
    PROVE  PInv'
<1> DEFINE m == dme_recv_msg(slot)
<1>1. m \in Nets(GoodPackets) /\ Placed(m)
  BY MessageTaken
<1>2. \A a \in Proc : \A b \in Proc \ {a} : PairOK(m, Requesting, Ri, Ii, a, b)
  BY PKeptOK DEF process_ev_want_cr
<1>3. ~Requesting[p] /\ Requesting \in [Proc -> BOOLEAN] /\ Ri \in [Proc -> SUBSET Proc]
  BY DEF process_ev_want_cr, IsWant, IInv, FlagsAgree, TypeOK
<1>4. UNCHANGED <<Ri, Ii>>
  BY DEF process_ev_want_cr
<1>5. SUFFICES ASSUME NEW a \in Proc, NEW b \in Proc \ {a}
               PROVE  PairOK(net', Requesting', Ri', Ii', a, b)
  BY DEF PInv
<1>6. CASE void_Ri(Ri[p])
  <2>1. EnterCriticalRegion(p, "PS_PENDING", m)
    BY <1>6 DEF process_ev_want_cr
  <2> HIDE DEF m
  <2>2. /\ net' = dme_send_msg(m, p, SUPERVISOR_PID, [type |-> "ENTERED"])
        /\ Requesting' = [Requesting EXCEPT ![p] = FALSE]
    BY <2>1 DEF EnterCriticalRegion, process_ev_entered_cr
  <2>3. PairOK(net', Requesting, Ri, Ii, a, b)
    BY <1>1, <1>2, <2>2, PairInformed
  <2>4. Requesting'[a] = Requesting[a]
    BY <1>3, <2>2
  <2>5. QED
    BY <1>4, <2>3, <2>4, PairSame
<1>7. CASE ~void_Ri(Ri[p])
  <2> DEFINE New == {Packet(p, q, REQUEST(p, t)) : q \in Ri[p]}
  <2>1. /\ Requesting' = [Requesting EXCEPT ![p] = TRUE]
        /\ net' = SendToEach(m, p, Ascending(Ri[p]), REQUEST(p, t))
    BY <1>7 DEF process_ev_want_cr
  <2> HIDE DEF m
  <2>2. \A q \in Ri[p] : Packet(p, q, REQUEST(p, t)) \in GoodPackets
    BY <1>3, InstantFacts, RequestGood DEF SetsMatch, IInv, TypeOK, ClockTypeOK
  <2>3. net' \in Nets(GoodPackets) /\ Sent(m, net', New)
    BY <1>1, <1>3, <2>1, <2>2, PidFacts, EachTold DEF Assumptions
  <2>4. \A pkt \in New : pkt.src = p /\ pkt.dst \in Ri[p] /\ pkt.msg.type = "REQUEST"
                         /\ pkt = Packet(p, pkt.dst, REQUEST(p, t))
    BY DEF Packet, REQUEST
  <2>5. New \cap Reply(a, b) = {} /\ New \cap Reply(b, a) = {}
    BY <2>4 DEF Reply
  <2> HIDE DEF New
  <2>6. PairOK(m, Requesting, Ri, Ii, a, b)
    BY <1>2
  <2>7. Kept(m, net', Reply(a, b)) /\ Kept(m, net', Reply(b, a))
    BY <1>1, <2>3, <2>5, SentKept
  <2>8. InOrder(net', Reply(a, b), Request(a, b))
    BY <1>1, <2>3, <2>5, <2>6, Kinds, SentInOrder DEF PairOK, AskedOnce
  <2>9. CASE a # p
    <3>1. New \cap Asking(a, b) = {}
      BY <2>4, <2>5, <2>9 DEF Asking, Request
    <3>2. PairOK(net', Requesting, Ri, Ii, a, b)
      BY <1>1, <2>3, <2>6, <2>7, <2>8, <3>1, SentKept, PairMoved
    <3>3. Requesting'[a] = Requesting[a]
      BY <1>3, <2>1, <2>9
    <3>4. QED
      BY <1>4, <3>2, <3>3, PairSame
  <2>10. CASE a = p
    <3>1. NoneOf(m, Asking(p, b)) /\ p \notin Ii[b]
      BY <1>3, <2>6, <2>10 DEF PairOK, AskedOnce
    <3>2. \A pkt \in New \cap Asking(p, b) : pkt = Packet(p, b, REQUEST(p, t)) /\ b \in Ri[p]
      BY <1>5, <2>4, <2>5, <2>10 DEF Asking, Request
    <3>3. AtMostOneOf(net', Asking(p, b))
      BY <1>1, <2>3, <3>1, <3>2, SentProperties
    <3>4. b \notin Ri[p] => NoneOf(net', Asking(p, b))
      <4>1. b \notin Ri[p] => New \cap Asking(p, b) = {}
        BY <3>2
      <4>2. QED
        BY <1>1, <2>3, <3>1, <4>1, SentProperties
    <3>5. Requesting'[p]
      BY <1>3, <2>1
    <3>6. AskedOnce(net', Requesting', Ri', Ii', a, b)
      BY <1>4, <2>8, <2>10, <3>1, <3>3, <3>4, <3>5 DEF AskedOnce
    <3>7. OneNeedNotAsk(net', Ri', a, b)
      BY <1>4, <2>6, <2>7 DEF PairOK, OneNeedNotAsk, Kept
    <3>8. QED
      BY <3>6, <3>7 DEF PairOK
  <2>11. QED
    BY <2>9, <2>10
<1>8. QED
  BY <1>6, <1>7

(***************************************************************************)
(* p receives the request of q: q waits for p's reply, and nothing else is *)
(* on its way that answers it.  As no reply of q can be behind its request *)
(* either, p does not have to ask q for the moment.                        *)
(***************************************************************************)
LEMMA RequestTaken ==
    ASSUME Assumptions, IInv, PInv, NEW p \in Proc, NEW slot \in Receivable(p),
           NEW q \in Proc \ {p}, PacketAt(slot) \in Request(q, p)
    PROVE  LET m == dme_recv_msg(slot) IN
           /\ \A a \in Proc : \A b \in Proc \ {a} :
                 ~(a = q /\ b = p) => PairOK(m, Requesting, Ri, Ii, a, b)
           /\ NoneOf(m, Asking(q, p)) /\ q \notin Ii[p] /\ Requesting[q] /\ p \in Ri[q]
           /\ InOrder(m, Reply(q, p), Request(q, p))
           /\ OneNeedNotAsk(m, Ri, q, p)
           /\ Net # "udp" => /\ NoneOf(m, Reply(p, q)) /\ NoneOf(m, Reply(q, p))
                             /\ q \notin Ri[p] /\ p \notin Ii[q]
                             /\ NoneOf(m, Asking(p, q))
<1> DEFINE m == dme_recv_msg(slot)
           pkt == PacketAt(slot)
<1>1. p \in Node /\ net \in Nets(GoodPackets) /\ Placed(net)
  BY PidFacts DEF Assumptions, IInv
<1>2. PairOK(net, Requesting, Ri, Ii, q, p) /\ PairOK(net, Requesting, Ri, Ii, p, q)
  BY DEF PInv
<1>3. pkt \in Asking(q, p) /\ pkt.src = q /\ pkt.dst = p
  BY Kinds DEF Request
<1>4. ~NoneOf(net, Asking(q, p))
  BY <1>1, <1>3, ReceivePlaced
<1>5. /\ AtMostOneOf(net, Asking(q, p)) /\ q \notin Ii[p] /\ Requesting[q] /\ p \in Ri[q]
      /\ InOrder(net, Reply(q, p), Request(q, p))
  BY <1>2, <1>4 DEF PairOK, AskedOnce
<1>6. NoneOf(m, Asking(q, p))
  BY <1>1, <1>3, <1>5, ReceiveProperties
<1>7. InOrder(m, Reply(q, p), Request(q, p))
      /\ (Net # "udp" => NoneOf(net, Reply(q, p)))
  BY <1>1, <1>5, ReceiveInOrder
<1>8. pkt \notin Reply(q, p) /\ pkt \notin Reply(p, q) /\ pkt \notin Asking(p, q)
  BY DEF Request, Reply, Asking
<1>9. Kept(net, m, Reply(q, p)) /\ Kept(net, m, Reply(p, q)) /\ Kept(net, m, Asking(p, q))
  BY <1>1, <1>8, ReceiveKept
<1>10. InOrder(m, Reply(p, q), Request(p, q))
  BY <1>1, <1>2, ReceiveInOrder DEF PairOK, AskedOnce
<1> HIDE DEF m, pkt
<1>11. PairOK(m, Requesting, Ri, Ii, p, q)
  BY <1>2, <1>9, <1>10, PairMoved
<1>12. OneNeedNotAsk(m, Ri, q, p)
  BY <1>2, <1>9 DEF PairOK, OneNeedNotAsk, Kept
<1>13. NoneOf(m, Reply(p, q))
  BY <1>6, Kinds, NoneOfPart
<1>14. Net # "udp" => /\ NoneOf(m, Reply(q, p))
                      /\ q \notin Ri[p] /\ p \notin Ii[q] /\ NoneOf(m, Asking(p, q))
  <2>1. SUFFICES ASSUME Net # "udp"
                 PROVE  /\ NoneOf(m, Reply(q, p))
                        /\ q \notin Ri[p] /\ p \notin Ii[q] /\ NoneOf(m, Asking(p, q))
    OBVIOUS
  <2>2. NoneOf(m, Reply(q, p))
    BY <1>7, <1>9, <2>1 DEF Kept
  <2>3. q \notin Ri[p]
    BY <1>5, <1>12, <1>13, <2>2 DEF OneNeedNotAsk
  <2>4. QED
    BY <1>11, <2>2, <2>3 DEF PairOK, AskedOnce
<1>15. ASSUME NEW a \in Proc, NEW b \in Proc \ {a}, ~(a = q /\ b = p)
       PROVE  PairOK(m, Requesting, Ri, Ii, a, b)
  <2>1. CASE a = p /\ b = q
    BY <1>11, <2>1
  <2>2. CASE ~(a = p /\ b = q)
    <3>1. pkt \notin Between(a, b)
      BY <1>3, <1>15, <2>2, OtherPairs
    <3>2. PairOK(net, Requesting, Ri, Ii, a, b)
      BY DEF PInv
    <3>3. QED
      BY <1>1, <3>1, <3>2, PairReceived DEF m, pkt
  <2>3. QED
    BY <2>1, <2>2
<1>16. QED
  BY <1>5, <1>6, <1>7, <1>12, <1>13, <1>14, <1>15 DEF m

(* The request a peer message is, by the conditions of handle_peer_msg. *)
LEMMA RequestKind ==
    ASSUME Assumptions, IInv, NEW p \in Proc, NEW slot \in Receivable(p), PeerMsgAt(p, slot),
           NEW t \in {"REQUEST", "REPLY"}, PacketAt(slot).msg.type = t
    PROVE  LET q == PacketAt(slot).msg.pid IN
           /\ q \in Proc \ {p}
           /\ t = "REQUEST" => PacketAt(slot) \in Request(q, p)
           /\ t = "REPLY" => PacketAt(slot) \in Reply(q, p)
BY MessageTaken, PeerMessage DEF Request, Reply

LEMMA PDeferredOK ==
    ASSUME Assumptions, IInv, PInv, NEW p \in Proc, NEW slot \in Receivable(p),
           RequestDeferred(p, slot)
    PROVE  PInv'
<1> DEFINE q == PacketAt(slot).msg.pid
           m == dme_recv_msg(slot)
<1>1. q \in Proc \ {p} /\ PacketAt(slot) \in Request(q, p)
  BY RequestKind DEF RequestDeferred
<1>2. /\ Ii' = [Ii EXCEPT ![p] = @ \cup {q}]
      /\ net' = m
      /\ UNCHANGED <<Requesting, Ri>>
  BY DEF RequestDeferred
<1> HIDE DEF q
<1>3. /\ \A a \in Proc : \A b \in Proc \ {a} :
            ~(a = q /\ b = p) => PairOK(m, Requesting, Ri, Ii, a, b)
      /\ NoneOf(m, Asking(q, p)) /\ Requesting[q] /\ p \in Ri[q]
      /\ InOrder(m, Reply(q, p), Request(q, p))
      /\ OneNeedNotAsk(m, Ri, q, p)
  BY <1>1, RequestTaken
<1>4. Ii \in [Proc -> SUBSET Proc]
  BY DEF IInv, TypeOK
<1> HIDE DEF m
<1>5. SUFFICES ASSUME NEW a \in Proc, NEW b \in Proc \ {a}
               PROVE  PairOK(net', Requesting', Ri', Ii', a, b)
  BY DEF PInv
<1>6. CASE a = q /\ b = p
  <2>1. AtMostOneOf(m, Asking(q, p))
    BY <1>3, NoneIsAtMostOne
  <2>2. QED
    BY <1>2, <1>3, <1>6, <2>1 DEF PairOK, AskedOnce
<1>7. CASE ~(a = q /\ b = p)
  <2>1. a \in Ii'[b] <=> a \in Ii[b]
    BY <1>2, <1>4, <1>7
  <2>2. PairOK(m, Requesting, Ri, Ii, a, b)
    BY <1>3, <1>7
  <2>3. QED
    BY <1>2, <2>1, <2>2, PairSame
<1>8. QED
  BY <1>6, <1>7

(***************************************************************************)
(* p answers the request of q at once and asks it from now on.             *)
(***************************************************************************)
LEMMA Replied ==
    ASSUME Assumptions, IInv, PInv, Net # "udp", NEW p \in Proc, NEW slot \in Receivable(p),
           NEW q \in Proc \ {p}, PacketAt(slot) \in Request(q, p)
    PROVE  LET n  == dme_send_msg(dme_recv_msg(slot), p, q, REPLY(p))
               rj == [Ri EXCEPT ![p] = @ \cup {q}]
           IN
           /\ n \in Nets(GoodPackets) /\ Placed(n)
           /\ \A a \in Proc : \A b \in Proc \ {a} : PairOK(n, Requesting, rj, Ii, a, b)
           /\ NoneOf(n, Asking(p, q)) /\ p \notin Ii[q] /\ q \notin Ri[p]
<1> DEFINE m == dme_recv_msg(slot)
           n == dme_send_msg(m, p, q, REPLY(p))
           rj == [Ri EXCEPT ![p] = @ \cup {q}]
           pkt == Packet(p, q, REPLY(p))
<1>1. p \in Node /\ q \in Node /\ m \in Nets(GoodPackets) /\ Placed(m)
  BY MessageTaken, PidFacts DEF Assumptions
<1>2. /\ \A a \in Proc : \A b \in Proc \ {a} :
            ~(a = q /\ b = p) => PairOK(m, Requesting, Ri, Ii, a, b)
      /\ NoneOf(m, Asking(q, p)) /\ q \notin Ii[p] /\ Requesting[q] /\ p \in Ri[q]
      /\ InOrder(m, Reply(q, p), Request(q, p))
      /\ NoneOf(m, Reply(p, q)) /\ NoneOf(m, Reply(q, p))
      /\ q \notin Ri[p] /\ p \notin Ii[q] /\ NoneOf(m, Asking(p, q))
  BY RequestTaken
<1> HIDE DEF m
<1>3. pkt \in GoodPackets
  BY ReplyGood
<1>4. n \in Nets(GoodPackets) /\ Placed(n) /\ Sent(m, n, {pkt})
  BY <1>1, <1>3, OneTold
<1>5. pkt.src = p /\ pkt.dst = q /\ pkt.msg.type = "REPLY"
  BY DEF Packet, REPLY
<1>6. Ri \in [Proc -> SUBSET Proc]
  BY DEF IInv, TypeOK
<1>7. /\ q \in rj[p] /\ p \in rj[q]
      /\ \A a, b \in Proc : ~(a = p /\ b = q) => (b \in rj[a] <=> b \in Ri[a])
  BY <1>2, <1>6
<1> HIDE DEF n, rj, pkt
<1>8. /\ {pkt} \cap Asking(p, q) = {} /\ {pkt} \cap Reply(q, p) = {}
      /\ {pkt} \cap Reply(p, q) # {}
      /\ \A x, y \in {pkt} \cap Asking(q, p) : x = y
  BY <1>3, <1>5 DEF Asking, Request, Reply
<1>9. /\ NoneOf(n, Asking(p, q)) /\ NoneOf(n, Reply(q, p)) /\ ~NoneOf(n, Reply(p, q))
      /\ AtMostOneOf(n, Asking(q, p))
  BY <1>1, <1>2, <1>4, <1>8, SentProperties
<1>10. InOrder(n, Reply(q, p), Request(q, p))
  BY <1>1, <1>2, <1>4, <1>8, Kinds, SentInOrder
<1>11. InOrder(n, Reply(p, q), Request(p, q))
  BY <1>9, Kinds, NoneOfPart, NoneInOrder
<1>12. ASSUME NEW a \in Proc, NEW b \in Proc \ {a}
       PROVE  PairOK(n, Requesting, rj, Ii, a, b)
  <2>1. CASE a = p /\ b = q
    <3>1. AskedOnce(n, Requesting, rj, Ii, p, q)
      BY <1>2, <1>9, <1>11, NoneIsAtMostOne DEF AskedOnce
    <3>2. OneNeedNotAsk(n, rj, p, q)
      BY <1>7, <1>9 DEF OneNeedNotAsk
    <3>3. QED
      BY <2>1, <3>1, <3>2 DEF PairOK
  <2>2. CASE a = q /\ b = p
    <3>1. AskedOnce(n, Requesting, rj, Ii, q, p)
      BY <1>2, <1>7, <1>9, <1>10 DEF AskedOnce
    <3>2. OneNeedNotAsk(n, rj, q, p)
      BY <1>7, <1>9 DEF OneNeedNotAsk
    <3>3. QED
      BY <2>2, <3>1, <3>2 DEF PairOK
  <2>3. CASE ~(a = p /\ b = q) /\ ~(a = q /\ b = p)
    <3>1. {pkt} \cap Between(a, b) = {}
      BY <1>5, <2>3, OtherPairs
    <3>2. PairOK(n, Requesting, Ri, Ii, a, b)
      BY <1>1, <1>2, <1>4, <2>3, <3>1, PairSent
    <3>3. (b \in rj[a] <=> b \in Ri[a]) /\ (a \in rj[b] <=> a \in Ri[b])
      BY <1>7, <2>3
    <3>4. QED
      BY <3>2, <3>3, PairSame
  <2>4. QED
    BY <2>1, <2>2, <2>3
<1>13. QED
  BY <1>2, <1>4, <1>9, <1>12 DEF n, rj, m

LEMMA PGrantedOK ==
    ASSUME Assumptions, IInv, PInv, Net # "udp", NEW p \in Proc, NEW slot \in Receivable(p),
           RequestGranted(p, slot)
    PROVE  PInv'
<1> DEFINE q == PacketAt(slot).msg.pid
<1>1. q \in Proc \ {p} /\ PacketAt(slot) \in Request(q, p)
  BY RequestKind DEF RequestGranted
<1>2. /\ Ri' = [Ri EXCEPT ![p] = @ \cup {q}]
      /\ net' = dme_send_msg(dme_recv_msg(slot), p, q, REPLY(p))
      /\ UNCHANGED <<Requesting, Ii>>
  BY DEF RequestGranted
<1> HIDE DEF q
<1>3. \A a \in Proc : \A b \in Proc \ {a} : PairOK(net', Requesting, Ri', Ii, a, b)
  BY <1>1, <1>2, Replied
<1>4. QED
  BY <1>2, <1>3 DEF PInv

LEMMA PYieldedOK ==
    ASSUME Assumptions, IInv, PInv, Net # "udp", NEW p \in Proc, NEW slot \in Receivable(p),
           RequestYielded(p, slot)
    PROVE  PInv'
<1> DEFINE msg == PacketAt(slot).msg
           q == msg.pid
           n == dme_send_msg(dme_recv_msg(slot), p, q, REPLY(p))
<1>1. q \in Proc \ {p} /\ PacketAt(slot) \in Request(q, p) /\ PacketAt(slot) \in GoodPackets
  BY RequestKind, MessageTaken DEF RequestYielded
<1>2. msg.type = "REQUEST" /\ Requesting[p] /\ UNCHANGED <<Requesting, Ii>>
  BY DEF RequestYielded
<1>3. ArrivalTime(msg) \in Nat
  BY <1>1, <1>2, ClockArrival
<1>4. IF q \in Ri[p]
      THEN net' = n /\ UNCHANGED Ri
      ELSE \E t \in StampInstants(ArrivalTime(msg)) :
           /\ net' = dme_send_msg(n, p, q, REQUEST(p, t))
           /\ Ri' = [Ri EXCEPT ![p] = @ \cup {q}]
  BY DEF RequestYielded
<1> HIDE DEF msg, q
<1>5. /\ n \in Nets(GoodPackets) /\ Placed(n)
      /\ \A a \in Proc : \A b \in Proc \ {a} :
            PairOK(n, Requesting, [Ri EXCEPT ![p] = @ \cup {q}], Ii, a, b)
      /\ NoneOf(n, Asking(p, q)) /\ p \notin Ii[q] /\ q \notin Ri[p]
  BY <1>1, Replied
<1> HIDE DEF n
<1>6. PICK t \in StampInstants(ArrivalTime(msg)) :
        Ri' = [Ri EXCEPT ![p] = @ \cup {q}] /\ net' = dme_send_msg(n, p, q, REQUEST(p, t))
  BY <1>4, <1>5
<1> DEFINE pkt == Packet(p, q, REQUEST(p, t))
<1>7. pkt \in GoodPackets
  BY <1>1, <1>3, InstantFacts, RequestGood DEF IInv, TypeOK, ClockTypeOK
<1>8. net' \in Nets(GoodPackets) /\ Sent(n, net', {pkt})
  BY <1>1, <1>5, <1>6, <1>7, PidFacts, OneTold DEF Assumptions
<1>9. pkt.src = p /\ pkt.dst = q /\ pkt.msg.type = "REQUEST"
  BY DEF Packet, REQUEST
<1>10. q \in Ri'[p]
  BY <1>6 DEF IInv, TypeOK
<1> HIDE DEF pkt
<1>11. SUFFICES ASSUME NEW a \in Proc, NEW b \in Proc \ {a}
                PROVE  PairOK(net', Requesting', Ri', Ii', a, b)
  BY DEF PInv
<1>12. PairOK(n, Requesting, Ri', Ii, a, b)
  BY <1>5, <1>6
<1>13. {pkt} \cap Reply(a, b) = {} /\ {pkt} \cap Reply(b, a) = {}
  BY <1>9 DEF Reply
<1>14. /\ Kept(n, net', Reply(a, b)) /\ Kept(n, net', Reply(b, a))
       /\ InOrder(net', Reply(a, b), Request(a, b))
  BY <1>5, <1>8, <1>12, <1>13, Kinds, SentKept, SentInOrder DEF PairOK, AskedOnce
<1>15. CASE a = p /\ b = q
  <2>1. AtMostOneOf(net', Asking(p, q))
    <3>1. \A x, y \in {pkt} \cap Asking(p, q) : x = y
      OBVIOUS
    <3>2. QED
      BY <1>5, <1>8, <3>1, SentProperties
  <2>2. AskedOnce(net', Requesting, Ri', Ii, a, b)
    BY <1>2, <1>5, <1>10, <1>14, <1>15, <2>1 DEF AskedOnce
  <2>3. OneNeedNotAsk(net', Ri', a, b)
    BY <1>12, <1>14 DEF PairOK, OneNeedNotAsk, Kept
  <2>4. QED
    BY <1>2, <2>2, <2>3 DEF PairOK
<1>16. CASE ~(a = p /\ b = q)
  <2>1. {pkt} \cap Asking(a, b) = {}
    BY <1>9, <1>13, <1>16 DEF Asking, Request
  <2>2. Kept(n, net', Asking(a, b))
    BY <1>5, <1>8, <2>1, SentKept
  <2>3. QED
    BY <1>2, <1>12, <1>14, <2>2, PairMoved
<1>17. QED
  BY <1>15, <1>16

(* Whoever has nobody to ask has no request out. *)
LEMMA StopRequesting ==
    ASSUME NEW n, NEW rq, NEW rr, NEW ri, NEW ii, NEW p, NEW q,
           PairOK(n, rq, ri, ii, p, q), q \notin ri[p] \/ rr[p] = rq[p]
    PROVE  PairOK(n, rr, ri, ii, p, q)
BY DEF PairOK, AskedOnce

LEMMA PReplyReceivedOK ==
    ASSUME Assumptions, IInv, PInv, NEW p \in Proc, NEW slot \in Receivable(p),
           ReplyReceived(p, slot)
    PROVE  PInv'
<1> DEFINE pkt == PacketAt(slot)
           q == pkt.msg.pid
           m == dme_recv_msg(slot)
<1>1. q \in Proc \ {p} /\ pkt \in Reply(q, p)
  BY RequestKind DEF ReplyReceived
<1>2. /\ Ri' = [Ri EXCEPT ![p] = @ \ {q}]
      /\ IF Requesting[p] /\ void_Ri(Ri'[p])
         THEN EnterCriticalRegion(p, fsm_state[p], m)
         ELSE net' = m /\ UNCHANGED Requesting
      /\ UNCHANGED Ii
  BY DEF ReplyReceived
<1>3. p \in Node /\ net \in Nets(GoodPackets) /\ Placed(net)
  BY PidFacts DEF Assumptions, IInv
<1>4. m \in Nets(GoodPackets) /\ Placed(m)
  BY MessageTaken
<1>5. PairOK(net, Requesting, Ri, Ii, q, p) /\ PairOK(net, Requesting, Ri, Ii, p, q)
  BY <1>1 DEF PInv
<1>6. pkt \in Asking(p, q) /\ pkt \notin Asking(q, p) /\ pkt \notin Reply(p, q)
      /\ pkt.src = q /\ pkt.dst = p
  BY <1>1 DEF Asking, Request, Reply
<1>7. ~NoneOf(net, Asking(p, q)) /\ ~NoneOf(net, Reply(q, p))
  BY <1>1, <1>3, <1>6, ReceivePlaced
<1>8. /\ AtMostOneOf(net, Asking(p, q)) /\ p \notin Ii[q] /\ Requesting[p] /\ q \in Ri[p]
      /\ p \in Ri[q] /\ NoneOf(net, Reply(p, q))
  BY <1>5, <1>7 DEF PairOK, AskedOnce, OneNeedNotAsk
<1>9. NoneOf(m, Asking(p, q)) /\ NoneOf(m, Reply(q, p))
  <2>1. NoneOf(m, Asking(p, q))
    BY <1>3, <1>6, <1>8, ReceiveProperties
  <2> HIDE DEF m
  <2>2. QED
    BY <2>1, Kinds, NoneOfPart
<1>10. Kept(net, m, Asking(q, p)) /\ Kept(net, m, Reply(p, q))
  BY <1>3, <1>6, ReceiveKept
<1>11. InOrder(m, Reply(p, q), Request(p, q)) /\ InOrder(m, Reply(q, p), Request(q, p))
  BY <1>3, <1>5, ReceiveInOrder DEF PairOK, AskedOnce
<1> HIDE DEF m, pkt, q
<1>12. Ri \in [Proc -> SUBSET Proc] /\ Requesting \in [Proc -> BOOLEAN]
  BY DEF IInv, TypeOK
<1>13. /\ q \notin Ri'[p] /\ p \in Ri'[q]
       /\ \A a, b \in Proc : ~(a = p /\ b = q) => (b \in Ri'[a] <=> b \in Ri[a])
  BY <1>1, <1>2, <1>8, <1>12
<1>14. ASSUME NEW a \in Proc, NEW b \in Proc \ {a}
       PROVE  PairOK(m, Requesting, Ri', Ii, a, b)
  <2>1. CASE a = p /\ b = q
    <3>1. AskedOnce(m, Requesting, Ri', Ii, p, q)
      BY <1>8, <1>9, <1>11, NoneIsAtMostOne DEF AskedOnce
    <3>2. OneNeedNotAsk(m, Ri', p, q)
      BY <1>8, <1>10, <1>13 DEF OneNeedNotAsk, Kept
    <3>3. QED
      BY <2>1, <3>1, <3>2 DEF PairOK
  <2>2. CASE a = q /\ b = p
    <3>1. AskedOnce(m, Requesting, Ri', Ii, q, p)
      BY <1>1, <1>5, <1>10, <1>11, <1>13 DEF PairOK, AskedOnce, Kept
    <3>2. OneNeedNotAsk(m, Ri', q, p)
      BY <1>9, <1>13 DEF OneNeedNotAsk
    <3>3. QED
      BY <2>2, <3>1, <3>2 DEF PairOK
  <2>3. CASE ~(a = p /\ b = q) /\ ~(a = q /\ b = p)
    <3>1. pkt \notin Between(a, b)
      BY <1>6, <2>3, OtherPairs
    <3>2. PairOK(net, Requesting, Ri, Ii, a, b)
      BY DEF PInv
    <3>3. PairOK(m, Requesting, Ri, Ii, a, b)
      BY <1>3, <3>1, <3>2, PairReceived DEF m, pkt
    <3>4. (b \in Ri'[a] <=> b \in Ri[a]) /\ (a \in Ri'[b] <=> a \in Ri[b])
      BY <1>13, <2>3
    <3>5. QED
      BY <3>3, <3>4, PairSame
  <2>4. QED
    BY <2>1, <2>2, <2>3
<1>15. SUFFICES ASSUME NEW a \in Proc, NEW b \in Proc \ {a}
                PROVE  PairOK(net', Requesting', Ri', Ii', a, b)
  BY DEF PInv
<1>16. CASE Requesting[p] /\ void_Ri(Ri'[p])
  <2>1. fsm_state[p] = "PS_PENDING"
    BY <1>16 DEF IInv, FlagsAgree
  <2>2. /\ net' = dme_send_msg(m, p, SUPERVISOR_PID, [type |-> "ENTERED"])
        /\ Requesting' = [Requesting EXCEPT ![p] = FALSE]
    BY <1>2, <1>16, <2>1 DEF EnterCriticalRegion, process_ev_entered_cr
  <2>3. PairOK(net', Requesting, Ri', Ii, a, b)
    BY <1>4, <1>14, <2>2, PairInformed
  <2>4. b \notin Ri'[a] \/ Requesting'[a] = Requesting[a]
    BY <1>12, <1>16, <2>2 DEF void_Ri
  <2>5. QED
    BY <1>2, <2>3, <2>4, StopRequesting
<1>17. CASE ~(Requesting[p] /\ void_Ri(Ri'[p]))
  BY <1>2, <1>14, <1>17
<1>18. QED
  BY <1>16, <1>17

LEMMA PExitedOK ==
    ASSUME Assumptions, IInv, PInv, NEW p \in Proc, process_ev_exited_cr(p)
    PROVE  PInv'
<1> DEFINE m == InformExited(p)
           New == {Packet(p, q, REPLY(p)) : q \in Ii[p]}
<1>1. p \in Node /\ net \in Nets(GoodPackets) /\ Placed(net)
  BY PidFacts DEF IInv, Assumptions
<1>2. m \in Nets(GoodPackets) /\ Placed(m)
  BY <1>1, SupPacketsGood, SupervisorTold DEF Assumptions, InformExited
<1>3. /\ Ri \in [Proc -> SUBSET Proc] /\ Ii \in [Proc -> SUBSET Proc]
      /\ FlagsAgree /\ EventsMatch /\ SetsMatch
      /\ fsm_state \in [Proc -> State]
  BY DEF IInv, TypeOK, PeerTypeOK
<1>4. fsm_state[p] = "PS_EXECUTING"
  BY <1>3 DEF process_ev_exited_cr, ExitedDue, EventsMatch
<1>5. ~Requesting[p] /\ Ri[p] = {}
  BY <1>3, <1>4 DEF FlagsAgree, SetsMatch
<1>6. /\ net' = SendToEach(m, p, Ascending(Ii[p]), REPLY(p))
      /\ Ri' = [Ri EXCEPT ![p] = @ \cup Ii[p]]
      /\ Ii' = [Ii EXCEPT ![p] = {}]
      /\ UNCHANGED Requesting
  BY <1>4 DEF process_ev_exited_cr, Answered
<1>7. \A a \in Proc : \A b \in Proc \ {a} : PairOK(m, Requesting, Ri, Ii, a, b)
  BY <1>1, PairInformed DEF PInv, InformExited
<1> HIDE DEF m
<1>8. \A q \in Ii[p] : Packet(p, q, REPLY(p)) \in GoodPackets
  BY <1>3, ReplyGood DEF SetsMatch
<1>9. net' \in Nets(GoodPackets) /\ Sent(m, net', New)
  BY <1>1, <1>2, <1>3, <1>6, <1>8, EachTold DEF Assumptions
<1>10. /\ \A pkt \in New : /\ pkt.src = p /\ pkt.dst \in Ii[p] /\ pkt.msg.type = "REPLY"
                           /\ pkt = Packet(p, pkt.dst, REPLY(p))
       /\ \A q \in Ii[p] : Packet(p, q, REPLY(p)) \in New \cap Reply(p, q)
  BY <1>8 DEF Packet, REPLY, Reply
<1> HIDE DEF New
<1>11. Ri'[p] = Ii[p] /\ Ii'[p] = {}
       /\ \A a \in Proc \ {p} : Ri'[a] = Ri[a] /\ Ii'[a] = Ii[a]
  BY <1>3, <1>5, <1>6
(* Of p and any b: p is out of the protocol, and b asks p. *)
<1>12. ASSUME NEW b \in Proc \ {p}
       PROVE  /\ p \in Ri[b]
              /\ NoneOf(net', Asking(p, b)) /\ p \notin Ii[b]
              /\ NoneOf(net', Reply(b, p))
              /\ b \in Ii[p] <=> ~NoneOf(net', Reply(p, b))
              /\ AtMostOneOf(net', Asking(b, p))
              /\ b \in Ii[p] \/ ~NoneOf(net', Asking(b, p)) => Requesting[b]
              /\ InOrder(net', Reply(p, b), Request(p, b))
              /\ InOrder(net', Reply(b, p), Request(b, p))
  <2>1. PairOK(m, Requesting, Ri, Ii, p, b) /\ PairOK(m, Requesting, Ri, Ii, b, p)
    BY <1>7
  <2>2. /\ NoneOf(m, Asking(p, b)) /\ p \notin Ii[b] /\ p \in Ri[b]
        /\ NoneOf(m, Reply(p, b)) /\ NoneOf(m, Reply(b, p))
    BY <1>5, <2>1 DEF PairOK, AskedOnce, OneNeedNotAsk
  <2>3. New \cap Asking(p, b) = {} /\ New \cap Reply(b, p) = {}
    BY <1>10 DEF Asking, Request, Reply
  <2>4. NoneOf(net', Asking(p, b)) /\ NoneOf(net', Reply(b, p))
    BY <1>2, <1>9, <2>2, <2>3, SentProperties
  <2>5. b \in Ii[p] <=> ~NoneOf(net', Reply(p, b))
    <3>1. b \in Ii[p] => New \cap Reply(p, b) # {}
      BY <1>10
    <3>2. b \notin Ii[p] => New \cap Reply(p, b) = {}
      BY <1>10 DEF Reply
    <3>3. QED
      BY <1>2, <1>9, <2>2, <3>1, <3>2, SentProperties
  <2>6. \A x, y \in New \cap Asking(b, p) : x = y /\ b \in Ii[p]
    BY <1>10 DEF Asking, Request, Reply
  <2>7. /\ AtMostOneOf(net', Asking(b, p))
        /\ b \in Ii[p] \/ ~NoneOf(net', Asking(b, p)) => Requesting[b]
    <3>1. CASE b \in Ii[p]
      <4>1. NoneOf(m, Asking(b, p)) /\ Requesting[b]
        BY <2>1, <3>1 DEF PairOK, AskedOnce
      <4>2. QED
        BY <1>2, <1>9, <2>6, <4>1, SentProperties
    <3>2. CASE b \notin Ii[p]
      <4>1. New \cap Asking(b, p) = {}
        BY <2>6, <3>2
      <4>2. Kept(m, net', Asking(b, p))
        BY <1>2, <1>9, <4>1, SentKept
      <4>3. QED
        BY <2>1, <3>2, <4>2 DEF PairOK, AskedOnce, Kept
    <3>3. QED
      BY <3>1, <3>2
  <2>8. InOrder(net', Reply(p, b), Request(p, b))
    BY <2>4, Kinds, NoneOfPart, NoneInOrder
  <2>9. InOrder(net', Reply(b, p), Request(b, p))
    BY <2>4, NoneInOrder
  <2>10. QED
    BY <2>2, <2>4, <2>5, <2>7, <2>8, <2>9
<1>13. SUFFICES ASSUME NEW a \in Proc, NEW b \in Proc \ {a}
                PROVE  PairOK(net', Requesting', Ri', Ii', a, b)
  BY DEF PInv
<1>14. CASE a = p
  <2>1. AskedOnce(net', Requesting', Ri', Ii', a, b)
    BY <1>11, <1>12, <1>13, <1>14, NoneIsAtMostOne DEF AskedOnce
  <2>2. OneNeedNotAsk(net', Ri', a, b)
    BY <1>11, <1>12, <1>13, <1>14 DEF OneNeedNotAsk
  <2>3. QED
    BY <2>1, <2>2 DEF PairOK
<1>15. CASE a # p /\ b = p
  <2>1. AskedOnce(net', Requesting', Ri', Ii', a, b)
    BY <1>6, <1>11, <1>12, <1>15 DEF AskedOnce
  <2>2. OneNeedNotAsk(net', Ri', a, b)
    BY <1>11, <1>12, <1>15 DEF OneNeedNotAsk
  <2>3. QED
    BY <2>1, <2>2 DEF PairOK
<1>16. CASE a # p /\ b # p
  <2>1. New \cap Between(a, b) = {}
    BY <1>10, <1>16 DEF Between
  <2>2. PairOK(net', Requesting, Ri, Ii, a, b)
    BY <1>2, <1>7, <1>9, <2>1, PairSent
  <2>3. /\ Requesting'[a] = Requesting[a]
        /\ Ri'[a] = Ri[a] /\ Ri'[b] = Ri[b] /\ Ii'[b] = Ii[b]
    BY <1>6, <1>11, <1>13, <1>16
  <2>4. QED
    BY <2>2, <2>3, PairSame
<1>17. QED
  BY <1>14, <1>15, <1>16

LEMMA PNextOK == ASSUME Assumptions, IInv, PInv, Net # "udp", [Next]_vars PROVE PInv'
<1>1. CASE SupervisorNext
  BY <1>1, PSupervisorNextOK
<1>2. ASSUME NEW p \in Proc, PeerNext(p) PROVE PInv'
  <2>1. CASE handle_message(p)
    <3>1. PICK slot \in Receivable(p) :
             \/ SupervisorMsgKept(p, slot) /\ UNCHANGED singhalVars
             \/ \E t \in StampInstants(now) : process_ev_want_cr(p, slot, t)
             \/ RequestDeferred(p, slot)
             \/ RequestYielded(p, slot)
             \/ RequestGranted(p, slot)
             \/ ReplyReceived(p, slot)
      BY <2>1 DEF handle_message
    <3>2. CASE SupervisorMsgKept(p, slot) /\ UNCHANGED singhalVars
      <4>1. SupervisorMsgAt(p, slot) /\ net' = dme_recv_msg(slot)
        BY <3>2 DEF SupervisorMsgKept, SupervisorMsgNoted
      <4>2. QED
        BY <3>2, <4>1, PKeptOK, PUntouched
    <3>3. QED
      BY <3>1, <3>2, PWantOK, PDeferredOK, PYieldedOK, PGrantedOK, PReplyReceivedOK
  <2>2. CASE process_ev_exited_cr(p)
    BY <2>2, PExitedOK
  <2>3. CASE sendto(p) /\ UNCHANGED <<exit_request, peerVars, clockVars, singhalVars>>
    BY <2>3, PidFacts, PSendtoOK DEF Assumptions
  <2>4. QED
    BY <1>2, <2>1, <2>2, <2>3 DEF PeerNext
<1>3. CASE UNCHANGED vars
  BY <1>3, PUntouched DEF vars
<1>4. QED
  BY <1>1, <1>2, <1>3 DEF Next

LEMMA Assumed == Assumptions
BY NetworkAssumption, SupervisorAssumption, ClockAssumption DEF Assumptions

LEMMA Invariance == Spec => []IInv
<1>1. Init => IInv
  BY Assumed, InitOK
<1>2. IInv /\ [Next]_vars => IInv'
  BY Assumed, NextOK
<1>3. QED
  BY <1>1, <1>2, PTL DEF Spec

LEMMA PInvariance == ASSUME Net # "udp" PROVE Spec => []PInv
<1>1. Init => PInv
  BY Assumed, PInitOK
<1>2. IInv /\ PInv /\ [Next]_vars => PInv'
  BY Assumed, PNextOK
<1>3. QED
  BY <1>1, <1>2, Invariance, PTL DEF Spec

-----------------------------------------------------------------------------
(***************************************************************************)
(* The variables of singhal.c keep their types, whatever Net: the request  *)
(* and information sets hold peers, every packet is one of the program's.  *)
(***************************************************************************)
THEOREM TypeCorrect == Spec => []TypeOK
<1>1. IInv => TypeOK
  BY DEF IInv
<1>2. QED
  BY <1>1, Invariance, PTL

(***************************************************************************)
(* The flags singhal.c keeps beside the state machine never disagree with  *)
(* it, even when packets overtake each other.                              *)
(***************************************************************************)
THEOREM FlagsCorrect == Spec => []FlagsAgree
<1>1. IInv => FlagsAgree
  BY DEF IInv
<1>2. QED
  BY <1>1, Invariance, PTL

(***************************************************************************)
(* No handler of singhal.c returns ERR_FATAL.                              *)
(***************************************************************************)
THEOREM NeverFatal == Spec => []NoPeerFatal
<1>1. IInv => NoPeerFatal
  BY DEF IInv
<1>2. QED
  BY <1>1, Invariance, PTL

(***************************************************************************)
(* The information structure of singhal.c: with nothing on its way, one of *)
(* any two peers asks the other.                                           *)
(***************************************************************************)
THEOREM OneAsks == ASSUME Net # "udp" PROVE Spec => []OneAsksTheOther
<1>1. PInv => OneAsksTheOther
  BY DEF PInv, PairOK, OneNeedNotAsk, OneAsksTheOther
<1>2. QED
  BY <1>1, PInvariance, PTL

(***************************************************************************)
(* Whoever is inside is asked by everybody else before they enter.         *)
(***************************************************************************)
THEOREM InsideAsked == ASSUME Net # "udp" PROVE Spec => []InsideIsAsked
<1>1. IInv /\ PInv => InsideIsAsked
  <2>1. SUFFICES ASSUME IInv, PInv, NEW p \in Proc, NEW q \in Proc, p # q,
                        fsm_state[p] = "PS_EXECUTING"
                 PROVE  Ri[p] = {} /\ p \in Ri[q]
    BY DEF InsideIsAsked
  <2>2. Ri[p] = {}
    BY <2>1 DEF IInv, FlagsAgree, SetsMatch
  <2>3. PairOK(net, Requesting, Ri, Ii, p, q)
    BY <2>1 DEF PInv
  <2>4. QED
    BY <2>2, <2>3 DEF PairOK, OneNeedNotAsk
<1>2. QED
  BY <1>1, Invariance, PInvariance, PTL

LEMMA AskedExcludes == ASSUME InsideIsAsked PROVE MutualExclusion
BY DEF InsideIsAsked, MutualExclusion

(***************************************************************************)
(* At most one peer running singhal.c is in its critical region.           *)
(***************************************************************************)
THEOREM Exclusion == ASSUME Net # "udp" PROVE Spec => []MutualExclusion
<1>1. InsideIsAsked => MutualExclusion
  BY AskedExcludes
<1>2. QED
  BY <1>1, InsideAsked, PTL

-----------------------------------------------------------------------------
(* Entering, from either state, is a step of Mutex. *)
LEMMA EnterStep ==
    ASSUME IInv, MutualExclusion', NEW p \in Proc, NEW n,
           EnterCriticalRegion(p, "PS_PENDING", n), fsm_state[p] # "PS_EXECUTING"
    PROVE  Abstract!Next
<1>1. fsm_state' = [fsm_state EXCEPT ![p] = "PS_EXECUTING"]
  BY DEF EnterCriticalRegion, process_ev_entered_cr
<1>2. fsm_state \in [Proc -> State]
  BY DEF IInv, TypeOK, PeerTypeOK
<1>3. \A q \in Proc : fsm_state[q] # "PS_EXECUTING"
  <2>1. SUFFICES ASSUME NEW q \in Proc, fsm_state[q] = "PS_EXECUTING" PROVE FALSE
    OBVIOUS
  <2>2. q # p
    BY <2>1
  <2>3. fsm_state'[p] = "PS_EXECUTING" /\ fsm_state'[q] = "PS_EXECUTING"
    BY <1>1, <1>2, <2>1, <2>2
  <2>4. QED
    BY <2>2, <2>3 DEF MutualExclusion
<1>4. fsm_state[p] = "PS_IDLE" \/ fsm_state[p] = "PS_PENDING"
  BY <1>2 DEF State
<1>5. QED
  BY <1>1, <1>3, <1>4 DEF Abstract!Next, Abstract!Enter, Abstract!WantAndEnter

LEMMA AbstractStep ==
    ASSUME IInv, MutualExclusion', [Next]_vars
    PROVE  [Abstract!Next]_fsm_state
<1>1. CASE SupervisorNext
  BY <1>1 DEF SupervisorNext, peerVars
<1>2. ASSUME NEW p \in Proc, PeerNext(p) PROVE [Abstract!Next]_fsm_state
  <2>1. CASE handle_message(p)
    <3>1. PICK slot \in Receivable(p) :
             \/ SupervisorMsgKept(p, slot) /\ UNCHANGED singhalVars
             \/ \E t \in StampInstants(now) : process_ev_want_cr(p, slot, t)
             \/ RequestDeferred(p, slot)
             \/ RequestYielded(p, slot)
             \/ RequestGranted(p, slot)
             \/ ReplyReceived(p, slot)
      BY <2>1 DEF handle_message
    <3>2. CASE \/ SupervisorMsgKept(p, slot) \/ RequestDeferred(p, slot)
               \/ RequestYielded(p, slot) \/ RequestGranted(p, slot)
      BY <3>2 DEF SupervisorMsgKept, SupervisorMsgNoted, RequestDeferred, RequestYielded,
                  RequestGranted, peerVars
    <3>3. CASE \E t \in StampInstants(now) : process_ev_want_cr(p, slot, t)
      <4>1. fsm_state[p] = "PS_IDLE"
        BY <3>3 DEF process_ev_want_cr, IsWant
      <4>2. CASE void_Ri(Ri[p])
        BY <3>3, <4>1, <4>2, EnterStep DEF process_ev_want_cr
      <4>3. CASE ~void_Ri(Ri[p])
        <5>1. Abstract!Want(p)
          BY <3>3, <4>1, <4>3 DEF process_ev_want_cr, Abstract!Want
        <5>2. QED
          BY <5>1 DEF Abstract!Next
      <4>4. QED
        BY <4>2, <4>3
    <3>4. CASE ReplyReceived(p, slot)
      <4>1. CASE Requesting[p] /\ void_Ri(Ri'[p])
        <5>1. fsm_state[p] = "PS_PENDING"
          BY <4>1 DEF IInv, FlagsAgree
        <5>2. EnterCriticalRegion(p, "PS_PENDING", dme_recv_msg(slot))
          BY <3>4, <4>1, <5>1 DEF ReplyReceived
        <5>3. QED
          BY <5>1, <5>2, EnterStep
      <4>2. CASE ~(Requesting[p] /\ void_Ri(Ri'[p]))
        BY <3>4, <4>2 DEF ReplyReceived, peerVars
      <4>3. QED
        BY <4>1, <4>2
    <3>5. QED
      BY <3>1, <3>2, <3>3, <3>4
  <2>2. CASE process_ev_exited_cr(p)
    <3>1. fsm_state[p] = "PS_EXECUTING"
      BY <2>2 DEF process_ev_exited_cr, ExitedDue, IInv, EventsMatch
    <3>2. Abstract!Exit(p)
      BY <2>2, <3>1 DEF process_ev_exited_cr, LeaveCriticalRegion, Abstract!Exit
    <3>3. QED
      BY <3>2 DEF Abstract!Next
  <2>3. CASE sendto(p) /\ UNCHANGED <<exit_request, peerVars, clockVars, singhalVars>>
    BY <2>3 DEF peerVars
  <2>4. QED
    BY <1>2, <2>1, <2>2, <2>3 DEF PeerNext
<1>3. CASE UNCHANGED vars
  BY <1>3 DEF vars, peerVars
<1>4. QED
  BY <1>1, <1>2, <1>3 DEF Next

(***************************************************************************)
(* singhal.c implements Mutex: every step of a peer is a request, an entry *)
(* into a free critical region, both at once, an exit, or leaves its FSM   *)
(* state alone.                                                            *)
(***************************************************************************)
THEOREM Implementation == ASSUME Net # "udp" PROVE Spec => MutexSpec
<1>1. Init => Abstract!Init
  BY DEF Init, PeerInit, Abstract!Init
<1>2. IInv /\ MutualExclusion' /\ [Next]_vars => [Abstract!Next]_fsm_state
  BY AbstractStep
<1>3. QED
  BY <1>1, <1>2, Invariance, Exclusion, PTL DEF Spec, MutexSpec, Abstract!Spec

-----------------------------------------------------------------------------
(***************************************************************************)
(* The supervisor's view, on networks that keep the order of the packets   *)
(* between two nodes.                                                      *)
(***************************************************************************)
Seen(n, st) == Sight(GoodPackets, n, st, nodes)

LEMMA PacketKinds == TypesApart(GoodPackets)
<1>1. \A msg \in PeerMsg : msg.type \in {"REQUEST", "REPLY"}
  BY DEF PeerMsg
<1>2. QED
  BY <1>1 DEF TypesApart, SupTypes, GoodPackets, PacketType

(* Sending a message of the algorithm changes nothing in the view. *)
LEMMA SeenSent ==
    ASSUME Assumptions, NEW n \in Nets(GoodPackets), Placed(n), NEW m \in Nets(GoodPackets),
           NEW New, Sent(n, m, New), \A pkt \in New : pkt.msg \notin SupMsg,
           NEW st, Seen(n, st)
    PROVE  Seen(m, st)
BY SightSent DEF Assumptions, Seen

LEMMA SeenReply ==
    ASSUME Assumptions, NEW n \in Nets(GoodPackets), Placed(n), NEW p \in Proc,
           NEW q \in Proc \ {p}, NEW st, Seen(n, st)
    PROVE  LET m == dme_send_msg(n, p, q, REPLY(p)) IN
           m \in Nets(GoodPackets) /\ Placed(m) /\ Seen(m, st)
<1> DEFINE m == dme_send_msg(n, p, q, REPLY(p))
<1>1. p \in Node /\ q \in Node /\ Packet(p, q, REPLY(p)) \in GoodPackets
  BY ReplyGood, PidFacts DEF Assumptions
<1>2. m \in Nets(GoodPackets) /\ Placed(m) /\ Sent(n, m, {Packet(p, q, REPLY(p))})
  BY <1>1, OneTold
<1>3. \A pkt \in {Packet(p, q, REPLY(p))} : pkt.msg \notin SupMsg
  BY DEF Packet, REPLY, SupMsg
<1> HIDE DEF m
<1>4. Seen(m, st)
  BY <1>2, <1>3, SeenSent
<1>5. QED
  BY <1>2, <1>4 DEF m

(* It is the supervisor's state that the view depends on. *)
LEMMA SeenSame ==
    ASSUME Seen(net', fsm_state'), SupervisorUnchanged
    PROVE  Seen(net, fsm_state)'
BY DEF Seen, SupervisorUnchanged, supVars

LEMMA SeenTaken ==
    ASSUME Assumptions, IInv, Seen(net, fsm_state), NEW p \in Proc, NEW slot \in Receivable(p),
           PeerMsgAt(p, slot)
    PROVE  Seen(dme_recv_msg(slot), fsm_state)
BY PidFacts, SightOthers DEF PeerMsgAt, Assumptions, IInv, Seen

LEMMA SeenEntered ==
    ASSUME Assumptions, NEW p \in Proc, NEW n \in Nets(GoodPackets), Placed(n),
           NEW st \in [Proc -> State], st[p] = "PS_PENDING", Seen(n, st)
    PROVE  Seen(dme_send_msg(n, p, SUPERVISOR_PID, [type |-> "ENTERED"]),
                [st EXCEPT ![p] = "PS_EXECUTING"])
BY SupPacketsGood, SightEntered DEF Assumptions, Seen

LEMMA SeenWant ==
    ASSUME Assumptions, IInv, Seen(net, fsm_state), NEW p \in Proc, NEW slot \in Receivable(p),
           NEW t \in StampInstants(now), process_ev_want_cr(p, slot, t)
    PROVE  Seen(net', fsm_state')
<1> DEFINE m == dme_recv_msg(slot)
           st == [fsm_state EXCEPT ![p] = "PS_PENDING"]
           New == {Packet(p, d, REQUEST(p, t)) : d \in Ri[p]}
<1>1. /\ p \in Node /\ m \in Nets(GoodPackets) /\ Placed(m)
      /\ net \in Nets(GoodPackets) /\ Placed(net) /\ fsm_state \in [Proc -> State]
      /\ Ri \in [Proc -> SUBSET Proc] /\ t \in Nat /\ SetsMatch
      /\ sup_syncro \in [Proc -> Timespec]
  BY MessageTaken, InstantFacts DEF IInv, TypeOK, PeerTypeOK, ClockTypeOK
<1>2. PacketAt(slot).msg \in SupMsg /\ PacketAt(slot).msg.type = "WANT"
  BY DEF process_ev_want_cr, SupervisorMsgAt, IsWant
<1>3. Seen(m, st) /\ st \in [Proc -> State] /\ st[p] = "PS_PENDING"
  <2>1. Seen(m, st)
    BY <1>1, <1>2, SightWanted DEF Assumptions, Seen
  <2>2. QED
    BY <1>1, <2>1 DEF State
<1>4. CASE void_Ri(Ri[p])
  <2>1. /\ net' = dme_send_msg(m, p, SUPERVISOR_PID, [type |-> "ENTERED"])
        /\ fsm_state' = [fsm_state EXCEPT ![p] = "PS_EXECUTING"]
    BY <1>4 DEF process_ev_want_cr, EnterCriticalRegion, process_ev_entered_cr
  <2>2. fsm_state' = [st EXCEPT ![p] = "PS_EXECUTING"]
    BY <1>1, <2>1
  <2> HIDE DEF m, st
  <2>3. Seen(dme_send_msg(m, p, SUPERVISOR_PID, [type |-> "ENTERED"]),
             [st EXCEPT ![p] = "PS_EXECUTING"])
    BY <1>1, <1>3, SeenEntered
  <2>4. QED
    BY <2>1, <2>2, <2>3
<1>5. CASE ~void_Ri(Ri[p])
  <2>1. /\ fsm_state' = st
        /\ net' = SendToEach(m, p, Ascending(Ri[p]), REQUEST(p, t))
    BY <1>5 DEF process_ev_want_cr
  <2>2. \A d \in Ri[p] : Packet(p, d, REQUEST(p, t)) \in GoodPackets
    BY <1>1, RequestGood DEF SetsMatch
  <2> HIDE DEF m, st
  <2>3. net' \in Nets(GoodPackets) /\ Sent(m, net', New)
    BY <1>1, <2>1, <2>2, EachTold DEF Assumptions
  <2>4. \A pkt \in New : pkt.msg \notin SupMsg
    BY DEF Packet, REQUEST, SupMsg
  <2> HIDE DEF New
  <2>5. QED
    BY <1>1, <1>3, <2>1, <2>3, <2>4, SeenSent
<1>6. QED
  BY <1>4, <1>5

LEMMA SeenYielded ==
    ASSUME Assumptions, IInv, Seen(net, fsm_state), NEW p \in Proc, NEW slot \in Receivable(p),
           RequestYielded(p, slot)
    PROVE  Seen(net', fsm_state')
<1> DEFINE pkt == PacketAt(slot)
           q == pkt.msg.pid
           m == dme_recv_msg(slot)
           replied == dme_send_msg(m, p, q, REPLY(p))
<1>1. p \in Node /\ m \in Nets(GoodPackets) /\ Placed(m) /\ pkt \in GoodPackets
  BY MessageTaken
<1>2. q \in Proc \ {p} /\ q \in Node
  BY PeerMessage, PidFacts DEF RequestYielded, Assumptions
<1>3. /\ PeerMsgAt(p, slot) /\ pkt.msg.type = "REQUEST"
      /\ \/ net' = replied
         \/ \E t \in StampInstants(ArrivalTime(pkt.msg)) :
               net' = dme_send_msg(replied, p, q, REQUEST(p, t))
      /\ UNCHANGED fsm_state
  BY DEF RequestYielded, peerVars
<1> HIDE DEF pkt
<1>4. ArrivalTime(pkt.msg) \in Nat /\ sup_syncro \in [Proc -> Timespec]
  BY <1>1, <1>3, ClockArrival DEF IInv, TypeOK, ClockTypeOK
<1>5. Seen(m, fsm_state)
  BY <1>3, SeenTaken
<1> HIDE DEF m, q
<1>6. replied \in Nets(GoodPackets) /\ Placed(replied) /\ Seen(replied, fsm_state)
  BY <1>1, <1>2, <1>5, SeenReply
<1> HIDE DEF replied
<1>7. ASSUME NEW t \in StampInstants(ArrivalTime(pkt.msg)),
             net' = dme_send_msg(replied, p, q, REQUEST(p, t))
      PROVE  Seen(net', fsm_state')
  <2>1. Packet(p, q, REQUEST(p, t)) \in GoodPackets
    BY <1>2, <1>4, InstantFacts, RequestGood
  <2>2. net' \in Nets(GoodPackets) /\ Sent(replied, net', {Packet(p, q, REQUEST(p, t))})
    BY <1>1, <1>2, <1>6, <1>7, <2>1, OneTold
  <2>3. \A one \in {Packet(p, q, REQUEST(p, t))} : one.msg \notin SupMsg
    BY DEF Packet, REQUEST, SupMsg
  <2>4. Seen(net', fsm_state)
    BY <1>6, <2>2, <2>3, SeenSent
  <2>5. QED
    BY <1>3, <2>4
<1>8. QED
  BY <1>3, <1>6, <1>7

LEMMA SeenExited ==
    ASSUME Assumptions, IInv, Seen(net, fsm_state), NEW p \in Proc, process_ev_exited_cr(p)
    PROVE  Seen(net', fsm_state')
<1> DEFINE m == InformExited(p)
           New == {Packet(p, d, REPLY(p)) : d \in Ii[p]}
<1>1. /\ p \in Node /\ net \in Nets(GoodPackets) /\ Placed(net)
      /\ fsm_state \in [Proc -> State] /\ Ii \in [Proc -> SUBSET Proc] /\ SetsMatch
  BY PidFacts DEF IInv, TypeOK, PeerTypeOK, Assumptions
<1>2. fsm_state[p] = "PS_EXECUTING"
  BY DEF process_ev_exited_cr, ExitedDue, IInv, EventsMatch
<1>3. /\ fsm_state' = [fsm_state EXCEPT ![p] = "PS_IDLE"]
      /\ net' = SendToEach(m, p, Ascending(Ii[p]), REPLY(p))
  BY <1>2 DEF process_ev_exited_cr, Answered, LeaveCriticalRegion
<1>4. m \in Nets(GoodPackets) /\ Placed(m) /\ Seen(m, fsm_state')
  <2>1. m \in Nets(GoodPackets) /\ Placed(m)
    BY <1>1, SupPacketsGood, SupervisorTold DEF Assumptions, InformExited
  <2>2. Seen(m, fsm_state')
    BY <1>1, <1>2, <1>3, SupPacketsGood, SightExited DEF Assumptions, InformExited, Seen
  <2>3. QED
    BY <2>1, <2>2
<1> HIDE DEF m
<1>5. \A d \in Ii[p] : Packet(p, d, REPLY(p)) \in GoodPackets
  BY <1>1, ReplyGood DEF SetsMatch
<1>6. net' \in Nets(GoodPackets) /\ Sent(m, net', New)
  BY <1>1, <1>3, <1>4, <1>5, EachTold DEF Assumptions
<1>7. \A pkt \in New : pkt.msg \notin SupMsg
  BY DEF Packet, REPLY, SupMsg
<1> HIDE DEF New
<1>8. QED
  BY <1>4, <1>6, <1>7, SeenSent

LEMMA SeenSupervisor ==
    ASSUME Net # "udp", Assumptions, IInv, Seen(net, fsm_state), Counted, SupervisorNext
    PROVE  Seen(net, fsm_state)' /\ Counted'
<1>1. /\ UNCHANGED fsm_state /\ net \in Nets(GoodPackets) /\ Placed(net) /\ SupTypeOK
      /\ Sight(GoodPackets, net, fsm_state, nodes)
  BY DEF SupervisorNext, peerVars, IInv, TypeOK, Seen
<1>2. CASE SupNext
  <2>1. Sight(GoodPackets, net', fsm_state, nodes')
    BY <1>1, <1>2, SupPacketsGood, PacketKinds, SightSupervisor DEF Assumptions
  <2>2. Counted'
    BY <1>1, <1>2, SupPacketsGood, PacketKinds, CountedSupervisor DEF Assumptions
  <2>3. QED
    BY <1>1, <2>1, <2>2 DEF Seen
<1>3. CASE sendto(SUPERVISOR_PID) /\ UNCHANGED supVars
  <2>1. Sight(GoodPackets, net', fsm_state, nodes)
    BY <1>1, <1>3, GoodAddressed, PidFacts, SightSendto DEF Assumptions
  <2>2. QED
    BY <1>1, <1>3, <2>1 DEF Seen, Counted, Awaited, supVars
<1>4. QED
  BY <1>2, <1>3 DEF SupervisorNext

LEMMA SeenNext ==
    ASSUME Net # "udp", Assumptions, IInv, Seen(net, fsm_state), Counted, [Next]_vars
    PROVE  Seen(net, fsm_state)' /\ Counted'
<1>1. CASE SupervisorNext
  BY <1>1, SeenSupervisor
<1>2. ASSUME NEW p \in Proc, PeerNext(p) PROVE Seen(net, fsm_state)' /\ Counted'
  <2>1. SupervisorUnchanged
    BY <1>2 DEF PeerNext
  <2>2. Counted'
    BY <2>1 DEF SupervisorUnchanged, supVars, Counted, Awaited
  <2>3. p \in Node /\ net \in Nets(GoodPackets) /\ Placed(net) /\ fsm_state \in [Proc -> State]
        /\ FlagsAgree
    BY PidFacts DEF IInv, TypeOK, PeerTypeOK, Assumptions
  <2>4. ASSUME NEW slot \in Receivable(p), SupervisorMsgKept(p, slot)
        PROVE  Seen(net', fsm_state')
    BY <2>3, <2>4, SightNoted DEF SupervisorMsgKept, SupervisorMsgNoted, peerVars, Assumptions, Seen
  <2>5. ASSUME NEW slot \in Receivable(p), RequestDeferred(p, slot)
        PROVE  Seen(net', fsm_state')
    BY <2>5, SeenTaken DEF RequestDeferred, peerVars
  <2>6. ASSUME NEW slot \in Receivable(p), RequestGranted(p, slot)
        PROVE  Seen(net', fsm_state')
    <3> DEFINE q == PacketAt(slot).msg.pid
    <3>1. dme_recv_msg(slot) \in Nets(GoodPackets) /\ Placed(dme_recv_msg(slot))
          /\ Seen(dme_recv_msg(slot), fsm_state)
      BY <2>6, MessageTaken, SeenTaken DEF RequestGranted
    <3>2. q \in Proc \ {p}
      BY <2>6, PeerMessage DEF RequestGranted
    <3>3. net' = dme_send_msg(dme_recv_msg(slot), p, q, REPLY(p)) /\ UNCHANGED fsm_state
      BY <2>6 DEF RequestGranted, peerVars
    <3> HIDE DEF q
    <3>4. QED
      BY <3>1, <3>2, <3>3, SeenReply
  <2>7. ASSUME NEW slot \in Receivable(p), ReplyReceived(p, slot)
        PROVE  Seen(net', fsm_state')
    <3> DEFINE m == dme_recv_msg(slot)
    <3>1. m \in Nets(GoodPackets) /\ Placed(m) /\ Seen(m, fsm_state)
      BY <2>7, MessageTaken, SeenTaken DEF ReplyReceived
    <3>2. \/ Requesting[p] /\ EnterCriticalRegion(p, fsm_state[p], m)
          \/ net' = m /\ UNCHANGED fsm_state
      BY <2>7 DEF ReplyReceived, peerVars
    <3> HIDE DEF m
    <3>3. CASE Requesting[p] /\ EnterCriticalRegion(p, fsm_state[p], m)
      <4>1. fsm_state[p] = "PS_PENDING"
        BY <2>3, <3>3 DEF FlagsAgree
      <4>2. /\ net' = dme_send_msg(m, p, SUPERVISOR_PID, [type |-> "ENTERED"])
            /\ fsm_state' = [fsm_state EXCEPT ![p] = "PS_EXECUTING"]
        BY <3>3, <4>1 DEF EnterCriticalRegion, process_ev_entered_cr
      <4>3. QED
        BY <2>3, <3>1, <4>1, <4>2, SeenEntered
    <3>4. QED
      BY <3>1, <3>2, <3>3
  <2>8. ASSUME sendto(p), UNCHANGED peerVars PROVE Seen(net', fsm_state')
    BY <2>3, <2>8, GoodAddressed, SightSendto DEF Assumptions, Seen, peerVars
  <2>9. ASSUME handle_message(p) PROVE Seen(net', fsm_state')
    <3>1. PICK slot \in Receivable(p) :
              \/ SupervisorMsgKept(p, slot)
              \/ \E t \in StampInstants(now) : process_ev_want_cr(p, slot, t)
              \/ RequestDeferred(p, slot)
              \/ RequestYielded(p, slot)
              \/ RequestGranted(p, slot)
              \/ ReplyReceived(p, slot)
      BY <2>9 DEF handle_message
    <3>2. CASE \E t \in StampInstants(now) : process_ev_want_cr(p, slot, t)
      BY <3>2, SeenWant
    <3>3. CASE RequestYielded(p, slot)
      BY <3>3, SeenYielded
    <3>4. QED
      BY <2>4, <2>5, <2>6, <2>7, <3>1, <3>2, <3>3
  <2>10. ASSUME process_ev_exited_cr(p) PROVE Seen(net', fsm_state')
    BY <2>10, SeenExited
  <2>11. Seen(net', fsm_state')
    BY <1>2, <2>8, <2>9, <2>10 DEF PeerNext, peerVars
  <2>12. QED
    BY <2>1, <2>2, <2>11, SeenSame
<1>3. CASE UNCHANGED vars
  BY <1>3 DEF vars, peerVars, supVars, Seen, Counted, Awaited
<1>4. QED
  BY <1>1, <1>2, <1>3 DEF Next

LEMMA SeenInit == ASSUME Assumptions, Init PROVE Seen(net, fsm_state) /\ Counted
<1>1. \A p \in Proc : fsm_state[p] = "PS_IDLE" /\ nodes[p] = "PS_IDLE"
  BY DEF Init, PeerInit, SupInit
<1>2. Sight(GoodPackets, net, fsm_state, nodes)
  BY <1>1, SightInit DEF Init
<1>3. QED
  BY <1>2, CountedInit DEF Init, Assumptions, Seen

LEMMA SeenInvariance == ASSUME Net # "udp" PROVE Spec => [](Seen(net, fsm_state) /\ Counted)
<1>1. Init => Seen(net, fsm_state) /\ Counted
  BY Assumed, SeenInit
<1>2. IInv /\ Seen(net, fsm_state) /\ Counted /\ [Next]_vars => Seen(net, fsm_state)' /\ Counted'
  BY Assumed, SeenNext
<1>3. QED
  BY <1>1, <1>2, Invariance, PTL DEF Spec

(***************************************************************************)
(* A WANT finds its peer idle, so that no election is dropped.             *)
(***************************************************************************)
THEOREM WantsFindIdle == ASSUME Net # "udp" PROVE Spec => []WantFindsIdle
<1>1. IInv /\ Seen(net, fsm_state) => WantFindsIdle
  BY Assumed, PacketKinds, SeenWantsFindIdle DEF IInv, Assumptions, Seen
<1>2. QED
  BY <1>1, Invariance, SeenInvariance, PTL

(***************************************************************************)
(* A test gets no more responses than it elected processes: the arrays     *)
(* process_messages stores the response times in are not overrun.          *)
(***************************************************************************)
THEOREM NoResponseTooMany == ASSUME Net # "udp" PROVE Spec => []ResponsesFit
<1>1. IInv /\ Counted => ResponsesFit
  BY Assumed, CountedFit DEF IInv, TypeOK, Assumptions
<1>2. QED
  BY <1>1, Invariance, SeenInvariance, PTL

-----------------------------------------------------------------------------
(***************************************************************************)
(* No false alarm, on one host.  A peer has to ask r, or got a REPLY that  *)
(* r sent behind its EXITED: whoever has nobody to ask enters when the     *)
(* EXITED of everybody before it is in the supervisor's buffer.            *)
(***************************************************************************)
Asks(ri) == {pair \in Proc \X Proc : pair[2] \in ri[pair[1]]}

Freed(n, st, ri) == OnHost(GoodPackets, "REPLY", n, st, Asks(ri))

AInv == Freed(net, fsm_state, Ri) /\ Unalarmed

LEMMA AsksMore ==
    ASSUME NEW n, NEW st, NEW ri, NEW rj, Freed(n, st, ri), \A p \in Proc : ri[p] \subseteq rj[p]
    PROVE  Freed(n, st, rj)
<1>1. Asks(ri) \subseteq Asks(rj)
  BY DEF Asks
<1>2. QED
  BY <1>1, HostMore DEF Freed

LEMMA MessageRead ==
    ASSUME Net = "loopback", Assumptions, IInv, AInv, NEW p \in Proc, NEW slot \in Receivable(p)
    PROVE  LET m == dme_recv_msg(slot) IN
           /\ p \in Node /\ m \in Nets(GoodPackets) /\ Placed(m)
           /\ Freed(m, fsm_state, Ri) /\ Reports(m) = Reports(net)
           /\ \A q \in Proc \ {p} : PacketAt(slot) \in Reply(q, p) =>
                 Freed(m, fsm_state, [Ri EXCEPT ![p] = @ \ {q}])
<1> DEFINE m == dme_recv_msg(slot)
<1>1. /\ p \in Node /\ net \in Nets(GoodPackets) /\ m \in Nets(GoodPackets) /\ Placed(m)
      /\ Ri \in [Proc -> SUBSET Proc]
  BY MessageTaken DEF IInv, TypeOK
<1>2. OnHost(GoodPackets, "REPLY", net, fsm_state, Asks(Ri))
  BY DEF AInv, Freed
<1>3. Freed(m, fsm_state, Ri) /\ Reports(m) = Reports(net)
  BY <1>1, <1>2, HostTaken DEF Assumptions, Freed
<1>4. ASSUME NEW q \in Proc \ {p}, PacketAt(slot) \in Reply(q, p)
      PROVE  Freed(m, fsm_state, [Ri EXCEPT ![p] = @ \ {q}])
  <2>1. PacketAt(slot) \in FromTo(GoodPackets, "REPLY", q, p)
    BY <1>4 DEF Reply, FromTo
  <2>2. OnHost(GoodPackets, "REPLY", m, fsm_state, Asks(Ri) \ {<<p, q>>})
    BY <1>1, <1>2, <2>1, HostTaken DEF Assumptions
  <2>3. Asks(Ri) \ {<<p, q>>} \subseteq Asks([Ri EXCEPT ![p] = @ \ {q}])
    BY <1>1 DEF Asks
  <2> HIDE DEF m
  <2>4. QED
    BY <2>2, <2>3, HostMore DEF Freed
<1>5. QED
  BY <1>1, <1>3, <1>4

LEMMA ReplySent ==
    ASSUME Net = "loopback", Assumptions, NEW n \in Nets(GoodPackets), Placed(n), NEW p \in Proc,
           NEW q \in Proc \ {p}, NEW st, NEW ri, Freed(n, st, ri)
    PROVE  LET m == dme_send_msg(n, p, q, REPLY(p)) IN
           m \in Nets(GoodPackets) /\ Placed(m) /\ Freed(m, st, ri) /\ Reports(m) = Reports(n)
<1>1. p \in Node /\ q \in Node /\ Packet(p, q, REPLY(p)) \in GoodPackets
  BY ReplyGood, PidFacts DEF Assumptions
<1>2. REPLY(p).type \notin {"ENTERED", "EXITED"}
  BY DEF REPLY
<1>3. QED
  BY <1>1, <1>2, HostTold DEF Assumptions, Freed

LEMMA AEntered ==
    ASSUME Net = "loopback", Assumptions, NEW n \in Nets(GoodPackets), Placed(n),
           NEW st \in [Proc -> State], NEW ri, Freed(n, st, ri), NEW p \in Proc
    PROVE  LET m == dme_send_msg(n, p, SUPERVISOR_PID, [type |-> "ENTERED"]) IN
           Freed(m, [st EXCEPT ![p] = "PS_EXECUTING"], ri) /\ Reports(m) = Reports(n)
BY SupPacketsGood, HostEntered DEF Assumptions, Freed

LEMMA AWantOK ==
    ASSUME Net = "loopback", Assumptions, IInv, AInv, NEW p \in Proc, NEW slot \in Receivable(p),
           NEW t \in StampInstants(now), process_ev_want_cr(p, slot, t)
    PROVE  Freed(net', fsm_state', Ri') /\ Reports(net') = Reports(net)
<1> DEFINE m == dme_recv_msg(slot)
           New == {Packet(p, d, REQUEST(p, t)) : d \in Ri[p]}
<1>1. /\ fsm_state \in [Proc -> State] /\ Ri \in [Proc -> SUBSET Proc]
      /\ t \in Nat /\ SetsMatch /\ sup_syncro \in [Proc -> Timespec]
      /\ Ri' = Ri /\ fsm_state[p] = "PS_IDLE"
  BY InstantFacts DEF IInv, TypeOK, PeerTypeOK, ClockTypeOK, process_ev_want_cr, IsWant
<1>2. /\ p \in Node /\ m \in Nets(GoodPackets) /\ Placed(m)
      /\ Freed(m, fsm_state, Ri) /\ Reports(m) = Reports(net)
  BY MessageRead
<1>3. CASE void_Ri(Ri[p])
  <2>1. /\ net' = dme_send_msg(m, p, SUPERVISOR_PID, [type |-> "ENTERED"])
        /\ fsm_state' = [fsm_state EXCEPT ![p] = "PS_EXECUTING"]
    BY <1>3 DEF process_ev_want_cr, EnterCriticalRegion, process_ev_entered_cr
  <2> HIDE DEF m
  <2>2. QED
    BY <1>1, <1>2, <2>1, AEntered
<1>4. CASE ~void_Ri(Ri[p])
  <2>1. /\ fsm_state' = [fsm_state EXCEPT ![p] = "PS_PENDING"]
        /\ net' = SendToEach(m, p, Ascending(Ri[p]), REQUEST(p, t))
    BY <1>4 DEF process_ev_want_cr
  <2>2. \A d \in Ri[p] : Packet(p, d, REQUEST(p, t)) \in GoodPackets
    BY <1>1, RequestGood DEF SetsMatch
  <2> HIDE DEF m
  <2>3. net' \in Nets(GoodPackets) /\ Sent(m, net', New)
    BY <1>1, <1>2, <2>1, <2>2, EachTold DEF Assumptions
  <2>4. \A pkt \in New : pkt.msg.type \notin {"ENTERED", "EXITED"}
    BY DEF Packet, REQUEST
  <2> HIDE DEF New
  <2>5. Freed(net', fsm_state, Ri) /\ Reports(net') = Reports(m)
    BY <1>2, <2>3, <2>4, HostSent DEF Assumptions, Freed
  <2>6. \A r \in Proc : fsm_state'[r] # "PS_EXECUTING" => fsm_state[r] # "PS_EXECUTING"
    BY <1>1, <2>1
  <2>7. Freed(net', fsm_state', Ri)
    BY <2>5, <2>6 DEF Freed, OnHost, Reporting
  <2>8. QED
    BY <1>1, <1>2, <2>5, <2>7
<1>5. QED
  BY <1>3, <1>4

LEMMA AYieldedOK ==
    ASSUME Net = "loopback", Assumptions, IInv, AInv, NEW p \in Proc, NEW slot \in Receivable(p),
           RequestYielded(p, slot)
    PROVE  Freed(net', fsm_state', Ri') /\ Reports(net') = Reports(net)
<1> DEFINE pkt == PacketAt(slot)
           q == pkt.msg.pid
           m == dme_recv_msg(slot)
           replied == dme_send_msg(m, p, q, REPLY(p))
<1>1. pkt \in GoodPackets
  BY MessageTaken
<1>2. q \in Proc \ {p} /\ q \in Node
  BY PeerMessage, PidFacts DEF RequestYielded, Assumptions
<1>3. /\ pkt.msg.type = "REQUEST"
      /\ \/ net' = replied
         \/ \E t \in StampInstants(ArrivalTime(pkt.msg)) :
               net' = dme_send_msg(replied, p, q, REQUEST(p, t))
      /\ Ri' = Ri \/ Ri' = [Ri EXCEPT ![p] = @ \cup {q}]
      /\ UNCHANGED fsm_state
  BY DEF RequestYielded, peerVars
<1> HIDE DEF pkt
<1>4. /\ ArrivalTime(pkt.msg) \in Nat /\ sup_syncro \in [Proc -> Timespec]
      /\ Ri \in [Proc -> SUBSET Proc]
  BY <1>1, <1>3, ClockArrival DEF IInv, TypeOK, ClockTypeOK
<1>5. /\ p \in Node /\ m \in Nets(GoodPackets) /\ Placed(m)
      /\ Freed(m, fsm_state, Ri) /\ Reports(m) = Reports(net)
  BY MessageRead
<1> HIDE DEF m, q
<1>6. \A d \in Proc : Ri[d] \subseteq Ri'[d]
  BY <1>3, <1>4
<1>7. /\ replied \in Nets(GoodPackets) /\ Placed(replied)
      /\ Freed(replied, fsm_state, Ri) /\ Reports(replied) = Reports(m)
  BY <1>2, <1>5, ReplySent
<1> HIDE DEF replied
<1>8. Freed(net', fsm_state, Ri) /\ Reports(net') = Reports(m)
  <2>1. ASSUME NEW t \in StampInstants(ArrivalTime(pkt.msg)),
               net' = dme_send_msg(replied, p, q, REQUEST(p, t))
        PROVE  Freed(net', fsm_state, Ri) /\ Reports(net') = Reports(m)
    <3>1. Packet(p, q, REQUEST(p, t)) \in GoodPackets
      BY <1>2, <1>4, InstantFacts, RequestGood
    <3>2. REQUEST(p, t).type \notin {"ENTERED", "EXITED"}
      BY DEF REQUEST
    <3>3. QED
      BY <1>2, <1>5, <1>7, <2>1, <3>1, <3>2, HostTold DEF Assumptions, Freed
  <2>2. QED
    BY <1>3, <1>7, <2>1
<1>9. QED
  BY <1>3, <1>5, <1>6, <1>8, AsksMore

LEMMA AGrantedOK ==
    ASSUME Net = "loopback", Assumptions, IInv, AInv, NEW p \in Proc, NEW slot \in Receivable(p),
           RequestGranted(p, slot)
    PROVE  Freed(net', fsm_state', Ri') /\ Reports(net') = Reports(net)
<1> DEFINE q == PacketAt(slot).msg.pid
           m == dme_recv_msg(slot)
<1>1. q \in Proc \ {p} /\ Ri \in [Proc -> SUBSET Proc]
  BY PeerMessage DEF RequestGranted, IInv, TypeOK
<1>2. /\ net' = dme_send_msg(m, p, q, REPLY(p))
      /\ Ri' = [Ri EXCEPT ![p] = @ \cup {q}]
      /\ UNCHANGED fsm_state
  BY DEF RequestGranted, peerVars
<1>3. /\ m \in Nets(GoodPackets) /\ Placed(m)
      /\ Freed(m, fsm_state, Ri) /\ Reports(m) = Reports(net)
  BY MessageRead
<1> HIDE DEF q, m
<1>4. Freed(net', fsm_state, Ri) /\ Reports(net') = Reports(m)
  BY <1>1, <1>2, <1>3, ReplySent
<1>5. \A d \in Proc : Ri[d] \subseteq Ri'[d]
  BY <1>1, <1>2
<1>6. QED
  BY <1>2, <1>3, <1>4, <1>5, AsksMore

LEMMA AReplyReceivedOK ==
    ASSUME Net = "loopback", Assumptions, IInv, AInv, NEW p \in Proc, NEW slot \in Receivable(p),
           ReplyReceived(p, slot)
    PROVE  Freed(net', fsm_state', Ri') /\ Reports(net') = Reports(net)
<1> DEFINE q == PacketAt(slot).msg.pid
           m == dme_recv_msg(slot)
<1>1. q \in Proc \ {p} /\ PacketAt(slot) \in Reply(q, p)
  BY RequestKind DEF ReplyReceived
<1>2. /\ Ri' = [Ri EXCEPT ![p] = @ \ {q}]
      /\ IF Requesting[p] /\ void_Ri(Ri'[p])
         THEN EnterCriticalRegion(p, fsm_state[p], m)
         ELSE net' = m /\ UNCHANGED fsm_state
  BY DEF ReplyReceived, peerVars
<1> HIDE DEF q
<1>3. /\ m \in Nets(GoodPackets) /\ Placed(m)
      /\ Freed(m, fsm_state, Ri') /\ Reports(m) = Reports(net)
  BY <1>1, <1>2, MessageRead
<1>4. fsm_state \in [Proc -> State] /\ FlagsAgree
  BY DEF IInv, TypeOK, PeerTypeOK
<1> HIDE DEF m
<1>5. CASE Requesting[p] /\ void_Ri(Ri'[p])
  <2>1. fsm_state[p] = "PS_PENDING"
    BY <1>4, <1>5 DEF FlagsAgree
  <2>2. /\ net' = dme_send_msg(m, p, SUPERVISOR_PID, [type |-> "ENTERED"])
        /\ fsm_state' = [fsm_state EXCEPT ![p] = "PS_EXECUTING"]
    BY <1>2, <1>5, <2>1 DEF EnterCriticalRegion, process_ev_entered_cr
  <2>3. QED
    BY <1>3, <1>4, <2>2, AEntered
<1>6. CASE ~(Requesting[p] /\ void_Ri(Ri'[p]))
  BY <1>2, <1>3, <1>6
<1>7. QED
  BY <1>5, <1>6

(* Who leaves is asked by everybody, and has no REPLY on its way. *)
LEMMA AExitedOK ==
    ASSUME Net = "loopback", Assumptions, IInv, PInv, AInv, NEW p \in Proc, process_ev_exited_cr(p)
    PROVE  Freed(net', fsm_state', Ri') /\ Reports(net') = Reports(net)
<1> DEFINE m == InformExited(p)
           Told1 == {Packet(p, SUPERVISOR_PID, [type |-> "EXITED"])}
           New == {Packet(p, d, REPLY(p)) : d \in Ii[p]}
<1>1. /\ p \in Node /\ net \in Nets(GoodPackets) /\ Placed(net)
      /\ fsm_state \in [Proc -> State] /\ SetsMatch /\ FlagsAgree
      /\ Ri \in [Proc -> SUBSET Proc] /\ Ii \in [Proc -> SUBSET Proc]
      /\ OnHost(GoodPackets, "REPLY", net, fsm_state, Asks(Ri))
  BY PidFacts DEF IInv, TypeOK, PeerTypeOK, Assumptions, AInv, Freed
<1>2. fsm_state[p] = "PS_EXECUTING" /\ Waiting(p)
  BY DEF process_ev_exited_cr, ExitedDue, IInv, EventsMatch
<1>3. /\ fsm_state' = [fsm_state EXCEPT ![p] = "PS_IDLE"]
      /\ net' = SendToEach(m, p, Ascending(Ii[p]), REPLY(p))
      /\ Ri' = [Ri EXCEPT ![p] = @ \cup Ii[p]]
  BY <1>2 DEF process_ev_exited_cr, Answered, LeaveCriticalRegion
<1>4. m \in Nets(GoodPackets) /\ Placed(m)
  BY <1>1, SupPacketsGood, SupervisorTold DEF Assumptions, InformExited
<1>5. ASSUME NEW d \in Proc \ {p}
      PROVE  <<d, p>> \in Asks(Ri) /\ NoneOf(net, FromTo(GoodPackets, "REPLY", p, d))
  <2>1. Ri[p] = {}
    BY <1>1, <1>2 DEF FlagsAgree, SetsMatch
  <2>2. PairOK(net, Requesting, Ri, Ii, p, d)
    BY DEF PInv
  <2>3. p \in Ri[d] /\ NoneOf(net, Reply(p, d))
    BY <2>1, <2>2 DEF PairOK, OneNeedNotAsk
  <2>4. QED
    BY <2>3 DEF Asks, Reply, FromTo
<1> HIDE DEF m
<1>6. Freed(m, fsm_state', Ri) /\ Reports(m) = Reports(net)
  <2>1. \A d \in Proc \ {p} : <<d, p>> \in Asks(Ri) /\ NoneOf(net, FromTo(GoodPackets, "REPLY", p, d))
    BY <1>5
  <2> DEFINE asks == Asks(Ri)
  <2> HIDE DEF asks
  <2>2. /\ OnHost(GoodPackets, "REPLY", InformExited(p), [fsm_state EXCEPT ![p] = "PS_IDLE"], asks)
        /\ Reports(InformExited(p)) = Reports(net)
    BY <1>1, <1>2, <2>1, SupPacketsGood, HostLeft DEF Assumptions, asks
  <2>3. QED
    BY <1>3, <2>2 DEF Freed, asks, m
<1>7. \A d \in Ii[p] : Packet(p, d, REPLY(p)) \in GoodPackets
  BY <1>1, ReplyGood DEF SetsMatch
<1>8. net' \in Nets(GoodPackets) /\ Sent(m, net', New)
  BY <1>1, <1>3, <1>4, <1>7, EachTold DEF Assumptions
<1>9. \A pkt \in New : pkt.msg.type \notin {"ENTERED", "EXITED"}
  BY DEF Packet, REPLY
<1> HIDE DEF New
<1>10. Freed(net', fsm_state', Ri) /\ Reports(net') = Reports(m)
  BY <1>4, <1>6, <1>8, <1>9, HostSent DEF Assumptions, Freed
<1>11. \A d \in Proc : Ri[d] \subseteq Ri'[d]
  BY <1>1, <1>3
<1>12. QED
  BY <1>6, <1>10, <1>11, AsksMore

(* Who is inside has nobody to ask: everybody has reported that it left. *)
LEMMA InsideAlone ==
    ASSUME IInv, PInv, Freed(net, fsm_state, Ri)
    PROVE  Alone(net, fsm_state)
<1>1. SUFFICES ASSUME NEW p \in Proc, NEW q \in Proc \ {p}, fsm_state[q] = "PS_EXECUTING"
               PROVE  fsm_state[p] # "PS_EXECUTING" /\ HandedOver(net, ExitedFrom(p))
  BY DEF Alone
<1>2. Ri[q] = {} /\ (fsm_state[p] = "PS_EXECUTING" => Ri[p] = {})
  BY <1>1 DEF IInv, FlagsAgree, SetsMatch
<1>3. PairOK(net, Requesting, Ri, Ii, p, q)
  BY DEF PInv
<1>4. fsm_state[p] # "PS_EXECUTING"
  BY <1>2, <1>3 DEF PairOK, OneNeedNotAsk
<1>5. <<q, p>> \notin Asks(Ri)
  BY <1>2 DEF Asks
<1>6. Cleared(net, <<q, p>> \in Asks(Ri), p, FromTo(GoodPackets, "REPLY", p, q))
  BY DEF Freed, OnHost
<1>7. QED
  BY <1>4, <1>5, <1>6 DEF Cleared

LEMMA ANextOK ==
    ASSUME Net = "loopback", OutOfBounds = {FALSE}, Assumptions, IInv, PInv,
           Seen(net, fsm_state), AInv, [Next]_vars
    PROVE  AInv'
<1>1. /\ net \in Nets(GoodPackets) /\ Placed(net) /\ SupTypeOK
      /\ OnHost(GoodPackets, "REPLY", net, fsm_state, Asks(Ri)) /\ Unalarmed
      /\ Sight(GoodPackets, net, fsm_state, nodes) /\ Alone(net, fsm_state)
  BY InsideAlone DEF IInv, TypeOK, AInv, Freed, Seen
<1>2. ForPeers(GoodPackets)
  BY PacketFields DEF ForPeers
<1>3. CASE SupervisorNext
  <2>1. UNCHANGED <<fsm_state, Ri>>
    BY <1>3 DEF SupervisorNext, peerVars, singhalVars
  <2>2. OnHost(GoodPackets, "REPLY", net', fsm_state, Asks(Ri)) /\ Unalarmed'
    BY <1>1, <1>2, <1>3, SupPacketsGood, HostSupervisor DEF SupervisorNext, Assumptions
  <2>3. QED
    BY <2>1, <2>2 DEF AInv, Freed, Asks
<1>4. ASSUME NEW p \in Proc, PeerNext(p) PROVE AInv'
  <2>1. SupervisorUnchanged
    BY <1>4 DEF PeerNext
  <2>2. ASSUME Freed(net', fsm_state', Ri'), Reports(net') = Reports(net),
               exit_request'[SUPERVISOR_PID] = exit_request[SUPERVISOR_PID]
        PROVE  AInv'
    BY <2>1, <2>2, AlarmPeer DEF AInv, SupervisorUnchanged
  <2>3. CASE sendto(p) /\ UNCHANGED <<exit_request, peerVars, clockVars, singhalVars>>
    <3>1. OnHost(GoodPackets, "REPLY", net', fsm_state, Asks(Ri)) /\ Unalarmed'
      BY <1>1, <1>2, <2>1, <2>3, PidFacts, HostSendto DEF Assumptions, SupervisorUnchanged
    <3>2. UNCHANGED <<fsm_state, Ri>>
      BY <2>3 DEF peerVars, singhalVars
    <3>3. QED
      BY <3>1, <3>2 DEF AInv, Freed, Asks
  <2>4. CASE process_ev_exited_cr(p)
    <3>1. fsm_state[p] = "PS_EXECUTING"
      BY <2>4 DEF process_ev_exited_cr, ExitedDue, IInv, EventsMatch
    <3>2. UNCHANGED exit_request
      BY <2>4, <3>1 DEF process_ev_exited_cr, LeaveCriticalRegion
    <3>3. QED
      BY <2>2, <2>4, <3>2, AExitedOK
  <2>5. CASE handle_message(p)
    <3>1. PICK slot \in Receivable(p) :
             \/ SupervisorMsgKept(p, slot) /\ UNCHANGED singhalVars
             \/ \E t \in StampInstants(now) : process_ev_want_cr(p, slot, t)
             \/ RequestDeferred(p, slot)
             \/ RequestYielded(p, slot)
             \/ RequestGranted(p, slot)
             \/ ReplyReceived(p, slot)
      BY <2>5 DEF handle_message
    <3>2. ASSUME net' = dme_recv_msg(slot), UNCHANGED <<fsm_state, Ri, exit_request>> PROVE AInv'
      BY <2>2, <3>2, MessageRead
    <3>3. CASE SupervisorMsgKept(p, slot) /\ UNCHANGED singhalVars
      BY <3>2, <3>3 DEF SupervisorMsgKept, SupervisorMsgNoted, peerVars, singhalVars
    <3>4. CASE RequestDeferred(p, slot)
      BY <3>2, <3>4 DEF RequestDeferred, peerVars
    <3>5. CASE \E t \in StampInstants(now) : process_ev_want_cr(p, slot, t)
      <4>1. UNCHANGED exit_request
        BY <3>5 DEF process_ev_want_cr, EnterCriticalRegion, process_ev_entered_cr
      <4>2. QED
        BY <2>2, <3>5, <4>1, AWantOK
    <3>6. CASE RequestYielded(p, slot)
      BY <2>2, <3>6, AYieldedOK DEF RequestYielded
    <3>7. CASE RequestGranted(p, slot)
      BY <2>2, <3>7, AGrantedOK DEF RequestGranted
    <3>8. CASE ReplyReceived(p, slot)
      <4>1. Requesting[p] => fsm_state[p] = "PS_PENDING"
        BY DEF IInv, FlagsAgree
      <4>2. UNCHANGED exit_request
        BY <3>8, <4>1 DEF ReplyReceived, EnterCriticalRegion, process_ev_entered_cr
      <4>3. QED
        BY <2>2, <3>8, <4>2, AReplyReceivedOK
    <3>9. QED
      BY <3>1, <3>3, <3>4, <3>5, <3>6, <3>7, <3>8
  <2>6. QED
    BY <1>4, <2>3, <2>4, <2>5 DEF PeerNext
<1>5. CASE UNCHANGED vars
  BY <1>5 DEF vars, peerVars, supVars, singhalVars, AInv, Unalarmed, Freed
<1>6. QED
  BY <1>3, <1>4, <1>5 DEF Next

(***************************************************************************)
(* On one host the supervisor does not stop an experiment that is in order,*)
(* when the memory behind its nodes array does not read as a peer that     *)
(* executes: it never sees two peers inside and gets no peer's message.    *)
(***************************************************************************)
THEOREM NoAlarm ==
    ASSUME Net = "loopback", OutOfBounds = {FALSE}
    PROVE  Spec => []NoFalseAlarm
<1>1. Init => AInv
  BY Assumed, HostInit DEF Init, Assumptions, AInv, Freed
<1>2. IInv /\ PInv /\ Seen(net, fsm_state) /\ Counted /\ AInv /\ [Next]_vars => AInv'
  BY Assumed, ANextOK
<1>3. AInv => NoFalseAlarm
  BY DEF AInv, Unalarmed, NoFalseAlarm
<1>4. Spec => []PInv
  BY PInvariance
<1>5. Spec => [](Seen(net, fsm_state) /\ Counted)
  BY SeenInvariance
<1>6. QED
  BY <1>1, <1>2, <1>3, <1>4, <1>5, Invariance, PTL DEF Spec
=============================================================================

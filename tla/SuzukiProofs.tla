---------------------------- MODULE SuzukiProofs ----------------------------
(***************************************************************************)
(* Theorems about Suzuki for every nodes_count, Net, OutOfBounds and       *)
(* number of tests.  First its types, the one token, mutual exclusion,     *)
(* events that always find the state they were scheduled for, and that it  *)
(* implements Mutex.  Then what the token carries: LN counts the served    *)
(* requests exactly, and the token is only ever sent to a peer that waits  *)
(* for it, or to nobody.  Then the supervisor's view where packets keep    *)
(* their order, and on one host, that the token is never lost, the         *)
(* supervisor never stops without a reason and nobody is left waiting.     *)
(***************************************************************************)
EXTENDS Suzuki, PeerProofs

(***************************************************************************)
(* Mutual exclusion alone is not inductive: it needs the token to be one,  *)
(* for that no peer may take a second one or be left with it after a fatal *)
(* error, and the queued ENTERED events must find their peer pending.      *)
(***************************************************************************)
IInv == TypeOK /\ TokenUnique /\ EventsMatchState /\ NoPeerFatal

Assumptions == NetworkAssumption /\ SupervisorAssumption /\ SuzukiAssumption

-----------------------------------------------------------------------------
(* The packets of the supervisor are packets of the program, and no tokens. *)
LEMMA SupPacketKind == SupPackets \subseteq PacketType /\ SupPackets \cap TokenPacket = {}
<1>1. \A pkt \in SupPackets : pkt \in PacketType
  BY DEF SupPackets, PacketType
<1>2. \A pkt \in SupPackets : pkt.msg.type # "REPLY"
  BY DEF SupPackets, SupMsg
<1>3. \A pkt \in TokenPacket : pkt.msg.type = "REPLY"
  BY DEF TokenPacket, TokenMsg
<1>4. QED
  BY <1>1, <1>2, <1>3

LEMMA RequestPacketKind ==
    ASSUME NetworkAssumption, NEW p \in Proc, NEW dst \in Node, NEW req_no \in Nat
    PROVE  /\ Packet(p, dst, REQUEST(p, req_no)) \in PacketType
           /\ Packet(p, dst, REQUEST(p, req_no)) \notin TokenPacket
<1>1. REQUEST(p, req_no) \in PeerMsg
  BY DEF REQUEST, PeerMsg
<1>2. REQUEST(p, req_no) \notin TokenMsg
  BY DEF REQUEST, TokenMsg
<1>3. QED
  BY <1>1, <1>2, PidFacts DEF Packet, PacketType, TokenPacket

LEMMA TokenPacketKind ==
    ASSUME NetworkAssumption, NEW p \in Proc, NEW dst \in Node, NEW tok \in Token
    PROVE  Packet(p, dst, REPLY(p, tok)) \in PacketType
<1>1. REPLY(p, tok) \in PeerMsg
  BY DEF REPLY, PeerMsg, TokenMsg
<1>2. QED
  BY <1>1, PidFacts DEF Packet, PacketType

(* What the type of a message says about the packet it came in. *)
LEMMA PacketFields ==
    ASSUME NEW pkt \in PacketType
    PROVE  /\ pkt.dst \in Node
           /\ pkt.msg.type = "REQUEST" =>
                 pkt.msg.pid \in Proc /\ pkt.msg.req_no \in Nat
           /\ pkt.msg.type = "REPLY" => pkt.msg.token \in Token /\ pkt \in TokenPacket
<1>1. pkt.dst \in Node /\ pkt.src \in Node /\ pkt.msg \in SupMsg \cup PeerMsg
      /\ pkt = [src |-> pkt.src, dst |-> pkt.dst, msg |-> pkt.msg]
  BY DEF PacketType
<1>2. pkt.msg \in SupMsg => pkt.msg.type \notin {"REQUEST", "REPLY"}
  BY DEF SupMsg
<1>3. CASE pkt.msg \in [type : {"REQUEST"}, pid : Proc, req_no : Nat]
  BY <1>1, <1>3
<1>4. CASE pkt.msg \in TokenMsg
  <2>1. pkt.msg.type = "REPLY" /\ pkt.msg.token \in Token
    BY <1>4 DEF TokenMsg
  <2>2. pkt \in TokenPacket
    BY <1>1, <1>4 DEF TokenPacket
  <2>3. QED
    BY <1>1, <2>1, <2>2
<1>5. QED
  BY <1>1, <1>2, <1>3, <1>4 DEF PeerMsg

(* Operations on the token keep it a token; it goes to some node. *)
LEMMA TokenOperations ==
    ASSUME NetworkAssumption, NEW tok \in Token, NEW q \in Proc
    PROVE  /\ request_queue_insert(tok, q) \in Token
           /\ request_queue_pop(tok) \in Token
           /\ FinalElement(tok) \in Node
<1> DEFINE queue == tok.pseudo_queue
<1>1. queue \in Seq(Proc) /\ Len(queue) \in Nat
      /\ \A i \in 1 .. Len(queue) : queue[i] \in Proc
  BY LenProperties, ElementOfSeq DEF Token
<1>2. <<q>> \o queue \in Seq(Proc)
  BY <1>1, ConcatProperties
<1>3. queue # <<>> => Len(queue) > 0
  BY <1>1, EmptySeq
<1>4. Front(queue) \in Seq(Proc)
  <2>1. \A i \in 1 .. (Len(queue) - 1) : queue[i] \in Proc
    BY <1>1
  <2>2. Len(queue) - 1 \in Int
    BY <1>1
  <2>3. SubSeq(queue, 1, Len(queue) - 1) \in Seq(Proc)
    BY <2>1, <2>2, SubSeqProperties
  <2>4. QED
    BY <2>3 DEF Front
<1>5. FinalElement(tok) \in Node
  BY <1>1, <1>3, PidFacts DEF FinalElement, Last
<1>6. \A s \in Seq(Proc) : [tok EXCEPT !.pseudo_queue = s] \in Token
  BY DEF Token
<1>7. request_queue_insert(tok, q) = [tok EXCEPT !.pseudo_queue = <<q>> \o queue]
  BY DEF request_queue_insert
<1>8. request_queue_pop(tok) =
          [tok EXCEPT !.pseudo_queue = IF queue = <<>> THEN queue ELSE Front(queue)]
  BY DEF request_queue_pop
<1>9. QED
  BY <1>1, <1>2, <1>4, <1>5, <1>6, <1>7, <1>8

(* Ending a stay in the critical region: the new token is a token. *)
LEMMA TokenAfterExit ==
    ASSUME NetworkAssumption, NEW tok \in Token, NEW p \in Proc,
           NEW waiting \in SUBSET Proc, NEW added \in [1 .. Cardinality(waiting) -> waiting]
    PROVE  LET served == CountServed(tok, p)
           IN  [served EXCEPT !.pseudo_queue = added \o @] \in Token
<1> DEFINE served == CountServed(tok, p)
<1>1. served \in Token
  <2> DEFINE LN == [tok.suzuki_LN EXCEPT ![p] = @ + 1]
  <2>1. LN \in [Proc -> Nat]
    BY DEF Token
  <2>2. served = [tok EXCEPT !.suzuki_LN = LN]
    BY DEF CountServed
  <2> HIDE DEF LN, served
  <2>3. QED
    BY <2>1, <2>2 DEF Token
<1>2. Cardinality(waiting) \in Nat
  <2>1. IsFiniteSet(Proc)
    BY FS_Interval DEF Proc, NetworkAssumption
  <2>2. QED
    BY <2>1, FS_Subset, FS_CardinalityType
<1>3. added \in Seq(Proc)
  <2>1. added \in [1 .. Cardinality(waiting) -> Proc]
    OBVIOUS
  <2>2. QED
    BY <1>2, <2>1, SeqDef
<1> HIDE DEF served
<1>4. served.pseudo_queue \in Seq(Proc)
  BY <1>1 DEF Token
<1>5. added \o served.pseudo_queue \in Seq(Proc)
  BY <1>3, <1>4, ConcatProperties
<1>6. [served EXCEPT !.pseudo_queue = added \o @] \in Token
  BY <1>1, <1>5 DEF Token
<1>7. QED
  BY <1>6 DEF served

-----------------------------------------------------------------------------
LEMMA InitOK == ASSUME Assumptions, Init PROVE IInv
<1>1. \A l \in Lane : net[l] = <<>> /\ Len(net[l]) = 0
  BY EmptySeq DEF Init, NetInit
<1>2. TypeOK
  <2>1. net \in [Lane -> Seq(PacketType)]
    BY DEF Init, NetInit
  <2>2. SupTypeOK
    BY DEF Init, SupInit, SupTypeOK, State
  <2>3. PeerTypeOK
    BY DEF Init, PeerInit, PeerTypeOK, State
  <2>4. my_token \in [Proc -> Token]
    BY DEF Init, NoToken, Token
  <2>5. QED
    BY <2>1, <2>2, <2>3, <2>4 DEF Init, TypeOK
<1>3. TokenUnique
  <2>1. NoneOf(net, TokenPacket) /\ AtMostOneOf(net, TokenPacket)
    BY <1>1 DEF NoneOf, AtMostOneOf
  <2>2. /\ i_have_token = [p \in Proc |-> p = 1]
        /\ fsm_state = [p \in Proc |-> "PS_IDLE"]
    BY DEF Init, PeerInit
  <2>3. \A p \in Proc : i_have_token[p] <=> p = 1
    BY <2>2
  <2>4. \A p \in Proc : fsm_state[p] # "PS_EXECUTING"
    BY <2>2
  <2>5. QED
    BY <2>1, <2>3, <2>4 DEF TokenUnique
<1>4. EventsMatchState
  BY DEF Init, PeerInit, EventsMatchState
<1>5. NoPeerFatal
  BY PidFacts DEF Assumptions, Init, SupInit, NoPeerFatal
<1>6. QED
  BY <1>2, <1>3, <1>4, <1>5 DEF IInv

(* A step that leaves the peers alone only moves packets. *)
LEMMA PeersUntouched ==
    ASSUME Assumptions, IInv, UNCHANGED <<peerVars, suzukiVars>>,
           net' \in Nets(PacketType), SupTypeOK',
           NoneOf(net, TokenPacket) => NoneOf(net', TokenPacket),
           AtMostOneOf(net, TokenPacket) => AtMostOneOf(net', TokenPacket),
           \A p \in Proc : exit_request'[p] = exit_request[p]
    PROVE  IInv'
<1>1. TypeOK'
  BY DEF IInv, TypeOK, PeerTypeOK, Nets, peerVars, suzukiVars
<1>2. TokenUnique'
  BY DEF IInv, TokenUnique, peerVars, suzukiVars
<1>3. EventsMatchState'
  BY DEF IInv, EventsMatchState, peerVars, suzukiVars
<1>4. NoPeerFatal'
  BY DEF IInv, NoPeerFatal
<1>5. QED
  BY <1>1, <1>2, <1>3, <1>4 DEF IInv

LEMMA SupNextOK ==
    ASSUME Assumptions, IInv, SupNext, UNCHANGED <<peerVars, suzukiVars>> PROVE IInv'
<1>1. net \in Nets(PacketType) /\ SupTypeOK
  BY DEF IInv, TypeOK, Nets
<1>2. /\ net' \in Nets(PacketType)
      /\ SupTypeOK'
      /\ NoneOf(net, TokenPacket) => NoneOf(net', TokenPacket)
      /\ AtMostOneOf(net, TokenPacket) => AtMostOneOf(net', TokenPacket)
      /\ \A p \in Proc : exit_request'[p] = exit_request[p]
  BY <1>1, SupPacketKind, SupervisorStep DEF Assumptions
<1>3. QED
  BY <1>2, PeersUntouched

LEMMA SendtoOK ==
    ASSUME Assumptions, IInv, NEW n \in Node, sendto(n), UNCHANGED <<supVars, exit_request>>,
           UNCHANGED <<peerVars, suzukiVars>>
    PROVE  IInv'
<1>1. net \in Nets(PacketType)
  BY DEF IInv, TypeOK, Nets
<1>2. \A pkt \in PacketType : pkt.dst \in Node
  BY PacketFields
<1>3. /\ net' \in Nets(PacketType)
      /\ NoneOf(net, TokenPacket) => NoneOf(net', TokenPacket)
      /\ AtMostOneOf(net, TokenPacket) => AtMostOneOf(net', TokenPacket)
  BY <1>1, <1>2, SendtoProperties
<1>4. SupTypeOK'
  BY DEF IInv, TypeOK, SupTypeOK, supVars
<1>5. QED
  BY <1>3, <1>4, PeersUntouched

LEMMA SupervisorNextOK == ASSUME Assumptions, IInv, SupervisorNext PROVE IInv'
<1>1. UNCHANGED <<peerVars, suzukiVars>>
  BY DEF SupervisorNext
<1>2. CASE SupNext
  BY <1>1, <1>2, SupNextOK
<1>3. CASE sendto(SUPERVISOR_PID) /\ UNCHANGED <<supVars, exit_request>>
  BY <1>1, <1>3, PidFacts, SendtoOK DEF Assumptions
<1>4. QED
  BY <1>2, <1>3 DEF SupervisorNext

-----------------------------------------------------------------------------
(* A peer's step leaves the supervisor's state well typed. *)
LEMMA SupKept ==
    ASSUME SupTypeOK, SupervisorUnchanged, UNCHANGED exit_request
    PROVE  SupTypeOK'
BY DEF SupTypeOK, SupervisorUnchanged, supVars

(* What every handler of a message starts from: the network without it. *)
LEMMA MessageTaken ==
    ASSUME Assumptions, IInv, NEW p \in Proc, NEW slot \in Receivable(p)
    PROVE  LET m   == dme_recv_msg(slot)
               pkt == PacketAt(slot)
           IN  /\ p \in Node
               /\ m \in Nets(PacketType)
               /\ pkt \in PacketType
               /\ NoneOf(net, TokenPacket) => NoneOf(m, TokenPacket) /\ pkt \notin TokenPacket
               /\ AtMostOneOf(m, TokenPacket)
               /\ pkt \in TokenPacket => NoneOf(m, TokenPacket)
<1>1. p \in Node
  BY PidFacts DEF Assumptions
<1>2. net \in Nets(PacketType) /\ AtMostOneOf(net, TokenPacket)
  BY DEF IInv, TypeOK, TokenUnique, Nets
<1>3. QED
  BY <1>1, <1>2, ReceiveProperties

(* Informing the supervisor adds no token. *)
LEMMA SupervisorInformed ==
    ASSUME Assumptions, NEW p \in Proc, NEW t \in {"ENTERED", "EXITED"},
           NEW n \in Nets(PacketType)
    PROVE  LET m == dme_send_msg(n, p, SUPERVISOR_PID, [type |-> t])
           IN  /\ m \in Nets(PacketType)
               /\ NoneOf(n, TokenPacket) => NoneOf(m, TokenPacket)
               /\ AtMostOneOf(n, TokenPacket) => AtMostOneOf(m, TokenPacket)
<1>1. p \in Node /\ SUPERVISOR_PID \in Node
  BY PidFacts DEF Assumptions
<1>2. Packet(p, SUPERVISOR_PID, [type |-> t]) \in SupPackets
  BY <1>1, SupPacketFacts
<1>3. Packet(p, SUPERVISOR_PID, [type |-> t]) \in PacketType
      /\ Packet(p, SUPERVISOR_PID, [type |-> t]) \notin TokenPacket
  BY <1>2, SupPacketKind
<1>4. QED
  BY <1>1, <1>3, SendProperties

LEMMA NotedOK ==
    ASSUME Assumptions, IInv, NEW p \in Proc, NEW slot \in Receivable(p),
           SupervisorMsgNoted(p, slot), UNCHANGED suzukiVars, SupervisorUnchanged
    PROVE  IInv'
<1>1. /\ net' \in Nets(PacketType)
      /\ NoneOf(net, TokenPacket) => NoneOf(net', TokenPacket)
      /\ AtMostOneOf(net, TokenPacket) => AtMostOneOf(net', TokenPacket)
  BY MessageTaken DEF SupervisorMsgNoted
<1>2. SupTypeOK' /\ UNCHANGED peerVars
      /\ \A q \in Proc : exit_request'[q] = exit_request[q]
  BY SupKept DEF IInv, TypeOK, SupervisorMsgNoted
<1>3. QED
  BY <1>1, <1>2, PeersUntouched

LEMMA WantOK ==
    ASSUME Assumptions, IInv, NEW p \in Proc, NEW slot \in Receivable(p),
           process_ev_want_cr(p, slot), SupervisorUnchanged
    PROVE  IInv'
<1> DEFINE m == dme_recv_msg(slot)
<1>1. /\ m \in Nets(PacketType)
      /\ AtMostOneOf(m, TokenPacket)
      /\ NoneOf(net, TokenPacket) => NoneOf(m, TokenPacket)
      /\ p \in Node
  BY MessageTaken
<1>2. /\ fsm_state[p] = "PS_IDLE"
      /\ fsm_state' = [fsm_state EXCEPT ![p] = "PS_PENDING"]
      /\ suzuki_RN' = [suzuki_RN EXCEPT ![p][p] = @ + 1]
      /\ UNCHANGED <<exited_due, exit_request, i_have_token, my_token>>
  BY DEF process_ev_want_cr, IsWant
<1>3. /\ fsm_state \in [Proc -> State]
      /\ exited_due \in [Proc -> Nat]
      /\ suzuki_RN \in [Proc -> [Proc -> Nat]]
      /\ entered_queued \in [Proc -> Nat]
  BY DEF IInv, TypeOK, PeerTypeOK
<1>4. entered_queued[p] = 0
  BY <1>2 DEF IInv, EventsMatchState
<1>5. /\ net' \in Nets(PacketType)
      /\ NoneOf(net, TokenPacket) => NoneOf(net', TokenPacket)
      /\ AtMostOneOf(net', TokenPacket)
      /\ entered_queued' \in [Proc -> Nat]
      /\ \A q \in Proc : q # p => entered_queued'[q] = entered_queued[q]
      /\ entered_queued'[p] \in {0, 1}
      /\ entered_queued'[p] = 1 => i_have_token[p]
  <2>1. CASE i_have_token[p]
    <3>1. net' = m /\ entered_queued' = [entered_queued EXCEPT ![p] = @ + 1]
      BY <2>1 DEF process_ev_want_cr
    <3>2. QED
      BY <1>1, <1>3, <1>4, <2>1, <3>1
  <2>2. CASE ~i_have_token[p]
    <3> DEFINE req == REQUEST(p, suzuki_RN[p][p] + 1)
    <3>1. net' = dme_broadcast_msg(m, p, req) /\ entered_queued' = entered_queued
      BY <2>2 DEF process_ev_want_cr
    <3>2. suzuki_RN[p][p] + 1 \in Nat
      BY <1>3
    <3>3. \A dst \in Node : Packet(p, dst, req) \in PacketType
                            /\ Packet(p, dst, req) \notin TokenPacket
      BY <3>2, RequestPacketKind DEF Assumptions
    <3>4. BroadcastOrder(p) \in Seq(Node)
      BY <1>1, BroadcastOrderType DEF Assumptions
    <3> HIDE DEF req, m
    <3>5. /\ net' \in Nets(PacketType)
          /\ NoneOf(m, TokenPacket) => NoneOf(net', TokenPacket)
          /\ AtMostOneOf(m, TokenPacket) => AtMostOneOf(net', TokenPacket)
      BY <1>1, <3>1, <3>3, <3>4, SendToEachProperties DEF dme_broadcast_msg
    <3>6. QED
      BY <1>1, <1>3, <1>4, <3>1, <3>5
  <2>3. QED
    BY <2>1, <2>2
<1>6. fsm_state' \in [Proc -> State] /\ fsm_state'[p] = "PS_PENDING"
      /\ \A q \in Proc : q # p => fsm_state'[q] = fsm_state[q]
  BY <1>2, <1>3 DEF State
<1>7. suzuki_RN' \in [Proc -> [Proc -> Nat]]
  BY <1>2, <1>3
<1>8. TypeOK'
  BY <1>2, <1>5, <1>6, <1>7, SupKept DEF IInv, TypeOK, PeerTypeOK, Nets
<1>9. TokenUnique'
  BY <1>2, <1>5, <1>6 DEF IInv, TokenUnique
<1>10. EventsMatchState'
  BY <1>2, <1>5, <1>6 DEF IInv, EventsMatchState
<1>11. NoPeerFatal'
  BY <1>2 DEF IInv, NoPeerFatal
<1>12. QED
  BY <1>8, <1>9, <1>10, <1>11 DEF IInv

(* Giving the token away: nobody has it, and it is the only one on its way. *)
LEMMA TokenGiven ==
    ASSUME Assumptions, IInv, NEW p \in Proc, NEW tok \in Token,
           NEW n \in Nets(PacketType), NoneOf(n, TokenPacket),
           i_have_token[p], SendToken(p, tok, n)
    PROVE  /\ net' \in Nets(PacketType)
           /\ AtMostOneOf(net', TokenPacket)
           /\ i_have_token' \in [Proc -> BOOLEAN]
           /\ \A q \in Proc : ~i_have_token'[q]
           /\ my_token' \in [Proc -> Token]
<1>1. /\ i_have_token \in [Proc -> BOOLEAN]
      /\ my_token \in [Proc -> Token]
      /\ \A q \in Proc : i_have_token[q] => q = p
  BY DEF IInv, TypeOK, TokenUnique
<1>2. /\ i_have_token' = [i_have_token EXCEPT ![p] = FALSE]
      /\ my_token' = [my_token EXCEPT ![p] = NoToken]
      /\ net' = dme_send_msg(n, p, FinalElement(tok), REPLY(p, request_queue_pop(tok)))
  BY DEF SendToken
<1>3. /\ net' \in Nets(PacketType)
      /\ AtMostOneOf(net', TokenPacket)
  <2>1. p \in Node /\ request_queue_pop(tok) \in Token
    BY PidFacts, TokenOperations DEF Assumptions
  <2>2. FinalElement(tok) \in Node =>
            Packet(p, FinalElement(tok), REPLY(p, request_queue_pop(tok))) \in PacketType
    BY <2>1, TokenPacketKind DEF Assumptions
  <2>3. QED
    BY <1>2, <2>1, <2>2, SendProperties
<1>4. i_have_token' \in [Proc -> BOOLEAN] /\ \A q \in Proc : ~i_have_token'[q]
  BY <1>1, <1>2
<1>5. NoToken \in Token
  BY DEF NoToken, Token
<1>6. my_token' \in [Proc -> Token]
  BY <1>1, <1>2, <1>5
<1>7. QED
  BY <1>3, <1>4, <1>6

(* A request only raises a request number. *)
LEMMA RequestNumbered ==
    ASSUME IInv, NEW p \in Proc, NEW pid \in Proc, NEW req_no \in Nat
    PROVE  [suzuki_RN EXCEPT ![p][pid] = LargerOf(@, req_no)] \in [Proc -> [Proc -> Nat]]
<1>1. suzuki_RN \in [Proc -> [Proc -> Nat]]
  BY DEF IInv, TypeOK
<1>2. LargerOf(suzuki_RN[p][pid], req_no) \in Nat
  BY <1>1 DEF LargerOf
<1>3. QED
  BY <1>1, <1>2

LEMMA RequestNotedOK ==
    ASSUME Assumptions, IInv, NEW p \in Proc, NEW slot \in Receivable(p),
           RequestNoted(p, slot), SupervisorUnchanged
    PROVE  IInv'
<1> DEFINE msg == PacketAt(slot).msg
<1>1. /\ net' \in Nets(PacketType)
      /\ AtMostOneOf(net', TokenPacket)
      /\ NoneOf(net, TokenPacket) => NoneOf(net', TokenPacket)
  BY MessageTaken DEF RequestNoted
<1>2. msg.pid \in Proc /\ msg.req_no \in Nat
  BY MessageTaken, PacketFields DEF RequestNoted
<1>3. /\ suzuki_RN' = [suzuki_RN EXCEPT ![p][msg.pid] = LargerOf(@, msg.req_no)]
      /\ UNCHANGED <<peerVars, exit_request, i_have_token, my_token, entered_queued>>
  BY DEF RequestNoted
<1>4. suzuki_RN' \in [Proc -> [Proc -> Nat]]
  BY <1>2, <1>3, RequestNumbered
<1>5. TypeOK'
  BY <1>1, <1>3, <1>4, SupKept DEF IInv, TypeOK, PeerTypeOK, Nets, peerVars
<1>6. TokenUnique'
  BY <1>1, <1>3 DEF IInv, TokenUnique, peerVars
<1>7. EventsMatchState'
  BY <1>3 DEF IInv, EventsMatchState, peerVars
<1>8. NoPeerFatal'
  BY <1>3 DEF IInv, NoPeerFatal
<1>9. QED
  BY <1>5, <1>6, <1>7, <1>8 DEF IInv

LEMMA RequestWithTokenOK ==
    ASSUME Assumptions, IInv, NEW p \in Proc, NEW slot \in Receivable(p),
           RequestWithToken(p, slot), SupervisorUnchanged
    PROVE  IInv'
<1> DEFINE msg == PacketAt(slot).msg
           m   == dme_recv_msg(slot)
           rn  == LargerOf(suzuki_RN[p][msg.pid], msg.req_no)
           tok == IF Eligible(my_token[p], rn, msg.pid)
                  THEN request_queue_insert(my_token[p], msg.pid)
                  ELSE my_token[p]
<1>1. /\ fsm_state[p] = "PS_IDLE"
      /\ i_have_token[p]
      /\ msg.type = "REQUEST"
      /\ suzuki_RN' = [suzuki_RN EXCEPT ![p][msg.pid] = rn]
      /\ SendToken(p, tok, m)
      /\ UNCHANGED <<peerVars, exit_request, entered_queued>>
  BY DEF RequestWithToken
<1>2. msg.pid \in Proc /\ msg.req_no \in Nat
  BY <1>1, MessageTaken, PacketFields
<1>3. m \in Nets(PacketType) /\ NoneOf(m, TokenPacket)
  BY <1>1, MessageTaken DEF IInv, TokenUnique
<1>4. tok \in Token
  <2>1. my_token[p] \in Token
    BY DEF IInv, TypeOK
  <2>2. request_queue_insert(my_token[p], msg.pid) \in Token
    BY <1>2, <2>1, TokenOperations DEF Assumptions
  <2>3. QED
    BY <2>1, <2>2
<1>5. suzuki_RN' \in [Proc -> [Proc -> Nat]]
  BY <1>1, <1>2, RequestNumbered
<1> HIDE DEF tok, m, rn
<1>6. /\ net' \in Nets(PacketType)
      /\ AtMostOneOf(net', TokenPacket)
      /\ i_have_token' \in [Proc -> BOOLEAN]
      /\ \A q \in Proc : ~i_have_token'[q]
      /\ my_token' \in [Proc -> Token]
  BY <1>1, <1>3, <1>4, TokenGiven
<1>7. \A q \in Proc : q # p => ~i_have_token[q]
  BY <1>1 DEF IInv, TokenUnique
<1>8. \A q \in Proc : fsm_state[q] # "PS_EXECUTING"
  BY <1>1, <1>7 DEF IInv, TokenUnique
<1>9. \A q \in Proc : entered_queued[q] # 1
  BY <1>1, <1>7 DEF IInv, EventsMatchState
<1>10. TypeOK'
  BY <1>1, <1>5, <1>6, SupKept DEF IInv, TypeOK, PeerTypeOK, Nets, peerVars
<1>11. TokenUnique'
  BY <1>1, <1>6, <1>8 DEF TokenUnique, peerVars
<1>12. EventsMatchState'
  BY <1>1, <1>9 DEF IInv, EventsMatchState, peerVars
<1>13. NoPeerFatal'
  BY <1>1 DEF IInv, NoPeerFatal
<1>14. QED
  BY <1>10, <1>11, <1>12, <1>13 DEF IInv

(***************************************************************************)
(* Entering the critical region, in front of a network n without tokens    *)
(* and with no other peer holding one.                                     *)
(***************************************************************************)
LEMMA Entered ==
    ASSUME Assumptions, IInv, NEW p \in Proc, NEW n \in Nets(PacketType),
           fsm_state[p] = "PS_PENDING", NoneOf(n, TokenPacket),
           process_ev_entered_cr(p, fsm_state[p], n), SupervisorUnchanged,
           \A q \in Proc : q # p => ~i_have_token[q],
           i_have_token' \in [Proc -> BOOLEAN],
           i_have_token'[p],
           \A q \in Proc : q # p => i_have_token'[q] = i_have_token[q],
           my_token' \in [Proc -> Token],
           UNCHANGED suzuki_RN,
           entered_queued' \in [Proc -> Nat],
           entered_queued'[p] = 0,
           \A q \in Proc : q # p => entered_queued'[q] = entered_queued[q]
    PROVE  IInv'
<1>1. /\ net' = dme_send_msg(n, p, SUPERVISOR_PID, [type |-> "ENTERED"])
      /\ fsm_state' = [fsm_state EXCEPT ![p] = "PS_EXECUTING"]
      /\ exited_due' = [exited_due EXCEPT ![p] = @ + 1]
      /\ UNCHANGED exit_request
  BY DEF process_ev_entered_cr
<1>2. /\ net' \in Nets(PacketType)
      /\ NoneOf(net', TokenPacket)
  BY <1>1, SupervisorInformed
<1>3. AtMostOneOf(net', TokenPacket)
  BY <1>2 DEF NoneOf, AtMostOneOf
<1>4. fsm_state \in [Proc -> State] /\ exited_due \in [Proc -> Nat] /\ exited_due[p] = 0
  BY DEF IInv, TypeOK, PeerTypeOK, EventsMatchState
<1>5. /\ fsm_state' \in [Proc -> State]
      /\ fsm_state'[p] = "PS_EXECUTING"
      /\ \A q \in Proc : q # p => fsm_state'[q] = fsm_state[q]
  BY <1>1, <1>4 DEF State
<1>6. /\ exited_due' \in [Proc -> Nat]
      /\ exited_due'[p] = 1
      /\ \A q \in Proc : q # p => exited_due'[q] = exited_due[q]
  BY <1>1, <1>4
<1>7. TypeOK'
  BY <1>1, <1>2, <1>5, <1>6, SupKept DEF IInv, TypeOK, PeerTypeOK, Nets
<1>8. \A q \in Proc : q # p => fsm_state[q] # "PS_EXECUTING"
  BY DEF IInv, TokenUnique
<1>9. TokenUnique'
  BY <1>2, <1>3, <1>5, <1>8 DEF TokenUnique
<1>10. EventsMatchState'
  BY <1>5, <1>6 DEF IInv, EventsMatchState
<1>11. NoPeerFatal'
  BY <1>1 DEF IInv, NoPeerFatal
<1>12. QED
  BY <1>7, <1>9, <1>10, <1>11 DEF IInv

LEMMA TokenReceivedOK ==
    ASSUME Assumptions, IInv, NEW p \in Proc, NEW slot \in Receivable(p),
           TokenReceived(p, slot), SupervisorUnchanged
    PROVE  IInv'
<1> DEFINE m == dme_recv_msg(slot)
           tok == PacketAt(slot).msg.token
<1>1. PacketAt(slot).msg.type = "REPLY" /\ UNCHANGED <<suzuki_RN, entered_queued>>
  BY DEF TokenReceived
<1>2. PacketAt(slot) \in TokenPacket /\ tok \in Token
  BY <1>1, MessageTaken, PacketFields
<1>3. /\ m \in Nets(PacketType)
      /\ NoneOf(m, TokenPacket)
      /\ AtMostOneOf(m, TokenPacket)
      /\ ~NoneOf(net, TokenPacket)
  BY <1>2, MessageTaken
<1>4. \A q \in Proc : ~i_have_token[q]
  BY <1>3 DEF IInv, TokenUnique
<1> HIDE DEF m, tok
<1>5. CASE fsm_state[p] = "PS_PENDING"
  <2>1. /\ i_have_token' = [i_have_token EXCEPT ![p] = TRUE]
        /\ my_token' = [my_token EXCEPT ![p] = tok]
        /\ process_ev_entered_cr(p, fsm_state[p], m)
    BY <1>5 DEF TokenReceived, m, tok
  <2>2. i_have_token \in [Proc -> BOOLEAN] /\ my_token \in [Proc -> Token]
        /\ entered_queued \in [Proc -> Nat]
    BY DEF IInv, TypeOK
  <2>3. /\ i_have_token' \in [Proc -> BOOLEAN]
        /\ i_have_token'[p]
        /\ \A q \in Proc : q # p => i_have_token'[q] = i_have_token[q]
    BY <2>1, <2>2
  <2>4. my_token' \in [Proc -> Token]
    BY <1>2, <2>1, <2>2
  <2>5. entered_queued[p] = 0
    BY <1>4 DEF IInv, EventsMatchState
  <2>6. QED
    BY <1>1, <1>3, <1>4, <1>5, <2>1, <2>2, <2>3, <2>4, <2>5, Entered
<1>6. CASE fsm_state[p] # "PS_PENDING"
  <2>1. net' = m /\ UNCHANGED <<peerVars, exit_request, i_have_token, my_token>>
    BY <1>6 DEF TokenReceived, m
  <2>2. SupTypeOK'
    BY <2>1, SupKept DEF IInv, TypeOK
  <2>3. QED
    BY <1>1, <1>3, <2>1, <2>2, PeersUntouched DEF suzukiVars
<1>7. QED
  BY <1>5, <1>6

LEMMA EnteredDeliveredOK ==
    ASSUME Assumptions, IInv, NEW p \in Proc, EnteredDelivered(p), SupervisorUnchanged
    PROVE  IInv'
<1>1. /\ entered_queued[p] > 0
      /\ entered_queued' = [entered_queued EXCEPT ![p] = @ - 1]
      /\ process_ev_entered_cr(p, fsm_state[p], net)
      /\ UNCHANGED <<suzuki_RN, i_have_token, my_token>>
  BY DEF EnteredDelivered
<1>2. entered_queued \in [Proc -> Nat] /\ entered_queued[p] \in {0, 1}
  BY DEF IInv, TypeOK, EventsMatchState
<1>3. entered_queued[p] = 1
  BY <1>1, <1>2
<1>4. fsm_state[p] = "PS_PENDING" /\ i_have_token[p]
  BY <1>3 DEF IInv, EventsMatchState
<1>5. /\ entered_queued' \in [Proc -> Nat]
      /\ entered_queued'[p] = 0
      /\ \A q \in Proc : q # p => entered_queued'[q] = entered_queued[q]
  BY <1>1, <1>2, <1>3
<1>6. /\ net \in Nets(PacketType)
      /\ NoneOf(net, TokenPacket)
      /\ \A q \in Proc : q # p => ~i_have_token[q]
      /\ i_have_token \in [Proc -> BOOLEAN]
      /\ my_token \in [Proc -> Token]
  BY <1>4 DEF IInv, TypeOK, TokenUnique, Nets
<1>7. QED
  BY <1>1, <1>4, <1>5, <1>6, Entered

LEMMA ExitedOK ==
    ASSUME Assumptions, IInv, NEW p \in Proc, process_ev_exited_cr(p), SupervisorUnchanged
    PROVE  IInv'
<1>1. exited_due[p] > 0 /\ UNCHANGED <<suzuki_RN, entered_queued>>
  BY DEF process_ev_exited_cr, ExitedDue
<1>2. fsm_state[p] = "PS_EXECUTING" /\ exited_due[p] = 1
  BY <1>1 DEF IInv, EventsMatchState
<1> DEFINE served == CountServed(my_token[p], p)
           waiting == {q \in Proc : Eligible(served, suzuki_RN[p][q], q)}
           Requeued(added) == [served EXCEPT !.pseudo_queue = added \o @]
<1>3. PICK added \in [1 .. Cardinality(waiting) -> waiting] :
         IF Requeued(added).pseudo_queue # <<>>
         THEN SendToken(p, Requeued(added), InformExited(p))
         ELSE /\ net' = InformExited(p)
              /\ my_token' = [my_token EXCEPT ![p] = Requeued(added)]
              /\ UNCHANGED i_have_token
  BY <1>2 DEF process_ev_exited_cr
<1>4. /\ fsm_state' = [fsm_state EXCEPT ![p] = "PS_IDLE"]
      /\ exited_due' = [exited_due EXCEPT ![p] = @ - 1]
      /\ UNCHANGED exit_request
  BY <1>2 DEF process_ev_exited_cr, LeaveCriticalRegion
<1>5. /\ fsm_state \in [Proc -> State]
      /\ exited_due \in [Proc -> Nat]
      /\ my_token \in [Proc -> Token]
      /\ i_have_token \in [Proc -> BOOLEAN]
  BY DEF IInv, TypeOK, PeerTypeOK
<1>6. Requeued(added) \in Token
  <2>1. my_token[p] \in Token
    BY <1>5
  <2>2. waiting \in SUBSET Proc
    OBVIOUS
  <2> HIDE DEF waiting
  <2>3. QED
    BY <2>1, <2>2, TokenAfterExit DEF Assumptions
<1> DEFINE tok == Requeued(added)
<1> HIDE DEF tok, waiting, served, Requeued
<1>7. /\ i_have_token[p]
      /\ \A q \in Proc : q # p => ~i_have_token[q] /\ fsm_state[q] # "PS_EXECUTING"
  BY <1>2 DEF IInv, TokenUnique
<1>8. InformExited(p) \in Nets(PacketType) /\ NoneOf(InformExited(p), TokenPacket)
  <2>1. net \in Nets(PacketType) /\ NoneOf(net, TokenPacket)
    BY <1>7 DEF IInv, TypeOK, TokenUnique, Nets
  <2>2. QED
    BY <2>1, SupervisorInformed DEF InformExited
<1>9. /\ net' \in Nets(PacketType)
      /\ AtMostOneOf(net', TokenPacket)
      /\ i_have_token' \in [Proc -> BOOLEAN]
      /\ my_token' \in [Proc -> Token]
      /\ \A q \in Proc : q # p => ~i_have_token'[q]
      /\ i_have_token'[p] => NoneOf(net', TokenPacket)
  <2>1. CASE tok.pseudo_queue # <<>>
    <3>1. SendToken(p, tok, InformExited(p))
      BY <1>3, <2>1 DEF tok
    <3>2. tok \in Token
      BY <1>6 DEF tok
    <3>3. QED
      BY <1>7, <1>8, <3>1, <3>2, TokenGiven
  <2>2. CASE tok.pseudo_queue = <<>>
    <3>1. /\ net' = InformExited(p)
          /\ my_token' = [my_token EXCEPT ![p] = tok]
          /\ i_have_token' = i_have_token
      BY <1>3, <2>2 DEF tok
    <3>2. AtMostOneOf(net', TokenPacket)
      BY <1>8, <3>1 DEF NoneOf, AtMostOneOf
    <3>3. my_token' \in [Proc -> Token]
      BY <1>5, <1>6, <3>1 DEF tok
    <3>4. QED
      BY <1>5, <1>7, <1>8, <3>1, <3>2, <3>3
  <2>3. QED
    BY <2>1, <2>2
<1>10. /\ fsm_state' \in [Proc -> State]
       /\ fsm_state'[p] = "PS_IDLE"
       /\ \A q \in Proc : q # p => fsm_state'[q] = fsm_state[q]
  BY <1>4, <1>5 DEF State
<1>11. /\ exited_due' \in [Proc -> Nat]
       /\ exited_due'[p] = 0
       /\ \A q \in Proc : q # p => exited_due'[q] = exited_due[q]
  BY <1>2, <1>4, <1>5
<1>12. \A q \in Proc : entered_queued[q] # 1
  BY <1>2, <1>7 DEF IInv, EventsMatchState
<1>13. TypeOK'
  BY <1>1, <1>4, <1>9, <1>10, <1>11, SupKept DEF IInv, TypeOK, PeerTypeOK, Nets
<1>14. TokenUnique'
  BY <1>7, <1>9, <1>10 DEF TokenUnique
<1>15. EventsMatchState'
  BY <1>1, <1>10, <1>11, <1>12 DEF IInv, EventsMatchState
<1>16. NoPeerFatal'
  BY <1>4 DEF IInv, NoPeerFatal
<1>17. QED
  BY <1>13, <1>14, <1>15, <1>16 DEF IInv

-----------------------------------------------------------------------------
(* Every step keeps the inductive invariant: one case per action. *)
LEMMA NextOK == ASSUME Assumptions, IInv, [Next]_vars PROVE IInv'
<1>1. CASE SupervisorNext
  BY <1>1, SupervisorNextOK
<1>2. ASSUME NEW p \in Proc, PeerNext(p) PROVE IInv'
  <2>1. SupervisorUnchanged
    BY <1>2 DEF PeerNext
  <2>2. CASE handle_message(p)
    <3>1. PICK slot \in Receivable(p) :
             \/ SupervisorMsgNoted(p, slot) /\ UNCHANGED suzukiVars
             \/ process_ev_want_cr(p, slot)
             \/ RequestWithToken(p, slot)
             \/ RequestNoted(p, slot)
             \/ TokenReceived(p, slot)
      BY <2>2 DEF handle_message
    <3>2. QED
      BY <2>1, <3>1, NotedOK, WantOK, RequestWithTokenOK, RequestNotedOK, TokenReceivedOK
  <2>3. CASE EnteredDelivered(p)
    BY <2>1, <2>3, EnteredDeliveredOK
  <2>4. CASE process_ev_exited_cr(p)
    BY <2>1, <2>4, ExitedOK
  <2>5. CASE sendto(p) /\ UNCHANGED <<exit_request, peerVars, suzukiVars>>
    <3>1. p \in Node
      BY PidFacts DEF Assumptions
    <3>2. QED
      BY <2>1, <2>5, <3>1, SendtoOK DEF SupervisorUnchanged
  <2>6. QED
    BY <1>2, <2>2, <2>3, <2>4, <2>5 DEF PeerNext
<1>3. CASE UNCHANGED vars
  <2>1. UNCHANGED <<net, supVars, exit_request, peerVars, suzukiVars>>
    BY <1>3 DEF vars
  <2>2. SupTypeOK' /\ net' \in Nets(PacketType)
    BY <2>1 DEF IInv, TypeOK, SupTypeOK, supVars, Nets
  <2>3. QED
    BY <2>1, <2>2, PeersUntouched
<1>4. QED
  BY <1>1, <1>2, <1>3 DEF Next

LEMMA Assumed == Assumptions
BY NetworkAssumption, SupervisorAssumption, SuzukiAssumption DEF Assumptions

LEMMA Invariance == Spec => []IInv
<1>1. Init => IInv
  BY Assumed, InitOK
<1>2. IInv /\ [Next]_vars => IInv'
  BY Assumed, NextOK
<1>3. QED
  BY <1>1, <1>2, PTL DEF Spec

(***************************************************************************)
(* The variables of suzuki.c, the supervisor and the network keep their    *)
(* types: no packet carries anything but a message of the program, no      *)
(* queue holds anything but a peer, no event counter becomes negative.     *)
(***************************************************************************)
THEOREM TypeCorrect == Spec => []TypeOK
<1>1. IInv => TypeOK
  BY DEF IInv
<1>2. QED
  BY <1>1, Invariance, PTL

(***************************************************************************)
(* suzuki.c never has two tokens, whatever the number of peers and whether *)
(* or not packets overtake each other: setting and clearing i_have_token   *)
(* and my_token agrees with what is on its way.                            *)
(***************************************************************************)
THEOREM OneToken == Spec => []TokenUnique
<1>1. IInv => TokenUnique
  BY DEF IInv
<1>2. QED
  BY <1>1, Invariance, PTL

(***************************************************************************)
(* At most one peer running suzuki.c is in its critical region.            *)
(***************************************************************************)
THEOREM Exclusion == Spec => []MutualExclusion
<1>1. IInv => MutualExclusion
  BY DEF IInv, TokenUnique, MutualExclusion
<1>2. QED
  BY <1>1, Invariance, PTL

(***************************************************************************)
(* A timer or a queued event of suzuki.c always finds its peer in the      *)
(* state it was scheduled in, whatever messages were handled in between.   *)
(***************************************************************************)
THEOREM EventsInTime == Spec => []EventsMatchState
<1>1. IInv => EventsMatchState
  BY DEF IInv
<1>2. QED
  BY <1>1, Invariance, PTL

(***************************************************************************)
(* No handler of suzuki.c returns ERR_FATAL: the peers stay in their event *)
(* loops.                                                                  *)
(***************************************************************************)
THEOREM NeverFatal == Spec => []NoPeerFatal
<1>1. IInv => NoPeerFatal
  BY DEF IInv
<1>2. QED
  BY <1>1, Invariance, PTL

-----------------------------------------------------------------------------
(* Entering is an Enter step of Mutex: after it the token is here. *)
LEMMA EnterStep ==
    ASSUME IInv, IInv', NEW p \in Proc, NEW n, process_ev_entered_cr(p, fsm_state[p], n)
    PROVE  Abstract!Enter(p)
<1>1. ~exit_request'[p]
  BY DEF IInv, NoPeerFatal
<1>2. fsm_state[p] = "PS_PENDING"
  <2>1. SUFFICES ASSUME fsm_state[p] # "PS_PENDING" PROVE FALSE
    OBVIOUS
  <2>2. exit_request' = [exit_request EXCEPT ![p] = TRUE]
    BY <2>1 DEF process_ev_entered_cr, Fatal
  <2>3. exit_request \in [Node -> BOOLEAN] /\ p \in Node
    BY Assumed, PidFacts DEF IInv, TypeOK, SupTypeOK, Assumptions
  <2>4. QED
    BY <1>1, <2>2, <2>3
<1>3. fsm_state' = [fsm_state EXCEPT ![p] = "PS_EXECUTING"]
  BY <1>2 DEF process_ev_entered_cr
<1>4. fsm_state \in [Proc -> State]
  BY DEF IInv, TypeOK, PeerTypeOK
<1>5. fsm_state'[p] = "PS_EXECUTING"
  BY <1>3, <1>4
<1>6. ASSUME NEW q \in Proc, fsm_state[q] = "PS_EXECUTING" PROVE FALSE
  <2>1. q # p /\ fsm_state'[q] = "PS_EXECUTING"
    BY <1>2, <1>3, <1>4, <1>6
  <2>2. i_have_token'[p] /\ i_have_token'[q]
    BY <1>5, <2>1 DEF IInv, TokenUnique
  <2>3. QED
    BY <2>1, <2>2 DEF IInv, TokenUnique
<1>7. QED
  BY <1>2, <1>3, <1>6 DEF Abstract!Enter

LEMMA AbstractStep ==
    ASSUME IInv, IInv', [Next]_vars
    PROVE  [Abstract!Next]_fsm_state
<1>1. CASE SupervisorNext
  BY <1>1 DEF SupervisorNext, peerVars
<1>2. ASSUME NEW p \in Proc, PeerNext(p) PROVE [Abstract!Next]_fsm_state
  <2>1. CASE handle_message(p)
    <3>1. PICK slot \in Receivable(p) :
             \/ SupervisorMsgNoted(p, slot) /\ UNCHANGED suzukiVars
             \/ process_ev_want_cr(p, slot)
             \/ RequestWithToken(p, slot)
             \/ RequestNoted(p, slot)
             \/ TokenReceived(p, slot)
      BY <2>1 DEF handle_message
    <3>2. CASE SupervisorMsgNoted(p, slot) \/ RequestWithToken(p, slot) \/ RequestNoted(p, slot)
      BY <3>2 DEF SupervisorMsgNoted, RequestWithToken, RequestNoted, peerVars
    <3>3. CASE process_ev_want_cr(p, slot)
      <4>1. Abstract!Want(p)
        BY <3>3 DEF process_ev_want_cr, IsWant, Abstract!Want
      <4>2. QED
        BY <4>1 DEF Abstract!Next
    <3>4. CASE TokenReceived(p, slot)
      <4>1. CASE fsm_state[p] = "PS_PENDING"
        BY <3>4, <4>1, EnterStep DEF TokenReceived, Abstract!Next
      <4>2. CASE fsm_state[p] # "PS_PENDING"
        BY <3>4, <4>2 DEF TokenReceived, peerVars
      <4>3. QED
        BY <4>1, <4>2
    <3>5. QED
      BY <3>1, <3>2, <3>3, <3>4
  <2>2. CASE EnteredDelivered(p)
    BY <2>2, EnterStep DEF EnteredDelivered, Abstract!Next
  <2>3. CASE process_ev_exited_cr(p)
    <3>1. fsm_state[p] = "PS_EXECUTING"
      <4>1. exited_due[p] > 0
        BY <2>3 DEF process_ev_exited_cr, ExitedDue
      <4>2. QED
        BY <4>1 DEF IInv, EventsMatchState
    <3>2. fsm_state' = [fsm_state EXCEPT ![p] = "PS_IDLE"]
      BY <2>3, <3>1 DEF process_ev_exited_cr, LeaveCriticalRegion
    <3>3. Abstract!Exit(p)
      BY <3>1, <3>2 DEF Abstract!Exit
    <3>4. QED
      BY <3>3 DEF Abstract!Next
  <2>4. CASE sendto(p) /\ UNCHANGED <<exit_request, peerVars, suzukiVars>>
    BY <2>4 DEF peerVars
  <2>5. QED
    BY <1>2, <2>1, <2>2, <2>3, <2>4 DEF PeerNext
<1>3. CASE UNCHANGED vars
  BY <1>3 DEF vars, peerVars
<1>4. QED
  BY <1>1, <1>2, <1>3 DEF Next

(***************************************************************************)
(* suzuki.c implements Mutex: every step of a peer is a request, an entry  *)
(* into a free critical region, an exit, or leaves its FSM state alone.    *)
(***************************************************************************)
THEOREM Implementation == Spec => MutexSpec
<1>1. Init => Abstract!Init
  BY DEF Init, PeerInit, Abstract!Init
<1>2. IInv /\ IInv' /\ [Next]_vars => [Abstract!Next]_fsm_state
  BY AbstractStep
<1>3. QED
  BY <1>1, <1>2, Invariance, PTL DEF Spec, MutexSpec, Abstract!Spec

-----------------------------------------------------------------------------
(***************************************************************************)
(* Both need each other and more: that no request number on its way, or    *)
(* noted anywhere, is ahead of its sender's own; that nobody is twice in   *)
(* the queue, so that the one the token goes to leaves it; and that a peer *)
(* only receives what is addressed to it.  A token is Good, in a state     *)
(* with request numbers rn and FSM states st, if what it carries is right. *)
(***************************************************************************)

(* A process in the protocol is owed one more service. *)
Owed(st, q) == IF st[q] = "PS_IDLE" THEN 0 ELSE 1

Counts(tok, rn, st) == \A q \in Proc : rn[q][q] = tok.suzuki_LN[q] + Owed(st, q)

Good(tok, rn, st) ==
    /\ tok \in Token
    /\ Counts(tok, rn, st)
    /\ OneEach(tok.pseudo_queue)
    /\ \A q \in ToSet(tok.pseudo_queue) : st[q] = "PS_PENDING"

GoodRequest(pkt, rn) ==
    pkt.msg.type = "REQUEST" => pkt.msg.req_no <= rn[pkt.msg.pid][pkt.msg.pid]

GoodReply(pkt, rn, st) ==
    pkt.msg.type = "REPLY" =>
        /\ Good(pkt.msg.token, rn, st)
        /\ pkt.dst \in Proc => /\ st[pkt.dst] = "PS_PENDING"
                               /\ pkt.dst \notin ToSet(pkt.msg.token.pseudo_queue)

GoodPackets(rn, st) ==
    {pkt \in PacketType : GoodRequest(pkt, rn) /\ GoodReply(pkt, rn, st)}

HeldGood(held, toks, rn, st) ==
    \A p \in Proc : held[p] => Good(toks[p], rn, st) /\ p \notin ToSet(toks[p].pseudo_queue)

NotAhead(rn) == \A p, q \in Proc : rn[p][q] <= rn[q][q]

QInv ==
    /\ net \in Nets(GoodPackets(suzuki_RN, fsm_state))
    /\ Addressed(net)
    /\ HeldGood(i_have_token, my_token, suzuki_RN, fsm_state)
    /\ NotAhead(suzuki_RN)

-----------------------------------------------------------------------------
(* Sequences without repetition. *)

LEMMA ToSetOfSeq ==
    ASSUME NEW S, NEW s \in Seq(S)
    PROVE  /\ ToSet(s) = {s[i] : i \in 1 .. Len(s)}
           /\ ToSet(s) \subseteq S
           /\ Len(s) \in Nat
BY LenProperties, ElementOfSeq DEF ToSet

LEMMA ConcatOneEach ==
    ASSUME NEW S, NEW a \in Seq(S), NEW s \in Seq(S),
           OneEach(a), OneEach(s), ToSet(a) \cap ToSet(s) = {}
    PROVE  OneEach(a \o s) /\ ToSet(a \o s) = ToSet(a) \cup ToSet(s)
<1> DEFINE c == a \o s
<1>1. /\ c \in Seq(S)
      /\ Len(c) = Len(a) + Len(s)
      /\ \A i \in 1 .. (Len(a) + Len(s)) : c[i] = IF i <= Len(a) THEN a[i] ELSE s[i - Len(a)]
  BY ConcatProperties
<1>2. /\ ToSet(a) = {a[i] : i \in 1 .. Len(a)} /\ Len(a) \in Nat
      /\ ToSet(s) = {s[i] : i \in 1 .. Len(s)} /\ Len(s) \in Nat
      /\ ToSet(c) = {c[i] : i \in 1 .. Len(c)}
  BY <1>1, ToSetOfSeq
<1> HIDE DEF c
<1>3. \A i \in 1 .. Len(a) : c[i] = a[i]
  BY <1>1, <1>2
<1>4. \A i \in 1 .. Len(s) : c[Len(a) + i] = s[i]
  BY <1>1, <1>2
<1>5. \A i \in 1 .. Len(c) :
         i \in 1 .. Len(a) \/ (i - Len(a) \in 1 .. Len(s) /\ i = Len(a) + (i - Len(a)))
  BY <1>1, <1>2
<1>6. ToSet(c) = ToSet(a) \cup ToSet(s)
  <2>1. ASSUME NEW i \in 1 .. Len(c) PROVE c[i] \in ToSet(a) \cup ToSet(s)
    BY <1>2, <1>3, <1>4, <1>5
  <2>2. ASSUME NEW i \in 1 .. Len(a) PROVE a[i] \in ToSet(c)
    <3>1. i \in 1 .. Len(c) /\ c[i] = a[i]
      BY <1>1, <1>2, <1>3
    <3>2. QED
      BY <1>2, <3>1
  <2>3. ASSUME NEW i \in 1 .. Len(s) PROVE s[i] \in ToSet(c)
    <3>1. Len(a) + i \in 1 .. Len(c) /\ c[Len(a) + i] = s[i]
      BY <1>1, <1>2, <1>4
    <3>2. QED
      BY <1>2, <3>1
  <2>4. QED
    BY <1>2, <2>1, <2>2, <2>3
<1>7. OneEach(c)
  <2>1. SUFFICES ASSUME NEW i \in 1 .. Len(c), NEW j \in 1 .. Len(c), c[i] = c[j]
                 PROVE  i = j
    BY DEF OneEach
  <2>2. CASE i \in 1 .. Len(a) /\ j \in 1 .. Len(a)
    BY <1>3, <2>1, <2>2 DEF OneEach
  <2>3. CASE i - Len(a) \in 1 .. Len(s) /\ j - Len(a) \in 1 .. Len(s)
    <3>1. c[i] = s[i - Len(a)] /\ c[j] = s[j - Len(a)]
      <4>1. i = Len(a) + (i - Len(a)) /\ j = Len(a) + (j - Len(a))
        BY <1>2
      <4>2. QED
        BY <1>4, <2>3, <4>1
    <3>2. i - Len(a) = j - Len(a)
      BY <2>1, <2>3, <3>1 DEF OneEach
    <3>3. QED
      BY <1>2, <3>2
  <2>4. ASSUME NEW k \in 1 .. Len(a), NEW l \in 1 .. Len(c), l - Len(a) \in 1 .. Len(s)
        PROVE  c[k] # c[l]
    <3>1. c[k] \in ToSet(a)
      BY <1>2, <1>3
    <3>2. l = Len(a) + (l - Len(a))
      BY <1>2
    <3>3. c[l] \in ToSet(s)
      BY <1>2, <1>4, <2>4, <3>2
    <3>4. QED
      BY <3>1, <3>3
  <2>5. QED
    BY <1>5, <2>1, <2>2, <2>3, <2>4
<1>8. QED
  BY <1>6, <1>7 DEF c

LEMMA FrontOneEach ==
    ASSUME NEW S, NEW s \in Seq(S), s # <<>>, OneEach(s)
    PROVE  /\ OneEach(Front(s))
           /\ ToSet(Front(s)) \subseteq ToSet(s)
           /\ Last(s) \in ToSet(s)
           /\ Last(s) \notin ToSet(Front(s))
<1>1. /\ ToSet(s) = {s[i] : i \in 1 .. Len(s)}
      /\ Len(s) \in Nat
      /\ Len(s) # 0
      /\ \A i \in 1 .. Len(s) : s[i] \in S
  BY ToSetOfSeq, EmptySeq, ElementOfSeq
<1>2. /\ Front(s) \in Seq(S)
      /\ Len(Front(s)) = Len(s) - 1
      /\ \A i \in 1 .. (Len(s) - 1) : Front(s)[i] = s[i]
  <2>1. Len(s) - 1 \in Int /\ \A i \in 1 .. (Len(s) - 1) : s[i] \in S
    BY <1>1
  <2>2. /\ Front(s) \in Seq(S)
        /\ Len(Front(s)) = IF 1 <= Len(s) - 1 THEN (Len(s) - 1) - 1 + 1 ELSE 0
        /\ \A i \in 1 .. ((Len(s) - 1) - 1 + 1) : Front(s)[i] = s[1 + i - 1]
    BY <1>1, <2>1, SubSeqProperties DEF Front
  <2>3. ASSUME NEW i \in 1 .. (Len(s) - 1) PROVE Front(s)[i] = s[i]
    <3>1. i \in 1 .. ((Len(s) - 1) - 1 + 1) /\ 1 + i - 1 = i
      BY <1>1
    <3>2. QED
      BY <2>2, <3>1
  <2>4. Len(Front(s)) = Len(s) - 1
    <3>1. \A n \in Nat \ {0} : (IF 1 <= n - 1 THEN (n - 1) - 1 + 1 ELSE 0) = n - 1
      OBVIOUS
    <3>2. Len(s) \in Nat \ {0}
      BY <1>1
    <3>3. QED
      BY <2>2, <3>1, <3>2
  <2>5. QED
    BY <2>2, <2>3, <2>4
<1>3. ToSet(Front(s)) = {Front(s)[i] : i \in 1 .. (Len(s) - 1)}
  BY <1>2, ToSetOfSeq
<1>4. Last(s) = s[Len(s)] /\ Len(s) \in 1 .. Len(s)
  BY <1>1 DEF Last
<1>5. OneEach(Front(s))
  BY <1>1, <1>2 DEF OneEach
<1>6. ToSet(Front(s)) \subseteq ToSet(s)
  BY <1>1, <1>2, <1>3
<1>7. Last(s) \notin ToSet(Front(s))
  <2>1. SUFFICES ASSUME NEW i \in 1 .. (Len(s) - 1), Front(s)[i] = Last(s) PROVE FALSE
    BY <1>3
  <2>2. s[i] = s[Len(s)] /\ i \in 1 .. Len(s) /\ i # Len(s)
    BY <1>1, <1>2, <1>4, <2>1
  <2>3. QED
    BY <1>4, <2>2 DEF OneEach
<1>8. QED
  BY <1>1, <1>4, <1>5, <1>6, <1>7

-----------------------------------------------------------------------------
(* Tokens and packets that stay good. *)

LEMMA GoodAfterInsert ==
    ASSUME NetworkAssumption, NEW rn, NEW st, NEW tok, Good(tok, rn, st), NEW q \in Proc,
           q \notin ToSet(tok.pseudo_queue), st[q] = "PS_PENDING"
    PROVE  Good(request_queue_insert(tok, q), rn, st)
<1> DEFINE queue == tok.pseudo_queue
           tok2  == request_queue_insert(tok, q)
           front == <<q>>
<1>1. tok \in Token /\ tok2 \in Token /\ queue \in Seq(Proc)
  BY TokenOperations DEF Good, Token
<1>2. tok2 = [tok EXCEPT !.pseudo_queue = front \o queue]
  BY DEF request_queue_insert
<1>3. tok2.pseudo_queue = front \o queue /\ tok2.suzuki_LN = tok.suzuki_LN
  BY <1>1, <1>2 DEF Token
<1>4. front \in Seq(Proc) /\ ToSet(front) = {q} /\ OneEach(front)
  BY DEF ToSet, OneEach
<1> HIDE DEF queue, tok2, front
<1>5. OneEach(queue) /\ ToSet(front) \cap ToSet(queue) = {}
  BY <1>4 DEF Good, queue
<1>6. OneEach(front \o queue) /\ ToSet(front \o queue) = ToSet(front) \cup ToSet(queue)
  BY <1>1, <1>4, <1>5, ConcatOneEach
<1>7. \A r \in ToSet(tok2.pseudo_queue) : st[r] = "PS_PENDING"
  BY <1>3, <1>4, <1>6 DEF Good, queue
<1>8. Counts(tok2, rn, st)
  BY <1>3 DEF Good, Counts
<1>9. QED
  BY <1>1, <1>3, <1>6, <1>7, <1>8 DEF Good, tok2

(***************************************************************************)
(* A step after which nobody who waited has stopped to wait, and who asks  *)
(* for the first time has counted its request, leaves what is good good.   *)
(***************************************************************************)
Harmless(rn, st, rn2, st2) ==
    /\ rn2 \in [Proc -> [Proc -> Nat]]
    /\ \A q \in Proc : st[q] = "PS_PENDING" => st2[q] = "PS_PENDING"
    /\ \A q \in Proc : /\ rn[q][q] <= rn2[q][q]
                       /\ rn2[q][q] - Owed(st2, q) = rn[q][q] - Owed(st, q)

LEMMA StaysGood ==
    ASSUME NEW rn \in [Proc -> [Proc -> Nat]], NEW st, NEW rn2, NEW st2,
           Harmless(rn, st, rn2, st2)
    PROVE  /\ \A tok : Good(tok, rn, st) => Good(tok, rn2, st2)
           /\ GoodPackets(rn, st) \subseteq GoodPackets(rn2, st2)
           /\ Nets(GoodPackets(rn, st)) \subseteq Nets(GoodPackets(rn2, st2))
<1>1. ASSUME NEW tok, Good(tok, rn, st) PROVE Good(tok, rn2, st2)
  <2>1. tok \in Token /\ tok.suzuki_LN \in [Proc -> Nat]
    BY <1>1 DEF Good, Token
  <2>2. Counts(tok, rn2, st2)
    <3>1. SUFFICES ASSUME NEW q \in Proc PROVE rn2[q][q] = tok.suzuki_LN[q] + Owed(st2, q)
      BY DEF Counts
    <3> DEFINE a == rn[q][q]
               b == rn2[q][q]
               c == tok.suzuki_LN[q]
               x == Owed(st, q)
               y == Owed(st2, q)
    <3>2. x \in {0, 1} /\ y \in {0, 1}
      BY DEF Owed
    <3>3. a \in Nat /\ b \in Nat /\ c \in Nat
      BY <2>1 DEF Harmless
    <3>4. a = c + x /\ b - y = a - x
      BY <1>1 DEF Good, Counts, Harmless
    <3> HIDE DEF a, b, c, x, y
    <3>5. b = c + y
      BY <3>2, <3>3, <3>4
    <3>6. QED
      BY <3>5 DEF b, c, y
  <2>3. ToSet(tok.pseudo_queue) \subseteq Proc
    BY <2>1, ToSetOfSeq DEF Token
  <2>4. QED
    BY <1>1, <2>2, <2>3 DEF Good, Harmless
<1>2. ASSUME NEW pkt \in GoodPackets(rn, st) PROVE pkt \in GoodPackets(rn2, st2)
  <2>1. pkt \in PacketType /\ GoodRequest(pkt, rn) /\ GoodReply(pkt, rn, st)
    BY DEF GoodPackets
  <2>2. GoodRequest(pkt, rn2)
    <3>1. SUFFICES ASSUME pkt.msg.type = "REQUEST"
                   PROVE  pkt.msg.req_no <= rn2[pkt.msg.pid][pkt.msg.pid]
      BY DEF GoodRequest
    <3>2. pkt.msg.pid \in Proc /\ pkt.msg.req_no \in Nat
      BY <2>1, <3>1, PacketFields
    <3>3. /\ pkt.msg.req_no <= rn[pkt.msg.pid][pkt.msg.pid]
          /\ rn[pkt.msg.pid][pkt.msg.pid] <= rn2[pkt.msg.pid][pkt.msg.pid]
          /\ rn[pkt.msg.pid][pkt.msg.pid] \in Nat
          /\ rn2[pkt.msg.pid][pkt.msg.pid] \in Nat
      BY <2>1, <3>1, <3>2 DEF GoodRequest, Harmless
    <3>4. QED
      BY <3>2, <3>3
  <2>3. GoodReply(pkt, rn2, st2)
    BY <1>1, <2>1 DEF GoodReply, Harmless
  <2>4. QED
    BY <2>1, <2>2, <2>3 DEF GoodPackets
<1>3. QED
  BY <1>1, <1>2, Widened

(* Without a token on its way only the request numbers matter. *)
LEMMA RequestsStayGood ==
    ASSUME NEW rn \in [Proc -> [Proc -> Nat]], NEW st, NEW st2,
           NEW n \in Nets(GoodPackets(rn, st)), NoneOf(n, TokenPacket)
    PROVE  n \in Nets(GoodPackets(rn, st2))
<1>1. ASSUME NEW l \in Lane PROVE n[l] \in Seq(GoodPackets(rn, st2))
  <2>1. /\ n[l] \in Seq(GoodPackets(rn, st))
        /\ Len(n[l]) \in Nat
        /\ n[l] = [i \in 1 .. Len(n[l]) |-> n[l][i]]
    BY LenProperties DEF Nets
  <2>2. ASSUME NEW i \in 1 .. Len(n[l]) PROVE n[l][i] \in GoodPackets(rn, st2)
    <3>1. n[l][i] \in GoodPackets(rn, st) /\ n[l][i] \notin TokenPacket
      BY <2>1, ElementOfSeq DEF NoneOf
    <3>2. n[l][i] \in PacketType /\ GoodRequest(n[l][i], rn)
      BY <3>1 DEF GoodPackets
    <3>3. n[l][i].msg.type # "REPLY"
      BY <3>1, <3>2, PacketFields
    <3>4. QED
      BY <3>2, <3>3 DEF GoodPackets, GoodReply
  <2>3. n[l] \in [1 .. Len(n[l]) -> GoodPackets(rn, st2)]
    BY <2>1, <2>2
  <2>4. QED
    BY <2>1, <2>3, SeqDef
<1>2. QED
  BY <1>1 DEF Nets

LEMMA SupPacketsGood ==
    ASSUME NEW rn, NEW st
    PROVE  SupPackets \subseteq GoodPackets(rn, st)
<1>1. ASSUME NEW pkt \in SupPackets PROVE pkt \in GoodPackets(rn, st)
  <2>1. pkt \in PacketType
    BY SupPacketKind
  <2>2. pkt.msg.type # "REQUEST" /\ pkt.msg.type # "REPLY"
    BY DEF SupPackets, SupMsg
  <2>3. QED
    BY <2>1, <2>2 DEF GoodPackets, GoodRequest, GoodReply
<1>2. QED
  BY <1>1

(* The token that is sent is good without the one it is sent to. *)
LEMMA PopGood ==
    ASSUME NetworkAssumption, NEW rn, NEW st, NEW tok, Good(tok, rn, st)
    PROVE  /\ Good(request_queue_pop(tok), rn, st)
           /\ FinalElement(tok) \in Proc =>
                 /\ st[FinalElement(tok)] = "PS_PENDING"
                 /\ FinalElement(tok) \notin ToSet(request_queue_pop(tok).pseudo_queue)
<1> DEFINE queue == tok.pseudo_queue
           popped == request_queue_pop(tok)
<1>1. tok \in Token /\ queue \in Seq(Proc) /\ OneEach(queue)
      /\ \A q \in ToSet(queue) : st[q] = "PS_PENDING"
  BY DEF Good, Token
<1>2. popped \in Token
  BY <1>1, TokenOperations, PidFacts DEF NetworkAssumption, Proc
<1>3. popped = [tok EXCEPT !.pseudo_queue = IF queue = <<>> THEN queue ELSE Front(queue)]
  BY DEF request_queue_pop
<1>4. /\ popped.suzuki_LN = tok.suzuki_LN
      /\ popped.pseudo_queue = IF queue = <<>> THEN queue ELSE Front(queue)
  BY <1>1, <1>3 DEF Token
<1>5. Counts(popped, rn, st)
  BY <1>4 DEF Good, Counts
<1>6. FinalElement(tok) = IF queue = <<>> THEN SUPERVISOR_PID ELSE Last(queue)
  BY DEF FinalElement
<1> HIDE DEF queue, popped
<1>7. CASE queue = <<>>
  <2>1. FinalElement(tok) \notin Proc
    BY <1>6, <1>7, PidFacts
  <2>2. Good(popped, rn, st)
    BY <1>1, <1>2, <1>4, <1>5, <1>7 DEF Good
  <2>3. QED
    BY <2>1, <2>2 DEF popped
<1>8. CASE queue # <<>>
  <2>1. /\ OneEach(Front(queue))
        /\ ToSet(Front(queue)) \subseteq ToSet(queue)
        /\ Last(queue) \in ToSet(queue)
        /\ Last(queue) \notin ToSet(Front(queue))
    BY <1>1, <1>8, FrontOneEach
  <2>2. Good(popped, rn, st)
    BY <1>1, <1>2, <1>4, <1>5, <1>8, <2>1 DEF Good
  <2>3. QED
    BY <1>1, <1>4, <1>6, <1>8, <2>1, <2>2 DEF popped
<1>9. QED
  BY <1>7, <1>8

LEMMA TokenSentGood ==
    ASSUME NetworkAssumption, NEW p \in Proc, NEW rn, NEW st, NEW tok, Good(tok, rn, st),
           NEW n \in Nets(GoodPackets(rn, st)), Addressed(n), SendToken(p, tok, n)
    PROVE  net' \in Nets(GoodPackets(rn, st)) /\ Addressed(net')
<1> DEFINE popped == request_queue_pop(tok)
           dst == FinalElement(tok)
           pkt == Packet(p, dst, REPLY(p, popped))
<1>1. /\ Good(popped, rn, st)
      /\ dst \in Proc => st[dst] = "PS_PENDING" /\ dst \notin ToSet(popped.pseudo_queue)
  BY PopGood
<1>2. p \in Node /\ popped \in Token
  BY <1>1, PidFacts DEF Good
<1>3. /\ pkt.msg.type = "REPLY"
      /\ pkt.msg.token = popped
      /\ pkt.dst = dst
  BY DEF Packet, REPLY
<1>4. dst \in Node => pkt \in PacketType
  BY <1>2, TokenPacketKind
<1> HIDE DEF popped, dst, pkt
<1>5. dst \in Node => pkt \in GoodPackets(rn, st)
  BY <1>1, <1>3, <1>4 DEF GoodPackets, GoodRequest, GoodReply
<1>6. net' = dme_send_msg(n, p, dst, REPLY(p, popped))
  BY DEF SendToken, dst, popped
<1>7. QED
  BY <1>2, <1>5, <1>6, SendProperties, SendAddressed DEF pkt

-----------------------------------------------------------------------------
(* The steps. *)

LEMMA QInitOK == ASSUME Assumptions, Init PROVE QInv
<1>1. \A l \in Lane : net[l] = <<>> /\ Len(net[l]) = 0
  BY EmptySeq DEF Init, NetInit
<1>2. net \in Nets(GoodPackets(suzuki_RN, fsm_state))
  BY DEF Init, NetInit, Nets
<1>3. Addressed(net)
  BY <1>1, LaneFacts DEF Addressed
<1>4. /\ suzuki_RN = [p \in Proc |-> [q \in Proc |-> 0]]
      /\ my_token = [p \in Proc |-> NoToken]
      /\ fsm_state = [p \in Proc |-> "PS_IDLE"]
  BY DEF Init, PeerInit
<1>5. Good(NoToken, suzuki_RN, fsm_state) /\ ToSet(NoToken.pseudo_queue) = {}
  <2>1. NoToken \in Token /\ NoToken.pseudo_queue = <<>>
        /\ NoToken.suzuki_LN = [q \in Proc |-> 0]
    BY DEF NoToken, Token
  <2>2. ToSet(NoToken.pseudo_queue) = {} /\ OneEach(NoToken.pseudo_queue)
    BY <2>1 DEF ToSet, OneEach
  <2>3. Counts(NoToken, suzuki_RN, fsm_state)
    BY <1>4, <2>1 DEF Counts, Owed
  <2>4. QED
    BY <2>1, <2>2, <2>3 DEF Good
<1>6. HeldGood(i_have_token, my_token, suzuki_RN, fsm_state)
  BY <1>4, <1>5 DEF HeldGood
<1>7. NotAhead(suzuki_RN)
  BY <1>4 DEF NotAhead
<1>8. QED
  BY <1>2, <1>3, <1>6, <1>7 DEF QInv

(* A step that leaves tokens, requests and states alone. *)
LEMMA QUntouched ==
    ASSUME QInv, UNCHANGED <<fsm_state, suzuki_RN, i_have_token, my_token>>,
           net' \in Nets(GoodPackets(suzuki_RN, fsm_state)), Addressed(net')
    PROVE  QInv'
BY DEF QInv

LEMMA QSupervisorNextOK == ASSUME Assumptions, IInv, QInv, SupervisorNext PROVE QInv'
<1> DEFINE P == GoodPackets(suzuki_RN, fsm_state)
<1>1. /\ UNCHANGED <<fsm_state, suzuki_RN, i_have_token, my_token>>
      /\ net \in Nets(P)
      /\ Addressed(net)
      /\ SupTypeOK
  BY DEF SupervisorNext, peerVars, suzukiVars, QInv, IInv, TypeOK
<1>2. \A pkt \in P : pkt.dst \in Node
  BY PacketFields DEF GoodPackets
<1>3. SupPackets \subseteq P
  BY SupPacketsGood
<1> HIDE DEF P
<1>4. net' \in Nets(P) /\ Addressed(net')
  <2>1. CASE SupNext
    <3>1. SupPackets \cap {} = {}
      OBVIOUS
    <3>2. net' \in Nets(P)
      BY <1>1, <1>3, <2>1, <3>1, SupervisorStep DEF Assumptions
    <3>3. QED
      BY <1>1, <1>3, <2>1, <3>2, SupervisorAddressed DEF Assumptions
  <2>2. CASE sendto(SUPERVISOR_PID)
    BY <1>1, <1>2, <2>2, PidFacts, SendtoProperties, SendtoAddressed DEF Assumptions
  <2>3. QED
    BY <2>1, <2>2 DEF SupervisorNext
<1>5. QED
  BY <1>1, <1>4, QUntouched DEF P

LEMMA QSendtoOK ==
    ASSUME Assumptions, QInv, NEW p \in Proc, sendto(p), UNCHANGED <<peerVars, suzukiVars>>
    PROVE  QInv'
<1> DEFINE P == GoodPackets(suzuki_RN, fsm_state)
<1>1. /\ UNCHANGED <<fsm_state, suzuki_RN, i_have_token, my_token>>
      /\ net \in Nets(P)
      /\ Addressed(net)
      /\ p \in Node
  BY PidFacts DEF peerVars, suzukiVars, QInv, Assumptions
<1>2. \A pkt \in P : pkt.dst \in Node
  BY PacketFields DEF GoodPackets
<1> HIDE DEF P
<1>3. net' \in Nets(P) /\ Addressed(net')
  BY <1>1, <1>2, SendtoProperties, SendtoAddressed
<1>4. QED
  BY <1>1, <1>3, QUntouched DEF P

(* What a handler of a message starts from. *)
LEMMA QMessageTaken ==
    ASSUME Assumptions, QInv, NEW p \in Proc, NEW slot \in Receivable(p)
    PROVE  /\ dme_recv_msg(slot) \in Nets(GoodPackets(suzuki_RN, fsm_state))
           /\ Addressed(dme_recv_msg(slot))
           /\ PacketAt(slot) \in GoodPackets(suzuki_RN, fsm_state)
           /\ PacketAt(slot).dst = p
<1>1. p \in Node /\ net \in Nets(GoodPackets(suzuki_RN, fsm_state)) /\ Addressed(net)
  BY PidFacts DEF Assumptions, QInv
<1>2. QED
  BY <1>1, ReceiveProperties, ReceiveAddressed

LEMMA QNotedOK ==
    ASSUME Assumptions, QInv, NEW p \in Proc, NEW slot \in Receivable(p),
           SupervisorMsgNoted(p, slot), UNCHANGED suzukiVars
    PROVE  QInv'
BY QMessageTaken, QUntouched DEF SupervisorMsgNoted, peerVars, suzukiVars

LEMMA QWantOK ==
    ASSUME Assumptions, IInv, QInv, NEW p \in Proc, NEW slot \in Receivable(p),
           process_ev_want_cr(p, slot)
    PROVE  QInv'
<1> DEFINE m == dme_recv_msg(slot)
           req_no == suzuki_RN[p][p] + 1
<1>1. /\ fsm_state[p] = "PS_IDLE"
      /\ fsm_state' = [fsm_state EXCEPT ![p] = "PS_PENDING"]
      /\ suzuki_RN' = [suzuki_RN EXCEPT ![p][p] = @ + 1]
      /\ UNCHANGED <<i_have_token, my_token>>
      /\ net' = m \/ net' = dme_broadcast_msg(m, p, REQUEST(p, req_no))
  BY DEF process_ev_want_cr, IsWant
<1>2. fsm_state \in [Proc -> State] /\ suzuki_RN \in [Proc -> [Proc -> Nat]]
  BY DEF IInv, TypeOK, PeerTypeOK
<1>3. /\ suzuki_RN' \in [Proc -> [Proc -> Nat]]
      /\ suzuki_RN'[p][p] = req_no
      /\ \A a, b \in Proc : (a # p \/ b # p) => suzuki_RN'[a][b] = suzuki_RN[a][b]
      /\ req_no \in Nat /\ suzuki_RN[p][p] <= req_no
  BY <1>1, <1>2
<1>4. /\ fsm_state'[p] = "PS_PENDING"
      /\ \A q \in Proc : q # p => fsm_state'[q] = fsm_state[q]
  BY <1>1, <1>2
<1> HIDE DEF m
<1>5. Harmless(suzuki_RN, fsm_state, suzuki_RN', fsm_state')
  <2>1. ASSUME NEW q \in Proc, fsm_state[q] = "PS_PENDING" PROVE fsm_state'[q] = "PS_PENDING"
    BY <1>4, <2>1
  <2>2. ASSUME NEW q \in Proc
        PROVE  /\ suzuki_RN[q][q] <= suzuki_RN'[q][q]
               /\ suzuki_RN'[q][q] - Owed(fsm_state', q) = suzuki_RN[q][q] - Owed(fsm_state, q)
    <3>1. CASE q = p
      <4>1. Owed(fsm_state, p) = 0 /\ Owed(fsm_state', p) = 1
        BY <1>1, <1>4 DEF Owed
      <4>2. QED
        BY <1>2, <1>3, <3>1, <4>1
    <3>2. CASE q # p
      <4>1. Owed(fsm_state', q) = Owed(fsm_state, q)
        BY <1>4, <3>2 DEF Owed
      <4>2. QED
        BY <1>2, <1>3, <3>2, <4>1
    <3>3. QED
      BY <3>1, <3>2
  <2>3. QED
    BY <1>3, <2>1, <2>2 DEF Harmless
<1> DEFINE P == GoodPackets(suzuki_RN', fsm_state')
<1>6. m \in Nets(P) /\ Addressed(m)
  BY <1>2, <1>5, StaysGood, QMessageTaken DEF m
<1>7. \A dst \in Node : Packet(p, dst, REQUEST(p, req_no)) \in P
  <2>1. SUFFICES ASSUME NEW dst \in Node PROVE Packet(p, dst, REQUEST(p, req_no)) \in P
    OBVIOUS
  <2> DEFINE pkt == Packet(p, dst, REQUEST(p, req_no))
  <2>2. pkt \in PacketType
    BY <1>3, RequestPacketKind DEF Assumptions
  <2>3. pkt.msg.type = "REQUEST" /\ pkt.msg.pid = p /\ pkt.msg.req_no = req_no
    BY DEF Packet, REQUEST
  <2> HIDE DEF pkt
  <2>4. QED
    BY <1>3, <2>2, <2>3 DEF GoodPackets, GoodRequest, GoodReply, pkt
<1>8. net' \in Nets(P) /\ Addressed(net')
  <2>1. CASE net' = m
    BY <1>6, <2>1
  <2>2. CASE net' = dme_broadcast_msg(m, p, REQUEST(p, req_no))
    <3>1. p \in Node /\ BroadcastOrder(p) \in Seq(Node)
      BY PidFacts, BroadcastOrderType DEF Assumptions
    <3>3. net' = SendToEach(m, p, BroadcastOrder(p), REQUEST(p, req_no))
      BY <2>2 DEF dme_broadcast_msg
    <3> DEFINE req == REQUEST(p, req_no)
               T == {}
    <3>4. net' \in Nets(P)
      <4>1. /\ m \in Nets(P)
            /\ \A dst \in Node : Packet(p, dst, req) \in P
            /\ \A dst \in Node : Packet(p, dst, req) \notin T
            /\ net' = SendToEach(m, p, BroadcastOrder(p), req)
        BY <1>6, <1>7, <3>3
      <4> HIDE DEF P, m, req, T
      <4>2. SendToEach(m, p, BroadcastOrder(p), req) \in Nets(P)
        BY <3>1, <4>1, SendToEachProperties
      <4>3. QED
        BY <4>1, <4>2
    <3>5. Addressed(net')
      BY <1>6, <3>1, <3>3, SendToEachAddressed
    <3>6. QED
      BY <3>4, <3>5
  <2>3. QED
    BY <1>1, <2>1, <2>2 DEF req_no
<1>9. HeldGood(i_have_token', my_token', suzuki_RN', fsm_state')
  BY <1>1, <1>2, <1>5, StaysGood DEF QInv, HeldGood
<1>10. NotAhead(suzuki_RN')
  <2>1. ASSUME NEW a \in Proc, NEW b \in Proc PROVE suzuki_RN'[a][b] <= suzuki_RN'[b][b]
    <3>1. suzuki_RN[a][b] <= suzuki_RN[b][b]
      BY DEF QInv, NotAhead
    <3>2. suzuki_RN[a][b] \in Nat /\ suzuki_RN[b][b] \in Nat
      BY <1>2
    <3>3. QED
      BY <1>2, <1>3, <3>1, <3>2
  <2>2. QED
    BY <2>1 DEF NotAhead
<1>11. QED
  BY <1>8, <1>9, <1>10 DEF QInv

(* Noting a request leaves every process's own number alone. *)
LEMMA RequestHarmless ==
    ASSUME Assumptions, IInv, QInv, NEW p \in Proc, NEW slot \in Receivable(p),
           PacketAt(slot).msg.type = "REQUEST",
           suzuki_RN' = [suzuki_RN EXCEPT ![p][PacketAt(slot).msg.pid] =
                            LargerOf(@, PacketAt(slot).msg.req_no)]
    PROVE  /\ Harmless(suzuki_RN, fsm_state, suzuki_RN', fsm_state)
           /\ NotAhead(suzuki_RN')
<1> DEFINE pid == PacketAt(slot).msg.pid
           req_no == PacketAt(slot).msg.req_no
<1>1. /\ pid \in Proc
      /\ req_no \in Nat
      /\ req_no <= suzuki_RN[pid][pid]
  <2>1. PacketAt(slot) \in PacketType /\ GoodRequest(PacketAt(slot), suzuki_RN)
    BY QMessageTaken DEF GoodPackets
  <2>2. QED
    BY <2>1, PacketFields DEF GoodRequest
<1>2. suzuki_RN \in [Proc -> [Proc -> Nat]] /\ NotAhead(suzuki_RN)
  BY DEF IInv, TypeOK, QInv
<1> HIDE DEF pid, req_no
<1>3. /\ suzuki_RN' = [suzuki_RN EXCEPT ![p][pid] = LargerOf(@, req_no)]
      /\ suzuki_RN[p][pid] <= suzuki_RN[pid][pid]
      /\ suzuki_RN[p][pid] \in Nat /\ suzuki_RN[pid][pid] \in Nat
  BY <1>1, <1>2 DEF NotAhead, pid, req_no
<1>4. /\ LargerOf(suzuki_RN[p][pid], req_no) \in Nat
      /\ LargerOf(suzuki_RN[p][pid], req_no) <= suzuki_RN[pid][pid]
      /\ pid = p => LargerOf(suzuki_RN[p][pid], req_no) = suzuki_RN[p][p]
  BY <1>1, <1>3 DEF LargerOf
<1> DEFINE big == LargerOf(suzuki_RN[p][pid], req_no)
<1>5. /\ suzuki_RN' \in [Proc -> [Proc -> Nat]]
      /\ suzuki_RN'[p][pid] = big
      /\ \A a, b \in Proc : (a # p \/ b # pid) => suzuki_RN'[a][b] = suzuki_RN[a][b]
  <2>1. big \in Nat /\ suzuki_RN' = [suzuki_RN EXCEPT ![p][pid] = big]
    BY <1>3, <1>4
  <2> HIDE DEF big
  <2>2. suzuki_RN' \in [Proc -> [Proc -> Nat]]
    <3> DEFINE row == [suzuki_RN[p] EXCEPT ![pid] = big]
    <3>1. suzuki_RN[p] \in [Proc -> Nat]
      BY <1>2
    <3>2. row \in [Proc -> Nat]
      BY <2>1, <3>1
    <3>3. suzuki_RN' = [suzuki_RN EXCEPT ![p] = row]
      BY <2>1
    <3> HIDE DEF row
    <3>4. QED
      BY <1>2, <3>2, <3>3
  <2>3. suzuki_RN'[p][pid] = big
    BY <1>1, <1>2, <2>1
  <2>4. \A a, b \in Proc : (a # p \/ b # pid) => suzuki_RN'[a][b] = suzuki_RN[a][b]
    BY <1>1, <1>2, <2>1
  <2>5. QED
    BY <2>2, <2>3, <2>4
<1>6. \A q \in Proc : suzuki_RN'[q][q] = suzuki_RN[q][q]
  BY <1>4, <1>5
<1>7. Harmless(suzuki_RN, fsm_state, suzuki_RN', fsm_state)
  <2>1. \A q \in Proc : suzuki_RN[q][q] <= suzuki_RN[q][q]
    BY <1>2
  <2>2. QED
    BY <1>5, <1>6, <2>1 DEF Harmless
<1>8. NotAhead(suzuki_RN')
  BY <1>1, <1>2, <1>4, <1>5, <1>6 DEF NotAhead
<1>9. QED
  BY <1>7, <1>8

LEMMA QRequestNotedOK ==
    ASSUME Assumptions, IInv, QInv, NEW p \in Proc, NEW slot \in Receivable(p),
           RequestNoted(p, slot)
    PROVE  QInv'
<1>1. /\ net' = dme_recv_msg(slot)
      /\ UNCHANGED <<fsm_state, i_have_token, my_token>>
      /\ Harmless(suzuki_RN, fsm_state, suzuki_RN', fsm_state)
      /\ NotAhead(suzuki_RN')
  BY RequestHarmless DEF RequestNoted, peerVars
<1>2. suzuki_RN \in [Proc -> [Proc -> Nat]]
  BY DEF IInv, TypeOK
<1>3. net' \in Nets(GoodPackets(suzuki_RN', fsm_state')) /\ Addressed(net')
  BY <1>1, <1>2, StaysGood, QMessageTaken
<1>4. HeldGood(i_have_token', my_token', suzuki_RN', fsm_state')
  BY <1>1, <1>2, StaysGood DEF QInv, HeldGood
<1>5. QED
  BY <1>1, <1>3, <1>4 DEF QInv

(* A request that counts comes from a process that waits for the token. *)
LEMMA EligibleWaits ==
    ASSUME IInv, QInv, NEW p \in Proc, i_have_token[p], NEW q \in Proc,
           NEW tok \in Token, Counts(tok, suzuki_RN, fsm_state), NEW rn \in Nat,
           Eligible(tok, rn, q), rn <= suzuki_RN[q][q], q = p => fsm_state[p] # "PS_EXECUTING"
    PROVE  fsm_state[q] = "PS_PENDING"
<1> DEFINE a == suzuki_RN[q][q]
           c == tok.suzuki_LN[q]
           x == Owed(fsm_state, q)
<1>1. a \in Nat /\ c \in Nat /\ x \in {0, 1}
  BY DEF IInv, TypeOK, Token, Owed
<1>2. a = c + x /\ rn = c + 1 /\ rn <= a
  BY DEF Counts, Eligible
<1> HIDE DEF a, c, x
<1>3. x = 1
  BY <1>1, <1>2
<1>4. fsm_state[q] # "PS_IDLE"
  BY <1>3 DEF Owed, x
<1>5. fsm_state[q] # "PS_EXECUTING"
  BY DEF IInv, TokenUnique
<1>6. fsm_state[q] \in State
  BY DEF IInv, TypeOK, PeerTypeOK
<1>7. QED
  BY <1>4, <1>5, <1>6 DEF State

LEMMA QRequestWithTokenOK ==
    ASSUME Assumptions, IInv, QInv, NEW p \in Proc, NEW slot \in Receivable(p),
           RequestWithToken(p, slot)
    PROVE  QInv'
<1> DEFINE msg == PacketAt(slot).msg
           m   == dme_recv_msg(slot)
           rn  == LargerOf(suzuki_RN[p][msg.pid], msg.req_no)
           tok == IF Eligible(my_token[p], rn, msg.pid)
                  THEN request_queue_insert(my_token[p], msg.pid)
                  ELSE my_token[p]
<1>1. /\ fsm_state[p] = "PS_IDLE"
      /\ i_have_token[p]
      /\ msg.type = "REQUEST"
      /\ suzuki_RN' = [suzuki_RN EXCEPT ![p][msg.pid] = rn]
      /\ SendToken(p, tok, m)
      /\ UNCHANGED fsm_state
  BY DEF RequestWithToken, peerVars
<1>2. Harmless(suzuki_RN, fsm_state, suzuki_RN', fsm_state') /\ NotAhead(suzuki_RN')
  BY <1>1, RequestHarmless
<1>3. /\ suzuki_RN \in [Proc -> [Proc -> Nat]]
      /\ i_have_token \in [Proc -> BOOLEAN]
  BY DEF IInv, TypeOK
<1>4. Good(tok, suzuki_RN, fsm_state)
  <2>1. Good(my_token[p], suzuki_RN, fsm_state)
    BY <1>1 DEF QInv, HeldGood
  <2>2. CASE Eligible(my_token[p], rn, msg.pid)
    <3>1. msg.pid \in Proc /\ msg.req_no \in Nat /\ msg.req_no <= suzuki_RN[msg.pid][msg.pid]
      <4>1. PacketAt(slot) \in PacketType /\ GoodRequest(PacketAt(slot), suzuki_RN)
        BY QMessageTaken DEF GoodPackets
      <4>2. QED
        BY <1>1, <4>1, PacketFields DEF GoodRequest
    <3>2. rn \in Nat /\ rn <= suzuki_RN[msg.pid][msg.pid]
      <4>1. suzuki_RN[p][msg.pid] \in Nat /\ suzuki_RN[p][msg.pid] <= suzuki_RN[msg.pid][msg.pid]
        BY <1>3, <3>1 DEF QInv, NotAhead
      <4>2. QED
        BY <3>1, <4>1 DEF LargerOf
    <3>3. fsm_state[msg.pid] = "PS_PENDING"
      BY <1>1, <2>1, <2>2, <3>1, <3>2, EligibleWaits DEF Good
    <3>4. msg.pid \notin ToSet(my_token[p].pseudo_queue)
      BY <2>2 DEF Eligible
    <3>5. QED
      BY <2>1, <2>2, <3>1, <3>3, <3>4, GoodAfterInsert DEF Assumptions
  <2>3. QED
    BY <2>1, <2>2
<1>5. m \in Nets(GoodPackets(suzuki_RN, fsm_state)) /\ Addressed(m)
  BY QMessageTaken
<1> HIDE DEF tok, m, rn
<1>6. Good(tok, suzuki_RN', fsm_state') /\ m \in Nets(GoodPackets(suzuki_RN', fsm_state'))
  BY <1>2, <1>3, <1>4, <1>5, StaysGood
<1>7. net' \in Nets(GoodPackets(suzuki_RN', fsm_state')) /\ Addressed(net')
  BY <1>1, <1>5, <1>6, TokenSentGood DEF Assumptions
<1>8. \A q \in Proc : ~i_have_token'[q]
  BY <1>1, <1>3 DEF SendToken, IInv, TokenUnique
<1>9. QED
  BY <1>2, <1>7, <1>8 DEF QInv, HeldGood

(***************************************************************************)
(* Entering with a good token tok, in front of a network n without tokens. *)
(***************************************************************************)
LEMMA QEntered ==
    ASSUME Assumptions, IInv, QInv, NEW p \in Proc, NEW n, NEW tok,
           fsm_state[p] = "PS_PENDING", NoneOf(n, TokenPacket), Addressed(n),
           n \in Nets(GoodPackets(suzuki_RN, fsm_state)),
           process_ev_entered_cr(p, fsm_state[p], n), UNCHANGED suzuki_RN,
           Good(tok, suzuki_RN, fsm_state), p \notin ToSet(tok.pseudo_queue),
           my_token'[p] = tok, \A q \in Proc : i_have_token'[q] => q = p
    PROVE  QInv'
<1>1. /\ net' = dme_send_msg(n, p, SUPERVISOR_PID, [type |-> "ENTERED"])
      /\ fsm_state' = [fsm_state EXCEPT ![p] = "PS_EXECUTING"]
  BY DEF process_ev_entered_cr
<1>2. fsm_state \in [Proc -> State] /\ suzuki_RN \in [Proc -> [Proc -> Nat]]
  BY DEF IInv, TypeOK, PeerTypeOK
<1>3. /\ fsm_state'[p] = "PS_EXECUTING"
      /\ \A q \in Proc : q # p => fsm_state'[q] = fsm_state[q]
  BY <1>1, <1>2
<1>4. Good(tok, suzuki_RN', fsm_state')
  <2>1. \A q \in Proc : Owed(fsm_state', q) = Owed(fsm_state, q)
    BY <1>3 DEF Owed
  <2>2. Counts(tok, suzuki_RN', fsm_state')
    BY <2>1 DEF Good, Counts
  <2>3. ToSet(tok.pseudo_queue) \subseteq Proc
    BY ToSetOfSeq DEF Good, Token
  <2>4. QED
    BY <1>3, <2>2, <2>3 DEF Good
<1>5. n \in Nets(GoodPackets(suzuki_RN', fsm_state'))
  BY <1>2, RequestsStayGood
<1>6. net' \in Nets(GoodPackets(suzuki_RN', fsm_state')) /\ Addressed(net')
  <2>1. p \in Node /\ SUPERVISOR_PID \in Node
    BY PidFacts DEF Assumptions
  <2>2. Packet(p, SUPERVISOR_PID, [type |-> "ENTERED"]) \in GoodPackets(suzuki_RN', fsm_state')
    BY <2>1, SupPacketFacts, SupPacketsGood
  <2>3. QED
    BY <1>1, <1>5, <2>1, <2>2, SendProperties, SendAddressed
<1>7. HeldGood(i_have_token', my_token', suzuki_RN', fsm_state')
  BY <1>4 DEF HeldGood
<1>8. NotAhead(suzuki_RN')
  BY DEF QInv
<1>9. QED
  BY <1>6, <1>7, <1>8 DEF QInv

LEMMA QTokenReceivedOK ==
    ASSUME Assumptions, IInv, QInv, NEW p \in Proc, NEW slot \in Receivable(p),
           TokenReceived(p, slot)
    PROVE  QInv'
<1> DEFINE m == dme_recv_msg(slot)
           tok == PacketAt(slot).msg.token
<1>1. /\ PacketAt(slot).msg.type = "REPLY"
      /\ UNCHANGED suzuki_RN
      /\ m \in Nets(GoodPackets(suzuki_RN, fsm_state))
      /\ Addressed(m)
  BY QMessageTaken DEF TokenReceived
<1>2. /\ PacketAt(slot) \in TokenPacket
      /\ Good(tok, suzuki_RN, fsm_state)
      /\ p \notin ToSet(tok.pseudo_queue)
  <2>1. /\ PacketAt(slot) \in PacketType
        /\ PacketAt(slot).dst = p
        /\ GoodReply(PacketAt(slot), suzuki_RN, fsm_state)
    BY QMessageTaken DEF GoodPackets
  <2>2. QED
    BY <1>1, <2>1, PacketFields DEF GoodReply
<1>3. NoneOf(m, TokenPacket) /\ ~NoneOf(net, TokenPacket)
  BY <1>2, MessageTaken
<1>4. \A q \in Proc : ~i_have_token[q]
  BY <1>3 DEF IInv, TokenUnique
<1> HIDE DEF m, tok
<1>5. CASE fsm_state[p] = "PS_PENDING"
  <2>1. /\ i_have_token' = [i_have_token EXCEPT ![p] = TRUE]
        /\ my_token' = [my_token EXCEPT ![p] = tok]
        /\ process_ev_entered_cr(p, fsm_state[p], m)
    BY <1>5 DEF TokenReceived, m, tok
  <2>2. i_have_token \in [Proc -> BOOLEAN] /\ my_token \in [Proc -> Token]
    BY DEF IInv, TypeOK
  <2>3. my_token'[p] = tok /\ \A q \in Proc : i_have_token'[q] => q = p
    BY <1>4, <2>1, <2>2
  <2>4. QED
    BY <1>1, <1>2, <1>3, <1>5, <2>1, <2>3, QEntered
<1>6. CASE fsm_state[p] # "PS_PENDING"
  <2>1. net' = m /\ UNCHANGED <<fsm_state, suzuki_RN, i_have_token, my_token>>
    BY <1>1, <1>6 DEF TokenReceived, peerVars, m
  <2>2. QED
    BY <1>1, <2>1, QUntouched
<1>7. QED
  BY <1>5, <1>6

LEMMA QEnteredDeliveredOK ==
    ASSUME Assumptions, IInv, QInv, NEW p \in Proc, EnteredDelivered(p)
    PROVE  QInv'
<1>1. /\ entered_queued[p] > 0
      /\ process_ev_entered_cr(p, fsm_state[p], net)
      /\ UNCHANGED <<suzuki_RN, i_have_token, my_token>>
  BY DEF EnteredDelivered
<1>2. entered_queued[p] \in {0, 1}
  BY DEF IInv, EventsMatchState
<1>3. fsm_state[p] = "PS_PENDING" /\ i_have_token[p]
  BY <1>1, <1>2 DEF IInv, EventsMatchState
<1>4. NoneOf(net, TokenPacket) /\ \A q \in Proc : i_have_token[q] => q = p
  BY <1>3 DEF IInv, TokenUnique
<1>5. Good(my_token[p], suzuki_RN, fsm_state) /\ p \notin ToSet(my_token[p].pseudo_queue)
  BY <1>3 DEF QInv, HeldGood
<1>6. net \in Nets(GoodPackets(suzuki_RN, fsm_state)) /\ Addressed(net)
  BY DEF QInv
<1>7. QED
  BY <1>1, <1>3, <1>4, <1>5, <1>6, QEntered

LEMMA QExitedOK ==
    ASSUME Assumptions, IInv, QInv, NEW p \in Proc, process_ev_exited_cr(p)
    PROVE  QInv'
<1>1. exited_due[p] > 0 /\ UNCHANGED suzuki_RN
  BY DEF process_ev_exited_cr, ExitedDue
<1>2. fsm_state[p] = "PS_EXECUTING"
  BY <1>1 DEF IInv, EventsMatchState
<1> DEFINE served == CountServed(my_token[p], p)
           waiting == {q \in Proc : Eligible(served, suzuki_RN[p][q], q)}
           Requeued(added) == [served EXCEPT !.pseudo_queue = added \o @]
<1>3. PICK added \in [1 .. Cardinality(waiting) -> waiting] :
         /\ \A i, j \in DOMAIN added : i < j => added[i] > added[j]
         /\ IF Requeued(added).pseudo_queue # <<>>
            THEN SendToken(p, Requeued(added), InformExited(p))
            ELSE /\ net' = InformExited(p)
                 /\ my_token' = [my_token EXCEPT ![p] = Requeued(added)]
                 /\ UNCHANGED i_have_token
  BY <1>2 DEF process_ev_exited_cr
<1>4. /\ fsm_state \in [Proc -> State]
      /\ suzuki_RN \in [Proc -> [Proc -> Nat]]
      /\ my_token \in [Proc -> Token]
      /\ i_have_token \in [Proc -> BOOLEAN]
  BY DEF IInv, TypeOK, PeerTypeOK
<1>5. /\ fsm_state'[p] = "PS_IDLE"
      /\ \A q \in Proc : q # p => fsm_state'[q] = fsm_state[q]
  BY <1>2, <1>4 DEF process_ev_exited_cr, LeaveCriticalRegion
<1>6. /\ i_have_token[p]
      /\ NoneOf(net, TokenPacket)
      /\ \A q \in Proc : i_have_token[q] => q = p
  BY <1>2 DEF IInv, TokenUnique
<1>7. Good(my_token[p], suzuki_RN, fsm_state) /\ p \notin ToSet(my_token[p].pseudo_queue)
  BY <1>6 DEF QInv, HeldGood
<1> DEFINE queue == my_token[p].pseudo_queue
           tok == Requeued(added)
<1>8. /\ served \in Token
      /\ served.pseudo_queue = queue
      /\ served.suzuki_LN[p] = my_token[p].suzuki_LN[p] + 1
      /\ \A q \in Proc : q # p => served.suzuki_LN[q] = my_token[p].suzuki_LN[q]
  <2> DEFINE LN == [my_token[p].suzuki_LN EXCEPT ![p] = @ + 1]
  <2>1. my_token[p] \in Token /\ my_token[p].suzuki_LN \in [Proc -> Nat]
    BY <1>4 DEF Token
  <2>2. /\ LN \in [Proc -> Nat]
        /\ LN[p] = my_token[p].suzuki_LN[p] + 1
        /\ \A q \in Proc : q # p => LN[q] = my_token[p].suzuki_LN[q]
    BY <2>1
  <2>3. served = [my_token[p] EXCEPT !.suzuki_LN = LN]
    BY DEF CountServed
  <2> HIDE DEF LN, served
  <2>4. QED
    BY <2>1, <2>2, <2>3 DEF Token
<1>9. tok \in Token /\ tok.pseudo_queue = added \o queue /\ tok.suzuki_LN = served.suzuki_LN
  <2>1. waiting \in SUBSET Proc /\ my_token[p] \in Token
    BY <1>4
  <2> HIDE DEF waiting
  <2>2. tok \in Token
    BY <2>1, TokenAfterExit DEF Assumptions
  <2> HIDE DEF served, queue
  <2>3. QED
    BY <1>8, <2>2 DEF Token
<1>10. queue \in Seq(Proc) /\ OneEach(queue)
       /\ \A q \in ToSet(queue) : q \in Proc /\ q # p /\ fsm_state[q] = "PS_PENDING"
  BY <1>7, ToSetOfSeq DEF Good, Token
<1>11. Counts(my_token[p], suzuki_RN, fsm_state) /\ Counts(tok, suzuki_RN', fsm_state')
  <2>1. Counts(my_token[p], suzuki_RN, fsm_state)
    BY <1>7 DEF Good
  <2> HIDE DEF served, tok, queue
  <2>2. ASSUME NEW q \in Proc PROVE suzuki_RN'[q][q] = tok.suzuki_LN[q] + Owed(fsm_state', q)
    <3>1. suzuki_RN[q][q] = my_token[p].suzuki_LN[q] + Owed(fsm_state, q)
      BY <2>1 DEF Counts
    <3>2. CASE q # p
      BY <1>1, <1>5, <1>8, <1>9, <3>1, <3>2 DEF Owed
    <3>3. CASE q = p
      <4>1. Owed(fsm_state, p) = 1 /\ Owed(fsm_state', p) = 0
        BY <1>2, <1>5 DEF Owed
      <4>2. my_token[p].suzuki_LN[p] \in Nat
        BY <1>4 DEF Token
      <4>3. QED
        BY <1>1, <1>8, <1>9, <3>1, <3>3, <4>1, <4>2
    <3>4. QED
      BY <3>2, <3>3
  <2>3. QED
    BY <2>1, <2>2 DEF Counts
<1>12. \A q \in waiting : q \in Proc /\ q # p /\ q \notin ToSet(queue) /\ fsm_state[q] = "PS_PENDING"
  <2>1. SUFFICES ASSUME NEW q \in Proc, Eligible(served, suzuki_RN[p][q], q)
                 PROVE  q # p /\ q \notin ToSet(queue) /\ fsm_state[q] = "PS_PENDING"
    OBVIOUS
  <2>2. q \notin ToSet(queue) /\ suzuki_RN[p][q] = served.suzuki_LN[q] + 1
    BY <1>8, <2>1 DEF Eligible
  <2> HIDE DEF served, queue
  <2>3. q # p
    <3>1. SUFFICES ASSUME q = p PROVE FALSE
      OBVIOUS
    <3>2. suzuki_RN[p][p] = my_token[p].suzuki_LN[p] + Owed(fsm_state, p) /\ Owed(fsm_state, p) = 1
      BY <1>2, <1>11 DEF Counts, Owed
    <3>3. my_token[p].suzuki_LN[p] \in Nat
      BY <1>4 DEF Token
    <3>4. QED
      BY <1>8, <2>2, <3>1, <3>2, <3>3
  <2>4. Eligible(my_token[p], suzuki_RN[p][q], q)
    BY <1>8, <2>2, <2>3 DEF Eligible, queue
  <2>5. suzuki_RN[p][q] \in Nat /\ suzuki_RN[p][q] <= suzuki_RN[q][q] /\ my_token[p] \in Token
    BY <1>4 DEF QInv, NotAhead
  <2>6. QED
    BY <1>6, <1>11, <2>2, <2>3, <2>4, <2>5, EligibleWaits
<1> HIDE DEF served, queue, tok, waiting, Requeued
<1>13. /\ added \in Seq(Proc)
       /\ OneEach(added)
       /\ ToSet(added) \subseteq waiting
  <2>1. Cardinality(waiting) \in Nat
    <3>1. IsFiniteSet(Proc) /\ waiting \subseteq Proc
      BY <1>12, FS_Interval DEF Proc, Assumptions, NetworkAssumption
    <3>2. QED
      BY <3>1, FS_Subset, FS_CardinalityType
  <2>2. /\ added \in [1 .. Cardinality(waiting) -> waiting]
        /\ added \in [1 .. Cardinality(waiting) -> Proc]
    BY <1>12
  <2>3. added \in Seq(waiting) /\ added \in Seq(Proc) /\ DOMAIN added = 1 .. Len(added)
    BY <2>1, <2>2, SeqDef, LenProperties
  <2>4. ASSUME NEW i \in 1 .. Len(added), NEW j \in 1 .. Len(added), added[i] = added[j]
        PROVE  i = j
    <3>1. Len(added) \in Nat /\ added[i] \in Proc /\ added[j] \in Proc
      BY <2>3, LenProperties, ElementOfSeq
    <3>2. ~(i < j) /\ ~(j < i)
      <4>1. added[i] \in Nat /\ added[j] \in Nat
        BY <3>1 DEF Proc
      <4>2. QED
        BY <1>3, <2>3, <2>4, <4>1
    <3>3. QED
      BY <3>1, <3>2
  <2>5. QED
    BY <2>3, <2>4, ToSetOfSeq DEF OneEach
<1>14. Good(tok, suzuki_RN', fsm_state') /\ p \notin ToSet(tok.pseudo_queue)
  <2>1. ToSet(added) \cap ToSet(queue) = {}
    BY <1>12, <1>13
  <2>2. OneEach(added \o queue) /\ ToSet(added \o queue) = ToSet(added) \cup ToSet(queue)
    BY <1>10, <1>13, <2>1, ConcatOneEach
  <2>3. \A q \in ToSet(tok.pseudo_queue) : q # p /\ fsm_state'[q] = "PS_PENDING"
    BY <1>5, <1>9, <1>10, <1>12, <1>13, <2>2
  <2>4. QED
    BY <1>9, <1>11, <2>2, <2>3 DEF Good
<1> DEFINE n == InformExited(p)
<1>15. n \in Nets(GoodPackets(suzuki_RN', fsm_state')) /\ Addressed(n)
  <2>1. net \in Nets(GoodPackets(suzuki_RN', fsm_state')) /\ Addressed(net)
    BY <1>1, <1>4, <1>6, RequestsStayGood DEF QInv
  <2>2. p \in Node /\ SUPERVISOR_PID \in Node
    BY PidFacts DEF Assumptions
  <2>3. Packet(p, SUPERVISOR_PID, [type |-> "EXITED"]) \in GoodPackets(suzuki_RN', fsm_state')
    BY <2>2, SupPacketFacts, SupPacketsGood
  <2>4. QED
    BY <2>1, <2>2, <2>3, SendProperties, SendAddressed DEF InformExited
<1>16. NotAhead(suzuki_RN')
  BY <1>1 DEF QInv
<1> HIDE DEF n
<1>17. CASE tok.pseudo_queue # <<>>
  <2>1. SendToken(p, tok, n)
    BY <1>3, <1>17 DEF tok, n
  <2>2. net' \in Nets(GoodPackets(suzuki_RN', fsm_state')) /\ Addressed(net')
    BY <1>14, <1>15, <2>1, TokenSentGood DEF Assumptions
  <2>3. \A q \in Proc : ~i_have_token'[q]
    BY <1>4, <1>6, <2>1 DEF SendToken
  <2>4. QED
    BY <1>16, <2>2, <2>3 DEF QInv, HeldGood
<1>18. CASE tok.pseudo_queue = <<>>
  <2>1. net' = n /\ my_token' = [my_token EXCEPT ![p] = tok] /\ i_have_token' = i_have_token
    BY <1>3, <1>18 DEF tok, n
  <2>2. my_token'[p] = tok
    BY <1>4, <2>1
  <2>3. HeldGood(i_have_token', my_token', suzuki_RN', fsm_state')
    BY <1>6, <1>14, <2>1, <2>2 DEF HeldGood
  <2>4. QED
    BY <1>15, <1>16, <2>1, <2>3 DEF QInv
<1>19. QED
  BY <1>17, <1>18

-----------------------------------------------------------------------------
(* Every step: one case per action. *)
LEMMA QNextOK == ASSUME Assumptions, IInv, QInv, [Next]_vars PROVE QInv'
<1>1. CASE SupervisorNext
  BY <1>1, QSupervisorNextOK
<1>2. ASSUME NEW p \in Proc, PeerNext(p) PROVE QInv'
  <2>1. CASE handle_message(p)
    <3>1. PICK slot \in Receivable(p) :
             \/ SupervisorMsgNoted(p, slot) /\ UNCHANGED suzukiVars
             \/ process_ev_want_cr(p, slot)
             \/ RequestWithToken(p, slot)
             \/ RequestNoted(p, slot)
             \/ TokenReceived(p, slot)
      BY <2>1 DEF handle_message
    <3>2. QED
      BY <3>1, QNotedOK, QWantOK, QRequestWithTokenOK, QRequestNotedOK, QTokenReceivedOK
  <2>2. CASE EnteredDelivered(p)
    BY <2>2, QEnteredDeliveredOK
  <2>3. CASE process_ev_exited_cr(p)
    BY <2>3, QExitedOK
  <2>4. CASE sendto(p) /\ UNCHANGED <<exit_request, peerVars, suzukiVars>>
    BY <2>4, QSendtoOK
  <2>5. QED
    BY <1>2, <2>1, <2>2, <2>3, <2>4 DEF PeerNext
<1>3. CASE UNCHANGED vars
  BY <1>3 DEF vars, peerVars, suzukiVars, QInv
<1>4. QED
  BY <1>1, <1>2, <1>3 DEF Next

LEMMA QInvariance == Spec => [](IInv /\ QInv)
<1>1. Init => IInv /\ QInv
  BY Assumed, InitOK, QInitOK
<1>2. IInv /\ QInv /\ [Next]_vars => IInv' /\ QInv'
  BY Assumed, NextOK, QNextOK
<1>3. QED
  BY <1>1, <1>2, PTL DEF Spec

(* A packet on its way is at some place on some lane. *)
LEMMA PacketsGood ==
    ASSUME QInv, NEW pkt \in Packets
    PROVE  pkt \in GoodPackets(suzuki_RN, fsm_state)
<1>1. DOMAIN net = Lane /\ net \in Nets(GoodPackets(suzuki_RN, fsm_state))
  BY DEF QInv, Nets
<1>2. PICK l \in Lane : pkt \in ToSet(net[l])
  BY <1>1 DEF Packets
<1>3. net[l] \in Seq(GoodPackets(suzuki_RN, fsm_state))
  BY <1>1 DEF Nets
<1>4. QED
  BY <1>2, <1>3, ToSetOfSeq

LEMMA TokensGood ==
    ASSUME QInv, NEW tok \in Tokens
    PROVE  Good(tok, suzuki_RN, fsm_state)
<1>1. CASE \E p \in Proc : i_have_token[p] /\ tok = my_token[p]
  BY <1>1 DEF QInv, HeldGood
<1>2. CASE \E pkt \in TokensInFlight : tok = pkt.msg.token
  <2>1. PICK pkt \in Packets : pkt.msg.type = "REPLY" /\ tok = pkt.msg.token
    BY <1>2 DEF TokensInFlight
  <2>2. GoodReply(pkt, suzuki_RN, fsm_state)
    BY PacketsGood DEF GoodPackets
  <2>3. QED
    BY <2>1, <2>2 DEF GoodReply
<1>3. QED
  BY <1>1, <1>2 DEF Tokens

(***************************************************************************)
(* LN counts the served requests of every process exactly, wherever the    *)
(* token is: no request is served twice and none is passed over, however   *)
(* late requests arrive.                                                   *)
(***************************************************************************)
THEOREM ServedExactly == Spec => []ServedAreCounted
<1>1. QInv => ServedAreCounted
  BY TokensGood DEF ServedAreCounted, Good, Counts, Owed
<1>2. QED
  BY <1>1, QInvariance, PTL

(***************************************************************************)
(* Whoever is in the token's queue waits for it, and the token is never on *)
(* its way to a peer that would drop it.                                   *)
(***************************************************************************)
THEOREM TokenNeverDropped == Spec => []TokenIsWanted
<1>1. ASSUME QInv PROVE TokenIsWanted
  <2>1. ASSUME NEW tok \in Tokens, NEW q \in ToSet(tok.pseudo_queue)
        PROVE  fsm_state[q] = "PS_PENDING"
    BY <1>1, TokensGood DEF Good
  <2>2. ASSUME NEW pkt \in TokensInFlight, pkt.dst \in Proc
        PROVE  fsm_state[pkt.dst] = "PS_PENDING"
    BY <1>1, <2>2, PacketsGood DEF TokensInFlight, GoodPackets, GoodReply
  <2>3. QED
    BY <2>1, <2>2 DEF TokenIsWanted
<1>2. QED
  BY <1>1, QInvariance, PTL

-----------------------------------------------------------------------------
(***************************************************************************)
(* The supervisor's view, on networks that keep the order of the packets   *)
(* between two nodes.                                                      *)
(***************************************************************************)
VInv ==
    /\ Placed(net)
    /\ Sight(PacketType, net, fsm_state, nodes)
    /\ Counted

LEMMA PacketKinds ==
    /\ TypesApart(PacketType)
    /\ \A pkt \in PacketType : pkt.dst \in Node
<1>1. \A msg \in PeerMsg : msg.type \in {"REQUEST", "REPLY"}
  BY DEF PeerMsg, TokenMsg
<1>2. QED
  BY <1>1 DEF TypesApart, SupTypes, PacketType

LEMMA PeerMessages ==
    /\ \A p, req_no : REQUEST(p, req_no) \notin SupMsg
    /\ \A p, tok : REPLY(p, tok) \notin SupMsg
BY DEF REQUEST, REPLY, SupMsg

LEMMA VInitOK == ASSUME Assumptions, Init PROVE VInv
<1>1. Placed(net) /\ Counted
  BY NothingPlaced, CountedInit DEF Init, Assumptions
<1>2. Sight(PacketType, net, fsm_state, nodes)
  BY SightInit DEF Init, PeerInit, SupInit
<1>3. QED
  BY <1>1, <1>2 DEF VInv

(* The count is the supervisor's business. *)
LEMMA CountUntouched ==
    ASSUME VInv, UNCHANGED supVars, Placed(net'), Sight(PacketType, net', fsm_state', nodes)
    PROVE  VInv'
BY DEF VInv, Counted, Awaited, supVars

LEMMA VSupervisorNextOK ==
    ASSUME Net # "udp", Assumptions, IInv, VInv, SupervisorNext
    PROVE  VInv'
<1>1. UNCHANGED fsm_state
  BY DEF SupervisorNext, peerVars
<1>2. /\ net \in Nets(PacketType) /\ Placed(net) /\ SupTypeOK
      /\ Sight(PacketType, net, fsm_state, nodes) /\ Counted
  BY DEF IInv, TypeOK, VInv, Nets
<1>3. CASE SupNext
  <2>1. Placed(net')
    BY <1>2, <1>3, SupPacketKind, SupervisorPlaced DEF Assumptions
  <2>2. Sight(PacketType, net', fsm_state, nodes')
    BY <1>2, <1>3, SupPacketKind, PacketKinds, SightSupervisor DEF Assumptions
  <2>3. Counted'
    BY <1>2, <1>3, SupPacketKind, PacketKinds, CountedSupervisor DEF Assumptions
  <2>4. QED
    BY <1>1, <2>1, <2>2, <2>3 DEF VInv
<1>4. CASE sendto(SUPERVISOR_PID) /\ UNCHANGED <<supVars, exit_request>>
  <2>1. Placed(net') /\ Sight(PacketType, net', fsm_state, nodes)
    BY <1>2, <1>4, PacketKinds, PidFacts, SendtoPlaced, SightSendto DEF Assumptions
  <2>2. QED
    BY <1>1, <1>4, <2>1, CountUntouched
<1>5. QED
  BY <1>3, <1>4 DEF SupervisorNext

(* A packet of the algorithm that p receives. *)
LEMMA VMessageTaken ==
    ASSUME Assumptions, IInv, VInv, NEW p \in Proc, NEW slot \in Receivable(p)
    PROVE  /\ p \in Node
           /\ net \in Nets(PacketType) /\ Placed(net) /\ fsm_state \in [Proc -> State]
           /\ Sight(PacketType, net, fsm_state, nodes)
           /\ dme_recv_msg(slot) \in Nets(PacketType)
           /\ Placed(dme_recv_msg(slot))
           /\ PeerMsgAt(p, slot) => Sight(PacketType, dme_recv_msg(slot), fsm_state, nodes)
<1>1. /\ p \in Node /\ net \in Nets(PacketType) /\ Placed(net)
      /\ fsm_state \in [Proc -> State]
      /\ Sight(PacketType, net, fsm_state, nodes)
  BY PidFacts DEF Assumptions, IInv, TypeOK, PeerTypeOK, VInv, Nets
<1>2. dme_recv_msg(slot) \in Nets(PacketType) /\ Placed(dme_recv_msg(slot))
  BY <1>1, ReceiveProperties, ReceivePlaced
<1>3. PeerMsgAt(p, slot) => Sight(PacketType, dme_recv_msg(slot), fsm_state, nodes)
  BY <1>1, SightOthers DEF PeerMsgAt, Assumptions
<1>4. QED
  BY <1>1, <1>2, <1>3

(* The token goes to some node, in a packet of the algorithm. *)
LEMMA VTokenSent ==
    ASSUME Assumptions, NEW p \in Proc, NEW n \in Nets(PacketType), Placed(n),
           NEW tok \in Token, SendToken(p, tok, n), NEW st, Sight(PacketType, n, st, nodes)
    PROVE  Placed(net') /\ Sight(PacketType, net', st, nodes)
<1> DEFINE dst == FinalElement(tok)
           popped == request_queue_pop(tok)
           pkt == Packet(p, dst, REPLY(p, popped))
<1>1. popped \in Token /\ dst \in Node /\ p \in Node
  BY TokenOperations, PidFacts DEF Assumptions
<1>2. pkt \in PacketType
  BY <1>1, TokenPacketKind DEF Assumptions
<1>3. net' = dme_send_msg(n, p, dst, REPLY(p, popped))
  BY DEF SendToken
<1>4. pkt.msg \notin SupMsg
  BY PeerMessages DEF Packet
<1> HIDE DEF dst, popped
<1>5. net' \in Nets(PacketType) /\ Placed(net') /\ Sent(n, net', {pkt})
  BY <1>1, <1>2, <1>3, OneTold
<1>6. Sight(PacketType, net', st, nodes)
  BY <1>4, <1>5, SightSent DEF Assumptions
<1>7. QED
  BY <1>5, <1>6

LEMMA VWantOK ==
    ASSUME Assumptions, IInv, VInv, NEW p \in Proc, NEW slot \in Receivable(p),
           process_ev_want_cr(p, slot), SupervisorUnchanged
    PROVE  VInv'
<1> DEFINE m == dme_recv_msg(slot)
           req_no == suzuki_RN[p][p] + 1
           New == {Packet(p, d, REQUEST(p, req_no)) : d \in Proc \ {p}}
<1>1. /\ p \in Node /\ m \in Nets(PacketType) /\ Placed(m)
      /\ net \in Nets(PacketType) /\ Placed(net) /\ fsm_state \in [Proc -> State]
      /\ Sight(PacketType, net, fsm_state, nodes)
  BY VMessageTaken
<1>2. /\ fsm_state' = [fsm_state EXCEPT ![p] = "PS_PENDING"]
      /\ IF i_have_token[p] THEN net' = m ELSE net' = dme_broadcast_msg(m, p, REQUEST(p, req_no))
      /\ PacketAt(slot).msg \in SupMsg /\ PacketAt(slot).msg.type = "WANT"
  BY DEF process_ev_want_cr, SupervisorMsgAt, IsWant
<1>3. Sight(PacketType, m, fsm_state', nodes)
  BY <1>1, <1>2, SightWanted DEF Assumptions
<1>4. \A d \in Proc \ {p} : Packet(p, d, REQUEST(p, req_no)) \in PacketType
  <2>1. req_no \in Nat
    BY DEF IInv, TypeOK
  <2>2. QED
    BY <2>1, RequestPacketKind, PidFacts DEF Assumptions
<1>5. \A pkt \in New : pkt.msg \notin SupMsg
  BY PeerMessages DEF Packet
<1> HIDE DEF m, req_no
<1>6. Placed(net') /\ Sight(PacketType, net', fsm_state', nodes)
  <2>1. CASE net' = m
    BY <1>1, <1>3, <2>1
  <2>2. CASE net' = dme_broadcast_msg(m, p, REQUEST(p, req_no))
    <3>1. net' \in Nets(PacketType) /\ Placed(net') /\ Sent(m, net', New)
      BY <1>1, <1>4, <2>2, OthersTold DEF Assumptions
    <3> HIDE DEF New
    <3>2. QED
      BY <1>1, <1>3, <1>5, <3>1, SightSent DEF Assumptions
  <2>3. QED
    BY <1>2, <2>1, <2>2
<1>7. QED
  BY <1>6, CountUntouched DEF SupervisorUnchanged

LEMMA VRequestWithTokenOK ==
    ASSUME Assumptions, IInv, VInv, NEW p \in Proc, NEW slot \in Receivable(p),
           RequestWithToken(p, slot), SupervisorUnchanged
    PROVE  VInv'
<1> DEFINE msg == PacketAt(slot).msg
           rn  == LargerOf(suzuki_RN[p][msg.pid], msg.req_no)
           tok == IF Eligible(my_token[p], rn, msg.pid)
                  THEN request_queue_insert(my_token[p], msg.pid)
                  ELSE my_token[p]
<1>1. /\ msg.type = "REQUEST" /\ SendToken(p, tok, dme_recv_msg(slot))
      /\ PeerMsgAt(p, slot) /\ UNCHANGED fsm_state
  BY DEF RequestWithToken, peerVars
<1>2. msg.pid \in Proc
  BY <1>1, MessageTaken, PacketFields
<1>3. tok \in Token
  <2>1. my_token[p] \in Token
    BY DEF IInv, TypeOK
  <2>2. request_queue_insert(my_token[p], msg.pid) \in Token
    BY <1>2, <2>1, TokenOperations DEF Assumptions
  <2>3. QED
    BY <2>1, <2>2
<1> HIDE DEF tok
<1>4. /\ dme_recv_msg(slot) \in Nets(PacketType) /\ Placed(dme_recv_msg(slot))
      /\ Sight(PacketType, dme_recv_msg(slot), fsm_state, nodes)
  BY <1>1, VMessageTaken
<1>5. Placed(net') /\ Sight(PacketType, net', fsm_state, nodes)
  BY <1>1, <1>3, <1>4, VTokenSent
<1>6. QED
  BY <1>1, <1>5, CountUntouched DEF SupervisorUnchanged

(* process_ev_entered_cr of a pending process, in front of the network n. *)
LEMMA VEntered ==
    ASSUME Assumptions, IInv, VInv, NEW p \in Proc, fsm_state[p] = "PS_PENDING",
           NEW n \in Nets(PacketType), Placed(n), Sight(PacketType, n, fsm_state, nodes),
           process_ev_entered_cr(p, fsm_state[p], n), SupervisorUnchanged
    PROVE  VInv'
<1>1. /\ net' = dme_send_msg(n, p, SUPERVISOR_PID, [type |-> "ENTERED"])
      /\ fsm_state' = [fsm_state EXCEPT ![p] = "PS_EXECUTING"]
  BY DEF process_ev_entered_cr
<1>2. fsm_state \in [Proc -> State] /\ SupPackets \subseteq PacketType
  BY SupPacketKind DEF IInv, TypeOK, PeerTypeOK
<1>3. Placed(net')
  BY <1>1, <1>2, SupervisorTold DEF Assumptions
<1>4. Sight(PacketType, net', fsm_state', nodes)
  BY <1>1, <1>2, SightEntered DEF Assumptions
<1>5. QED
  BY <1>3, <1>4, CountUntouched DEF SupervisorUnchanged

LEMMA VExitedOK ==
    ASSUME Assumptions, IInv, VInv, NEW p \in Proc, process_ev_exited_cr(p), SupervisorUnchanged
    PROVE  VInv'
<1> DEFINE served == CountServed(my_token[p], p)
           waiting == {q \in Proc : Eligible(served, suzuki_RN[p][q], q)}
           Requeued(added) == [served EXCEPT !.pseudo_queue = added \o @]
           m == InformExited(p)
<1>1. fsm_state[p] = "PS_EXECUTING"
  BY DEF process_ev_exited_cr, ExitedDue, IInv, EventsMatchState
<1>2. PICK added \in [1 .. Cardinality(waiting) -> waiting] :
         IF Requeued(added).pseudo_queue # <<>>
         THEN SendToken(p, Requeued(added), m)
         ELSE net' = m
  BY <1>1 DEF process_ev_exited_cr
<1>3. fsm_state' = [fsm_state EXCEPT ![p] = "PS_IDLE"]
  BY <1>1 DEF process_ev_exited_cr, LeaveCriticalRegion
<1>4. Requeued(added) \in Token
  <2>1. my_token[p] \in Token
    BY DEF IInv, TypeOK
  <2>2. waiting \in SUBSET Proc
    OBVIOUS
  <2> HIDE DEF waiting
  <2>3. QED
    BY <2>1, <2>2, TokenAfterExit DEF Assumptions
<1> DEFINE tok == Requeued(added)
<1> HIDE DEF waiting, served, Requeued
<1>5. net \in Nets(PacketType) /\ Placed(net) /\ fsm_state \in [Proc -> State]
      /\ Sight(PacketType, net, fsm_state, nodes) /\ SupPackets \subseteq PacketType
  BY SupPacketKind DEF IInv, TypeOK, PeerTypeOK, VInv, Nets
<1>6. /\ m \in Nets(PacketType) /\ Placed(m)
      /\ Sight(PacketType, m, fsm_state', nodes)
  <2>1. m \in Nets(PacketType) /\ Placed(m)
    BY <1>5, SupervisorTold DEF Assumptions, InformExited
  <2>2. Sight(PacketType, m, fsm_state', nodes)
    BY <1>1, <1>3, <1>5, SightExited DEF Assumptions, InformExited
  <2>3. QED
    BY <2>1, <2>2
<1> HIDE DEF m, tok
<1>7. Placed(net') /\ Sight(PacketType, net', fsm_state', nodes)
  <2>1. CASE SendToken(p, tok, m)
    BY <1>4, <1>6, <2>1, VTokenSent DEF tok
  <2>2. CASE net' = m
    BY <1>6, <2>2
  <2>3. QED
    BY <1>2, <2>1, <2>2 DEF tok
<1>8. QED
  BY <1>7, CountUntouched DEF SupervisorUnchanged

LEMMA VNextOK ==
    ASSUME Net # "udp", Assumptions, IInv, VInv, [Next]_vars
    PROVE  VInv'
<1>1. CASE SupervisorNext
  BY <1>1, VSupervisorNextOK
<1>2. ASSUME NEW p \in Proc, PeerNext(p) PROVE VInv'
  <2>1. SupervisorUnchanged
    BY <1>2 DEF PeerNext
  <2>2. ASSUME NEW slot \in Receivable(p), SupervisorMsgNoted(p, slot) PROVE VInv'
    <3>1. /\ net \in Nets(PacketType) /\ Placed(net) /\ Placed(dme_recv_msg(slot))
          /\ Sight(PacketType, net, fsm_state, nodes)
      BY VMessageTaken
    <3>2. net' = dme_recv_msg(slot) /\ UNCHANGED fsm_state
      BY <2>2 DEF SupervisorMsgNoted, peerVars
    <3>3. Sight(PacketType, net', fsm_state, nodes)
      BY <2>2, <3>1, SightNoted DEF Assumptions
    <3>4. QED
      BY <2>1, <3>1, <3>2, <3>3, CountUntouched DEF SupervisorUnchanged
  <2>3. ASSUME NEW slot \in Receivable(p), RequestNoted(p, slot) PROVE VInv'
    <3>1. net' = dme_recv_msg(slot) /\ UNCHANGED fsm_state /\ PeerMsgAt(p, slot)
      BY <2>3 DEF RequestNoted, peerVars
    <3>2. Placed(net') /\ Sight(PacketType, net', fsm_state, nodes)
      BY <3>1, VMessageTaken
    <3>3. QED
      BY <2>1, <3>1, <3>2, CountUntouched DEF SupervisorUnchanged
  <2>4. ASSUME NEW slot \in Receivable(p), TokenReceived(p, slot) PROVE VInv'
    <3>1. /\ dme_recv_msg(slot) \in Nets(PacketType) /\ Placed(dme_recv_msg(slot))
          /\ Sight(PacketType, dme_recv_msg(slot), fsm_state, nodes)
      BY <2>4, VMessageTaken DEF TokenReceived
    <3>2. CASE fsm_state[p] = "PS_PENDING"
      BY <2>1, <2>4, <3>1, <3>2, VEntered DEF TokenReceived
    <3>3. CASE fsm_state[p] # "PS_PENDING"
      BY <2>1, <2>4, <3>1, <3>3, CountUntouched DEF TokenReceived, peerVars, SupervisorUnchanged
    <3>4. QED
      BY <3>2, <3>3
  <2>5. CASE EnteredDelivered(p)
    <3>1. fsm_state[p] = "PS_PENDING"
      BY <2>5 DEF EnteredDelivered, IInv, EventsMatchState
    <3>2. net \in Nets(PacketType) /\ Placed(net) /\ Sight(PacketType, net, fsm_state, nodes)
      BY DEF IInv, TypeOK, VInv, Nets
    <3>3. QED
      BY <2>1, <2>5, <3>1, <3>2, VEntered DEF EnteredDelivered
  <2>6. CASE sendto(p) /\ UNCHANGED <<exit_request, peerVars, suzukiVars>>
    <3>1. net \in Nets(PacketType) /\ Placed(net) /\ p \in Node
          /\ Sight(PacketType, net, fsm_state, nodes)
      BY PidFacts DEF IInv, TypeOK, VInv, Nets, Assumptions
    <3>2. Placed(net') /\ Sight(PacketType, net', fsm_state, nodes)
      BY <2>6, <3>1, PacketKinds, SendtoPlaced, SightSendto DEF Assumptions
    <3>3. QED
      BY <2>1, <2>6, <3>2, CountUntouched DEF SupervisorUnchanged, peerVars
  <2>7. QED
    BY <1>2, <2>1, <2>2, <2>3, <2>4, <2>5, <2>6, VWantOK, VRequestWithTokenOK, VExitedOK
       DEF PeerNext, handle_message
<1>3. CASE UNCHANGED vars
  BY <1>3, CountUntouched DEF vars, peerVars, VInv
<1>4. QED
  BY <1>1, <1>2, <1>3 DEF Next

LEMMA VInvariance == ASSUME Net # "udp" PROVE Spec => []VInv
<1>1. Init => VInv
  BY Assumed, VInitOK
<1>2. IInv /\ VInv /\ [Next]_vars => VInv'
  BY Assumed, VNextOK
<1>3. QED
  BY <1>1, <1>2, Invariance, PTL DEF Spec

(***************************************************************************)
(* A WANT finds its peer idle, so that no election is dropped.  (A network *)
(* that reorders the ENTERED and the EXITED of a peer breaks it.)          *)
(***************************************************************************)
THEOREM WantsFindIdle == ASSUME Net # "udp" PROVE Spec => []WantFindsIdle
<1>1. IInv /\ VInv => WantFindsIdle
  BY Assumed, PacketKinds, SeenWantsFindIdle DEF IInv, TypeOK, VInv, Nets, Assumptions
<1>2. QED
  BY <1>1, Invariance, VInvariance, PTL

(***************************************************************************)
(* A test gets no more responses than it elected processes: the arrays     *)
(* process_messages stores the response times in are not overrun.          *)
(***************************************************************************)
THEOREM NoResponseTooMany == ASSUME Net # "udp" PROVE Spec => []ResponsesFit
<1>1. IInv /\ VInv => ResponsesFit
  BY Assumed, CountedFit DEF IInv, TypeOK, VInv, Assumptions
<1>2. QED
  BY <1>1, Invariance, VInvariance, PTL

-----------------------------------------------------------------------------
(***************************************************************************)
(* The token is kept, on one host.  Only the supervisor could lose it: an  *)
(* idle holder that reads a stale request, of a peer it has served since   *)
(* or one that is not that peer's last, sends the token to node 0.  But a  *)
(* request is stale only when the token has been to its sender, which was  *)
(* after the request was put into every buffer; so stale requests are read *)
(* before the token is.                                                    *)
(***************************************************************************)

(* The packets on one host: no algorithm's packet is for the supervisor. *)
HostPackets ==
    {pkt \in PacketType :
        /\ pkt.msg \notin SupMsg => pkt.dst \in Proc
        /\ pkt.msg.type = "REQUEST" => pkt.msg.pid = pkt.src /\ pkt.src # pkt.dst}

Requests == {pkt \in HostPackets : pkt.msg.type = "REQUEST"}

Stale(rn, st) ==
    {pkt \in Requests :
        st[pkt.msg.pid] = "PS_IDLE" \/ pkt.msg.req_no # rn[pkt.msg.pid][pkt.msg.pid]}

To(c, T) == {pkt \in T : pkt.dst = c}

StaleFirst(n, held, T) ==
    /\ HandedOver(n, T)
    /\ \A c \in Proc : /\ held[c] => NoneOf(n, To(c, T))
                       /\ InOrder(n, To(c, T), To(c, TokenPacket))

Somewhere(n, held) == (\E p \in Proc : held[p]) \/ ~NoneOf(n, TokenPacket)

KInv ==
    /\ net \in Nets(HostPackets)
    /\ StaleFirst(net, i_have_token, Stale(suzuki_RN, fsm_state))
    /\ Somewhere(net, i_have_token)

LEMMA HostPacketKinds ==
    ASSUME NetworkAssumption
    PROVE  /\ HostPackets \subseteq PacketType /\ SupPackets \subseteq HostPackets
           /\ TypesApart(HostPackets) /\ \A pkt \in HostPackets : pkt.dst \in Node
           /\ \A pkt \in SupPackets : pkt \notin Requests /\ pkt \notin TokenPacket
           /\ \A pkt \in TokenPacket : pkt.msg \notin SupMsg
<1>1. HostPackets \subseteq PacketType
  BY DEF HostPackets
<1>2. \A msg \in SupMsg : msg.type # "REQUEST" /\ msg.type # "REPLY"
  BY DEF SupMsg
<1>3. SupPackets \subseteq PacketType
  BY SupPacketKind
<1>4. \A pkt \in SupPackets : pkt.msg \in SupMsg
  BY DEF SupPackets
<1>5. SupPackets \subseteq HostPackets
  BY <1>2, <1>3, <1>4 DEF HostPackets
<1>6. \A pkt \in TokenPacket : pkt.msg.type = "REPLY"
  BY DEF TokenPacket, TokenMsg
<1>7. TypesApart(HostPackets)
  BY <1>1, PacketKinds DEF TypesApart
<1>8. QED
  BY <1>1, <1>2, <1>4, <1>5, <1>6, <1>7, PacketKinds DEF Requests

LEMMA HostNet == Nets(HostPackets) \subseteq Nets(PacketType)
<1>1. HostPackets \subseteq PacketType
  BY DEF HostPackets
<1>2. QED
  BY <1>1, Widened

LEMMA LessStale ==
    ASSUME NEW n, NEW held, NEW held2, NEW T, NEW T2, StaleFirst(n, held, T), T2 \subseteq T,
           \A c \in Proc : held2[c] => held[c]
    PROVE  StaleFirst(n, held2, T2)
<1>1. \A c : To(c, T2) \subseteq To(c, T)
  BY DEF To
<1>2. HandedOver(n, T2)
  BY DEF StaleFirst, HandedOver
<1>3. \A c \in Proc : held2[c] => NoneOf(n, To(c, T2))
  BY <1>1 DEF StaleFirst, NoneOf
<1>4. \A c \in Proc : InOrder(n, To(c, T2), To(c, TokenPacket))
  BY <1>1 DEF StaleFirst, InOrder
<1>5. QED
  BY <1>2, <1>3, <1>4 DEF StaleFirst

(* A peer's request is stale while it is idle, or when it is not its last. *)
LEMMA StillCurrent ==
    ASSUME NEW rn, NEW st, NEW rn2, NEW st2,
           \A q \in Proc : rn2[q][q] = rn[q][q] /\ (st2[q] = "PS_IDLE" => st[q] = "PS_IDLE")
    PROVE  Stale(rn2, st2) \subseteq Stale(rn, st)
<1>1. \A pkt \in Requests : pkt.msg.pid \in Proc
  BY PacketFields DEF Requests, HostPackets
<1>2. QED
  BY <1>1 DEF Stale

LEMMA StaleReceived ==
    ASSUME Net = "loopback", net \in Nets(HostPackets), Placed(net), NEW p \in Node,
           NEW slot \in Receivable(p), NEW held \in [Proc -> BOOLEAN], NEW T,
           StaleFirst(net, held, T)
    PROVE  /\ StaleFirst(dme_recv_msg(slot), held, T)
           /\ p \in Proc /\ held[p] => PacketAt(slot) \notin T
           /\ p \in Proc /\ PacketAt(slot) \in TokenPacket =>
                 StaleFirst(dme_recv_msg(slot), [held EXCEPT ![p] = TRUE], T)
<1> DEFINE m == dme_recv_msg(slot)
<1>1. PacketAt(slot).dst = p
  BY ReceivePlaced
<1>2. HandedOver(m, T)
  BY ReceivedOnHost DEF StaleFirst
<1>3. \A c \in Proc : held[c] => NoneOf(m, To(c, T))
  BY ReceiveProperties DEF StaleFirst
<1>4. \A c \in Proc : InOrder(m, To(c, T), To(c, TokenPacket))
  BY ReceiveInOrder DEF StaleFirst
<1>5. ASSUME p \in Proc, held[p] PROVE PacketAt(slot) \notin T
  <2>1. NoneOf(net, To(p, T))
    BY <1>5 DEF StaleFirst
  <2>2. PacketAt(slot) \notin To(p, T)
    BY <2>1, ReceiveProperties
  <2>3. QED
    BY <1>1, <2>2 DEF To
<1>6. ASSUME p \in Proc, PacketAt(slot) \in TokenPacket PROVE NoneOf(m, To(p, T))
  <2>1. PacketAt(slot) \in To(p, TokenPacket)
    BY <1>1, <1>6 DEF To
  <2>2. InOrder(net, To(p, T), To(p, TokenPacket)) /\ Net # "udp"
    BY <1>6 DEF StaleFirst
  <2>3. NoneOf(net, To(p, T))
    BY <2>1, <2>2, ReceiveInOrder
  <2>4. QED
    BY <2>3, ReceiveProperties
<1> HIDE DEF m
<1>7. \A c \in Proc : c # p => [held EXCEPT ![p] = TRUE][c] = held[c]
  OBVIOUS
<1>8. QED
  BY <1>2, <1>3, <1>4, <1>5, <1>6, <1>7 DEF StaleFirst, m

LEMMA StaleSent ==
    ASSUME Net = "loopback", NEW n \in Nets(HostPackets), NEW m \in Nets(HostPackets),
           NEW New, Sent(n, m, New), NEW held, NEW T, New \cap T = {}, StaleFirst(n, held, T)
    PROVE  StaleFirst(m, held, T)
<1>1. HandedOver(m, T)
  BY SentWaits DEF StaleFirst
<1>2. ASSUME NEW c \in Proc
      PROVE  /\ held[c] => NoneOf(m, To(c, T))
             /\ InOrder(m, To(c, T), To(c, TokenPacket))
  <2>1. New \cap To(c, T) = {}
    BY DEF To
  <2>2. HandedOver(n, To(c, T))
    BY DEF StaleFirst, HandedOver, To
  <2>3. held[c] => NoneOf(m, To(c, T))
    BY <2>1, SentProperties DEF StaleFirst
  <2>4. InOrder(n, To(c, T), To(c, TokenPacket))
    BY DEF StaleFirst
  <2>5. InOrder(m, To(c, T), To(c, TokenPacket))
    BY <2>1, <2>2, <2>4, SentWaits
  <2>6. QED
    BY <2>3, <2>5
<1>3. QED
  BY <1>1, <1>2 DEF StaleFirst

LEMMA StaleSendto ==
    ASSUME Net = "loopback", NetworkAssumption, net \in Nets(HostPackets), Placed(net),
           NEW p \in Node, sendto(p), NEW held, NEW T, StaleFirst(net, held, T)
    PROVE  StaleFirst(net', held, T)
<1>1. \A pkt \in HostPackets : pkt.dst \in Node
  BY HostPacketKinds
<1>2. HandedOver(net', T)
  BY <1>1, SendtoOnHost DEF StaleFirst
<1>3. ASSUME NEW c \in Proc
      PROVE  /\ held[c] => NoneOf(net', To(c, T))
             /\ InOrder(net', To(c, T), To(c, TokenPacket))
  <2>1. HandedOver(net, To(c, T)) /\ InOrder(net, To(c, T), To(c, TokenPacket))
    BY DEF StaleFirst, HandedOver, To
  <2>2. \A one, other \in To(c, T) \cup To(c, TokenPacket) : one.dst = other.dst
    BY DEF To
  <2>3. InOrder(net', To(c, T), To(c, TokenPacket))
    BY <1>1, <2>1, <2>2, SendtoOnHost
  <2>4. held[c] => NoneOf(net', To(c, T))
    BY <1>1, SendtoProperties DEF StaleFirst
  <2>5. QED
    BY <2>3, <2>4
<1>4. QED
  BY <1>2, <1>3 DEF StaleFirst

(* The token stays where it is, or on its way. *)
LEMMA StaysSomewhere ==
    ASSUME NEW n, NEW m, NEW held, Somewhere(n, held),
           ~NoneOf(n, TokenPacket) => ~NoneOf(m, TokenPacket)
    PROVE  Somewhere(m, held)
BY DEF Somewhere

LEMMA FinalWaits ==
    ASSUME NEW tok \in Token, tok.pseudo_queue # <<>>
    PROVE  FinalElement(tok) \in Proc
<1>1. tok.pseudo_queue \in Seq(Proc)
  BY DEF Token
<1>2. Len(tok.pseudo_queue) \in 1 .. Len(tok.pseudo_queue)
  BY <1>1, LenProperties, EmptySeq
<1>3. tok.pseudo_queue[Len(tok.pseudo_queue)] \in Proc
  BY <1>1, <1>2, ElementOfSeq
<1>4. QED
  BY <1>3 DEF FinalElement, Last

(* The token is sent to a peer. *)
LEMMA KTokenSent ==
    ASSUME Net = "loopback", Assumptions, NEW p \in Proc,
           NEW n \in Nets(HostPackets), Placed(n), NEW tok \in Token,
           tok.pseudo_queue # <<>>, SendToken(p, tok, n), i_have_token \in [Proc -> BOOLEAN],
           NEW T, T \subseteq Requests, StaleFirst(n, i_have_token, T)
    PROVE  /\ net' \in Nets(HostPackets)
           /\ StaleFirst(net', i_have_token', T)
           /\ Somewhere(net', i_have_token')
<1> DEFINE dst == FinalElement(tok)
           popped == request_queue_pop(tok)
           pkt == Packet(p, dst, REPLY(p, popped))
<1>1. popped \in Token /\ dst \in Proc /\ p \in Node /\ dst \in Node
  BY TokenOperations, FinalWaits, PidFacts DEF Assumptions
<1>2. /\ pkt \in PacketType
      /\ pkt.msg.type = "REPLY" /\ pkt.dst = dst
  BY <1>1, TokenPacketKind DEF Assumptions, Packet, REPLY
<1>3. net' = dme_send_msg(n, p, dst, REPLY(p, popped))
  BY DEF SendToken
<1> HIDE DEF dst, popped
<1>4. pkt \in HostPackets /\ pkt \in TokenPacket /\ pkt \notin T
  <2> HIDE DEF pkt
  <2>1. pkt \in TokenPacket
    BY <1>2, PacketFields
  <2>2. QED
    BY <1>1, <1>2, <2>1 DEF HostPackets, Requests
<1>5. net' \in Nets(HostPackets) /\ Sent(n, net', {pkt})
  BY <1>1, <1>3, <1>4, OneTold
<1> HIDE DEF pkt
<1>6. StaleFirst(net', i_have_token, T)
  BY <1>4, <1>5, StaleSent
<1>7. \A c \in Proc : i_have_token'[c] => i_have_token[c]
  BY DEF SendToken
<1>8. StaleFirst(net', i_have_token', T)
  BY <1>6, <1>7, LessStale
<1>9. Somewhere(net', i_have_token')
  BY <1>4, <1>5, SentProperties DEF Somewhere
<1>10. QED
  BY <1>5, <1>8, <1>9

-----------------------------------------------------------------------------
(* The steps. *)
LEMMA KInitOK == ASSUME Net = "loopback", Assumptions, Init PROVE KInv
<1>1. net \in Nets(HostPackets)
  BY EmptySeq DEF Init, NetInit, Nets
<1>2. \A T : NoneOf(net, T)
  BY NothingThere DEF Init
<1>3. StaleFirst(net, i_have_token, Stale(suzuki_RN, fsm_state))
  BY <1>2, NoneHandedOver, NoneInOrder DEF StaleFirst
<1>4. 1 \in Proc /\ i_have_token[1]
  <2>1. 1 \in Proc
    BY DEF Assumptions, NetworkAssumption, Proc
  <2>2. QED
    BY <2>1 DEF Init
<1>5. QED
  BY <1>1, <1>3, <1>4 DEF KInv, Somewhere

LEMMA KSupervisorNextOK ==
    ASSUME Net = "loopback", Assumptions, IInv, VInv, KInv, SupervisorNext
    PROVE  KInv'
<1> DEFINE T == Stale(suzuki_RN, fsm_state)
<1>1. UNCHANGED <<fsm_state, suzuki_RN, i_have_token>>
  BY DEF SupervisorNext, peerVars, suzukiVars
<1>2. /\ net \in Nets(HostPackets) /\ Placed(net)
      /\ StaleFirst(net, i_have_token, T) /\ Somewhere(net, i_have_token)
      /\ T \subseteq Requests /\ SUPERVISOR_PID \in Node
      /\ i_have_token \in [Proc -> BOOLEAN]
  BY PidFacts DEF KInv, VInv, Stale, Assumptions, IInv, TypeOK
<1>3. SUFFICES /\ net' \in Nets(HostPackets)
               /\ StaleFirst(net', i_have_token, T)
               /\ ~NoneOf(net, TokenPacket) => ~NoneOf(net', TokenPacket)
  BY <1>1, <1>2, StaysSomewhere DEF KInv
<1> HIDE DEF T
<1>4. CASE SupNext
  <2>1. ASSUME NEW New \in SUBSET (FromSupervisor("SYNCRO") \cup FromSupervisor("WANT")),
               net' \in Nets(HostPackets), Sent(net, net', New)
        PROVE  StaleFirst(net', i_have_token, T)
               /\ (~NoneOf(net, TokenPacket) => ~NoneOf(net', TokenPacket))
    <3>1. \A pkt \in FromSupervisor("SYNCRO") \cup FromSupervisor("WANT") : pkt \in SupPackets
      BY <1>2, PidFacts, SupPacketFacts DEF FromSupervisor, Assumptions
    <3>2. New \cap T = {}
      BY <1>2, <3>1, HostPacketKinds DEF Assumptions
    <3>3. QED
      BY <1>2, <2>1, <3>2, StaleSent, SentProperties
  <2>2. ASSUME NEW slot \in Receivable(SUPERVISOR_PID), net' = dme_recv_msg(slot)
        PROVE  /\ net' \in Nets(HostPackets)
               /\ StaleFirst(net', i_have_token, T)
               /\ ~NoneOf(net, TokenPacket) => ~NoneOf(net', TokenPacket)
    <3>1. net' \in Nets(HostPackets) /\ PacketAt(slot) \in HostPackets
      BY <1>2, <2>2, ReceiveProperties
    <3>2. PacketAt(slot).dst \notin Proc
      BY <1>2, ReceivePlaced DEF SUPERVISOR_PID, Proc
    <3>3. PacketAt(slot) \notin TokenPacket
      BY <3>1, <3>2, HostPacketKinds DEF HostPackets, Assumptions
    <3>4. ~NoneOf(net, TokenPacket) => ~NoneOf(net', TokenPacket)
      BY <1>2, <2>2, <3>3, ReceivePlaced
    <3>5. QED
      BY <1>2, <2>2, <3>1, <3>4, StaleReceived
  <2>3. QED
    BY <1>2, <1>4, <2>1, <2>2, HostPacketKinds, SupervisorEffect DEF Assumptions
<1>5. CASE sendto(SUPERVISOR_PID)
  BY <1>2, <1>5, HostPacketKinds, StaleSendto, SendtoProperties, SendtoPlaced DEF Assumptions
<1>6. QED
  BY <1>4, <1>5 DEF SupervisorNext

(* What a handler of a message starts from. *)
LEMMA KMessageTaken ==
    ASSUME Net = "loopback", Assumptions, IInv, VInv, KInv,
           NEW p \in Proc, NEW slot \in Receivable(p)
    PROVE  LET m == dme_recv_msg(slot)
               T == Stale(suzuki_RN, fsm_state)
           IN
           /\ p \in Node /\ m \in Nets(HostPackets) /\ Placed(m)
           /\ T \subseteq Requests
           /\ PacketAt(slot) \in HostPackets /\ PacketAt(slot).dst = p
           /\ i_have_token \in [Proc -> BOOLEAN]
           /\ StaleFirst(m, i_have_token, T)
           /\ i_have_token[p] => PacketAt(slot) \notin T
           /\ PacketAt(slot) \in TokenPacket =>
                 StaleFirst(m, [i_have_token EXCEPT ![p] = TRUE], T)
           /\ PacketAt(slot) \notin TokenPacket => Somewhere(m, i_have_token)
<1>1. /\ p \in Node /\ net \in Nets(HostPackets) /\ Placed(net)
      /\ i_have_token \in [Proc -> BOOLEAN]
      /\ StaleFirst(net, i_have_token, Stale(suzuki_RN, fsm_state))
      /\ Somewhere(net, i_have_token)
  BY PidFacts DEF KInv, VInv, IInv, TypeOK, Assumptions
<1>2. Stale(suzuki_RN, fsm_state) \subseteq Requests
  BY DEF Stale
<1> DEFINE T == Stale(suzuki_RN, fsm_state)
<1> HIDE DEF T
<1>3. /\ dme_recv_msg(slot) \in Nets(HostPackets) /\ Placed(dme_recv_msg(slot))
      /\ PacketAt(slot) \in HostPackets /\ PacketAt(slot).dst = p
      /\ PacketAt(slot) \notin TokenPacket =>
            (~NoneOf(net, TokenPacket) => ~NoneOf(dme_recv_msg(slot), TokenPacket))
  BY <1>1, ReceiveProperties, ReceivePlaced
<1>4. /\ StaleFirst(dme_recv_msg(slot), i_have_token, T)
      /\ i_have_token[p] => PacketAt(slot) \notin T
      /\ PacketAt(slot) \in TokenPacket =>
            StaleFirst(dme_recv_msg(slot), [i_have_token EXCEPT ![p] = TRUE], T)
  BY <1>1, StaleReceived DEF T
<1>5. PacketAt(slot) \notin TokenPacket => Somewhere(dme_recv_msg(slot), i_have_token)
  BY <1>1, <1>3, StaysSomewhere
<1>6. QED
  BY <1>1, <1>2, <1>3, <1>4, <1>5 DEF T

LEMMA KWantOK ==
    ASSUME Net = "loopback", Assumptions, IInv, VInv, KInv, NEW p \in Proc,
           NEW slot \in Receivable(p), process_ev_want_cr(p, slot)
    PROVE  KInv'
<1> DEFINE m == dme_recv_msg(slot)
           req_no == suzuki_RN[p][p] + 1
           New == {Packet(p, d, REQUEST(p, req_no)) : d \in Proc \ {p}}
           T == Stale(suzuki_RN, fsm_state)
           T2 == Stale(suzuki_RN', fsm_state')
<1>1. /\ fsm_state[p] = "PS_IDLE"
      /\ fsm_state' = [fsm_state EXCEPT ![p] = "PS_PENDING"]
      /\ suzuki_RN' = [suzuki_RN EXCEPT ![p][p] = req_no]
      /\ IF i_have_token[p] THEN net' = m ELSE net' = dme_broadcast_msg(m, p, REQUEST(p, req_no))
      /\ PacketAt(slot).msg \in SupMsg
      /\ UNCHANGED i_have_token
  BY DEF process_ev_want_cr, SupervisorMsgAt, IsWant
<1>2. /\ p \in Node /\ m \in Nets(HostPackets) /\ Placed(m)
      /\ StaleFirst(m, i_have_token, T)
      /\ PacketAt(slot) \notin TokenPacket => Somewhere(m, i_have_token)
  BY KMessageTaken
<1>3. Somewhere(m, i_have_token)
  BY <1>1, <1>2, HostPacketKinds DEF Assumptions
<1>4. /\ fsm_state \in [Proc -> State] /\ suzuki_RN \in [Proc -> [Proc -> Nat]]
      /\ req_no \in Nat
  BY DEF IInv, TypeOK, PeerTypeOK
<1>5. /\ fsm_state'[p] = "PS_PENDING" /\ suzuki_RN'[p][p] = req_no
      /\ \A q \in Proc \ {p} :
            fsm_state'[q] = fsm_state[q] /\ suzuki_RN'[q][q] = suzuki_RN[q][q]
  BY <1>1, <1>4
<1>6. T2 \subseteq T
  <2>1. SUFFICES ASSUME NEW pkt \in T2 PROVE pkt \in T
    OBVIOUS
  <2>2. pkt \in Requests /\ pkt.msg.pid \in Proc
    BY PacketFields DEF Stale, Requests, HostPackets
  <2>3. CASE pkt.msg.pid = p
    BY <1>1, <2>2, <2>3 DEF Stale
  <2>4. CASE pkt.msg.pid # p
    BY <1>5, <2>1, <2>2, <2>4 DEF Stale
  <2>5. QED
    BY <2>3, <2>4
<1>7. \A d \in Proc \ {p} : /\ Packet(p, d, REQUEST(p, req_no)) \in HostPackets
                            /\ Packet(p, d, REQUEST(p, req_no)) \notin T2
  <2>1. SUFFICES ASSUME NEW d \in Proc \ {p}
                 PROVE  /\ Packet(p, d, REQUEST(p, req_no)) \in HostPackets
                        /\ Packet(p, d, REQUEST(p, req_no)) \notin T2
    OBVIOUS
  <2> DEFINE pkt == Packet(p, d, REQUEST(p, req_no))
  <2>2. pkt \in PacketType
    BY <1>4, RequestPacketKind, PidFacts DEF Assumptions
  <2>3. pkt.src = p /\ pkt.dst = d /\ pkt.msg.pid = p /\ pkt.msg.req_no = req_no
    BY DEF Packet, REQUEST
  <2> HIDE DEF pkt
  <2>4. pkt \in HostPackets
    BY <2>2, <2>3 DEF HostPackets
  <2>5. pkt \notin T2
    BY <1>5, <2>3 DEF Stale
  <2>6. QED
    BY <2>4, <2>5 DEF pkt
<1> HIDE DEF T, T2, m, req_no
<1>8. StaleFirst(m, i_have_token, T2)
  BY <1>2, <1>6, LessStale
<1>9. /\ net' \in Nets(HostPackets)
      /\ StaleFirst(net', i_have_token, T2)
      /\ ~NoneOf(m, TokenPacket) => ~NoneOf(net', TokenPacket)
  <2>1. CASE net' = m
    BY <1>2, <1>8, <2>1
  <2>2. CASE net' = dme_broadcast_msg(m, p, REQUEST(p, req_no))
    <3>1. net' \in Nets(HostPackets) /\ Sent(m, net', New)
      BY <1>2, <1>7, <2>2, OthersTold DEF Assumptions
    <3>2. New \cap T2 = {}
      BY <1>7
    <3> HIDE DEF New
    <3>3. QED
      BY <1>2, <1>8, <3>1, <3>2, StaleSent, SentProperties
  <2>3. QED
    BY <1>1, <2>1, <2>2
<1>10. QED
  BY <1>1, <1>3, <1>9, StaysSomewhere DEF KInv, T2

(* The request an idle holder reads is its sender's last, and not served. *)
LEMMA HolderReadsCurrent ==
    ASSUME Net = "loopback", Assumptions, IInv, QInv, VInv, KInv, NEW p \in Proc,
           NEW slot \in Receivable(p), i_have_token[p], PacketAt(slot).msg.type = "REQUEST"
    PROVE  LET q == PacketAt(slot).msg.pid
               rn == LargerOf(suzuki_RN[p][q], PacketAt(slot).msg.req_no)
           IN
           /\ q \in Proc /\ rn = suzuki_RN[q][q]
           /\ rn = my_token[p].suzuki_LN[q] + 1
<1> DEFINE pkt == PacketAt(slot)
           q == pkt.msg.pid
           req_no == pkt.msg.req_no
<1>1. pkt \in HostPackets /\ pkt \notin Stale(suzuki_RN, fsm_state)
  BY KMessageTaken
<1>2. q \in Proc /\ req_no \in Nat
  BY <1>1, PacketFields DEF HostPackets
<1>3. fsm_state[q] # "PS_IDLE" /\ req_no = suzuki_RN[q][q]
  BY <1>1 DEF Stale, Requests
<1>4. suzuki_RN[p][q] \in Nat /\ suzuki_RN[p][q] <= suzuki_RN[q][q]
  BY <1>2 DEF IInv, TypeOK, QInv, NotAhead
<1>5. suzuki_RN[q][q] = my_token[p].suzuki_LN[q] + 1
  BY <1>2, <1>3 DEF QInv, HeldGood, Good, Counts, Owed
<1> HIDE DEF q, req_no
<1>6. LargerOf(suzuki_RN[p][q], req_no) = suzuki_RN[q][q]
  BY <1>2, <1>3, <1>4 DEF LargerOf
<1>7. QED
  BY <1>2, <1>5, <1>6 DEF q, req_no

LEMMA KRequestWithTokenOK ==
    ASSUME Net = "loopback", Assumptions, IInv, QInv, VInv, KInv, NEW p \in Proc,
           NEW slot \in Receivable(p), RequestWithToken(p, slot)
    PROVE  KInv'
<1> DEFINE m   == dme_recv_msg(slot)
           q   == PacketAt(slot).msg.pid
           rn  == LargerOf(suzuki_RN[p][q], PacketAt(slot).msg.req_no)
           tok == IF Eligible(my_token[p], rn, q)
                  THEN request_queue_insert(my_token[p], q)
                  ELSE my_token[p]
           T   == Stale(suzuki_RN, fsm_state)
<1>1. /\ i_have_token[p]
      /\ PacketAt(slot).msg.type = "REQUEST"
      /\ suzuki_RN' = [suzuki_RN EXCEPT ![p][q] = rn]
      /\ SendToken(p, tok, m)
      /\ UNCHANGED fsm_state
  BY DEF RequestWithToken, peerVars
<1>2. q \in Proc /\ rn = suzuki_RN[q][q] /\ rn = my_token[p].suzuki_LN[q] + 1
  BY <1>1, HolderReadsCurrent
<1>3. my_token[p] \in Token /\ suzuki_RN \in [Proc -> [Proc -> Nat]]
  BY DEF IInv, TypeOK
<1>4. tok \in Token /\ tok.pseudo_queue # <<>>
  <2>1. CASE Eligible(my_token[p], rn, q)
    <3>1. tok \in Token
      BY <1>2, <1>3, <2>1, TokenOperations DEF Assumptions
    <3>2. tok.pseudo_queue = <<q>> \o my_token[p].pseudo_queue
      BY <1>3, <2>1 DEF request_queue_insert, Token
    <3>3. my_token[p].pseudo_queue \in Seq(Proc)
      BY <1>3 DEF Token
    <3>4. Len(tok.pseudo_queue) = 1 + Len(my_token[p].pseudo_queue)
          /\ Len(my_token[p].pseudo_queue) \in Nat
      BY <1>2, <3>2, <3>3, ConcatProperties, LenProperties
    <3>5. Len(<<>>) = 0
      OBVIOUS
    <3>6. QED
      BY <3>1, <3>4, <3>5
  <2>2. CASE ~Eligible(my_token[p], rn, q)
    <3>1. q \in ToSet(my_token[p].pseudo_queue)
      BY <1>2, <2>2 DEF Eligible
    <3>2. my_token[p].pseudo_queue # <<>>
      BY <3>1 DEF ToSet
    <3>3. QED
      BY <1>3, <2>2, <3>2
  <2>3. QED
    BY <2>1, <2>2
<1>5. Stale(suzuki_RN', fsm_state') \subseteq T
  <2>1. \A r \in Proc : suzuki_RN'[r][r] = suzuki_RN[r][r]
    BY <1>1, <1>2, <1>3
  <2>2. QED
    BY <1>1, <2>1, StillCurrent
<1>6. /\ m \in Nets(HostPackets) /\ Placed(m)
      /\ i_have_token \in [Proc -> BOOLEAN]
      /\ StaleFirst(m, i_have_token, T) /\ T \subseteq Requests
  BY KMessageTaken
<1> HIDE DEF m, rn, tok, T
<1>7. /\ net' \in Nets(HostPackets)
      /\ StaleFirst(net', i_have_token', T)
      /\ Somewhere(net', i_have_token')
  BY <1>1, <1>4, <1>6, KTokenSent
<1>8. StaleFirst(net', i_have_token', Stale(suzuki_RN', fsm_state'))
  BY <1>5, <1>7, LessStale
<1>9. QED
  BY <1>7, <1>8 DEF KInv

LEMMA KRequestNotedOK ==
    ASSUME Net = "loopback", Assumptions, IInv, QInv, VInv, KInv, NEW p \in Proc,
           NEW slot \in Receivable(p), RequestNoted(p, slot)
    PROVE  KInv'
<1> DEFINE q  == PacketAt(slot).msg.pid
           rn == LargerOf(suzuki_RN[p][q], PacketAt(slot).msg.req_no)
<1>1. /\ PacketAt(slot).msg.type = "REQUEST"
      /\ suzuki_RN' = [suzuki_RN EXCEPT ![p][q] = rn]
      /\ net' = dme_recv_msg(slot)
      /\ UNCHANGED <<fsm_state, i_have_token>>
  BY DEF RequestNoted, peerVars
<1>2. /\ net' \in Nets(HostPackets)
      /\ StaleFirst(net', i_have_token, Stale(suzuki_RN, fsm_state))
      /\ PacketAt(slot) \in HostPackets /\ PacketAt(slot).dst = p
      /\ PacketAt(slot) \notin TokenPacket => Somewhere(net', i_have_token)
  BY <1>1, KMessageTaken
<1>3. PacketAt(slot) \notin TokenPacket
  BY <1>1 DEF TokenPacket, TokenMsg
<1>4. q # p /\ q \in Proc
  BY <1>1, <1>2, PacketFields DEF HostPackets
<1>5. \A r \in Proc : suzuki_RN'[r][r] = suzuki_RN[r][r]
  <2>1. suzuki_RN \in [Proc -> [Proc -> Nat]]
    BY DEF IInv, TypeOK
  <2> HIDE DEF rn, q
  <2>2. QED
    BY <1>1, <1>4, <2>1
<1>6. Stale(suzuki_RN', fsm_state') \subseteq Stale(suzuki_RN, fsm_state)
  BY <1>1, <1>5, StillCurrent
<1>7. StaleFirst(net', i_have_token, Stale(suzuki_RN', fsm_state'))
  BY <1>2, <1>6, LessStale
<1>8. QED
  BY <1>1, <1>2, <1>3, <1>7 DEF KInv

(* Entering, in front of a network n. *)
LEMMA KEntered ==
    ASSUME Net = "loopback", Assumptions, IInv, NEW p \in Proc, fsm_state[p] = "PS_PENDING",
           NEW n \in Nets(HostPackets), Placed(n), NEW held, held[p],
           StaleFirst(n, held, Stale(suzuki_RN, fsm_state)),
           process_ev_entered_cr(p, fsm_state[p], n), UNCHANGED suzuki_RN, i_have_token' = held
    PROVE  KInv'
<1> DEFINE pkt == Packet(p, SUPERVISOR_PID, [type |-> "ENTERED"])
           T == Stale(suzuki_RN, fsm_state)
<1>1. /\ net' = dme_send_msg(n, p, SUPERVISOR_PID, [type |-> "ENTERED"])
      /\ fsm_state' = [fsm_state EXCEPT ![p] = "PS_EXECUTING"]
  BY DEF process_ev_entered_cr
<1>2. fsm_state \in [Proc -> State]
  BY DEF IInv, TypeOK, PeerTypeOK
<1>3. Stale(suzuki_RN', fsm_state') \subseteq T
  <2>1. \A q \in Proc : fsm_state'[q] = "PS_IDLE" => fsm_state[q] = "PS_IDLE"
    BY <1>1, <1>2
  <2>2. QED
    BY <2>1, StillCurrent
<1>4. net' \in Nets(HostPackets) /\ Sent(n, net', {pkt})
  BY <1>1, HostPacketKinds, SupervisorTold DEF Assumptions
<1>5. pkt \notin T
  <2>1. pkt \in SupPackets
    BY PidFacts, SupPacketFacts DEF Assumptions
  <2>2. QED
    BY <2>1, HostPacketKinds DEF Stale, Assumptions
<1> HIDE DEF pkt, T
<1>6. StaleFirst(net', held, T)
  BY <1>4, <1>5, StaleSent DEF T
<1>7. StaleFirst(net', held, Stale(suzuki_RN', fsm_state'))
  BY <1>3, <1>6, LessStale
<1>8. QED
  BY <1>4, <1>7 DEF KInv, Somewhere

LEMMA KTokenReceivedOK ==
    ASSUME Net = "loopback", Assumptions, IInv, QInv, VInv, KInv, NEW p \in Proc,
           NEW slot \in Receivable(p), TokenReceived(p, slot)
    PROVE  KInv'
<1> DEFINE m == dme_recv_msg(slot)
           held == [i_have_token EXCEPT ![p] = TRUE]
<1>1. PacketAt(slot).msg.type = "REPLY"
  BY DEF TokenReceived
<1>2. /\ m \in Nets(HostPackets) /\ Placed(m)
      /\ PacketAt(slot) \in HostPackets /\ PacketAt(slot).dst = p
      /\ i_have_token \in [Proc -> BOOLEAN]
      /\ PacketAt(slot) \in TokenPacket => StaleFirst(m, held, Stale(suzuki_RN, fsm_state))
  BY KMessageTaken
<1>3. PacketAt(slot) \in TokenPacket
  BY <1>1, <1>2, PacketFields DEF HostPackets
<1>4. fsm_state[p] = "PS_PENDING"
  <2>1. PacketAt(slot) \in GoodPackets(suzuki_RN, fsm_state)
    BY QMessageTaken
  <2>2. QED
    BY <1>1, <1>2, <2>1 DEF GoodPackets, GoodReply
<1>5. /\ process_ev_entered_cr(p, fsm_state[p], m)
      /\ i_have_token' = held /\ UNCHANGED suzuki_RN
  BY <1>4 DEF TokenReceived
<1>6. held[p]
  BY <1>2
<1> HIDE DEF m, held
<1>7. QED
  BY <1>2, <1>3, <1>4, <1>5, <1>6, KEntered

LEMMA KEnteredDeliveredOK ==
    ASSUME Net = "loopback", Assumptions, IInv, VInv, KInv, NEW p \in Proc, EnteredDelivered(p)
    PROVE  KInv'
<1>1. fsm_state[p] = "PS_PENDING" /\ i_have_token[p]
  BY DEF EnteredDelivered, IInv, EventsMatchState
<1>2. /\ process_ev_entered_cr(p, fsm_state[p], net)
      /\ UNCHANGED <<suzuki_RN, i_have_token>>
  BY DEF EnteredDelivered
<1>3. QED
  BY <1>1, <1>2, KEntered DEF KInv, VInv

(***************************************************************************)
(* When p leaves, its requests become stale: they have all been put into   *)
(* the buffers of peers that do not have the token.                        *)
(***************************************************************************)
LEMMA StaleOnExit ==
    ASSUME Net = "loopback", Assumptions, IInv, VInv, KInv, NEW p \in Proc, Waiting(p),
           fsm_state[p] = "PS_EXECUTING", NEW st, \A q \in Proc \ {p} : st[q] = fsm_state[q]
    PROVE  StaleFirst(net, i_have_token, Stale(suzuki_RN, st))
<1> DEFINE T   == Stale(suzuki_RN, fsm_state)
           Own == {pkt \in Requests : pkt.msg.pid = p}
           T2  == Stale(suzuki_RN, st)
<1>1. \A pkt \in T2 : pkt \in T \/ pkt \in Own
  <2>1. \A pkt \in Requests : pkt.msg.pid \in Proc
    BY PacketFields DEF Requests, HostPackets
  <2>2. QED
    BY <2>1 DEF Stale
<1>2. \A pkt \in Own : pkt.src = p /\ pkt.dst # p
  BY DEF Requests, HostPackets
<1>3. /\ net \in Nets(HostPackets) /\ Placed(net) /\ p \in Node
      /\ StaleFirst(net, i_have_token, T)
  BY PidFacts DEF KInv, VInv, Assumptions
<1>4. i_have_token[p] /\ NoneOf(net, TokenPacket)
      /\ \A c \in Proc : i_have_token[c] => c = p
  BY DEF IInv, TokenUnique
<1> HIDE DEF T, Own, T2
<1>5. HandedOver(net, Own)
  BY <1>2, <1>3, NothingWaits
<1>6. HandedOver(net, T2)
  BY <1>1, <1>3, <1>5 DEF StaleFirst, HandedOver
<1>7. \A c \in Proc : i_have_token[c] => NoneOf(net, To(c, T2))
  <2>1. \A pkt \in To(p, T2) : pkt \in To(p, T)
    BY <1>1, <1>2 DEF To
  <2>2. NoneOf(net, To(p, T))
    BY <1>3, <1>4 DEF StaleFirst
  <2>3. QED
    BY <1>4, <2>1, <2>2 DEF NoneOf
<1>8. \A c \in Proc : InOrder(net, To(c, T2), To(c, TokenPacket))
  <2>1. \A c \in Proc : NoneOf(net, To(c, TokenPacket))
    BY <1>4 DEF NoneOf, To
  <2>2. QED
    BY <2>1, NoneInOrder
<1>9. QED
  BY <1>6, <1>7, <1>8 DEF StaleFirst, T2

LEMMA KExitedOK ==
    ASSUME Net = "loopback", Assumptions, IInv, VInv, KInv, NEW p \in Proc,
           process_ev_exited_cr(p)
    PROVE  KInv'
<1> DEFINE served == CountServed(my_token[p], p)
           waiting == {q \in Proc : Eligible(served, suzuki_RN[p][q], q)}
           Requeued(added) == [served EXCEPT !.pseudo_queue = added \o @]
           m == InformExited(p)
           pkt == Packet(p, SUPERVISOR_PID, [type |-> "EXITED"])
           T == Stale(suzuki_RN, fsm_state')
<1>1. fsm_state[p] = "PS_EXECUTING" /\ Waiting(p)
  BY DEF process_ev_exited_cr, ExitedDue, IInv, EventsMatchState
<1>2. PICK added \in [1 .. Cardinality(waiting) -> waiting] :
         IF Requeued(added).pseudo_queue # <<>>
         THEN SendToken(p, Requeued(added), m)
         ELSE net' = m /\ UNCHANGED i_have_token
  BY <1>1 DEF process_ev_exited_cr
<1>3. fsm_state' = [fsm_state EXCEPT ![p] = "PS_IDLE"] /\ UNCHANGED suzuki_RN
  BY <1>1 DEF process_ev_exited_cr, LeaveCriticalRegion
<1>4. Requeued(added) \in Token
  <2>1. my_token[p] \in Token
    BY DEF IInv, TypeOK
  <2>2. waiting \in SUBSET Proc
    OBVIOUS
  <2> HIDE DEF waiting
  <2>3. QED
    BY <2>1, <2>2, TokenAfterExit DEF Assumptions
<1> DEFINE tok == Requeued(added)
<1> HIDE DEF waiting, served, Requeued
<1>5. /\ net \in Nets(HostPackets) /\ Placed(net) /\ i_have_token[p]
      /\ fsm_state \in [Proc -> State] /\ i_have_token \in [Proc -> BOOLEAN]
      /\ T \subseteq Requests
  BY <1>1 DEF KInv, VInv, IInv, TypeOK, PeerTypeOK, TokenUnique, Stale
<1>6. StaleFirst(net, i_have_token, T)
  <2>1. \A q \in Proc \ {p} : fsm_state'[q] = fsm_state[q]
    BY <1>3, <1>5
  <2>2. QED
    BY <1>1, <2>1, StaleOnExit
<1>7. m \in Nets(HostPackets) /\ Placed(m) /\ Sent(net, m, {pkt})
  BY <1>5, HostPacketKinds, SupervisorTold DEF Assumptions, InformExited
<1>8. pkt \notin T
  <2>1. pkt \in SupPackets
    BY PidFacts, SupPacketFacts DEF Assumptions
  <2>2. QED
    BY <1>5, <2>1, HostPacketKinds DEF Assumptions
<1> HIDE DEF m, tok, pkt, T
<1>9. StaleFirst(m, i_have_token, T)
  BY <1>5, <1>6, <1>7, <1>8, StaleSent
<1>10. /\ net' \in Nets(HostPackets)
       /\ StaleFirst(net', i_have_token', T)
       /\ Somewhere(net', i_have_token')
  <2>1. CASE tok.pseudo_queue # <<>>
    <3>1. SendToken(p, tok, m) /\ tok \in Token
      BY <1>2, <1>4, <2>1 DEF tok
    <3>2. QED
      BY <1>5, <1>7, <1>9, <2>1, <3>1, KTokenSent
  <2>2. CASE tok.pseudo_queue = <<>>
    <3>1. net' = m /\ i_have_token' = i_have_token
      BY <1>2, <2>2 DEF tok
    <3>2. QED
      BY <1>5, <1>7, <1>9, <3>1 DEF Somewhere
  <2>3. QED
    BY <2>1, <2>2
<1>11. QED
  BY <1>3, <1>10 DEF KInv, T

LEMMA KNextOK ==
    ASSUME Net = "loopback", Assumptions, IInv, QInv, VInv, KInv, [Next]_vars
    PROVE  KInv'
<1>1. ASSUME NEW p \in Proc, PeerNext(p) PROVE KInv'
  <2>1. ASSUME NEW slot \in Receivable(p), SupervisorMsgNoted(p, slot), UNCHANGED suzukiVars
        PROVE  KInv'
    <3>1. /\ net' = dme_recv_msg(slot) /\ UNCHANGED <<fsm_state, suzuki_RN, i_have_token>>
          /\ PacketAt(slot).msg \in SupMsg
      BY <2>1 DEF SupervisorMsgNoted, SupervisorMsgAt, peerVars, suzukiVars
    <3>2. PacketAt(slot) \notin TokenPacket
      BY <3>1, HostPacketKinds DEF Assumptions
    <3>3. QED
      BY <3>1, <3>2, KMessageTaken DEF KInv
  <2>2. CASE sendto(p) /\ UNCHANGED <<exit_request, peerVars, suzukiVars>>
    <3>1. /\ net \in Nets(HostPackets) /\ Placed(net) /\ p \in Node
          /\ StaleFirst(net, i_have_token, Stale(suzuki_RN, fsm_state))
          /\ Somewhere(net, i_have_token)
      BY PidFacts DEF KInv, VInv, Assumptions
    <3>2. /\ net' \in Nets(HostPackets)
          /\ StaleFirst(net', i_have_token, Stale(suzuki_RN, fsm_state))
          /\ ~NoneOf(net, TokenPacket) => ~NoneOf(net', TokenPacket)
      BY <2>2, <3>1, HostPacketKinds, StaleSendto, SendtoProperties, SendtoPlaced
         DEF Assumptions
    <3>3. UNCHANGED <<fsm_state, suzuki_RN, i_have_token>>
      BY <2>2 DEF peerVars, suzukiVars
    <3>4. QED
      BY <3>1, <3>2, <3>3, StaysSomewhere DEF KInv
  <2>3. QED
    BY <1>1, <2>1, <2>2, KWantOK, KRequestWithTokenOK, KRequestNotedOK, KTokenReceivedOK,
       KEnteredDeliveredOK, KExitedOK DEF PeerNext, handle_message
<1>2. CASE UNCHANGED vars
  BY <1>2 DEF vars, peerVars, suzukiVars, KInv
<1>3. QED
  BY <1>1, <1>2, KSupervisorNextOK DEF Next

LEMMA KInvariance == ASSUME Net = "loopback" PROVE Spec => []KInv
<1>1. Init => KInv
  BY Assumed, KInitOK
<1>2. IInv /\ QInv /\ VInv /\ KInv /\ [Next]_vars => KInv'
  BY Assumed, KNextOK
<1>3. Spec => []VInv
  BY VInvariance
<1>4. QED
  BY <1>1, <1>2, <1>3, QInvariance, PTL DEF Spec

(***************************************************************************)
(* The token is never lost on one host: somebody has it or is being sent   *)
(* it.  (Between hosts a stale request can send it to the supervisor.)     *)
(***************************************************************************)
THEOREM TokenStays == ASSUME Net = "loopback" PROVE Spec => []TokenKept
<1>1. ASSUME KInv PROVE TokenKept
  <2>1. CASE \E p \in Proc : i_have_token[p]
    BY <2>1 DEF TokenKept
  <2>2. CASE ~NoneOf(net, TokenPacket)
    <3> PICK l \in Lane : \E i \in 1 .. Len(net[l]) : net[l][i] \in TokenPacket
      BY <2>2 DEF NoneOf
    <3>1. PICK i \in 1 .. Len(net[l]) : net[l][i] \in TokenPacket
      OBVIOUS
    <3>2. net[l] \in Seq(HostPackets) /\ DOMAIN net = Lane
      BY <1>1 DEF KInv, Nets
    <3>3. net[l][i] \in HostPackets /\ net[l][i] \in Packets
      BY <3>2, ElementOfSeq DEF Packets, ToSet
    <3>4. net[l][i].msg.type = "REPLY"
      BY <3>1 DEF TokenPacket, TokenMsg
    <3>5. net[l][i].dst \in Proc
      BY <3>1, <3>3, Assumed, HostPacketKinds DEF HostPackets, Assumptions
    <3>6. QED
      BY <3>3, <3>4, <3>5 DEF TokenKept, TokensInFlight
  <2>3. QED
    BY <1>1, <2>1, <2>2 DEF KInv, Somewhere
<1>2. QED
  BY <1>1, KInvariance, PTL

-----------------------------------------------------------------------------
(***************************************************************************)
(* No false alarm, on one host.  The token follows the EXITED of the peer  *)
(* that sends it out of the same handler, so whoever gets the token enters *)
(* when the EXITED of everybody before it is in the supervisor's buffer.   *)
(***************************************************************************)
Settled(n, held, st) ==
    /\ \A r \in Proc : Ahead(n, ExitedFrom(r), TokenPacket)
    /\ \A r, q \in Proc : held[q] /\ r # q => HandedOver(n, ExitedFrom(r))
    /\ Reporting(n, st)

AInv == Settled(net, i_have_token, fsm_state) /\ Unalarmed

LEMMA SettledLess ==
    ASSUME NEW n, NEW held, NEW held2, NEW st, NEW st2, Settled(n, held, st),
           \A c \in Proc : held2[c] => held[c],
           \A r \in Proc : st2[r] # "PS_EXECUTING" =>
                               st[r] # "PS_EXECUTING" \/ HandedOver(n, EnteredFrom(r))
    PROVE  Settled(n, held2, st2)
BY DEF Settled, Reporting

LEMMA SettledReceived ==
    ASSUME Net = "loopback", NetworkAssumption, net \in Nets(HostPackets), NEW p \in Node,
           NEW slot \in Receivable(p), NEW held \in [Proc -> BOOLEAN], NEW st,
           Settled(net, held, st)
    PROVE  /\ Settled(dme_recv_msg(slot), held, st)
           /\ PacketAt(slot) \in TokenPacket =>
                 Settled(dme_recv_msg(slot), [held EXCEPT ![p] = TRUE], st)
           /\ p \in Proc => Reports(dme_recv_msg(slot)) = Reports(net)
<1> DEFINE m == dme_recv_msg(slot)
<1>1. \A T, U : /\ HandedOver(net, T) => HandedOver(m, T)
                /\ Ahead(net, T, U) => Ahead(m, T, U)
                /\ Ahead(net, T, U) /\ PacketAt(slot) \in U => HandedOver(net, T)
  BY ReceivedOnHost
<1>2. Settled(m, held, st)
  <2> HIDE DEF m
  <2>1. QED
    BY <1>1 DEF Settled, Reporting
<1>3. ASSUME PacketAt(slot) \in TokenPacket
      PROVE  Settled(m, [held EXCEPT ![p] = TRUE], st)
  <2> HIDE DEF m
  <2>1. \A r \in Proc : HandedOver(m, ExitedFrom(r))
    BY <1>1, <1>3 DEF Settled, Reporting
  <2>2. QED
    BY <1>2, <2>1 DEF Settled, Reporting
<1>4. ASSUME p \in Proc PROVE Reports(m) = Reports(net)
  <2>1. \A l \in Lane : l # <<"in", p>> => m[l] = net[l]
    BY ReceivedOnHost
  <2>2. SUPERVISOR_PID # p /\ SUPERVISOR_PID \in Node
    BY <1>4, PidFacts DEF SUPERVISOR_PID, Proc
  <2>3. <<"in", SUPERVISOR_PID>> \in Lane /\ <<"in", SUPERVISOR_PID>> # <<"in", p>>
    BY <2>2, HostLanes
  <2> HIDE DEF m
  <2>4. QED
    BY <2>1, <2>3 DEF Reports
<1>5. QED
  BY <1>2, <1>3, <1>4

LEMMA SettledSent ==
    ASSUME Net = "loopback", NEW n \in Nets(HostPackets), NEW m \in Nets(HostPackets),
           Placed(n), NEW New, Sent(n, m, New), NEW held, NEW st, Settled(n, held, st),
           \A r \in Proc : New \cap ExitedFrom(r) = {},
           \A r \in Proc : New \cap EnteredFrom(r) = {} \/ st[r] = "PS_EXECUTING",
           \A r \in Proc : \/ HandedOver(n, ExitedFrom(r))
                           \/ \A other \in New \cap TokenPacket : other.src = r
    PROVE  Settled(m, held, st)
<1>1. \A T : New \cap T = {} /\ HandedOver(n, T) => HandedOver(m, T)
  BY SentWaits
<1>2. ASSUME NEW r \in Proc PROVE Ahead(m, ExitedFrom(r), TokenPacket)
  <2>1. \A pkt \in ExitedFrom(r) : pkt.src = r
    BY DEF ExitedFrom, Packet
  <2>2. \/ HandedOver(n, ExitedFrom(r))
        \/ \A pkt \in ExitedFrom(r), other \in New \cap TokenPacket : pkt.src = other.src
    BY <2>1
  <2>3. Ahead(n, ExitedFrom(r), TokenPacket)
    BY DEF Settled, Reporting
  <2>4. QED
    BY <2>2, <2>3, SentWaits
<1>3. \A r, q \in Proc : held[q] /\ r # q => HandedOver(m, ExitedFrom(r))
  BY <1>1 DEF Settled, Reporting
<1>4. \A r \in Proc : st[r] # "PS_EXECUTING" => HandedOver(m, EnteredFrom(r))
  BY <1>1 DEF Settled, Reporting
<1>5. QED
  BY <1>2, <1>3, <1>4 DEF Settled, Reporting

LEMMA AInitOK ==
    ASSUME Net = "loopback", Assumptions, Init
    PROVE  AInv
<1>1. \A T : NoneOf(net, T)
  BY NothingThere DEF Init
<1>2. Settled(net, i_have_token, fsm_state)
  BY <1>1, NoneHandedOver, NothingAhead DEF Settled, Reporting
<1>3. QED
  BY <1>2, AlarmInit DEF AInv, Init, Assumptions

(* Beside the peer with the token nobody is inside. *)
LEMMA HolderAlone ==
    ASSUME IInv, Settled(net, i_have_token, fsm_state)
    PROVE  Alone(net, fsm_state)
<1>1. SUFFICES ASSUME NEW p \in Proc, NEW q \in Proc, p # q, fsm_state[q] = "PS_EXECUTING"
               PROVE  fsm_state[p] # "PS_EXECUTING" /\ HandedOver(net, ExitedFrom(p))
  BY DEF Alone
<1>2. i_have_token[q] /\ fsm_state[p] # "PS_EXECUTING"
  BY <1>1 DEF IInv, TokenUnique
<1>3. QED
  BY <1>1, <1>2 DEF Settled, Reporting

LEMMA HostSight ==
    ASSUME VInv
    PROVE  Sight(HostPackets, net, fsm_state, nodes)
<1>1. Stray(HostPackets) \subseteq Stray(PacketType)
  BY DEF Stray, HostPackets
<1>2. QED
  BY <1>1, NoneOfPart DEF VInv, Sight

LEMMA HostForPeers == ASSUME Assumptions PROVE ForPeers(HostPackets)
BY HostPacketKinds DEF ForPeers, HostPackets, Assumptions

LEMMA ASendtoOK ==
    ASSUME Net = "loopback", Assumptions, IInv, VInv, KInv, AInv, NEW s \in Node, sendto(s)
    PROVE  /\ Settled(net', i_have_token, fsm_state)
           /\ Follows(Reports(net'), nodes)
<1>1. /\ net \in Nets(HostPackets) /\ Placed(net)
      /\ \A other \in HostPackets : other.dst \in Node
      /\ Settled(net, i_have_token, fsm_state) /\ Unalarmed
  BY HostPacketKinds DEF KInv, VInv, AInv, Assumptions
<1>2. \A T, U : /\ HandedOver(net, T) => HandedOver(net', T)
                /\ Ahead(net, T, U) => Ahead(net', T, U)
  BY <1>1, SendtoOnHost
<1>3. Settled(net', i_have_token, fsm_state)
  BY <1>1, <1>2 DEF Settled, Reporting
<1>4. Reporting(net, fsm_state) /\ Alone(net, fsm_state) /\ Follows(Reports(net), nodes)
  <2>1. Alone(net, fsm_state)
    BY <1>1, HolderAlone
  <2>2. QED
    BY <1>1, <2>1 DEF Settled, Reporting, Unalarmed
<1>5. Follows(Reports(net'), nodes)
  BY <1>1, <1>4, HostSight, HostForPeers, AlarmSendto DEF Assumptions
<1>6. QED
  BY <1>3, <1>5

LEMMA ASupervisorNextOK ==
    ASSUME Net = "loopback", OutOfBounds = {FALSE}, Assumptions, IInv, VInv, KInv, AInv,
           SupervisorNext
    PROVE  AInv'
<1>1. UNCHANGED <<fsm_state, i_have_token>>
  BY DEF SupervisorNext, peerVars, suzukiVars
<1>2. /\ SUPERVISOR_PID \in Node /\ net \in Nets(HostPackets) /\ Placed(net)
      /\ SupTypeOK /\ SupPackets \subseteq HostPackets /\ i_have_token \in [Proc -> BOOLEAN]
      /\ Settled(net, i_have_token, fsm_state) /\ Unalarmed
  BY PidFacts, HostPacketKinds DEF Assumptions, KInv, VInv, AInv, IInv, TypeOK
<1>3. CASE SupNext
  <2>1. Unalarmed'
    BY <1>2, <1>3, HostSight, HostForPeers, AlarmSupervisor DEF Assumptions
  <2>2. CASE syncro \/ do_work
    <3>1. PICK New : /\ net' \in Nets(HostPackets) /\ Sent(net, net', New)
                     /\ \A pkt \in New : pkt.src = SUPERVISOR_PID /\ pkt \in SupPackets
      BY <1>2, <2>2, SupervisorSends DEF Assumptions
    <3>2. \A r \in Proc : New \cap ExitedFrom(r) = {} /\ New \cap EnteredFrom(r) = {}
      BY <3>1, PidFacts, ReportFacts DEF Assumptions
    <3>3. New \cap TokenPacket = {}
      BY <3>1, HostPacketKinds DEF Assumptions
    <3>4. Settled(net', i_have_token, fsm_state)
      BY <1>2, <3>1, <3>2, <3>3, SettledSent
    <3>5. QED
      BY <1>1, <2>1, <3>4 DEF AInv
  <2>3. CASE SupReceive
    <3>1. PICK slot \in Receivable(SUPERVISOR_PID) : net' = dme_recv_msg(slot)
      BY <2>3 DEF SupReceive
    <3>2. Settled(net', i_have_token, fsm_state)
      BY <1>2, <3>1, SettledReceived DEF Assumptions
    <3>3. QED
      BY <1>1, <2>1, <3>2 DEF AInv
  <2>4. QED
    BY <1>3, <2>2, <2>3 DEF SupNext
<1>4. CASE sendto(SUPERVISOR_PID) /\ UNCHANGED <<supVars, exit_request>>
  BY <1>1, <1>2, <1>4, ASendtoOK DEF AInv, Unalarmed, supVars
<1>5. QED
  BY <1>3, <1>4 DEF SupervisorNext

(* A peer's handler does not reach the supervisor's buffer or state. *)
LEMMA ASettled ==
    ASSUME AInv, SupervisorUnchanged, Settled(net', i_have_token', fsm_state'),
           Reports(net') = Reports(net),
           exit_request'[SUPERVISOR_PID] = exit_request[SUPERVISOR_PID]
    PROVE  AInv'
BY AlarmPeer DEF AInv, SupervisorUnchanged

LEMMA AMessageTaken ==
    ASSUME Net = "loopback", Assumptions, IInv, VInv, KInv, AInv, NEW p \in Proc,
           NEW slot \in Receivable(p)
    PROVE  LET m == dme_recv_msg(slot) IN
           /\ m \in Nets(HostPackets) /\ Placed(m) /\ p \in Node
           /\ i_have_token \in [Proc -> BOOLEAN] /\ fsm_state \in [Proc -> State]
           /\ Settled(m, i_have_token, fsm_state)
           /\ Reports(m) = Reports(net)
           /\ PacketAt(slot) \in TokenPacket =>
                 Settled(m, [i_have_token EXCEPT ![p] = TRUE], fsm_state)
<1>1. /\ p \in Node /\ net \in Nets(HostPackets) /\ i_have_token \in [Proc -> BOOLEAN]
      /\ fsm_state \in [Proc -> State]
      /\ Settled(net, i_have_token, fsm_state)
  BY PidFacts DEF KInv, AInv, IInv, TypeOK, PeerTypeOK, Assumptions
<1>2. dme_recv_msg(slot) \in Nets(HostPackets) /\ Placed(dme_recv_msg(slot))
  BY KMessageTaken
<1>3. QED
  BY <1>1, <1>2, SettledReceived DEF Assumptions

(* Packets that are no reports. *)
LEMMA NoReport ==
    ASSUME NEW p \in Proc, NEW dst, NEW msg, msg.type \in {"REQUEST", "REPLY"}
    PROVE  \A r \in Proc : Packet(p, dst, msg) \notin ExitedFrom(r)
                         /\ Packet(p, dst, msg) \notin EnteredFrom(r)
BY DEF Packet, ExitedFrom, EnteredFrom

(* p sends the token, when no EXITED of another waits in a handler. *)
LEMMA ATokenSent ==
    ASSUME Net = "loopback", Assumptions, NEW p \in Proc, NEW n \in Nets(HostPackets), Placed(n),
           NEW tok \in Token, SendToken(p, tok, n), net' \in Nets(HostPackets),
           i_have_token \in [Proc -> BOOLEAN], i_have_token[p],
           NEW st, Settled(n, i_have_token, st)
    PROVE  /\ Settled(net', i_have_token', st)
           /\ Reports(net') = Reports(n)
<1> DEFINE dst == FinalElement(tok)
           popped == request_queue_pop(tok)
           pkt == Packet(p, dst, REPLY(p, popped))
<1>1. popped \in Token /\ p \in Node /\ dst \in Node
  BY TokenOperations, PidFacts DEF Assumptions
<1>2. net' = dme_send_msg(n, p, dst, REPLY(p, popped))
  BY DEF SendToken
<1>3. \A r \in Proc : pkt \notin ExitedFrom(r) /\ pkt \notin EnteredFrom(r)
  <2>1. REPLY(p, popped).type = "REPLY"
    BY DEF REPLY
  <2> HIDE DEF popped, dst
  <2>2. QED
    BY <2>1, NoReport
<1>4. pkt.src = p /\ pkt \in PacketType
  BY <1>1, TokenPacketKind DEF Assumptions, Packet
<1> HIDE DEF dst, popped
<1>5. Sent(n, net', {pkt})
  <2>1. n \in Nets(PacketType)
    BY HostNet
  <2>2. QED
    BY <1>1, <1>2, <1>4, <2>1, SendSent DEF Assumptions
<1> HIDE DEF pkt
<1>6. \A r \in Proc : \/ HandedOver(n, ExitedFrom(r))
                     \/ \A other \in {pkt} \cap TokenPacket : other.src = r
  BY <1>4 DEF Settled, Reporting
<1>7. Settled(net', i_have_token, st)
  BY <1>3, <1>5, <1>6, SettledSent
<1>8. Settled(net', i_have_token', st)
  <2>1. \A c \in Proc : i_have_token'[c] => i_have_token[c]
    BY DEF SendToken
  <2>2. QED
    BY <1>7, <2>1, SettledLess
<1>9. QED
  BY <1>5, <1>8, ReportsSent DEF Assumptions

LEMMA AEntered ==
    ASSUME Net = "loopback", Assumptions, AInv, NEW p \in Proc, fsm_state[p] = "PS_PENDING",
           fsm_state \in [Proc -> State], NEW n \in Nets(HostPackets), Placed(n),
           Settled(n, i_have_token', fsm_state), Reports(n) = Reports(net),
           process_ev_entered_cr(p, fsm_state[p], n), SupervisorUnchanged
    PROVE  AInv'
<1> DEFINE pkt == Packet(p, SUPERVISOR_PID, [type |-> "ENTERED"])
           st2 == fsm_state'
           held2 == i_have_token'
           m == net'
<1>1. /\ m = dme_send_msg(n, p, SUPERVISOR_PID, [type |-> "ENTERED"])
      /\ st2 = [fsm_state EXCEPT ![p] = "PS_EXECUTING"]
      /\ UNCHANGED exit_request
  BY DEF process_ev_entered_cr
<1>2. m \in Nets(HostPackets) /\ Sent(n, m, {pkt})
  BY <1>1, HostPacketKinds, SupervisorTold DEF Assumptions
<1>3. /\ pkt \in EnteredFrom(p)
      /\ \A r \in Proc : pkt \notin ExitedFrom(r)
      /\ \A r \in Proc : pkt \in EnteredFrom(r) => r = p
      /\ pkt \notin TokenPacket
  <2>1. pkt \in EnteredFrom(p)
    BY DEF EnteredFrom
  <2>2. pkt \in SupPackets
    BY PidFacts, SupPacketFacts DEF Assumptions
  <2>3. \A r \in Proc : pkt \notin ExitedFrom(r)
    BY <2>1, KindsApart DEF Assumptions
  <2>4. \A r \in Proc : pkt \in EnteredFrom(r) => r = p
    BY DEF EnteredFrom, Packet
  <2>5. QED
    BY <2>1, <2>2, <2>3, <2>4, HostPacketKinds DEF Assumptions
<1>4. st2[p] = "PS_EXECUTING" /\ \A r \in Proc \ {p} : st2[r] = fsm_state[r]
  BY <1>1
<1>5. Settled(n, held2, fsm_state)
  OBVIOUS
<1> HIDE DEF pkt, st2, held2, m
<1>6. Settled(n, held2, st2)
  <2>1. \A r \in Proc : st2[r] # "PS_EXECUTING" => fsm_state[r] # "PS_EXECUTING"
    BY <1>4
  <2>2. QED
    BY <1>5, <2>1, SettledLess
<1>7. Settled(m, held2, st2)
  <2>1. \A r \in Proc : {pkt} \cap EnteredFrom(r) = {} \/ st2[r] = "PS_EXECUTING"
    BY <1>3, <1>4
  <2>2. \A r \in Proc : {pkt} \cap ExitedFrom(r) = {}
    BY <1>3
  <2>3. \A other \in {pkt} \cap TokenPacket : FALSE
    BY <1>3
  <2>4. QED
    BY <1>2, <1>6, <2>1, <2>2, <2>3, SettledSent
<1>8. Reports(m) = Reports(n)
  BY <1>2, ReportsSent DEF Assumptions
<1>9. QED
  BY <1>1, <1>7, <1>8, ASettled DEF m, st2, held2

LEMMA AExitedOK ==
    ASSUME Net = "loopback", Assumptions, IInv, VInv, KInv, AInv, NEW p \in Proc,
           process_ev_exited_cr(p), SupervisorUnchanged, KInv'
    PROVE  AInv'
<1> DEFINE served == CountServed(my_token[p], p)
           waiting == {q \in Proc : Eligible(served, suzuki_RN[p][q], q)}
           Requeued(added) == [served EXCEPT !.pseudo_queue = added \o @]
           m == InformExited(p)
           pkt == Packet(p, SUPERVISOR_PID, [type |-> "EXITED"])
           st2 == fsm_state'
<1>1. fsm_state[p] = "PS_EXECUTING" /\ Waiting(p)
  BY DEF process_ev_exited_cr, ExitedDue, IInv, EventsMatchState
<1>2. PICK added \in [1 .. Cardinality(waiting) -> waiting] :
         IF Requeued(added).pseudo_queue # <<>>
         THEN SendToken(p, Requeued(added), m)
         ELSE net' = m /\ UNCHANGED i_have_token
  BY <1>1 DEF process_ev_exited_cr
<1>3. st2 = [fsm_state EXCEPT ![p] = "PS_IDLE"] /\ UNCHANGED exit_request
  BY <1>1 DEF process_ev_exited_cr, LeaveCriticalRegion
<1>4. Requeued(added) \in Token
  <2>1. my_token[p] \in Token
    BY DEF IInv, TypeOK
  <2>2. waiting \in SUBSET Proc
    OBVIOUS
  <2> HIDE DEF waiting
  <2>3. QED
    BY <2>1, <2>2, TokenAfterExit DEF Assumptions
<1> DEFINE tok == Requeued(added)
<1> HIDE DEF waiting, served, Requeued
<1>5. /\ net \in Nets(HostPackets) /\ Placed(net) /\ p \in Node
      /\ i_have_token[p] /\ NoneOf(net, TokenPacket)
      /\ \A c \in Proc : i_have_token[c] => c = p
      /\ fsm_state \in [Proc -> State] /\ i_have_token \in [Proc -> BOOLEAN]
      /\ Settled(net, i_have_token, fsm_state) /\ net' \in Nets(HostPackets)
  BY <1>1, PidFacts
     DEF Assumptions, KInv, VInv, AInv, IInv, TypeOK, PeerTypeOK, TokenUnique
<1>6. m \in Nets(HostPackets) /\ Placed(m) /\ Sent(net, m, {pkt})
  BY <1>5, HostPacketKinds, SupervisorTold DEF Assumptions, InformExited
<1>7. /\ pkt \notin TokenPacket
      /\ \A r \in Proc : pkt \notin EnteredFrom(r)
      /\ \A r \in Proc : pkt \in ExitedFrom(r) => r = p
  <2>1. pkt \in SupPackets
    BY <1>5, PidFacts, SupPacketFacts DEF Assumptions
  <2>2. pkt \in ExitedFrom(p) /\ \A r \in Proc : pkt \in ExitedFrom(r) => r = p
    BY DEF ExitedFrom, Packet
  <2>3. \A r \in Proc : pkt \notin EnteredFrom(r)
    BY <2>2, KindsApart DEF Assumptions
  <2>4. QED
    BY <2>1, <2>2, <2>3, HostPacketKinds DEF Assumptions
<1>8. \A r \in Proc : st2[r] # "PS_EXECUTING" =>
          fsm_state[r] # "PS_EXECUTING" \/ HandedOver(net, EnteredFrom(r))
  <2>1. HandedOver(net, EnteredFrom(p))
    <3>1. \A other \in EnteredFrom(p) : other.src = p
      BY DEF EnteredFrom, Packet
    <3>2. QED
      BY <1>1, <1>5, <3>1, NothingWaits
  <2>2. \A r \in Proc \ {p} : st2[r] = fsm_state[r]
    BY <1>3, <1>5
  <2>3. QED
    BY <2>1, <2>2
<1> HIDE DEF m, tok, pkt, st2
<1>9. Settled(m, i_have_token, st2)
  <2>1. Settled(net, i_have_token, st2)
    BY <1>5, <1>8, SettledLess
  <2>2. NoneOf(m, TokenPacket)
    BY <1>5, <1>6, <1>7, SentProperties
  <2>3. \A r \in Proc : Ahead(m, ExitedFrom(r), TokenPacket)
    BY <2>2, NothingAhead
  <2>4. ASSUME NEW T, pkt \notin T, HandedOver(net, T) PROVE HandedOver(m, T)
    BY <1>5, <1>6, <2>4, SentWaits
  <2>5. \A r, q \in Proc : i_have_token[q] /\ r # q => HandedOver(m, ExitedFrom(r))
    BY <1>5, <1>7, <2>1, <2>4 DEF Settled, Reporting
  <2>6. \A r \in Proc : st2[r] # "PS_EXECUTING" => HandedOver(m, EnteredFrom(r))
    BY <1>7, <2>1, <2>4 DEF Settled, Reporting
  <2>7. QED
    BY <2>3, <2>5, <2>6 DEF Settled, Reporting
<1>10. Reports(m) = Reports(net)
  BY <1>5, <1>6, ReportsSent DEF Assumptions
<1>11. Settled(net', i_have_token', st2) /\ Reports(net') = Reports(net)
  <2>1. CASE tok.pseudo_queue # <<>>
    <3>1. SendToken(p, tok, m) /\ tok \in Token
      BY <1>2, <1>4, <2>1 DEF tok
    <3>2. Settled(net', i_have_token', st2) /\ Reports(net') = Reports(m)
      BY <1>5, <1>6, <1>9, <3>1, ATokenSent
    <3>3. QED
      BY <1>10, <3>2
  <2>2. CASE tok.pseudo_queue = <<>>
    <3>1. net' = m /\ i_have_token' = i_have_token
      BY <1>2, <2>2 DEF tok
    <3>2. QED
      BY <1>9, <1>10, <3>1
  <2>3. QED
    BY <2>1, <2>2
<1>12. QED
  BY <1>3, <1>11, ASettled DEF st2

LEMMA AWantOK ==
    ASSUME Net = "loopback", Assumptions, IInv, VInv, KInv, AInv, NEW p \in Proc,
           NEW slot \in Receivable(p), process_ev_want_cr(p, slot), SupervisorUnchanged
    PROVE  AInv'
<1> DEFINE m == dme_recv_msg(slot)
           msg == REQUEST(p, suzuki_RN[p][p] + 1)
           New == {Packet(p, d, msg) : d \in Proc \ {p}}
           st2 == fsm_state'
<1>1. /\ st2 = [fsm_state EXCEPT ![p] = "PS_PENDING"]
      /\ fsm_state[p] = "PS_IDLE"
      /\ IF i_have_token[p] THEN net' = m ELSE net' = dme_broadcast_msg(m, p, msg)
      /\ UNCHANGED <<i_have_token, exit_request>>
  BY DEF process_ev_want_cr, IsWant
<1>2. /\ m \in Nets(HostPackets) /\ Placed(m) /\ p \in Node
      /\ fsm_state \in [Proc -> State]
      /\ Settled(m, i_have_token, fsm_state) /\ Reports(m) = Reports(net)
  BY AMessageTaken
<1>3. \A d \in Proc \ {p} : Packet(p, d, msg) \in HostPackets
  <2>1. suzuki_RN[p][p] + 1 \in Nat
    BY DEF IInv, TypeOK
  <2>2. \A d \in Proc \ {p} : Packet(p, d, msg) \in PacketType
    BY <1>2, <2>1, RequestPacketKind, PidFacts DEF Assumptions
  <2>3. \A d : /\ Packet(p, d, msg).src = p /\ Packet(p, d, msg).dst = d
               /\ Packet(p, d, msg).msg.pid = p
    BY DEF Packet, REQUEST
  <2> HIDE DEF msg
  <2>4. QED
    BY <2>2, <2>3 DEF HostPackets
<1>4. /\ msg.type = "REQUEST"
      /\ \A d : Packet(p, d, msg).msg = msg
  BY DEF REQUEST, Packet
<1>5. \A pkt \in TokenPacket : pkt.msg.type = "REPLY"
  BY DEF TokenPacket, TokenMsg
<1> HIDE DEF m, msg, st2
<1>6. Settled(m, i_have_token, st2)
  <2>1. \A r \in Proc : st2[r] # "PS_EXECUTING" => fsm_state[r] # "PS_EXECUTING"
    BY <1>1, <1>2
  <2>2. QED
    BY <1>2, <2>1, SettledLess
<1>7. Settled(net', i_have_token, st2) /\ Reports(net') = Reports(m)
  <2>1. CASE net' = m
    BY <1>6, <2>1
  <2>2. CASE net' = dme_broadcast_msg(m, p, msg)
    <3>1. net' \in Nets(HostPackets) /\ Sent(m, net', New)
      BY <1>2, <1>3, <2>2, OthersTold DEF Assumptions
    <3>2. \A r \in Proc : New \cap ExitedFrom(r) = {} /\ New \cap EnteredFrom(r) = {}
      BY <1>4, NoReport
    <3>3. New \cap TokenPacket = {}
      BY <1>4, <1>5
    <3> HIDE DEF New
    <3>4. QED
      BY <1>2, <1>6, <3>1, <3>2, <3>3, SettledSent, ReportsSent DEF Assumptions
  <2>3. QED
    BY <1>1, <2>1, <2>2
<1>8. QED
  BY <1>1, <1>2, <1>7, ASettled DEF st2

LEMMA ARequestWithTokenOK ==
    ASSUME Net = "loopback", Assumptions, IInv, VInv, KInv, AInv, NEW p \in Proc,
           NEW slot \in Receivable(p), RequestWithToken(p, slot), SupervisorUnchanged, KInv'
    PROVE  AInv'
<1> DEFINE msg == PacketAt(slot).msg
           rn  == LargerOf(suzuki_RN[p][msg.pid], msg.req_no)
           tok == IF Eligible(my_token[p], rn, msg.pid)
                  THEN request_queue_insert(my_token[p], msg.pid)
                  ELSE my_token[p]
           m   == dme_recv_msg(slot)
<1>1. /\ msg.type = "REQUEST" /\ i_have_token[p] /\ SendToken(p, tok, m)
      /\ UNCHANGED <<fsm_state, exit_request>>
  BY DEF RequestWithToken, peerVars
<1>2. msg.pid \in Proc
  BY <1>1, MessageTaken, PacketFields
<1>3. tok \in Token
  <2>1. my_token[p] \in Token
    BY DEF IInv, TypeOK
  <2>2. request_queue_insert(my_token[p], msg.pid) \in Token
    BY <1>2, <2>1, TokenOperations DEF Assumptions
  <2>3. QED
    BY <2>1, <2>2
<1>4. /\ m \in Nets(HostPackets) /\ Placed(m)
      /\ i_have_token \in [Proc -> BOOLEAN]
      /\ Settled(m, i_have_token, fsm_state) /\ Reports(m) = Reports(net)
  BY AMessageTaken
<1> HIDE DEF tok, m
<1>5. net' \in Nets(HostPackets)
  BY DEF KInv
<1>6. Settled(net', i_have_token', fsm_state) /\ Reports(net') = Reports(m)
  BY <1>1, <1>3, <1>4, <1>5, ATokenSent
<1>7. QED
  BY <1>1, <1>4, <1>6, ASettled

LEMMA ANextOK ==
    ASSUME Net = "loopback", OutOfBounds = {FALSE}, Assumptions, IInv, QInv, VInv, KInv, KInv',
           AInv, [Next]_vars
    PROVE  AInv'
<1>1. ASSUME NEW p \in Proc, PeerNext(p) PROVE AInv'
  <2>1. SupervisorUnchanged
    BY <1>1 DEF PeerNext
  <2>2. ASSUME NEW slot \in Receivable(p), net' = dme_recv_msg(slot),
               UNCHANGED <<fsm_state, i_have_token, exit_request>>
        PROVE  AInv'
    BY <2>1, <2>2, AMessageTaken, ASettled
  <2>3. ASSUME NEW slot \in Receivable(p), TokenReceived(p, slot) PROVE AInv'
    <3> DEFINE m == dme_recv_msg(slot)
               held == [i_have_token EXCEPT ![p] = TRUE]
    <3>1. CASE fsm_state[p] # "PS_PENDING"
      BY <2>2, <2>3, <3>1 DEF TokenReceived, peerVars
    <3>2. CASE fsm_state[p] = "PS_PENDING"
      <4>1. PacketAt(slot).msg.type = "REPLY" /\ i_have_token' = held
            /\ process_ev_entered_cr(p, fsm_state[p], m)
        BY <2>3, <3>2 DEF TokenReceived
      <4>2. PacketAt(slot) \in TokenPacket
        BY <4>1, MessageTaken, PacketFields
      <4>3. /\ m \in Nets(HostPackets) /\ Placed(m) /\ fsm_state \in [Proc -> State]
            /\ Settled(m, held, fsm_state) /\ Reports(m) = Reports(net)
        BY <4>2, AMessageTaken
      <4> HIDE DEF m, held
      <4>4. Settled(m, i_have_token', fsm_state)
        BY <4>1, <4>3
      <4>5. QED
        BY <2>1, <3>2, <4>1, <4>3, <4>4, AEntered
    <3>3. QED
      BY <3>1, <3>2
  <2>4. CASE EnteredDelivered(p)
    <3>1. fsm_state[p] = "PS_PENDING"
      BY <2>4 DEF EnteredDelivered, IInv, EventsMatchState
    <3>2. process_ev_entered_cr(p, fsm_state[p], net) /\ UNCHANGED i_have_token
      BY <2>4 DEF EnteredDelivered
    <3>3. /\ net \in Nets(HostPackets) /\ Placed(net) /\ fsm_state \in [Proc -> State]
          /\ Settled(net, i_have_token', fsm_state)
      BY <3>2 DEF KInv, VInv, AInv, IInv, TypeOK, PeerTypeOK
    <3>4. QED
      BY <2>1, <3>1, <3>2, <3>3, AEntered
  <2>5. CASE sendto(p) /\ UNCHANGED <<exit_request, peerVars, suzukiVars>>
    <3>1. Settled(net', i_have_token, fsm_state) /\ Follows(Reports(net'), nodes)
      BY <2>5, PidFacts, ASendtoOK DEF Assumptions
    <3>2. QED
      BY <2>1, <2>5, <3>1 DEF AInv, Unalarmed, SupervisorUnchanged, supVars, peerVars, suzukiVars
  <2>6. ASSUME NEW slot \in Receivable(p), SupervisorMsgNoted(p, slot), UNCHANGED suzukiVars
        PROVE  AInv'
    BY <2>2, <2>6 DEF SupervisorMsgNoted, peerVars, suzukiVars
  <2>7. ASSUME NEW slot \in Receivable(p), RequestNoted(p, slot) PROVE AInv'
    BY <2>2, <2>7 DEF RequestNoted, peerVars
  <2>8. QED
    BY <1>1, <2>1, <2>3, <2>4, <2>5, <2>6, <2>7, AWantOK, ARequestWithTokenOK, AExitedOK
       DEF PeerNext, handle_message
<1>2. CASE UNCHANGED vars
  BY <1>2 DEF vars, peerVars, supVars, suzukiVars, AInv, Unalarmed
<1>3. QED
  BY <1>1, <1>2, ASupervisorNextOK DEF Next

(***************************************************************************)
(* On one host the supervisor does not stop an experiment that is in order,*)
(* when the memory behind its nodes array does not read as a peer that     *)
(* executes: it never sees two peers inside and gets no peer's message.    *)
(***************************************************************************)
THEOREM NoAlarm ==
    ASSUME Net = "loopback", OutOfBounds = {FALSE}
    PROVE  Spec => []NoFalseAlarm
<1>1. Init => AInv
  BY Assumed, AInitOK
<1>2. IInv /\ QInv /\ VInv /\ KInv /\ KInv' /\ AInv /\ [Next]_vars => AInv'
  BY Assumed, ANextOK
<1>3. AInv => NoFalseAlarm
  BY DEF AInv, Unalarmed, NoFalseAlarm
<1>4. Spec => []VInv
  BY VInvariance
<1>5. Spec => []KInv
  BY KInvariance
<1>6. QED
  BY <1>1, <1>2, <1>3, <1>4, <1>5, QInvariance, PTL DEF Spec
-----------------------------------------------------------------------------
(***************************************************************************)
(* Nobody is left waiting, on one host.  Who waits has asked everybody: a  *)
(* peer knows the number of its request or has the packet before it.  And  *)
(* who keeps the token has nobody to give it to: an idle holder knows of   *)
(* no request that counts, a pending one has its ENTERED event queued.     *)
(***************************************************************************)
CurrentRequest(rn, p, r) == {Packet(p, r, REQUEST(p, rn[p][p]))}

Informed(n, rn, p, r) == rn[r][p] = rn[p][p] \/ ~NoneOf(n, CurrentRequest(rn, p, r))

Waits(st, held, p) == st[p] = "PS_PENDING" /\ ~held[p]

AskedEverywhere(n, rn, st, held) ==
    \A p, r \in Proc : p # r /\ Waits(st, held, p) => Informed(n, rn, p, r)

NobodyToServe(tok, known) ==
    tok.pseudo_queue = <<>> /\ \A q \in Proc : known[q] # tok.suzuki_LN[q] + 1

HolderDone(rn, st, held, toks, queued) ==
    \A p \in Proc : held[p] =>
        /\ st[p] = "PS_IDLE" => NobodyToServe(toks[p], rn[p])
        /\ st[p] = "PS_PENDING" => queued[p] = 1

FInv ==
    /\ AskedEverywhere(net, suzuki_RN, fsm_state, i_have_token)
    /\ HolderDone(suzuki_RN, fsm_state, i_have_token, my_token, entered_queued)

(* The requests on their way are still on their way. *)
RequestsStay(n, m, rn) ==
    \A p, r \in Proc :
        ~NoneOf(n, CurrentRequest(rn, p, r)) => ~NoneOf(m, CurrentRequest(rn, p, r))

LEMMA StaysAfterSent ==
    ASSUME NEW P, NEW n \in Nets(P), NEW m \in Nets(P), NEW New, Sent(n, m, New), NEW rn
    PROVE  RequestsStay(n, m, rn)
BY SentProperties DEF RequestsStay

LEMMA StaysInOrder ==
    ASSUME NEW n, NEW m, NEW k, NEW rn, RequestsStay(n, m, rn), RequestsStay(m, k, rn)
    PROVE  RequestsStay(n, k, rn)
BY DEF RequestsStay

(* A packet of the supervisor, or the token, is nobody's request. *)
LEMMA StaysAfterReceive ==
    ASSUME net \in Nets(PacketType), Placed(net), NEW d \in Node, NEW slot \in Receivable(d),
           PacketAt(slot).msg.type # "REQUEST" \/ d \notin Proc, NEW rn
    PROVE  RequestsStay(net, dme_recv_msg(slot), rn)
<1>1. ASSUME NEW p \in Proc, NEW r \in Proc,
             ~NoneOf(net, CurrentRequest(rn, p, r))
      PROVE  ~NoneOf(dme_recv_msg(slot), CurrentRequest(rn, p, r))
  <2>1. PacketAt(slot).dst = d
    BY ReceivePlaced
  <2>2. PacketAt(slot) \notin CurrentRequest(rn, p, r)
    BY <2>1 DEF CurrentRequest, Packet, REQUEST
  <2>3. QED
    BY <1>1, <2>2, ReceivePlaced
<1>2. QED
  BY <1>1 DEF RequestsStay

LEMMA StaysAfterSendto ==
    ASSUME net \in Nets(PacketType), Placed(net), NEW d \in Node, sendto(d), NEW rn
    PROVE  RequestsStay(net, net', rn)
<1>1. \A pkt \in PacketType : pkt.dst \in Node
  BY PacketKinds
<1>2. QED
  BY <1>1, SendtoPlaced DEF RequestsStay

(* With nothing new to ask, and the requests still on their way. *)
LEMMA AskedStill ==
    ASSUME NEW n, NEW m, NEW rn, NEW st, NEW held, NEW st2, NEW held2,
           AskedEverywhere(n, rn, st, held), RequestsStay(n, m, rn),
           \A q \in Proc : Waits(st2, held2, q) => Waits(st, held, q)
    PROVE  AskedEverywhere(m, rn, st2, held2)
BY DEF AskedEverywhere, RequestsStay, Informed

LEMMA FUntouched ==
    ASSUME FInv, UNCHANGED <<fsm_state, suzukiVars>>, RequestsStay(net, net', suzuki_RN)
    PROVE  FInv'
<1>1. UNCHANGED <<fsm_state, suzuki_RN, i_have_token, my_token, entered_queued>>
  BY DEF suzukiVars
<1>2. AskedEverywhere(net', suzuki_RN, fsm_state, i_have_token)
  BY AskedStill DEF FInv
<1>3. QED
  BY <1>1, <1>2 DEF FInv

-----------------------------------------------------------------------------
(* The steps. *)
LEMMA FInitOK == ASSUME Assumptions, Init PROVE FInv
<1>1. \A p \in Proc : fsm_state[p] = "PS_IDLE"
  BY DEF Init, PeerInit
<1>2. AskedEverywhere(net, suzuki_RN, fsm_state, i_have_token)
  BY <1>1 DEF AskedEverywhere, Waits
<1>3. ASSUME NEW p \in Proc PROVE NobodyToServe(my_token[p], suzuki_RN[p])
  <2>1. my_token[p] = NoToken /\ \A q \in Proc : suzuki_RN[p][q] = 0
    BY DEF Init
  <2>2. QED
    BY <2>1 DEF NobodyToServe, NoToken
<1>4. QED
  BY <1>1, <1>2, <1>3 DEF FInv, HolderDone

LEMMA FSupervisorNextOK ==
    ASSUME Assumptions, IInv, VInv, FInv, SupervisorNext
    PROVE  FInv'
<1>1. net \in Nets(PacketType) /\ Placed(net) /\ SUPERVISOR_PID \in Node /\ SUPERVISOR_PID \notin Proc
  BY PidFacts DEF IInv, TypeOK, VInv, Nets, Assumptions, SUPERVISOR_PID, Proc
<1>2. UNCHANGED <<fsm_state, suzukiVars>>
  BY DEF SupervisorNext, peerVars
<1>3. RequestsStay(net, net', suzuki_RN)
  <2>1. CASE SupNext
    <3>1. \/ \E New \in SUBSET (FromSupervisor("SYNCRO") \cup FromSupervisor("WANT")) :
                net' \in Nets(PacketType) /\ Sent(net, net', New)
          \/ \E slot \in Receivable(SUPERVISOR_PID) : net' = dme_recv_msg(slot)
      BY <1>1, <2>1, SupPacketKind, SupervisorEffect DEF Assumptions
    <3>2. QED
      BY <1>1, <3>1, StaysAfterSent, StaysAfterReceive
  <2>2. CASE sendto(SUPERVISOR_PID)
    BY <1>1, <2>2, StaysAfterSendto
  <2>3. QED
    BY <2>1, <2>2 DEF SupervisorNext
<1>4. QED
  BY <1>2, <1>3, FUntouched

LEMMA FNotedOK ==
    ASSUME Assumptions, IInv, VInv, FInv, NEW p \in Proc, NEW slot \in Receivable(p),
           SupervisorMsgNoted(p, slot), UNCHANGED suzukiVars
    PROVE  FInv'
<1>1. /\ p \in Node /\ net \in Nets(PacketType) /\ Placed(net)
      /\ net' = dme_recv_msg(slot) /\ UNCHANGED fsm_state
  BY VMessageTaken DEF SupervisorMsgNoted, peerVars
<1>2. PacketAt(slot).msg.type # "REQUEST"
  BY DEF SupervisorMsgNoted, SupervisorMsgAt, SupMsg
<1>3. QED
  BY <1>1, <1>2, StaysAfterReceive, FUntouched

LEMMA FWantOK ==
    ASSUME Assumptions, IInv, VInv, FInv, NEW p \in Proc, NEW slot \in Receivable(p),
           process_ev_want_cr(p, slot)
    PROVE  FInv'
<1> DEFINE m == dme_recv_msg(slot)
           req_no == suzuki_RN[p][p] + 1
           New == {Packet(p, d, REQUEST(p, req_no)) : d \in Proc \ {p}}
<1>1. /\ fsm_state[p] = "PS_IDLE"
      /\ fsm_state' = [fsm_state EXCEPT ![p] = "PS_PENDING"]
      /\ suzuki_RN' = [suzuki_RN EXCEPT ![p][p] = @ + 1]
      /\ UNCHANGED <<i_have_token, my_token>>
      /\ IF i_have_token[p]
         THEN entered_queued' = [entered_queued EXCEPT ![p] = @ + 1] /\ net' = m
         ELSE net' = dme_broadcast_msg(m, p, REQUEST(p, req_no)) /\ UNCHANGED entered_queued
      /\ PacketAt(slot).msg.type # "REQUEST"
  BY DEF process_ev_want_cr, IsWant, SupervisorMsgAt, SupMsg
<1>2. /\ fsm_state \in [Proc -> State]
      /\ suzuki_RN \in [Proc -> [Proc -> Nat]]
      /\ entered_queued \in [Proc -> Nat] /\ entered_queued[p] = 0
  BY <1>1 DEF IInv, TypeOK, PeerTypeOK, EventsMatchState
<1>3. /\ p \in Node /\ net \in Nets(PacketType) /\ Placed(net)
      /\ m \in Nets(PacketType) /\ Placed(m)
  BY VMessageTaken
<1>4. RequestsStay(net, m, suzuki_RN)
  BY <1>1, <1>3, StaysAfterReceive
<1>5. /\ suzuki_RN'[p][p] = req_no /\ req_no \in Nat
      /\ \A a, b \in Proc : a # p \/ b # p => suzuki_RN'[a][b] = suzuki_RN[a][b]
  BY <1>1, <1>2
<1>6. /\ fsm_state'[p] = "PS_PENDING"
      /\ \A q \in Proc : q # p => fsm_state'[q] = fsm_state[q]
  BY <1>1, <1>2
<1>7. \A q \in Proc : q # p => entered_queued'[q] = entered_queued[q]
  BY <1>1, <1>2
<1>8. i_have_token[p] => entered_queued'[p] = 1
  BY <1>1, <1>2
<1> HIDE DEF m, req_no
<1>9. /\ RequestsStay(m, net', suzuki_RN)
      /\ ~i_have_token[p] => net' \in Nets(PacketType) /\ Sent(m, net', New)
  <2>1. CASE i_have_token[p]
    BY <1>1, <2>1 DEF RequestsStay
  <2>2. CASE ~i_have_token[p]
    <3>1. \A d \in Proc \ {p} : Packet(p, d, REQUEST(p, req_no)) \in PacketType
      BY <1>5, RequestPacketKind, PidFacts DEF Assumptions
    <3>2. net' \in Nets(PacketType) /\ Sent(m, net', New)
      BY <1>1, <1>3, <2>2, <3>1, OthersTold DEF Assumptions
    <3> HIDE DEF New
    <3>3. QED
      BY <1>3, <3>2, StaysAfterSent
  <2>3. QED
    BY <2>1, <2>2
<1>10. RequestsStay(net, net', suzuki_RN)
  BY <1>4, <1>9, StaysInOrder
<1>11. ASSUME NEW a \in Proc, NEW r \in Proc, a # r, Waits(fsm_state', i_have_token', a)
       PROVE  Informed(net', suzuki_RN', a, r)
  <2>1. CASE a = p
    <3>1. ~i_have_token[p]
      BY <1>1, <1>11, <2>1 DEF Waits
    <3>2. Packet(p, r, REQUEST(p, req_no)) \in New /\ CurrentRequest(suzuki_RN', p, r) = {Packet(p, r, REQUEST(p, req_no))}
      BY <1>5, <1>11, <2>1 DEF CurrentRequest
    <3>3. New \cap CurrentRequest(suzuki_RN', p, r) # {}
      BY <3>2
    <3> HIDE DEF New
    <3>4. ~NoneOf(net', CurrentRequest(suzuki_RN', p, r))
      BY <1>3, <1>9, <3>1, <3>3, SentProperties
    <3>5. QED
      BY <2>1, <3>4 DEF Informed
  <2>2. CASE a # p
    <3>1. Waits(fsm_state, i_have_token, a)
      BY <1>1, <1>6, <1>11, <2>2 DEF Waits
    <3>2. Informed(net, suzuki_RN, a, r)
      BY <1>11, <3>1 DEF FInv, AskedEverywhere
    <3>3. suzuki_RN'[a][a] = suzuki_RN[a][a] /\ suzuki_RN'[r][a] = suzuki_RN[r][a]
      BY <1>5, <2>2
    <3>4. QED
      BY <1>10, <3>2, <3>3 DEF Informed, RequestsStay, CurrentRequest
  <2>3. QED
    BY <2>1, <2>2
<1>12. ASSUME NEW q \in Proc, i_have_token'[q]
       PROVE  /\ fsm_state'[q] = "PS_IDLE" => NobodyToServe(my_token'[q], suzuki_RN'[q])
              /\ fsm_state'[q] = "PS_PENDING" => entered_queued'[q] = 1
  <2>1. CASE q = p
    BY <1>1, <1>6, <1>8, <1>12, <2>1
  <2>2. CASE q # p
    <3>1. /\ i_have_token[q] /\ fsm_state'[q] = fsm_state[q] /\ my_token'[q] = my_token[q]
          /\ entered_queued'[q] = entered_queued[q]
          /\ \A b \in Proc : suzuki_RN'[q][b] = suzuki_RN[q][b]
      BY <1>1, <1>5, <1>6, <1>7, <1>12, <2>2
    <3>2. /\ fsm_state[q] = "PS_IDLE" => NobodyToServe(my_token[q], suzuki_RN[q])
          /\ fsm_state[q] = "PS_PENDING" => entered_queued[q] = 1
      BY <3>1 DEF FInv, HolderDone
    <3>3. QED
      BY <3>1, <3>2 DEF NobodyToServe
  <2>3. QED
    BY <2>1, <2>2
<1>13. QED
  BY <1>11, <1>12 DEF FInv, AskedEverywhere, HolderDone

LEMMA OwnNumbersStay ==
    ASSUME NEW rn \in [Proc -> [Proc -> Nat]], NEW rn2, NEW st, Harmless(rn, st, rn2, st)
    PROVE  \A q \in Proc : rn2[q][q] = rn[q][q]
<1>1. TAKE q \in Proc
<1> DEFINE a == rn[q][q]
           b == rn2[q][q]
           x == Owed(st, q)
<1>2. a \in Nat /\ b \in Nat /\ x \in Nat
  BY DEF Harmless, Owed
<1>3. b - x = a - x
  BY DEF Harmless
<1> HIDE DEF a, b, x
<1>4. a = b
  BY <1>2, <1>3
<1>5. QED
  BY <1>4 DEF a, b

(***************************************************************************)
(* A request is read.  If it is the sender's last, its reader knows the    *)
(* number now; the others are where they were.                             *)
(***************************************************************************)
LEMMA RequestRead ==
    ASSUME Assumptions, IInv, QInv, VInv, FInv, NEW p \in Proc, NEW slot \in Receivable(p),
           PacketAt(slot).msg.type = "REQUEST",
           suzuki_RN' = [suzuki_RN EXCEPT ![p][PacketAt(slot).msg.pid] =
                            LargerOf(@, PacketAt(slot).msg.req_no)],
           RequestsStay(dme_recv_msg(slot), net', suzuki_RN),
           \A q \in Proc : Waits(fsm_state', i_have_token', q) => Waits(fsm_state, i_have_token, q)
    PROVE  /\ AskedEverywhere(net', suzuki_RN', fsm_state', i_have_token')
           /\ \A q, b \in Proc : q # p => suzuki_RN'[q][b] = suzuki_RN[q][b]
<1> DEFINE pkt == PacketAt(slot)
           m   == dme_recv_msg(slot)
<1>1. p \in Node /\ net \in Nets(PacketType) /\ Placed(net)
  BY VMessageTaken
<1>2. pkt \in PacketType /\ pkt.dst = p /\ pkt.msg.pid \in Proc /\ pkt.msg.req_no \in Nat
  BY MessageTaken, PacketFields, <1>1, ReceivePlaced
<1>3. suzuki_RN \in [Proc -> [Proc -> Nat]]
  BY DEF IInv, TypeOK
<1>4. /\ Harmless(suzuki_RN, fsm_state, suzuki_RN', fsm_state)
      /\ NotAhead(suzuki_RN')
  BY RequestHarmless
<1>5. \A q \in Proc : suzuki_RN'[q][q] = suzuki_RN[q][q]
  <2>1. ASSUME NEW rn2, NEW st, Harmless(suzuki_RN, st, rn2, st)
        PROVE  \A q \in Proc : rn2[q][q] = suzuki_RN[q][q]
    BY <1>3, <2>1, OwnNumbersStay
  <2>2. \A rn2, st : Harmless(suzuki_RN, st, rn2, st)
           => \A q \in Proc : rn2[q][q] = suzuki_RN[q][q]
    BY <2>1
  <2>3. QED
    BY <1>4, <2>2, Zenon
<1>6. /\ suzuki_RN'[p][pkt.msg.pid] = LargerOf(suzuki_RN[p][pkt.msg.pid], pkt.msg.req_no)
      /\ \A q, b \in Proc : q # p \/ b # pkt.msg.pid => suzuki_RN'[q][b] = suzuki_RN[q][b]
  BY <1>2, <1>3
<1> HIDE DEF m
<1>7. ASSUME NEW a \in Proc, NEW r \in Proc, a # r, Waits(fsm_state', i_have_token', a)
      PROVE  Informed(net', suzuki_RN', a, r)
  <2> DEFINE old == suzuki_RN[r][a]
             new == suzuki_RN'[r][a]
             own == suzuki_RN[a][a]
             no  == pkt.msg.req_no
  <2>1. Informed(net, suzuki_RN, a, r)
    BY <1>7 DEF FInv, AskedEverywhere
  <2>2. suzuki_RN'[a][a] = own /\ old \in Nat /\ own \in Nat /\ new <= own
    BY <1>3, <1>4, <1>5 DEF NotAhead
  <2>3. new = old \/ (r = p /\ a = pkt.msg.pid /\ new = LargerOf(old, no))
    BY <1>6
  <2> HIDE DEF old, new, own, no
  <2>4. CASE old = own
    <3>1. new = own
      <4>1. no \in Nat
        BY <1>2 DEF no
      <4>2. QED
        BY <2>2, <2>3, <2>4, <4>1 DEF LargerOf
    <3>2. QED
      BY <2>2, <3>1 DEF Informed, new, own
  <2>5. CASE pkt \in CurrentRequest(suzuki_RN, a, r)
    <3>1. r = p /\ a = pkt.msg.pid /\ no = own
      BY <1>2, <2>5 DEF CurrentRequest, Packet, REQUEST, no, own
    <3>2. new = LargerOf(old, own)
      BY <1>6, <3>1 DEF new, old, no
    <3>3. new = own
      BY <2>2, <3>2 DEF LargerOf
    <3>4. QED
      BY <2>2, <3>3 DEF Informed, new, own
  <2>6. CASE old # own /\ pkt \notin CurrentRequest(suzuki_RN, a, r)
    <3>1. ~NoneOf(net, CurrentRequest(suzuki_RN, a, r))
      BY <2>1, <2>6 DEF Informed, old, own
    <3>2. ~NoneOf(m, CurrentRequest(suzuki_RN, a, r))
      BY <1>1, <2>6, <3>1, ReceivePlaced DEF m
    <3>3. ~NoneOf(net', CurrentRequest(suzuki_RN, a, r))
      BY <3>2 DEF RequestsStay, m
    <3>4. CurrentRequest(suzuki_RN', a, r) = CurrentRequest(suzuki_RN, a, r)
      BY <1>5 DEF CurrentRequest
    <3>5. QED
      BY <3>3, <3>4 DEF Informed
  <2>7. QED
    BY <2>4, <2>5, <2>6
<1>8. QED
  BY <1>6, <1>7 DEF AskedEverywhere

LEMMA FRequestNotedOK ==
    ASSUME Assumptions, IInv, QInv, VInv, FInv, NEW p \in Proc, NEW slot \in Receivable(p),
           RequestNoted(p, slot)
    PROVE  FInv'
<1>1. /\ PacketAt(slot).msg.type = "REQUEST"
      /\ suzuki_RN' = [suzuki_RN EXCEPT ![p][PacketAt(slot).msg.pid] =
                          LargerOf(@, PacketAt(slot).msg.req_no)]
      /\ net' = dme_recv_msg(slot)
      /\ fsm_state[p] = "PS_IDLE" => ~i_have_token[p]
      /\ UNCHANGED <<fsm_state, i_have_token, my_token, entered_queued>>
  BY DEF RequestNoted, peerVars
<1>2. RequestsStay(dme_recv_msg(slot), net', suzuki_RN)
  BY <1>1 DEF RequestsStay
<1>3. /\ AskedEverywhere(net', suzuki_RN', fsm_state', i_have_token')
      /\ \A q, b \in Proc : q # p => suzuki_RN'[q][b] = suzuki_RN[q][b]
  BY <1>1, <1>2, RequestRead
<1>4. ASSUME NEW q \in Proc, i_have_token[q]
      PROVE  /\ fsm_state[q] = "PS_IDLE" => NobodyToServe(my_token[q], suzuki_RN'[q])
             /\ fsm_state[q] = "PS_PENDING" => entered_queued[q] = 1
  <2>1. /\ fsm_state[q] = "PS_IDLE" => NobodyToServe(my_token[q], suzuki_RN[q])
        /\ fsm_state[q] = "PS_PENDING" => entered_queued[q] = 1
    BY <1>4 DEF FInv, HolderDone
  <2>2. fsm_state[q] = "PS_IDLE" => q # p
    BY <1>1, <1>4
  <2>3. QED
    BY <1>3, <2>1, <2>2 DEF NobodyToServe
<1>5. QED
  BY <1>1, <1>3, <1>4 DEF FInv, HolderDone

(* The token is sent after the network n: no request is touched. *)
LEMMA StaysAfterToken ==
    ASSUME Assumptions, NEW p \in Proc, NEW n \in Nets(PacketType), Placed(n),
           NEW tok \in Token, SendToken(p, tok, n), NEW rn
    PROVE  RequestsStay(n, net', rn)
<1> DEFINE dst == FinalElement(tok)
           popped == request_queue_pop(tok)
<1>1. popped \in Token /\ dst \in Node /\ p \in Node
  BY TokenOperations, PidFacts DEF Assumptions
<1>2. Packet(p, dst, REPLY(p, popped)) \in PacketType
  BY <1>1, TokenPacketKind DEF Assumptions
<1>3. net' = dme_send_msg(n, p, dst, REPLY(p, popped))
  BY DEF SendToken
<1> HIDE DEF dst, popped
<1>4. net' \in Nets(PacketType) /\ Sent(n, net', {Packet(p, dst, REPLY(p, popped))})
  BY <1>1, <1>2, <1>3, OneTold
<1>5. QED
  BY <1>4, StaysAfterSent

LEMMA FRequestWithTokenOK ==
    ASSUME Assumptions, IInv, QInv, VInv, FInv, NEW p \in Proc, NEW slot \in Receivable(p),
           RequestWithToken(p, slot)
    PROVE  FInv'
<1> DEFINE msg == PacketAt(slot).msg
           rn  == LargerOf(suzuki_RN[p][msg.pid], msg.req_no)
           tok == IF Eligible(my_token[p], rn, msg.pid)
                  THEN request_queue_insert(my_token[p], msg.pid)
                  ELSE my_token[p]
<1>1. /\ msg.type = "REQUEST" /\ SendToken(p, tok, dme_recv_msg(slot))
      /\ suzuki_RN' = [suzuki_RN EXCEPT ![p][msg.pid] = LargerOf(@, msg.req_no)]
      /\ fsm_state[p] = "PS_IDLE" /\ i_have_token[p] /\ UNCHANGED fsm_state
  BY DEF RequestWithToken, peerVars
<1>2. msg.pid \in Proc
  BY <1>1, MessageTaken, PacketFields
<1>3. tok \in Token
  <2>1. my_token[p] \in Token
    BY DEF IInv, TypeOK
  <2>2. request_queue_insert(my_token[p], msg.pid) \in Token
    BY <1>2, <2>1, TokenOperations DEF Assumptions
  <2>3. QED
    BY <2>1, <2>2
<1> HIDE DEF tok
<1>4. dme_recv_msg(slot) \in Nets(PacketType) /\ Placed(dme_recv_msg(slot))
  BY VMessageTaken
<1>5. RequestsStay(dme_recv_msg(slot), net', suzuki_RN)
  BY <1>1, <1>3, <1>4, StaysAfterToken
<1>6. i_have_token \in [Proc -> BOOLEAN] /\ \A q \in Proc : i_have_token[q] => q = p
  BY <1>1 DEF IInv, TypeOK, TokenUnique
<1>7. \A q \in Proc : ~i_have_token'[q] /\ (q # p => ~i_have_token[q])
  BY <1>1, <1>6 DEF SendToken
<1>8. \A q \in Proc : Waits(fsm_state', i_have_token', q) => Waits(fsm_state, i_have_token, q)
  BY <1>1, <1>7 DEF Waits
<1>9. AskedEverywhere(net', suzuki_RN', fsm_state', i_have_token')
  BY <1>1, <1>5, <1>8, RequestRead
<1>10. QED
  BY <1>7, <1>9 DEF FInv, HolderDone

(* p enters in front of the network n: nobody else has the token. *)
LEMMA FEntered ==
    ASSUME Assumptions, IInv, FInv, NEW p \in Proc, NEW n \in Nets(PacketType), Placed(n),
           fsm_state[p] = "PS_PENDING", process_ev_entered_cr(p, fsm_state[p], n),
           RequestsStay(net, n, suzuki_RN), UNCHANGED suzuki_RN,
           \A q \in Proc : i_have_token'[q] <=> q = p,
           \A q \in Proc : i_have_token[q] => q = p
    PROVE  FInv'
<1>1. /\ net' = dme_send_msg(n, p, SUPERVISOR_PID, [type |-> "ENTERED"])
      /\ fsm_state' = [fsm_state EXCEPT ![p] = "PS_EXECUTING"]
  BY DEF process_ev_entered_cr
<1>2. net' \in Nets(PacketType)
      /\ Sent(n, net', {Packet(p, SUPERVISOR_PID, [type |-> "ENTERED"])})
  BY <1>1, SupPacketKind, SupervisorTold DEF Assumptions
<1>3. RequestsStay(net, net', suzuki_RN)
  BY <1>2, StaysAfterSent, StaysInOrder
<1>4. fsm_state \in [Proc -> State]
  BY DEF IInv, TypeOK, PeerTypeOK
<1>5. /\ fsm_state'[p] = "PS_EXECUTING"
      /\ \A q \in Proc : q # p => fsm_state'[q] = fsm_state[q]
  BY <1>1, <1>4
<1>6. \A q \in Proc : Waits(fsm_state', i_have_token', q) => Waits(fsm_state, i_have_token, q)
  BY <1>5 DEF Waits
<1>7. AskedEverywhere(net', suzuki_RN, fsm_state', i_have_token')
  BY <1>3, <1>6, AskedStill DEF FInv
<1>8. HolderDone(suzuki_RN', fsm_state', i_have_token', my_token', entered_queued')
  BY <1>5 DEF HolderDone
<1>9. QED
  BY <1>7, <1>8 DEF FInv

LEMMA FTokenReceivedOK ==
    ASSUME Assumptions, IInv, VInv, FInv, NEW p \in Proc, NEW slot \in Receivable(p),
           TokenReceived(p, slot)
    PROVE  FInv'
<1> DEFINE m == dme_recv_msg(slot)
<1>1. PacketAt(slot).msg.type = "REPLY" /\ UNCHANGED <<suzuki_RN, entered_queued>>
  BY DEF TokenReceived
<1>2. p \in Node /\ net \in Nets(PacketType) /\ Placed(net) /\ m \in Nets(PacketType) /\ Placed(m)
  BY VMessageTaken
<1>3. RequestsStay(net, m, suzuki_RN)
  BY <1>1, <1>2, StaysAfterReceive
<1>4. \A q \in Proc : ~i_have_token[q]
  <2>1. PacketAt(slot) \in TokenPacket
    BY <1>1, MessageTaken, PacketFields
  <2>2. ~NoneOf(net, TokenPacket)
    BY <2>1, MessageTaken
  <2>3. QED
    BY <2>2 DEF IInv, TokenUnique
<1> HIDE DEF m
<1>5. CASE fsm_state[p] = "PS_PENDING"
  <2>1. /\ i_have_token' = [i_have_token EXCEPT ![p] = TRUE]
        /\ process_ev_entered_cr(p, fsm_state[p], m)
    BY <1>5 DEF TokenReceived, m
  <2>2. i_have_token \in [Proc -> BOOLEAN]
    BY DEF IInv, TypeOK
  <2>3. \A q \in Proc : i_have_token'[q] <=> q = p
    BY <1>4, <2>1, <2>2
  <2>4. QED
    BY <1>1, <1>2, <1>3, <1>4, <1>5, <2>1, <2>3, FEntered
<1>6. CASE fsm_state[p] # "PS_PENDING"
  <2>1. net' = m /\ UNCHANGED <<fsm_state, suzukiVars>>
    BY <1>1, <1>6 DEF TokenReceived, m, peerVars, suzukiVars
  <2>2. QED
    BY <1>3, <2>1, FUntouched
<1>7. QED
  BY <1>5, <1>6

LEMMA FEnteredDeliveredOK ==
    ASSUME Assumptions, IInv, VInv, FInv, NEW p \in Proc, EnteredDelivered(p)
    PROVE  FInv'
<1>1. /\ process_ev_entered_cr(p, fsm_state[p], net)
      /\ UNCHANGED <<suzuki_RN, i_have_token>>
      /\ entered_queued[p] > 0
  BY DEF EnteredDelivered
<1>2. fsm_state[p] = "PS_PENDING" /\ i_have_token[p]
  BY <1>1 DEF IInv, EventsMatchState
<1>3. \A q \in Proc : i_have_token[q] <=> q = p
  BY <1>2 DEF IInv, TokenUnique
<1>4. \A q \in Proc : i_have_token'[q] <=> q = p
  BY <1>1, <1>3
<1>5. net \in Nets(PacketType) /\ Placed(net) /\ RequestsStay(net, net, suzuki_RN)
  BY DEF IInv, TypeOK, VInv, Nets, RequestsStay
<1>6. QED
  BY <1>1, <1>2, <1>3, <1>4, <1>5, FEntered

LEMMA FExitedOK ==
    ASSUME Assumptions, IInv, VInv, FInv, NEW p \in Proc, process_ev_exited_cr(p)
    PROVE  FInv'
<1> DEFINE served == CountServed(my_token[p], p)
           waiting == {q \in Proc : Eligible(served, suzuki_RN[p][q], q)}
           Requeued(added) == [served EXCEPT !.pseudo_queue = added \o @]
           m == InformExited(p)
<1>1. fsm_state[p] = "PS_EXECUTING" /\ UNCHANGED suzuki_RN
  BY DEF process_ev_exited_cr, ExitedDue, IInv, EventsMatchState
<1>2. PICK added \in [1 .. Cardinality(waiting) -> waiting] :
         IF Requeued(added).pseudo_queue # <<>>
         THEN SendToken(p, Requeued(added), m)
         ELSE /\ net' = m
              /\ my_token' = [my_token EXCEPT ![p] = Requeued(added)]
              /\ UNCHANGED i_have_token
  BY <1>1 DEF process_ev_exited_cr
<1>3. fsm_state' = [fsm_state EXCEPT ![p] = "PS_IDLE"]
  BY <1>1 DEF process_ev_exited_cr, LeaveCriticalRegion
<1> DEFINE tok == Requeued(added)
<1>4. /\ fsm_state \in [Proc -> State] /\ my_token \in [Proc -> Token]
      /\ i_have_token \in [Proc -> BOOLEAN]
      /\ suzuki_RN \in [Proc -> [Proc -> Nat]]
      /\ i_have_token[p] /\ \A q \in Proc : i_have_token[q] => q = p
  BY <1>1 DEF IInv, TypeOK, PeerTypeOK, TokenUnique
<1>5. served \in Token /\ served.pseudo_queue = my_token[p].pseudo_queue
  <2> DEFINE LN == [my_token[p].suzuki_LN EXCEPT ![p] = @ + 1]
  <2>1. my_token[p] \in Token /\ LN \in [Proc -> Nat]
    BY <1>4 DEF Token
  <2>2. served = [my_token[p] EXCEPT !.suzuki_LN = LN]
    BY DEF CountServed
  <2> HIDE DEF LN, served
  <2>3. QED
    BY <2>1, <2>2 DEF Token
<1>6. tok \in Token
  <2>1. my_token[p] \in Token /\ waiting \in SUBSET Proc
    BY <1>4
  <2> HIDE DEF waiting
  <2>2. QED
    BY <2>1, TokenAfterExit DEF Assumptions
<1>7. tok.pseudo_queue = added \o served.pseudo_queue /\ tok.suzuki_LN = served.suzuki_LN
  <2> HIDE DEF served
  <2>1. QED
    BY <1>5, <1>6 DEF Token
<1>8. tok.pseudo_queue = <<>> => NobodyToServe(tok, suzuki_RN[p])
  <2>1. SUFFICES ASSUME tok.pseudo_queue = <<>> PROVE \A q \in Proc : suzuki_RN[p][q] # tok.suzuki_LN[q] + 1
    BY DEF NobodyToServe
  <2>2. IsFiniteSet(waiting) /\ waiting \subseteq Proc
    <3>1. IsFiniteSet(Proc) /\ waiting \subseteq Proc
      BY FS_Interval DEF Proc, Assumptions, NetworkAssumption
    <3> HIDE DEF waiting
    <3>2. QED
      BY <3>1, FS_Subset
  <2>3. served.pseudo_queue \in Seq(Proc)
    BY <1>5 DEF Token
  <2> DEFINE queue == served.pseudo_queue
             Who == waiting
  <2>4. \A q \in Proc : suzuki_RN[p][q] = served.suzuki_LN[q] + 1 /\ q \notin ToSet(queue) => q \in Who
    BY DEF Eligible
  <2> HIDE DEF Requeued, tok
  <2>5. added \in [1 .. Cardinality(Who) -> Who] /\ added \o queue = <<>> /\ queue \in Seq(Proc)
        /\ IsFiniteSet(Who) /\ Who \subseteq Proc
    BY <1>7, <2>1, <2>2, <2>3
  <2> HIDE DEF served, waiting, queue, Who
  <2>6. Cardinality(Who) \in Nat
    BY <2>5, FS_CardinalityType
  <2>7. added \in Seq(Proc) /\ Len(added) = Cardinality(Who)
    <3>1. added \in [1 .. Cardinality(Who) -> Proc]
      BY <2>5
    <3>2. added \in Seq(Proc) /\ DOMAIN added = 1 .. Cardinality(Who)
      BY <2>6, <3>1, SeqDef
    <3>3. QED
      BY <2>6, <3>2, LenProperties
  <2>8. Len(added) = 0 /\ queue = <<>>
    <3>1. Len(added \o queue) = Len(added) + Len(queue) /\ Len(added \o queue) = 0
      BY <2>5, <2>7, ConcatProperties, EmptySeq
    <3>2. Len(added) \in Nat /\ Len(queue) \in Nat
      BY <2>5, <2>7, LenProperties
    <3>3. Len(added) = 0 /\ Len(queue) = 0
      BY <3>1, <3>2
    <3>4. QED
      BY <2>5, <3>3, EmptySeq
  <2>9. Who = {}
    BY <2>5, <2>7, <2>8, FS_EmptySet
  <2>10. ToSet(queue) = {}
    BY <2>8 DEF ToSet
  <2>11. QED
    BY <1>7, <2>4, <2>9, <2>10
<1>9. /\ fsm_state'[p] = "PS_IDLE"
      /\ \A q \in Proc : q # p => fsm_state'[q] = fsm_state[q]
  BY <1>3, <1>4
<1>10. m \in Nets(PacketType) /\ Placed(m) /\ RequestsStay(net, m, suzuki_RN)
  <2>1. net \in Nets(PacketType) /\ Placed(net)
    BY DEF IInv, TypeOK, VInv, Nets
  <2>2. /\ m \in Nets(PacketType) /\ Placed(m)
        /\ Sent(net, m, {Packet(p, SUPERVISOR_PID, [type |-> "EXITED"])})
    BY <2>1, SupPacketKind, SupervisorTold DEF Assumptions, InformExited
  <2> HIDE DEF m
  <2>3. QED
    BY <2>1, <2>2, StaysAfterSent
<1> HIDE DEF waiting, served, Requeued, m, tok
<1>11. \A q \in Proc : q # p => (i_have_token'[q] <=> i_have_token[q])
  <2>1. CASE SendToken(p, tok, m)
    BY <1>4, <2>1 DEF SendToken
  <2>2. CASE UNCHANGED i_have_token
    BY <2>2
  <2>3. QED
    BY <1>2, <2>1, <2>2 DEF tok
<1>12. \A q \in Proc : Waits(fsm_state', i_have_token', q) => Waits(fsm_state, i_have_token, q)
  BY <1>9, <1>11 DEF Waits
<1>13. CASE tok.pseudo_queue # <<>>
  <2>1. SendToken(p, tok, m)
    BY <1>2, <1>13 DEF tok
  <2>2. RequestsStay(net, net', suzuki_RN)
    BY <1>6, <1>10, <2>1, StaysAfterToken, StaysInOrder
  <2>3. AskedEverywhere(net', suzuki_RN, fsm_state', i_have_token')
    BY <1>12, <2>2, AskedStill DEF FInv
  <2>4. \A q \in Proc : ~i_have_token'[q]
    BY <1>4, <2>1 DEF SendToken
  <2>5. QED
    BY <1>1, <2>3, <2>4 DEF FInv, HolderDone
<1>14. CASE tok.pseudo_queue = <<>>
  <2>1. net' = m /\ my_token' = [my_token EXCEPT ![p] = tok] /\ UNCHANGED i_have_token
    BY <1>2, <1>14 DEF tok
  <2>2. AskedEverywhere(net', suzuki_RN, fsm_state', i_have_token')
    BY <1>10, <1>12, <2>1, AskedStill DEF FInv
  <2>3. my_token'[p] = tok
    BY <1>4, <2>1
  <2>4. HolderDone(suzuki_RN', fsm_state', i_have_token', my_token', entered_queued')
    BY <1>1, <1>4, <1>8, <1>9, <1>14, <2>1, <2>3 DEF HolderDone
  <2>5. QED
    BY <1>1, <2>2, <2>4 DEF FInv
<1>15. QED
  BY <1>13, <1>14

LEMMA FNextOK ==
    ASSUME Net # "udp", Assumptions, IInv, QInv, VInv, FInv, [Next]_vars
    PROVE  FInv'
<1>1. CASE SupervisorNext
  BY <1>1, FSupervisorNextOK
<1>2. ASSUME NEW p \in Proc, PeerNext(p) PROVE FInv'
  <2>1. CASE handle_message(p)
    BY <2>1, FNotedOK, FWantOK, FRequestWithTokenOK, FRequestNotedOK, FTokenReceivedOK
       DEF handle_message
  <2>2. CASE EnteredDelivered(p)
    BY <2>2, FEnteredDeliveredOK
  <2>3. CASE process_ev_exited_cr(p)
    BY <2>3, FExitedOK
  <2>4. CASE sendto(p) /\ UNCHANGED <<exit_request, peerVars, suzukiVars>>
    <3>1. net \in Nets(PacketType) /\ Placed(net) /\ p \in Node
      BY PidFacts DEF IInv, TypeOK, VInv, Nets, Assumptions
    <3>2. RequestsStay(net, net', suzuki_RN)
      BY <2>4, <3>1, StaysAfterSendto
    <3>3. QED
      BY <2>4, <3>2, FUntouched DEF peerVars
  <2>5. QED
    BY <1>2, <2>1, <2>2, <2>3, <2>4 DEF PeerNext
<1>3. CASE UNCHANGED vars
  BY <1>3, FUntouched DEF vars, peerVars, RequestsStay
<1>4. QED
  BY <1>1, <1>2, <1>3 DEF Next

LEMMA FInvariance == ASSUME Net # "udp" PROVE Spec => []FInv
<1>1. Init => FInv
  BY Assumed, FInitOK
<1>2. IInv /\ QInv /\ VInv /\ FInv /\ [Next]_vars => FInv'
  BY Assumed, FNextOK
<1>3. Spec => []VInv
  BY VInvariance
<1>4. QED
  BY <1>1, <1>2, <1>3, QInvariance, PTL DEF Spec

(* In a quiet state an idle holder knows the requests of all who wait. *)
LEMMA QuietState ==
    ASSUME Assumptions, IInv, QInv, VInv, FInv, TokenKept,
           \A p \in Proc : entered_queued[p] = 0 /\ exited_due[p] = 0,
           \A pkt \in Packets : pkt.dst \notin Proc
    PROVE  \A p \in Proc : fsm_state[p] = "PS_IDLE"
<1>1. \A p \in Proc : fsm_state[p] # "PS_EXECUTING" /\ fsm_state[p] \in State
  BY DEF IInv, EventsMatchState, TypeOK, PeerTypeOK
<1>2. PICK h \in Proc : i_have_token[h]
  BY DEF TokenKept, TokensInFlight
<1>3. fsm_state[h] = "PS_IDLE"
  BY <1>1, <1>2 DEF FInv, HolderDone, State
<1>4. \A q \in Proc : suzuki_RN[h][q] # my_token[h].suzuki_LN[q] + 1
  BY <1>2, <1>3 DEF FInv, HolderDone, NobodyToServe
<1>5. ASSUME NEW q \in Proc, fsm_state[q] = "PS_PENDING" PROVE FALSE
  <2>1. q # h /\ ~i_have_token[q]
    BY <1>2, <1>3, <1>5 DEF IInv, TokenUnique
  <2>2. Informed(net, suzuki_RN, q, h)
    BY <1>5, <2>1 DEF FInv, AskedEverywhere, Waits
  <2>3. NoneOf(net, CurrentRequest(suzuki_RN, q, h))
    <3>1. SUFFICES ASSUME NEW l \in Lane, NEW i \in 1 .. Len(net[l]),
                          net[l][i] \in CurrentRequest(suzuki_RN, q, h)
                   PROVE  FALSE
      BY DEF NoneOf
    <3>2. net[l] \in Seq(PacketType) /\ DOMAIN net = Lane
      BY DEF IInv, TypeOK
    <3>3. net[l][i] \in Packets
      BY <3>2 DEF Packets, ToSet
    <3>4. net[l][i].dst = h
      BY <3>1 DEF CurrentRequest, Packet
    <3>5. QED
      BY <3>3, <3>4
  <2>4. suzuki_RN[h][q] = suzuki_RN[q][q]
    BY <2>2, <2>3 DEF Informed
  <2>5. suzuki_RN[q][q] = my_token[h].suzuki_LN[q] + 1
    BY <1>2, <1>5 DEF QInv, HeldGood, Good, Counts, Owed
  <2>6. QED
    BY <1>4, <2>4, <2>5
<1>6. QED
  BY <1>1, <1>5 DEF State

(***************************************************************************)
(* On one host nobody is left waiting: when no packet is on its way to a   *)
(* peer, no timer runs and no ENTERED event is queued, all peers are out of*)
(* the protocol, and a supervisor that has read its buffer sees them so.   *)
(* So a request that stale requests overtook or that found the token on    *)
(* its way is never forgotten.  (Between hosts it may be: the token can    *)
(* get lost.)                                                              *)
(***************************************************************************)
THEOREM NobodyLeftWaiting ==
    ASSUME Net = "loopback"
    PROVE  Spec => []((\A p \in Proc : entered_queued[p] = 0) => NobodyForgotten)
<1>1. ASSUME IInv, QInv, VInv, FInv, TokenKept, \A p \in Proc : entered_queued[p] = 0
      PROVE  NobodyForgotten
  <2>1. SUFFICES ASSUME \A p \in Proc : exited_due[p] = 0,
                        \A pkt \in Packets : pkt.dst \notin Proc
                 PROVE  /\ \A p \in Proc : fsm_state[p] = "PS_IDLE"
                        /\ NetEmpty => /\ critical_region_is_idlle
                                       /\ received_resps_count = elected_proc_count
    BY DEF NobodyForgotten
  <2>2. \A p \in Proc : fsm_state[p] = "PS_IDLE"
    BY <1>1, <2>1, Assumed, QuietState
  <2>3. net \in Nets(PacketType) /\ SupTypeOK
    BY <1>1 DEF IInv, TypeOK, Nets
  <2>4. NetEmpty => critical_region_is_idlle /\ received_resps_count = elected_proc_count
    BY <1>1, <2>2, <2>3, Assumed, NothingUnseen DEF VInv, Assumptions
  <2>5. QED
    BY <2>2, <2>4
<1>2. Spec => []VInv
  BY VInvariance
<1>3. Spec => []FInv
  BY FInvariance
<1>4. QED
  BY <1>1, <1>2, <1>3, QInvariance, TokenStays, PTL
=============================================================================

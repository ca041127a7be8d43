----------------------------- MODULE PeerProofs -----------------------------
(***************************************************************************)
(* Lemmas for every algorithm, in two parts.  First the network: what the  *)
(* operators of Network do to the packets on their way, whatever the       *)
(* packets are (P) and for every Net and nodes_count; the proofs about the *)
(* algorithms use the network through these lemmas only.  Then the         *)
(* supervisor and the code shared by the peers: P is the algorithm's set   *)
(* of packets, T a kind of packets that only the algorithm sends.  The     *)
(* last two sections are about the network on one host and the clock.      *)
(***************************************************************************)
EXTENDS Peer, SequenceTheorems, FiniteSetTheorems, TLAPS

Nets(P) == [Lane -> Seq(P)]

(* Taking one element out of a sequence keeps the others in order. *)
LEMMA RemoveAtProperties ==
    ASSUME NEW S, NEW s \in Seq(S), NEW i \in 1 .. Len(s)
    PROVE  /\ RemoveAt(s, i) \in Seq(S)
           /\ Len(RemoveAt(s, i)) = Len(s) - 1
           /\ \A j \in 1 .. (Len(s) - 1) :
                 RemoveAt(s, i)[j] = IF j < i THEN s[j] ELSE s[j + 1]
<1> DEFINE front == SubSeq(s, 1, i - 1)
           back  == SubSeq(s, i + 1, Len(s))
<1>1. Len(s) \in Nat /\ \A k \in 1 .. Len(s) : s[k] \in S
  BY LenProperties, ElementOfSeq
<1>2. /\ front \in Seq(S)
      /\ Len(front) = i - 1
      /\ \A k \in 1 .. (i - 1) : front[k] = s[k]
  <2>1. \A k \in 1 .. (i - 1) : s[k] \in S
    BY <1>1
  <2>2. QED
    BY <1>1, <2>1, SubSeqProperties
<1>3. /\ back \in Seq(S)
      /\ Len(back) = Len(s) - i
      /\ \A k \in 1 .. (Len(s) - i) : back[k] = s[i + k]
  <2>1. \A k \in (i + 1) .. Len(s) : s[k] \in S
    BY <1>1
  <2>2. /\ back \in Seq(S)
        /\ Len(back) = IF i + 1 <= Len(s) THEN Len(s) - (i + 1) + 1 ELSE 0
        /\ \A k \in 1 .. (Len(s) - (i + 1) + 1) : back[k] = s[(i + 1) + k - 1]
    BY <1>1, <2>1, SubSeqProperties
  <2>3. QED
    BY <1>1, <2>2
<1> HIDE DEF front, back
<1>4. RemoveAt(s, i) = front \o back
  BY DEF RemoveAt, front, back
<1>5. /\ front \o back \in Seq(S)
      /\ Len(front \o back) = Len(front) + Len(back)
      /\ \A j \in 1 .. (Len(front) + Len(back)) :
            (front \o back)[j] =
                IF j <= Len(front) THEN front[j] ELSE back[j - Len(front)]
  BY <1>2, <1>3, ConcatProperties
<1>6. QED
  BY <1>1, <1>2, <1>3, <1>4, <1>5

(* Sending and receiving happen on lanes of the network. *)
LEMMA LaneFacts ==
    /\ \A src, dst \in Node : SendLane(src, dst) \in Lane
    /\ \A dst \in Node : RecvLanes(dst) \subseteq Lane
    /\ Net = "loopback" => \A n \in Node : <<"out", n>> \in Lane /\ <<"in", n>> \in Lane
BY DEF Lane, SendLane, RecvLanes

(***************************************************************************)
(* Appending a packet to one lane.                                         *)
(***************************************************************************)
LEMMA AppendToLane ==
    ASSUME NEW P, NEW n \in Nets(P), NEW lane \in Lane, NEW pkt \in P, NEW T
    PROVE  LET m == [n EXCEPT ![lane] = Append(@, pkt)] IN
           /\ m \in Nets(P)
           /\ pkt \notin T /\ NoneOf(n, T) => NoneOf(m, T)
           /\ pkt \notin T /\ AtMostOneOf(n, T) => AtMostOneOf(m, T)
           /\ NoneOf(n, T) => AtMostOneOf(m, T)
<1> DEFINE m == [n EXCEPT ![lane] = Append(@, pkt)]
<1>1. n[lane] \in Seq(P)
  BY DEF Nets
<1>2. /\ Append(n[lane], pkt) \in Seq(P)
      /\ Len(Append(n[lane], pkt)) = Len(n[lane]) + 1
      /\ \A i \in 1 .. Len(n[lane]) : Append(n[lane], pkt)[i] = n[lane][i]
      /\ Append(n[lane], pkt)[Len(n[lane]) + 1] = pkt
  BY <1>1, AppendProperties
<1>3. m \in Nets(P)
  BY <1>2 DEF Nets
<1>4. /\ m[lane] = Append(n[lane], pkt)
      /\ \A l \in Lane : l # lane => m[l] = n[l]
  BY DEF Nets
<1>5. \A l \in Lane : Len(n[l]) \in Nat
  BY LenProperties DEF Nets
<1>6. \A l \in Lane : \A i \in 1 .. Len(m[l]) :
         \/ i \in 1 .. Len(n[l]) /\ m[l][i] = n[l][i]
         \/ l = lane /\ i = Len(n[l]) + 1 /\ m[l][i] = pkt
  BY <1>2, <1>4, <1>5
<1> HIDE DEF m
<1>7. pkt \notin T /\ NoneOf(n, T) => NoneOf(m, T)
  BY <1>6 DEF NoneOf
<1>8. pkt \notin T /\ AtMostOneOf(n, T) => AtMostOneOf(m, T)
  <2>1. SUFFICES ASSUME pkt \notin T, AtMostOneOf(n, T),
                        NEW l \in Lane, NEW k \in Lane,
                        NEW i \in 1 .. Len(m[l]), NEW j \in 1 .. Len(m[k]),
                        m[l][i] \in T, m[k][j] \in T
                 PROVE  l = k /\ i = j
    BY DEF AtMostOneOf
  <2>2. i \in 1 .. Len(n[l]) /\ n[l][i] \in T
    BY <1>6, <2>1
  <2>3. j \in 1 .. Len(n[k]) /\ n[k][j] \in T
    BY <1>6, <2>1
  <2>4. QED
    BY <2>1, <2>2, <2>3 DEF AtMostOneOf
<1>9. NoneOf(n, T) => AtMostOneOf(m, T)
  BY <1>6 DEF AtMostOneOf, NoneOf
<1>10. QED
  BY <1>3, <1>7, <1>8, <1>9 DEF m

(***************************************************************************)
(* dme_send_msg appends at most one packet.                                *)
(***************************************************************************)
LEMMA SendProperties ==
    ASSUME NEW P, NEW n \in Nets(P), NEW src \in Node, NEW dst, NEW msg,
           dst \in Node => Packet(src, dst, msg) \in P, NEW T
    PROVE  LET m == dme_send_msg(n, src, dst, msg) IN
           /\ m \in Nets(P)
           /\ Packet(src, dst, msg) \notin T /\ NoneOf(n, T) => NoneOf(m, T)
           /\ Packet(src, dst, msg) \notin T /\ AtMostOneOf(n, T) => AtMostOneOf(m, T)
           /\ NoneOf(n, T) => AtMostOneOf(m, T)
<1>1. CASE dst \in Node
  <2>1. SendLane(src, dst) \in Lane
    BY <1>1, LaneFacts
  <2>2. QED
    BY <1>1, <2>1, AppendToLane DEF dme_send_msg
<1>2. CASE dst \notin Node
  BY <1>2 DEF dme_send_msg, NoneOf, AtMostOneOf
<1>3. QED
  BY <1>1, <1>2

(***************************************************************************)
(* Sending one message to several receivers: if no copy is of kind T, the  *)
(* packets of that kind stay what they were.                               *)
(***************************************************************************)
LEMMA SendToEachProperties ==
    ASSUME NEW P, NEW n \in Nets(P), NEW src \in Node, NEW dests \in Seq(Node),
           NEW msg, NEW T,
           \A dst \in Node : Packet(src, dst, msg) \in P,
           \A dst \in Node : Packet(src, dst, msg) \notin T
    PROVE  LET m == SendToEach(n, src, dests, msg) IN
           /\ m \in Nets(P)
           /\ NoneOf(n, T) => NoneOf(m, T)
           /\ AtMostOneOf(n, T) => AtMostOneOf(m, T)
<1> DEFINE m == SendToEach(n, src, dests, msg)
<1>1. /\ \A l \in Lane : n[l] \in Seq(P)
      /\ \A l \in Lane : Len(n[l]) \in Nat
  BY LenProperties DEF Nets
<1>2. /\ m \in Nets(P)
      /\ \A l \in Lane : \A i \in 1 .. Len(m[l]) :
            \/ i \in 1 .. Len(n[l]) /\ m[l][i] = n[l][i]
            \/ m[l][i] \notin T
  <2>1. CASE Net = "loopback"
    <3> DEFINE copies == [ix \in DOMAIN dests |-> Packet(src, dests[ix], msg)]
               lane == <<"out", src>>
    <3>1. lane \in Lane
      BY <2>1, LaneFacts
    <3>2. DOMAIN dests = 1 .. Len(dests) /\ Len(dests) \in Nat
          /\ \A ix \in 1 .. Len(dests) : dests[ix] \in Node
      BY LenProperties, ElementOfSeq
    <3>3. copies \in Seq(P) /\ Len(copies) = Len(dests)
          /\ \A ix \in 1 .. Len(dests) : copies[ix] = Packet(src, dests[ix], msg)
      <4>1. copies \in [1 .. Len(dests) -> P]
        BY <3>2
      <4>2. copies \in Seq(P)
        BY <3>2, <4>1, SeqDef
      <4>3. QED
        BY <3>2, <4>1, <4>2, LenProperties
    <3> HIDE DEF copies
    <3>4. /\ n[lane] \o copies \in Seq(P)
          /\ Len(n[lane] \o copies) = Len(n[lane]) + Len(copies)
          /\ \A i \in 1 .. (Len(n[lane]) + Len(copies)) :
                (n[lane] \o copies)[i] =
                    IF i <= Len(n[lane]) THEN n[lane][i] ELSE copies[i - Len(n[lane])]
      BY <1>1, <3>1, <3>3, ConcatProperties
    <3>5. m = [n EXCEPT ![lane] = @ \o copies]
      BY <2>1 DEF SendToEach, copies
    <3>6. /\ m \in Nets(P)
          /\ m[lane] = n[lane] \o copies
          /\ \A l \in Lane : l # lane => m[l] = n[l]
      BY <3>1, <3>4, <3>5 DEF Nets
    <3> HIDE DEF m, lane
    <3>7. ASSUME NEW i \in 1 .. Len(m[lane]), i \notin 1 .. Len(n[lane])
          PROVE  m[lane][i] \notin T
      <4>1. Len(n[lane]) \in Nat /\ i - Len(n[lane]) \in 1 .. Len(dests)
        BY <1>1, <3>1, <3>2, <3>3, <3>4, <3>6, <3>7
      <4>2. m[lane][i] = copies[i - Len(n[lane])]
        BY <3>3, <3>4, <3>6, <3>7, <4>1
      <4>3. QED
        BY <3>2, <3>3, <4>1, <4>2
    <3>8. ASSUME NEW i \in 1 .. Len(n[lane]), i \in 1 .. Len(m[lane])
          PROVE  m[lane][i] = n[lane][i]
      BY <1>1, <3>1, <3>2, <3>3, <3>4, <3>6, <3>8
    <3>9. QED
      BY <3>6, <3>7, <3>8
  <2>2. CASE Net # "loopback"
    <3>1. m = [l \in Lane |-> IF l[1] = src /\ l[2] \in ToSet(dests)
                             THEN Append(n[l], Packet(src, l[2], msg)) ELSE n[l]]
      BY <2>2 DEF SendToEach
    <3> HIDE DEF m
    <3>2. ASSUME NEW l \in Lane
          PROVE  /\ m[l] \in Seq(P)
                 /\ \A i \in 1 .. Len(m[l]) :
                       \/ i \in 1 .. Len(n[l]) /\ m[l][i] = n[l][i]
                       \/ m[l][i] \notin T
      <4>1. CASE l[1] = src /\ l[2] \in ToSet(dests)
        <5>1. l[2] \in Node
          BY <4>1, LenProperties, ElementOfSeq DEF ToSet
        <5>2. m[l] = Append(n[l], Packet(src, l[2], msg))
          BY <3>1, <4>1
        <5>3. Packet(src, l[2], msg) \in P /\ Packet(src, l[2], msg) \notin T
          BY <5>1
        <5> DEFINE pkt == Packet(src, l[2], msg)
        <5> HIDE DEF pkt
        <5>4. /\ Append(n[l], pkt) \in Seq(P)
              /\ Len(Append(n[l], pkt)) = Len(n[l]) + 1
              /\ \A i \in 1 .. Len(n[l]) : Append(n[l], pkt)[i] = n[l][i]
              /\ Append(n[l], pkt)[Len(n[l]) + 1] = pkt
          BY <1>1, <5>3, AppendProperties DEF pkt
        <5>5. QED
          BY <1>1, <5>2, <5>3, <5>4 DEF pkt
      <4>2. CASE ~(l[1] = src /\ l[2] \in ToSet(dests))
        BY <1>1, <3>1, <4>2
      <4>3. QED
        BY <4>1, <4>2
    <3>3. m \in Nets(P)
      BY <3>1, <3>2 DEF Nets
    <3>4. QED
      BY <3>2, <3>3
  <2>3. QED
    BY <2>1, <2>2
<1> HIDE DEF m
<1>3. NoneOf(n, T) => NoneOf(m, T)
  BY <1>2 DEF NoneOf
<1>4. AtMostOneOf(n, T) => AtMostOneOf(m, T)
  <2>1. SUFFICES ASSUME AtMostOneOf(n, T),
                        NEW l \in Lane, NEW k \in Lane,
                        NEW i \in 1 .. Len(m[l]), NEW j \in 1 .. Len(m[k]),
                        m[l][i] \in T, m[k][j] \in T
                 PROVE  l = k /\ i = j
    BY DEF AtMostOneOf
  <2>2. i \in 1 .. Len(n[l]) /\ n[l][i] \in T
    BY <1>2, <2>1
  <2>3. j \in 1 .. Len(n[k]) /\ n[k][j] \in T
    BY <1>2, <2>1
  <2>4. QED
    BY <2>1, <2>2, <2>3 DEF AtMostOneOf
<1>5. QED
  BY <1>2, <1>3, <1>4 DEF m

(* dme_broadcast_msg goes to nodes. *)
LEMMA BroadcastOrderType ==
    ASSUME NetworkAssumption, NEW src \in Node
    PROVE  BroadcastOrder(src) \in Seq(Node)
<1> DEFINE len == IF src = SUPERVISOR_PID THEN nodes_count ELSE nodes_count - 1
<1>1. len \in Nat
  BY NetworkAssumption DEF NetworkAssumption
<1>2. BroadcastOrder(src) \in [1 .. len -> Node]
  BY NetworkAssumption DEF BroadcastOrder, NetworkAssumption, Node, SUPERVISOR_PID
<1>3. QED
  BY <1>1, <1>2, SeqDef

(* A slot a node may receive from is a position on a lane. *)
LEMMA SlotFacts ==
    ASSUME NEW P, net \in Nets(P), NEW dst \in Node, NEW slot \in Receivable(dst)
    PROVE  /\ slot[1] \in Lane
           /\ net[slot[1]] \in Seq(P)
           /\ slot[2] \in 1 .. Len(net[slot[1]])
           /\ PacketAt(slot) \in P
<1>1. slot \in UNION {{l} \X DOMAIN net[l] : l \in RecvLanes(dst)}
  BY DEF Receivable
<1>2. PICK l \in RecvLanes(dst) : slot \in {l} \X DOMAIN net[l]
  BY <1>1
<1>3. slot[1] = l /\ slot[2] \in DOMAIN net[l]
  BY <1>2
<1>4. l \in Lane
  BY LaneFacts
<1>5. net[l] \in Seq(P)
  BY <1>4 DEF Nets
<1>6. slot[2] \in 1 .. Len(net[l])
  BY <1>3, <1>5, LenProperties
<1>7. QED
  BY <1>3, <1>4, <1>5, <1>6, ElementOfSeq DEF PacketAt

(***************************************************************************)
(* dme_recv_msg takes one packet off the network: of a kind of which there *)
(* was at most one, none is left when that one is received.                *)
(***************************************************************************)
LEMMA ReceiveProperties ==
    ASSUME NEW P, net \in Nets(P), NEW dst \in Node, NEW slot \in Receivable(dst), NEW T
    PROVE  LET m == dme_recv_msg(slot) IN
           /\ m \in Nets(P)
           /\ PacketAt(slot) \in P
           /\ NoneOf(net, T) => NoneOf(m, T) /\ PacketAt(slot) \notin T
           /\ AtMostOneOf(net, T) => AtMostOneOf(m, T)
           /\ AtMostOneOf(net, T) /\ PacketAt(slot) \in T => NoneOf(m, T)
<1> DEFINE m == dme_recv_msg(slot)
           lane == slot[1]
           at == slot[2]
<1>1. /\ lane \in Lane
      /\ net[lane] \in Seq(P)
      /\ at \in 1 .. Len(net[lane])
      /\ PacketAt(slot) \in P
      /\ PacketAt(slot) = net[lane][at]
  BY SlotFacts DEF PacketAt
<1>2. m = [net EXCEPT ![lane] = RemoveAt(@, at)]
  BY DEF dme_recv_msg
<1> HIDE DEF lane, at, m
<1>3. /\ RemoveAt(net[lane], at) \in Seq(P)
      /\ Len(RemoveAt(net[lane], at)) = Len(net[lane]) - 1
      /\ \A j \in 1 .. (Len(net[lane]) - 1) :
            RemoveAt(net[lane], at)[j] =
                IF j < at THEN net[lane][j] ELSE net[lane][j + 1]
  BY <1>1, RemoveAtProperties
<1>4. \A l \in Lane : Len(net[l]) \in Nat
  BY LenProperties DEF Nets
<1>5. /\ m \in Nets(P)
      /\ m[lane] = RemoveAt(net[lane], at)
      /\ \A l \in Lane : l # lane => m[l] = net[l]
  BY <1>1, <1>2, <1>3 DEF Nets
(* Where a packet that is left was before: never at the received slot. *)
<1> DEFINE Was(l, i) == IF l = lane /\ at <= i THEN i + 1 ELSE i
<1>6. ASSUME NEW l \in Lane, NEW i \in 1 .. Len(m[l])
      PROVE  /\ Was(l, i) \in 1 .. Len(net[l])
             /\ m[l][i] = net[l][Was(l, i)]
             /\ ~(l = lane /\ Was(l, i) = at)
  BY <1>1, <1>3, <1>4, <1>5
<1>7. ASSUME NEW l \in Lane, NEW i \in Nat, NEW j \in Nat, Was(l, i) = Was(l, j)
      PROVE  i = j
  <2>1. at \in Nat
    BY <1>1, <1>4
  <2>2. QED
    BY <1>7, <2>1
<1> HIDE DEF Was
<1>8. NoneOf(net, T) => NoneOf(m, T) /\ PacketAt(slot) \notin T
  BY <1>1, <1>6 DEF NoneOf
<1>9. AtMostOneOf(net, T) => AtMostOneOf(m, T)
  <2>1. SUFFICES ASSUME AtMostOneOf(net, T),
                        NEW l \in Lane, NEW k \in Lane,
                        NEW i \in 1 .. Len(m[l]), NEW j \in 1 .. Len(m[k]),
                        m[l][i] \in T, m[k][j] \in T
                 PROVE  l = k /\ i = j
    BY DEF AtMostOneOf
  <2>2. l = k /\ Was(l, i) = Was(k, j)
    <3>1. Was(l, i) \in 1 .. Len(net[l]) /\ net[l][Was(l, i)] \in T
      BY <1>6, <2>1
    <3>2. Was(k, j) \in 1 .. Len(net[k]) /\ net[k][Was(k, j)] \in T
      BY <1>6, <2>1
    <3>3. QED
      BY <2>1, <3>1, <3>2 DEF AtMostOneOf
  <2>3. i \in Nat /\ j \in Nat
    BY <1>3, <1>4, <1>5
  <2>4. QED
    BY <1>7, <2>2, <2>3
<1>10. AtMostOneOf(net, T) /\ PacketAt(slot) \in T => NoneOf(m, T)
  <2>1. SUFFICES ASSUME AtMostOneOf(net, T), PacketAt(slot) \in T,
                        NEW l \in Lane, NEW i \in 1 .. Len(m[l]), m[l][i] \in T
                 PROVE  FALSE
    BY DEF NoneOf
  <2>2. l = lane /\ Was(l, i) = at
    BY <1>1, <1>6, <2>1 DEF AtMostOneOf
  <2>3. QED
    BY <1>6, <2>2
<1>11. QED
  BY <1>1, <1>5, <1>8, <1>9, <1>10 DEF m

(***************************************************************************)
(* sendto moves a packet from one lane to another.                         *)
(***************************************************************************)
LEMMA SendtoProperties ==
    ASSUME NEW P, net \in Nets(P), \A pkt \in P : pkt.dst \in Node,
           NEW src \in Node, sendto(src), NEW T
    PROVE  /\ net' \in Nets(P)
           /\ NoneOf(net, T) => NoneOf(net', T)
           /\ AtMostOneOf(net, T) => AtMostOneOf(net', T)
<1> DEFINE out == <<"out", src>>
           pkt == Head(net[out])
           into == <<"in", pkt.dst>>
           rest == [net EXCEPT ![out] = Tail(@)]
<1>1. Net = "loopback" /\ net[out] # <<>>
  BY DEF sendto, InHandler
<1>2. out \in Lane /\ net[out] \in Seq(P)
  BY <1>1, LaneFacts DEF Nets
<1>3. /\ pkt \in P
      /\ Tail(net[out]) \in Seq(P)
      /\ Len(Tail(net[out])) = Len(net[out]) - 1
      /\ \A i \in 1 .. Len(Tail(net[out])) : Tail(net[out])[i] = net[out][i + 1]
      /\ pkt = net[out][1]
  BY <1>1, <1>2, HeadTailProperties
<1>4. into \in Lane /\ into # out
  BY <1>1, <1>3, LaneFacts
<1>5. net' = [net EXCEPT ![out] = Tail(@), ![into] = Append(@, pkt)]
  BY DEF sendto
<1>6. net' = [rest EXCEPT ![into] = Append(@, pkt)]
  BY <1>2, <1>4, <1>5 DEF Nets
<1>7. \A l \in Lane : Len(net[l]) \in Nat
  BY LenProperties DEF Nets
<1>8. /\ rest \in Nets(P)
      /\ rest[out] = Tail(net[out])
      /\ \A l \in Lane : l # out => rest[l] = net[l]
  BY <1>2, <1>3 DEF Nets
<1> HIDE DEF rest, pkt, into, out
<1> DEFINE Was(l, i) == IF l = out THEN i + 1 ELSE i
<1>9. ASSUME NEW l \in Lane, NEW i \in 1 .. Len(rest[l])
      PROVE  /\ Was(l, i) \in 1 .. Len(net[l])
             /\ rest[l][i] = net[l][Was(l, i)]
             /\ ~(l = out /\ Was(l, i) = 1)
  <2>1. CASE l = out
    <3>1. /\ Len(net[out]) \in Nat
          /\ Len(rest[out]) = Len(net[out]) - 1
          /\ i \in 1 .. Len(rest[out])
          /\ rest[out][i] = net[out][i + 1]
      BY <1>2, <1>3, <1>7, <1>8, <1>9, <2>1
    <3>2. QED
      BY <2>1, <3>1
  <2>2. CASE l # out
    BY <1>8, <1>9, <2>2
  <2>3. QED
    BY <2>1, <2>2
<1>10. Len(net[out]) \in Nat \ {0} /\ 1 \in 1 .. Len(net[out])
  BY <1>1, <1>2, EmptySeq
<1>11. NoneOf(net, T) => NoneOf(rest, T) /\ pkt \notin T
  BY <1>2, <1>3, <1>9, <1>10 DEF NoneOf
<1>12. AtMostOneOf(net, T) => AtMostOneOf(rest, T)
  <2>1. SUFFICES ASSUME AtMostOneOf(net, T),
                        NEW l \in Lane, NEW k \in Lane,
                        NEW i \in 1 .. Len(rest[l]), NEW j \in 1 .. Len(rest[k]),
                        rest[l][i] \in T, rest[k][j] \in T
                 PROVE  l = k /\ i = j
    BY DEF AtMostOneOf
  <2>2. l = k /\ Was(l, i) = Was(k, j)
    <3> HIDE DEF Was
    <3>1. Was(l, i) \in 1 .. Len(net[l]) /\ net[l][Was(l, i)] \in T
      BY <1>9, <2>1
    <3>2. Was(k, j) \in 1 .. Len(net[k]) /\ net[k][Was(k, j)] \in T
      BY <1>9, <2>1
    <3>3. QED
      BY <2>1, <3>1, <3>2 DEF AtMostOneOf
  <2>3. Len(rest[l]) \in Nat
    BY <1>8, LenProperties DEF Nets
  <2>4. QED
    BY <2>2, <2>3, <1>8
<1>13. AtMostOneOf(net, T) /\ pkt \in T => NoneOf(rest, T)
  <2>1. SUFFICES ASSUME AtMostOneOf(net, T), pkt \in T,
                        NEW l \in Lane, NEW i \in 1 .. Len(rest[l]), rest[l][i] \in T
                 PROVE  FALSE
    BY DEF NoneOf
  <2> HIDE DEF Was
  <2>2. l = out /\ Was(l, i) = 1
    BY <1>2, <1>3, <1>9, <1>10, <2>1 DEF AtMostOneOf
  <2>3. QED
    BY <1>9, <2>2
<1>14. /\ net' \in Nets(P)
       /\ pkt \notin T /\ NoneOf(rest, T) => NoneOf(net', T)
       /\ pkt \notin T /\ AtMostOneOf(rest, T) => AtMostOneOf(net', T)
       /\ NoneOf(rest, T) => AtMostOneOf(net', T)
  <2>1. pkt \in P /\ into \in Lane /\ rest \in Nets(P)
    BY <1>3, <1>4, <1>8
  <2>2. LET m == [rest EXCEPT ![into] = Append(@, pkt)] IN
        /\ m \in Nets(P)
        /\ pkt \notin T /\ NoneOf(rest, T) => NoneOf(m, T)
        /\ pkt \notin T /\ AtMostOneOf(rest, T) => AtMostOneOf(m, T)
        /\ NoneOf(rest, T) => AtMostOneOf(m, T)
    BY <2>1, AppendToLane
  <2>3. QED
    BY <1>6, <2>2
<1>15. QED
  BY <1>11, <1>12, <1>13, <1>14

-----------------------------------------------------------------------------
(***************************************************************************)
(* Every packet a node may receive is addressed to it.                     *)
(***************************************************************************)
Addressed(n) ==
    \A dst \in Node : \A l \in RecvLanes(dst) : \A i \in 1 .. Len(n[l]) : n[l][i].dst = dst

(* A lane a node receives from and sends to is one of another host. *)
LEMMA RecvLaneOfSend ==
    ASSUME NEW src \in Node, NEW dst \in Node, NEW d \in Node, SendLane(src, dst) \in RecvLanes(d)
    PROVE  d = dst
<1>1. CASE Net = "loopback"
  BY <1>1 DEF SendLane, RecvLanes
<1>2. CASE Net # "loopback"
  BY <1>2 DEF SendLane, RecvLanes
<1>3. QED
  BY <1>1, <1>2

(* A larger set of packets has more sequences, and more networks. *)
LEMMA Widened ==
    ASSUME NEW P, NEW Q, P \subseteq Q
    PROVE  Seq(P) \subseteq Seq(Q) /\ Nets(P) \subseteq Nets(Q)
<1>1. ASSUME NEW s \in Seq(P) PROVE s \in Seq(Q)
  <2>1. s \in [1 .. Len(s) -> P] /\ Len(s) \in Nat
    BY LenProperties
  <2>2. s \in [1 .. Len(s) -> Q]
    BY <2>1
  <2>3. QED
    BY <2>1, <2>2, SeqDef
<1>2. ASSUME NEW n \in Nets(P) PROVE n \in Nets(Q)
  BY <1>1 DEF Nets
<1>3. QED
  BY <1>1, <1>2

LEMMA AppendAddressed ==
    ASSUME NEW P, NEW n \in Nets(P), Addressed(n), NEW lane \in Lane, NEW pkt \in P,
           \A d \in Node : lane \in RecvLanes(d) => pkt.dst = d
    PROVE  Addressed([n EXCEPT ![lane] = Append(@, pkt)])
<1> DEFINE m == [n EXCEPT ![lane] = Append(@, pkt)]
<1>1. n[lane] \in Seq(P) /\ Len(n[lane]) \in Nat
  BY LenProperties DEF Nets
<1>2. /\ m[lane] = Append(n[lane], pkt)
      /\ \A l \in Lane : l # lane => m[l] = n[l]
  BY DEF Nets
<1>3. /\ Len(m[lane]) = Len(n[lane]) + 1
      /\ \A i \in 1 .. Len(n[lane]) : m[lane][i] = n[lane][i]
      /\ m[lane][Len(n[lane]) + 1] = pkt
  BY <1>1, <1>2, AppendProperties
<1> HIDE DEF m
<1>4. SUFFICES ASSUME NEW d \in Node, NEW l \in RecvLanes(d), NEW i \in 1 .. Len(m[l])
               PROVE  m[l][i].dst = d
  BY DEF Addressed, m
<1>5. l \in Lane
  BY LaneFacts
<1>6. CASE l # lane
  BY <1>2, <1>5, <1>6 DEF Addressed
<1>7. CASE l = lane
  <2>1. CASE i = Len(n[lane]) + 1
    BY <1>3, <1>7, <2>1
  <2>2. CASE i # Len(n[lane]) + 1
    <3>1. i \in 1 .. Len(n[lane])
      BY <1>1, <1>3, <1>7, <2>2
    <3>2. QED
      BY <1>3, <1>7, <3>1 DEF Addressed
  <2>3. QED
    BY <2>1, <2>2
<1>8. QED
  BY <1>6, <1>7

LEMMA SendAddressed ==
    ASSUME NEW P, NEW n \in Nets(P), Addressed(n), NEW src \in Node, NEW dst, NEW msg,
           dst \in Node => Packet(src, dst, msg) \in P
    PROVE  Addressed(dme_send_msg(n, src, dst, msg))
<1>1. CASE dst \in Node
  <2>1. SendLane(src, dst) \in Lane
    BY <1>1, LaneFacts
  <2>2. \A d \in Node : SendLane(src, dst) \in RecvLanes(d) => Packet(src, dst, msg).dst = d
    BY <1>1, RecvLaneOfSend DEF Packet
  <2>3. QED
    BY <1>1, <2>1, <2>2, AppendAddressed DEF dme_send_msg
<1>2. CASE dst \notin Node
  BY <1>2 DEF dme_send_msg
<1>3. QED
  BY <1>1, <1>2

LEMMA SendToEachAddressed ==
    ASSUME NEW P, NEW n \in Nets(P), Addressed(n), NEW src \in Node,
           NEW dests \in Seq(Node), NEW msg
    PROVE  Addressed(SendToEach(n, src, dests, msg))
<1> DEFINE m == SendToEach(n, src, dests, msg)
<1>1. SUFFICES ASSUME NEW d \in Node, NEW l \in RecvLanes(d), NEW i \in 1 .. Len(m[l])
               PROVE  m[l][i].dst = d
  BY DEF Addressed
<1>2. l \in Lane /\ n[l] \in Seq(P) /\ Len(n[l]) \in Nat
  BY LaneFacts, LenProperties DEF Nets
<1>3. CASE Net = "loopback"
  <2>1. l # <<"out", src>>
    BY <1>3 DEF RecvLanes
  <2>2. m[l] = n[l]
    BY <1>2, <1>3, <2>1 DEF SendToEach, Nets
  <2>3. QED
    BY <2>2 DEF Addressed
<1>4. CASE Net # "loopback"
  <2>1. l[2] = d
    BY <1>4 DEF RecvLanes
  <2>2. m[l] = IF l[1] = src /\ l[2] \in ToSet(dests)
               THEN Append(n[l], Packet(src, d, msg)) ELSE n[l]
    BY <1>2, <1>4, <2>1 DEF SendToEach
  <2> HIDE DEF m
  <2>3. CASE m[l] = n[l]
    BY <2>3 DEF Addressed
  <2>4. CASE m[l] = Append(n[l], Packet(src, d, msg))
    <3> DEFINE pkt == Packet(src, d, msg)
               T   == P \cup {pkt}
    <3>1. pkt.dst = d
      BY DEF Packet
    <3> HIDE DEF pkt
    <3>2. n[l] \in Seq(T) /\ pkt \in T
      BY <1>2, Widened
    <3>3. /\ Len(m[l]) = Len(n[l]) + 1
          /\ \A k \in 1 .. Len(n[l]) : m[l][k] = n[l][k]
          /\ m[l][Len(n[l]) + 1] = pkt
      BY <2>4, <3>2, AppendProperties DEF pkt
    <3>4. CASE i = Len(n[l]) + 1
      BY <3>1, <3>3, <3>4
    <3>5. CASE i # Len(n[l]) + 1
      <4>1. i \in 1 .. Len(n[l])
        BY <1>2, <3>3, <3>5
      <4>2. QED
        BY <3>3, <4>1 DEF Addressed
    <3>6. QED
      BY <3>4, <3>5
  <2>5. QED
    BY <2>2, <2>3, <2>4
<1>5. QED
  BY <1>3, <1>4

LEMMA ReceiveAddressed ==
    ASSUME NEW P, net \in Nets(P), Addressed(net), NEW dst \in Node, NEW slot \in Receivable(dst)
    PROVE  Addressed(dme_recv_msg(slot)) /\ PacketAt(slot).dst = dst
<1> DEFINE m == dme_recv_msg(slot)
           lane == slot[1]
           at == slot[2]
<1>1. /\ lane \in Lane
      /\ net[lane] \in Seq(P)
      /\ at \in 1 .. Len(net[lane])
      /\ lane \in RecvLanes(dst)
  <2>1. slot \in UNION {{l} \X DOMAIN net[l] : l \in RecvLanes(dst)}
    BY DEF Receivable
  <2>2. QED
    BY <2>1, SlotFacts
<1>2. m = [net EXCEPT ![lane] = RemoveAt(@, at)]
  BY DEF dme_recv_msg
<1>3. PacketAt(slot).dst = dst
  BY <1>1 DEF PacketAt, Addressed
<1> HIDE DEF lane, at, m
<1>4. /\ Len(RemoveAt(net[lane], at)) = Len(net[lane]) - 1
      /\ \A j \in 1 .. (Len(net[lane]) - 1) :
            RemoveAt(net[lane], at)[j] =
                IF j < at THEN net[lane][j] ELSE net[lane][j + 1]
  BY <1>1, RemoveAtProperties
<1>5. /\ m[lane] = RemoveAt(net[lane], at)
      /\ \A l \in Lane : l # lane => m[l] = net[l]
      /\ Len(net[lane]) \in Nat
  BY <1>1, <1>2, LenProperties DEF Nets
<1>6. SUFFICES ASSUME NEW d \in Node, NEW l \in RecvLanes(d), NEW i \in 1 .. Len(m[l])
               PROVE  m[l][i].dst = d
  BY <1>3 DEF Addressed, m
<1>7. l \in Lane
  BY LaneFacts
<1>8. PICK k \in 1 .. Len(net[l]) : m[l][i] = net[l][k]
  <2>1. CASE l = lane
    <3>1. i \in 1 .. (Len(net[lane]) - 1)
      BY <1>4, <1>5, <2>1
    <3>2. m[lane][i] = IF i < at THEN net[lane][i] ELSE net[lane][i + 1]
      BY <1>4, <1>5, <3>1
    <3>3. i \in 1 .. Len(net[lane]) /\ i + 1 \in 1 .. Len(net[lane])
      BY <1>5, <3>1
    <3>4. QED
      BY <2>1, <3>2, <3>3
  <2>2. CASE l # lane
    BY <1>5, <1>7, <2>2
  <2>3. QED
    BY <2>1, <2>2
<1>9. QED
  BY <1>8 DEF Addressed

LEMMA SendtoAddressed ==
    ASSUME NEW P, net \in Nets(P), \A pkt \in P : pkt.dst \in Node, Addressed(net),
           NEW src \in Node, sendto(src)
    PROVE  Addressed(net')
<1> DEFINE out == <<"out", src>>
           pkt == Head(net[out])
           into == <<"in", pkt.dst>>
           rest == [net EXCEPT ![out] = Tail(@)]
<1>1. Net = "loopback" /\ net[out] # <<>>
  BY DEF sendto, InHandler
<1>2. out \in Lane /\ net[out] \in Seq(P)
  BY <1>1, LaneFacts DEF Nets
<1>3. pkt \in P /\ Tail(net[out]) \in Seq(P)
  BY <1>1, <1>2, HeadTailProperties
<1>4. into \in Lane /\ into # out
  BY <1>1, <1>3, LaneFacts
<1>5. net' = [rest EXCEPT ![into] = Append(@, pkt)]
  BY <1>2, <1>4 DEF sendto, Nets
<1>6. rest \in Nets(P)
  BY <1>2, <1>3 DEF Nets
<1>7. Addressed(rest)
  <2>1. SUFFICES ASSUME NEW d \in Node, NEW l \in RecvLanes(d), NEW i \in 1 .. Len(rest[l])
                 PROVE  rest[l][i].dst = d
    BY DEF Addressed
  <2>2. l \in Lane /\ l # out
    BY <1>1, LaneFacts DEF RecvLanes
  <2>3. rest[l] = net[l]
    BY <2>2 DEF Nets
  <2>4. QED
    BY <2>3 DEF Addressed
<1>8. \A d \in Node : into \in RecvLanes(d) => pkt.dst = d
  BY <1>1 DEF RecvLanes
<1> HIDE DEF rest, pkt, into, out
<1>9. QED
  BY <1>3, <1>4, <1>5, <1>6, <1>7, <1>8, AppendAddressed

-----------------------------------------------------------------------------
(***************************************************************************)
(* Where packets are.  Every packet is on a lane of its sender and its     *)
(* receiver, so that a node only receives what is addressed to it.         *)
(***************************************************************************)
Lanes(pkt) ==
    IF Net = "loopback" THEN {<<"out", pkt.src>>, <<"in", pkt.dst>>} ELSE {<<pkt.src, pkt.dst>>}

Placed(n) == \A l \in Lane : \A i \in 1 .. Len(n[l]) : l \in Lanes(n[l][i])

(***************************************************************************)
(* Of two packets from one node to another, the one at position i of lane  *)
(* l will be received before the one at position j of lane k.              *)
(***************************************************************************)
Before(l, i, k, j) ==
    \/ l = k /\ i < j
    \/ Net = "loopback" /\ l[1] = "in" /\ k[1] = "out"

(* All packets of kind T are received before those of kind U. *)
InOrder(n, T, U) ==
    \A l, k \in Lane : \A i \in 1 .. Len(n[l]), j \in 1 .. Len(n[k]) :
        n[l][i] \in T /\ n[k][j] \in U => Before(l, i, k, j)

OneLink(T) == \A pkt, other \in T : pkt.src = other.src /\ pkt.dst = other.dst

(***************************************************************************)
(* What sending does: m is n with the packets of New at the ends of the    *)
(* lanes their senders write to, each of them once.                        *)
(***************************************************************************)
Added(n, m, l) == (Len(n[l]) + 1) .. Len(m[l])

Sent(n, m, New) ==
    /\ \A l \in Lane :
          /\ Len(n[l]) <= Len(m[l])
          /\ \A i \in 1 .. Len(n[l]) : m[l][i] = n[l][i]
          /\ \A i \in Added(n, m, l) :
                m[l][i] \in New /\ l = SendLane(m[l][i].src, m[l][i].dst)
    /\ \A l, k \in Lane : \A i \in Added(n, m, l), j \in Added(n, m, k) :
          m[l][i] = m[k][j] => l = k /\ i = j
    /\ \A pkt \in New : \E l \in Lane : \E i \in Added(n, m, l) : m[l][i] = pkt

LEMMA SendLaneFacts ==
    ASSUME NEW pkt
    PROVE  SendLane(pkt.src, pkt.dst) \in Lanes(pkt)
BY DEF SendLane, Lanes

(* A packet on a lane its receiver takes packets from is addressed to it. *)
LEMMA PlacedDst ==
    ASSUME NEW dst \in Node, NEW l \in RecvLanes(dst), NEW pkt, l \in Lanes(pkt)
    PROVE  pkt.dst = dst
<1>1. CASE Net = "loopback"
  BY <1>1 DEF RecvLanes, Lanes
<1>2. CASE Net # "loopback"
  BY <1>2 DEF RecvLanes, Lanes
<1>3. QED
  BY <1>1, <1>2

LEMMA SendSent ==
    ASSUME NEW P, NEW n \in Nets(P), NEW src \in Node, NEW dst \in Node, NEW msg,
           Packet(src, dst, msg) \in P
    PROVE  LET m == dme_send_msg(n, src, dst, msg) IN
           m \in Nets(P) /\ Sent(n, m, {Packet(src, dst, msg)})
<1> DEFINE m == dme_send_msg(n, src, dst, msg)
           lane == SendLane(src, dst)
           pkt == Packet(src, dst, msg)
<1>1. lane \in Lane /\ pkt.src = src /\ pkt.dst = dst
  BY LaneFacts DEF Packet
<1>2. m = [n EXCEPT ![lane] = Append(@, pkt)]
  BY DEF dme_send_msg
<1>3. lane = SendLane(pkt.src, pkt.dst)
  BY <1>1
<1> HIDE DEF m, lane, pkt
<1>4. pkt \in P
  BY DEF pkt
<1>5. n[lane] \in Seq(P) /\ \A l \in Lane : Len(n[l]) \in Nat
  BY <1>1, LenProperties DEF Nets
<1>6. /\ Append(n[lane], pkt) \in Seq(P)
      /\ Len(Append(n[lane], pkt)) = Len(n[lane]) + 1
      /\ \A i \in 1 .. Len(n[lane]) : Append(n[lane], pkt)[i] = n[lane][i]
      /\ Append(n[lane], pkt)[Len(n[lane]) + 1] = pkt
  BY <1>4, <1>5, AppendProperties
<1>7. /\ m \in Nets(P)
      /\ m[lane] = Append(n[lane], pkt)
      /\ \A l \in Lane : l # lane => m[l] = n[l]
  BY <1>1, <1>2, <1>6 DEF Nets
<1>8. ASSUME NEW l \in Lane, NEW i \in Added(n, m, l)
      PROVE  l = lane /\ i = Len(n[lane]) + 1
  <2>1. i \in (Len(n[l]) + 1) .. Len(m[l]) /\ Len(n[l]) \in Nat
    BY <1>5, <1>8 DEF Added
  <2>2. l = lane
    BY <1>7, <2>1
  <2>3. QED
    BY <1>6, <1>7, <2>1, <2>2
<1>9. Sent(n, m, {pkt})
  <2>1. \A l \in Lane : /\ Len(n[l]) <= Len(m[l])
                        /\ \A i \in 1 .. Len(n[l]) : m[l][i] = n[l][i]
    BY <1>5, <1>6, <1>7
  <2>2. \A l \in Lane : \A i \in Added(n, m, l) :
           l = lane /\ i = Len(n[lane]) + 1 /\ m[l][i] = pkt
    BY <1>6, <1>7, <1>8
  <2>3. Len(n[lane]) + 1 \in Added(n, m, lane) /\ m[lane][Len(n[lane]) + 1] = pkt
    BY <1>1, <1>5, <1>6, <1>7 DEF Added
  <2> HIDE DEF Added
  <2>4. \A l \in Lane : \A i \in Added(n, m, l) :
           m[l][i] \in {pkt} /\ l = SendLane(m[l][i].src, m[l][i].dst)
    BY <1>3, <2>2
  <2>5. \A l, k \in Lane : \A i \in Added(n, m, l), j \in Added(n, m, k) : l = k /\ i = j
    BY <2>2
  <2>6. QED
    BY <1>1, <2>1, <2>3, <2>4, <2>5 DEF Sent
<1>10. QED
  BY <1>7, <1>9 DEF m, pkt

(* No receiver is in the list twice. *)
OneEach(s) == \A i, j \in 1 .. Len(s) : s[i] = s[j] => i = j

LEMMA SendToEachSent ==
    ASSUME NEW P, NEW n \in Nets(P), NEW src \in Node, NEW dests \in Seq(Node),
           OneEach(dests), NEW msg, \A d \in ToSet(dests) : Packet(src, d, msg) \in P
    PROVE  LET m == SendToEach(n, src, dests, msg) IN
           m \in Nets(P) /\ Sent(n, m, {Packet(src, d, msg) : d \in ToSet(dests)})
<1> DEFINE m == SendToEach(n, src, dests, msg)
           New == {Packet(src, d, msg) : d \in ToSet(dests)}
<1>1. /\ \A l \in Lane : n[l] \in Seq(P)
      /\ \A l \in Lane : Len(n[l]) \in Nat
  BY LenProperties DEF Nets
<1>2. /\ Len(dests) \in Nat /\ DOMAIN dests = 1 .. Len(dests)
      /\ \A ix \in 1 .. Len(dests) : dests[ix] \in Node
  BY LenProperties, ElementOfSeq
<1>3. /\ ToSet(dests) = {dests[ix] : ix \in 1 .. Len(dests)}
      /\ ToSet(dests) \subseteq Node
  BY <1>2 DEF ToSet
<1>4. \A d, e : Packet(src, d, msg) = Packet(src, e, msg) => d = e
  <2>1. \A d : Packet(src, d, msg).dst = d
    BY DEF Packet
  <2>2. QED
    BY <2>1
<1>5. \A d : Packet(src, d, msg).src = src /\ Packet(src, d, msg).dst = d
  BY DEF Packet
<1>6. CASE Net = "loopback"
  <2> DEFINE copies == [ix \in DOMAIN dests |-> Packet(src, dests[ix], msg)]
             lane == <<"out", src>>
  <2>1. lane \in Lane /\ \A d : SendLane(src, d) = lane
    BY <1>6, LaneFacts DEF SendLane
  <2>2. copies \in Seq(P) /\ Len(copies) = Len(dests)
        /\ \A ix \in 1 .. Len(dests) : copies[ix] = Packet(src, dests[ix], msg)
    <3>1. copies \in [1 .. Len(dests) -> P]
      BY <1>2, <1>3
    <3>2. copies \in Seq(P)
      BY <1>2, <3>1, SeqDef
    <3>3. QED
      BY <1>2, <3>1, <3>2, LenProperties
  <2>3. m = [n EXCEPT ![lane] = @ \o copies]
    BY <1>6 DEF SendToEach
  <2> HIDE DEF copies, m, lane
  <2>4. /\ n[lane] \o copies \in Seq(P)
        /\ Len(n[lane] \o copies) = Len(n[lane]) + Len(copies)
        /\ \A i \in 1 .. (Len(n[lane]) + Len(copies)) :
              (n[lane] \o copies)[i] =
                  IF i <= Len(n[lane]) THEN n[lane][i] ELSE copies[i - Len(n[lane])]
    BY <1>1, <2>1, <2>2, ConcatProperties
  <2>5. /\ m \in Nets(P)
        /\ m[lane] = n[lane] \o copies
        /\ \A l \in Lane : l # lane => m[l] = n[l]
    BY <2>1, <2>3, <2>4 DEF Nets
  <2>6. /\ Len(m[lane]) = Len(n[lane]) + Len(dests)
        /\ \A i \in 1 .. Len(n[lane]) : m[lane][i] = n[lane][i]
    BY <1>1, <1>2, <2>1, <2>2, <2>4, <2>5
  <2>7. \A ix \in 1 .. Len(dests) :
           m[lane][Len(n[lane]) + ix] = Packet(src, dests[ix], msg)
    <3>1. SUFFICES ASSUME NEW ix \in 1 .. Len(dests)
                   PROVE  m[lane][Len(n[lane]) + ix] = Packet(src, dests[ix], msg)
      OBVIOUS
    <3>2. Len(n[lane]) \in Nat /\ Len(n[lane]) + ix \in 1 .. (Len(n[lane]) + Len(copies))
      BY <1>1, <1>2, <2>1, <2>2
    <3>3. (n[lane] \o copies)[Len(n[lane]) + ix] = copies[ix]
      BY <1>2, <2>4, <3>2
    <3>4. QED
      BY <2>2, <2>5, <3>3
  <2>8. \A l \in Lane : \A i \in Added(n, m, l) :
           /\ l = lane
           /\ i - Len(n[lane]) \in 1 .. Len(dests)
           /\ m[l][i] = Packet(src, dests[i - Len(n[lane])], msg)
    <3>1. SUFFICES ASSUME NEW l \in Lane, NEW i \in Added(n, m, l)
                   PROVE  /\ l = lane
                          /\ i - Len(n[lane]) \in 1 .. Len(dests)
                          /\ m[l][i] = Packet(src, dests[i - Len(n[lane])], msg)
      OBVIOUS
    <3>2. l = lane
      BY <1>1, <2>5 DEF Added
    <3>3. Len(n[lane]) \in Nat
      BY <1>1, <2>1
    <3>4. i - Len(n[lane]) \in 1 .. Len(dests) /\ i \in Int
      BY <1>2, <2>6, <3>2, <3>3 DEF Added
    <3>5. Len(n[lane]) + (i - Len(n[lane])) = i
      BY <3>3, <3>4
    <3>6. QED
      BY <2>7, <3>2, <3>4, <3>5
  <2>9. \A ix \in 1 .. Len(dests) : Len(n[lane]) + ix \in Added(n, m, lane)
    BY <1>1, <1>2, <2>1, <2>6 DEF Added
  <2>10. \A l \in Lane : Len(n[l]) <= Len(m[l])
    BY <1>1, <1>2, <2>1, <2>5, <2>6
  <2>11. \A l \in Lane : \A i \in Added(n, m, l) :
            m[l][i] \in New /\ l = SendLane(m[l][i].src, m[l][i].dst)
    BY <1>3, <1>5, <2>1, <2>8
  <2>12. \A l, k \in Lane : \A i \in Added(n, m, l), j \in Added(n, m, k) :
            m[l][i] = m[k][j] => l = k /\ i = j
    <3>1. SUFFICES ASSUME NEW l \in Lane, NEW k \in Lane,
                          NEW i \in Added(n, m, l), NEW j \in Added(n, m, k),
                          m[l][i] = m[k][j]
                   PROVE  l = k /\ i = j
      OBVIOUS
    <3>2. dests[i - Len(n[lane])] = dests[j - Len(n[lane])]
      BY <1>4, <2>8, <3>1
    <3>3. i - Len(n[lane]) = j - Len(n[lane])
      BY <2>8, <3>2 DEF OneEach
    <3>4. i \in Int /\ j \in Int /\ Len(n[lane]) \in Nat
      BY <1>1, <2>1 DEF Added
    <3>5. QED
      BY <2>8, <3>3, <3>4
  <2>13. \A pkt \in New : \E l \in Lane : \E i \in Added(n, m, l) : m[l][i] = pkt
    <3>1. SUFFICES ASSUME NEW pkt \in New
                   PROVE  \E l \in Lane : \E i \in Added(n, m, l) : m[l][i] = pkt
      OBVIOUS
    <3>2. PICK ix \in 1 .. Len(dests) : pkt = Packet(src, dests[ix], msg)
      BY <1>3
    <3>3. QED
      BY <2>1, <2>7, <2>9, <3>2
  <2>14. Sent(n, m, New)
    BY <2>5, <2>6, <2>10, <2>11, <2>12, <2>13 DEF Sent
  <2>15. QED
    BY <2>5, <2>14 DEF m
<1>7. CASE Net # "loopback"
  <2>1. m = [l \in Lane |-> IF l[1] = src /\ l[2] \in ToSet(dests)
                           THEN Append(n[l], Packet(src, l[2], msg)) ELSE n[l]]
    BY <1>7 DEF SendToEach
  <2>2. Lane = Node \X Node /\ \A d : SendLane(src, d) = <<src, d>>
    BY <1>7 DEF Lane, SendLane
  <2> HIDE DEF m
  <2> DEFINE Written(l) == l[1] = src /\ l[2] \in ToSet(dests)
  <2>3. ASSUME NEW l \in Lane, Written(l)
        PROVE  /\ m[l] \in Seq(P)
               /\ Len(m[l]) = Len(n[l]) + 1
               /\ \A i \in 1 .. Len(n[l]) : m[l][i] = n[l][i]
               /\ m[l][Len(n[l]) + 1] = Packet(src, l[2], msg)
    <3> DEFINE pkt == Packet(src, l[2], msg)
    <3>1. m[l] = Append(n[l], pkt) /\ pkt \in P
      BY <2>1, <2>3
    <3> HIDE DEF pkt
    <3>2. /\ Append(n[l], pkt) \in Seq(P)
          /\ Len(Append(n[l], pkt)) = Len(n[l]) + 1
          /\ \A i \in 1 .. Len(n[l]) : Append(n[l], pkt)[i] = n[l][i]
          /\ Append(n[l], pkt)[Len(n[l]) + 1] = pkt
      BY <1>1, <3>1, AppendProperties
    <3>3. QED
      BY <3>1, <3>2 DEF pkt
  <2>4. ASSUME NEW l \in Lane, ~Written(l)
        PROVE  m[l] = n[l]
    BY <2>1, <2>4
  <2>5. m \in Nets(P)
    BY <1>1, <2>1, <2>3, <2>4 DEF Nets
  <2>6. ASSUME NEW l \in Lane, NEW i \in Added(n, m, l)
        PROVE  Written(l) /\ i = Len(n[l]) + 1 /\ m[l][i] = Packet(src, l[2], msg)
    <3>1. Len(n[l]) \in Nat
      BY <1>1
    <3>2. Written(l)
      BY <2>4, <2>6, <3>1 DEF Added
    <3>3. i = Len(n[l]) + 1
      BY <2>3, <2>6, <3>1, <3>2 DEF Added
    <3>4. QED
      BY <2>3, <3>2, <3>3
  <2>7. \A l \in Lane : l = <<l[1], l[2]>>
    BY <2>2
  <2>8. \A l \in Lane : /\ Len(n[l]) <= Len(m[l])
                        /\ \A i \in 1 .. Len(n[l]) : m[l][i] = n[l][i]
    <3>1. SUFFICES ASSUME NEW l \in Lane
                   PROVE  /\ Len(n[l]) <= Len(m[l])
                          /\ \A i \in 1 .. Len(n[l]) : m[l][i] = n[l][i]
      OBVIOUS
    <3>2. Len(n[l]) \in Nat
      BY <1>1
    <3>3. CASE Written(l)
      BY <2>3, <3>2, <3>3
    <3>4. CASE ~Written(l)
      BY <2>4, <3>2, <3>4
    <3>5. QED
      BY <3>3, <3>4
  <2>9. \A l \in Lane : \A i \in Added(n, m, l) :
           m[l][i] \in New /\ l = SendLane(m[l][i].src, m[l][i].dst)
    <3>1. SUFFICES ASSUME NEW l \in Lane, NEW i \in Added(n, m, l)
                   PROVE  m[l][i] \in New /\ l = SendLane(m[l][i].src, m[l][i].dst)
      OBVIOUS
    <3>2. Written(l) /\ m[l][i] = Packet(src, l[2], msg)
      BY <2>6
    <3>3. QED
      BY <1>5, <2>2, <2>7, <3>2
  <2>10. \A l, k \in Lane : \A i \in Added(n, m, l), j \in Added(n, m, k) :
            m[l][i] = m[k][j] => l = k /\ i = j
    <3>1. SUFFICES ASSUME NEW l \in Lane, NEW k \in Lane,
                          NEW i \in Added(n, m, l), NEW j \in Added(n, m, k),
                          m[l][i] = m[k][j]
                   PROVE  l = k /\ i = j
      OBVIOUS
    <3>2. l[1] = src /\ k[1] = src /\ l[2] = k[2]
      BY <1>4, <2>6, <3>1
    <3>3. l = k
      BY <2>7, <3>2
    <3>4. QED
      BY <2>6, <3>3
  <2>11. \A pkt \in New : \E l \in Lane : \E i \in Added(n, m, l) : m[l][i] = pkt
    <3>1. SUFFICES ASSUME NEW d \in ToSet(dests)
                   PROVE  \E l \in Lane : \E i \in Added(n, m, l) :
                             m[l][i] = Packet(src, d, msg)
      OBVIOUS
    <3> DEFINE l == <<src, d>>
    <3>2. l \in Lane /\ Written(l) /\ l[2] = d
      BY <1>3, <2>2
    <3> HIDE DEF l
    <3>3. Len(n[l]) \in Nat /\ Len(n[l]) + 1 \in Added(n, m, l)
      BY <1>1, <2>3, <3>2 DEF Added
    <3>4. QED
      BY <2>3, <3>2, <3>3
  <2>12. Sent(n, m, New)
    BY <2>8, <2>9, <2>10, <2>11 DEF Sent
  <2>13. QED
    BY <2>5, <2>12 DEF m
<1>8. QED
  BY <1>6, <1>7


(***************************************************************************)
(* What sending preserves, and what it makes of packets of a kind T.       *)
(***************************************************************************)
LEMMA SentProperties ==
    ASSUME NEW P, NEW n \in Nets(P), NEW m \in Nets(P), NEW New, Sent(n, m, New), NEW T
    PROVE  /\ New \cap T = {} /\ NoneOf(n, T) => NoneOf(m, T)
           /\ New \cap T = {} /\ AtMostOneOf(n, T) => AtMostOneOf(m, T)
           /\ (\A x, y \in New \cap T : x = y) /\ NoneOf(n, T) => AtMostOneOf(m, T)
           /\ ~NoneOf(n, T) => ~NoneOf(m, T)
           /\ New \cap T # {} => ~NoneOf(m, T)
           /\ Placed(n) => Placed(m)
<1>1. \A l \in Lane : Len(n[l]) \in Nat /\ Len(m[l]) \in Nat
  BY LenProperties DEF Nets
<1>2. \A l \in Lane : \A i \in 1 .. Len(m[l]) :
         \/ i \in 1 .. Len(n[l]) /\ m[l][i] = n[l][i]
         \/ i \in Added(n, m, l) /\ m[l][i] \in New
  BY <1>1 DEF Sent, Added
<1>3. \A l \in Lane : \A i \in Added(n, m, l) : i \in 1 .. Len(m[l])
  BY <1>1 DEF Added
<1>4. \A l \in Lane : \A i \in 1 .. Len(n[l]) : i \in 1 .. Len(m[l]) /\ m[l][i] = n[l][i]
  BY <1>1 DEF Sent
<1>5. New \cap T = {} /\ NoneOf(n, T) => NoneOf(m, T)
  BY <1>2 DEF NoneOf
<1>6. New \cap T = {} /\ AtMostOneOf(n, T) => AtMostOneOf(m, T)
  <2>1. SUFFICES ASSUME New \cap T = {}, AtMostOneOf(n, T),
                        NEW l \in Lane, NEW k \in Lane,
                        NEW i \in 1 .. Len(m[l]), NEW j \in 1 .. Len(m[k]),
                        m[l][i] \in T, m[k][j] \in T
                 PROVE  l = k /\ i = j
    BY DEF AtMostOneOf
  <2>2. i \in 1 .. Len(n[l]) /\ n[l][i] \in T
    BY <1>2, <2>1
  <2>3. j \in 1 .. Len(n[k]) /\ n[k][j] \in T
    BY <1>2, <2>1
  <2>4. QED
    BY <2>1, <2>2, <2>3 DEF AtMostOneOf
<1>7. (\A x, y \in New \cap T : x = y) /\ NoneOf(n, T) => AtMostOneOf(m, T)
  <2>1. SUFFICES ASSUME \A x, y \in New \cap T : x = y, NoneOf(n, T),
                        NEW l \in Lane, NEW k \in Lane,
                        NEW i \in 1 .. Len(m[l]), NEW j \in 1 .. Len(m[k]),
                        m[l][i] \in T, m[k][j] \in T
                 PROVE  l = k /\ i = j
    BY DEF AtMostOneOf
  <2>2. i \in Added(n, m, l) /\ m[l][i] \in New \cap T
    BY <1>2, <2>1 DEF NoneOf
  <2>3. j \in Added(n, m, k) /\ m[k][j] \in New \cap T
    BY <1>2, <2>1 DEF NoneOf
  <2>4. m[l][i] = m[k][j]
    BY <2>1, <2>2, <2>3
  <2>5. QED
    BY <2>2, <2>3, <2>4 DEF Sent
<1>8. ~NoneOf(n, T) => ~NoneOf(m, T)
  BY <1>4 DEF NoneOf
<1>9. New \cap T # {} => ~NoneOf(m, T)
  <2>1. SUFFICES ASSUME NEW pkt \in New, pkt \in T PROVE ~NoneOf(m, T)
    OBVIOUS
  <2>2. PICK l \in Lane : \E i \in Added(n, m, l) : m[l][i] = pkt
    BY DEF Sent
  <2>3. QED
    BY <1>3, <2>1, <2>2 DEF NoneOf
<1>10. Placed(n) => Placed(m)
  <2>1. SUFFICES ASSUME Placed(n), NEW l \in Lane, NEW i \in 1 .. Len(m[l])
                 PROVE  l \in Lanes(m[l][i])
    BY DEF Placed
  <2>2. CASE i \in 1 .. Len(n[l]) /\ m[l][i] = n[l][i]
    BY <2>1, <2>2 DEF Placed
  <2>3. CASE i \in Added(n, m, l)
    <3>1. l = SendLane(m[l][i].src, m[l][i].dst)
      BY <2>3 DEF Sent
    <3>2. QED
      BY <3>1, SendLaneFacts
  <2>4. QED
    BY <1>2, <2>2, <2>3
<1>11. QED
  BY <1>5, <1>6, <1>7, <1>8, <1>9, <1>10

(* A packet is sent behind those of its link that are on their way. *)
LEMMA SentInOrder ==
    ASSUME NEW P, NEW n \in Nets(P), NEW m \in Nets(P), NEW New, Sent(n, m, New), Placed(n),
           NEW T, NEW U, OneLink(T \cup U), InOrder(n, T, U),
           New \cap T = {} \/ (NoneOf(n, U) /\ New \cap U = {})
    PROVE  InOrder(m, T, U)
<1>1. \A l \in Lane : Len(n[l]) \in Nat /\ Len(m[l]) \in Nat
  BY LenProperties DEF Nets
<1>2. \A l \in Lane : \A i \in 1 .. Len(m[l]) :
         \/ i \in 1 .. Len(n[l]) /\ m[l][i] = n[l][i]
         \/ i \in Added(n, m, l) /\ m[l][i] \in New
  BY <1>1 DEF Sent, Added
<1>3. SUFFICES ASSUME NEW l \in Lane, NEW k \in Lane,
                      NEW i \in 1 .. Len(m[l]), NEW j \in 1 .. Len(m[k]),
                      m[l][i] \in T, m[k][j] \in U
               PROVE  Before(l, i, k, j)
  BY DEF InOrder
<1>4. CASE j \in 1 .. Len(n[k]) /\ m[k][j] = n[k][j]
  <2>1. i \in 1 .. Len(n[l]) /\ m[l][i] = n[l][i]
    BY <1>2, <1>3, <1>4 DEF NoneOf
  <2>2. QED
    BY <1>3, <1>4, <2>1 DEF InOrder
<1>5. CASE j \in Added(n, m, k) /\ m[k][j] \in New
  <2>1. i \in 1 .. Len(n[l]) /\ m[l][i] = n[l][i]
    BY <1>2, <1>3, <1>5
  <2>2. l \in Lanes(n[l][i])
    BY <2>1 DEF Placed
  <2>3. k = SendLane(m[k][j].src, m[k][j].dst)
    BY <1>5 DEF Sent
  <2>4. n[l][i].src = m[k][j].src /\ n[l][i].dst = m[k][j].dst
    BY <1>3, <2>1 DEF OneLink
  <2>5. l = k \/ (Net = "loopback" /\ l[1] = "in" /\ k[1] = "out")
    <3> DEFINE src == m[k][j].src
               dst == m[k][j].dst
    <3>1. l \in (IF Net = "loopback" THEN {<<"out", src>>, <<"in", dst>>} ELSE {<<src, dst>>})
      BY <2>2, <2>4 DEF Lanes
    <3>2. k = IF Net = "loopback" THEN <<"out", src>> ELSE <<src, dst>>
      BY <2>3 DEF SendLane
    <3> HIDE DEF src, dst
    <3>3. QED
      BY <3>1, <3>2
  <2>6. l = k => i < j
    BY <1>1, <1>5, <2>1 DEF Added
  <2>7. QED
    BY <2>5, <2>6 DEF Before
<1>6. QED
  BY <1>2, <1>4, <1>5

(* A kind of packets that are not there is in order with any other. *)
LEMMA NoneInOrder ==
    ASSUME NEW n, NEW T, NEW U, NoneOf(n, T) \/ NoneOf(n, U)
    PROVE  InOrder(n, T, U)
BY DEF NoneOf, InOrder

(***************************************************************************)
(* Where the packets are after one is received.                            *)
(***************************************************************************)
AfterRemoval(lane, at, l, i) == IF l = lane /\ at <= i THEN i + 1 ELSE i

LEMMA ReceivePositions ==
    ASSUME NEW P, net \in Nets(P), NEW dst \in Node, NEW slot \in Receivable(dst)
    PROVE  LET m == dme_recv_msg(slot)
               Was(l, i) == AfterRemoval(slot[1], slot[2], l, i)
           IN
           /\ m \in Nets(P)
           /\ slot[1] \in RecvLanes(dst) /\ slot[1] \in Lane
           /\ slot[2] \in 1 .. Len(net[slot[1]])
           /\ slot[2] = 1 \/ Net = "udp"
           /\ PacketAt(slot) = net[slot[1]][slot[2]]
           /\ \A l \in Lane : \A i \in 1 .. Len(m[l]) :
                 /\ Was(l, i) \in 1 .. Len(net[l])
                 /\ m[l][i] = net[l][Was(l, i)]
           /\ \A l \in Lane : \A k \in 1 .. Len(net[l]) :
                 \/ l = slot[1] /\ k = slot[2]
                 \/ \E i \in 1 .. Len(m[l]) : Was(l, i) = k
<1> DEFINE m == dme_recv_msg(slot)
           lane == slot[1]
           at == slot[2]
           Was(l, i) == AfterRemoval(lane, at, l, i)
<1>1. /\ lane \in Lane
      /\ net[lane] \in Seq(P)
      /\ at \in 1 .. Len(net[lane])
      /\ PacketAt(slot) = net[lane][at]
  BY SlotFacts DEF PacketAt
<1>2. lane \in RecvLanes(dst) /\ (at = 1 \/ Net = "udp")
  BY DEF Receivable
<1>3. m = [net EXCEPT ![lane] = RemoveAt(@, at)]
  BY DEF dme_recv_msg
<1> HIDE DEF lane, at, m, Was
<1>4. /\ RemoveAt(net[lane], at) \in Seq(P)
      /\ Len(RemoveAt(net[lane], at)) = Len(net[lane]) - 1
      /\ \A j \in 1 .. (Len(net[lane]) - 1) :
            RemoveAt(net[lane], at)[j] =
                IF j < at THEN net[lane][j] ELSE net[lane][j + 1]
  BY <1>1, RemoveAtProperties
<1>5. \A l \in Lane : Len(net[l]) \in Nat
  BY LenProperties DEF Nets
<1>6. /\ m \in Nets(P)
      /\ m[lane] = RemoveAt(net[lane], at)
      /\ \A l \in Lane : l # lane => m[l] = net[l]
  BY <1>1, <1>3, <1>4 DEF Nets
<1>7. ASSUME NEW l \in Lane, NEW i \in 1 .. Len(m[l])
      PROVE  Was(l, i) \in 1 .. Len(net[l]) /\ m[l][i] = net[l][Was(l, i)]
  BY <1>1, <1>4, <1>5, <1>6 DEF Was, AfterRemoval
<1>8. ASSUME NEW l \in Lane, NEW k \in 1 .. Len(net[l]), ~(l = lane /\ k = at)
      PROVE  \E i \in 1 .. Len(m[l]) : Was(l, i) = k
  <2>1. CASE l = lane /\ at < k
    <3>1. k - 1 \in 1 .. Len(m[l])
      BY <1>1, <1>4, <1>5, <1>6, <2>1
    <3>2. Was(l, k - 1) = k
      BY <1>1, <1>5, <2>1 DEF Was, AfterRemoval
    <3>3. QED
      BY <3>1, <3>2
  <2>2. CASE ~(l = lane /\ at < k)
    <3>1. k \in 1 .. Len(m[l])
      BY <1>1, <1>4, <1>5, <1>6, <1>8, <2>2
    <3>2. Was(l, k) = k
      BY <1>1, <1>5, <1>8, <2>2 DEF Was, AfterRemoval
    <3>3. QED
      BY <3>1, <3>2
  <2>3. QED
    BY <2>1, <2>2
<1>9. QED
  BY <1>1, <1>2, <1>6, <1>7, <1>8 DEF m, lane, at, Was

(***************************************************************************)
(* The rest of what receiving does: see ReceiveProperties.                 *)
(***************************************************************************)
LEMMA ReceivePlaced ==
    ASSUME NEW P, net \in Nets(P), Placed(net), NEW dst \in Node, NEW slot \in Receivable(dst),
           NEW T
    PROVE  /\ Placed(dme_recv_msg(slot))
           /\ PacketAt(slot).dst = dst
           /\ PacketAt(slot) \notin T /\ ~NoneOf(net, T) => ~NoneOf(dme_recv_msg(slot), T)
           /\ PacketAt(slot) \in T => ~NoneOf(net, T)
<1> DEFINE m == dme_recv_msg(slot)
           Was(l, i) == AfterRemoval(slot[1], slot[2], l, i)
<1>1. /\ slot[1] \in RecvLanes(dst) /\ slot[1] \in Lane
      /\ slot[2] \in 1 .. Len(net[slot[1]])
      /\ PacketAt(slot) = net[slot[1]][slot[2]]
      /\ \A l \in Lane : \A i \in 1 .. Len(m[l]) :
            Was(l, i) \in 1 .. Len(net[l]) /\ m[l][i] = net[l][Was(l, i)]
      /\ \A l \in Lane : \A k \in 1 .. Len(net[l]) :
            (l = slot[1] /\ k = slot[2]) \/ \E i \in 1 .. Len(m[l]) : Was(l, i) = k
  BY ReceivePositions
<1> HIDE DEF m, Was
<1>2. Placed(m)
  BY <1>1 DEF Placed
<1>3. PacketAt(slot).dst = dst
  BY <1>1, PlacedDst DEF Placed
<1>4. PacketAt(slot) \notin T /\ ~NoneOf(net, T) => ~NoneOf(m, T)
  <2>1. SUFFICES ASSUME PacketAt(slot) \notin T, NEW l \in Lane, NEW k \in 1 .. Len(net[l]),
                        net[l][k] \in T
                 PROVE  ~NoneOf(m, T)
    BY DEF NoneOf
  <2>2. PICK i \in 1 .. Len(m[l]) : Was(l, i) = k
    BY <1>1, <2>1
  <2>3. QED
    BY <1>1, <2>1, <2>2 DEF NoneOf
<1>5. PacketAt(slot) \in T => ~NoneOf(net, T)
  BY <1>1 DEF NoneOf
<1>6. QED
  BY <1>2, <1>3, <1>4, <1>5 DEF m

(***************************************************************************)
(* Packets that do not overtake each other stay in order, and when one is  *)
(* received none is left that should have come before.                     *)
(***************************************************************************)
LEMMA ReceiveInOrder ==
    ASSUME NEW P, net \in Nets(P), NEW dst \in Node, NEW slot \in Receivable(dst),
           NEW T, NEW U, InOrder(net, T, U)
    PROVE  /\ InOrder(dme_recv_msg(slot), T, U)
           /\ Net # "udp" /\ PacketAt(slot) \in U => NoneOf(net, T)
<1> DEFINE m == dme_recv_msg(slot)
           lane == slot[1]
           at == slot[2]
           Was(l, i) == AfterRemoval(lane, at, l, i)
<1>1. /\ m \in Nets(P)
      /\ lane \in RecvLanes(dst) /\ lane \in Lane
      /\ at \in 1 .. Len(net[lane])
      /\ at = 1 \/ Net = "udp"
      /\ PacketAt(slot) = net[lane][at]
      /\ \A l \in Lane : \A i \in 1 .. Len(m[l]) :
            Was(l, i) \in 1 .. Len(net[l]) /\ m[l][i] = net[l][Was(l, i)]
  BY ReceivePositions
<1>2. \A l \in Lane : Len(net[l]) \in Nat /\ Len(m[l]) \in Nat
  BY <1>1, LenProperties DEF Nets
<1> HIDE DEF m, lane, at, Was
<1>3. InOrder(m, T, U)
  <2>1. SUFFICES ASSUME NEW l \in Lane, NEW k \in Lane,
                        NEW i \in 1 .. Len(m[l]), NEW j \in 1 .. Len(m[k]),
                        m[l][i] \in T, m[k][j] \in U
                 PROVE  Before(l, i, k, j)
    BY DEF InOrder
  <2>2. Before(l, Was(l, i), k, Was(k, j))
    BY <1>1, <2>1 DEF InOrder
  <2>3. CASE l = k /\ Was(l, i) < Was(k, j)
    <3>1. at \in Nat /\ i \in Nat /\ j \in Nat
      BY <1>1, <1>2
    <3>2. i < j
      BY <2>3, <3>1 DEF Was, AfterRemoval
    <3>3. QED
      BY <2>3, <3>2 DEF Before
  <2>4. QED
    BY <2>2, <2>3 DEF Before
<1>4. Net # "udp" /\ PacketAt(slot) \in U => NoneOf(net, T)
  <2>1. SUFFICES ASSUME Net # "udp", net[lane][at] \in U,
                        NEW l \in Lane, NEW i \in 1 .. Len(net[l]), net[l][i] \in T
                 PROVE  FALSE
    BY <1>1 DEF NoneOf
  <2>2. Before(l, i, lane, at)
    BY <1>1, <2>1 DEF InOrder
  <2>3. ~(l = lane /\ i < at)
    BY <1>1, <1>2, <2>1
  <2>4. CASE Net = "loopback"
    <3>1. lane = <<"in", dst>>
      BY <1>1, <2>4 DEF RecvLanes
    <3>2. lane[1] # "out"
      BY <3>1
    <3>3. QED
      BY <2>2, <2>3, <3>2 DEF Before
  <2>5. CASE Net # "loopback"
    BY <2>2, <2>3, <2>5 DEF Before
  <2>6. QED
    BY <2>4, <2>5
<1>5. QED
  BY <1>3, <1>4 DEF m


(***************************************************************************)
(* sendto moves the oldest packet of a handler to the end of its           *)
(* receiver's buffer; the others stay, those of the handler move up.       *)
(***************************************************************************)
LEMMA SendtoPositions ==
    ASSUME NEW P, net \in Nets(P), \A pkt \in P : pkt.dst \in Node,
           NEW src \in Node, sendto(src)
    PROVE  LET out  == <<"out", src>>
               pkt  == net[out][1]
               into == <<"in", pkt.dst>>
               Was(l, i) == IF l = out THEN i + 1 ELSE i
               IsMoved(l, i) == l = into /\ i = Len(net[into]) + 1
           IN
           /\ Net = "loopback"
           /\ net' \in Nets(P)
           /\ out \in Lane /\ into \in Lane /\ 1 \in 1 .. Len(net[out])
           /\ net'[into][Len(net[into]) + 1] = pkt
           /\ Len(net[into]) + 1 \in 1 .. Len(net'[into])
           /\ \A l \in Lane : \A i \in 1 .. Len(net'[l]) :
                 \/ IsMoved(l, i)
                 \/ Was(l, i) \in 1 .. Len(net[l]) /\ net'[l][i] = net[l][Was(l, i)]
           /\ \A l \in Lane : \A k \in 1 .. Len(net[l]) :
                 \/ l = out /\ k = 1
                 \/ \E i \in 1 .. Len(net'[l]) : ~IsMoved(l, i) /\ Was(l, i) = k
<1> DEFINE out == <<"out", src>>
           pkt == net[out][1]
           into == <<"in", pkt.dst>>
           Was(l, i) == IF l = out THEN i + 1 ELSE i
           IsMoved(l, i) == l = into /\ i = Len(net[into]) + 1
<1>1. Net = "loopback" /\ net[out] # <<>>
  BY DEF sendto, InHandler
<1>2. out \in Lane /\ net[out] \in Seq(P)
  BY <1>1, LaneFacts DEF Nets
<1>3. /\ pkt \in P
      /\ Head(net[out]) = pkt
      /\ Tail(net[out]) \in Seq(P)
      /\ Len(Tail(net[out])) = Len(net[out]) - 1
      /\ \A i \in 1 .. Len(Tail(net[out])) : Tail(net[out])[i] = net[out][i + 1]
  BY <1>1, <1>2, HeadTailProperties
<1>4. into \in Lane /\ into # out
  BY <1>1, <1>3, LaneFacts
<1>5. net' = [net EXCEPT ![out] = Tail(@), ![into] = Append(@, pkt)]
  BY <1>3 DEF sendto
<1> HIDE DEF pkt, into, out
<1>6. net[into] \in Seq(P) /\ \A l \in Lane : Len(net[l]) \in Nat
  BY <1>4, LenProperties DEF Nets
<1>7. /\ Append(net[into], pkt) \in Seq(P)
      /\ Len(Append(net[into], pkt)) = Len(net[into]) + 1
      /\ \A i \in 1 .. Len(net[into]) : Append(net[into], pkt)[i] = net[into][i]
      /\ Append(net[into], pkt)[Len(net[into]) + 1] = pkt
  BY <1>3, <1>6, AppendProperties
<1>8. /\ net'[out] = Tail(net[out])
      /\ net'[into] = Append(net[into], pkt)
      /\ \A l \in Lane : l # out /\ l # into => net'[l] = net[l]
      /\ net' \in Nets(P)
  BY <1>2, <1>3, <1>4, <1>5, <1>7 DEF Nets
<1>9. Len(net[out]) \in Nat \ {0} /\ 1 \in 1 .. Len(net[out])
  BY <1>1, <1>2, EmptySeq
<1>10. ASSUME NEW l \in Lane, NEW i \in 1 .. Len(net'[l]), ~IsMoved(l, i)
       PROVE  Was(l, i) \in 1 .. Len(net[l]) /\ net'[l][i] = net[l][Was(l, i)]
  <2>1. CASE l = out
    <3>1. i \in 1 .. Len(Tail(net[out])) /\ net'[out] = Tail(net[out])
      BY <1>8, <1>10, <2>1
    <3>2. net'[out][i] = net[out][i + 1] /\ i + 1 \in 1 .. Len(net[out])
      BY <1>3, <1>9, <3>1
    <3>3. QED
      BY <2>1, <3>2
  <2>2. CASE l = into
    <3>1. i \in 1 .. Len(net[into])
      BY <1>4, <1>6, <1>7, <1>8, <1>10, <2>2
    <3>2. QED
      BY <1>4, <1>7, <1>8, <2>2, <3>1
  <2>3. CASE l # out /\ l # into
    BY <1>8, <2>3
  <2>4. QED
    BY <2>1, <2>2, <2>3
<1>11. ASSUME NEW l \in Lane, NEW k \in 1 .. Len(net[l]), ~(l = out /\ k = 1)
       PROVE  \E i \in 1 .. Len(net'[l]) : ~IsMoved(l, i) /\ Was(l, i) = k
  <2>1. CASE l = out
    <3>1. k - 1 \in 1 .. Len(net'[out]) /\ (k - 1) + 1 = k
      BY <1>3, <1>8, <1>9, <1>11, <2>1
    <3>2. QED
      BY <1>4, <2>1, <3>1
  <2>2. CASE l = into
    <3>1. k \in 1 .. Len(net'[into]) /\ k # Len(net[into]) + 1
      BY <1>4, <1>6, <1>7, <1>8, <2>2
    <3>2. QED
      BY <1>4, <2>2, <3>1
  <2>3. CASE l # out /\ l # into
    BY <1>8, <2>3
  <2>4. QED
    BY <2>1, <2>2, <2>3
<1>12. Len(net[into]) + 1 \in 1 .. Len(net'[into])
  BY <1>4, <1>6, <1>7, <1>8
<1> HIDE DEF Was, IsMoved
<1>13. QED
  BY <1>1, <1>2, <1>4, <1>7, <1>8, <1>9, <1>10, <1>11, <1>12 DEF pkt, into, out, Was, IsMoved

(***************************************************************************)
(* The rest of what sendto does: see SendtoProperties.                     *)
(***************************************************************************)
LEMMA SendtoPlaced ==
    ASSUME NEW P, net \in Nets(P), \A pkt \in P : pkt.dst \in Node, Placed(net),
           NEW src \in Node, sendto(src), NEW T
    PROVE  /\ Placed(net')
           /\ ~NoneOf(net, T) => ~NoneOf(net', T)
<1> DEFINE out  == <<"out", src>>
           pkt  == net[out][1]
           into == <<"in", pkt.dst>>
           Was(l, i) == IF l = out THEN i + 1 ELSE i
           IsMoved(l, i) == l = into /\ i = Len(net[into]) + 1
<1>1. /\ Net = "loopback"
      /\ out \in Lane /\ into \in Lane /\ 1 \in 1 .. Len(net[out])
      /\ net'[into][Len(net[into]) + 1] = pkt
      /\ Len(net[into]) + 1 \in 1 .. Len(net'[into])
      /\ \A l \in Lane : \A i \in 1 .. Len(net'[l]) :
            IsMoved(l, i) \/ (Was(l, i) \in 1 .. Len(net[l]) /\ net'[l][i] = net[l][Was(l, i)])
      /\ \A l \in Lane : \A k \in 1 .. Len(net[l]) :
            (l = out /\ k = 1) \/ \E i \in 1 .. Len(net'[l]) : ~IsMoved(l, i) /\ Was(l, i) = k
  BY SendtoPositions
<1>2. into \in Lanes(pkt)
  BY <1>1 DEF Lanes
<1> HIDE DEF pkt, into, out, Was
<1>3. ASSUME NEW l \in Lane, NEW i \in 1 .. Len(net'[l]) PROVE l \in Lanes(net'[l][i])
  <2>1. CASE IsMoved(l, i)
    BY <1>1, <1>2, <2>1
  <2>2. CASE ~IsMoved(l, i)
    <3>1. Was(l, i) \in 1 .. Len(net[l]) /\ net'[l][i] = net[l][Was(l, i)]
      BY <1>1, <2>2
    <3>2. QED
      BY <3>1 DEF Placed
  <2>3. QED
    BY <2>1, <2>2
<1>4. ASSUME NEW l \in Lane, NEW k \in 1 .. Len(net[l]), net[l][k] \in T
      PROVE  ~NoneOf(net', T)
  <2>1. CASE l = out /\ k = 1
    <3>1. pkt \in T
      BY <1>4, <2>1 DEF pkt
    <3>2. QED
      BY <1>1, <3>1 DEF NoneOf
  <2>2. CASE ~(l = out /\ k = 1)
    <3>1. PICK i \in 1 .. Len(net'[l]) : ~IsMoved(l, i) /\ Was(l, i) = k
      BY <1>1, <2>2
    <3>2. net'[l][i] = net[l][k]
      BY <1>1, <3>1
    <3>3. QED
      BY <1>4, <3>2 DEF NoneOf
  <2>3. QED
    BY <2>1, <2>2
<1>5. QED
  BY <1>3, <1>4 DEF Placed, NoneOf

LEMMA SendtoInOrder ==
    ASSUME NEW P, net \in Nets(P), \A pkt \in P : pkt.dst \in Node, Placed(net),
           NEW src \in Node, sendto(src),
           NEW T, NEW U, OneLink(T \cup U), InOrder(net, T, U)
    PROVE  InOrder(net', T, U)
<1> DEFINE out  == <<"out", src>>
           pkt  == net[out][1]
           into == <<"in", pkt.dst>>
           Was(l, i) == IF l = out THEN i + 1 ELSE i
           IsMoved(l, i) == l = into /\ i = Len(net[into]) + 1
<1>1. /\ Net = "loopback"
      /\ net' \in Nets(P)
      /\ out \in Lane /\ into \in Lane /\ 1 \in 1 .. Len(net[out])
      /\ net'[into][Len(net[into]) + 1] = pkt
      /\ \A l \in Lane : \A i \in 1 .. Len(net'[l]) :
            IsMoved(l, i) \/ (Was(l, i) \in 1 .. Len(net[l]) /\ net'[l][i] = net[l][Was(l, i)])
  BY SendtoPositions
<1>2. \A l \in Lane : Len(net[l]) \in Nat /\ Len(net'[l]) \in Nat
  BY <1>1, LenProperties DEF Nets
<1>3. out[1] = "out" /\ into[1] = "in" /\ into # out
  OBVIOUS
<1>4. \A l : l \in Lanes(pkt) => l = into \/ l[1] = "out"
  BY <1>1 DEF Lanes
<1>5. SUFFICES ASSUME NEW l \in Lane, NEW k \in Lane,
                      NEW i \in 1 .. Len(net'[l]), NEW j \in 1 .. Len(net'[k]),
                      net'[l][i] \in T, net'[k][j] \in U
               PROVE  Before(l, i, k, j)
  BY DEF InOrder
<1> HIDE DEF Was
<1>6. CASE IsMoved(l, i) /\ ~IsMoved(k, j)
  <2>1. net[out][1] \in T /\ Was(k, j) \in 1 .. Len(net[k]) /\ net[k][Was(k, j)] \in U
    BY <1>1, <1>5, <1>6
  <2>2. Before(out, 1, k, Was(k, j))
    BY <1>1, <2>1 DEF InOrder
  <2>3. k[1] = "out"
    BY <1>3, <2>2 DEF Before
  <2>4. l[1] = "in"
    BY <1>3, <1>6
  <2>5. QED
    BY <1>1, <2>3, <2>4 DEF Before
<1>7. CASE ~IsMoved(l, i) /\ IsMoved(k, j)
  <2>1. net[out][1] \in U /\ Was(l, i) \in 1 .. Len(net[l]) /\ net[l][Was(l, i)] \in T
        /\ net'[l][i] = net[l][Was(l, i)]
    BY <1>1, <1>5, <1>7
  <2>2. Before(l, Was(l, i), out, 1)
    BY <1>1, <2>1 DEF InOrder
  <2>3. l[1] = "in"
    BY <1>2, <1>3, <2>1, <2>2 DEF Before
  <2>4. net[l][Was(l, i)].dst = pkt.dst /\ net[l][Was(l, i)].src = pkt.src
    BY <2>1 DEF OneLink
  <2>5. l \in Lanes(net[l][Was(l, i)])
    BY <2>1 DEF Placed
  <2>6. l \in Lanes(pkt)
    BY <2>4, <2>5 DEF Lanes
  <2>7. l = into
    BY <1>4, <2>3, <2>6
  <2>8. Was(l, i) = i
    BY <1>3, <2>7 DEF Was
  <2>9. i < j
    BY <1>2, <1>7, <2>1, <2>7, <2>8
  <2>10. QED
    BY <1>7, <2>7, <2>9 DEF Before
<1>8. CASE ~IsMoved(l, i) /\ ~IsMoved(k, j)
  <2>1. /\ Was(l, i) \in 1 .. Len(net[l]) /\ net[l][Was(l, i)] \in T
        /\ Was(k, j) \in 1 .. Len(net[k]) /\ net[k][Was(k, j)] \in U
    BY <1>1, <1>5, <1>8
  <2>2. Before(l, Was(l, i), k, Was(k, j))
    BY <2>1 DEF InOrder
  <2>3. CASE l = k /\ Was(l, i) < Was(k, j)
    <3>1. i \in Nat /\ j \in Nat
      BY <1>2
    <3>2. i < j
      BY <2>3, <3>1 DEF Was
    <3>3. QED
      BY <2>3, <3>2 DEF Before
  <2>4. QED
    BY <2>2, <2>3 DEF Before
<1>9. CASE IsMoved(l, i) /\ IsMoved(k, j)
  <2>1. net[out][1] \in T /\ net[out][1] \in U
    BY <1>1, <1>5, <1>9
  <2>2. Before(out, 1, out, 1)
    BY <1>1, <2>1 DEF InOrder
  <2>3. QED
    BY <1>3, <2>2 DEF Before
<1>10. QED
  BY <1>6, <1>7, <1>8, <1>9

-----------------------------------------------------------------------------
(***************************************************************************)
(* Packets of a kind T are as few, or as many, as before.  Operations on   *)
(* other packets leave every kind as it was.                               *)
(***************************************************************************)
Kept(n, m, T) ==
    /\ NoneOf(n, T) <=> NoneOf(m, T)
    /\ AtMostOneOf(n, T) => AtMostOneOf(m, T)

LEMMA SentKept ==
    ASSUME NEW P, NEW n \in Nets(P), NEW m \in Nets(P), NEW New, Sent(n, m, New),
           NEW T, New \cap T = {}
    PROVE  Kept(n, m, T)
BY SentProperties DEF Kept

LEMMA ReceiveKept ==
    ASSUME NEW P, net \in Nets(P), Placed(net), NEW dst \in Node, NEW slot \in Receivable(dst),
           NEW T, PacketAt(slot) \notin T
    PROVE  Kept(net, dme_recv_msg(slot), T)
BY ReceiveProperties, ReceivePlaced DEF Kept

LEMMA SendtoKept ==
    ASSUME NEW P, net \in Nets(P), \A pkt \in P : pkt.dst \in Node, Placed(net),
           NEW src \in Node, sendto(src), NEW T
    PROVE  Kept(net, net', T)
BY SendtoProperties, SendtoPlaced DEF Kept

LEMMA NothingPlaced == ASSUME NetInit PROVE Placed(net)
BY LaneFacts DEF NetInit, Placed

LEMMA NothingThere == ASSUME NetInit, NEW T PROVE NoneOf(net, T)
BY DEF NetInit, NoneOf

LEMMA NoneIsAtMostOne == ASSUME NEW n, NEW T, NoneOf(n, T) PROVE AtMostOneOf(n, T)
BY DEF NoneOf, AtMostOneOf

LEMMA NoneOfPart ==
    ASSUME NEW n, NEW T, NEW U, U \subseteq T
    PROVE  /\ NoneOf(n, T) => NoneOf(n, U)
           /\ AtMostOneOf(n, T) => AtMostOneOf(n, U)
BY DEF NoneOf, AtMostOneOf


-----------------------------------------------------------------------------
(***************************************************************************)
(* The lists of receivers.                                                 *)
(***************************************************************************)
LEMMA ProcFinite ==
    ASSUME NetworkAssumption, NEW S \in SUBSET Proc
    PROVE  IsFiniteSet(S) /\ Cardinality(S) \in Nat
<1>1. IsFiniteSet(Proc)
  BY FS_Interval, NetworkAssumption DEF Proc, NetworkAssumption
<1>2. IsFiniteSet(S)
  BY <1>1, FS_Subset
<1>3. QED
  BY <1>2, FS_CardinalityType

LEMMA PidFacts ==
    ASSUME NetworkAssumption
    PROVE  /\ Proc \subseteq Node
           /\ SUPERVISOR_PID \in Node
           /\ SUPERVISOR_PID \notin Proc
BY DEF NetworkAssumption, Proc, Node, SUPERVISOR_PID

(* Every member of S has a place of its own in the ascending order. *)
LEMMA RankFacts ==
    ASSUME NetworkAssumption, NEW S \in SUBSET Proc
    PROVE  LET Rank(p) == Cardinality({q \in S : q <= p}) IN
           /\ \A p \in S : Rank(p) \in 1 .. Cardinality(S)
           /\ \A p, r \in S : Rank(p) = Rank(r) => p = r
           /\ \A ix \in 1 .. Cardinality(S) : \E p \in S : Rank(p) = ix
<1> DEFINE UpTo(p) == {q \in S : q <= p}
           Rank(p) == Cardinality(UpTo(p))
<1>1. IsFiniteSet(S) /\ Cardinality(S) \in Nat
  BY ProcFinite
<1>2. ASSUME NEW p PROVE IsFiniteSet(UpTo(p)) /\ Rank(p) \in Nat /\ Rank(p) <= Cardinality(S)
  <2>1. UpTo(p) \in SUBSET S
    OBVIOUS
  <2>2. QED
    BY <1>1, <2>1, FS_Subset, FS_CardinalityType
<1>3. \A p \in S : p \in Int
  BY DEF Proc
<1>4. ASSUME NEW p \in S PROVE Rank(p) \in 1 .. Cardinality(S)
  <2>1. p \in UpTo(p)
    BY <1>3
  <2>2. Rank(p) # 0
    BY <1>2, <2>1, FS_EmptySet
  <2>3. QED
    BY <1>1, <1>2, <2>2
<1>5. ASSUME NEW p \in S, NEW r \in S, p < r PROVE Rank(p) < Rank(r)
  <2>1. UpTo(p) \subseteq UpTo(r) /\ r \in UpTo(r) /\ r \notin UpTo(p)
    BY <1>3, <1>5
  <2>2. UpTo(p) \in SUBSET UpTo(r) /\ UpTo(p) # UpTo(r)
    BY <2>1
  <2> HIDE DEF UpTo
  <2>3. Cardinality(UpTo(p)) <= Cardinality(UpTo(r))
        /\ Cardinality(UpTo(p)) # Cardinality(UpTo(r))
    BY <1>2, <2>2, FS_Subset
  <2>4. QED
    BY <1>2, <2>3
<1> HIDE DEF UpTo, Rank
<1>6. ASSUME NEW p \in S, NEW r \in S, Rank(p) = Rank(r) PROVE p = r
  <2>1. ~(p < r) /\ ~(r < p)
    BY <1>2, <1>5, <1>6
  <2>2. QED
    BY <1>3, <2>1
<1> DEFINE f == [p \in S |-> Rank(p)]
<1>7. f \in Injection(S, 1 .. Cardinality(S))
  <2>1. f \in [S -> 1 .. Cardinality(S)] /\ \A p \in S : f[p] = Rank(p)
    BY <1>4
  <2> HIDE DEF f
  <2>2. \A p, r \in S : f[p] = f[r] => p = r
    BY <1>6, <2>1
  <2>3. QED
    BY <2>1, <2>2 DEF Injection, IsInjective
<1>8. IsFiniteSet(1 .. Cardinality(S)) /\ Cardinality(1 .. Cardinality(S)) = Cardinality(S)
  <2>1. Cardinality(S) \in Int
    BY <1>1
  <2> DEFINE c == Cardinality(S)
  <2>2. c \in Nat
    BY <1>1
  <2> HIDE DEF c
  <2>3. IsFiniteSet(1 .. c) /\ Cardinality(1 .. c) = c
    BY <2>2, FS_Interval
  <2>4. QED
    BY <2>3 DEF c
<1>9. f \in Surjection(S, 1 .. Cardinality(S))
  <2> HIDE DEF f
  <2>1. QED
    BY <1>7, <1>8, FS_Injection
<1>10. \A ix \in 1 .. Cardinality(S) : \E p \in S : Rank(p) = ix
  BY <1>9 DEF Surjection
<1>11. QED
  BY <1>4, <1>6, <1>10 DEF Rank, UpTo

LEMMA AscendingFacts ==
    ASSUME NetworkAssumption, NEW S \in SUBSET Proc
    PROVE  /\ Ascending(S) \in Seq(Node)
           /\ OneEach(Ascending(S))
           /\ ToSet(Ascending(S)) = S
<1> DEFINE Rank(p) == Cardinality({q \in S : q <= p})
           s == Ascending(S)
<1>1. /\ \A p \in S : Rank(p) \in 1 .. Cardinality(S)
      /\ \A p, r \in S : Rank(p) = Rank(r) => p = r
      /\ \A ix \in 1 .. Cardinality(S) : \E p \in S : Rank(p) = ix
  BY RankFacts
<1>2. s = [ix \in 1 .. Cardinality(S) |-> CHOOSE p \in S : Rank(p) = ix]
  BY DEF Ascending
<1>3. Cardinality(S) \in Nat
  BY ProcFinite
<1> HIDE DEF Rank, s
<1>4. \A ix \in 1 .. Cardinality(S) : s[ix] \in S /\ Rank(s[ix]) = ix
  BY <1>1, <1>2
<1>5. s \in [1 .. Cardinality(S) -> Node]
  <2>1. \A ix \in 1 .. Cardinality(S) : s[ix] \in Node
    BY <1>4, PidFacts
  <2>2. DOMAIN s = 1 .. Cardinality(S) /\ s = [ix \in 1 .. Cardinality(S) |-> s[ix]]
    BY <1>2
  <2>3. QED
    BY <2>1, <2>2
<1>6. s \in Seq(Node) /\ Len(s) = Cardinality(S) /\ DOMAIN s = 1 .. Cardinality(S)
  <2>1. s \in Seq(Node)
    BY <1>3, <1>5, SeqDef
  <2>2. QED
    BY <1>3, <1>5, <2>1, LenProperties
<1>7. OneEach(s)
  BY <1>4, <1>6 DEF OneEach
<1>8. ToSet(s) = S
  <2>1. ASSUME NEW p \in S PROVE p \in ToSet(s)
    <3>1. s[Rank(p)] = p
      BY <1>1, <1>4
    <3>2. QED
      BY <1>1, <1>6, <3>1 DEF ToSet
  <2>2. QED
    BY <1>4, <1>6, <2>1 DEF ToSet
<1>9. QED
  BY <1>6, <1>7, <1>8 DEF s

(* A broadcast reaches every peer but its sender, each of them once. *)
LEMMA BroadcastFacts ==
    ASSUME NetworkAssumption, NEW src \in Node
    PROVE  /\ BroadcastOrder(src) \in Seq(Node)
           /\ OneEach(BroadcastOrder(src))
           /\ ToSet(BroadcastOrder(src)) = Proc \ {src}
<1> DEFINE len == IF src = SUPERVISOR_PID THEN nodes_count ELSE nodes_count - 1
           s == BroadcastOrder(src)
<1>1. len \in Nat /\ nodes_count \in Nat \ {0} /\ src \in 0 .. nodes_count
  BY NetworkAssumption DEF NetworkAssumption, Node
<1>2. s = [ix \in 1 .. len |-> IF src = SUPERVISOR_PID \/ ix < src THEN ix ELSE ix + 1]
  BY DEF BroadcastOrder
<1>3. s \in Seq(Node)
  BY BroadcastOrderType
<1>4. DOMAIN s = 1 .. len
  BY <1>2
<1>5. Len(s) = len
  <2> HIDE DEF s, len
  <2>1. DOMAIN s = 1 .. Len(s) /\ Len(s) \in Nat
    BY <1>3, LenProperties
  <2>2. QED
    BY <1>1, <1>4, <2>1
<1>6. OneEach(s)
  BY <1>1, <1>2, <1>5 DEF OneEach, SUPERVISOR_PID
<1>7. ToSet(s) = Proc \ {src}
  <2>1. ASSUME NEW ix \in 1 .. len PROVE s[ix] \in Proc \ {src}
    BY <1>1, <1>2 DEF Proc, SUPERVISOR_PID
  <2>2. ASSUME NEW p \in Proc \ {src} PROVE \E ix \in 1 .. len : s[ix] = p
    <3>1. CASE src = SUPERVISOR_PID \/ p < src
      <4>1. p \in 1 .. len
        BY <1>1, <3>1 DEF Proc, SUPERVISOR_PID
      <4>2. s[p] = p
        BY <1>2, <3>1, <4>1
      <4>3. QED
        BY <4>1, <4>2
    <3>2. CASE ~(src = SUPERVISOR_PID \/ p < src)
      <4>1. p - 1 \in 1 .. len /\ ~(p - 1 < src) /\ (p - 1) + 1 = p
        BY <1>1, <3>2 DEF Proc, SUPERVISOR_PID
      <4>2. s[p - 1] = p
        BY <1>2, <3>2, <4>1
      <4>3. QED
        BY <4>1, <4>2
    <3>3. QED
      BY <3>1, <3>2
  <2>3. QED
    BY <1>4, <2>1, <2>2 DEF ToSet
<1>8. QED
  BY <1>3, <1>6, <1>7

LEMMA BroadcastSent ==
    ASSUME NetworkAssumption, NEW P, NEW n \in Nets(P), NEW src \in Node, NEW msg,
           \A d \in Proc \ {src} : Packet(src, d, msg) \in P
    PROVE  LET m == dme_broadcast_msg(n, src, msg) IN
           m \in Nets(P) /\ Sent(n, m, {Packet(src, d, msg) : d \in Proc \ {src}})
BY BroadcastFacts, SendToEachSent DEF dme_broadcast_msg

LEMMA AscendingSent ==
    ASSUME NetworkAssumption, NEW P, NEW n \in Nets(P), NEW src \in Node, NEW S \in SUBSET Proc,
           NEW msg, \A d \in S : Packet(src, d, msg) \in P
    PROVE  LET m == SendToEach(n, src, Ascending(S), msg) IN
           m \in Nets(P) /\ Sent(n, m, {Packet(src, d, msg) : d \in S})
BY AscendingFacts, SendToEachSent

-----------------------------------------------------------------------------
(***************************************************************************)
(* The supervisor.                                                         *)
(***************************************************************************)
SupPackets == [src : Node, dst : Node, msg : SupMsg]

LEMMA SupPacketFacts ==
    ASSUME NEW src \in Node, NEW dst \in Node,
           NEW t \in {"SYNCRO", "WANT", "ENTERED", "EXITED"}
    PROVE  Packet(src, dst, [type |-> t]) \in SupPackets
BY DEF Packet, SupPackets, SupMsg

LEMMA ElectionFacts ==
    ASSUME NetworkAssumption, SupervisorAssumption, NEW pid_arr \in Elections
    PROVE  pid_arr \in Seq(Node) /\ Len(pid_arr) \in Nat
<1>1. PICK count \in concurrent_counts : pid_arr \in Injection(1 .. count, Proc)
  BY DEF Elections
<1>2. count \in Nat
  BY DEF concurrent_counts, SupervisorAssumption, NetworkAssumption
<1>3. pid_arr \in [1 .. count -> Node]
  BY <1>1, PidFacts DEF Injection
<1>4. pid_arr \in Seq(Node)
  BY <1>2, <1>3, SeqDef
<1>5. QED
  BY <1>4, LenProperties

(***************************************************************************)
(* A step of the supervisor keeps its state well typed, touches no peer's  *)
(* exit_request, and leaves the packets of kind T alone or receives one.   *)
(***************************************************************************)
LEMMA SupervisorStep ==
    ASSUME NetworkAssumption, SupervisorAssumption,
           NEW P, NEW T, SupPackets \subseteq P, SupPackets \cap T = {},
           net \in Nets(P), SupTypeOK, SupNext
    PROVE  /\ net' \in Nets(P)
           /\ SupTypeOK'
           /\ NoneOf(net, T) => NoneOf(net', T)
           /\ AtMostOneOf(net, T) => AtMostOneOf(net', T)
           /\ \A p \in Proc : exit_request'[p] = exit_request[p]
<1>1. CASE syncro
  <2>1. BroadcastOrder(SUPERVISOR_PID) \in Seq(Node)
    BY PidFacts, BroadcastOrderType
  <2>2. \A dst \in Node : Packet(SUPERVISOR_PID, dst, [type |-> "SYNCRO"]) \in SupPackets
    BY PidFacts, SupPacketFacts
  <2>3. net' = SendToEach(net, SUPERVISOR_PID, BroadcastOrder(SUPERVISOR_PID), [type |-> "SYNCRO"])
    BY <1>1 DEF syncro, dme_broadcast_msg
  <2>4. /\ net' \in Nets(P)
        /\ NoneOf(net, T) => NoneOf(net', T)
        /\ AtMostOneOf(net, T) => AtMostOneOf(net', T)
    BY <2>1, <2>2, <2>3, PidFacts, SendToEachProperties
  <2>5. SupTypeOK'
    BY <1>1 DEF syncro, SupTypeOK
  <2>6. QED
    BY <1>1, <2>4, <2>5 DEF syncro
<1>2. CASE do_work
  <2>1. PICK pid_arr \in Elections :
          /\ elected_proc_count' = Len(pid_arr)
          /\ nodes' = [p \in Proc |-> IF p \in ToSet(pid_arr) THEN "PS_PENDING" ELSE nodes[p]]
          /\ net' = SendToEach(net, SUPERVISOR_PID, pid_arr, [type |-> "WANT"])
    BY <1>2 DEF do_work
  <2>2. pid_arr \in Seq(Node) /\ Len(pid_arr) \in Nat
    BY ElectionFacts
  <2>3. \A dst \in Node : Packet(SUPERVISOR_PID, dst, [type |-> "WANT"]) \in SupPackets
    BY PidFacts, SupPacketFacts
  <2>4. /\ net' \in Nets(P)
        /\ NoneOf(net, T) => NoneOf(net', T)
        /\ AtMostOneOf(net, T) => AtMostOneOf(net', T)
    BY <2>1, <2>2, <2>3, PidFacts, SendToEachProperties
  <2>5. nodes' \in [Proc -> State]
    BY <2>1 DEF SupTypeOK, State
  <2>6. SupTypeOK'
    BY <1>2, <2>1, <2>2, <2>5 DEF do_work, SupTypeOK
  <2>7. QED
    BY <1>2, <2>4, <2>6 DEF do_work
<1>3. CASE SupReceive
  <2>1. PICK slot \in Receivable(SUPERVISOR_PID) :
          /\ process_messages(slot) \/ null_func(slot)
          /\ net' = dme_recv_msg(slot)
    BY <1>3 DEF SupReceive
  <2>2. /\ net' \in Nets(P)
        /\ NoneOf(net, T) => NoneOf(net', T)
        /\ AtMostOneOf(net, T) => AtMostOneOf(net', T)
    BY <2>1, PidFacts, ReceiveProperties
  <2>3. /\ nodes' \in [Proc -> State]
        /\ received_resps_count' \in Nat
        /\ exit_request' \in [Node -> BOOLEAN]
        /\ \A p \in Proc : exit_request'[p] = exit_request[p]
    <3>1. CASE process_messages(slot)
      <4> DEFINE pkt == PacketAt(slot)
      <4>1. CASE /\ pkt.msg.type = "ENTERED"
                 /\ nodes' = [nodes EXCEPT ![pkt.src] = "PS_EXECUTING"]
                 /\ received_resps_count' = received_resps_count + 1
                 /\ \E beyond \in OutOfBounds :
                       exit_request' = [exit_request EXCEPT ![SUPERVISOR_PID] =
                                           ~critical_region_is_sane(nodes', beyond)]
        <5>1. PICK beyond \in OutOfBounds :
                 exit_request' = [exit_request EXCEPT ![SUPERVISOR_PID] =
                                     ~critical_region_is_sane(nodes', beyond)]
          BY <4>1
        <5>2. (~critical_region_is_sane(nodes', beyond)) \in BOOLEAN
          BY DEF critical_region_is_sane
        <5>3. /\ exit_request' \in [Node -> BOOLEAN]
              /\ \A p \in Proc : exit_request'[p] = exit_request[p]
          BY <5>1, <5>2, PidFacts DEF SupTypeOK
        <5>4. nodes' \in [Proc -> State] /\ received_resps_count' \in Nat
          <6>1. /\ nodes' = [nodes EXCEPT ![pkt.src] = "PS_EXECUTING"]
                /\ received_resps_count' = received_resps_count + 1
            BY <4>1
          <6>2. nodes \in [Proc -> State] /\ "PS_EXECUTING" \in State
            BY DEF SupTypeOK, State
          <6>3. received_resps_count \in Nat
            BY DEF SupTypeOK
          <6> HIDE DEF pkt
          <6>4. nodes' \in [Proc -> State]
            BY <6>1, <6>2
          <6>5. received_resps_count' \in Nat
            BY <6>1, <6>3
          <6>6. QED
            BY <6>4, <6>5
        <5>5. QED
          BY <5>3, <5>4
      <4>2. CASE /\ pkt.msg.type = "EXITED"
                 /\ nodes' = [nodes EXCEPT ![pkt.src] = "PS_IDLE"]
                 /\ UNCHANGED <<received_resps_count, exit_request>>
        BY <4>2 DEF SupTypeOK, State
      <4>3. QED
        BY <3>1, <4>1, <4>2 DEF process_messages
    <3>2. CASE null_func(slot)
      BY <2>1, <3>2, PidFacts DEF null_func, SupTypeOK
    <3>3. QED
      BY <2>1, <3>1, <3>2
  <2>4. SupTypeOK'
    BY <1>3, <2>3 DEF SupReceive, SupTypeOK
  <2>5. QED
    BY <2>2, <2>3, <2>4
<1>4. QED
  BY <1>1, <1>2, <1>3 DEF SupNext

(* The supervisor addresses its packets to the nodes it sends them to. *)
LEMMA SupervisorAddressed ==
    ASSUME NetworkAssumption, SupervisorAssumption, NEW P, SupPackets \subseteq P,
           net \in Nets(P), Addressed(net), SupNext
    PROVE  Addressed(net')
<1>1. CASE syncro
  <2>1. BroadcastOrder(SUPERVISOR_PID) \in Seq(Node)
    BY PidFacts, BroadcastOrderType
  <2>2. net' = SendToEach(net, SUPERVISOR_PID, BroadcastOrder(SUPERVISOR_PID), [type |-> "SYNCRO"])
    BY <1>1 DEF syncro, dme_broadcast_msg
  <2>3. QED
    BY <2>1, <2>2, PidFacts, SendToEachAddressed
<1>2. CASE do_work
  <2>1. PICK pid_arr \in Elections :
          net' = SendToEach(net, SUPERVISOR_PID, pid_arr, [type |-> "WANT"])
    BY <1>2 DEF do_work
  <2>2. QED
    BY <2>1, PidFacts, ElectionFacts, SendToEachAddressed
<1>3. CASE SupReceive
  <2>1. PICK slot \in Receivable(SUPERVISOR_PID) : net' = dme_recv_msg(slot)
    BY <1>3 DEF SupReceive
  <2>2. QED
    BY <2>1, PidFacts, ReceiveAddressed
<1>4. QED
  BY <1>1, <1>2, <1>3 DEF SupNext

-----------------------------------------------------------------------------
(***************************************************************************)
(* What the handlers do: send one packet, inform the supervisor, or send   *)
(* one message to several peers.                                           *)
(***************************************************************************)
LEMMA OneTold ==
    ASSUME NEW P, NEW n \in Nets(P), Placed(n), NEW src \in Node, NEW dst \in Node, NEW msg,
           Packet(src, dst, msg) \in P
    PROVE  LET m == dme_send_msg(n, src, dst, msg) IN
           m \in Nets(P) /\ Placed(m) /\ Sent(n, m, {Packet(src, dst, msg)})
<1> DEFINE m == dme_send_msg(n, src, dst, msg)
<1>1. m \in Nets(P) /\ Sent(n, m, {Packet(src, dst, msg)})
  BY SendSent
<1> HIDE DEF m
<1>2. Placed(m)
  BY <1>1, SentProperties
<1>3. QED
  BY <1>1, <1>2 DEF m

LEMMA SupervisorTold ==
    ASSUME NetworkAssumption, NEW P, SupPackets \subseteq P, NEW n \in Nets(P), Placed(n),
           NEW p \in Proc, NEW t \in {"ENTERED", "EXITED"}
    PROVE  LET m == dme_send_msg(n, p, SUPERVISOR_PID, [type |-> t]) IN
           /\ m \in Nets(P)
           /\ Placed(m)
           /\ Sent(n, m, {Packet(p, SUPERVISOR_PID, [type |-> t])})
<1>1. p \in Node /\ SUPERVISOR_PID \in Node
  BY PidFacts
<1>2. Packet(p, SUPERVISOR_PID, [type |-> t]) \in P
  BY <1>1, SupPacketFacts
<1>3. QED
  BY <1>1, <1>2, OneTold

LEMMA EachTold ==
    ASSUME NetworkAssumption, NEW P, NEW n \in Nets(P), Placed(n), NEW src \in Node,
           NEW S \in SUBSET Proc, NEW msg, \A d \in S : Packet(src, d, msg) \in P
    PROVE  LET m == SendToEach(n, src, Ascending(S), msg) IN
           m \in Nets(P) /\ Placed(m) /\ Sent(n, m, {Packet(src, d, msg) : d \in S})
<1> DEFINE m == SendToEach(n, src, Ascending(S), msg)
<1>1. m \in Nets(P) /\ Sent(n, m, {Packet(src, d, msg) : d \in S})
  BY AscendingSent
<1> HIDE DEF m
<1>2. Placed(m)
  BY <1>1, SentProperties
<1>3. QED
  BY <1>1, <1>2 DEF m

LEMMA OthersTold ==
    ASSUME NetworkAssumption, NEW P, NEW n \in Nets(P), Placed(n), NEW src \in Node,
           NEW msg, \A d \in Proc \ {src} : Packet(src, d, msg) \in P
    PROVE  LET m == dme_broadcast_msg(n, src, msg) IN
           m \in Nets(P) /\ Placed(m) /\ Sent(n, m, {Packet(src, d, msg) : d \in Proc \ {src}})
<1> DEFINE m == dme_broadcast_msg(n, src, msg)
<1>1. m \in Nets(P) /\ Sent(n, m, {Packet(src, d, msg) : d \in Proc \ {src}})
  BY BroadcastSent
<1> HIDE DEF m
<1>2. Placed(m)
  BY <1>1, SentProperties
<1>3. QED
  BY <1>1, <1>2 DEF m

-----------------------------------------------------------------------------
(***************************************************************************)
(* What a step of the supervisor does to the network: it sends packets of  *)
(* its own to peers, or receives one.                                      *)
(***************************************************************************)
FromSupervisor(t) == {Packet(SUPERVISOR_PID, p, [type |-> t]) : p \in Proc}

LEMMA ElectedOnce ==
    ASSUME NetworkAssumption, SupervisorAssumption, NEW pid_arr \in Elections
    PROVE  OneEach(pid_arr) /\ ToSet(pid_arr) \subseteq Proc
<1>1. PICK count \in concurrent_counts : pid_arr \in Injection(1 .. count, Proc)
  BY DEF Elections
<1>2. count \in Nat
  BY DEF concurrent_counts, SupervisorAssumption, NetworkAssumption
<1>3. pid_arr \in [1 .. count -> Proc] /\ \A i, j \in 1 .. count : pid_arr[i] = pid_arr[j] => i = j
  BY <1>1 DEF Injection, IsInjective
<1>4. DOMAIN pid_arr = 1 .. count /\ pid_arr \in Seq(Proc)
  BY <1>2, <1>3, SeqDef
<1>5. Len(pid_arr) = count
  BY <1>2, <1>4, LenProperties
<1>6. QED
  BY <1>3, <1>4, <1>5 DEF OneEach, ToSet

LEMMA SyncroSent ==
    ASSUME NetworkAssumption, NEW P, SupPackets \subseteq P, net \in Nets(P), syncro
    PROVE  /\ net' \in Nets(P)
           /\ Sent(net, net', FromSupervisor("SYNCRO"))
<1> DEFINE msg == [type |-> "SYNCRO"]
<1>1. \A d \in Proc \ {SUPERVISOR_PID} : Packet(SUPERVISOR_PID, d, msg) \in P
  BY PidFacts, SupPacketFacts
<1>2. net' = dme_broadcast_msg(net, SUPERVISOR_PID, msg)
  BY DEF syncro
<1>3. Proc \ {SUPERVISOR_PID} = Proc /\ SUPERVISOR_PID \in Node
  BY PidFacts
<1> HIDE DEF msg
<1>4. /\ net' \in Nets(P)
      /\ Sent(net, net', {Packet(SUPERVISOR_PID, d, msg) : d \in Proc \ {SUPERVISOR_PID}})
  BY <1>1, <1>2, <1>3, BroadcastSent
<1>5. QED
  BY <1>3, <1>4 DEF FromSupervisor, msg

LEMMA WantsSent ==
    ASSUME NetworkAssumption, SupervisorAssumption, NEW P, SupPackets \subseteq P,
           net \in Nets(P), NEW pid_arr \in Elections,
           net' = SendToEach(net, SUPERVISOR_PID, pid_arr, [type |-> "WANT"])
    PROVE  /\ net' \in Nets(P)
           /\ Sent(net, net', {Packet(SUPERVISOR_PID, d, [type |-> "WANT"]) : d \in ToSet(pid_arr)})
<1> DEFINE msg == [type |-> "WANT"]
<1>1. \A d \in ToSet(pid_arr) : Packet(SUPERVISOR_PID, d, msg) \in P
  BY ElectedOnce, PidFacts, SupPacketFacts
<1>2. pid_arr \in Seq(Node) /\ OneEach(pid_arr) /\ SUPERVISOR_PID \in Node
  BY ElectedOnce, ElectionFacts, PidFacts
<1>3. net' = SendToEach(net, SUPERVISOR_PID, pid_arr, msg)
  OBVIOUS
<1> HIDE DEF msg
<1>4. /\ net' \in Nets(P)
      /\ Sent(net, net', {Packet(SUPERVISOR_PID, d, msg) : d \in ToSet(pid_arr)})
  BY <1>1, <1>2, <1>3, SendToEachSent
<1>5. QED
  BY <1>4 DEF msg

LEMMA SupervisorEffect ==
    ASSUME NetworkAssumption, SupervisorAssumption, NEW P, SupPackets \subseteq P,
           net \in Nets(P), SupNext
    PROVE  \/ \E New \in SUBSET (FromSupervisor("SYNCRO") \cup FromSupervisor("WANT")) :
                 net' \in Nets(P) /\ Sent(net, net', New)
           \/ \E slot \in Receivable(SUPERVISOR_PID) : net' = dme_recv_msg(slot)
<1>1. CASE syncro
  BY <1>1, SyncroSent
<1>2. CASE do_work
  <2>1. PICK pid_arr \in Elections :
           net' = SendToEach(net, SUPERVISOR_PID, pid_arr, [type |-> "WANT"])
    BY <1>2 DEF do_work
  <2> DEFINE New == {Packet(SUPERVISOR_PID, d, [type |-> "WANT"]) : d \in ToSet(pid_arr)}
  <2>2. New \subseteq FromSupervisor("WANT")
    BY ElectedOnce DEF FromSupervisor
  <2>3. net' \in Nets(P) /\ Sent(net, net', New)
    BY <2>1, WantsSent
  <2> HIDE DEF New
  <2>4. QED
    BY <2>2, <2>3
<1>3. CASE SupReceive
  BY <1>3 DEF SupReceive
<1>4. QED
  BY <1>1, <1>2, <1>3 DEF SupNext

LEMMA SupervisorPlaced ==
    ASSUME NetworkAssumption, SupervisorAssumption, NEW P, SupPackets \subseteq P,
           net \in Nets(P), Placed(net), SupNext
    PROVE  Placed(net')
<1>1. ASSUME NEW New, net' \in Nets(P), Sent(net, net', New) PROVE Placed(net')
  BY <1>1, SentProperties
<1>2. ASSUME NEW slot \in Receivable(SUPERVISOR_PID), net' = dme_recv_msg(slot)
      PROVE  Placed(net')
  BY <1>2, PidFacts, ReceivePlaced
<1>3. QED
  BY <1>1, <1>2, SupervisorEffect

-----------------------------------------------------------------------------
(***************************************************************************)
(* The supervisor's view of a peer, on networks that keep the order of the *)
(* packets between two nodes.  s is the state of p, v its state in the     *)
(* view: they differ by the packets between the two that are on their way. *)
(***************************************************************************)
WantTo(p) == {Packet(SUPERVISOR_PID, p, [type |-> "WANT"])}

SyncroTo(p) == {Packet(SUPERVISOR_PID, p, [type |-> "SYNCRO"])}

EnteredFrom(p) == {Packet(p, SUPERVISOR_PID, [type |-> "ENTERED"])}

ExitedFrom(p) == {Packet(p, SUPERVISOR_PID, [type |-> "EXITED"])}

View(n, s, v, p) ==
    /\ AtMostOneOf(n, WantTo(p)) /\ AtMostOneOf(n, EnteredFrom(p)) /\ AtMostOneOf(n, ExitedFrom(p))
    /\ ~NoneOf(n, WantTo(p)) =>
          /\ s = "PS_IDLE" /\ v = "PS_PENDING"
          /\ NoneOf(n, EnteredFrom(p)) /\ NoneOf(n, ExitedFrom(p))
    /\ ~NoneOf(n, EnteredFrom(p)) =>
          /\ v = "PS_PENDING"
          /\ s = IF NoneOf(n, ExitedFrom(p)) THEN "PS_EXECUTING" ELSE "PS_IDLE"
    /\ ~NoneOf(n, ExitedFrom(p)) =>
          /\ s = "PS_IDLE"
          /\ v = IF NoneOf(n, EnteredFrom(p)) THEN "PS_EXECUTING" ELSE "PS_PENDING"
    /\ NoneOf(n, WantTo(p)) /\ NoneOf(n, EnteredFrom(p)) /\ NoneOf(n, ExitedFrom(p)) => s = v
    /\ InOrder(n, EnteredFrom(p), ExitedFrom(p))

(* The packets of the supervisor's protocol that can be on their way. *)
ToSupervisor(t) == {Packet(p, SUPERVISOR_PID, [type |-> t]) : p \in Proc}

Proper ==
    FromSupervisor("SYNCRO") \cup FromSupervisor("WANT")
        \cup ToSupervisor("ENTERED") \cup ToSupervisor("EXITED")

Stray(P) == {pkt \in P : pkt.msg \in SupMsg /\ pkt \notin Proper}

Sight(P, n, st, view) ==
    /\ NoneOf(n, Stray(P))
    /\ \A p \in Proc : View(n, st[p], view[p], p)

(* What p's part of the view depends on. *)
Told(p) == WantTo(p) \cup EnteredFrom(p) \cup ExitedFrom(p)

LEMMA ToldFacts ==
    ASSUME NetworkAssumption, NEW p \in Proc
    PROVE  /\ \A pkt \in Told(p) : pkt.msg \in SupMsg /\ pkt \in Proper
           /\ \A pkt \in WantTo(p) :
                 pkt.src = SUPERVISOR_PID /\ pkt.dst = p /\ pkt.msg.type = "WANT"
           /\ \A pkt \in EnteredFrom(p) :
                 pkt.src = p /\ pkt.dst = SUPERVISOR_PID /\ pkt.msg.type = "ENTERED"
           /\ \A pkt \in ExitedFrom(p) :
                 pkt.src = p /\ pkt.dst = SUPERVISOR_PID /\ pkt.msg.type = "EXITED"
           /\ \A pkt \in SyncroTo(p) :
                 pkt.src = SUPERVISOR_PID /\ pkt.dst = p /\ pkt.msg.type = "SYNCRO"
           /\ OneLink(EnteredFrom(p) \cup ExitedFrom(p))
           /\ OneLink(SyncroTo(p) \cup WantTo(p))
<1>1. \A t \in {"SYNCRO", "WANT", "ENTERED", "EXITED"} : [type |-> t] \in SupMsg
  BY DEF SupMsg
<1>2. \A pkt \in Told(p) : pkt.msg \in SupMsg
  BY <1>1 DEF Told, WantTo, EnteredFrom, ExitedFrom, Packet
<1>3. \A pkt \in Told(p) : pkt \in Proper
  BY DEF Told, WantTo, EnteredFrom, ExitedFrom, Proper, FromSupervisor, ToSupervisor
<1>4. QED
  BY <1>2, <1>3 DEF WantTo, EnteredFrom, ExitedFrom, SyncroTo, Packet, OneLink

LEMMA KindsApart ==
    ASSUME NetworkAssumption, NEW p \in Proc, NEW q \in Proc
    PROVE  /\ EnteredFrom(p) \cap (WantTo(q) \cup ExitedFrom(q) \cup SyncroTo(q)) = {}
           /\ ExitedFrom(p) \cap (WantTo(q) \cup SyncroTo(q)) = {}
           /\ SyncroTo(p) \cap WantTo(q) = {}
           /\ p # q => Told(p) \cap Told(q) = {} /\ SyncroTo(p) \cap SyncroTo(q) = {}
<1>1. /\ \A pkt \in WantTo(p) \cup WantTo(q) : pkt.msg.type = "WANT"
      /\ \A pkt \in EnteredFrom(p) \cup EnteredFrom(q) : pkt.msg.type = "ENTERED"
      /\ \A pkt \in ExitedFrom(p) \cup ExitedFrom(q) : pkt.msg.type = "EXITED"
      /\ \A pkt \in SyncroTo(p) \cup SyncroTo(q) : pkt.msg.type = "SYNCRO"
  BY ToldFacts
<1> DEFINE Of(r) == /\ \A pkt \in WantTo(r) \cup SyncroTo(r) : pkt.dst = r
                    /\ \A pkt \in EnteredFrom(r) \cup ExitedFrom(r) : pkt.src = r
<1>2. Of(p) /\ Of(q)
  BY ToldFacts
<1>3. ASSUME p # q, NEW pkt PROVE ~(pkt \in Told(p) /\ pkt \in Told(q))
  <2>1. ~(pkt \in WantTo(p) /\ pkt \in WantTo(q))
    BY <1>3, <1>2
  <2>2. ~(pkt \in EnteredFrom(p) /\ pkt \in EnteredFrom(q))
    BY <1>3, <1>2
  <2>3. ~(pkt \in ExitedFrom(p) /\ pkt \in ExitedFrom(q))
    BY <1>3, <1>2
  <2>4. QED
    BY <1>1, <2>1, <2>2, <2>3 DEF Told
<1>4. ASSUME p # q, NEW pkt PROVE ~(pkt \in SyncroTo(p) /\ pkt \in SyncroTo(q))
  BY <1>2, <1>4
<1>5. QED
  BY <1>1, <1>3, <1>4

(* A proper packet is told by its type and by who sends or receives it. *)
LEMMA ProperFacts ==
    ASSUME NetworkAssumption, NEW pkt \in Proper
    PROVE  /\ pkt.msg.type = "SYNCRO" => pkt.dst \in Proc /\ pkt \in SyncroTo(pkt.dst)
           /\ pkt.msg.type = "WANT" => pkt.dst \in Proc /\ pkt \in WantTo(pkt.dst)
           /\ pkt.msg.type = "ENTERED" =>
                 pkt.dst = SUPERVISOR_PID /\ pkt.src \in Proc /\ pkt \in EnteredFrom(pkt.src)
           /\ pkt.msg.type = "EXITED" =>
                 pkt.dst = SUPERVISOR_PID /\ pkt.src \in Proc /\ pkt \in ExitedFrom(pkt.src)
           /\ pkt.msg.type \in {"SYNCRO", "WANT", "ENTERED", "EXITED"}
<1>1. CASE pkt \in FromSupervisor("SYNCRO")
  BY <1>1 DEF FromSupervisor, SyncroTo, Packet
<1>2. CASE pkt \in FromSupervisor("WANT")
  BY <1>2 DEF FromSupervisor, WantTo, Packet
<1>3. CASE pkt \in ToSupervisor("ENTERED")
  BY <1>3 DEF ToSupervisor, EnteredFrom, Packet
<1>4. CASE pkt \in ToSupervisor("EXITED")
  BY <1>4 DEF ToSupervisor, ExitedFrom, Packet
<1>5. QED
  BY <1>1, <1>2, <1>3, <1>4 DEF Proper

LEMMA ViewKept ==
    ASSUME NEW n, NEW m, NEW s, NEW v, NEW p, View(n, s, v, p),
           Kept(n, m, WantTo(p)), Kept(n, m, EnteredFrom(p)), Kept(n, m, ExitedFrom(p)),
           InOrder(m, EnteredFrom(p), ExitedFrom(p))
    PROVE  View(m, s, v, p)
BY DEF View, Kept

LEMMA ViewSent ==
    ASSUME NetworkAssumption, NEW P, NEW n \in Nets(P), NEW m \in Nets(P), Placed(n),
           NEW New, Sent(n, m, New),
           NEW s, NEW v, NEW p \in Proc, View(n, s, v, p), New \cap Told(p) = {}
    PROVE  View(m, s, v, p)
<1>1. /\ New \cap WantTo(p) = {} /\ New \cap EnteredFrom(p) = {} /\ New \cap ExitedFrom(p) = {}
  BY DEF Told
<1>2. Kept(n, m, WantTo(p)) /\ Kept(n, m, EnteredFrom(p)) /\ Kept(n, m, ExitedFrom(p))
  BY <1>1, SentKept
<1>3. OneLink(EnteredFrom(p) \cup ExitedFrom(p)) /\ InOrder(n, EnteredFrom(p), ExitedFrom(p))
  BY ToldFacts DEF View
<1>4. InOrder(m, EnteredFrom(p), ExitedFrom(p))
  BY <1>1, <1>3, SentInOrder
<1>5. QED
  BY <1>2, <1>4, ViewKept

LEMMA ViewReceived ==
    ASSUME NEW P, net \in Nets(P), Placed(net), NEW d \in Node, NEW slot \in Receivable(d),
           NEW s, NEW v, NEW p, View(net, s, v, p), PacketAt(slot) \notin Told(p)
    PROVE  View(dme_recv_msg(slot), s, v, p)
<1> DEFINE m == dme_recv_msg(slot)
<1>1. /\ PacketAt(slot) \notin WantTo(p)
      /\ PacketAt(slot) \notin EnteredFrom(p) /\ PacketAt(slot) \notin ExitedFrom(p)
  BY DEF Told
<1>2. Kept(net, m, WantTo(p)) /\ Kept(net, m, EnteredFrom(p)) /\ Kept(net, m, ExitedFrom(p))
  BY <1>1, ReceiveKept
<1>3. InOrder(m, EnteredFrom(p), ExitedFrom(p))
  BY ReceiveInOrder DEF View
<1> HIDE DEF m
<1>4. View(m, s, v, p)
  BY <1>2, <1>3, ViewKept
<1>5. QED
  BY <1>4 DEF m

(* Packets of the algorithm are no part of the view. *)
LEMMA SightSent ==
    ASSUME NetworkAssumption, NEW P, NEW n \in Nets(P), NEW m \in Nets(P), Placed(n),
           NEW New, Sent(n, m, New), \A pkt \in New : pkt.msg \notin SupMsg,
           NEW st, NEW view, Sight(P, n, st, view)
    PROVE  Sight(P, m, st, view)
<1>1. \A p \in Proc : New \cap Told(p) = {}
  BY ToldFacts
<1>2. NoneOf(m, Stray(P))
  <2>1. New \cap Stray(P) = {}
    BY DEF Stray
  <2>2. QED
    BY <2>1, SentProperties DEF Sight
<1>3. \A p \in Proc : View(m, st[p], view[p], p)
  BY <1>1, ViewSent DEF Sight
<1>4. QED
  BY <1>2, <1>3 DEF Sight

LEMMA SightReceived ==
    ASSUME NetworkAssumption, NEW P, net \in Nets(P), Placed(net),
           NEW d \in Node, NEW slot \in Receivable(d),
           \A p \in Proc : PacketAt(slot) \notin Told(p),
           NEW st, NEW view, Sight(P, net, st, view)
    PROVE  Sight(P, dme_recv_msg(slot), st, view)
<1>1. NoneOf(dme_recv_msg(slot), Stray(P))
  BY ReceiveProperties DEF Sight
<1>2. \A p \in Proc : View(dme_recv_msg(slot), st[p], view[p], p)
  BY ViewReceived DEF Sight
<1>3. QED
  BY <1>1, <1>2 DEF Sight

LEMMA SightSendto ==
    ASSUME NetworkAssumption, NEW P, net \in Nets(P), \A pkt \in P : pkt.dst \in Node,
           Placed(net), NEW src \in Node, sendto(src),
           NEW st, NEW view, Sight(P, net, st, view)
    PROVE  Sight(P, net', st, view)
<1>1. NoneOf(net', Stray(P))
  BY SendtoProperties DEF Sight
<1>2. ASSUME NEW p \in Proc PROVE View(net', st[p], view[p], p)
  <2>1. View(net, st[p], view[p], p)
    BY DEF Sight
  <2>2. /\ Kept(net, net', WantTo(p)) /\ Kept(net, net', EnteredFrom(p))
        /\ Kept(net, net', ExitedFrom(p))
    BY SendtoKept
  <2>3. OneLink(EnteredFrom(p) \cup ExitedFrom(p)) /\ InOrder(net, EnteredFrom(p), ExitedFrom(p))
    BY <2>1, ToldFacts DEF View
  <2>4. InOrder(net', EnteredFrom(p), ExitedFrom(p))
    BY <2>3, SendtoInOrder
  <2>5. QED
    BY <2>1, <2>2, <2>4, ViewKept
<1>3. QED
  BY <1>1, <1>2 DEF Sight

LEMMA SightInit ==
    ASSUME NetInit, NEW P, NEW st, NEW view, \A p \in Proc : st[p] = view[p]
    PROVE  Sight(P, net, st, view)
<1>1. \A T : NoneOf(net, T) /\ AtMostOneOf(net, T)
  BY NothingThere, NoneIsAtMostOne
<1>2. \A T, U : InOrder(net, T, U)
  BY <1>1, NoneInOrder
<1>3. QED
  BY <1>1, <1>2 DEF Sight, View

(* What the supervisor's protocol lets a packet be. *)
LEMMA NotStray ==
    ASSUME NEW P, net \in Nets(P), NEW d \in Node, NEW slot \in Receivable(d),
           NEW st, NEW view, Sight(P, net, st, view), PacketAt(slot).msg \in SupMsg
    PROVE  PacketAt(slot) \in Proper
<1>1. PacketAt(slot) \in P /\ PacketAt(slot) \notin Stray(P)
  BY ReceiveProperties DEF Sight
<1>2. QED
  BY <1>1 DEF Stray

(***************************************************************************)
(* The steps of a peer: WANT is received while it is idle and only then,   *)
(* and it tells the supervisor when it enters and leaves.                  *)
(***************************************************************************)
LEMMA WantTaken ==
    ASSUME NetworkAssumption, NEW P, net \in Nets(P), Placed(net),
           NEW p \in Proc, NEW slot \in Receivable(p),
           NEW st, NEW view, Sight(P, net, st, view),
           PacketAt(slot).msg \in SupMsg, PacketAt(slot).msg.type = "WANT"
    PROVE  /\ PacketAt(slot) \in WantTo(p)
           /\ st[p] = "PS_IDLE"
<1>1. p \in Node /\ PacketAt(slot).dst = p
  BY PidFacts, ReceivePlaced
<1>2. PacketAt(slot) \in WantTo(p)
  BY <1>1, NotStray, ProperFacts
<1>3. ~NoneOf(net, WantTo(p))
  BY <1>1, <1>2, ReceivePlaced
<1>4. QED
  BY <1>2, <1>3 DEF Sight, View

LEMMA SightWanted ==
    ASSUME NetworkAssumption, NEW P, net \in Nets(P), Placed(net),
           NEW p \in Proc, NEW slot \in Receivable(p),
           NEW st \in [Proc -> State], NEW view, Sight(P, net, st, view),
           PacketAt(slot).msg \in SupMsg, PacketAt(slot).msg.type = "WANT"
    PROVE  Sight(P, dme_recv_msg(slot), [st EXCEPT ![p] = "PS_PENDING"], view)
<1> DEFINE m == dme_recv_msg(slot)
           su == [st EXCEPT ![p] = "PS_PENDING"]
<1>1. p \in Node /\ PacketAt(slot) \in WantTo(p) /\ st[p] = "PS_IDLE"
  BY PidFacts, WantTaken
<1>2. NoneOf(m, Stray(P))
  BY <1>1, ReceiveProperties DEF Sight
<1>3. View(m, "PS_PENDING", view[p], p)
  <2>1. View(net, st[p], view[p], p) /\ ~NoneOf(net, WantTo(p))
    BY <1>1, ReceivePlaced DEF Sight
  <2>2. NoneOf(m, WantTo(p))
    BY <1>1, <2>1, ReceiveProperties DEF View
  <2>3. NoneOf(m, EnteredFrom(p)) /\ NoneOf(m, ExitedFrom(p)) /\ view[p] = "PS_PENDING"
    BY <1>1, <2>1, ReceiveProperties DEF View
  <2> HIDE DEF m
  <2>4. QED
    BY <2>2, <2>3, NoneIsAtMostOne, NoneInOrder DEF View
<1>4. ASSUME NEW q \in Proc \ {p} PROVE View(m, st[q], view[q], q)
  <2>1. PacketAt(slot) \notin Told(q)
    <3>1. WantTo(p) \subseteq Told(p) /\ Told(p) \cap Told(q) = {}
      BY KindsApart DEF Told
    <3>2. QED
      BY <1>1, <3>1
  <2>2. QED
    BY <1>1, <2>1, ViewReceived DEF Sight
<1> HIDE DEF m
<1>5. su[p] = "PS_PENDING" /\ \A q \in Proc \ {p} : su[q] = st[q]
  OBVIOUS
<1> HIDE DEF su
<1>6. \A q \in Proc : View(m, su[q], view[q], q)
  BY <1>3, <1>4, <1>5
<1>7. QED
  BY <1>2, <1>6 DEF Sight, m, su

LEMMA SightNoted ==
    ASSUME NetworkAssumption, NEW P, net \in Nets(P), Placed(net),
           NEW p \in Proc, NEW slot \in Receivable(p), SupervisorMsgNoted(p, slot),
           NEW view, Sight(P, net, fsm_state, view)
    PROVE  Sight(P, net', fsm_state, view)
<1>1. /\ PacketAt(slot).msg \in SupMsg /\ ~IsWant(p, slot) /\ net' = dme_recv_msg(slot)
  BY DEF SupervisorMsgNoted, SupervisorMsgAt
<1>2. p \in Node /\ PacketAt(slot).dst = p /\ p # SUPERVISOR_PID
  BY PidFacts, ReceivePlaced
<1>3. PacketAt(slot).msg.type # "WANT"
  BY <1>1, WantTaken DEF IsWant
<1>4. ASSUME NEW q \in Proc PROVE PacketAt(slot) \notin Told(q)
  <2>1. PacketAt(slot) \notin WantTo(q)
    BY <1>3, ToldFacts
  <2>2. PacketAt(slot) \notin EnteredFrom(q) /\ PacketAt(slot) \notin ExitedFrom(q)
    BY <1>2, ToldFacts
  <2>3. QED
    BY <2>1, <2>2 DEF Told
<1>5. QED
  BY <1>1, <1>2, <1>4, SightReceived

LEMMA SightEntered ==
    ASSUME NetworkAssumption, NEW P, SupPackets \subseteq P, NEW n \in Nets(P), Placed(n),
           NEW p \in Proc, NEW st \in [Proc -> State], st[p] = "PS_PENDING",
           NEW view, Sight(P, n, st, view)
    PROVE  Sight(P, dme_send_msg(n, p, SUPERVISOR_PID, [type |-> "ENTERED"]),
                 [st EXCEPT ![p] = "PS_EXECUTING"], view)
<1> DEFINE m == dme_send_msg(n, p, SUPERVISOR_PID, [type |-> "ENTERED"])
           su == [st EXCEPT ![p] = "PS_EXECUTING"]
<1>1. m \in Nets(P) /\ Sent(n, m, EnteredFrom(p))
  BY SupervisorTold DEF EnteredFrom
<1>2. View(n, st[p], view[p], p) /\ NoneOf(n, Stray(P))
  BY DEF Sight
<1> HIDE DEF m
<1>3. NoneOf(m, Stray(P))
  <2>1. EnteredFrom(p) \cap Stray(P) = {}
    BY ToldFacts DEF Stray, Told
  <2>2. QED
    BY <1>1, <1>2, <2>1, SentProperties
<1>4. View(m, "PS_EXECUTING", view[p], p)
  <2>1. /\ NoneOf(n, WantTo(p)) /\ NoneOf(n, EnteredFrom(p)) /\ NoneOf(n, ExitedFrom(p))
        /\ view[p] = "PS_PENDING"
    BY <1>2 DEF View
  <2>2. EnteredFrom(p) \cap WantTo(p) = {} /\ EnteredFrom(p) \cap ExitedFrom(p) = {}
    BY KindsApart
  <2>3. NoneOf(m, WantTo(p)) /\ NoneOf(m, ExitedFrom(p))
    BY <1>1, <2>1, <2>2, SentProperties
  <2>4. \A x, y \in EnteredFrom(p) \cap EnteredFrom(p) : x = y
    BY DEF EnteredFrom
  <2>5. AtMostOneOf(m, EnteredFrom(p)) /\ ~NoneOf(m, EnteredFrom(p))
    <3>1. EnteredFrom(p) \cap EnteredFrom(p) # {}
      BY DEF EnteredFrom
    <3>2. QED
      BY <1>1, <2>1, <2>4, <3>1, SentProperties
  <2>6. QED
    BY <2>1, <2>3, <2>5, NoneIsAtMostOne, NoneInOrder DEF View
<1>5. ASSUME NEW q \in Proc \ {p} PROVE View(m, st[q], view[q], q)
  <2>1. EnteredFrom(p) \cap Told(q) = {}
    BY KindsApart DEF Told
  <2>2. QED
    BY <1>1, <2>1, ViewSent DEF Sight
<1>6. su[p] = "PS_EXECUTING" /\ \A q \in Proc \ {p} : su[q] = st[q]
  OBVIOUS
<1> HIDE DEF su
<1>7. \A q \in Proc : View(m, su[q], view[q], q)
  BY <1>4, <1>5, <1>6
<1>8. QED
  BY <1>3, <1>7 DEF Sight, m, su

LEMMA SightExited ==
    ASSUME NetworkAssumption, NEW P, SupPackets \subseteq P, NEW n \in Nets(P), Placed(n),
           NEW p \in Proc, NEW st \in [Proc -> State], st[p] = "PS_EXECUTING",
           NEW view, Sight(P, n, st, view)
    PROVE  Sight(P, dme_send_msg(n, p, SUPERVISOR_PID, [type |-> "EXITED"]),
                 [st EXCEPT ![p] = "PS_IDLE"], view)
<1> DEFINE m == dme_send_msg(n, p, SUPERVISOR_PID, [type |-> "EXITED"])
           su == [st EXCEPT ![p] = "PS_IDLE"]
<1>1. m \in Nets(P) /\ Sent(n, m, ExitedFrom(p))
  BY SupervisorTold DEF ExitedFrom
<1>2. View(n, st[p], view[p], p) /\ NoneOf(n, Stray(P))
  BY DEF Sight
<1> HIDE DEF m
<1>3. NoneOf(m, Stray(P))
  <2>1. ExitedFrom(p) \cap Stray(P) = {}
    BY ToldFacts DEF Stray, Told
  <2>2. QED
    BY <1>1, <1>2, <2>1, SentProperties
<1>4. View(m, "PS_IDLE", view[p], p)
  <2>1. NoneOf(n, WantTo(p)) /\ NoneOf(n, ExitedFrom(p)) /\ AtMostOneOf(n, EnteredFrom(p))
    BY <1>2 DEF View
  <2>2. ExitedFrom(p) \cap WantTo(p) = {} /\ ExitedFrom(p) \cap EnteredFrom(p) = {}
    BY KindsApart
  <2>3. NoneOf(m, WantTo(p)) /\ Kept(n, m, EnteredFrom(p)) /\ AtMostOneOf(m, EnteredFrom(p))
    BY <1>1, <2>1, <2>2, SentProperties DEF Kept
  <2>4. AtMostOneOf(m, ExitedFrom(p)) /\ ~NoneOf(m, ExitedFrom(p))
    <3>1. ExitedFrom(p) \cap ExitedFrom(p) # {} /\ \A x, y \in ExitedFrom(p) \cap ExitedFrom(p) : x = y
      BY DEF ExitedFrom
    <3>2. QED
      BY <1>1, <2>1, <3>1, SentProperties
  <2>5. InOrder(m, EnteredFrom(p), ExitedFrom(p))
    <3>1. OneLink(EnteredFrom(p) \cup ExitedFrom(p)) /\ InOrder(n, EnteredFrom(p), ExitedFrom(p))
      BY <1>2, ToldFacts DEF View
    <3>2. QED
      BY <1>1, <2>2, <3>1, SentInOrder
  <2>6. view[p] = IF NoneOf(m, EnteredFrom(p)) THEN "PS_EXECUTING" ELSE "PS_PENDING"
    BY <1>2, <2>1, <2>3 DEF View, Kept
  <2>7. QED
    BY <2>3, <2>4, <2>5, <2>6, NoneIsAtMostOne DEF View
<1>5. ASSUME NEW q \in Proc \ {p} PROVE View(m, st[q], view[q], q)
  <2>1. ExitedFrom(p) \cap Told(q) = {}
    BY KindsApart DEF Told
  <2>2. QED
    BY <1>1, <2>1, ViewSent DEF Sight
<1>6. su[p] = "PS_IDLE" /\ \A q \in Proc \ {p} : su[q] = st[q]
  OBVIOUS
<1> HIDE DEF su
<1>7. \A q \in Proc : View(m, su[q], view[q], q)
  BY <1>4, <1>5, <1>6
<1>8. QED
  BY <1>3, <1>7 DEF Sight, m, su

-----------------------------------------------------------------------------
(***************************************************************************)
(* The steps of the supervisor.                                            *)
(***************************************************************************)
SupTypes == {"SYNCRO", "WANT", "ENTERED", "EXITED"}

(* The types of the algorithm's messages are others than the supervisor's. *)
TypesApart(P) == \A pkt \in P : pkt.msg.type \in SupTypes => pkt.msg \in SupMsg

LEMMA SightSyncro ==
    ASSUME NetworkAssumption, SupervisorAssumption, NEW P, SupPackets \subseteq P,
           net \in Nets(P), Placed(net), syncro, NEW st, Sight(P, net, st, nodes)
    PROVE  Sight(P, net', st, nodes')
<1> DEFINE New == FromSupervisor("SYNCRO")
<1>1. net' \in Nets(P) /\ Sent(net, net', New) /\ UNCHANGED nodes
  BY SyncroSent DEF syncro
<1>2. \A p \in Proc : New \cap Told(p) = {}
  <2>1. \A pkt \in New : pkt \in Proper /\ pkt.msg.type = "SYNCRO"
    BY DEF FromSupervisor, Packet, Proper
  <2>2. SUFFICES ASSUME NEW p \in Proc, NEW pkt \in New PROVE pkt \notin Told(p)
    OBVIOUS
  <2>3. \A other \in Told(p) : other.msg.type # "SYNCRO"
    BY ToldFacts DEF Told
  <2>4. QED
    BY <2>1, <2>3
<1>3. New \cap Stray(P) = {}
  BY DEF Proper, Stray
<1> HIDE DEF New
<1>4. NoneOf(net', Stray(P))
  BY <1>1, <1>3, SentProperties DEF Sight
<1>5. \A p \in Proc : View(net', st[p], nodes[p], p)
  BY <1>1, <1>2, ViewSent DEF Sight
<1>6. QED
  BY <1>1, <1>4, <1>5 DEF Sight

(* Nothing of a peer the supervisor sees idle is on its way. *)
LEMMA IdleView ==
    ASSUME NEW n, NEW s, NEW p, View(n, s, "PS_IDLE", p)
    PROVE  /\ NoneOf(n, WantTo(p)) /\ NoneOf(n, EnteredFrom(p)) /\ NoneOf(n, ExitedFrom(p))
           /\ s = "PS_IDLE"
BY DEF View

LEMMA SightElected ==
    ASSUME NetworkAssumption, SupervisorAssumption, NEW P, SupPackets \subseteq P,
           net \in Nets(P), Placed(net), NEW pid_arr \in Elections,
           net' = SendToEach(net, SUPERVISOR_PID, pid_arr, [type |-> "WANT"]),
           nodes' = [p \in Proc |-> IF p \in ToSet(pid_arr) THEN "PS_PENDING" ELSE nodes[p]],
           critical_region_is_idlle, NEW st, Sight(P, net, st, nodes)
    PROVE  Sight(P, net', st, nodes')
<1> DEFINE S == ToSet(pid_arr)
           New == {Packet(SUPERVISOR_PID, d, [type |-> "WANT"]) : d \in S}
<1>1. S \subseteq Proc
  BY ElectedOnce
<1>2. net' \in Nets(P) /\ Sent(net, net', New)
  BY WantsSent
<1>3. \A pkt \in New : pkt.msg.type = "WANT" /\ pkt.dst \in S /\ pkt \in WantTo(pkt.dst)
  BY DEF Packet, WantTo
<1>4. New \subseteq Proper
  BY <1>1 DEF Proper, FromSupervisor
<1>5. \A d \in S : Packet(SUPERVISOR_PID, d, [type |-> "WANT"]) \in New
  OBVIOUS
<1>6. \A p \in Proc : nodes'[p] = IF p \in S THEN "PS_PENDING" ELSE nodes[p]
  OBVIOUS
<1> HIDE DEF New, S
<1>7. NoneOf(net', Stray(P))
  <2>1. New \cap Stray(P) = {}
    BY <1>4 DEF Stray
  <2>2. QED
    BY <1>2, <2>1, SentProperties DEF Sight
<1>8. SUFFICES ASSUME NEW p \in Proc PROVE View(net', st[p], nodes'[p], p)
  BY <1>7 DEF Sight
<1>9. View(net, st[p], "PS_IDLE", p) /\ nodes[p] = "PS_IDLE"
  BY DEF Sight, critical_region_is_idlle
<1>10. New \cap EnteredFrom(p) = {} /\ New \cap ExitedFrom(p) = {}
  <2>1. \A pkt \in EnteredFrom(p) \cup ExitedFrom(p) : pkt.msg.type # "WANT"
    BY ToldFacts
  <2>2. QED
    BY <1>3, <2>1
<1>11. /\ NoneOf(net, WantTo(p)) /\ NoneOf(net, EnteredFrom(p)) /\ NoneOf(net, ExitedFrom(p))
       /\ st[p] = "PS_IDLE"
  BY <1>9, IdleView
<1>12. NoneOf(net', EnteredFrom(p)) /\ NoneOf(net', ExitedFrom(p))
  BY <1>2, <1>10, <1>11, SentProperties
<1>13. CASE p \in S
  <2>1. \A x, y \in New \cap WantTo(p) : x = y
    BY DEF WantTo
  <2>2. New \cap WantTo(p) # {}
    BY <1>5, <1>13 DEF WantTo
  <2>3. AtMostOneOf(net', WantTo(p)) /\ ~NoneOf(net', WantTo(p))
    BY <1>2, <1>11, <2>1, <2>2, SentProperties
  <2>4. nodes'[p] = "PS_PENDING"
    BY <1>6, <1>13
  <2>5. QED
    BY <1>11, <1>12, <2>3, <2>4, NoneIsAtMostOne, NoneInOrder DEF View
<1>14. CASE p \notin S
  <2>1. New \cap WantTo(p) = {}
    <3>1. \A pkt \in WantTo(p) : pkt.dst = p
      BY ToldFacts
    <3>2. QED
      BY <1>3, <1>14, <3>1
  <2>2. NoneOf(net', WantTo(p))
    BY <1>2, <1>11, <2>1, SentProperties
  <2>3. nodes'[p] = "PS_IDLE"
    BY <1>6, <1>9, <1>14
  <2>4. QED
    BY <1>11, <1>12, <2>2, <2>3, NoneIsAtMostOne, NoneInOrder DEF View
<1>15. QED
  BY <1>13, <1>14

(***************************************************************************)
(* ENTERED finds its sender pending in the view, EXITED finds it executing *)
(* (they arrive in the order they were sent), and that is what it changes. *)
(***************************************************************************)
LEMMA EnteredSeen ==
    ASSUME NetworkAssumption, NEW P, net \in Nets(P), Placed(net), TypesApart(P),
           NEW slot \in Receivable(SUPERVISOR_PID), PacketAt(slot).msg.type = "ENTERED",
           NEW st, NEW view \in [Proc -> State], Sight(P, net, st, view)
    PROVE  LET p == PacketAt(slot).src IN
           /\ p \in Proc /\ view[p] = "PS_PENDING"
           /\ Sight(P, dme_recv_msg(slot), st, [view EXCEPT ![p] = "PS_EXECUTING"])
<1> DEFINE p == PacketAt(slot).src
           m == dme_recv_msg(slot)
           seen == [view EXCEPT ![p] = "PS_EXECUTING"]
<1>1. SUPERVISOR_PID \in Node /\ PacketAt(slot) \in P
  BY PidFacts, ReceiveProperties
<1>2. PacketAt(slot).msg \in SupMsg
  BY <1>1 DEF TypesApart, SupTypes
<1>3. p \in Proc /\ PacketAt(slot) \in EnteredFrom(p)
  BY <1>1, <1>2, NotStray, ProperFacts
<1>4. View(net, st[p], view[p], p) /\ ~NoneOf(net, EnteredFrom(p))
  BY <1>1, <1>3, ReceivePlaced DEF Sight
<1>5. NoneOf(m, Stray(P))
  BY <1>1, ReceiveProperties DEF Sight
<1>6. PacketAt(slot) \notin WantTo(p) /\ PacketAt(slot) \notin ExitedFrom(p)
  BY <1>3, KindsApart
<1>7. NoneOf(m, EnteredFrom(p)) /\ Kept(net, m, WantTo(p)) /\ Kept(net, m, ExitedFrom(p))
  <2>1. NoneOf(m, EnteredFrom(p))
    BY <1>1, <1>3, <1>4, ReceiveProperties DEF View
  <2>2. Kept(net, m, WantTo(p)) /\ Kept(net, m, ExitedFrom(p))
    BY <1>1, <1>6, ReceiveKept
  <2>3. QED
    BY <2>1, <2>2
<1>8. ASSUME NEW q \in Proc \ {p} PROVE View(m, st[q], view[q], q)
  <2>1. PacketAt(slot) \notin Told(q)
    <3>1. PacketAt(slot) \in Told(p) /\ Told(p) \cap Told(q) = {}
      BY <1>3, KindsApart DEF Told
    <3>2. QED
      BY <3>1
  <2>2. QED
    BY <1>1, <2>1, ViewReceived DEF Sight
<1> HIDE DEF m, p
<1>9. view[p] = "PS_PENDING" /\ View(m, st[p], "PS_EXECUTING", p)
  <2>1. view[p] = "PS_PENDING" /\ NoneOf(net, WantTo(p))
    BY <1>4 DEF View
  <2>2. QED
    BY <1>4, <1>7, <2>1, NoneIsAtMostOne, NoneInOrder DEF View, Kept
<1>10. seen[p] = "PS_EXECUTING" /\ \A q \in Proc \ {p} : seen[q] = view[q]
  BY <1>3
<1> HIDE DEF seen
<1>11. \A q \in Proc : View(m, st[q], seen[q], q)
  BY <1>8, <1>9, <1>10
<1>12. QED
  BY <1>3, <1>5, <1>9, <1>11 DEF Sight, m, p, seen

LEMMA ExitedSeen ==
    ASSUME NetworkAssumption, NEW P, net \in Nets(P), Placed(net), TypesApart(P), Net # "udp",
           NEW slot \in Receivable(SUPERVISOR_PID), PacketAt(slot).msg.type = "EXITED",
           NEW st, NEW view \in [Proc -> State], Sight(P, net, st, view)
    PROVE  LET p == PacketAt(slot).src IN
           /\ p \in Proc /\ view[p] = "PS_EXECUTING"
           /\ Sight(P, dme_recv_msg(slot), st, [view EXCEPT ![p] = "PS_IDLE"])
<1> DEFINE p == PacketAt(slot).src
           m == dme_recv_msg(slot)
           seen == [view EXCEPT ![p] = "PS_IDLE"]
<1>1. SUPERVISOR_PID \in Node /\ PacketAt(slot) \in P
  BY PidFacts, ReceiveProperties
<1>2. PacketAt(slot).msg \in SupMsg
  BY <1>1 DEF TypesApart, SupTypes
<1>3. p \in Proc /\ PacketAt(slot) \in ExitedFrom(p)
  BY <1>1, <1>2, NotStray, ProperFacts
<1>4. View(net, st[p], view[p], p) /\ ~NoneOf(net, ExitedFrom(p))
  BY <1>1, <1>3, ReceivePlaced DEF Sight
<1>5. NoneOf(m, Stray(P))
  BY <1>1, ReceiveProperties DEF Sight
<1>6. NoneOf(net, EnteredFrom(p))
  BY <1>1, <1>3, <1>4, ReceiveInOrder DEF View
<1>7. NoneOf(m, ExitedFrom(p)) /\ NoneOf(m, EnteredFrom(p)) /\ NoneOf(m, WantTo(p))
  <2>1. NoneOf(net, WantTo(p))
    BY <1>4 DEF View
  <2>2. NoneOf(m, EnteredFrom(p)) /\ NoneOf(m, WantTo(p))
    BY <1>1, <1>6, <2>1, ReceiveProperties
  <2>3. NoneOf(m, ExitedFrom(p))
    BY <1>1, <1>3, <1>4, ReceiveProperties DEF View
  <2>4. QED
    BY <2>2, <2>3
<1>8. ASSUME NEW q \in Proc \ {p} PROVE View(m, st[q], view[q], q)
  <2>1. PacketAt(slot) \notin Told(q)
    <3>1. PacketAt(slot) \in Told(p) /\ Told(p) \cap Told(q) = {}
      BY <1>3, KindsApart DEF Told
    <3>2. QED
      BY <3>1
  <2>2. QED
    BY <1>1, <2>1, ViewReceived DEF Sight
<1> HIDE DEF m, p
<1>9. view[p] = "PS_EXECUTING" /\ View(m, st[p], "PS_IDLE", p)
  <2>1. view[p] = "PS_EXECUTING" /\ st[p] = "PS_IDLE"
    BY <1>4, <1>6 DEF View
  <2>2. QED
    BY <1>7, <2>1, NoneIsAtMostOne, NoneInOrder DEF View
<1>10. seen[p] = "PS_IDLE" /\ \A q \in Proc \ {p} : seen[q] = view[q]
  BY <1>3
<1> HIDE DEF seen
<1>11. \A q \in Proc : View(m, st[q], seen[q], q)
  BY <1>8, <1>9, <1>10
<1>12. QED
  BY <1>3, <1>5, <1>9, <1>11 DEF Sight, m, p, seen

(* A message of an algorithm that the supervisor receives changes no view. *)
LEMMA SightOthers ==
    ASSUME NetworkAssumption, NEW P, net \in Nets(P), Placed(net),
           NEW d \in Node, NEW slot \in Receivable(d), PacketAt(slot).msg \notin SupMsg,
           NEW st, NEW view, Sight(P, net, st, view)
    PROVE  Sight(P, dme_recv_msg(slot), st, view)
BY ToldFacts, SightReceived

LEMMA SightSupervisor ==
    ASSUME NetworkAssumption, SupervisorAssumption, NEW P, SupPackets \subseteq P, TypesApart(P),
           Net # "udp", net \in Nets(P), Placed(net), SupTypeOK, SupNext,
           NEW st, Sight(P, net, st, nodes)
    PROVE  Sight(P, net', st, nodes')
<1>1. nodes \in [Proc -> State] /\ SUPERVISOR_PID \in Node
  BY PidFacts DEF SupTypeOK
<1>2. CASE syncro
  BY <1>2, SightSyncro
<1>3. CASE do_work
  BY <1>3, SightElected DEF do_work
<1>4. CASE SupReceive
  <2>1. PICK slot \in Receivable(SUPERVISOR_PID) :
           /\ process_messages(slot) \/ null_func(slot)
           /\ net' = dme_recv_msg(slot)
    BY <1>4 DEF SupReceive
  <2>2. CASE PacketAt(slot).msg.type = "ENTERED" /\ nodes' = [nodes EXCEPT ![PacketAt(slot).src] = "PS_EXECUTING"]
    BY <1>1, <2>1, <2>2, EnteredSeen
  <2>3. CASE PacketAt(slot).msg.type = "EXITED" /\ nodes' = [nodes EXCEPT ![PacketAt(slot).src] = "PS_IDLE"]
    BY <1>1, <2>1, <2>3, ExitedSeen
  <2>4. CASE PacketAt(slot).msg \notin SupMsg /\ UNCHANGED nodes
    BY <1>1, <2>1, <2>4, SightOthers
  <2>5. QED
    BY <2>1, <2>2, <2>3, <2>4 DEF process_messages, null_func
<1>5. QED
  BY <1>2, <1>3, <1>4 DEF SupNext

-----------------------------------------------------------------------------
(***************************************************************************)
(* A test gets one response from every elected process: those the          *)
(* supervisor still sees pending are to respond yet.                       *)
(***************************************************************************)
Awaited == {p \in Proc : nodes[p] = "PS_PENDING"}

Counted == received_resps_count + Cardinality(Awaited) = elected_proc_count

LEMMA ElectedCount ==
    ASSUME NetworkAssumption, SupervisorAssumption, NEW pid_arr \in Elections
    PROVE  Cardinality(ToSet(pid_arr)) = Len(pid_arr)
<1>1. PICK count \in concurrent_counts : pid_arr \in Injection(1 .. count, Proc)
  BY DEF Elections
<1>2. count \in Nat
  BY DEF concurrent_counts, SupervisorAssumption, NetworkAssumption
<1>3. pid_arr \in [1 .. count -> Proc] /\ \A i, j \in 1 .. count : pid_arr[i] = pid_arr[j] => i = j
  BY <1>1 DEF Injection, IsInjective
<1>4. DOMAIN pid_arr = 1 .. count /\ Len(pid_arr) = count
  BY <1>2, <1>3, SeqDef, LenProperties
<1>5. pid_arr \in Bijection(1 .. count, ToSet(pid_arr))
  <2>1. pid_arr \in [1 .. count -> ToSet(pid_arr)]
    BY <1>3, <1>4 DEF ToSet
  <2>2. \A y \in ToSet(pid_arr) : \E i \in 1 .. count : pid_arr[i] = y
    BY <1>4 DEF ToSet
  <2>3. QED
    BY <1>3, <1>4, <2>1, <2>2 DEF Bijection, Injection, Surjection, IsInjective
<1>6. ExistsBijection(1 .. count, ToSet(pid_arr))
  BY <1>5 DEF ExistsBijection
<1>7. QED
  BY <1>2, <1>4, <1>6, FS_CountingElements

LEMMA AwaitedFinite ==
    ASSUME NetworkAssumption
    PROVE  IsFiniteSet(Awaited) /\ Cardinality(Awaited) \in Nat
BY ProcFinite DEF Awaited

LEMMA CountedInit == ASSUME NetworkAssumption, SupInit PROVE Counted
<1>1. Awaited = {}
  BY DEF SupInit, Awaited
<1>2. QED
  BY <1>1, FS_EmptySet DEF SupInit, Counted

LEMMA CountedSupervisor ==
    ASSUME NetworkAssumption, SupervisorAssumption, NEW P, SupPackets \subseteq P, TypesApart(P),
           Net # "udp", net \in Nets(P), Placed(net), SupTypeOK, SupNext,
           NEW st, Sight(P, net, st, nodes), Counted
    PROVE  Counted'
<1>1. /\ nodes \in [Proc -> State] /\ received_resps_count \in Nat /\ elected_proc_count \in Nat
      /\ IsFiniteSet(Awaited) /\ Cardinality(Awaited) \in Nat
  BY AwaitedFinite DEF SupTypeOK
<1>2. CASE syncro
  BY <1>2 DEF syncro, Counted, Awaited
<1>3. CASE do_work
  <2>1. PICK pid_arr \in Elections :
           /\ elected_proc_count' = Len(pid_arr)
           /\ nodes' = [p \in Proc |-> IF p \in ToSet(pid_arr) THEN "PS_PENDING" ELSE nodes[p]]
    BY <1>3 DEF do_work
  <2>2. received_resps_count' = 0 /\ \A p \in Proc : nodes[p] = "PS_IDLE"
    BY <1>3 DEF do_work, critical_region_is_idlle
  <2>3. Awaited' = ToSet(pid_arr)
    BY <2>1, <2>2, ElectedOnce DEF Awaited
  <2>4. Cardinality(ToSet(pid_arr)) = Len(pid_arr) /\ Len(pid_arr) \in Nat
    BY ElectedCount, ElectionFacts
  <2>5. QED
    BY <2>1, <2>2, <2>3, <2>4 DEF Counted
<1>4. CASE SupReceive
  <2>1. PICK slot \in Receivable(SUPERVISOR_PID) : process_messages(slot) \/ null_func(slot)
    BY <1>4 DEF SupReceive
  <2>2. UNCHANGED elected_proc_count
    BY <1>4 DEF SupReceive
  <2> DEFINE p == PacketAt(slot).src
  <2>3. CASE /\ PacketAt(slot).msg.type = "ENTERED"
             /\ nodes' = [nodes EXCEPT ![p] = "PS_EXECUTING"]
             /\ received_resps_count' = received_resps_count + 1
    <3>1. p \in Proc /\ nodes[p] = "PS_PENDING"
      BY <1>1, <2>3, EnteredSeen
    <3> HIDE DEF p
    <3>2. Awaited' = Awaited \ {p} /\ p \in Awaited
      BY <1>1, <2>3, <3>1 DEF Awaited
    <3>3. Cardinality(Awaited') = Cardinality(Awaited) - 1
      BY <1>1, <3>2, FS_RemoveElement
    <3>4. QED
      BY <1>1, <2>2, <2>3, <3>3 DEF Counted
  <2>4. CASE /\ PacketAt(slot).msg.type = "EXITED"
             /\ nodes' = [nodes EXCEPT ![p] = "PS_IDLE"]
             /\ UNCHANGED received_resps_count
    <3>1. p \in Proc /\ nodes[p] = "PS_EXECUTING"
      BY <1>1, <2>4, ExitedSeen
    <3> HIDE DEF p
    <3>2. Awaited' = Awaited
      BY <1>1, <2>4, <3>1 DEF Awaited
    <3>3. QED
      BY <2>2, <2>4, <3>2 DEF Counted
  <2>5. CASE UNCHANGED <<nodes, received_resps_count>>
    BY <2>2, <2>5 DEF Counted, Awaited
  <2>6. QED
    BY <2>1, <2>3, <2>4, <2>5 DEF process_messages, null_func
<1>5. QED
  BY <1>2, <1>3, <1>4 DEF SupNext

LEMMA CountedFit ==
    ASSUME NetworkAssumption, SupTypeOK, Counted
    PROVE  ResponsesFit
BY AwaitedFinite DEF SupTypeOK, Counted, ResponsesFit

(* With nothing on its way the supervisor sees every peer as it is. *)
LEMMA NothingUnseen ==
    ASSUME NetworkAssumption, SupTypeOK, NEW P, net \in Nets(P), NetEmpty,
           Sight(P, net, fsm_state, nodes), Counted,
           \A p \in Proc : fsm_state[p] = "PS_IDLE"
    PROVE  critical_region_is_idlle /\ received_resps_count = elected_proc_count
<1>1. \A T : NoneOf(net, T)
  <2>1. \A l \in Lane : net[l] = <<>>
    BY DEF NetEmpty, Nets
  <2>2. QED
    BY <2>1 DEF NoneOf
<1>2. \A p \in Proc : nodes[p] = "PS_IDLE"
  BY <1>1 DEF Sight, View
<1>3. Awaited = {}
  BY <1>2 DEF Awaited
<1>4. QED
  BY <1>2, <1>3, FS_EmptySet DEF critical_region_is_idlle, Counted, SupTypeOK

(* What is on its way is on some lane, and of some kind. *)
LEMMA OnItsWay ==
    ASSUME NEW P, net \in Nets(P), NEW pkt \in Packets
    PROVE  /\ pkt \in P
           /\ \A T : NoneOf(net, T) => pkt \notin T
<1>1. DOMAIN net = Lane
  BY DEF Nets
<1>2. PICK l \in Lane : pkt \in ToSet(net[l])
  BY <1>1 DEF Packets
<1>3. net[l] \in Seq(P)
  BY DEF Nets
<1>4. PICK i \in 1 .. Len(net[l]) : pkt = net[l][i]
  BY <1>2, <1>3 DEF ToSet
<1>5. QED
  BY <1>3, <1>4 DEF NoneOf

LEMMA SeenWantsFindIdle ==
    ASSUME NetworkAssumption, NEW P, TypesApart(P), net \in Nets(P), Sight(P, net, fsm_state, nodes)
    PROVE  WantFindsIdle
<1>1. SUFFICES ASSUME NEW pkt \in Packets, pkt.msg.type = "WANT"
               PROVE  fsm_state[pkt.dst] = "PS_IDLE"
  BY DEF WantFindsIdle
<1>2. pkt \in P /\ pkt \notin Stray(P)
  BY OnItsWay DEF Sight
<1>3. pkt \in Proper
  BY <1>1, <1>2 DEF Stray, TypesApart, SupTypes
<1>4. pkt.dst \in Proc /\ pkt \in WantTo(pkt.dst)
  BY <1>1, <1>3, ProperFacts
<1>5. ~NoneOf(net, WantTo(pkt.dst))
  BY <1>4, OnItsWay
<1>6. QED
  BY <1>4, <1>5 DEF Sight, View

-----------------------------------------------------------------------------
(***************************************************************************)
(* The start of the experiment: K are the peers who know its epoch, done   *)
(* says whether it has been announced.  Who does not know it has not been  *)
(* told to compete, or reads the announcement before.                      *)
(***************************************************************************)
Heard(n, s, k, done, p) ==
    /\ ~k => /\ s = "PS_IDLE"
             /\ InOrder(n, SyncroTo(p), WantTo(p))
             /\ done => ~NoneOf(n, SyncroTo(p))
    /\ ~done => NoneOf(n, WantTo(p))

AllHeard(n, st, K, done) == \A p \in Proc : Heard(n, st[p], p \in K, done, p)

LEMMA NothingHeard ==
    ASSUME NetInit, NEW st, NEW K, \A p \in Proc : st[p] = "PS_IDLE"
    PROVE  AllHeard(net, st, K, FALSE)
BY NothingThere, NoneInOrder DEF AllHeard, Heard

LEMMA HeardKept ==
    ASSUME NEW n, NEW m, NEW s, NEW k, NEW done, NEW p, Heard(n, s, k, done, p),
           Kept(n, m, SyncroTo(p)), Kept(n, m, WantTo(p)),
           InOrder(n, SyncroTo(p), WantTo(p)) => InOrder(m, SyncroTo(p), WantTo(p))
    PROVE  Heard(m, s, k, done, p)
BY DEF Heard, Kept

LEMMA HeardSent ==
    ASSUME NetworkAssumption, NEW P, NEW n \in Nets(P), NEW m \in Nets(P), Placed(n),
           NEW New, Sent(n, m, New),
           \A pkt \in New, p \in Proc : pkt \notin SyncroTo(p) /\ pkt \notin WantTo(p),
           NEW st, NEW K, NEW done, AllHeard(n, st, K, done)
    PROVE  AllHeard(m, st, K, done)
<1>1. SUFFICES ASSUME NEW p \in Proc PROVE Heard(m, st[p], p \in K, done, p)
  BY DEF AllHeard
<1>2. New \cap SyncroTo(p) = {} /\ New \cap WantTo(p) = {}
  OBVIOUS
<1>3. Kept(n, m, SyncroTo(p)) /\ Kept(n, m, WantTo(p))
  BY <1>2, SentKept
<1>4. InOrder(n, SyncroTo(p), WantTo(p)) => InOrder(m, SyncroTo(p), WantTo(p))
  <2>1. OneLink(SyncroTo(p) \cup WantTo(p))
    BY ToldFacts
  <2>2. QED
    BY <1>2, <2>1, SentInOrder
<1>5. Heard(n, st[p], p \in K, done, p)
  BY DEF AllHeard
<1>6. QED
  BY <1>3, <1>4, <1>5, HeardKept

LEMMA HeardReceived ==
    ASSUME NEW P, net \in Nets(P), Placed(net), NEW d \in Node, NEW slot \in Receivable(d),
           NEW s, NEW k, NEW done, NEW p, Heard(net, s, k, done, p),
           PacketAt(slot) \notin SyncroTo(p), PacketAt(slot) \notin WantTo(p)
    PROVE  Heard(dme_recv_msg(slot), s, k, done, p)
<1> DEFINE m == dme_recv_msg(slot)
<1>1. Kept(net, m, SyncroTo(p)) /\ Kept(net, m, WantTo(p))
  BY ReceiveKept
<1>2. InOrder(net, SyncroTo(p), WantTo(p)) => InOrder(m, SyncroTo(p), WantTo(p))
  BY ReceiveInOrder
<1> HIDE DEF m
<1>3. Heard(m, s, k, done, p)
  BY <1>1, <1>2, HeardKept
<1>4. QED
  BY <1>3 DEF m

LEMMA HeardOthers ==
    ASSUME NetworkAssumption, NEW P, net \in Nets(P), Placed(net),
           NEW d \in Node, NEW slot \in Receivable(d),
           PacketAt(slot).msg \notin SupMsg \/ PacketAt(slot).dst \notin Proc,
           NEW st, NEW K, NEW done, AllHeard(net, st, K, done)
    PROVE  AllHeard(dme_recv_msg(slot), st, K, done)
<1>1. ASSUME NEW p \in Proc
      PROVE  PacketAt(slot) \notin SyncroTo(p) /\ PacketAt(slot) \notin WantTo(p)
  <2>1. \A pkt \in SyncroTo(p) \cup WantTo(p) : pkt.dst = p
    BY ToldFacts
  <2>2. \A pkt \in SyncroTo(p) \cup WantTo(p) : pkt.msg \in SupMsg
    BY DEF SyncroTo, WantTo, Packet, SupMsg
  <2>3. QED
    BY <2>1, <2>2
<1>2. QED
  BY <1>1, HeardReceived DEF AllHeard

LEMMA HeardSendto ==
    ASSUME NetworkAssumption, NEW P, net \in Nets(P), \A pkt \in P : pkt.dst \in Node,
           Placed(net), NEW src \in Node, sendto(src),
           NEW st, NEW K, NEW done, AllHeard(net, st, K, done)
    PROVE  AllHeard(net', st, K, done)
<1>1. SUFFICES ASSUME NEW p \in Proc PROVE Heard(net', st[p], p \in K, done, p)
  BY DEF AllHeard
<1>2. Kept(net, net', SyncroTo(p)) /\ Kept(net, net', WantTo(p))
  BY SendtoKept
<1>3. InOrder(net, SyncroTo(p), WantTo(p)) => InOrder(net', SyncroTo(p), WantTo(p))
  <2>1. OneLink(SyncroTo(p) \cup WantTo(p))
    BY ToldFacts
  <2>2. QED
    BY <2>1, SendtoInOrder
<1>4. QED
  BY <1>2, <1>3, HeardKept DEF AllHeard

(* p reads a packet of the supervisor's protocol: nobody else is concerned. *)
LEMMA HeardByOne ==
    ASSUME NetworkAssumption, NEW P, net \in Nets(P), Placed(net),
           NEW p \in Proc, NEW slot \in Receivable(p),
           NEW st, NEW K, NEW done, AllHeard(net, st, K, done)
    PROVE  \A q \in Proc \ {p} : Heard(dme_recv_msg(slot), st[q], q \in K, done, q)
<1>1. p \in Node /\ PacketAt(slot).dst = p
  BY PidFacts, ReceivePlaced
<1>2. SUFFICES ASSUME NEW q \in Proc \ {p}
               PROVE  Heard(dme_recv_msg(slot), st[q], q \in K, done, q)
  OBVIOUS
<1>3. \A pkt \in SyncroTo(q) \cup WantTo(q) : pkt.dst = q
  BY ToldFacts
<1>4. QED
  BY <1>1, <1>3, HeardReceived DEF AllHeard

LEMMA HeardNoted ==
    ASSUME NetworkAssumption, NEW P, net \in Nets(P), Placed(net),
           NEW p \in Proc, NEW slot \in Receivable(p), SupervisorMsgNoted(p, slot),
           NEW view, Sight(P, net, fsm_state, view),
           NEW K, NEW L, NEW done, AllHeard(net, fsm_state, K, done),
           \A q \in Proc : q \in L <=> q \in K \/ (q = p /\ IsSyncro(p, slot))
    PROVE  AllHeard(net', fsm_state, L, done)
<1> DEFINE m == dme_recv_msg(slot)
<1>1. PacketAt(slot).msg \in SupMsg /\ ~IsWant(p, slot) /\ net' = m
  BY DEF SupervisorMsgNoted, SupervisorMsgAt
<1>2. p \in Node /\ PacketAt(slot).dst = p
  BY PidFacts, ReceivePlaced
<1>3. PacketAt(slot) \notin WantTo(p)
  <2>1. PacketAt(slot).msg.type # "WANT"
    BY <1>1, WantTaken DEF IsWant
  <2>2. QED
    BY <2>1, ToldFacts
<1>4. \A q \in Proc \ {p} : Heard(m, fsm_state[q], q \in K, done, q)
  BY HeardByOne
<1>5. Heard(net, fsm_state[p], p \in K, done, p)
  BY DEF AllHeard
<1>6. ~done => NoneOf(m, WantTo(p))
  BY <1>2, <1>5, ReceiveProperties DEF Heard
<1>7. Heard(m, fsm_state[p], p \in L, done, p)
  <2>1. CASE p \in L
    BY <1>6, <2>1 DEF Heard
  <2>2. CASE p \notin L
    <3>1. PacketAt(slot) \notin SyncroTo(p)
      <4>1. SUFFICES ASSUME PacketAt(slot) \in SyncroTo(p) PROVE FALSE
        OBVIOUS
      <4>2. PacketAt(slot).msg.type = "SYNCRO"
        BY <4>1, ToldFacts
      <4>3. fsm_state[p] = "PS_IDLE"
        BY <1>5, <2>2 DEF Heard
      <4>4. QED
        BY <2>2, <4>2, <4>3 DEF IsSyncro
    <3>2. Heard(m, fsm_state[p], p \in K, done, p)
      BY <1>2, <1>3, <1>5, <3>1, HeardReceived
    <3>3. p \notin K
      BY <2>2
    <3> HIDE DEF m
    <3>4. QED
      BY <2>2, <3>2, <3>3 DEF Heard
  <2>3. QED
    BY <2>1, <2>2
<1> HIDE DEF m
<1>8. \A q \in Proc : Heard(m, fsm_state[q], q \in L, done, q)
  <2>1. ASSUME NEW q \in Proc \ {p} PROVE Heard(m, fsm_state[q], q \in L, done, q)
    <3>1. q \in L <=> q \in K
      OBVIOUS
    <3>2. Heard(m, fsm_state[q], q \in K, done, q)
      BY <1>4
    <3>3. QED
      BY <3>1, <3>2 DEF Heard
  <2>2. QED
    BY <1>7, <2>1
<1>9. QED
  BY <1>1, <1>8 DEF AllHeard

(* Who is told to compete knows the epoch. *)
LEMMA HeardWanted ==
    ASSUME NetworkAssumption, NEW P, net \in Nets(P), Placed(net), Net # "udp",
           NEW p \in Proc, NEW slot \in Receivable(p),
           NEW st \in [Proc -> State], NEW view, Sight(P, net, st, view),
           PacketAt(slot).msg \in SupMsg, PacketAt(slot).msg.type = "WANT",
           NEW K, NEW done, done \in BOOLEAN, AllHeard(net, st, K, done)
    PROVE  /\ p \in K
           /\ \A s : AllHeard(dme_recv_msg(slot), [st EXCEPT ![p] = s], K, done)
<1> DEFINE m == dme_recv_msg(slot)
<1>1. p \in Node /\ PacketAt(slot) \in WantTo(p)
  BY PidFacts, WantTaken
<1>2. Heard(net, st[p], p \in K, done, p) /\ ~NoneOf(net, WantTo(p))
  BY <1>1, ReceivePlaced DEF AllHeard
<1>3. done
  BY <1>2 DEF Heard
<1>4. p \in K
  <2>1. SUFFICES ASSUME p \notin K PROVE FALSE
    OBVIOUS
  <2>2. InOrder(net, SyncroTo(p), WantTo(p)) /\ ~NoneOf(net, SyncroTo(p))
    BY <1>2, <1>3, <2>1 DEF Heard
  <2>3. QED
    BY <1>1, <2>2, ReceiveInOrder
<1>5. \A q \in Proc \ {p} : Heard(m, st[q], q \in K, done, q)
  BY HeardByOne
<1> HIDE DEF m
<1>6. ASSUME NEW s PROVE AllHeard(m, [st EXCEPT ![p] = s], K, done)
  <2>1. Heard(m, s, p \in K, done, p)
    BY <1>3, <1>4 DEF Heard
  <2>2. QED
    BY <1>5, <2>1 DEF AllHeard
<1>7. QED
  BY <1>4, <1>6 DEF m

(* Who knows the epoch may move on. *)
LEMMA HeardMoved ==
    ASSUME NEW n, NEW p \in Proc, NEW st \in [Proc -> State], NEW K, NEW done,
           AllHeard(n, st, K, done), st[p] # "PS_IDLE", NEW s
    PROVE  p \in K /\ AllHeard(n, [st EXCEPT ![p] = s], K, done)
BY DEF AllHeard, Heard

(* What a peer tells the supervisor is heard by no peer. *)
LEMMA HeardTold ==
    ASSUME NetworkAssumption, NEW P, SupPackets \subseteq P, NEW n \in Nets(P), Placed(n),
           NEW p \in Proc, NEW t \in {"ENTERED", "EXITED"},
           NEW st, NEW K, NEW done, AllHeard(n, st, K, done)
    PROVE  AllHeard(dme_send_msg(n, p, SUPERVISOR_PID, [type |-> t]), st, K, done)
<1> DEFINE m == dme_send_msg(n, p, SUPERVISOR_PID, [type |-> t])
           pkt == Packet(p, SUPERVISOR_PID, [type |-> t])
<1>1. m \in Nets(P) /\ Sent(n, m, {pkt})
  BY SupervisorTold
<1>2. pkt.dst \notin Proc
  BY PidFacts DEF Packet
<1> HIDE DEF m, pkt
<1>3. ASSUME NEW q \in Proc PROVE pkt \notin SyncroTo(q) /\ pkt \notin WantTo(q)
  <2>1. \A x \in SyncroTo(q) \cup WantTo(q) : x.dst = q
    BY ToldFacts
  <2>2. QED
    BY <1>2, <2>1
<1>4. AllHeard(m, st, K, done)
  BY <1>1, <1>3, HeardSent
<1>5. QED
  BY <1>4 DEF m

(* A step of the supervisor, who knows nothing of it. *)
LEMMA HeardSupervisor ==
    ASSUME NetworkAssumption, SupervisorAssumption, NEW P, SupPackets \subseteq P,
           net \in Nets(P), Placed(net), SupNext,
           NEW st, NEW K, AllHeard(net, st, K, syncro_done)
    PROVE  AllHeard(net', st, K, syncro_done')
<1>1. CASE syncro
  <2> DEFINE New == FromSupervisor("SYNCRO")
  <2>1. net' \in Nets(P) /\ Sent(net, net', New) /\ ~syncro_done /\ syncro_done'
    BY <1>1, SyncroSent DEF syncro
  <2>2. SUFFICES ASSUME NEW p \in Proc PROVE Heard(net', st[p], p \in K, syncro_done', p)
    BY DEF AllHeard
  <2>3. Heard(net, st[p], p \in K, syncro_done, p) /\ NoneOf(net, WantTo(p))
    BY <2>1 DEF AllHeard, Heard
  <2>4. New \cap WantTo(p) = {} /\ New \cap SyncroTo(p) # {}
    <3>1. \A pkt \in New : pkt.msg.type = "SYNCRO"
      BY DEF FromSupervisor, Packet
    <3>2. \A pkt \in WantTo(p) : pkt.msg.type = "WANT"
      BY ToldFacts
    <3>3. Packet(SUPERVISOR_PID, p, [type |-> "SYNCRO"]) \in New \cap SyncroTo(p)
      BY DEF FromSupervisor, SyncroTo
    <3> HIDE DEF New
    <3>4. New \cap WantTo(p) = {}
      BY <3>1, <3>2
    <3>5. QED
      BY <3>3, <3>4
  <2> HIDE DEF New
  <2>5. NoneOf(net', WantTo(p)) /\ ~NoneOf(net', SyncroTo(p))
    BY <2>1, <2>3, <2>4, SentProperties
  <2>6. InOrder(net', SyncroTo(p), WantTo(p))
    BY <2>5, NoneInOrder
  <2>7. QED
    BY <2>1, <2>3, <2>5, <2>6 DEF Heard
<1>2. CASE do_work
  <2>1. PICK pid_arr \in Elections :
           net' = SendToEach(net, SUPERVISOR_PID, pid_arr, [type |-> "WANT"])
    BY <1>2 DEF do_work
  <2> DEFINE New == {Packet(SUPERVISOR_PID, d, [type |-> "WANT"]) : d \in ToSet(pid_arr)}
  <2>2. net' \in Nets(P) /\ Sent(net, net', New) /\ syncro_done /\ UNCHANGED syncro_done
    BY <1>2, <2>1, WantsSent DEF do_work
  <2>3. SUFFICES ASSUME NEW p \in Proc PROVE Heard(net', st[p], p \in K, syncro_done', p)
    BY DEF AllHeard
  <2>4. Heard(net, st[p], p \in K, syncro_done, p)
    BY DEF AllHeard
  <2>5. New \cap SyncroTo(p) = {}
    BY DEF SyncroTo, Packet
  <2> HIDE DEF New
  <2>6. Kept(net, net', SyncroTo(p))
    BY <2>2, <2>5, SentKept
  <2>7. InOrder(net, SyncroTo(p), WantTo(p)) => InOrder(net', SyncroTo(p), WantTo(p))
    <3>1. OneLink(SyncroTo(p) \cup WantTo(p))
      BY ToldFacts
    <3>2. QED
      BY <2>2, <2>5, <3>1, SentInOrder
  <2>8. QED
    BY <2>2, <2>4, <2>6, <2>7 DEF Heard, Kept
<1>3. CASE SupReceive
  <2>1. PICK slot \in Receivable(SUPERVISOR_PID) : net' = dme_recv_msg(slot)
    BY <1>3 DEF SupReceive
  <2>2. SUPERVISOR_PID \in Node /\ PacketAt(slot).dst \notin Proc /\ UNCHANGED syncro_done
    BY <1>3, PidFacts, ReceivePlaced DEF SupReceive
  <2>3. QED
    BY <2>1, <2>2, HeardOthers
<1>4. QED
  BY <1>1, <1>2, <1>3 DEF SupNext

-----------------------------------------------------------------------------
(***************************************************************************)
(* One host.  No packet of kind T waits in a handler for sendto.           *)
(***************************************************************************)
HandedOver(n, T) == \A l \in Lane : \A i \in 1 .. Len(n[l]) : n[l][i] \in T => l[1] = "in"

(***************************************************************************)
(* What of T waits in a handler will be in its receiver's buffer before    *)
(* anything of U is.                                                       *)
(***************************************************************************)
Ahead(n, T, U) ==
    \A l, k \in Lane : \A i \in 1 .. Len(n[l]), j \in 1 .. Len(n[k]) :
        l[1] = "out" /\ n[l][i] \in T /\ n[k][j] \in U => l = k /\ i < j

LEMMA HostLanes ==
    ASSUME Net = "loopback"
    PROVE  /\ \A l \in Lane : l[1] \in {"in", "out"} /\ l[2] \in Node /\ l = <<l[1], l[2]>>
           /\ \A n \in Node : <<"in", n>> \in Lane /\ <<"out", n>> \in Lane
BY DEF Lane

LEMMA NothingAhead ==
    ASSUME Net = "loopback", NEW n, NEW T, NEW U, HandedOver(n, T) \/ NoneOf(n, U)
    PROVE  Ahead(n, T, U)
<1>1. \A l \in Lane : l[1] = "out" => l[1] # "in"
  OBVIOUS
<1>2. QED
  BY <1>1 DEF HandedOver, NoneOf, Ahead

LEMMA NoneHandedOver == ASSUME NEW n, NEW T, NoneOf(n, T) PROVE HandedOver(n, T)
BY DEF NoneOf, HandedOver

(* A node that takes a signal has nothing waiting. *)
LEMMA NothingWaits ==
    ASSUME Net = "loopback", NEW P, net \in Nets(P), Placed(net), NEW p \in Node, Waiting(p),
           NEW T, \A pkt \in T : pkt.src = p
    PROVE  HandedOver(net, T)
<1>1. SUFFICES ASSUME NEW l \in Lane, NEW i \in 1 .. Len(net[l]), net[l][i] \in T,
                      l[1] # "in"
               PROVE  FALSE
  BY DEF HandedOver
<1>2. l \in Lanes(net[l][i])
  BY DEF Placed
<1>3. l = <<"out", p>>
  BY <1>1, <1>2 DEF Lanes
<1>4. net[l] = <<>>
  BY <1>3 DEF Waiting, InHandler
<1>5. Len(net[l]) = 0
  BY <1>4
<1>6. QED
  BY <1>1, <1>5

(* The packets a handler sends wait for sendto. *)
LEMMA SentOnHost ==
    ASSUME Net = "loopback", NEW P, NEW n \in Nets(P), NEW m \in Nets(P), NEW New,
           Sent(n, m, New)
    PROVE  /\ \A d \in Node : m[<<"in", d>>] = n[<<"in", d>>]
           /\ \A l \in Lane : \A i \in 1 .. Len(m[l]) :
                 \/ i \in 1 .. Len(n[l]) /\ m[l][i] = n[l][i]
                 \/ /\ i \in Added(n, m, l)
                    /\ m[l][i] \in New
                    /\ l = <<"out", m[l][i].src>>
<1>1. \A l \in Lane : /\ n[l] \in Seq(P) /\ m[l] \in Seq(P)
                      /\ Len(n[l]) \in Nat /\ Len(m[l]) \in Nat
  BY LenProperties DEF Nets
<1>2. \A pkt : SendLane(pkt.src, pkt.dst) = <<"out", pkt.src>>
  BY DEF SendLane
<1>3. \A l \in Lane : \A i \in 1 .. Len(m[l]) :
         \/ i \in 1 .. Len(n[l]) /\ m[l][i] = n[l][i]
         \/ /\ i \in Added(n, m, l)
            /\ m[l][i] \in New
            /\ l = <<"out", m[l][i].src>>
  BY <1>1, <1>2 DEF Sent, Added
<1>4. ASSUME NEW d \in Node PROVE m[<<"in", d>>] = n[<<"in", d>>]
  <2> DEFINE l == <<"in", d>>
  <2>1. l \in Lane /\ \A x : l # <<"out", x>>
    BY HostLanes
  <2> HIDE DEF l
  <2>2. Len(n[l]) <= Len(m[l]) /\ \A i \in 1 .. Len(n[l]) : m[l][i] = n[l][i]
    BY <2>1 DEF Sent
  <2>3. \A i \in 1 .. Len(m[l]) : i \in 1 .. Len(n[l])
    BY <1>3, <2>1
  <2>4. Len(m[l]) = Len(n[l])
    BY <1>1, <2>1, <2>2, <2>3
  <2>5. m[l] = n[l]
    BY <1>1, <2>1, <2>2, <2>4, SeqEqual
  <2>6. QED
    BY <2>5 DEF l
<1>5. QED
  BY <1>3, <1>4

LEMMA SentWaits ==
    ASSUME Net = "loopback", NEW P, NEW n \in Nets(P), NEW m \in Nets(P), NEW New,
           Sent(n, m, New), NEW T, New \cap T = {}, NEW U
    PROVE  /\ HandedOver(n, T) => HandedOver(m, T)
           /\ HandedOver(n, T) /\ InOrder(n, T, U) => InOrder(m, T, U)
           /\ /\ Ahead(n, T, U) /\ Placed(n)
              /\ HandedOver(n, T) \/ \A pkt \in T, other \in New \cap U : pkt.src = other.src
              => Ahead(m, T, U)
<1>1. \A l \in Lane : \A i \in 1 .. Len(m[l]) :
         \/ i \in 1 .. Len(n[l]) /\ m[l][i] = n[l][i]
         \/ i \in Added(n, m, l) /\ m[l][i] \in New /\ l = <<"out", m[l][i].src>>
  BY SentOnHost
<1>2. \A l \in Lane : Len(n[l]) \in Nat /\ Len(m[l]) \in Nat
  BY LenProperties DEF Nets
<1>3. \A l \in Lane : \A i \in 1 .. Len(m[l]) :
         m[l][i] \in T => i \in 1 .. Len(n[l]) /\ m[l][i] = n[l][i]
  BY <1>1
<1>4. HandedOver(n, T) => HandedOver(m, T)
  BY <1>3 DEF HandedOver
<1>5. ASSUME HandedOver(n, T), InOrder(n, T, U) PROVE InOrder(m, T, U)
  <2>1. SUFFICES ASSUME NEW l \in Lane, NEW k \in Lane,
                        NEW i \in 1 .. Len(m[l]), NEW j \in 1 .. Len(m[k]),
                        m[l][i] \in T, m[k][j] \in U
                 PROVE  Before(l, i, k, j)
    BY DEF InOrder
  <2>2. i \in 1 .. Len(n[l]) /\ n[l][i] \in T /\ l[1] = "in"
    BY <1>3, <1>5, <2>1 DEF HandedOver
  <2>3. CASE j \in 1 .. Len(n[k]) /\ m[k][j] = n[k][j]
    BY <1>5, <2>1, <2>2, <2>3 DEF InOrder
  <2>4. CASE k = <<"out", m[k][j].src>>
    <3>1. k[1] = "out"
      BY <2>4
    <3>2. QED
      BY <2>2, <3>1 DEF Before
  <2>5. QED
    BY <1>1, <2>3, <2>4
<1>6. ASSUME Ahead(n, T, U), Placed(n),
             HandedOver(n, T) \/ \A pkt \in T, other \in New \cap U : pkt.src = other.src
      PROVE  Ahead(m, T, U)
  <2>1. SUFFICES ASSUME NEW l \in Lane, NEW k \in Lane,
                        NEW i \in 1 .. Len(m[l]), NEW j \in 1 .. Len(m[k]),
                        l[1] = "out", m[l][i] \in T, m[k][j] \in U
                 PROVE  l = k /\ i < j
    BY DEF Ahead
  <2>2. i \in 1 .. Len(n[l]) /\ m[l][i] = n[l][i] /\ n[l][i] \in T
    BY <1>3, <2>1
  <2>3. CASE j \in 1 .. Len(n[k]) /\ m[k][j] = n[k][j]
    BY <1>6, <2>1, <2>2, <2>3 DEF Ahead
  <2>4. CASE j \in Added(n, m, k) /\ m[k][j] \in New /\ k = <<"out", m[k][j].src>>
    <3>1. ~HandedOver(n, T)
      BY <2>1, <2>2 DEF HandedOver
    <3>2. n[l][i].src = m[k][j].src
      BY <1>6, <2>1, <2>2, <2>4, <3>1
    <3>3. l = <<"out", n[l][i].src>>
      BY <1>6, <2>1, <2>2 DEF Placed, Lanes
    <3>4. l = k
      BY <2>4, <3>2, <3>3
    <3>5. j \in (Len(n[k]) + 1) .. Len(m[k]) /\ i \in 1 .. Len(n[k])
      BY <2>2, <2>4, <3>4 DEF Added
    <3>6. QED
      BY <1>2, <3>4, <3>5
  <2>5. QED
    BY <1>1, <2>3, <2>4
<1>7. QED
  BY <1>4, <1>5, <1>6

(* A node takes the oldest packet of its buffer. *)
LEMMA ReceivedOnHost ==
    ASSUME Net = "loopback", NEW P, net \in Nets(P), NEW dst \in Node,
           NEW slot \in Receivable(dst), NEW T, NEW U
    PROVE  LET m  == dme_recv_msg(slot)
               in == <<"in", dst>>
           IN
           /\ in \in Lane /\ net[in] # <<>> /\ Len(net[in]) \in Nat
           /\ PacketAt(slot) = net[in][1] /\ 1 \in 1 .. Len(net[in])
           /\ \A l \in Lane : l # in => m[l] = net[l]
           /\ Len(m[in]) = Len(net[in]) - 1
           /\ \A i \in 1 .. Len(m[in]) : m[in][i] = net[in][i + 1]
           /\ HandedOver(net, T) => HandedOver(m, T)
           /\ Ahead(net, T, U) => Ahead(m, T, U)
           /\ Ahead(net, T, U) /\ PacketAt(slot) \in U => HandedOver(net, T)
<1> DEFINE m  == dme_recv_msg(slot)
           in == <<"in", dst>>
<1>1. /\ slot[1] \in Lane /\ slot[1] = in /\ in \in Lane
      /\ slot[2] = 1 /\ slot[2] \in 1 .. Len(net[slot[1]])
      /\ PacketAt(slot) = net[slot[1]][slot[2]]
      /\ m \in Nets(P)
  BY ReceivePositions DEF RecvLanes
<1>2. m = [net EXCEPT ![in] = RemoveAt(@, 1)]
  BY <1>1 DEF dme_recv_msg
<1>3. in[1] = "in"
  OBVIOUS
<1> HIDE DEF in, m
<1>4. /\ net[in] \in Seq(P) /\ 1 \in 1 .. Len(net[in])
      /\ \A l \in Lane : Len(net[l]) \in Nat
  BY <1>1, LenProperties DEF Nets
<1>5. /\ Len(RemoveAt(net[in], 1)) = Len(net[in]) - 1
      /\ \A j \in 1 .. (Len(net[in]) - 1) : RemoveAt(net[in], 1)[j] = net[in][j + 1]
  <2>1. Len(RemoveAt(net[in], 1)) = Len(net[in]) - 1
    BY <1>4, RemoveAtProperties
  <2>2. \A j \in 1 .. (Len(net[in]) - 1) :
           RemoveAt(net[in], 1)[j] = IF j < 1 THEN net[in][j] ELSE net[in][j + 1]
    BY <1>4, RemoveAtProperties
  <2>3. \A j \in 1 .. (Len(net[in]) - 1) : ~(j < 1)
    OBVIOUS
  <2>4. QED
    BY <2>1, <2>2, <2>3
<1>6. /\ \A l \in Lane : l # in => m[l] = net[l]
      /\ m[in] = RemoveAt(net[in], 1)
  BY <1>1, <1>2 DEF Nets
<1>7. /\ Len(m[in]) = Len(net[in]) - 1
      /\ \A i \in 1 .. Len(m[in]) : m[in][i] = net[in][i + 1]
  BY <1>5, <1>6
<1>8. \A l \in Lane : \A i \in 1 .. Len(m[l]) :
         \E w \in 1 .. Len(net[l]) : m[l][i] = net[l][w] /\ (l[1] = "out" => w = i)
  <2>1. SUFFICES ASSUME NEW l \in Lane, NEW i \in 1 .. Len(m[l])
                 PROVE  \E w \in 1 .. Len(net[l]) : m[l][i] = net[l][w] /\ (l[1] = "out" => w = i)
    OBVIOUS
  <2>2. CASE l = in
    <3>1. i + 1 \in 1 .. Len(net[l]) /\ m[l][i] = net[l][i + 1]
      BY <1>4, <1>7, <2>2
    <3>2. l[1] # "out"
      BY <1>3, <2>2
    <3>3. QED
      BY <3>1, <3>2
  <2>3. CASE l # in
    BY <1>6, <2>3
  <2>4. QED
    BY <2>2, <2>3
<1>9. HandedOver(net, T) => HandedOver(m, T)
  BY <1>8 DEF HandedOver
<1>10. ASSUME Ahead(net, T, U) PROVE Ahead(m, T, U)
  <2>1. SUFFICES ASSUME NEW l \in Lane, NEW k \in Lane,
                        NEW i \in 1 .. Len(m[l]), NEW j \in 1 .. Len(m[k]),
                        l[1] = "out", m[l][i] \in T, m[k][j] \in U
                 PROVE  l = k /\ i < j
    BY DEF Ahead
  <2>2. i \in 1 .. Len(net[l]) /\ net[l][i] = m[l][i]
    BY <1>8, <2>1
  <2>3. PICK w \in 1 .. Len(net[k]) : m[k][j] = net[k][w] /\ (k[1] = "out" => w = j)
    BY <1>8
  <2>4. l = k /\ i < w
    BY <1>10, <2>1, <2>2, <2>3 DEF Ahead
  <2>5. QED
    BY <2>1, <2>3, <2>4
<1>11. ASSUME Ahead(net, T, U), net[in][1] \in U PROVE HandedOver(net, T)
  <2>1. SUFFICES ASSUME NEW l \in Lane, NEW i \in 1 .. Len(net[l]), net[l][i] \in T,
                        l[1] # "in"
                 PROVE  FALSE
    BY DEF HandedOver
  <2>2. l[1] = "out"
    BY <2>1, HostLanes
  <2>3. l = in
    BY <1>1, <1>4, <1>11, <2>1, <2>2 DEF Ahead
  <2>4. QED
    BY <1>3, <2>2, <2>3
<1>12. net[in] # <<>>
  BY <1>4
<1> HIDE DEF in
<1>13. QED
  BY <1>1, <1>4, <1>6, <1>7, <1>9, <1>10, <1>11, <1>12 DEF m, in

(* sendto moves the oldest packet of a handler to its receiver's buffer. *)
LEMMA SendtoOnHost ==
    ASSUME Net = "loopback", NEW P, net \in Nets(P), \A pkt \in P : pkt.dst \in Node,
           Placed(net), NEW src \in Node, sendto(src), NEW T, NEW U
    PROVE  LET out  == <<"out", src>>
               pkt  == net[out][1]
               into == <<"in", pkt.dst>>
           IN
           /\ pkt \in P /\ pkt.src = src /\ pkt.dst \in Node /\ into \in Lane
           /\ out \in Lane /\ 1 \in 1 .. Len(net[out])
           /\ \A d \in Node : d # pkt.dst => net'[<<"in", d>>] = net[<<"in", d>>]
           /\ Len(net[into]) \in Nat
           /\ Len(net'[into]) = Len(net[into]) + 1
           /\ net'[into][Len(net[into]) + 1] = pkt
           /\ \A i \in 1 .. Len(net[into]) : net'[into][i] = net[into][i]
           /\ HandedOver(net, T) => HandedOver(net', T)
           /\ /\ HandedOver(net, T) /\ InOrder(net, T, U)
              /\ \A one, other \in T \cup U : one.dst = other.dst
              => InOrder(net', T, U)
           /\ Ahead(net, T, U) => Ahead(net', T, U)
<1> DEFINE out  == <<"out", src>>
           pkt  == net[out][1]
           into == <<"in", pkt.dst>>
           Was(l, i) == IF l = out THEN i + 1 ELSE i
           IsMoved(l, i) == l = into /\ i = Len(net[into]) + 1
<1>1. /\ net' \in Nets(P)
      /\ out \in Lane /\ into \in Lane /\ 1 \in 1 .. Len(net[out])
      /\ net'[into][Len(net[into]) + 1] = pkt
      /\ \A l \in Lane : \A i \in 1 .. Len(net'[l]) :
            IsMoved(l, i) \/ (Was(l, i) \in 1 .. Len(net[l]) /\ net'[l][i] = net[l][Was(l, i)])
  BY SendtoPositions
<1>2. net[out] \in Seq(P) /\ net[out] # <<>>
  BY <1>1 DEF Nets
<1>3. pkt \in P /\ Head(net[out]) = pkt
  BY <1>1, <1>2
<1>4. net' = [net EXCEPT ![out] = Tail(@), ![into] = Append(@, pkt)]
  BY <1>3 DEF sendto
<1>5. into # out /\ (\A d \in Node : <<"in", d>> \in Lane /\ <<"in", d>> # out)
      /\ into[1] = "in" /\ out[1] = "out"
  BY HostLanes
<1>6. out \in Lanes(pkt)
  BY <1>1 DEF Placed
<1>7. pkt.src = src /\ pkt.dst \in Node
  BY <1>3, <1>6 DEF Lanes
<1>8. \A d \in Node : d # pkt.dst => net'[<<"in", d>>] = net[<<"in", d>>]
  <2>1. \A d \in Node : d # pkt.dst => <<"in", d>> # into
    OBVIOUS
  <2> HIDE DEF out, pkt, into
  <2>2. QED
    BY <1>4, <1>5, <2>1 DEF Nets
<1>9. net'[into] = Append(net[into], pkt)
  <2> HIDE DEF out, pkt, into
  <2>1. QED
    BY <1>1, <1>4, <1>5 DEF Nets
<1>10. net[into] \in Seq(P) /\ \A l \in Lane : Len(net[l]) \in Nat /\ Len(net'[l]) \in Nat
  BY <1>1, LenProperties DEF Nets
<1> HIDE DEF out, pkt, into
<1>11. /\ Len(net'[into]) = Len(net[into]) + 1
       /\ \A i \in 1 .. Len(net[into]) : net'[into][i] = net[into][i]
  BY <1>3, <1>9, <1>10, AppendProperties
<1> HIDE DEF Was, IsMoved
<1>12. ASSUME HandedOver(net, T) PROVE HandedOver(net', T)
  <2>1. SUFFICES ASSUME NEW l \in Lane, NEW i \in 1 .. Len(net'[l]), net'[l][i] \in T
                 PROVE  l[1] = "in"
    BY DEF HandedOver
  <2>2. CASE IsMoved(l, i)
    BY <1>5, <2>2 DEF IsMoved
  <2>3. CASE Was(l, i) \in 1 .. Len(net[l]) /\ net'[l][i] = net[l][Was(l, i)]
    BY <1>12, <2>1, <2>3 DEF HandedOver
  <2>4. QED
    BY <1>1, <2>2, <2>3
<1>13. ASSUME HandedOver(net, T), InOrder(net, T, U),
              \A one, other \in T \cup U : one.dst = other.dst
       PROVE  InOrder(net', T, U)
  <2>1. SUFFICES ASSUME NEW l \in Lane, NEW k \in Lane,
                        NEW i \in 1 .. Len(net'[l]), NEW j \in 1 .. Len(net'[k]),
                        net'[l][i] \in T, net'[k][j] \in U
                 PROVE  Before(l, i, k, j)
    BY DEF InOrder
  <2>2. /\ ~IsMoved(l, i)
        /\ Was(l, i) \in 1 .. Len(net[l]) /\ net'[l][i] = net[l][Was(l, i)]
        /\ l[1] = "in" /\ Was(l, i) = i
    <3>1. ASSUME IsMoved(l, i) PROVE FALSE
      <4>1. pkt \in T
        BY <1>1, <2>1, <3>1 DEF IsMoved
      <4>2. out[1] = "in"
        BY <1>1, <1>13, <4>1 DEF HandedOver, pkt
      <4>3. QED
        BY <1>5, <4>2
    <3>2. Was(l, i) \in 1 .. Len(net[l]) /\ net'[l][i] = net[l][Was(l, i)]
      BY <1>1, <3>1
    <3>3. l[1] = "in"
      BY <1>13, <2>1, <3>2 DEF HandedOver
    <3>4. QED
      BY <1>5, <3>1, <3>2, <3>3 DEF Was
  <2>3. CASE IsMoved(k, j)
    <3>1. pkt \in U /\ k = into /\ j = Len(net[into]) + 1
      BY <1>1, <2>1, <2>3 DEF IsMoved
    <3>2. net'[l][i].dst = pkt.dst
      BY <1>13, <2>1, <3>1
    <3>3. l \in Lanes(net'[l][i])
      BY <2>2 DEF Placed
    <3>4. l = into
      <4>1. l = <<"in", pkt.dst>> \/ l[1] = "out"
        BY <3>2, <3>3 DEF Lanes
      <4>2. QED
        BY <2>2, <4>1 DEF into
    <3>5. i < j
      BY <1>10, <2>2, <3>1, <3>4
    <3>6. QED
      BY <3>1, <3>4, <3>5 DEF Before
  <2>4. CASE Was(k, j) \in 1 .. Len(net[k]) /\ net'[k][j] = net[k][Was(k, j)]
    <3>1. Before(l, i, k, Was(k, j))
      BY <1>13, <2>1, <2>2, <2>4 DEF InOrder
    <3>2. CASE k = l
      BY <1>5, <2>2, <3>1, <3>2 DEF Before, Was
    <3>3. CASE k # l
      BY <3>1, <3>3 DEF Before
    <3>4. QED
      BY <3>2, <3>3
  <2>5. QED
    BY <1>1, <2>3, <2>4
<1>14. ASSUME Ahead(net, T, U) PROVE Ahead(net', T, U)
  <2>1. SUFFICES ASSUME NEW l \in Lane, NEW k \in Lane,
                        NEW i \in 1 .. Len(net'[l]), NEW j \in 1 .. Len(net'[k]),
                        l[1] = "out", net'[l][i] \in T, net'[k][j] \in U
                 PROVE  l = k /\ i < j
    BY DEF Ahead
  <2>2. Was(l, i) \in 1 .. Len(net[l]) /\ net'[l][i] = net[l][Was(l, i)]
    BY <1>1, <1>5, <2>1 DEF IsMoved
  <2>3. CASE IsMoved(k, j)
    <3>1. net[out][1] \in U
      BY <1>1, <2>1, <2>3 DEF IsMoved, pkt
    <3>2. l = out /\ Was(l, i) < 1
      BY <1>1, <1>14, <2>1, <2>2, <3>1 DEF Ahead
    <3>3. QED
      BY <1>10, <2>2, <3>2
  <2>4. CASE Was(k, j) \in 1 .. Len(net[k]) /\ net'[k][j] = net[k][Was(k, j)]
    <3>1. l = k /\ Was(l, i) < Was(k, j)
      BY <1>14, <2>1, <2>2, <2>4 DEF Ahead
    <3>2. QED
      BY <1>10, <3>1 DEF Was
  <2>5. QED
    BY <1>1, <2>3, <2>4
<1>15. QED
  BY <1>1, <1>3, <1>7, <1>8, <1>10, <1>11, <1>12, <1>13, <1>14 DEF out, pkt, into

-----------------------------------------------------------------------------
(***************************************************************************)
(* The supervisor's buffer, on one host.  Where exclusion holds it does not*)
(* stop an experiment that is in order, if a peer only gets the way into   *)
(* the critical region free behind the EXITED of everybody before it: then *)
(* an ENTERED of q follows, in that buffer, the EXITED of every other peer *)
(* that is inside in the supervisor's view or will have been before.       *)
(***************************************************************************)
Reports(n) == n[<<"in", SUPERVISOR_PID>>]

Follows(buf, view) ==
    \A p, q \in Proc : \A j \in 1 .. Len(buf) :
        /\ p # q /\ buf[j] \in EnteredFrom(q)
        /\ view[p] = "PS_EXECUTING" \/ \E i \in 1 .. (j - 1) : buf[i] \in EnteredFrom(p)
        => \E k \in 1 .. (j - 1) : buf[k] \in ExitedFrom(p)

OneSeen(view) ==
    \A p, q \in Proc : view[p] = "PS_EXECUTING" /\ view[q] = "PS_EXECUTING" => p = q

Unalarmed ==
    /\ Follows(Reports(net), nodes)
    /\ OneSeen(nodes)
    /\ ~exit_request[SUPERVISOR_PID]

(* Nobody's ENTERED waits in a handler once it has left. *)
Reporting(n, st) ==
    \A r \in Proc : st[r] # "PS_EXECUTING" => HandedOver(n, EnteredFrom(r))

(* Beside one that is inside nobody is, and no EXITED waits in a handler. *)
Alone(n, st) ==
    \A p, q \in Proc :
        p # q /\ st[q] = "PS_EXECUTING" =>
            st[p] # "PS_EXECUTING" /\ HandedOver(n, ExitedFrom(p))

(* The packets of an algorithm are for peers. *)
ForPeers(P) == \A pkt \in P : pkt.dst \in Node /\ (pkt.msg \notin SupMsg => pkt.dst \in Proc)

(* What the supervisor's buffer gets at its end, and gives at its front. *)
LEMMA FollowsLast ==
    ASSUME NEW buf, NEW buf2, NEW view, Follows(buf, view),
           Len(buf) \in Nat, Len(buf2) = Len(buf) + 1,
           \A i \in 1 .. Len(buf) : buf2[i] = buf[i],
           \A p, q \in Proc :
              /\ p # q /\ buf2[Len(buf) + 1] \in EnteredFrom(q)
              /\ view[p] = "PS_EXECUTING" \/ \E i \in 1 .. Len(buf) : buf[i] \in EnteredFrom(p)
              => \E k \in 1 .. Len(buf) : buf[k] \in ExitedFrom(p)
    PROVE  Follows(buf2, view)
<1>1. SUFFICES ASSUME NEW p \in Proc, NEW q \in Proc, NEW j \in 1 .. Len(buf2),
                      p # q, buf2[j] \in EnteredFrom(q),
                      \/ view[p] = "PS_EXECUTING"
                      \/ \E i \in 1 .. (j - 1) : buf2[i] \in EnteredFrom(p)
               PROVE  \E k \in 1 .. (j - 1) : buf2[k] \in ExitedFrom(p)
  BY DEF Follows
<1>2. CASE j \in 1 .. Len(buf)
  <2>1. \A i \in 1 .. (j - 1) : i \in 1 .. Len(buf) /\ buf2[i] = buf[i]
    BY <1>2
  <2>2. \/ view[p] = "PS_EXECUTING"
        \/ \E i \in 1 .. (j - 1) : buf[i] \in EnteredFrom(p)
    BY <1>1, <2>1
  <2>3. \E k \in 1 .. (j - 1) : buf[k] \in ExitedFrom(p)
    BY <1>1, <1>2, <2>2 DEF Follows
  <2>4. QED
    BY <2>1, <2>3
<1>3. CASE j = Len(buf) + 1
  <2>1. 1 .. (j - 1) = 1 .. Len(buf)
    BY <1>3
  <2>2. QED
    BY <1>1, <1>3, <2>1
<1>4. QED
  BY <1>1, <1>2, <1>3

LEMMA FollowsRest ==
    ASSUME NEW buf, NEW buf2, NEW view, NEW view2, Follows(buf, view),
           Len(buf) \in Nat, 1 \in 1 .. Len(buf), Len(buf2) = Len(buf) - 1,
           \A i \in 1 .. Len(buf2) : buf2[i] = buf[i + 1],
           \A p \in Proc : view2[p] = "PS_EXECUTING" =>
               view[p] = "PS_EXECUTING" \/ buf[1] \in EnteredFrom(p),
           \A p \in Proc : buf[1] \in ExitedFrom(p) =>
               /\ view2[p] # "PS_EXECUTING"
               /\ \A i \in 1 .. Len(buf) : buf[i] \notin EnteredFrom(p)
    PROVE  Follows(buf2, view2)
<1>1. SUFFICES ASSUME NEW p \in Proc, NEW q \in Proc, NEW j \in 1 .. Len(buf2),
                      p # q, buf2[j] \in EnteredFrom(q),
                      \/ view2[p] = "PS_EXECUTING"
                      \/ \E i \in 1 .. (j - 1) : buf2[i] \in EnteredFrom(p)
               PROVE  \E k \in 1 .. (j - 1) : buf2[k] \in ExitedFrom(p)
  BY DEF Follows
<1>2. j + 1 \in 1 .. Len(buf) /\ buf[j + 1] \in EnteredFrom(q)
  BY <1>1
<1>3. \/ view[p] = "PS_EXECUTING"
      \/ \E i \in 1 .. ((j + 1) - 1) : buf[i] \in EnteredFrom(p)
  <2>1. CASE view2[p] = "PS_EXECUTING"
    <3>1. view[p] = "PS_EXECUTING" \/ buf[1] \in EnteredFrom(p)
      BY <2>1
    <3>2. 1 \in 1 .. ((j + 1) - 1)
      BY <1>1
    <3>3. QED
      BY <3>1, <3>2
  <2>2. ASSUME NEW i \in 1 .. (j - 1), buf2[i] \in EnteredFrom(p)
        PROVE  \E w \in 1 .. ((j + 1) - 1) : buf[w] \in EnteredFrom(p)
    <3>1. i + 1 \in 1 .. ((j + 1) - 1) /\ i \in 1 .. Len(buf2)
      BY <1>1
    <3>2. buf[i + 1] \in EnteredFrom(p)
      BY <2>2, <3>1
    <3>3. QED
      BY <3>1, <3>2
  <2>3. QED
    BY <1>1, <2>1, <2>2
<1>4. PICK k \in 1 .. ((j + 1) - 1) : buf[k] \in ExitedFrom(p)
  BY <1>1, <1>2, <1>3 DEF Follows
<1>5. k # 1
  <2>1. SUFFICES ASSUME k = 1 PROVE FALSE
    OBVIOUS
  <2>2. view2[p] # "PS_EXECUTING" /\ \A i \in 1 .. Len(buf) : buf[i] \notin EnteredFrom(p)
    BY <1>4, <2>1
  <2>3. PICK i \in 1 .. (j - 1) : buf2[i] \in EnteredFrom(p)
    BY <1>1, <2>2
  <2>4. i + 1 \in 1 .. Len(buf) /\ i \in 1 .. Len(buf2)
    BY <1>1
  <2>5. QED
    BY <2>2, <2>3, <2>4
<1>6. k - 1 \in 1 .. (j - 1) /\ k - 1 \in 1 .. Len(buf2) /\ (k - 1) + 1 = k
  BY <1>1, <1>5
<1>7. QED
  BY <1>4, <1>6

LEMMA FollowsView ==
    ASSUME NEW buf, NEW view, NEW view2, Follows(buf, view),
           \A p \in Proc : view2[p] = "PS_EXECUTING" => view[p] = "PS_EXECUTING"
    PROVE  Follows(buf, view2)
BY DEF Follows

(***************************************************************************)
(* A peer that is not inside, and whose EXITED does not wait in a handler, *)
(* has reported that it left, if it is inside in the supervisor's view or  *)
(* has reported that it was.                                               *)
(***************************************************************************)
LEMMA OthersReported ==
    ASSUME Net = "loopback", NetworkAssumption, NEW p \in Proc, NEW st,
           Placed(net), View(net, st[p], nodes[p], p),
           st[p] # "PS_EXECUTING", HandedOver(net, ExitedFrom(p)),
           \/ nodes[p] = "PS_EXECUTING"
           \/ \E i \in 1 .. Len(Reports(net)) : Reports(net)[i] \in EnteredFrom(p)
    PROVE  \E k \in 1 .. Len(Reports(net)) : Reports(net)[k] \in ExitedFrom(p)
<1>1. <<"in", SUPERVISOR_PID>> \in Lane
  BY PidFacts, HostLanes
<1>2. ~NoneOf(net, EnteredFrom(p)) \/ nodes[p] = "PS_EXECUTING"
  BY <1>1 DEF Reports, NoneOf
<1>3. ~NoneOf(net, ExitedFrom(p))
  BY <1>2 DEF View
<1>4. PICK l \in Lane : \E i \in 1 .. Len(net[l]) : net[l][i] \in ExitedFrom(p)
  BY <1>3 DEF NoneOf
<1>5. PICK i \in 1 .. Len(net[l]) : net[l][i] \in ExitedFrom(p)
  BY <1>4
<1>6. l[1] = "in" /\ l \in Lanes(net[l][i])
  BY <1>5 DEF HandedOver, Placed
<1>7. net[l][i].dst = SUPERVISOR_PID
  BY <1>5 DEF ExitedFrom, Packet
<1>8. l = <<"in", SUPERVISOR_PID>>
  <2>1. l = <<"in", net[l][i].dst>> \/ l = <<"out", net[l][i].src>>
    BY <1>6 DEF Lanes
  <2>2. QED
    BY <1>6, <1>7, <2>1
<1>9. QED
  BY <1>5, <1>8 DEF Reports

(* With one peer inside the supervisor finds nothing wrong. *)
LEMMA OneIsSane ==
    ASSUME NEW view, OneSeen(view)
    PROVE  critical_region_is_sane(view, FALSE)
<1> DEFINE inside == {p \in Proc \ {1} : view[p] = "PS_EXECUTING"}
<1>1. inside = {} \/ \E p \in Proc : inside = {p}
  BY DEF OneSeen
<1>2. Cardinality(inside) \in {0, 1}
  <2> HIDE DEF inside
  <2>1. QED
    BY <1>1, FS_EmptySet, FS_Singleton
<1> HIDE DEF inside
<1>3. Cardinality(inside) + 0 < 2
  BY <1>2
<1>4. QED
  BY <1>3 DEF critical_region_is_sane, inside

(* The supervisor reads a report, or anything else. *)
LEMMA AlarmReceive ==
    ASSUME Net = "loopback", OutOfBounds = {FALSE}, NetworkAssumption, SupTypeOK,
           NEW P, ForPeers(P), net \in Nets(P), Placed(net), NEW st, Sight(P, net, st, nodes),
           Unalarmed, SupReceive
    PROVE  Unalarmed'
<1> DEFINE buf == Reports(net)
<1>1. PICK slot \in Receivable(SUPERVISOR_PID) :
         (process_messages(slot) \/ null_func(slot)) /\ net' = dme_recv_msg(slot)
  BY DEF SupReceive
<1>2. /\ SUPERVISOR_PID \in Node
      /\ nodes \in [Proc -> State] /\ exit_request \in [Node -> BOOLEAN]
  BY PidFacts DEF SupTypeOK
<1>3. Follows(buf, nodes) /\ OneSeen(nodes) /\ exit_request[SUPERVISOR_PID] = FALSE
  BY <1>2 DEF Unalarmed
<1>4. /\ Len(buf) \in Nat /\ 1 \in 1 .. Len(buf)
      /\ PacketAt(slot) = buf[1] /\ Len(Reports(net')) = Len(buf) - 1
      /\ \A i \in 1 .. Len(Reports(net')) : Reports(net')[i] = buf[i + 1]
  BY <1>1, <1>2, ReceivedOnHost DEF Reports
<1> HIDE DEF buf
<1>5. PacketAt(slot).msg \in SupMsg /\ PacketAt(slot) \in Proper
  <2>1. PacketAt(slot) \in P
    BY <1>2, ReceiveProperties
  <2>2. PacketAt(slot).dst = SUPERVISOR_PID
    BY <1>2, ReceivePlaced
  <2>3. PacketAt(slot).msg \in SupMsg
    BY <2>1, <2>2, PidFacts DEF ForPeers
  <2>4. QED
    BY <1>2, <2>3, NotStray
<1>6. process_messages(slot)
  BY <1>1, <1>5 DEF null_func
<1>7. CASE PacketAt(slot).msg.type = "ENTERED"
  <2> DEFINE q == PacketAt(slot).src
  <2>1. q \in Proc /\ buf[1] \in EnteredFrom(q)
    BY <1>4, <1>5, <1>7, ProperFacts
  <2>2. nodes' = [nodes EXCEPT ![q] = "PS_EXECUTING"]
        /\ \E beyond \in OutOfBounds :
             exit_request' = [exit_request EXCEPT ![SUPERVISOR_PID] =
                                 ~critical_region_is_sane(nodes', beyond)]
    BY <1>6, <1>7 DEF process_messages
  <2> HIDE DEF q
  <2>3. \A p \in Proc : nodes[p] = "PS_EXECUTING" => p = q
    <3>1. \A p \in Proc : p # q /\ nodes[p] = "PS_EXECUTING" =>
             \E k \in 1 .. (1 - 1) : buf[k] \in ExitedFrom(p)
      BY <1>3, <1>4, <2>1 DEF Follows
    <3>2. QED
      BY <3>1
  <2>4. \A p \in Proc : nodes'[p] = "PS_EXECUTING" => p = q
    BY <1>2, <2>2, <2>3
  <2>5. OneSeen(nodes')
    BY <2>4 DEF OneSeen
  <2>6. ~exit_request'[SUPERVISOR_PID]
    BY <1>2, <2>2, <2>5, OneIsSane
  <2>7. \A p \in Proc : buf[1] \notin ExitedFrom(p)
    BY <2>1, KindsApart
  <2>8. Follows(Reports(net'), nodes')
    <3> DEFINE buf2 == Reports(net')
               view2 == nodes'
    <3>1. \A p \in Proc : view2[p] = "PS_EXECUTING" =>
             nodes[p] = "PS_EXECUTING" \/ buf[1] \in EnteredFrom(p)
      BY <2>1, <2>4
    <3> HIDE DEF buf2, view2
    <3>2. QED
      BY <1>3, <1>4, <2>7, <3>1, FollowsRest DEF buf2, view2
  <2>9. QED
    BY <2>5, <2>6, <2>8 DEF Unalarmed
<1>8. CASE PacketAt(slot).msg.type = "EXITED"
  <2> DEFINE q == PacketAt(slot).src
  <2>1. q \in Proc /\ buf[1] \in ExitedFrom(q)
    BY <1>4, <1>5, <1>8, ProperFacts
  <2>2. nodes' = [nodes EXCEPT ![q] = "PS_IDLE"] /\ UNCHANGED exit_request
    BY <1>6, <1>8 DEF process_messages
  <2> HIDE DEF q
  <2>3. \A p \in Proc : nodes'[p] = "PS_EXECUTING" => nodes[p] = "PS_EXECUTING" /\ p # q
    BY <1>2, <2>1, <2>2
  <2>4. OneSeen(nodes')
    BY <1>3, <2>3 DEF OneSeen
  <2>5. \A i \in 1 .. Len(buf) : buf[i] \notin EnteredFrom(q)
    <3>1. InOrder(net, EnteredFrom(q), ExitedFrom(q))
      BY <1>2, <2>1 DEF Sight, View
    <3>2. NoneOf(net, EnteredFrom(q))
      BY <1>2, <1>4, <2>1, <3>1, ReceiveInOrder
    <3>3. <<"in", SUPERVISOR_PID>> \in Lane
      BY <1>2, HostLanes
    <3>4. QED
      BY <3>2, <3>3 DEF NoneOf, buf, Reports
  <2>6. \A p \in Proc : buf[1] \in ExitedFrom(p) => p = q
    BY <2>1 DEF ExitedFrom, Packet
  <2>7. Follows(Reports(net'), nodes')
    <3> DEFINE buf2 == Reports(net')
               view2 == nodes'
    <3>1. /\ \A p \in Proc : view2[p] = "PS_EXECUTING" =>
                nodes[p] = "PS_EXECUTING" \/ buf[1] \in EnteredFrom(p)
          /\ \A p \in Proc : buf[1] \in ExitedFrom(p) =>
                /\ view2[p] # "PS_EXECUTING"
                /\ \A i \in 1 .. Len(buf) : buf[i] \notin EnteredFrom(p)
      BY <2>3, <2>5, <2>6
    <3> HIDE DEF buf2, view2
    <3>2. QED
      BY <1>3, <1>4, <3>1, FollowsRest DEF buf2, view2
  <2>8. QED
    BY <1>3, <2>2, <2>4, <2>7 DEF Unalarmed
<1>9. QED
  BY <1>6, <1>7, <1>8 DEF process_messages

(* sendto: an ENTERED reaches the supervisor's buffer after all that counts. *)
LEMMA AlarmSendto ==
    ASSUME Net = "loopback", NetworkAssumption, NEW P, ForPeers(P),
           net \in Nets(P), Placed(net), NEW st, Sight(P, net, st, nodes),
           Reporting(net, st), Alone(net, st), Follows(Reports(net), nodes),
           NEW s \in Node, sendto(s)
    PROVE  Follows(Reports(net'), nodes)
<1> DEFINE out == <<"out", s>>
           pkt == net[out][1]
           buf == Reports(net)
<1>1. \A other \in P : other.dst \in Node
  BY DEF ForPeers
<1>2. out \in Lane /\ 1 \in 1 .. Len(net[out]) /\ out[1] # "in"
  BY <1>1, SendtoOnHost
<1>3. CASE pkt.dst # SUPERVISOR_PID
  <2>1. Reports(net') = buf
    BY <1>1, <1>3, PidFacts, SendtoOnHost DEF Reports
  <2>2. QED
    BY <2>1
<1>4. CASE pkt.dst = SUPERVISOR_PID
  <2>1. /\ Len(buf) \in Nat /\ Len(Reports(net')) = Len(buf) + 1
        /\ Reports(net')[Len(buf) + 1] = pkt
        /\ \A i \in 1 .. Len(buf) : Reports(net')[i] = buf[i]
    BY <1>1, <1>4, SendtoOnHost DEF Reports
  <2>2. ASSUME NEW p \in Proc, NEW q \in Proc, p # q, pkt \in EnteredFrom(q),
               \/ nodes[p] = "PS_EXECUTING"
               \/ \E i \in 1 .. Len(buf) : buf[i] \in EnteredFrom(p)
        PROVE  \E k \in 1 .. Len(buf) : buf[k] \in ExitedFrom(p)
    <3>1. ~HandedOver(net, EnteredFrom(q))
      BY <1>2, <2>2 DEF HandedOver
    <3>2. st[q] = "PS_EXECUTING"
      BY <3>1 DEF Reporting
    <3>3. st[p] # "PS_EXECUTING" /\ HandedOver(net, ExitedFrom(p))
      BY <2>2, <3>2 DEF Alone
    <3>4. View(net, st[p], nodes[p], p)
      BY DEF Sight
    <3>5. QED
      BY <2>2, <3>3, <3>4, OthersReported
  <2> HIDE DEF buf, pkt
  <2> DEFINE buf2 == Reports(net')
  <2>3. /\ Len(buf) \in Nat /\ Len(buf2) = Len(buf) + 1 /\ buf2[Len(buf) + 1] = pkt
        /\ \A i \in 1 .. Len(buf) : buf2[i] = buf[i]
    BY <2>1
  <2>4. Follows(buf, nodes)
    BY DEF buf
  <2> HIDE DEF buf2
  <2>5. Follows(buf2, nodes)
    BY <2>2, <2>3, <2>4, FollowsLast
  <2>6. QED
    BY <2>5 DEF buf2
<1>5. QED
  BY <1>3, <1>4

LEMMA ReportsSent ==
    ASSUME Net = "loopback", NetworkAssumption,
           NEW P, NEW n \in Nets(P), NEW m \in Nets(P), NEW New, Sent(n, m, New)
    PROVE  Reports(m) = Reports(n)
BY SentOnHost, PidFacts DEF Reports

LEMMA ReportsReceived ==
    ASSUME Net = "loopback", NetworkAssumption, NEW P, net \in Nets(P), NEW p \in Proc,
           NEW slot \in Receivable(p)
    PROVE  Reports(dme_recv_msg(slot)) = Reports(net)
<1> DEFINE m == dme_recv_msg(slot)
<1>1. p \in Node /\ SUPERVISOR_PID # p /\ SUPERVISOR_PID \in Node
  BY PidFacts
<1>2. \A l \in Lane : l # <<"in", p>> => m[l] = net[l]
  BY <1>1, ReceivedOnHost
<1>3. <<"in", SUPERVISOR_PID>> \in Lane /\ <<"in", SUPERVISOR_PID>> # <<"in", p>>
  BY <1>1, HostLanes
<1> HIDE DEF m
<1>4. QED
  BY <1>2, <1>3 DEF Reports, m

(***************************************************************************)
(* What a step of the supervisor sends, and what it does to the packets    *)
(* that wait in handlers.                                                  *)
(***************************************************************************)
LEMMA SupervisorSends ==
    ASSUME Net = "loopback", NetworkAssumption, SupervisorAssumption,
           NEW P, SupPackets \subseteq P, net \in Nets(P), syncro \/ do_work
    PROVE  \E New : /\ net' \in Nets(P) /\ Sent(net, net', New)
                    /\ \A pkt \in New : pkt.src = SUPERVISOR_PID /\ pkt \in SupPackets
<1>1. \A t \in {"SYNCRO", "WANT"} : \A pkt \in FromSupervisor(t) :
         pkt.src = SUPERVISOR_PID /\ pkt \in SupPackets
  <2>1. \A t \in {"SYNCRO", "WANT"} : \A d \in Proc :
           Packet(SUPERVISOR_PID, d, [type |-> t]) \in SupPackets
    BY PidFacts, SupPacketFacts
  <2>2. \A d, msg : Packet(SUPERVISOR_PID, d, msg).src = SUPERVISOR_PID
    BY DEF Packet
  <2>3. QED
    BY <2>1, <2>2 DEF FromSupervisor
<1>2. CASE syncro
  <2>1. net' \in Nets(P) /\ Sent(net, net', FromSupervisor("SYNCRO"))
    BY <1>2, SyncroSent
  <2>2. QED
    BY <1>1, <2>1
<1>3. CASE do_work
  <2>1. PICK pid_arr \in Elections :
           net' = SendToEach(net, SUPERVISOR_PID, pid_arr, [type |-> "WANT"])
    BY <1>3 DEF do_work
  <2> DEFINE New == {Packet(SUPERVISOR_PID, d, [type |-> "WANT"]) : d \in ToSet(pid_arr)}
  <2>2. New \subseteq FromSupervisor("WANT")
    BY ElectedOnce DEF FromSupervisor
  <2>3. net' \in Nets(P) /\ Sent(net, net', New)
    BY <2>1, WantsSent
  <2> HIDE DEF New
  <2>4. QED
    BY <1>1, <2>2, <2>3
<1>4. QED
  BY <1>2, <1>3

LEMMA AlarmSupervisor ==
    ASSUME Net = "loopback", OutOfBounds = {FALSE}, NetworkAssumption, SupervisorAssumption,
           SupTypeOK, NEW P, SupPackets \subseteq P, ForPeers(P), net \in Nets(P), Placed(net),
           NEW st, Sight(P, net, st, nodes), Unalarmed, SupNext
    PROVE  Unalarmed'
<1>1. CASE syncro \/ do_work
  <2>1. Reports(net') = Reports(net)
    BY <1>1, SupervisorSends, ReportsSent
  <2>2. nodes \in [Proc -> State] /\ exit_request' = exit_request
    BY <1>1 DEF SupTypeOK, syncro, do_work
  <2> DEFINE view2 == nodes'
  <2>3. \A p \in Proc : view2[p] = "PS_EXECUTING" => nodes[p] = "PS_EXECUTING"
    BY <1>1, <2>2 DEF syncro, do_work
  <2>4. Follows(Reports(net), nodes) /\ OneSeen(nodes) /\ ~exit_request[SUPERVISOR_PID]
    BY DEF Unalarmed
  <2> HIDE DEF view2
  <2>5. Follows(Reports(net), view2)
    BY <2>3, <2>4, FollowsView
  <2>6. OneSeen(view2)
    BY <2>3, <2>4 DEF OneSeen
  <2>7. QED
    BY <2>1, <2>2, <2>4, <2>5, <2>6 DEF Unalarmed, view2
<1>2. CASE SupReceive
  BY <1>2, AlarmReceive
<1>3. QED
  BY <1>1, <1>2 DEF SupNext

LEMMA AlarmInit ==
    ASSUME Net = "loopback", NetworkAssumption, NetInit, SupInit
    PROVE  Unalarmed
<1>1. Len(Reports(net)) = 0
  BY PidFacts, HostLanes, EmptySeq DEF NetInit, Reports
<1>2. Follows(Reports(net), nodes)
  BY <1>1 DEF Follows
<1>3. OneSeen(nodes) /\ ~exit_request[SUPERVISOR_PID]
  BY PidFacts DEF SupInit, OneSeen
<1>4. QED
  BY <1>2, <1>3 DEF Unalarmed

(* A peer's handler does not reach the supervisor's buffer or state. *)
LEMMA AlarmPeer ==
    ASSUME Unalarmed, UNCHANGED supVars, Reports(net') = Reports(net),
           exit_request'[SUPERVISOR_PID] = exit_request[SUPERVISOR_PID]
    PROVE  Unalarmed'
BY DEF Unalarmed, supVars

LEMMA ReportingSent ==
    ASSUME Net = "loopback", NEW P, NEW n \in Nets(P), NEW m \in Nets(P), NEW New,
           Sent(n, m, New), NEW st, NEW su,
           \A r \in Proc : New \cap EnteredFrom(r) = {} \/ su[r] = "PS_EXECUTING",
           \A r \in Proc : su[r] # "PS_EXECUTING" =>
                               st[r] # "PS_EXECUTING" \/ HandedOver(n, EnteredFrom(r)),
           Reporting(n, st)
    PROVE  Reporting(m, su)
BY SentWaits DEF Reporting

LEMMA ReportFacts ==
    \A p : /\ \A pkt \in EnteredFrom(p) : pkt.src = p /\ pkt.msg.type = "ENTERED"
          /\ \A pkt \in ExitedFrom(p) : pkt.src = p /\ pkt.msg.type = "EXITED"
BY DEF EnteredFrom, ExitedFrom, Packet

LEMMA ReportingMoved ==
    ASSUME NEW n, NEW m, NEW st, Reporting(n, st), \A T : HandedOver(n, T) => HandedOver(m, T)
    PROVE  Reporting(m, st)
BY DEF Reporting

(***************************************************************************)
(* How the way becomes free: p asks r, or does not have to because a packet*)
(* of T, sent by r, told p so.  What comes of T is behind r's EXITED.      *)
(***************************************************************************)
Cleared(n, asked, r, T) ==
    /\ Ahead(n, ExitedFrom(r), T)
    /\ asked \/ HandedOver(n, ExitedFrom(r))

LEMMA ClearedReceived ==
    ASSUME Net = "loopback", NEW P, net \in Nets(P), NEW d \in Node, NEW slot \in Receivable(d),
           NEW r, NEW T, NEW asked, Cleared(net, asked, r, T)
    PROVE  /\ Cleared(dme_recv_msg(slot), asked, r, T)
           /\ PacketAt(slot) \in T => Cleared(dme_recv_msg(slot), FALSE, r, T)
BY ReceivedOnHost DEF Cleared

LEMMA ClearedSent ==
    ASSUME Net = "loopback", NEW P, NEW n \in Nets(P), NEW m \in Nets(P), Placed(n), NEW New,
           Sent(n, m, New), NEW r, New \cap ExitedFrom(r) = {},
           NEW T, \A pkt \in T : pkt.src = r, NEW asked, Cleared(n, asked, r, T)
    PROVE  Cleared(m, asked, r, T)
<1>1. \A pkt \in ExitedFrom(r), other \in New \cap T : pkt.src = other.src
  BY DEF ExitedFrom, Packet
<1>2. HandedOver(n, ExitedFrom(r)) => HandedOver(m, ExitedFrom(r))
  BY SentWaits
<1>3. Ahead(m, ExitedFrom(r), T)
  BY <1>1, SentWaits DEF Cleared
<1>4. QED
  BY <1>2, <1>3 DEF Cleared

LEMMA ClearedSendto ==
    ASSUME Net = "loopback", NEW P, net \in Nets(P), \A pkt \in P : pkt.dst \in Node, Placed(net),
           NEW s \in Node, sendto(s), NEW r, NEW T, NEW asked, Cleared(net, asked, r, T)
    PROVE  Cleared(net', asked, r, T)
BY SendtoOnHost DEF Cleared

(* Who leaves is asked by everybody until it has said so. *)
LEMMA ClearedLeft ==
    ASSUME Net = "loopback", NEW n, NEW r, NEW T, NoneOf(n, T)
    PROVE  Cleared(n, TRUE, r, T)
BY NothingAhead DEF Cleared

(* What r sent to p of one type. *)
FromTo(P, t, r, p) == {pkt \in P : pkt.src = r /\ pkt.dst = p /\ pkt.msg.type = t}

(***************************************************************************)
(* The way into the critical region, where a packet of type t from r tells *)
(* p that it need not ask r any more; asks holds <<p, r>> while p does.    *)
(***************************************************************************)
OnHost(P, t, n, st, asks) ==
    /\ \A r \in Proc : \A p \in Proc \ {r} :
          Cleared(n, <<p, r>> \in asks, r, FromTo(P, t, r, p))
    /\ Reporting(n, st)

LEMMA HostMore ==
    ASSUME NEW P, NEW t, NEW n, NEW st, NEW asks, NEW more, OnHost(P, t, n, st, asks),
           asks \subseteq more
    PROVE  OnHost(P, t, n, st, more)
<1>1. ASSUME NEW r \in Proc, NEW p \in Proc \ {r}
      PROVE  Cleared(n, <<p, r>> \in more, r, FromTo(P, t, r, p))
  <2>1. Cleared(n, <<p, r>> \in asks, r, FromTo(P, t, r, p)) /\ (<<p, r>> \in asks => <<p, r>> \in more)
    BY DEF OnHost
  <2>2. QED
    BY <2>1 DEF Cleared
<1>2. QED
  BY <1>1 DEF OnHost

(* A message is received: p need not ask the sender of a packet of type t. *)
LEMMA HostTaken ==
    ASSUME Net = "loopback", NetworkAssumption, NEW P, net \in Nets(P), NEW p \in Proc,
           NEW slot \in Receivable(p), NEW t, NEW st, NEW asks, OnHost(P, t, net, st, asks)
    PROVE  LET m == dme_recv_msg(slot) IN
           /\ OnHost(P, t, m, st, asks)
           /\ Reports(m) = Reports(net)
           /\ \A q \in Proc \ {p} : PacketAt(slot) \in FromTo(P, t, q, p) =>
                 OnHost(P, t, m, st, asks \ {<<p, q>>})
<1> DEFINE m == dme_recv_msg(slot)
<1>1. p \in Node
  BY PidFacts
<1>2. Reports(m) = Reports(net)
  BY ReportsReceived
<1>3. \A T : HandedOver(net, T) => HandedOver(m, T)
  BY <1>1, ReceivedOnHost
<1>4. \A r \in Proc : \A d \in Proc \ {r} :
         /\ Cleared(m, <<d, r>> \in asks, r, FromTo(P, t, r, d))
         /\ PacketAt(slot) \in FromTo(P, t, r, d) => Cleared(m, FALSE, r, FromTo(P, t, r, d))
  BY <1>1, ClearedReceived DEF OnHost
<1> HIDE DEF m
<1>5. Reporting(m, st)
  BY <1>3, ReportingMoved DEF OnHost
<1>6. ASSUME NEW q \in Proc \ {p}, PacketAt(slot) \in FromTo(P, t, q, p)
      PROVE  OnHost(P, t, m, st, asks \ {<<p, q>>})
  <2> DEFINE less == asks \ {<<p, q>>}
  <2>1. ASSUME NEW r \in Proc, NEW d \in Proc \ {r}
        PROVE  Cleared(m, <<d, r>> \in less, r, FromTo(P, t, r, d))
    <3>1. CASE r = q /\ d = p
      <4>1. Cleared(m, FALSE, r, FromTo(P, t, r, d))
        BY <1>4, <1>6, <3>1
      <4>2. QED
        BY <4>1 DEF Cleared
    <3>2. CASE ~(r = q /\ d = p)
      <4>1. <<d, r>> \in less <=> <<d, r>> \in asks
        BY <3>2
      <4>2. Cleared(m, <<d, r>> \in asks, r, FromTo(P, t, r, d))
        BY <1>4
      <4> HIDE DEF less
      <4>3. QED
        BY <4>1, <4>2 DEF Cleared
    <3>3. QED
      BY <3>1, <3>2
  <2> HIDE DEF less
  <2>2. QED
    BY <1>5, <2>1 DEF OnHost, less
<1>7. QED
  BY <1>2, <1>4, <1>5, <1>6 DEF OnHost, m

(* A handler sends nothing to the supervisor, *)
LEMMA HostSent ==
    ASSUME Net = "loopback", NetworkAssumption, NEW P, NEW n \in Nets(P), Placed(n),
           NEW m \in Nets(P), NEW New, Sent(n, m, New),
           \A pkt \in New : pkt.msg.type \notin {"ENTERED", "EXITED"},
           NEW t, NEW st, NEW asks, OnHost(P, t, n, st, asks)
    PROVE  OnHost(P, t, m, st, asks) /\ Reports(m) = Reports(n)
<1>1. \A r \in Proc : New \cap ExitedFrom(r) = {} /\ New \cap EnteredFrom(r) = {}
  BY ReportFacts
<1>2. ASSUME NEW r \in Proc, NEW p \in Proc \ {r}
      PROVE  Cleared(m, <<p, r>> \in asks, r, FromTo(P, t, r, p))
  <2>1. \A pkt \in FromTo(P, t, r, p) : pkt.src = r
    BY DEF FromTo
  <2>2. Cleared(n, <<p, r>> \in asks, r, FromTo(P, t, r, p))
    BY DEF OnHost
  <2>3. QED
    BY <1>1, <2>1, <2>2, ClearedSent
<1>3. Reporting(n, st)
  BY DEF OnHost
<1>4. Reporting(m, st)
  BY <1>1, <1>3, ReportingSent
<1>5. QED
  BY <1>2, <1>4, ReportsSent DEF OnHost

LEMMA HostTold ==
    ASSUME Net = "loopback", NetworkAssumption, NEW P, NEW n \in Nets(P), Placed(n),
           NEW p \in Node, NEW q \in Node, NEW msg, Packet(p, q, msg) \in P,
           msg.type \notin {"ENTERED", "EXITED"},
           NEW t, NEW st, NEW asks, OnHost(P, t, n, st, asks)
    PROVE  LET m == dme_send_msg(n, p, q, msg) IN
           m \in Nets(P) /\ Placed(m) /\ OnHost(P, t, m, st, asks) /\ Reports(m) = Reports(n)
<1> DEFINE m == dme_send_msg(n, p, q, msg)
<1>1. m \in Nets(P) /\ Placed(m) /\ Sent(n, m, {Packet(p, q, msg)})
  BY OneTold
<1>2. \A pkt \in {Packet(p, q, msg)} : pkt.msg.type \notin {"ENTERED", "EXITED"}
  BY DEF Packet
<1> HIDE DEF m
<1>3. QED
  BY <1>1, <1>2, HostSent DEF m

(* or that its peer has entered, *)
LEMMA HostEntered ==
    ASSUME Net = "loopback", NetworkAssumption, NEW P, SupPackets \subseteq P,
           NEW n \in Nets(P), Placed(n), NEW t, NEW st \in [Proc -> State], NEW asks,
           OnHost(P, t, n, st, asks), NEW p \in Proc
    PROVE  LET m == dme_send_msg(n, p, SUPERVISOR_PID, [type |-> "ENTERED"]) IN
           OnHost(P, t, m, [st EXCEPT ![p] = "PS_EXECUTING"], asks) /\ Reports(m) = Reports(n)
<1> DEFINE m == dme_send_msg(n, p, SUPERVISOR_PID, [type |-> "ENTERED"])
           New == {Packet(p, SUPERVISOR_PID, [type |-> "ENTERED"])}
           su == [st EXCEPT ![p] = "PS_EXECUTING"]
<1>1. m \in Nets(P) /\ Sent(n, m, New)
  BY SupervisorTold
<1>2. New = EnteredFrom(p)
  BY DEF EnteredFrom
<1>3. su[p] = "PS_EXECUTING" /\ \A r \in Proc \ {p} : su[r] = st[r]
  OBVIOUS
<1> HIDE DEF m, New, su
<1>4. \A r \in Proc : /\ New \cap ExitedFrom(r) = {}
                      /\ r # p => New \cap EnteredFrom(r) = {}
  BY <1>2, ReportFacts
<1>5. ASSUME NEW r \in Proc, NEW q \in Proc \ {r}
      PROVE  Cleared(m, <<q, r>> \in asks, r, FromTo(P, t, r, q))
  <2>1. \A pkt \in FromTo(P, t, r, q) : pkt.src = r
    BY DEF FromTo
  <2>2. Cleared(n, <<q, r>> \in asks, r, FromTo(P, t, r, q))
    BY DEF OnHost
  <2>3. QED
    BY <1>1, <1>4, <2>1, <2>2, ClearedSent
<1>6. Reporting(n, st)
  BY DEF OnHost
<1>7. Reporting(m, su)
  <2>1. \A r \in Proc : New \cap EnteredFrom(r) = {} \/ su[r] = "PS_EXECUTING"
    BY <1>3, <1>4
  <2>2. \A r \in Proc : su[r] # "PS_EXECUTING" =>
            st[r] # "PS_EXECUTING" \/ HandedOver(n, EnteredFrom(r))
    BY <1>3
  <2>3. QED
    BY <1>1, <1>6, <2>1, <2>2, ReportingSent
<1>8. Reports(m) = Reports(n)
  BY <1>1, ReportsSent
<1>9. QED
  BY <1>5, <1>7, <1>8 DEF OnHost, m, su

(* or has left: it is asked by everybody, and told nobody that it need not be. *)
LEMMA HostLeft ==
    ASSUME Net = "loopback", NetworkAssumption, NEW P, SupPackets \subseteq P, net \in Nets(P),
           Placed(net), NEW t, t # "EXITED", NEW st \in [Proc -> State], NEW asks,
           OnHost(P, t, net, st, asks), NEW p \in Proc, Waiting(p),
           \A d \in Proc \ {p} : <<d, p>> \in asks /\ NoneOf(net, FromTo(P, t, p, d))
    PROVE  LET m == InformExited(p) IN
           OnHost(P, t, m, [st EXCEPT ![p] = "PS_IDLE"], asks) /\ Reports(m) = Reports(net)
<1> DEFINE m == InformExited(p)
           New == {Packet(p, SUPERVISOR_PID, [type |-> "EXITED"])}
           su == [st EXCEPT ![p] = "PS_IDLE"]
<1>1. m \in Nets(P) /\ Sent(net, m, New)
  BY SupervisorTold DEF InformExited
<1>2. New = ExitedFrom(p)
  BY DEF ExitedFrom
<1>3. \A r \in Proc \ {p} : su[r] = st[r]
  OBVIOUS
<1> HIDE DEF m, New, su
<1>4. /\ \A r \in Proc : New \cap EnteredFrom(r) = {}
      /\ \A r \in Proc \ {p} : New \cap ExitedFrom(r) = {}
      /\ \A pkt \in New : pkt.msg.type = "EXITED"
  BY <1>2, ReportFacts
<1>5. ASSUME NEW r \in Proc, NEW d \in Proc \ {r}
      PROVE  Cleared(m, <<d, r>> \in asks, r, FromTo(P, t, r, d))
  <2>1. CASE r = p
    <3>1. <<d, p>> \in asks /\ NoneOf(net, FromTo(P, t, p, d))
      BY <2>1
    <3>2. New \cap FromTo(P, t, p, d) = {}
      BY <1>4 DEF FromTo
    <3>3. NoneOf(m, FromTo(P, t, p, d))
      BY <1>1, <3>1, <3>2, SentProperties
    <3>4. Cleared(m, TRUE, p, FromTo(P, t, p, d))
      BY <3>3, ClearedLeft
    <3>5. QED
      BY <2>1, <3>1, <3>4 DEF Cleared
  <2>2. CASE r # p
    <3>1. \A pkt \in FromTo(P, t, r, d) : pkt.src = r
      BY DEF FromTo
    <3>2. Cleared(net, <<d, r>> \in asks, r, FromTo(P, t, r, d))
      BY DEF OnHost
    <3>3. QED
      BY <1>1, <1>4, <2>2, <3>1, <3>2, ClearedSent
  <2>3. QED
    BY <2>1, <2>2
<1>6. Reporting(m, su)
  <2>1. HandedOver(net, EnteredFrom(p))
    <3>1. \A pkt \in EnteredFrom(p) : pkt.src = p
      BY ReportFacts
    <3>2. p \in Node
      BY PidFacts
    <3>3. QED
      BY <3>1, <3>2, NothingWaits
  <2>2. \A r \in Proc : su[r] # "PS_EXECUTING" =>
            st[r] # "PS_EXECUTING" \/ HandedOver(net, EnteredFrom(r))
    BY <1>3, <2>1
  <2>3. \A r \in Proc : New \cap EnteredFrom(r) = {} \/ su[r] = "PS_EXECUTING"
    BY <1>4
  <2>4. Reporting(net, st)
    BY DEF OnHost
  <2>5. QED
    BY <1>1, <2>2, <2>3, <2>4, ReportingSent
<1>7. QED
  BY <1>1, <1>5, <1>6, ReportsSent DEF OnHost, m, su

LEMMA HostSendto ==
    ASSUME Net = "loopback", NetworkAssumption, NEW P, ForPeers(P), net \in Nets(P), Placed(net),
           NEW t, NEW st, NEW asks, OnHost(P, t, net, st, asks), Alone(net, st),
           Sight(P, net, st, nodes), Unalarmed, NEW s \in Node, sendto(s),
           UNCHANGED <<supVars, exit_request>>
    PROVE  OnHost(P, t, net', st, asks) /\ Unalarmed'
<1>1. \A pkt \in P : pkt.dst \in Node
  BY DEF ForPeers
<1>2. \A T : HandedOver(net, T) => HandedOver(net', T)
  BY <1>1, SendtoOnHost
<1>3. Reporting(net', st)
  BY <1>2, ReportingMoved DEF OnHost
<1>4. \A r \in Proc : \A p \in Proc \ {r} :
         Cleared(net', <<p, r>> \in asks, r, FromTo(P, t, r, p))
  BY <1>1, ClearedSendto DEF OnHost
<1>5. Follows(Reports(net'), nodes)
  BY AlarmSendto DEF OnHost, Unalarmed
<1>6. QED
  BY <1>3, <1>4, <1>5 DEF OnHost, Unalarmed, supVars

LEMMA HostSupervisor ==
    ASSUME Net = "loopback", OutOfBounds = {FALSE}, NetworkAssumption, SupervisorAssumption,
           SupTypeOK, NEW P, SupPackets \subseteq P, ForPeers(P), net \in Nets(P), Placed(net),
           NEW t, NEW st, NEW asks, OnHost(P, t, net, st, asks), Alone(net, st),
           Sight(P, net, st, nodes), Unalarmed,
           SupNext \/ (sendto(SUPERVISOR_PID) /\ UNCHANGED <<supVars, exit_request>>)
    PROVE  OnHost(P, t, net', st, asks) /\ Unalarmed'
<1>1. CASE syncro \/ do_work
  <2>1. PICK New : /\ net' \in Nets(P) /\ Sent(net, net', New)
                   /\ \A pkt \in New : pkt.src = SUPERVISOR_PID /\ pkt \in SupPackets
    BY <1>1, SupervisorSends
  <2>2. \A r \in Proc : New \cap ExitedFrom(r) = {} /\ New \cap EnteredFrom(r) = {}
    BY <2>1, PidFacts, ReportFacts
  <2>3. ASSUME NEW r \in Proc, NEW p \in Proc \ {r}
        PROVE  Cleared(net', <<p, r>> \in asks, r, FromTo(P, t, r, p))
    <3>1. \A pkt \in FromTo(P, t, r, p) : pkt.src = r
      BY DEF FromTo
    <3>2. Cleared(net, <<p, r>> \in asks, r, FromTo(P, t, r, p))
      BY DEF OnHost
    <3>3. QED
      BY <2>1, <2>2, <3>1, <3>2, ClearedSent
  <2>4. Reporting(net', st)
    BY <2>1, <2>2, ReportingSent DEF OnHost
  <2>5. Unalarmed'
    BY <1>1, AlarmSupervisor DEF SupNext
  <2>6. QED
    BY <2>3, <2>4, <2>5 DEF OnHost
<1>2. CASE SupReceive
  <2>1. PICK slot \in Receivable(SUPERVISOR_PID) : net' = dme_recv_msg(slot)
    BY <1>2 DEF SupReceive
  <2>2. SUPERVISOR_PID \in Node
    BY PidFacts
  <2>3. \A T : HandedOver(net, T) => HandedOver(net', T)
    BY <2>1, <2>2, ReceivedOnHost
  <2>4. Reporting(net', st)
    BY <2>3, ReportingMoved DEF OnHost
  <2>5. \A r \in Proc : \A p \in Proc \ {r} :
           Cleared(net', <<p, r>> \in asks, r, FromTo(P, t, r, p))
    BY <2>1, <2>2, ClearedReceived DEF OnHost
  <2>6. Unalarmed'
    BY <1>2, AlarmReceive
  <2>7. QED
    BY <2>4, <2>5, <2>6 DEF OnHost
<1>3. CASE sendto(SUPERVISOR_PID) /\ UNCHANGED <<supVars, exit_request>>
  BY <1>3, PidFacts, HostSendto
<1>4. QED
  BY <1>1, <1>2, <1>3 DEF SupNext

LEMMA HostInit ==
    ASSUME Net = "loopback", NetworkAssumption, NetInit, SupInit, NEW P, NEW t, NEW st, NEW asks
    PROVE  OnHost(P, t, net, st, asks) /\ Unalarmed
<1>1. \A T : NoneOf(net, T)
  BY NothingThere
<1>2. \A T : HandedOver(net, T)
  BY <1>1, NoneHandedOver
<1>3. \A r \in Proc : \A p \in Proc \ {r} :
         Cleared(net, <<p, r>> \in asks, r, FromTo(P, t, r, p))
  BY <1>1, <1>2, NothingAhead DEF Cleared
<1>4. QED
  BY <1>2, <1>3, AlarmInit DEF OnHost, Reporting

-----------------------------------------------------------------------------
(***************************************************************************)
(* The clock, for the algorithms that stamp their requests: an instant is  *)
(* read as seconds and the rest, n parts to the second, and differences    *)
(* wrap at U.                                                              *)
(***************************************************************************)
LEMMA DivMod ==
    ASSUME NEW x \in Nat, NEW n \in Nat \ {0}
    PROVE  /\ x \div n \in Nat /\ x % n \in Nat /\ x % n < n
           /\ x = n * (x \div n) + (x % n)
BY Z3

LEMMA Product ==
    ASSUME NEW n \in Nat, NEW a \in Int, NEW b \in Int, a < b
    PROVE  n * a + n <= n * b
<1>1. PICK d \in Nat : b = a + 1 + d
  <2>1. b - a - 1 \in Nat /\ b = a + 1 + (b - a - 1)
    OBVIOUS
  <2>2. QED
    BY <2>1
<1>2. n * b = n * a + n + n * d
  BY <1>1, Z3
<1>3. n * d \in Nat /\ n * a \in Int
  BY <1>1, Z3
<1>4. QED
  BY <1>2, <1>3

LEMMA Rest ==
    ASSUME NEW x \in Nat, NEW n \in Nat \ {0}, NEW k \in Nat, NEW r \in Nat,
           r < n, x = n * k + r
    PROVE  x % n = r /\ x \div n = k
<1> DEFINE j == x \div n
           s == x % n
<1>1. j \in Nat /\ s \in Nat /\ s < n /\ x = n * j + s
  BY DivMod
<1> HIDE DEF j, s
<1>2. n * j \in Int /\ n * k \in Int
  BY <1>1, Z3
<1>3. ~(j < k) /\ ~(k < j)
  BY <1>1, <1>2, Product
<1>4. j = k
  BY <1>1, <1>3
<1>5. QED
  BY <1>1, <1>2, <1>4 DEF j, s

(* What MinusUint32 gives for a difference that fits. *)
LEMMA Difference ==
    ASSUME NEW U \in Nat \ {0}, NEW a \in Nat, NEW e \in Nat, e < U
    PROVE  (a + e + U - (a % U)) % U = e
<1> DEFINE r == a % U
           k == a \div U
<1>1. r \in Nat /\ k \in Nat /\ r < U /\ a = U * k + r
  BY DivMod
<1> HIDE DEF r, k
<1>2. U * (k + 1) = U * k + U /\ U * k \in Nat
  BY <1>1, Z3
<1>3. a + e + U - r = U * (k + 1) + e /\ k + 1 \in Nat /\ a + e + U - r \in Nat
  BY <1>1, <1>2
<1>4. (a + e + U - r) % U = e
  BY <1>3, Rest
<1>5. QED
  BY <1>4 DEF r

LEMMA LaterReading ==
    ASSUME NEW N \in Nat \ {0}, NEW t \in Nat, NEW u \in Nat, t < u
    PROVE  \/ t \div N < u \div N
           \/ t \div N = u \div N /\ t % N < u % N
<1> DEFINE x == t \div N
           y == u \div N
           r == t % N
           s == u % N
<1>1. /\ x \in Nat /\ r \in Nat /\ r < N /\ t = N * x + r
      /\ y \in Nat /\ s \in Nat /\ s < N /\ u = N * y + s
  BY DivMod
<1> HIDE DEF x, y, r, s
<1>2. N * x \in Int /\ N * y \in Int
  BY <1>1, Z3
<1>3. ~(y < x)
  BY <1>1, <1>2, Product
<1>4. x = y => r < s
  BY <1>1, <1>2
<1>5. x < y \/ (x = y /\ r < s)
  BY <1>1, <1>3, <1>4
<1>6. QED
  BY <1>5 DEF x, y, r, s
=============================================================================

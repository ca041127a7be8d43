------------------------------- MODULE Suzuki -------------------------------
(***************************************************************************)
(* src/suzuki.c: the Suzuki-Kasami token algorithm.  One token exists; it  *)
(* carries, for every process, the number of its last served request (LN)  *)
(* and the queue of the processes waiting for it.  Process 1 starts with   *)
(* the token.                                                              *)
(***************************************************************************)
EXTENDS Peer

(***************************************************************************)
(* RN, LN and the queue are arrays of 50 with cell 0 unused and the queue  *)
(* terminated by a zero; nothing in the code checks nodes_count.           *)
(***************************************************************************)
ASSUME SuzukiAssumption == nodes_count < 49

VARIABLES
    suzuki_RN,          \* suzuki_RN[p][q]: largest request number p knows of q
    i_have_token,
    my_token,
    entered_queued      \* entered_queued[p]: ENTERED events in p's signal queue

suzukiVars == <<suzuki_RN, i_have_token, my_token, entered_queued>>
vars == <<net, supVars, exit_request, peerVars, suzukiVars>>

(***************************************************************************)
(* pseudo_queue is filled at its front and emptied at its end.             *)
(***************************************************************************)
NoToken == [suzuki_LN |-> [q \in Proc |-> 0], pseudo_queue |-> <<>>]

Token == [suzuki_LN : [Proc -> Nat], pseudo_queue : Seq(Proc)]

REQUEST(p, req_no) == [type |-> "REQUEST", pid |-> p, req_no |-> req_no]
ReplyWithoutPid(p, tok) == [type |-> "REPLY", pid |-> 0, token |-> tok]  \* faulty
REPLY(p, tok) == [type |-> "REPLY", pid |-> p, token |-> tok]

Init ==
    /\ NetInit
    /\ SupInit
    /\ PeerInit
    /\ suzuki_RN = [p \in Proc |-> [q \in Proc |-> 0]]
    /\ i_have_token = [p \in Proc |-> p = 1]
    /\ my_token = [p \in Proc |-> NoToken]
    /\ entered_queued = [p \in Proc |-> 0]

EligibleUnlessQueued(tok, rn, q) == q \notin ToSet(tok.pseudo_queue)     \* faulty

EligibleOneLate(tok, rn, q) ==      \* faulty: off by one
    rn = tok.suzuki_LN[q] + 2 /\ q \notin ToSet(tok.pseudo_queue)

(* A request of q with the number rn is outstanding and not yet queued. *)
Eligible(tok, rn, q) ==
    /\ rn = tok.suzuki_LN[q] + 1
    /\ q \notin ToSet(tok.pseudo_queue)

request_queue_insert(tok, q) == [tok EXCEPT !.pseudo_queue = <<q>> \o @]

request_queue_pop(tok) == [tok EXCEPT !.pseudo_queue = IF @ = <<>> THEN @ ELSE Front(@)]

(***************************************************************************)
(* pseudo_queue[request_queue_final_idx()].  With an empty queue the index *)
(* is -1, and the cell before pseudo_queue is suzuki_LN[49]: 0, which is   *)
(* the supervisor's pid.                                                   *)
(***************************************************************************)
FinalElement(tok) ==
    IF tok.pseudo_queue = <<>> THEN SUPERVISOR_PID ELSE Last(tok.pseudo_queue)

SendTokenCopy(p, tok, n) ==         \* faulty: the sender keeps the token
    /\ net' = dme_send_msg(n, p, FinalElement(tok), REPLY(p, request_queue_pop(tok)))
    /\ UNCHANGED <<i_have_token, my_token>>

(* Give the token to the final element of its queue. *)
SendToken(p, tok, n) ==
    /\ net' = dme_send_msg(n, p, FinalElement(tok), REPLY(p, request_queue_pop(tok)))
    /\ i_have_token' = [i_have_token EXCEPT ![p] = FALSE]
    /\ my_token' = [my_token EXCEPT ![p] = NoToken]

(***************************************************************************)
(* process_ev_want_cr, called by handle_supervisor_msg.  With the token in *)
(* hand the ENTERED event is queued, not handled at once, so messages may  *)
(* be handled in between.                                                  *)
(***************************************************************************)
process_ev_want_cr(p, slot) ==
    /\ SupervisorMsgAt(p, slot)
    /\ IsWant(p, slot)
    /\ fsm_state' = [fsm_state EXCEPT ![p] = "PS_PENDING"]
    /\ suzuki_RN' = [suzuki_RN EXCEPT ![p][p] = @ + 1]
    /\ IF i_have_token[p]
       THEN /\ entered_queued' = [entered_queued EXCEPT ![p] = @ + 1]
            /\ net' = dme_recv_msg(slot)
       ELSE /\ net' = dme_broadcast_msg(dme_recv_msg(slot), p,
                                        REQUEST(p, suzuki_RN[p][p] + 1))
            /\ UNCHANGED entered_queued
    /\ UNCHANGED <<exited_due, exit_request, i_have_token, my_token>>

(***************************************************************************)
(* handle_peer_msg, a REQUEST.  Only an idle holder of the token acts on   *)
(* it, and it gives the token away even when the request is not eligible.  *)
(***************************************************************************)
RequestWithToken(p, slot) ==
    /\ PeerMsgAt(p, slot)
    /\ fsm_state[p] = "PS_IDLE"
    /\ i_have_token[p]
    /\ LET msg == PacketAt(slot).msg IN
       /\ msg.type = "REQUEST"
       /\ LET rn  == LargerOf(suzuki_RN[p][msg.pid], msg.req_no)
              tok == IF Eligible(my_token[p], rn, msg.pid)
                     THEN request_queue_insert(my_token[p], msg.pid)
                     ELSE my_token[p]
          IN  /\ suzuki_RN' = [suzuki_RN EXCEPT ![p][msg.pid] = rn]
              /\ SendToken(p, tok, dme_recv_msg(slot))
    /\ UNCHANGED <<peerVars, exit_request, entered_queued>>

RequestNoted(p, slot) ==
    /\ PeerMsgAt(p, slot)
    /\ fsm_state[p] = "PS_IDLE" => ~i_have_token[p]
    /\ LET msg == PacketAt(slot).msg IN
       /\ msg.type = "REQUEST"
       /\ suzuki_RN' = [suzuki_RN EXCEPT ![p][msg.pid] = LargerOf(@, msg.req_no)]
    /\ net' = dme_recv_msg(slot)
    /\ UNCHANGED <<peerVars, exit_request, i_have_token, my_token, entered_queued>>

(***************************************************************************)
(* handle_peer_msg, a REPLY: the token.  A peer that does not wait for it  *)
(* drops it.                                                               *)
(***************************************************************************)
TokenReceived(p, slot) ==
    /\ PeerMsgAt(p, slot)
    /\ PacketAt(slot).msg.type = "REPLY"
    /\ IF fsm_state[p] = "PS_PENDING"
       THEN /\ i_have_token' = [i_have_token EXCEPT ![p] = TRUE]
            /\ my_token' = [my_token EXCEPT ![p] = PacketAt(slot).msg.token]
            /\ process_ev_entered_cr(p, fsm_state[p], dme_recv_msg(slot))
       ELSE /\ net' = dme_recv_msg(slot)
            /\ UNCHANGED <<peerVars, exit_request, i_have_token, my_token>>
    /\ UNCHANGED <<suzuki_RN, entered_queued>>

(* The queued ENTERED event is handled. *)
EnteredDelivered(p) ==
    /\ Waiting(p)
    /\ entered_queued[p] > 0
    /\ entered_queued' = [entered_queued EXCEPT ![p] = @ - 1]
    /\ process_ev_entered_cr(p, fsm_state[p], net)
    /\ UNCHANGED <<suzuki_RN, i_have_token, my_token>>

LeaveUncounted(tok, p) == tok       \* faulty: LN is not advanced

(* The request p was served for is done. *)
CountServed(tok, p) == [tok EXCEPT !.suzuki_LN[p] = @ + 1]

(***************************************************************************)
(* process_ev_exited_cr.  The loop over 1..49 puts every eligible process  *)
(* at the front of the queue, the largest pid foremost.                    *)
(***************************************************************************)
process_ev_exited_cr(p) ==
    /\ ExitedDue(p)
    /\ IF fsm_state[p] # "PS_EXECUTING"
       THEN Fatal(p, net) /\ UNCHANGED <<i_have_token, my_token>>
       ELSE LET served == CountServed(my_token[p], p)
                waiting == {q \in Proc : Eligible(served, suzuki_RN[p][q], q)}
            IN  /\ LeaveCriticalRegion(p)
                /\ \E added \in [1 .. Cardinality(waiting) -> waiting] :
                      /\ \A i, j \in DOMAIN added : i < j => added[i] > added[j]
                      /\ LET tok == [served EXCEPT !.pseudo_queue = added \o @]
                         IN  IF tok.pseudo_queue # <<>>
                             THEN SendToken(p, tok, InformExited(p))
                             ELSE /\ net' = InformExited(p)
                                  /\ my_token' = [my_token EXCEPT ![p] = tok]
                                  /\ UNCHANGED i_have_token
    /\ UNCHANGED <<suzuki_RN, entered_queued>>

handle_message(p) ==
    \E slot \in Receivable(p) :
        \/ SupervisorMsgNoted(p, slot) /\ UNCHANGED suzukiVars
        \/ process_ev_want_cr(p, slot)
        \/ RequestWithToken(p, slot)
        \/ RequestNoted(p, slot)
        \/ TokenReceived(p, slot)

PeerNext(p) ==
    /\ \/ handle_message(p)
       \/ EnteredDelivered(p)
       \/ process_ev_exited_cr(p)
       \/ sendto(p) /\ UNCHANGED <<exit_request, peerVars, suzukiVars>>
    /\ SupervisorUnchanged

SupervisorNext ==
    /\ SupNext \/ (sendto(SUPERVISOR_PID) /\ UNCHANGED <<supVars, exit_request>>)
    /\ UNCHANGED <<peerVars, suzukiVars>>

Next ==
    \/ SupervisorNext
    \/ \E p \in Proc : PeerNext(p)
    \/ ExperimentOver /\ UNCHANGED vars

Spec == Init /\ [][Next]_vars

(***************************************************************************)
(* wait_events blocks in sigwaitinfo and handles whatever is queued, and   *)
(* the kernel delivers: every node with something to do does it.  The      *)
(* supervisor starts a new test whenever it may, its timer never stops.    *)
(***************************************************************************)
FairSpec ==
    /\ Spec
    /\ WF_vars(SupervisorNext)
    /\ \A p \in Proc : WF_vars(PeerNext(p))
-----------------------------------------------------------------------------
TokenMsg == [type : {"REPLY"}, pid : Proc, token : Token]

TokenPacket == [src : Node, dst : Node, msg : TokenMsg]

PeerMsg == [type : {"REQUEST"}, pid : Proc, req_no : Nat] \cup TokenMsg

PacketType == [src : Node, dst : Node, msg : SupMsg \cup PeerMsg]

TokensInFlight == {pkt \in Packets : pkt.msg.type = "REPLY"}

Tokens ==
    {my_token[p] : p \in {q \in Proc : i_have_token[q]}}
        \cup {pkt.msg.token : pkt \in TokensInFlight}

TypeOK ==
    /\ net \in [Lane -> Seq(PacketType)]
    /\ SupTypeOK
    /\ PeerTypeOK
    /\ suzuki_RN \in [Proc -> [Proc -> Nat]]
    /\ i_have_token \in [Proc -> BOOLEAN]
    /\ my_token \in [Proc -> Token]
    /\ entered_queued \in [Proc -> Nat]

(***************************************************************************)
(* There is never more than one token, held or on its way, and only its    *)
(* holder executes: suzuki.c clears i_have_token in the handler that sends *)
(* the token and sets it in the one that takes it.                         *)
(***************************************************************************)
TokenUnique ==
    /\ \A p, q \in Proc : i_have_token[p] /\ i_have_token[q] => p = q
    /\ \A p \in Proc : i_have_token[p] => NoneOf(net, TokenPacket)
    /\ AtMostOneOf(net, TokenPacket)
    /\ \A p \in Proc : fsm_state[p] = "PS_EXECUTING" => i_have_token[p]

(***************************************************************************)
(* The token is never lost either: on one host somebody always has it or   *)
(* is being sent it.                                                       *)
(***************************************************************************)
TokenKept == (\E p \in Proc : i_have_token[p]) \/ (\E pkt \in TokensInFlight : pkt.dst \in Proc)

(***************************************************************************)
(* The events in a peer's signal queue and on its timers are the ones its  *)
(* state waits for: one EXITED while it executes, an ENTERED only while it *)
(* is pending with the token in hand.  So the guards of the event handlers *)
(* cannot fail.                                                            *)
(***************************************************************************)
EventsMatchState ==
    \A p \in Proc :
        /\ exited_due[p] = (IF fsm_state[p] = "PS_EXECUTING" THEN 1 ELSE 0)
        /\ entered_queued[p] \in {0, 1}
        /\ entered_queued[p] = 1 => fsm_state[p] = "PS_PENDING" /\ i_have_token[p]

(***************************************************************************)
(* Whoever is in the token's queue, or is being sent the token, is waiting *)
(* for it: a peer that is not PENDING would drop it.  This is what the     *)
(* comparison of RN with LN + 1 is for, when old requests arrive late.     *)
(***************************************************************************)
TokenIsWanted ==
    /\ \A tok \in Tokens : \A q \in ToSet(tok.pseudo_queue) : fsm_state[q] = "PS_PENDING"
    /\ \A pkt \in TokensInFlight :
          pkt.dst \in Proc => fsm_state[pkt.dst] = "PS_PENDING"

(***************************************************************************)
(* The token's LN counts the served requests of every process exactly: a   *)
(* process out of the protocol has been served as often as it has asked,   *)
(* any other is one ahead.                                                 *)
(***************************************************************************)
ServedAreCounted ==
    \A tok \in Tokens : \A q \in Proc :
        suzuki_RN[q][q] =
            tok.suzuki_LN[q] + (IF fsm_state[q] = "PS_IDLE" THEN 0 ELSE 1)

(***************************************************************************)
(* "the supervisor uses only SUP messages": no peer sends it anything else.*)
(***************************************************************************)
SupervisorGetsSupMessages ==
    \A pkt \in Packets : pkt.dst = SUPERVISOR_PID => pkt.msg \in SupMsg

(***************************************************************************)
(* The peers running suzuki.c are a mutual exclusion protocol.             *)
(***************************************************************************)
Abstract == INSTANCE Mutex WITH state <- fsm_state

MutexSpec == Abstract!Spec
=============================================================================

------------------------- MODULE PeerProgramProofs -------------------------
(***************************************************************************)
(* The peer program keeps account of its signals, timers and events, and   *)
(* every step of it is a step of EventLoop, for every MAX_TIMERS, whatever *)
(* packets come and whatever the command line and the file.  The second    *)
(* half is about the start of both programs: what an accepted file has put *)
(* into the array of nodes, and that the election is defined.              *)
(***************************************************************************)
EXTENDS PeerProgram, EventsProofs

Assumptions == EventsAssumption /\ PeerProgramAssumption

(***************************************************************************)
(* The events that are due fit the state only as long as schedule_event    *)
(* finds a slot; a slot is free because only EXITED events have timers and *)
(* none is due when a process enters.                                      *)
(***************************************************************************)
IInv ==
    /\ TypeOK
    /\ EngineOK
    /\ TimersAreFor("EXITED")
    /\ EventsMatchPhase

-----------------------------------------------------------------------------
(* ENTERED is never due on a timer. *)
LEMMA NoTimerForEntered ==
    ASSUME EventsAssumption, NEW pool \in [Slot -> Event \cup {"none"}], NEW c \in Seq(Cookie),
           \A ix \in Slot : pool[ix] \in {"none", "EXITED"},
           \A k \in 1 .. Len(c) : c[k].stc_evt = "EXITED"
    PROVE  Running(pool, "ENTERED") = 0 /\ Expired(c, "ENTERED") = 0
<1>1. "ENTERED" \in Event /\ "EXITED" # "ENTERED" /\ "none" # "ENTERED"
  BY DEF Event
<1>2. Running(pool, "ENTERED") = 0
  BY <1>1, RunningIs
<1>3. Expired(c, "ENTERED") = 0
  BY <1>1, ExpiredIs
<1>4. QED
  BY <1>2, <1>3

(* Where the two events may be due. *)
LEMMA PhaseFacts ==
    ASSUME Assumptions, IInv
    PROVE  /\ Due("ENTERED") = Count(sigrt_deliver, "ENTERED")
           /\ Due("ENTERED") \in Nat
           /\ Due("EXITED") \in Nat
           /\ fsm_state # "PS_EXECUTING" =>
                 /\ Running(timers_pool, "EXITED") = 0
                 /\ Expired(sigrt_timerexp, "EXITED") = 0
<1>1. /\ EventsTypeOK
      /\ timers_pool \in [Slot -> Event \cup {"none"}]
      /\ sigrt_timerexp \in Seq(Cookie) /\ sigrt_deliver \in Seq(Event)
      /\ "ENTERED" \in Event /\ "EXITED" \in Event
  BY DEF IInv, TypeOK, EventsTypeOK, Event
<1>2. Running(timers_pool, "ENTERED") = 0 /\ Expired(sigrt_timerexp, "ENTERED") = 0
  BY <1>1, NoTimerForEntered DEF IInv, TimersAreFor, Assumptions
<1>3. Due("ENTERED") = Count(sigrt_deliver, "ENTERED") /\ Due("ENTERED") \in Nat
  BY <1>1, <1>2, DueNowhere DEF Assumptions
<1>4. /\ Due("EXITED") \in Nat
      /\ Due("EXITED") = 0 => /\ Running(timers_pool, "EXITED") = 0
                              /\ Expired(sigrt_timerexp, "EXITED") = 0
  <2>1. /\ Due("EXITED") \in Nat
        /\ Count(sigrt_deliver, "EXITED") \in Nat
        /\ Due("EXITED") <= Count(sigrt_deliver, "EXITED") =>
              /\ Running(timers_pool, "EXITED") = 0
              /\ Expired(sigrt_timerexp, "EXITED") = 0
    BY <1>1, DueNowhere, CountIs DEF Assumptions
  <2>2. Due("EXITED") = 0 => Due("EXITED") <= Count(sigrt_deliver, "EXITED")
    BY <2>1
  <2>3. QED
    BY <2>1, <2>2
<1>5. fsm_state # "PS_EXECUTING" => Due("EXITED") = 0
  BY DEF IInv, EventsMatchPhase
<1>6. QED
  BY <1>3, <1>4, <1>5

LEMMA InitOK == ASSUME Assumptions, Init PROVE IInv
<1>1. TypeOK
  BY DEF Init, EventsInit, TypeOK, EventsTypeOK, Assumptions, PeerProgramAssumption,
         EventsAssumption, Slot
<1>2. EngineOK /\ Due("EXITED") = 0 /\ Due("ENTERED") = 0 /\ TimersAreFor("EXITED")
  BY EventsInitOK DEF Init, Assumptions, Event
<1>3. EventsMatchPhase
  BY <1>2 DEF EventsMatchPhase, Init
<1>4. QED
  BY <1>1, <1>2, <1>3 DEF IInv
-----------------------------------------------------------------------------
(* Steps that leave the engine alone. *)
LEMMA EngineUntouched ==
    ASSUME IInv, UNCHANGED <<engineVars, fsm_state, arrived>>
    PROVE  IInv' /\ UNCHANGED <<Due("ENTERED"), Due("EXITED")>>
BY DEF IInv, TypeOK, EngineOK, EventsTypeOK, SlotsMatchTimers, SignalsCoverSocket,
       TimersAreFor, EventsMatchPhase, Due, Count, engineVars, netioVars, timerVars

LEMMA WaitForEventsOK ==
    ASSUME Assumptions, IInv, WaitForEvents
    PROVE  IInv' /\ Abstract!Start
<1>1. /\ UNCHANGED <<socket, early, sigrt_network, sigrt_timerexp, sigrt_deliver, timerVars,
                     exit_request, fsm_state, arrived>>
      /\ o_async' = TRUE
  BY DEF WaitForEvents, init_handlers
<1>2. IInv' /\ UNCHANGED <<Due("ENTERED"), Due("EXITED")>>
  BY <1>1 DEF IInv, TypeOK, EngineOK, EventsTypeOK, SlotsMatchTimers, SignalsCoverSocket,
              TimersAreFor, EventsMatchPhase, Due, Count, timerVars
<1>3. QED
  BY <1>1, <1>2 DEF Abstract!Start

LEMMA ArriveOK ==
    ASSUME Assumptions, IInv, Arrive
    PROVE  IInv' /\ Abstract!Arrive
<1>1. PICK pkt \in Incoming : PacketArrives(pkt)
  BY DEF Arrive
<1>2. /\ EngineOK' /\ socket' \in Seq(Incoming)
      /\ TimersAreFor("EXITED")'
      /\ Due("ENTERED")' = Due("ENTERED") /\ Due("EXITED")' = Due("EXITED")
  <2>1. EngineOK /\ socket \in Seq(Incoming) /\ TimersAreFor("EXITED")
    BY DEF IInv, TypeOK
  <2>2. QED
    BY <1>1, <2>1, PacketArrivesOK DEF Event
<1>3. arrived' \in 0 .. MaxPackets
  BY DEF Arrive, IInv, TypeOK, Assumptions, PeerProgramAssumption
<1>4. fsm_state' = fsm_state /\ UNCHANGED <<o_async, exit_request>>
  BY <1>1 DEF Arrive, PacketArrives
<1>5. IInv'
  BY <1>2, <1>3, <1>4 DEF IInv, TypeOK, EngineOK, EventsMatchPhase
<1>6. early' = IF o_async THEN early ELSE early + 1
  BY <1>1 DEF PacketArrives
<1>7. \E p \in Incoming : socket' = Append(socket, p)
  BY <1>1 DEF PacketArrives
<1>8. QED
  BY <1>2, <1>4, <1>5, <1>6, <1>7 DEF Abstract!Arrive

(* The kernel and the first two signals: for the algorithm nothing happens. *)
LEMMA EngineStepsOK ==
    ASSUME Assumptions, IInv, Expire \/ Signal
    PROVE  IInv' /\ UNCHANGED Abstract!vars
<1>1. EngineOK /\ TimersAreFor("EXITED") /\ EventsAssumption
  BY DEF IInv, Assumptions
<1>2. /\ EngineOK' /\ TimersAreFor("EXITED")'
      /\ Due("ENTERED")' = Due("ENTERED") /\ Due("EXITED")' = Due("EXITED")
  <2>1. CASE Expire
    <3>1. PICK ix \in Slot : TimerExpires(ix)
      BY <2>1 DEF Expire
    <3>2. QED
      BY <1>1, <3>1, TimerExpiresOK DEF Event
  <2>2. CASE networkio_handler
    BY <1>1, <2>2, NetworkioOK DEF Event
  <2>3. CASE timer_expire_handler
    BY <1>1, <2>3, TimerExpireHandlerOK DEF Event
  <2>4. QED
    BY <2>1, <2>2, <2>3 DEF Signal, EngineNext
<1>3. UNCHANGED <<o_async, socket, early, fsm_state, arrived, exit_request>>
  BY DEF Expire, TimerExpires, Signal, EngineNext, networkio_handler, timer_expire_handler,
         netioVars
<1>4. IInv'
  BY <1>2, <1>3 DEF IInv, TypeOK, EngineOK, EventsMatchPhase
<1>5. QED
  BY <1>2, <1>3, <1>4 DEF Abstract!vars

LEMMA StopOK ==
    ASSUME Assumptions, IInv, Stop
    PROVE  IInv' /\ Abstract!Stop
<1>1. /\ UNCHANGED <<netioVars, sigrt_network, sigrt_timerexp, sigrt_deliver, timerVars,
                     fsm_state, arrived>>
      /\ exit_request = FALSE /\ exit_request' = TRUE /\ o_async = TRUE
  BY DEF Stop, ForcedExit, IInv, TypeOK, EventsTypeOK
<1>2. IInv' /\ UNCHANGED <<Due("ENTERED"), Due("EXITED")>>
  BY <1>1 DEF IInv, TypeOK, EngineOK, EventsTypeOK, SlotsMatchTimers, SignalsCoverSocket,
              TimersAreFor, EventsMatchPhase, Due, Count, netioVars, timerVars
<1>3. QED
  BY <1>1, <1>2 DEF Abstract!Stop, Abstract!Running, netioVars
-----------------------------------------------------------------------------
(***************************************************************************)
(* A handler returns with the queue s: what is due is what it has changed, *)
(* if it leaves the timers alone.                                          *)
(***************************************************************************)
LEMMA QueueChanged ==
    ASSUME Assumptions, IInv, NEW s \in Seq(Event), sigrt_deliver' = s,
           UNCHANGED <<sigrt_timerexp, timerVars>>
    PROVE  /\ SlotsMatchTimers'
           /\ TimersAreFor("EXITED")'
           /\ \A evt \in Event : Due(evt)' + Count(sigrt_deliver, evt) = Due(evt) + Count(s, evt)
<1>1. SlotsMatchTimers' /\ TimersAreFor("EXITED")'
  BY DEF IInv, EngineOK, SlotsMatchTimers, TimersAreFor, timerVars
<1>2. ASSUME NEW evt \in Event
      PROVE  Due(evt)' + Count(sigrt_deliver, evt) = Due(evt) + Count(s, evt)
  <2> DEFINE r == Running(timers_pool, evt)
             x == Expired(sigrt_timerexp, evt)
             c == Count(sigrt_deliver, evt)
             d == Count(s, evt)
  <2>1. r \in Nat /\ x \in Nat /\ c \in Nat /\ d \in Nat
    BY RunningIs, ExpiredIs, CountIs DEF IInv, TypeOK, EventsTypeOK, Assumptions
  <2>2. Due(evt) = r + x + c
    BY DueIsSum
  <2>3. Due(evt)' = r + x + d
    BY DEF Due, Running, Expired, Count, timerVars
  <2> HIDE DEF r, x, c, d
  <2>4. Due(evt)' + c = Due(evt) + d
    BY <2>1, <2>2, <2>3
  <2>5. QED
    BY <2>4 DEF c, d
<1>3. QED
  BY <1>1, <1>2

(* The numbers of due events after such a step are natural. *)
LEMMA DuesAreNat ==
    ASSUME Assumptions, IInv, NEW s \in Seq(Event), sigrt_deliver' = s,
           UNCHANGED <<sigrt_timerexp, timerVars>>, NEW evt \in Event
    PROVE  Due(evt)' \in Nat /\ Due(evt) \in Nat
<1> DEFINE r == Running(timers_pool, evt)
           x == Expired(sigrt_timerexp, evt)
           c == Count(sigrt_deliver, evt)
           d == Count(s, evt)
<1>1. r \in Nat /\ x \in Nat /\ c \in Nat /\ d \in Nat
  BY RunningIs, ExpiredIs, CountIs DEF IInv, TypeOK, EventsTypeOK, Assumptions
<1>2. Due(evt) = r + x + c
  BY DueIsSum
<1>3. Due(evt)' = r + x + d
  BY DEF Due, Running, Expired, Count, timerVars
<1> HIDE DEF r, x, c, d
<1>4. QED
  BY <1>1, <1>2, <1>3

(* A process enters: schedule_event finds a slot, since none is in use. *)
LEMMA EnterOK ==
    ASSUME Assumptions, IInv, NEW evt \in {"PACK_IN", "ENTERED"}, Handles(evt),
           fsm_state # "PS_EXECUTING", Count(Tail(sigrt_deliver), "ENTERED") = 0,
           process_ev_entered_cr("PS_PENDING", Tail(sigrt_deliver)), UNCHANGED sigrt_timerexp
    PROVE  /\ fsm_state' = "PS_EXECUTING"
           /\ exit_request' = exit_request
           /\ sigrt_deliver' = Tail(sigrt_deliver)
           /\ timers_state' \in [Slot -> {"TIMER_UNUSED", "TIMER_ARMED"}]
           /\ timers_pool' \in [Slot -> Event \cup {"none"}]
           /\ last_timer' \in Slot
           /\ SlotsMatchTimers'
           /\ TimersAreFor("EXITED")'
           /\ Due("EXITED") = 0 /\ Due("EXITED")' = 1 /\ Due("ENTERED")' = 0
<1> DEFINE q == Tail(sigrt_deliver)
<1>1. /\ fsm_state' = "PS_EXECUTING"
      /\ exit_request' = exit_request
      /\ sigrt_deliver' = q
      /\ schedule_event("EXITED", 5)
  BY DEF process_ev_entered_cr, critical_region_simulated_duration
<1>2. EngineOK /\ TimersAreFor("EXITED") /\ EventsAssumption /\ EventsTypeOK
      /\ "EXITED" \in Event /\ "ENTERED" \in Event /\ evt \in Event /\ evt # "EXITED"
  BY DEF IInv, TypeOK, Assumptions, Event
<1>3. Running(timers_pool, "EXITED") = 0 /\ Expired(sigrt_timerexp, "EXITED") = 0
      /\ Due("EXITED") = 0
  BY PhaseFacts DEF IInv, EventsMatchPhase
<1>4. /\ get_free_timer \in Slot /\ get_free_timer # -1
      /\ timers_pool[get_free_timer] = "none"
      /\ timers_state[get_free_timer] = "TIMER_UNUSED"
      /\ sigrt_timerexp = <<>>
  BY <1>2, <1>3, PoolIsFree
<1>5. 5 \in Nat \ {0}
  OBVIOUS
<1>6. /\ timers_state' \in [Slot -> {"TIMER_UNUSED", "TIMER_ARMED"}]
      /\ timers_pool' \in [Slot -> Event \cup {"none"}]
      /\ last_timer' \in Slot
      /\ SlotsMatchTimers'
      /\ TimersAreFor("EXITED")'
      /\ Running(timers_pool', "EXITED") = Running(timers_pool, "EXITED") + 1
  BY <1>1, <1>2, <1>4, <1>5, Scheduled
<1>7. Count(q, "EXITED") = 0
  <2>1. Due("EXITED") = Count(sigrt_deliver, "EXITED")
    BY <1>2, <1>3, DueNowhere
  <2>2. Count(q, "EXITED") = Count(sigrt_deliver, "EXITED")
    <3>1. /\ Count(q, "EXITED") \in Nat
          /\ Count(sigrt_deliver, "EXITED")
                 = Count(q, "EXITED") + IF "EXITED" = evt THEN 1 ELSE 0
      BY <1>2, Handling
    <3>2. QED
      BY <1>2, <3>1
  <2>3. QED
    BY <1>3, <2>1, <2>2
<1>8. Due("EXITED")' = 1
  <2>1. Due("EXITED")' = Running(timers_pool', "EXITED") + Expired(sigrt_timerexp, "EXITED")
                             + Count(q, "EXITED")
    BY <1>1 DEF Due, Running, Expired, Count
  <2>2. QED
    BY <1>3, <1>6, <1>7, <2>1
<1>9. Due("ENTERED")' = 0
  <2>1. Running(timers_pool', "ENTERED") = 0 /\ Expired(sigrt_timerexp, "ENTERED") = 0
    <3>1. /\ \A ix \in Slot : timers_pool'[ix] \in {"none", "EXITED"}
          /\ \A k \in 1 .. Len(sigrt_timerexp) : sigrt_timerexp[k].stc_evt = "EXITED"
      BY <1>2, <1>6 DEF TimersAreFor
    <3>2. QED
      BY <1>2, <1>6, <3>1, NoTimerForEntered DEF EventsTypeOK
  <2>2. Due("ENTERED")' = Running(timers_pool', "ENTERED") + Expired(sigrt_timerexp, "ENTERED")
                              + Count(q, "ENTERED")
    BY <1>1 DEF Due, Running, Expired, Count
  <2>3. QED
    BY <2>1, <2>2
<1>10. QED
  BY <1>1, <1>3, <1>6, <1>8, <1>9

(* Taking a packet: it is one that a signal was raised for, or as old. *)
LEMMA DemuxOK ==
    ASSUME Assumptions, IInv, NEW pkt, net_demux(pkt), NEW s \in Seq(Event), sigrt_deliver' = s,
           Count(s, "PACK_IN") = Count(Tail(sigrt_deliver), "PACK_IN")
    PROVE  /\ SignalsCoverSocket'
           /\ socket' \in Seq(Incoming) /\ socket' = Tail(socket) /\ pkt = Head(socket)
           /\ Len(socket) > early
           /\ UNCHANGED <<early, o_async, sigrt_network, sigrt_timerexp>>
<1> DEFINE packs == Count(Tail(sigrt_deliver), "PACK_IN")
<1>1. /\ Handles("PACK_IN") /\ socket # <<>> /\ pkt = Head(socket) /\ socket' = Tail(socket)
      /\ UNCHANGED <<early, o_async, sigrt_network, sigrt_timerexp>>
  BY DEF net_demux
<1>2. socket \in Seq(Incoming) /\ early \in Nat /\ sigrt_network \in Nat /\ "PACK_IN" \in Event
  BY DEF IInv, TypeOK, EventsTypeOK, Event
<1>3. socket' \in Seq(Incoming) /\ Len(socket') = Len(socket) - 1 /\ Len(socket) \in Nat
  BY <1>1, <1>2, HeadTailProperties, LenProperties
<1>4. packs \in Nat /\ Count(sigrt_deliver, "PACK_IN") = packs + 1
  BY <1>1, <1>2, Handling DEF IInv
<1>5. Len(socket) = early + sigrt_network + Count(sigrt_deliver, "PACK_IN")
  BY DEF IInv, EngineOK, SignalsCoverSocket
<1> HIDE DEF packs
<1>6. Len(socket) > early /\ Len(socket') = early + sigrt_network + packs
  BY <1>2, <1>3, <1>4, <1>5
<1>7. SignalsCoverSocket'
  BY <1>1, <1>6 DEF SignalsCoverSocket, Count, packs
<1>8. QED
  BY <1>1, <1>3, <1>6, <1>7

(* The branches of the handler of PACK_IN that can be taken. *)
LEMMA PackInCases ==
    ASSUME PackIn
    PROVE  \E pkt \in Incoming :
             /\ net_demux(pkt)
             /\ LET q == Tail(sigrt_deliver) IN
                \/ Return(q) /\ ~(fsm_state = "PS_IDLE" /\ pkt = "WANT")
                \/ /\ fsm_state = "PS_IDLE" /\ pkt = "WANT"
                   /\ fsm_state' = "PS_PENDING"
                   /\ sigrt_deliver' \in {q, deliver_event(q, "ENTERED")}
                   /\ UNCHANGED <<timerVars, exit_request>>
                \/ /\ \/ fsm_state = "PS_IDLE" /\ pkt = "WANT"
                      \/ fsm_state = "PS_PENDING" /\ pkt = "PEER" /\ Count(q, "ENTERED") = 0
                   /\ process_ev_entered_cr("PS_PENDING", q)
<1> DEFINE q == Tail(sigrt_deliver)
<1>1. PICK pkt \in Incoming :
         /\ net_demux(pkt)
         /\ CASE pkt \in {"SYNCRO", "WANT"} -> handle_supervisor_msg(pkt, q)
              [] pkt = "PEER" -> handle_peer_msg(q)
              [] OTHER -> Return(q)
  BY DEF PackIn
<1> HIDE DEF q
<1>2. CASE pkt \in {"SYNCRO", "WANT"}
  <2>1. handle_supervisor_msg(pkt, q)
    BY <1>1, <1>2
  <2>2. QED
    BY <1>1, <2>1 DEF handle_supervisor_msg, process_ev_want_cr, q
<1>3. CASE pkt = "PEER"
  <2>1. handle_peer_msg(q)
    BY <1>1, <1>3
  <2>2. CASE Return(q)
    BY <1>1, <1>3, <2>2 DEF q
  <2>3. CASE fsm_state = "PS_PENDING" /\ Count(q, "ENTERED") = 0
             /\ process_ev_entered_cr(fsm_state, q)
    <3>1. process_ev_entered_cr("PS_PENDING", q)
      BY <2>3
    <3>2. QED
      BY <1>1, <1>3, <2>3, <3>1 DEF q
  <2>4. QED
    BY <2>1, <2>2, <2>3 DEF handle_peer_msg
<1>4. CASE pkt \notin {"SYNCRO", "WANT", "PEER"}
  <2>1. Return(q)
    BY <1>1, <1>4
  <2>2. QED
    BY <1>1, <1>4, <2>1 DEF q
<1>5. QED
  BY <1>2, <1>3, <1>4

LEMMA PackInOK ==
    ASSUME Assumptions, IInv, PackIn, o_async
    PROVE  IInv' /\ Abstract!Receive
<1> DEFINE q == Tail(sigrt_deliver)
           entered == Count(sigrt_deliver, "ENTERED")
<1>1. PICK pkt \in Incoming :
         /\ net_demux(pkt)
         /\ \/ Return(q) /\ ~(fsm_state = "PS_IDLE" /\ pkt = "WANT")
            \/ /\ fsm_state = "PS_IDLE" /\ pkt = "WANT"
               /\ fsm_state' = "PS_PENDING"
               /\ sigrt_deliver' \in {q, deliver_event(q, "ENTERED")}
               /\ UNCHANGED <<timerVars, exit_request>>
            \/ /\ \/ fsm_state = "PS_IDLE" /\ pkt = "WANT"
                  \/ fsm_state = "PS_PENDING" /\ pkt = "PEER" /\ Count(q, "ENTERED") = 0
               /\ process_ev_entered_cr("PS_PENDING", q)
  BY PackInCases
<1>2. /\ Handles("PACK_IN") /\ ~exit_request
      /\ UNCHANGED <<sigrt_timerexp, sigrt_network, early, o_async, arrived>>
      /\ "PACK_IN" \in Event /\ "ENTERED" \in Event /\ "EXITED" \in Event
  BY <1>1 DEF net_demux, Handles, PackIn, Event
<1>3. /\ q \in Seq(Event)
      /\ Count(q, "ENTERED") = entered /\ entered \in Nat
      /\ Count(q, "EXITED") = Count(sigrt_deliver, "EXITED")
      /\ Count(q, "EXITED") \in Nat
      /\ Count(q, "PACK_IN") \in Nat
  <2>1. /\ q \in Seq(Event)
        /\ \A e \in Event : /\ Count(q, e) \in Nat
                            /\ Count(sigrt_deliver, e)
                                   = Count(q, e) + IF e = "PACK_IN" THEN 1 ELSE 0
    BY <1>2, Handling DEF IInv
  <2>2. QED
    BY <1>2, <2>1
<1>4. /\ Due("ENTERED") = entered
      /\ Due("EXITED") \in Nat
      /\ Due("EXITED") = IF fsm_state = "PS_EXECUTING" THEN 1 ELSE 0
      /\ Due("ENTERED") <= IF fsm_state = "PS_PENDING" THEN 1 ELSE 0
      /\ fsm_state \in {"PS_IDLE", "PS_PENDING", "PS_EXECUTING"}
      /\ TypeOK
  BY PhaseFacts DEF IInv, EventsMatchPhase, TypeOK
<1> HIDE DEF q, entered
<1>5. CASE Return(q) /\ ~(fsm_state = "PS_IDLE" /\ pkt = "WANT")
  <2>1. sigrt_deliver' = q /\ UNCHANGED <<timerVars, fsm_state, exit_request>>
    BY <1>5 DEF Return
  <2>2. /\ SlotsMatchTimers' /\ TimersAreFor("EXITED")'
        /\ \A e \in Event : Due(e)' + Count(sigrt_deliver, e) = Due(e) + Count(q, e)
    BY <1>2, <1>3, <2>1, QueueChanged
  <2>3. Due("ENTERED")' = Due("ENTERED") /\ Due("EXITED")' = Due("EXITED")
    <3>1. /\ Due("ENTERED")' \in Nat /\ Due("EXITED")' \in Nat
          /\ Due("ENTERED") \in Nat /\ Due("EXITED") \in Nat
      BY <1>2, <1>3, <2>1, DuesAreNat
    <3>2. /\ Due("ENTERED")' + entered = Due("ENTERED") + entered
          /\ Due("EXITED")' + Count(q, "EXITED") = Due("EXITED") + Count(q, "EXITED")
      BY <1>2, <1>3, <2>2 DEF entered
    <3>3. QED
      BY <1>3, <3>1, <3>2
  <2>4. /\ SignalsCoverSocket' /\ socket' \in Seq(Incoming)
        /\ socket' = Tail(socket) /\ pkt = Head(socket) /\ Len(socket) > early
    BY <1>1, <1>3, <2>1, DemuxOK DEF q
  <2>5. TypeOK'
    BY <1>2, <1>3, <1>4, <2>1, <2>4 DEF TypeOK, EventsTypeOK, timerVars
  <2>6. IInv'
    BY <1>4, <2>1, <2>2, <2>3, <2>4, <2>5 DEF IInv, EngineOK, TypeOK, EventsMatchPhase
  <2>7. Abstract!Receive
    BY <1>2, <1>5, <2>1, <2>3, <2>4 DEF Abstract!Receive, Abstract!Running
  <2>8. QED
    BY <2>6, <2>7
<1>6. CASE /\ fsm_state = "PS_IDLE" /\ pkt = "WANT"
           /\ fsm_state' = "PS_PENDING"
           /\ sigrt_deliver' \in {q, deliver_event(q, "ENTERED")}
           /\ UNCHANGED <<timerVars, exit_request>>
  <2> DEFINE s == sigrt_deliver'
  <2>1. Due("ENTERED") = 0 /\ entered = 0 /\ Due("EXITED") = 0
    BY <1>3, <1>4, <1>6
  <2>2. /\ s \in Seq(Event)
        /\ Count(s, "PACK_IN") = Count(q, "PACK_IN")
        /\ Count(s, "EXITED") = Count(q, "EXITED")
        /\ Count(s, "ENTERED") \in {0, 1}
    <3>1. CASE s = q
      BY <1>3, <2>1, <3>1
    <3>2. CASE s = Append(q, "ENTERED")
      <4>1. /\ s \in Seq(Event)
            /\ \A e \in Event : Count(s, e) = Count(q, e) + IF "ENTERED" = e THEN 1 ELSE 0
        BY <1>2, <1>3, <3>2, CountIs, AppendProperties
      <4>2. QED
        BY <1>2, <1>3, <2>1, <4>1
    <3>3. QED
      BY <1>6, <3>1, <3>2 DEF deliver_event
  <2> HIDE DEF s
  <2>3. /\ SlotsMatchTimers' /\ TimersAreFor("EXITED")'
        /\ \A e \in Event : Due(e)' + Count(sigrt_deliver, e) = Due(e) + Count(s, e)
    BY <1>2, <1>6, <2>2, QueueChanged DEF s
  <2>4. Due("EXITED")' = 0 /\ Due("ENTERED")' = Count(s, "ENTERED")
    <3>1. Due("ENTERED")' \in Nat /\ Due("EXITED")' \in Nat
      BY <1>2, <1>6, <2>2, DuesAreNat DEF s
    <3>2. /\ Due("ENTERED")' + entered = Due("ENTERED") + Count(s, "ENTERED")
          /\ Due("EXITED")' + Count(q, "EXITED") = Due("EXITED") + Count(q, "EXITED")
      BY <1>2, <1>3, <2>2, <2>3 DEF entered
    <3>3. QED
      BY <1>3, <2>1, <2>2, <3>1, <3>2
  <2>5. /\ SignalsCoverSocket' /\ socket' \in Seq(Incoming)
        /\ socket' = Tail(socket) /\ pkt = Head(socket) /\ Len(socket) > early
    BY <1>1, <1>3, <2>2, DemuxOK DEF q, s
  <2>6. TypeOK'
    BY <1>2, <1>4, <1>6, <2>2, <2>5 DEF TypeOK, EventsTypeOK, timerVars, s
  <2>7. IInv'
    BY <1>6, <2>2, <2>3, <2>4, <2>5, <2>6 DEF IInv, EngineOK, TypeOK, EventsMatchPhase
  <2>8. Abstract!Receive
    BY <1>2, <1>6, <2>1, <2>2, <2>4, <2>5
       DEF Abstract!Receive, Abstract!Running, Abstract!Want
  <2>9. QED
    BY <2>7, <2>8
<1>7. CASE /\ \/ fsm_state = "PS_IDLE" /\ pkt = "WANT"
              \/ fsm_state = "PS_PENDING" /\ pkt = "PEER" /\ Count(q, "ENTERED") = 0
           /\ process_ev_entered_cr("PS_PENDING", q)
  <2>1. Due("ENTERED") = 0 /\ Count(q, "ENTERED") = 0 /\ fsm_state # "PS_EXECUTING"
    BY <1>3, <1>4, <1>7
  <2>2. /\ fsm_state' = "PS_EXECUTING"
        /\ exit_request' = exit_request
        /\ sigrt_deliver' = q
        /\ timers_state' \in [Slot -> {"TIMER_UNUSED", "TIMER_ARMED"}]
        /\ timers_pool' \in [Slot -> Event \cup {"none"}]
        /\ last_timer' \in Slot
        /\ SlotsMatchTimers' /\ TimersAreFor("EXITED")'
        /\ Due("EXITED") = 0 /\ Due("EXITED")' = 1 /\ Due("ENTERED")' = 0
    BY <1>2, <1>7, <2>1, EnterOK DEF q
  <2>3. /\ SignalsCoverSocket' /\ socket' \in Seq(Incoming)
        /\ socket' = Tail(socket) /\ pkt = Head(socket) /\ Len(socket) > early
    BY <1>1, <1>3, <2>2, DemuxOK DEF q
  <2>4. TypeOK'
    BY <1>2, <1>3, <1>4, <2>2, <2>3 DEF TypeOK, EventsTypeOK
  <2>5. IInv'
    BY <2>2, <2>3, <2>4 DEF IInv, EngineOK, TypeOK, EventsMatchPhase
  <2>6. Abstract!Receive
    BY <1>2, <1>7, <2>1, <2>2, <2>3
       DEF Abstract!Receive, Abstract!Running, Abstract!Want, Abstract!Enter
  <2>7. QED
    BY <2>5, <2>6
<1>8. QED
  BY <1>1, <1>5, <1>6, <1>7

(* ENTERED finds a process that waits. *)
LEMMA EnteredOK ==
    ASSUME Assumptions, IInv, Entered, o_async
    PROVE  IInv' /\ Abstract!HandleEntered
<1> DEFINE q == Tail(sigrt_deliver)
<1>1. /\ Handles("ENTERED") /\ ~exit_request
      /\ process_ev_entered_cr(fsm_state, q)
      /\ UNCHANGED <<netioVars, sigrt_network, sigrt_timerexp, arrived>>
      /\ "PACK_IN" \in Event /\ "ENTERED" \in Event /\ EngineOK
  BY DEF Entered, Handles, Event, IInv
<1>2. /\ q \in Seq(Event)
      /\ Count(q, "ENTERED") \in Nat
      /\ Count(sigrt_deliver, "ENTERED") = Count(q, "ENTERED") + 1
      /\ Count(q, "PACK_IN") \in Nat
      /\ Count(sigrt_deliver, "PACK_IN") = Count(q, "PACK_IN")
  <2>1. /\ q \in Seq(Event)
        /\ \A e \in Event : /\ Count(q, e) \in Nat
                            /\ Count(sigrt_deliver, e)
                                   = Count(q, e) + IF e = "ENTERED" THEN 1 ELSE 0
    BY <1>1, Handling
  <2>2. QED
    BY <1>1, <2>1
<1>3. /\ Due("ENTERED") = Count(sigrt_deliver, "ENTERED")
      /\ Due("ENTERED") <= IF fsm_state = "PS_PENDING" THEN 1 ELSE 0
      /\ TypeOK
  BY PhaseFacts DEF IInv, EventsMatchPhase
<1> HIDE DEF q
<1>4. fsm_state = "PS_PENDING" /\ Count(q, "ENTERED") = 0 /\ Due("ENTERED") = 1
  BY <1>2, <1>3
<1>5. process_ev_entered_cr("PS_PENDING", q)
  BY <1>1, <1>4
<1>6. /\ fsm_state' = "PS_EXECUTING"
      /\ exit_request' = exit_request
      /\ sigrt_deliver' = q
      /\ timers_state' \in [Slot -> {"TIMER_UNUSED", "TIMER_ARMED"}]
      /\ timers_pool' \in [Slot -> Event \cup {"none"}]
      /\ last_timer' \in Slot
      /\ SlotsMatchTimers' /\ TimersAreFor("EXITED")'
      /\ Due("EXITED") = 0 /\ Due("EXITED")' = 1 /\ Due("ENTERED")' = 0
  BY <1>1, <1>4, <1>5, EnterOK DEF q
<1>7. SignalsCoverSocket'
  BY <1>1, <1>2, <1>6 DEF EngineOK, SignalsCoverSocket, Count, netioVars
<1>8. TypeOK'
  BY <1>1, <1>2, <1>3, <1>6 DEF TypeOK, EventsTypeOK, netioVars
<1>9. IInv'
  BY <1>6, <1>7, <1>8 DEF IInv, EngineOK, TypeOK, EventsMatchPhase
<1>10. Abstract!HandleEntered
  BY <1>1, <1>4, <1>6 DEF Abstract!HandleEntered, Abstract!Running, Abstract!Enter, netioVars
<1>11. QED
  BY <1>9, <1>10

(* EXITED finds a process that executes. *)
LEMMA ExitedOK ==
    ASSUME Assumptions, IInv, Exited, o_async
    PROVE  IInv' /\ Abstract!HandleExited
<1> DEFINE q == Tail(sigrt_deliver)
<1>1. /\ Handles("EXITED") /\ ~exit_request
      /\ process_ev_exited_cr(q)
      /\ UNCHANGED <<netioVars, sigrt_network, sigrt_timerexp, arrived>>
      /\ "PACK_IN" \in Event /\ "ENTERED" \in Event /\ "EXITED" \in Event
      /\ EngineOK /\ EventsTypeOK /\ EventsAssumption
  BY DEF Exited, Handles, Event, IInv, TypeOK, Assumptions
<1>2. /\ q \in Seq(Event)
      /\ Count(q, "EXITED") \in Nat
      /\ Count(sigrt_deliver, "EXITED") = Count(q, "EXITED") + 1
      /\ Count(q, "ENTERED") \in Nat
      /\ Count(sigrt_deliver, "ENTERED") = Count(q, "ENTERED")
      /\ Count(sigrt_deliver, "PACK_IN") = Count(q, "PACK_IN")
  <2>1. /\ q \in Seq(Event)
        /\ \A e \in Event : /\ Count(q, e) \in Nat
                            /\ Count(sigrt_deliver, e)
                                   = Count(q, e) + IF e = "EXITED" THEN 1 ELSE 0
    BY <1>1, Handling
  <2>2. QED
    BY <1>1, <2>1
<1>3. /\ Due("EXITED") \in Nat
      /\ Count(sigrt_deliver, "EXITED") <= Due("EXITED")
      /\ Due("EXITED") = IF fsm_state = "PS_EXECUTING" THEN 1 ELSE 0
      /\ Due("ENTERED") <= IF fsm_state = "PS_PENDING" THEN 1 ELSE 0
      /\ Due("ENTERED") \in Nat
      /\ TypeOK
  BY <1>1, DueNowhere, PhaseFacts DEF IInv, EventsMatchPhase
<1> HIDE DEF q
<1>4. fsm_state = "PS_EXECUTING" /\ Due("EXITED") = 1 /\ Due("ENTERED") = 0
  BY <1>2, <1>3
<1>5. /\ fsm_state' = "PS_IDLE"
      /\ sigrt_deliver' = q
      /\ UNCHANGED <<timerVars, exit_request>>
  BY <1>1, <1>4 DEF process_ev_exited_cr
<1>6. /\ SlotsMatchTimers' /\ TimersAreFor("EXITED")'
      /\ \A e \in Event : Due(e)' + Count(sigrt_deliver, e) = Due(e) + Count(q, e)
  BY <1>1, <1>2, <1>5, QueueChanged
<1>7. Due("EXITED")' = 0 /\ Due("ENTERED")' = 0
  <2>1. Due("ENTERED")' \in Nat /\ Due("EXITED")' \in Nat
    BY <1>1, <1>2, <1>5, DuesAreNat
  <2>2. /\ Due("ENTERED")' + Count(q, "ENTERED") = 0 + Count(q, "ENTERED")
        /\ Due("EXITED")' + (Count(q, "EXITED") + 1) = 1 + Count(q, "EXITED")
    BY <1>1, <1>2, <1>4, <1>6
  <2>3. QED
    BY <1>2, <2>1, <2>2
<1>8. SignalsCoverSocket'
  BY <1>1, <1>2, <1>5 DEF EngineOK, SignalsCoverSocket, Count, netioVars
<1>9. TypeOK'
  BY <1>1, <1>2, <1>3, <1>5 DEF TypeOK, EventsTypeOK, netioVars, timerVars
<1>10. IInv'
  BY <1>5, <1>6, <1>7, <1>8, <1>9 DEF IInv, EngineOK, TypeOK, EventsMatchPhase
<1>11. Abstract!HandleExited
  BY <1>1, <1>4, <1>5, <1>7 DEF Abstract!HandleExited, Abstract!Running, netioVars
<1>12. QED
  BY <1>10, <1>11
-----------------------------------------------------------------------------
LEMMA NextOK ==
    ASSUME Assumptions, IInv, [Next]_vars
    PROVE  IInv' /\ [Abstract!Next]_(Abstract!vars)
<1>1. CASE Start \/ HandlersFail \/ UNCHANGED vars
  <2>1. UNCHANGED <<engineVars, fsm_state, arrived>>
    BY <1>1 DEF Start, HandlersFail, vars
  <2>2. IInv' /\ UNCHANGED <<Due("ENTERED"), Due("EXITED")>>
    BY <2>1, EngineUntouched
  <2>3. QED
    BY <2>1, <2>2 DEF Abstract!vars, engineVars, netioVars
<1>2. CASE WaitForEvents
  BY <1>2, WaitForEventsOK DEF Abstract!Next
<1>3. CASE Arrive
  BY <1>3, ArriveOK DEF Abstract!Next
<1>4. CASE Expire \/ (o_async /\ Signal)
  BY <1>4, EngineStepsOK
<1>5. CASE o_async /\ PackIn
  BY <1>5, PackInOK DEF Abstract!Next
<1>6. CASE o_async /\ Entered
  BY <1>6, EnteredOK DEF Abstract!Next
<1>7. CASE o_async /\ Exited
  BY <1>7, ExitedOK DEF Abstract!Next
<1>8. CASE Stop
  BY <1>8, StopOK DEF Abstract!Next
<1>9. QED
  BY <1>1, <1>2, <1>3, <1>4, <1>5, <1>6, <1>7, <1>8 DEF Next, WaitEvents

LEMMA Invariance == Spec => []IInv
<1>1. Assumptions
  BY EventsAssumption, PeerProgramAssumption DEF Assumptions
<1>2. Init => IInv
  BY <1>1, InitOK
<1>3. IInv /\ [Next]_vars => IInv'
  BY <1>1, NextOK
<1>4. QED
  BY <1>2, <1>3, PTL DEF Spec

(***************************************************************************)
(* A slot of the pool is taken exactly as long as its timer runs or the    *)
(* signal of its expiry is pending: no pool is too small, none leaks.      *)
(***************************************************************************)
THEOREM SlotsGivenBack == Spec => []SlotsMatchTimers
BY Invariance, PTL DEF IInv, EngineOK

(***************************************************************************)
(* There is a signal or a queued PACK_IN for every packet in the socket    *)
(* except for as many as came before init_handlers.                        *)
(***************************************************************************)
THEOREM PacketsCounted == Spec => []SignalsCoverSocket
BY Invariance, PTL DEF IInv, EngineOK

(***************************************************************************)
(* The events that are due are those the state of the peer waits for, and  *)
(* schedule_event, whose result nobody looks at, never fails.              *)
(***************************************************************************)
THEOREM EventsFitPhase == Spec => []EventsMatchPhase
BY Invariance, PTL DEF IInv

(***************************************************************************)
(* Every step of the program is a step of EventLoop or leaves its state    *)
(* alone: the grain the algorithms are modelled at is right, whatever the  *)
(* order of signals, timers and packets.                                   *)
(***************************************************************************)
THEOREM LoopSteps == Spec => Abstract!Init /\ [][Abstract!Next]_(Abstract!vars)
<1>1. Assumptions
  BY EventsAssumption, PeerProgramAssumption DEF Assumptions
<1>2. Init => Abstract!Init
  <2>1. ASSUME Init PROVE Abstract!Init
    <3>1. Due("ENTERED") = 0 /\ Due("EXITED") = 0
      BY <1>1, <2>1, EventsInitOK DEF Init, Assumptions, Event
    <3>2. QED
      BY <2>1, <3>1 DEF Init, EventsInit, Abstract!Init
  <2>2. QED
    BY <2>1
<1>3. IInv /\ [Next]_vars => [Abstract!Next]_(Abstract!vars)
  BY <1>1, NextOK
<1>4. QED
  BY <1>2, <1>3, Invariance, PTL DEF Spec
-----------------------------------------------------------------------------
Cell == [proc_id : Nat, line : Line]

ZeroCell == [proc_id |-> 0, line |-> Comment]

(* What parse_file may have read of a file with n peers so far. *)
Reading(p_id, n) ==
    {r \in [ix : 0 .. n + 1, bad : BOOLEAN, nodes : [0 .. n -> Cell]] :
        \A j \in 0 .. n :
            IF j < r.ix
            THEN /\ r.nodes[j].proc_id = j /\ r.nodes[j].line.record
                 /\ j = p_id /\ p_id > 0 => r.nodes[j].line.speeds >= n
            ELSE r.nodes[j] = ZeroCell}

LEMMA NothingRead ==
    ASSUME NEW n \in Nat, NEW p_id \in Nat
    PROVE  [ix |-> 0, bad |-> FALSE, nodes |-> [ix \in 0 .. n |-> ZeroCell]] \in Reading(p_id, n)
<1>1. ZeroCell \in Cell
  BY DEF ZeroCell, Cell, Comment, Line
<1>2. [ix \in 0 .. n |-> ZeroCell] \in [0 .. n -> Cell]
  BY <1>1
<1>3. QED
  BY <1>2 DEF Reading

LEMMA OneLineRead ==
    ASSUME NEW n \in Nat, NEW p_id \in Nat, NEW r \in Reading(p_id, n), NEW l \in Line
    PROVE  ReadLine(p_id, n, r, l) \in Reading(p_id, n)
<1> DEFINE cell == [proc_id |-> r.ix, line |-> l]
           more == [r.nodes EXCEPT ![r.ix] = cell]
<1>1. /\ r.ix \in 0 .. n + 1 /\ r.bad \in BOOLEAN /\ r.nodes \in [0 .. n -> Cell]
      /\ r = [ix |-> r.ix, bad |-> r.bad, nodes |-> r.nodes]
      /\ \A j \in 0 .. n :
            IF j < r.ix
            THEN /\ r.nodes[j].proc_id = j /\ r.nodes[j].line.record
                 /\ j = p_id /\ p_id > 0 => r.nodes[j].line.speeds >= n
            ELSE r.nodes[j] = ZeroCell
  BY DEF Reading
<1>2. CASE r.bad \/ r.ix > n \/ ~IsRecord(l)
  BY <1>2 DEF ReadLine
<1>3. CASE ~(r.bad \/ r.ix > n \/ ~IsRecord(l)) /\ r.ix = p_id /\ p_id > 0 /\ l.speeds < n
  <2>1. ReadLine(p_id, n, r, l) = [ix |-> r.ix, bad |-> TRUE, nodes |-> r.nodes]
    BY <1>1, <1>3 DEF ReadLine
  <2>2. QED
    BY <1>1, <2>1 DEF Reading
<1>4. CASE ~(r.bad \/ r.ix > n \/ ~IsRecord(l)) /\ ~(r.ix = p_id /\ p_id > 0 /\ l.speeds < n)
  <2>1. ReadLine(p_id, n, r, l) = [ix |-> r.ix + 1, bad |-> r.bad, nodes |-> more]
    BY <1>1, <1>4 DEF ReadLine
  <2>2. r.ix \in 0 .. n /\ l.record /\ l.speeds \in Nat
    BY <1>1, <1>4 DEF IsRecord, Line
  <2>3. cell \in Cell
    BY <2>2 DEF Cell
  <2>4. more \in [0 .. n -> Cell]
    BY <1>1, <2>3
  <2>5. ASSUME NEW j \in 0 .. n
        PROVE  IF j < r.ix + 1
               THEN /\ more[j].proc_id = j /\ more[j].line.record
                    /\ j = p_id /\ p_id > 0 => more[j].line.speeds >= n
               ELSE more[j] = ZeroCell
    <3>1. CASE j = r.ix
      <4>1. more[j] = cell
        BY <1>1, <2>2, <3>1
      <4>2. j = p_id /\ p_id > 0 => l.speeds >= n
        BY <1>4, <2>2, <3>1
      <4>3. QED
        BY <2>2, <3>1, <4>1, <4>2
    <3>2. CASE j # r.ix
      <4>1. more[j] = r.nodes[j]
        BY <1>1, <3>2
      <4>2. j < r.ix + 1 <=> j < r.ix
        BY <2>2, <3>2
      <4>3. QED
        BY <1>1, <4>1, <4>2
    <3>3. QED
      BY <3>1, <3>2
  <2> HIDE DEF more
  <2>6. r.ix + 1 \in 0 .. n + 1
    BY <2>2
  <2>7. QED
    BY <1>1, <2>1, <2>4, <2>5, <2>6 DEF Reading
<1>5. QED
  BY <1>2, <1>3, <1>4

(* The loop of parse_file, line by line. *)
LEMMA FileRead ==
    ASSUME NEW p_id \in Nat, NEW file \in ConfigFile
    PROVE  ReadLines(p_id, file) \in Reading(p_id, file.prc_count)
<1> DEFINE n == file.prc_count
           s == file.lines
           m == Len(s)
           V == Reading(p_id, n)
           base == [ix |-> 0, bad |-> FALSE, nodes |-> [ix \in 0 .. n |-> ZeroCell]]
           Fits(f) == f = [t \in SUBSET (1 .. m) |->
                              IF t = {} THEN base
                              ELSE ReadLine(p_id, n, f[t \ {Max(t)}], s[Max(t)])]
           it == CHOOSE f : Fits(f)
           step == [k \in 1 .. m |-> [v \in V |-> ReadLine(p_id, n, v, s[k])]]
<1>1. n \in Nat /\ s \in Seq(Line)
  BY DEF ConfigFile
<1>2. m \in Nat /\ DOMAIN s = 1 .. m /\ \A k \in 1 .. m : s[k] \in Line
  BY <1>1, LenProperties, ElementOfSeq
<1>3. base \in V
  BY <1>1, NothingRead
<1>4. step \in [1 .. m -> [V -> V]]
  <2>1. \A k \in 1 .. m : \A v \in V : ReadLine(p_id, n, v, s[k]) \in V
    BY <1>1, <1>2, OneLineRead
  <2> HIDE DEF V, n, s, m
  <2>2. QED
    BY <2>1
<1>5. \A k \in 1 .. m : \A v \in V : step[k][v] = ReadLine(p_id, n, v, s[k])
  <2> HIDE DEF V, n, s, m
  <2>1. QED
    OBVIOUS
<1> HIDE DEF step
<1>6. \E f : Fits(f)
  <2>1. PICK f : IsFold(f, m, V, base, step)
    <3> HIDE DEF base, m, V
    <3>1. \E f : IsFold(f, m, V, base, step)
      BY <1>2, <1>3, <1>4, FoldExists, Zenon
    <3>2. QED
      BY <3>1
  <2> HIDE DEF base, V, s, m, n
  <2>2. ASSUME NEW t \in SUBSET (1 .. m), t # {}
        PROVE  Max(t) \in 1 .. m /\ f[t \ {Max(t)}] \in V
    <3>1. Max(t) \in t
      BY <1>2, <2>2, MaxWithin
    <3>2. t \ {Max(t)} \in SUBSET (1 .. m)
      BY <2>2
    <3>3. QED
      BY <3>1, <3>2, <2>1 DEF IsFold
  <2>3. \A t \in SUBSET (1 .. m) :
            f[t] = IF t = {} THEN base
                   ELSE ReadLine(p_id, n, f[t \ {Max(t)}], s[Max(t)])
    BY <1>5, <2>1, <2>2 DEF IsFold
  <2>4. Fits(f)
    BY <2>1, <2>3 DEF IsFold
  <2> HIDE DEF Fits
  <2>5. QED
    BY <2>4
<1>7. Fits(it)
  <2> HIDE DEF Fits
  <2>1. QED
    BY <1>6
<1>8. ReadLines(p_id, file) = it[1 .. m]
  <2>1. ReadLines(p_id, file) = it[DOMAIN s]
    BY <1>2, Zenon DEF ReadLines, FoldLeft, MapThenFoldSet, ZeroCell
  <2>2. QED
    BY <1>2, <2>1
<1> HIDE DEF it
<1>9. it[{}] = base
  <2>1. {} \in SUBSET (1 .. m)
    OBVIOUS
  <2>2. QED
    BY <1>7, <2>1, Zenon
<1>10. ASSUME NEW k \in 1 .. m PROVE it[1 .. k] = ReadLine(p_id, n, it[1 .. (k - 1)], s[k])
  <2> HIDE DEF base, V, s, m, n
  <2>1. /\ 1 .. k \in SUBSET (1 .. m) /\ 1 .. k # {}
        /\ Max(1 .. k) = k /\ (1 .. k) \ {k} = 1 .. (k - 1)
    BY <1>2, Segments
  <2>2. it[1 .. k] = ReadLine(p_id, n, it[(1 .. k) \ {Max(1 .. k)}], s[Max(1 .. k)])
    BY <1>7, <2>1, Zenon
  <2>3. QED
    BY <2>1, <2>2
<1>11. it[1 .. m] \in V
  <2> DEFINE S == {k \in 0 .. m : it[1 .. k] \in V}
  <2>1. 0 \in S
    <3>1. 1 .. 0 = {} /\ 0 \in 0 .. m
      BY <1>2
    <3> HIDE DEF base, V, s, m, n
    <3>2. QED
      BY <1>3, <1>9, <3>1
  <2>2. \A k \in 1 .. m : k - 1 \in S => k \in S
    <3>1. ASSUME NEW k \in 1 .. m, k - 1 \in S PROVE k \in S
      <4>1. it[1 .. (k - 1)] \in V /\ s[k] \in Line /\ n \in Nat /\ k \in 0 .. m
        BY <1>1, <1>2, <3>1
      <4>2. ReadLine(p_id, n, it[1 .. (k - 1)], s[k]) \in V
        BY <4>1, OneLineRead
      <4>3. QED
        BY <1>10, <4>1, <4>2
    <3>2. QED
      BY <3>1
  <2> HIDE DEF S, V, s, m, n
  <2>3. 0 .. m \subseteq S
    BY <1>2, <2>1, <2>2, CountUp
  <2>4. QED
    BY <1>2, <2>3 DEF S
<1>12. QED
  BY <1>8, <1>11
-----------------------------------------------------------------------------
(***************************************************************************)
(* The nodes of an accepted file: every cell its record, but the last may  *)
(* have been left as it was allocated.                                     *)
(***************************************************************************)
NodesRead(cells, n, p_id) ==
    /\ cells \in [0 .. n -> Cell]
    /\ \A ix \in 0 .. n :
          \/ cells[ix].proc_id = ix /\ cells[ix].line.record
          \/ ix = n /\ cells[ix] = ZeroCell
    /\ p_id \in 1 .. n - 1 => cells[p_id].line.speeds >= n

(* How many may compete, once it is computed. *)
Competitors(number, fixed, n) ==
    /\ number \in Nat /\ number <= n
    /\ number >= 2 \/ (fixed /\ number = n)

StartInv ==
    /\ program \in {"peer", "supervisor"}
    /\ proc_id \in Nat
    /\ program = "supervisor" => proc_id = SupervisorPid
    /\ nodes_count \in Nat
    /\ concurency_ratio \in 0 .. 100
    /\ max_concurrent_proc \in Nat
    /\ pc \in {"compute", "listen", "bound"} => NodesRead(nodes, nodes_count, proc_id)
    /\ program = "supervisor" /\ pc \in {"listen", "bound"} =>
          Competitors(max_concurrent_proc, fixed_concurent_num, nodes_count)
    /\ pid_arr \in Seq(Nat)
    /\ pc \in {"params", "file", "compute", "listen"} => pid_arr = <<>>
    /\ pc = "bound" => ToSet(pid_arr) \subseteq {nodes[ix].proc_id : ix \in 1 .. nodes_count}

LEMMA StartInitOK == StartInit => StartInv
BY DEF StartInit, StartInv, SupervisorPid

LEMMA GiveUpOK == ASSUME StartInv, GiveUp PROVE StartInv'
BY DEF StartInv, GiveUp, paramVars

(* A value comes from the default or from an option that was given. *)
LEMMA ValueIs ==
    ASSUME NEW args \in Seq(Option), NEW opt, NEW default
    PROVE  \/ Value(args, opt, default) = default
           \/ \E k \in DOMAIN args : args[k] \in Option /\ args[k].opt = opt
                                     /\ Value(args, opt, default) = args[k].val
<1> DEFINE given == {k \in DOMAIN args : args[k].opt = opt}
<1>1. CASE ~Given(args, opt)
  BY <1>1 DEF Value
<1>2. CASE Given(args, opt)
  <2>1. Len(args) \in Nat /\ DOMAIN args = 1 .. Len(args) /\ \A k \in 1 .. Len(args) : args[k] \in Option
    BY LenProperties, ElementOfSeq
  <2>2. given \in SUBSET (1 .. Len(args)) /\ given # {}
    BY <1>2, <2>1 DEF Given
  <2>3. Max(given) \in given
    <3> HIDE DEF given
    <3>1. QED
      BY <2>1, <2>2, MaxWithin
  <2>4. Value(args, opt, default) = args[Max(given)].val
    BY <1>2 DEF Value
  <2>5. QED
    BY <2>1, <2>3, <2>4
<1>3. QED
  BY <1>1, <1>2

LEMMA PeerParamsOK ==
    ASSUME StartupAssumption, StartInv, NEW args \in PeerOptions, parse_peer_params(args)
    PROVE  StartInv'
<1>1. CASE GiveUp
  BY <1>1, GiveUpOK
<1>2. CASE ~GiveUp
  <2>1. /\ program = "peer" /\ pc = "params" /\ pc' = "file"
        /\ proc_id' = Value(args, "i", SupervisorPid)
        /\ UNCHANGED <<program, nodes, nodes_count, concurency_ratio, max_concurrent_proc, pid_arr>>
    BY <1>2 DEF parse_peer_params, paramVars
  <2>2. args \in Seq(Option)
    BY DEF StartupAssumption
  <2>3. Value(args, "i", SupervisorPid) \in Nat
    BY <2>2, ValueIs DEF Option, SupervisorPid
  <2>4. QED
    BY <2>1, <2>3 DEF StartInv
<1>3. QED
  BY <1>1, <1>2

LEMMA SupervisorParamsOK ==
    ASSUME StartupAssumption, StartInv, NEW args \in SupervisorOptions, parse_sup_params(args)
    PROVE  StartInv'
<1>1. CASE GiveUp
  BY <1>1, GiveUpOK
<1>2. CASE ~GiveUp
  <2>1. /\ program = "supervisor" /\ pc = "params" /\ pc' = "file"
        /\ \A k \in DOMAIN args : InRange(args[k])
        /\ concurency_ratio' = Value(args, "r", concurency_ratio)
        /\ max_concurrent_proc' = Value(args, "c", max_concurrent_proc)
        /\ UNCHANGED <<program, proc_id, nodes, nodes_count, fixed_concurent_num, pid_arr>>
    BY <1>2 DEF parse_sup_params
  <2>2. args \in Seq(Option)
    BY DEF StartupAssumption
  <2>3. Value(args, "c", max_concurrent_proc) \in Nat
    BY <2>2, ValueIs DEF Option, StartInv
  <2>4. Value(args, "r", concurency_ratio) \in 0 .. 100
    <3>1. CASE Value(args, "r", concurency_ratio) = concurency_ratio
      BY <3>1 DEF StartInv
    <3>2. CASE Value(args, "r", concurency_ratio) # concurency_ratio
      <4>1. PICK k \in DOMAIN args : args[k] \in Option /\ args[k].opt = "r"
                                     /\ Value(args, "r", concurency_ratio) = args[k].val
        BY <2>2, <3>2, ValueIs
      <4>2. args[k].val \in Nat
        BY <4>1 DEF Option
      <4>3. InRange(args[k])
        BY <2>1
      <4>4. args[k].val <= 100
        BY <4>1, <4>3 DEF InRange
      <4>5. \A v \in Nat : v <= 100 => v \in 0 .. 100
        OBVIOUS
      <4>6. QED
        BY <4>1, <4>2, <4>4, <4>5, Zenon
    <3>3. QED
      BY <3>1, <3>2
  <2>5. QED
    BY <2>1, <2>3, <2>4 DEF StartInv
<1>3. QED
  BY <1>1, <1>2

LEMMA ParseFileOK ==
    ASSUME StartupAssumption, StartInv, NEW file \in Files, parse_file(file)
    PROVE  StartInv'
<1> DEFINE read == ReadLines(proc_id, file)
           n == file.prc_count
<1>1. CASE GiveUp
  BY <1>1, GiveUpOK
<1>2. CASE ~GiveUp
  <2>1. /\ pc = "file" /\ ~(read.bad \/ read.ix < n)
        /\ nodes' = read.nodes /\ nodes_count' = n
        /\ pc' = (IF program = "supervisor" THEN "compute" ELSE "listen")
        /\ UNCHANGED <<program, proc_id, concurency_ratio, max_concurrent_proc,
                       fixed_concurent_num, pid_arr>>
    BY <1>2 DEF parse_file, paramVars
  <2>2. file \in ConfigFile /\ proc_id \in Nat /\ n \in Nat
    BY DEF StartupAssumption, StartInv, ConfigFile
  <2>3. read \in Reading(proc_id, n)
    BY <2>2, FileRead
  <2> HIDE DEF read, n
  <2>4. /\ read.ix \in 0 .. n + 1 /\ read.nodes \in [0 .. n -> Cell]
        /\ \A j \in 0 .. n :
              IF j < read.ix
              THEN /\ read.nodes[j].proc_id = j /\ read.nodes[j].line.record
                   /\ j = proc_id /\ proc_id > 0 => read.nodes[j].line.speeds >= n
              ELSE read.nodes[j] = ZeroCell
    BY <2>3 DEF Reading
  <2>5. read.ix >= n
    BY <2>1, <2>2, <2>4
  <2>6. ASSUME NEW ix \in 0 .. n
        PROVE  \/ read.nodes[ix].proc_id = ix /\ read.nodes[ix].line.record
               \/ ix = n /\ read.nodes[ix] = ZeroCell
    <3>1. CASE ix < read.ix
      BY <2>4, <3>1
    <3>2. CASE ~(ix < read.ix)
      <4>1. ix = n
        BY <2>2, <2>4, <2>5, <3>2
      <4>2. QED
        BY <2>4, <3>2, <4>1
    <3>3. QED
      BY <3>1, <3>2
  <2>7. ASSUME proc_id \in 1 .. n - 1 PROVE read.nodes[proc_id].line.speeds >= n
    <3>1. proc_id \in 0 .. n /\ proc_id < read.ix /\ proc_id > 0
      BY <2>2, <2>4, <2>5, <2>7
    <3>2. QED
      BY <2>4, <3>1
  <2>8. NodesRead(read.nodes, n, proc_id)
    BY <2>4, <2>6, <2>7 DEF NodesRead
  <2>9. NodesRead(nodes, nodes_count, proc_id)'
    BY <2>1, <2>8
  <2>10. QED
    BY <2>1, <2>2, <2>9 DEF StartInv
<1>3. QED
  BY <1>1, <1>2

(* A rounded share of n is not more than n. *)
LEMMA Share ==
    ASSUME NEW n \in Nat, NEW ratio \in 0 .. 100
    PROVE  (n * ratio + 50) \div 100 \in Nat /\ (n * ratio + 50) \div 100 <= n
<1> DEFINE part == n * ratio
<1>1. part \in Nat
  BY Z3
<1>2. part <= n * 100
  BY Z3
<1> HIDE DEF part
<1>3. (part + 50) \div 100 \in Nat /\ (part + 50) \div 100 <= n
  BY <1>1, <1>2
<1>4. QED
  BY <1>3 DEF part

LEMMA ComputeOK == ASSUME StartInv, ComputeConcurrency PROVE StartInv'
<1>1. CASE GiveUp
  BY <1>1, GiveUpOK
<1>2. CASE ~GiveUp
  <2>1. /\ pc = "compute" /\ pc' = "listen" /\ ~(ConcurrencyNumber < 2)
        /\ fixed_concurent_num' = (max_concurrent_proc # 0)
        /\ max_concurrent_proc' = AtMostAll(ConcurrencyNumber)
        /\ UNCHANGED <<program, proc_id, nodes, nodes_count, concurency_ratio, pid_arr>>
    BY <1>2 DEF ComputeConcurrency
  <2>2. nodes_count \in Nat /\ concurency_ratio \in 0 .. 100 /\ max_concurrent_proc \in Nat
    BY DEF StartInv
  <2>3. /\ ConcurrencyNumber \in Nat
        /\ max_concurrent_proc = 0 => ConcurrencyNumber <= nodes_count
    BY <2>2, Share DEF ConcurrencyNumber
  <2>4. /\ AtMostAll(ConcurrencyNumber) \in Nat /\ AtMostAll(ConcurrencyNumber) <= nodes_count
        /\ \/ AtMostAll(ConcurrencyNumber) >= 2
           \/ max_concurrent_proc # 0 /\ AtMostAll(ConcurrencyNumber) = nodes_count
    BY <2>1, <2>2, <2>3 DEF AtMostAll
  <2>5. Competitors(AtMostAll(ConcurrencyNumber), max_concurrent_proc # 0, nodes_count)
    BY <2>4 DEF Competitors
  <2>6. Competitors(max_concurrent_proc, fixed_concurent_num, nodes_count)'
    BY <2>1, <2>5
  <2>7. QED
    BY <2>1, <2>4, <2>6 DEF StartInv
<1>3. QED
  BY <1>1, <1>2

LEMMA ListenOK == ASSUME StartInv, open_listen_socket PROVE StartInv'
<1>1. CASE GiveUp
  BY <1>1, GiveUpOK
<1>2. CASE ~GiveUp
  <2>1. pc = "listen" /\ pc' = "bound" /\ pid_arr' = <<>>
        /\ UNCHANGED <<program, proc_id, nodes, nodes_count, concurency_ratio,
                       max_concurrent_proc, fixed_concurent_num, pid_arr>>
    BY <1>2 DEF open_listen_socket, paramVars, StartInv
  <2>2. ToSet(<<>>) = {}
    BY DEF ToSet
  <2>3. ToSet(pid_arr') = {}
    BY <2>1, <2>2
  <2>4. QED
    BY <2>1, <2>3 DEF StartInv
<1>3. QED
  BY <1>1, <1>2

LEMMA ElectOneOK == ASSUME StartInv, ElectOne PROVE StartInv'
<1>1. PICK ix \in 1 .. nodes_count : pid_arr' = Append(pid_arr, nodes[ix].proc_id)
  BY DEF ElectOne, get_random_pid
<1>2. /\ pc = "bound" /\ pc' = "bound"
      /\ UNCHANGED <<program, proc_id, nodes, nodes_count, concurency_ratio,
                     max_concurrent_proc, fixed_concurent_num>>
  BY DEF ElectOne, paramVars
<1> DEFINE drawn == {nodes[j].proc_id : j \in 1 .. nodes_count}
           pid == nodes[ix].proc_id
<1>3. pid \in Nat
  <2>1. nodes \in [0 .. nodes_count -> Cell] /\ ix \in 0 .. nodes_count
    BY <1>2 DEF StartInv, NodesRead
  <2>2. nodes[ix] \in Cell
    BY <2>1
  <2>3. QED
    BY <2>2 DEF Cell
<1>4. pid \in drawn /\ pid_arr \in Seq(Nat) /\ ToSet(pid_arr) \subseteq drawn
  BY <1>2 DEF StartInv
<1>5. Append(pid_arr, pid) \in Seq(Nat) /\ ToSet(Append(pid_arr, pid)) \subseteq drawn
  <2> HIDE DEF drawn, pid
  <2>1. Append(pid_arr, pid) \in Seq(Nat)
    BY <1>3, <1>4, AppendProperties
  <2>2. ASSUME NEW k \in DOMAIN Append(pid_arr, pid) PROVE Append(pid_arr, pid)[k] \in drawn
    <3>1. /\ Len(pid_arr) \in Nat /\ DOMAIN pid_arr = 1 .. Len(pid_arr)
          /\ DOMAIN Append(pid_arr, pid) = 1 .. Len(pid_arr) + 1
          /\ \A j \in 1 .. Len(pid_arr) : Append(pid_arr, pid)[j] = pid_arr[j]
          /\ Append(pid_arr, pid)[Len(pid_arr) + 1] = pid
      BY <1>3, <1>4, LenProperties, AppendProperties
    <3>2. \A j \in 1 .. Len(pid_arr) : pid_arr[j] \in drawn
      BY <1>4, <3>1 DEF ToSet
    <3>3. k \in 1 .. Len(pid_arr) \/ k = Len(pid_arr) + 1
      BY <3>1
    <3>4. QED
      BY <1>4, <3>1, <3>2, <3>3
  <2>3. QED
    BY <2>1, <2>2 DEF ToSet
<1>6. drawn' = drawn
  BY <1>2
<1>7. pid_arr' \in Seq(Nat) /\ ToSet(pid_arr') \subseteq drawn'
  <2> HIDE DEF drawn
  <2>1. QED
    BY <1>1, <1>5, <1>6
<1>8. QED
  BY <1>2, <1>7 DEF StartInv

LEMMA StartNextOK == ASSUME StartupAssumption, StartInv, [Next]_vars PROVE StartInv'
<1>1. CASE UNCHANGED startVars
  BY <1>1 DEF StartInv, startVars, paramVars
<1>2. CASE StartNext
  <2>1. CASE \E args \in PeerOptions : parse_peer_params(args)
    BY <2>1, PeerParamsOK
  <2>2. CASE \E args \in SupervisorOptions : parse_sup_params(args)
    BY <2>2, SupervisorParamsOK
  <2>3. CASE \E file \in Files : parse_file(file)
    BY <2>3, ParseFileOK
  <2>4. CASE ComputeConcurrency
    BY <2>4, ComputeOK
  <2>5. CASE open_listen_socket
    BY <2>5, ListenOK
  <2>6. CASE SystemCallFails
    BY <2>6, GiveUpOK DEF SystemCallFails
  <2>7. CASE ElectOne
    BY <2>7, ElectOneOK
  <2>8. QED
    BY <1>2, <2>1, <2>2, <2>3, <2>4, <2>5, <2>6, <2>7 DEF StartNext
<1>3. CASE HandlersFail
  BY <1>3, GiveUpOK DEF HandlersFail
<1>4. CASE UNCHANGED vars
  BY <1>1, <1>4 DEF vars
<1>5. CASE Next /\ ~Start /\ ~HandlersFail
  <2>1. UNCHANGED startVars
    BY <1>5 DEF Next, WaitForEvents, Arrive, Expire, WaitEvents, Signal, PackIn, Entered, Exited, Stop
  <2>2. QED
    BY <1>1, <2>1
<1>6. QED
  BY <1>2, <1>3, <1>4, <1>5 DEF Start

LEMMA StartInvariance == Spec => []StartInv
<1>1. Init => StartInv
  BY StartInitOK DEF Init
<1>2. StartInv /\ [Next]_vars => StartInv'
  BY StartupAssumption, StartNextOK
<1>3. QED
  BY <1>1, <1>2, PTL DEF Spec

(***************************************************************************)
(* "Line number determines the proc_id": whatever the file, with comments  *)
(* and empty lines anywhere, an accepted one has put every record but the  *)
(* last into the cell of its process, and the process knows its links.     *)
(***************************************************************************)
THEOREM RecordsPlaced == Spec => []RecordsInPlace
<1>1. StartInv => RecordsInPlace
  <2>1. SUFFICES ASSUME StartInv, Configured PROVE RecordsInPlace
    BY DEF RecordsInPlace
  <2>2. nodes_count \in Nat /\ NodesRead(nodes, nodes_count, proc_id)
    BY <2>1 DEF StartInv, Configured
  <2>3. QED
    BY <2>2 DEF NodesRead, RecordsInPlace
<1>2. QED
  BY <1>1, StartInvariance, PTL

(* The cells of 1 .. n are those of n processes. *)
LEMMA ManyToDraw ==
    ASSUME NEW cells, NEW n \in Nat, NEW p_id, NodesRead(cells, n, p_id)
    PROVE  Cardinality({cells[ix].proc_id : ix \in 1 .. n}) = n
<1> DEFINE pids == {cells[ix].proc_id : ix \in 1 .. n}
           pid == [ix \in 1 .. n |-> cells[ix].proc_id]
<1>1. \A ix \in 1 .. n : cells[ix].proc_id = ix \/ (ix = n /\ cells[ix].proc_id = 0)
  BY DEF NodesRead, ZeroCell
<1>2. pid \in [1 .. n -> pids] /\ \A p \in pids : \E ix \in 1 .. n : pid[ix] = p
  OBVIOUS
<1>3. \A i, j \in 1 .. n : pid[i] = pid[j] => i = j
  BY <1>1
<1>4. pid \in Bijection(1 .. n, pids)
  BY <1>2, <1>3 DEF Bijection, Injection, Surjection, IsInjective
<1>5. IsFiniteSet(1 .. n) /\ Cardinality(1 .. n) = n
  BY FS_Interval
<1>6. Cardinality(pids) = Cardinality(1 .. n)
  <2> HIDE DEF pids, pid
  <2>1. QED
    BY <1>4, <1>5, FS_Bijection DEF ExistsBijection
<1>7. QED
  BY <1>5, <1>6

(***************************************************************************)
(* Whatever the command line and the file, the supervisor's election is    *)
(* defined and ends: no division by zero, never more competitors than      *)
(* there are processes to draw, and only peers drawn, but for the cell of  *)
(* a record the file lacks.                                                *)
(***************************************************************************)
THEOREM ElectionIsDefined == Spec => []ElectionDefined
<1>1. StartInv => ElectionDefined
  <2>1. SUFFICES ASSUME StartInv, Configured, program = "supervisor" PROVE ElectionDefined
    BY DEF ElectionDefined
  <2>2. /\ nodes_count \in Nat /\ NodesRead(nodes, nodes_count, proc_id)
        /\ Competitors(max_concurrent_proc, fixed_concurent_num, nodes_count)
    BY <2>1 DEF StartInv, Configured
  <2>3. max_concurrent_proc <= Cardinality({nodes[ix].proc_id : ix \in 1 .. nodes_count})
    BY <2>2, ManyToDraw DEF Competitors
  <2>4. ASSUME NEW p \in ToSet(pid_arr)
        PROVE  p \in 1 .. nodes_count \/ (p = SupervisorPid /\ ~nodes[nodes_count].line.record)
    <3>1. CASE pc = "listen"
      BY <2>1, <2>4, <3>1 DEF StartInv, ToSet
    <3>2. CASE pc = "bound"
      <4>1. PICK ix \in 1 .. nodes_count : p = nodes[ix].proc_id
        BY <2>1, <2>4, <3>2 DEF StartInv
      <4>2. \/ nodes[ix].proc_id = ix
            \/ ix = nodes_count /\ nodes[ix] = ZeroCell
        BY <2>2 DEF NodesRead
      <4>3. QED
        BY <4>1, <4>2 DEF ZeroCell, Comment, SupervisorPid
    <3>3. QED
      BY <2>1, <3>1, <3>2 DEF Configured
  <2>5. QED
    BY <2>2, <2>3, <2>4 DEF ElectionDefined, Competitors
<1>2. QED
  BY <1>1, StartInvariance, PTL
=============================================================================

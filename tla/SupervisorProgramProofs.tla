---------------------- MODULE SupervisorProgramProofs ----------------------
(***************************************************************************)
(* The supervisor on its event engine, for every MAX_TIMERS, number of     *)
(* peers, interval and number of tests: the periodic work is due exactly   *)
(* once, for ever; the program does what module Supervisor says; the       *)
(* delays it adds up are intervals of time that nobody shares; and the     *)
(* average it logs is the mean of the delays it has measured.              *)
(***************************************************************************)
EXTENDS SupervisorProgram, EventsProofs

Assumptions == EventsAssumption /\ SupervisorProgramAssumption

PeerReport == [src : Proc, dst : {SUPERVISOR_PID}, msg : [type : {"ENTERED", "EXITED"}]]

(***************************************************************************)
(* schedule_event must find a slot.  It does because the only timer is     *)
(* that of the periodic work itself, which has expired when do_work runs.  *)
(***************************************************************************)
IInv ==
    /\ EngineOK
    /\ TimersAreFor("PERIODIC_WORK")
    /\ socket \in Seq(PeerReport)
    /\ main \in {"handlers", "syncro", "periodic", "wait"}
    /\ PeriodicAlive

-----------------------------------------------------------------------------
LEMMA InitOK == ASSUME Assumptions, Init PROVE IInv
<1>1. EngineOK /\ Due("PERIODIC_WORK") = 0 /\ TimersAreFor("PERIODIC_WORK")
  BY EventsInitOK DEF Init, Assumptions, Event
<1>2. socket \in Seq(PeerReport) /\ main = "handlers"
  BY DEF Init, EventsInit
<1>3. QED
  BY <1>1, <1>2 DEF IInv, PeriodicAlive

LEMMA EngineUntouched ==
    ASSUME IInv, UNCHANGED <<main, engineVars>>
    PROVE  IInv'
BY DEF IInv, EngineOK, EventsTypeOK, SlotsMatchTimers, SignalsCoverSocket, TimersAreFor,
       PeriodicAlive, Due, Count, engineVars, netioVars, timerVars

LEMMA RegisterHandlersOK == ASSUME IInv, RegisterHandlers PROVE IInv'
<1>1. /\ UNCHANGED <<socket, early, sigrt_network, sigrt_timerexp, sigrt_deliver, timerVars,
                     exit_request>>
      /\ o_async' = TRUE /\ main = "handlers" /\ main' = "syncro"
  BY DEF RegisterHandlers, init_handlers
<1>2. QED
  BY <1>1 DEF IInv, EngineOK, EventsTypeOK, SlotsMatchTimers, SignalsCoverSocket, TimersAreFor,
              PeriodicAlive, Due, Count, timerVars

LEMMA StopOK == ASSUME IInv, Stop PROVE IInv'
<1>1. /\ UNCHANGED <<netioVars, sigrt_network, sigrt_timerexp, sigrt_deliver, timerVars, main>>
      /\ exit_request' = TRUE
  BY DEF Stop, ForcedExit
<1>2. QED
  BY <1>1 DEF IInv, EngineOK, EventsTypeOK, SlotsMatchTimers, SignalsCoverSocket, TimersAreFor,
              PeriodicAlive, Due, Count, netioVars, timerVars

(***************************************************************************)
(* A step that only exchanges the queue of events for s, and takes packets *)
(* out of the socket.                                                      *)
(***************************************************************************)
LEMMA QueueChanged ==
    ASSUME Assumptions, IInv, NEW s \in Seq(Event), sigrt_deliver' = s,
           UNCHANGED <<sigrt_timerexp, timerVars>>
    PROVE  /\ SlotsMatchTimers'
           /\ TimersAreFor("PERIODIC_WORK")'
           /\ Due("PERIODIC_WORK") \in Nat /\ Due("PERIODIC_WORK")' \in Nat
           /\ Due("PERIODIC_WORK")' + Count(sigrt_deliver, "PERIODIC_WORK")
                  = Due("PERIODIC_WORK") + Count(s, "PERIODIC_WORK")
<1> DEFINE evt == "PERIODIC_WORK"
           r == Running(timers_pool, evt)
           x == Expired(sigrt_timerexp, evt)
           c == Count(sigrt_deliver, evt)
           d == Count(s, evt)
<1>1. SlotsMatchTimers' /\ TimersAreFor(evt)'
  BY DEF IInv, EngineOK, SlotsMatchTimers, TimersAreFor, timerVars
<1>2. evt \in Event
  BY DEF Event
<1> HIDE DEF evt
<1>3. r \in Nat /\ x \in Nat /\ c \in Nat /\ d \in Nat
  BY <1>2, RunningIs, ExpiredIs, CountIs DEF IInv, EngineOK, EventsTypeOK, Assumptions
<1>4. Due(evt) = r + x + c
  BY DueIsSum
<1>5. Due(evt)' = r + x + d
  BY DEF Due, Running, Expired, Count, timerVars, evt
<1> HIDE DEF r, x, c, d
<1>6. Due(evt)' + c = Due(evt) + d /\ Due(evt) \in Nat /\ Due(evt)' \in Nat
  BY <1>3, <1>4, <1>5
<1>7. QED
  BY <1>1, <1>6 DEF c, d, evt

LEMMA QueueOnly ==
    ASSUME Assumptions, IInv, NEW s \in Seq(Event), sigrt_deliver' = s,
           UNCHANGED <<netioVars, sigrt_network, sigrt_timerexp, timerVars, exit_request>>,
           Count(s, "PACK_IN") = Count(sigrt_deliver, "PACK_IN")
    PROVE  EngineOK' /\ socket' \in Seq(PeerReport)
<1>1. SlotsMatchTimers'
  BY QueueChanged
<1>2. SignalsCoverSocket'
  BY DEF IInv, EngineOK, SignalsCoverSocket, Count, netioVars
<1>3. EventsTypeOK' /\ socket' \in Seq(PeerReport)
  BY DEF IInv, EngineOK, EventsTypeOK, netioVars, timerVars
<1>4. QED
  BY <1>1, <1>2, <1>3 DEF EngineOK
-----------------------------------------------------------------------------
(* main() queues SYNCRO and then, for the first time, the periodic work. *)
LEMMA DeliverOK ==
    ASSUME Assumptions, IInv, DeliverSyncro \/ DeliverPeriodicWork
    PROVE  IInv'
<1> DEFINE evt == IF main = "syncro" THEN "SYNCRO" ELSE "PERIODIC_WORK"
           s == Append(sigrt_deliver, evt)
<1>1. /\ sigrt_deliver' = s
      /\ \/ main = "syncro" /\ main' = "periodic"
         \/ main = "periodic" /\ main' = "wait"
      /\ UNCHANGED <<netioVars, sigrt_network, sigrt_timerexp, timerVars, exit_request>>
  BY DEF DeliverSyncro, DeliverPeriodicWork, Kickstart, deliver_event
<1>2. /\ sigrt_deliver \in Seq(Event) /\ evt \in Event
      /\ "PACK_IN" \in Event /\ "PERIODIC_WORK" \in Event
      /\ evt # "PACK_IN"
  BY DEF IInv, EngineOK, EventsTypeOK, Event
<1>3. s \in Seq(Event)
  BY <1>2, AppendProperties
<1>4. \A e \in Event : /\ Count(sigrt_deliver, e) \in Nat
                       /\ Count(s, e) = Count(sigrt_deliver, e) + IF evt = e THEN 1 ELSE 0
  BY <1>2, CountIs
<1> HIDE DEF s
<1>5. /\ Count(s, "PACK_IN") = Count(sigrt_deliver, "PACK_IN")
      /\ Count(sigrt_deliver, "PERIODIC_WORK") \in Nat
      /\ Count(s, "PERIODIC_WORK")
             = Count(sigrt_deliver, "PERIODIC_WORK") + IF main = "syncro" THEN 0 ELSE 1
  BY <1>2, <1>4
<1>6. EngineOK' /\ socket' \in Seq(PeerReport)
  BY <1>1, <1>3, <1>5, QueueOnly
<1>7. /\ TimersAreFor("PERIODIC_WORK")'
      /\ Due("PERIODIC_WORK")' \in Nat
      /\ Due("PERIODIC_WORK")' + Count(sigrt_deliver, "PERIODIC_WORK")
             = Due("PERIODIC_WORK") + Count(s, "PERIODIC_WORK")
  BY <1>1, <1>3, QueueChanged
<1>8. Due("PERIODIC_WORK") = 0
  BY <1>1 DEF IInv, PeriodicAlive
<1>9. Due("PERIODIC_WORK")' = IF main = "syncro" THEN 0 ELSE 1
  BY <1>5, <1>7, <1>8
<1>10. PeriodicAlive'
  BY <1>1, <1>9 DEF PeriodicAlive
<1>11. QED
  BY <1>1, <1>6, <1>7, <1>10 DEF IInv

LEMMA EngineStepsOK ==
    ASSUME Assumptions, IInv, Expire \/ Signal \/ Peers
    PROVE  IInv'
<1>1. /\ EngineOK /\ TimersAreFor("PERIODIC_WORK") /\ EventsAssumption
      /\ "PERIODIC_WORK" \in Event \ {"PACK_IN"} /\ socket \in Seq(PeerReport)
  BY DEF IInv, Assumptions, Event
<1>2. CASE \E p \in Proc : Hear(p)
  <2>1. UNCHANGED <<main, engineVars>>
    BY <1>2 DEF Hear
  <2>2. QED
    BY <2>1, EngineUntouched
<1>3. CASE \E p \in Proc : Enter(p) \/ Leave(p)
  <2>1. PICK pkt \in PeerReport : PacketArrives(pkt)
    BY <1>3 DEF Enter, Leave, Report, PeerReport
  <2>2. /\ EngineOK' /\ TimersAreFor("PERIODIC_WORK")' /\ socket' \in Seq(PeerReport)
        /\ Due("PERIODIC_WORK")' = Due("PERIODIC_WORK")
    BY <1>1, <2>1, PacketArrivesOK
  <2>3. main' = main
    BY <1>3 DEF Enter, Leave, Report
  <2>4. QED
    BY <2>2, <2>3 DEF IInv, PeriodicAlive
<1>4. CASE Expire \/ Signal
  <2>1. /\ EngineOK' /\ TimersAreFor("PERIODIC_WORK")'
        /\ Due("PERIODIC_WORK")' = Due("PERIODIC_WORK")
    <3>1. CASE Expire
      <4>1. PICK ix \in Slot : TimerExpires(ix)
        BY <3>1 DEF Expire
      <4>2. QED
        BY <1>1, <4>1, TimerExpiresOK
    <3>2. CASE networkio_handler
      BY <1>1, <3>2, NetworkioOK
    <3>3. CASE timer_expire_handler
      BY <1>1, <3>3, TimerExpireHandlerOK
    <3>4. QED
      BY <1>4, <3>1, <3>2, <3>3 DEF Signal, EngineNext
  <2>2. UNCHANGED <<main, socket>>
    BY <1>4 DEF Expire, TimerExpires, Signal, EngineNext, networkio_handler,
                timer_expire_handler, netioVars
  <2>3. QED
    BY <2>1, <2>2 DEF IInv, PeriodicAlive
<1>5. QED
  BY <1>2, <1>3, <1>4 DEF Peers
-----------------------------------------------------------------------------
(* The handlers of SYNCRO and of PACK_IN leave the timer alone. *)
LEMMA SyncroOK ==
    ASSUME Assumptions, IInv, syncro
    PROVE  IInv'
<1> DEFINE s == Tail(sigrt_deliver)
<1>1. /\ Handles("SYNCRO") /\ sigrt_deliver' = s /\ main' = main
      /\ UNCHANGED <<netioVars, sigrt_network, sigrt_timerexp, timerVars, exit_request>>
      /\ "SYNCRO" \in Event /\ "PACK_IN" \in Event /\ "PERIODIC_WORK" \in Event
      /\ EngineOK
  BY DEF syncro, Event, IInv
<1>2. /\ s \in Seq(Event)
      /\ \A e \in Event : /\ Count(s, e) \in Nat
                          /\ Count(sigrt_deliver, e)
                                 = Count(s, e) + IF e = "SYNCRO" THEN 1 ELSE 0
  BY <1>1, Handling
<1> HIDE DEF s
<1>3. /\ Count(s, "PACK_IN") = Count(sigrt_deliver, "PACK_IN")
      /\ Count(s, "PERIODIC_WORK") = Count(sigrt_deliver, "PERIODIC_WORK")
      /\ Count(s, "PERIODIC_WORK") \in Nat
  BY <1>1, <1>2
<1>4. EngineOK' /\ socket' \in Seq(PeerReport)
  BY <1>1, <1>2, <1>3, QueueOnly
<1>5. /\ TimersAreFor("PERIODIC_WORK")'
      /\ Due("PERIODIC_WORK") \in Nat /\ Due("PERIODIC_WORK")' \in Nat
      /\ Due("PERIODIC_WORK")' + Count(sigrt_deliver, "PERIODIC_WORK")
             = Due("PERIODIC_WORK") + Count(s, "PERIODIC_WORK")
  BY <1>1, <1>2, QueueChanged
<1>6. Due("PERIODIC_WORK")' = Due("PERIODIC_WORK")
  BY <1>3, <1>5
<1>7. QED
  BY <1>1, <1>4, <1>5, <1>6 DEF IInv, PeriodicAlive

LEMMA PackInOK ==
    ASSUME Assumptions, IInv, PackIn
    PROVE  IInv'
<1> DEFINE s == Tail(sigrt_deliver)
<1>1. /\ Handles("PACK_IN") /\ sigrt_deliver' = s /\ main' = main
      /\ socket # <<>> /\ socket' = Tail(socket)
      /\ UNCHANGED <<early, o_async, sigrt_network, sigrt_timerexp, timerVars>>
      /\ "PACK_IN" \in Event /\ "PERIODIC_WORK" \in Event
      /\ EngineOK
  BY DEF PackIn, net_demux, Event, IInv
<1>2. /\ s \in Seq(Event)
      /\ \A e \in Event : /\ Count(s, e) \in Nat
                          /\ Count(sigrt_deliver, e)
                                 = Count(s, e) + IF e = "PACK_IN" THEN 1 ELSE 0
  BY <1>1, Handling
<1> HIDE DEF s
<1>3. /\ Count(sigrt_deliver, "PACK_IN") = Count(s, "PACK_IN") + 1
      /\ Count(s, "PACK_IN") \in Nat
      /\ Count(s, "PERIODIC_WORK") = Count(sigrt_deliver, "PERIODIC_WORK")
      /\ Count(s, "PERIODIC_WORK") \in Nat
  BY <1>1, <1>2
<1>4. /\ SlotsMatchTimers' /\ TimersAreFor("PERIODIC_WORK")'
      /\ Due("PERIODIC_WORK") \in Nat /\ Due("PERIODIC_WORK")' \in Nat
      /\ Due("PERIODIC_WORK")' + Count(sigrt_deliver, "PERIODIC_WORK")
             = Due("PERIODIC_WORK") + Count(s, "PERIODIC_WORK")
  BY <1>1, <1>2, QueueChanged
<1>5. Due("PERIODIC_WORK")' = Due("PERIODIC_WORK")
  BY <1>3, <1>4
<1>6. /\ socket' \in Seq(PeerReport)
      /\ Len(socket') = Len(socket) - 1
      /\ Len(socket) \in Nat
  BY <1>1, HeadTailProperties, LenProperties DEF IInv
<1>7. SignalsCoverSocket'
  <2>1. /\ Len(socket) = early + sigrt_network + Count(sigrt_deliver, "PACK_IN")
        /\ early \in Nat /\ sigrt_network \in Nat
    BY DEF IInv, EngineOK, EventsTypeOK, SignalsCoverSocket
  <2>2. Len(socket') = early + sigrt_network + Count(s, "PACK_IN")
    BY <1>3, <1>6, <2>1
  <2>3. QED
    BY <1>1, <2>2 DEF SignalsCoverSocket, Count
<1>8. exit_request' \in BOOLEAN
  BY DEF PackIn, process_messages, IInv, EngineOK, EventsTypeOK
<1>9. EventsTypeOK'
  BY <1>1, <1>2, <1>8 DEF IInv, EngineOK, EventsTypeOK, timerVars
<1>10. QED
  BY <1>1, <1>4, <1>5, <1>6, <1>7, <1>9 DEF IInv, EngineOK, PeriodicAlive

(***************************************************************************)
(* do_work schedules itself again.  Its event is the one that was due, so  *)
(* no timer runs, all slots are free, and schedule_event succeeds.         *)
(***************************************************************************)
LEMMA DoWorkOK ==
    ASSUME Assumptions, IInv, do_work, main = "wait"
    PROVE  IInv'
<1> DEFINE s == Tail(sigrt_deliver)
           evt == "PERIODIC_WORK"
<1>1. /\ Handles(evt) /\ sigrt_deliver' = s /\ main' = main
      /\ schedule_event(evt, election_interval)
      /\ UNCHANGED <<netioVars, sigrt_network, sigrt_timerexp, exit_request>>
      /\ evt \in Event /\ "PACK_IN" \in Event /\ evt # "PACK_IN"
      /\ EngineOK /\ EventsTypeOK /\ EventsAssumption /\ TimersAreFor(evt)
      /\ election_interval \in Nat \ {0}
  BY DEF do_work, Rearm, Event, IInv, EngineOK, Assumptions, SupervisorProgramAssumption
<1>2. /\ s \in Seq(Event)
      /\ Count(s, evt) \in Nat
      /\ Count(sigrt_deliver, evt) = Count(s, evt) + 1
      /\ Count(s, "PACK_IN") = Count(sigrt_deliver, "PACK_IN")
  <2>1. /\ s \in Seq(Event)
        /\ \A e \in Event : /\ Count(s, e) \in Nat
                            /\ Count(sigrt_deliver, e) = Count(s, e) + IF e = evt THEN 1 ELSE 0
    BY <1>1, Handling
  <2> HIDE DEF s
  <2>2. QED
    BY <1>1, <2>1
<1>3. Due(evt) = 1
  BY DEF IInv, PeriodicAlive
<1> HIDE DEF s
<1>4. Count(s, evt) = 0 /\ Running(timers_pool, evt) = 0 /\ Expired(sigrt_timerexp, evt) = 0
  <2>1. /\ Count(sigrt_deliver, evt) <= Due(evt)
        /\ Due(evt) <= Count(sigrt_deliver, evt) =>
              Running(timers_pool, evt) = 0 /\ Expired(sigrt_timerexp, evt) = 0
    BY <1>1, DueNowhere
  <2>2. QED
    BY <1>2, <1>3, <2>1
<1>5. /\ get_free_timer \in Slot /\ get_free_timer # -1
      /\ timers_pool[get_free_timer] = "none"
      /\ timers_state[get_free_timer] = "TIMER_UNUSED"
  BY <1>1, <1>4, PoolIsFree
<1>6. /\ timers_state' \in [Slot -> {"TIMER_UNUSED", "TIMER_ARMED"}]
      /\ timers_pool' \in [Slot -> Event \cup {"none"}]
      /\ last_timer' \in Slot
      /\ SlotsMatchTimers'
      /\ TimersAreFor(evt)'
      /\ Running(timers_pool', evt) = Running(timers_pool, evt) + 1
  BY <1>1, <1>5, Scheduled
<1>7. Due(evt)' = 1
  <2>1. Due(evt)' = Running(timers_pool', evt) + Expired(sigrt_timerexp, evt) + Count(s, evt)
    BY <1>1 DEF Due, Running, Expired, Count
  <2>2. QED
    BY <1>4, <1>6, <2>1
<1>8. SignalsCoverSocket'
  BY <1>1, <1>2 DEF EngineOK, SignalsCoverSocket, Count, netioVars
<1>9. EventsTypeOK' /\ socket' \in Seq(PeerReport)
  BY <1>1, <1>2, <1>6 DEF IInv, EventsTypeOK, netioVars
<1>10. QED
  BY <1>1, <1>6, <1>7, <1>8, <1>9 DEF IInv, EngineOK, PeriodicAlive
-----------------------------------------------------------------------------
LEMMA NextOK ==
    ASSUME Assumptions, IInv, [Next]_vars
    PROVE  IInv'
<1>1. CASE UNCHANGED vars
  BY <1>1, EngineUntouched DEF vars
<1>2. CASE RegisterHandlers
  BY <1>2, RegisterHandlersOK
<1>3. CASE DeliverSyncro \/ DeliverPeriodicWork
  BY <1>3, DeliverOK
<1>4. CASE Expire \/ Peers \/ Signal
  BY <1>4, EngineStepsOK
<1>5. CASE Stop
  BY <1>5, StopOK
<1>6. CASE syncro
  BY <1>6, SyncroOK
<1>7. CASE do_work /\ main = "wait"
  BY <1>7, DoWorkOK
<1>8. CASE PackIn
  BY <1>8, PackInOK
<1>9. QED
  BY <1>1, <1>2, <1>3, <1>4, <1>5, <1>6, <1>7, <1>8 DEF Next, WaitEvents

LEMMA Invariance == Spec => []IInv
<1>1. Assumptions
  BY EventsAssumption, SupervisorProgramAssumption DEF Assumptions
<1>2. Init => IInv
  BY <1>1, InitOK
<1>3. IInv /\ [Next]_vars => IInv'
  BY <1>1, NextOK
<1>4. QED
  BY <1>2, <1>3, PTL DEF Spec

(***************************************************************************)
(* The periodic work never stops and never doubles: however packets,       *)
(* timers and signals interleave, and although nobody looks at what        *)
(* schedule_event returns, there is always exactly one event that will     *)
(* start the next test.                                                    *)
(***************************************************************************)
THEOREM PeriodicForEver == Spec => []PeriodicAlive
BY Invariance, PTL DEF IInv
-----------------------------------------------------------------------------
LEMMA SumFolds ==
    ASSUME NEW n \in Nat, NEW s \in [1 .. n -> Int]
    PROVE  \E h \in [0 .. n -> Int] :
              /\ h[0] = 0
              /\ \A k \in 1 .. n : h[k] = h[k - 1] + s[k]
              /\ SumOf(s) = h[n]
<1> DEFINE Fits(f) == f = [t \in SUBSET (1 .. n) |->
                              IF t = {} THEN 0 ELSE f[t \ {Max(t)}] + s[Max(t)]]
           it == CHOOSE f : Fits(f)
           h == [k \in 0 .. n |-> it[1 .. k]]
<1>1. \E f : Fits(f)
  <2> DEFINE step == [k \in 1 .. n |-> [v \in Int |-> v + s[k]]]
  <2>1. step \in [1 .. n -> [Int -> Int]]
    OBVIOUS
  <2> HIDE DEF step
  <2>2. PICK f : IsFold(f, n, Int, 0, step)
    <3>1. 0 \in Int
      OBVIOUS
    <3>2. \E f : IsFold(f, n, Int, 0, step)
      BY <2>1, <3>1, FoldExists, Zenon
    <3>3. QED
      BY <3>2
  <2>3. ASSUME NEW t \in SUBSET (1 .. n), t # {}
        PROVE  Max(t) \in 1 .. n /\ f[t \ {Max(t)}] \in Int
    <3>1. Max(t) \in t
      BY <2>3, MaxWithin
    <3>2. t \ {Max(t)} \in SUBSET (1 .. n)
      BY <2>3
    <3>3. QED
      BY <3>1, <3>2, <2>2 DEF IsFold
  <2>4. \A t \in SUBSET (1 .. n) :
            f[t] = IF t = {} THEN 0 ELSE f[t \ {Max(t)}] + s[Max(t)]
    BY <2>2, <2>3 DEF step, IsFold
  <2>5. Fits(f)
    BY <2>2, <2>4 DEF IsFold
  <2> HIDE DEF Fits
  <2>6. QED
    BY <2>5
<1>2. Fits(it)
  <2> HIDE DEF Fits
  <2>1. QED
    BY <1>1
<1>3. SumOf(s) = it[1 .. n]
  <2>1. DOMAIN s = 1 .. n
    OBVIOUS
  <2>2. SumOf(s) = it[DOMAIN s]
    BY <2>1, Zenon DEF SumOf, FoldLeft, MapThenFoldSet
  <2>3. QED
    BY <2>1, <2>2
<1> HIDE DEF it
<1>4. h[0] = 0 /\ SumOf(s) = h[n]
  <2>1. 1 .. 0 = {} /\ 1 .. 0 \in SUBSET (1 .. n) /\ {} \in SUBSET (1 .. n)
    OBVIOUS
  <2>2. it[{}] = 0
    BY <1>2, <2>1
  <2>3. QED
    BY <1>3, <2>1, <2>2
<1>5. ASSUME NEW k \in 1 .. n PROVE h[k] = h[k - 1] + s[k]
  <2>1. it[1 .. k] = it[(1 .. k) \ {k}] + s[k]
    BY <1>2, Segments, Zenon
  <2>2. k \in 0 .. n /\ k - 1 \in 0 .. n
    OBVIOUS
  <2>3. QED
    BY <2>1, <2>2, Segments
<1>6. h \in [0 .. n -> Int]
  <2> DEFINE S == {k \in 0 .. n : h[k] \in Int}
  <2>1. 0 \in S
    BY <1>4
  <2> HIDE DEF h
  <2>2. \A k \in 1 .. n : k - 1 \in S => k \in S
    BY <1>5
  <2> HIDE DEF S
  <2>3. 0 .. n \subseteq S
    BY <2>1, <2>2, CountUp
  <2>4. QED
    BY <2>3 DEF S, h
<1>7. QED
  BY <1>4, <1>5, <1>6

LEMMA Division ==
    ASSUME NEW a \in Int, NEW b \in Nat \ {0}
    PROVE  /\ a \div b \in Int /\ a % b \in Int /\ 0 <= a % b /\ a % b < b
           /\ a = (a \div b) * b + (a % b)
  OBVIOUS

(* The quotient is what fits. *)
LEMMA Quotient ==
    ASSUME NEW a \in Int, NEW b \in Nat \ {0}, NEW q \in Int, NEW r \in Int,
           0 <= r, r < b, a = q * b + r
    PROVE  a \div b = q
  OBVIOUS

LEMMA ClockRead ==
    ASSUME NEW t \in Nat
    PROVE  /\ ReadClock(t).tv_sec \in Int /\ ReadClock(t).tv_nsec \in Int
           /\ Nanoseconds(ReadClock(t)) = t
  BY TimeAssumption, Division DEF ReadClock, Nanoseconds

LEMMA DeltaIs ==
    ASSUME NEW a, NEW b, a.tv_sec \in Int, a.tv_nsec \in Int, b.tv_sec \in Int, b.tv_nsec \in Int
    PROVE  /\ timespec_delta(a, b) \in [tv_sec : Int, tv_nsec : Int]
           /\ Nanoseconds(timespec_delta(a, b)) = Nanoseconds(b) - Nanoseconds(a)
  BY TimeAssumption, Z3 DEF timespec_delta, Nanoseconds

(* A sum is what counting it up gives. *)
LEMMA SumIs ==
    ASSUME NEW n \in Nat, NEW s \in [1 .. n -> Int], NEW h \in [0 .. n -> Int],
           h[0] = 0, \A k \in 1 .. n : h[k] = h[k - 1] + s[k]
    PROVE  SumOf(s) = h[n]
<1>1. PICK g \in [0 .. n -> Int] :
          /\ g[0] = 0
          /\ \A k \in 1 .. n : g[k] = g[k - 1] + s[k]
          /\ SumOf(s) = g[n]
  BY SumFolds
<1> DEFINE S == {k \in 0 .. n : g[k] = h[k]}
<1>2. 0 \in S
  BY <1>1
<1>3. \A k \in 1 .. n : k - 1 \in S => k \in S
  BY <1>1
<1> HIDE DEF S
<1>4. 0 .. n \subseteq S
  BY <1>2, <1>3, CountUp
<1>5. QED
  BY <1>1, <1>4 DEF S

LEMMA SumOfNone ==
    ASSUME NEW s \in [1 .. 0 -> Int]
    PROVE  SumOf(s) = 0
<1>1. PICK g \in [0 .. 0 -> Int] : g[0] = 0 /\ SumOf(s) = g[0]
  BY SumFolds
<1>2. QED
  BY <1>1

LEMMA SumOfMore ==
    ASSUME NEW n \in Nat, NEW s \in [1 .. n -> Int], NEW more \in [1 .. n + 1 -> Int],
           \A k \in 1 .. n : more[k] = s[k]
    PROVE  /\ SumOf(s) \in Int
           /\ SumOf(more) = SumOf(s) + more[n + 1]
<1>1. PICK g \in [0 .. n -> Int] :
          /\ g[0] = 0
          /\ \A k \in 1 .. n : g[k] = g[k - 1] + s[k]
          /\ SumOf(s) = g[n]
  BY SumFolds
<1> DEFINE h == [k \in 0 .. n + 1 |-> IF k = n + 1 THEN g[n] + more[n + 1] ELSE g[k]]
<1>2. h \in [0 .. n + 1 -> Int] /\ h[0] = 0 /\ n + 1 \in Nat
  BY <1>1
<1>3. \A k \in 1 .. n + 1 : h[k] = h[k - 1] + more[k]
  BY <1>1
<1>4. h[n + 1] = SumOf(s) + more[n + 1] /\ SumOf(s) \in Int
  BY <1>1
<1> HIDE DEF h
<1>5. SumOf(more) = h[n + 1]
  BY <1>2, <1>3, SumIs
<1>6. QED
  BY <1>4, <1>5

(* The sum of the nanoseconds is the sum of the seconds and of the rests. *)
LEMMA SumOfParts ==
    ASSUME NEW n \in Nat, NEW d \in [1 .. n -> [tv_sec : Int, tv_nsec : Int]]
    PROVE  LET secs == SumOf([k \in 1 .. n |-> d[k].tv_sec])
               nsecs == SumOf([k \in 1 .. n |-> d[k].tv_nsec])
           IN  /\ secs \in Int /\ nsecs \in Int
               /\ SumOf([k \in 1 .. n |-> Nanoseconds(d[k])]) = secs * NsecPerSec + nsecs
<1> DEFINE sec   == [k \in 1 .. n |-> d[k].tv_sec]
           nsec  == [k \in 1 .. n |-> d[k].tv_nsec]
           total == [k \in 1 .. n |-> Nanoseconds(d[k])]
<1>1. NsecPerSec \in Nat
  BY TimeAssumption
<1>2. \A k \in 1 .. n : /\ d[k].tv_sec \in Int /\ d[k].tv_nsec \in Int
                        /\ Nanoseconds(d[k]) \in Int
  BY <1>1 DEF Nanoseconds
<1>3. /\ sec \in [1 .. n -> Int] /\ nsec \in [1 .. n -> Int] /\ total \in [1 .. n -> Int]
      /\ \A k \in 1 .. n : total[k] = sec[k] * NsecPerSec + nsec[k]
  BY <1>2 DEF Nanoseconds
<1> HIDE DEF sec, nsec, total
<1>4. PICK g \in [0 .. n -> Int] :
          /\ g[0] = 0
          /\ \A k \in 1 .. n : g[k] = g[k - 1] + sec[k]
          /\ SumOf(sec) = g[n]
  BY <1>3, SumFolds
<1>5. PICK h \in [0 .. n -> Int] :
          /\ h[0] = 0
          /\ \A k \in 1 .. n : h[k] = h[k - 1] + nsec[k]
          /\ SumOf(nsec) = h[n]
  BY <1>3, SumFolds
<1> DEFINE both == [k \in 0 .. n |-> g[k] * NsecPerSec + h[k]]
<1>6. both \in [0 .. n -> Int] /\ both[0] = 0
  BY <1>1, <1>4, <1>5
<1>7. ASSUME NEW k \in 1 .. n PROVE both[k] = both[k - 1] + total[k]
  <2>1. /\ g[k - 1] \in Int /\ h[k - 1] \in Int /\ sec[k] \in Int /\ nsec[k] \in Int
        /\ k - 1 \in 0 .. n /\ k \in 0 .. n
    BY <1>3, <1>4, <1>5
  <2>2. (g[k - 1] + sec[k]) * NsecPerSec = g[k - 1] * NsecPerSec + sec[k] * NsecPerSec
    BY <1>1, <2>1
  <2>3. /\ both[k] = (g[k - 1] + sec[k]) * NsecPerSec + (h[k - 1] + nsec[k])
        /\ both[k - 1] = g[k - 1] * NsecPerSec + h[k - 1]
    BY <1>4, <1>5, <2>1
  <2> HIDE DEF both
  <2>4. /\ g[k - 1] * NsecPerSec \in Int /\ sec[k] * NsecPerSec \in Int
        /\ total[k] = sec[k] * NsecPerSec + nsec[k]
    BY <1>1, <1>3, <2>1
  <2>5. QED
    BY <2>1, <2>2, <2>3, <2>4
<1>8. SumOf(total) = both[n]
  <2> HIDE DEF both
  <2>1. QED
    BY <1>3, <1>6, <1>7, SumIs
<1>9. both[n] = SumOf(sec) * NsecPerSec + SumOf(nsec) /\ SumOf(sec) \in Int /\ SumOf(nsec) \in Int
  BY <1>4, <1>5
<1>10. QED
  BY <1>8, <1>9 DEF sec, nsec, total

(* The average, from the two sums: the rest of the seconds is not lost. *)
LEMMA AverageOfSums ==
    ASSUME NEW len \in Nat \ {0}, NEW secs \in Int, NEW nsecs \in Int
    PROVE  (secs \div len) * NsecPerSec + ((nsecs + (secs % len) * NsecPerSec) \div len)
               = (secs * NsecPerSec + nsecs) \div len
<1> DEFINE q == secs \div len
           r == secs % len
           a == (nsecs + r * NsecPerSec) \div len
           rest == (nsecs + r * NsecPerSec) % len
<1>1. NsecPerSec \in Nat
  BY TimeAssumption
<1>2. q \in Int /\ r \in Int /\ secs = q * len + r
  BY Division
<1> HIDE DEF q, r
<1>3. nsecs + r * NsecPerSec \in Int
  BY <1>1, <1>2
<1>4. a \in Int /\ rest \in Int /\ 0 <= rest /\ rest < len
      /\ nsecs + r * NsecPerSec = a * len + rest
  BY <1>3, Division
<1> HIDE DEF a, rest
<1>5. q * NsecPerSec + a \in Int
  BY <1>1, <1>2, <1>4
<1>6. secs * NsecPerSec + nsecs = (q * NsecPerSec + a) * len + rest
  <2>1. secs * NsecPerSec = (q * NsecPerSec) * len + r * NsecPerSec
    BY <1>1, <1>2, Z3
  <2>2. (q * NsecPerSec + a) * len = (q * NsecPerSec) * len + a * len
    BY <1>1, <1>2, <1>4, Z3
  <2>3. /\ (q * NsecPerSec) * len \in Int /\ a * len \in Int /\ r * NsecPerSec \in Int
        /\ secs * NsecPerSec \in Int
    BY <1>1, <1>2, <1>4
  <2>4. QED
    BY <1>4, <2>1, <2>2, <2>3
<1>7. secs * NsecPerSec + nsecs \in Int
  BY <1>1
<1>8. (secs * NsecPerSec + nsecs) \div len = q * NsecPerSec + a
  BY <1>4, <1>5, <1>6, <1>7, Quotient
<1>9. QED
  BY <1>8 DEF q, r, a

LEMMA AverageIs ==
    ASSUME NEW d \in Seq([tv_sec : Int, tv_nsec : Int]), d # <<>>
    PROVE  Nanoseconds(timespec_avg(d)) =
               SumOf([k \in DOMAIN d |-> Nanoseconds(d[k])]) \div Len(d)
<1> DEFINE len   == Len(d)
           secs  == SumOf([k \in DOMAIN d |-> d[k].tv_sec])
           nsecs == SumOf([k \in DOMAIN d |-> d[k].tv_nsec])
           q     == secs \div len
           a     == (nsecs + (secs % len) * NsecPerSec) \div len
<1>1. len \in Nat \ {0} /\ DOMAIN d = 1 .. len /\ d \in [1 .. len -> [tv_sec : Int, tv_nsec : Int]]
  BY LenProperties, EmptySeq
<1>2. timespec_avg(d) =
          IF a > NsecPerSec
          THEN [tv_sec |-> q + a \div NsecPerSec, tv_nsec |-> a % NsecPerSec]
          ELSE [tv_sec |-> q, tv_nsec |-> a]
  BY DEF timespec_avg
<1>3. /\ secs \in Int /\ nsecs \in Int
      /\ SumOf([k \in DOMAIN d |-> Nanoseconds(d[k])]) = secs * NsecPerSec + nsecs
  BY <1>1, SumOfParts
<1> HIDE DEF len, secs, nsecs
<1>4. q \in Int /\ a \in Int /\ NsecPerSec \in Nat \ {0}
  <2>1. NsecPerSec \in Nat \ {0}
    BY TimeAssumption
  <2>2. q \in Int /\ secs % len \in Int
    BY <1>1, <1>3, Division
  <2>3. nsecs + (secs % len) * NsecPerSec \in Int
    BY <1>3, <2>1, <2>2
  <2>4. QED
    BY <1>1, <2>1, <2>2, <2>3, Division
<1>5. q * NsecPerSec + a = (secs * NsecPerSec + nsecs) \div len
  BY <1>1, <1>3, AverageOfSums
<1> HIDE DEF q, a
<1>6. Nanoseconds(timespec_avg(d)) = q * NsecPerSec + a
  <2>1. CASE a > NsecPerSec
    <3>1. /\ a \div NsecPerSec \in Int /\ a % NsecPerSec \in Int
          /\ a = (a \div NsecPerSec) * NsecPerSec + (a % NsecPerSec)
      BY <1>4, Division
    <3>2. Nanoseconds(timespec_avg(d)) =
              (q + a \div NsecPerSec) * NsecPerSec + (a % NsecPerSec)
      BY <1>2, <2>1 DEF Nanoseconds
    <3>3. (q + a \div NsecPerSec) * NsecPerSec
              = q * NsecPerSec + (a \div NsecPerSec) * NsecPerSec
      BY <1>4, <3>1, Z3
    <3>4. q * NsecPerSec \in Int /\ (a \div NsecPerSec) * NsecPerSec \in Int
      BY <1>4, <3>1
    <3>5. QED
      BY <1>4, <3>1, <3>2, <3>3, <3>4
  <2>2. CASE ~(a > NsecPerSec)
    BY <1>2, <2>2 DEF Nanoseconds
  <2>3. QED
    BY <2>1, <2>2
<1>7. QED
  BY <1>3, <1>5, <1>6 DEF len
-----------------------------------------------------------------------------
(***************************************************************************)
(* main() queues SYNCRO and the first PERIODIC_WORK before a signal is     *)
(* looked at, and nobody queues SYNCRO again.                              *)
(***************************************************************************)
SyncroFirst ==
    /\ syncro_done \in BOOLEAN
    /\ main \in {"handlers", "syncro"} => sigrt_deliver = <<>> /\ ~syncro_done
    /\ main = "periodic" => sigrt_deliver = <<"SYNCRO">> /\ ~syncro_done
    /\ main = "wait" /\ ~syncro_done =>
          /\ Len(sigrt_deliver) >= 2
          /\ sigrt_deliver[1] = "SYNCRO" /\ sigrt_deliver[2] = "PERIODIC_WORK"
    /\ \A k \in 1 .. Len(sigrt_deliver) : k # 1 \/ syncro_done => sigrt_deliver[k] # "SYNCRO"

LEMMA SyncroFirstInit == ASSUME Init PROVE SyncroFirst
<1>1. main = "handlers" /\ sigrt_deliver = <<>> /\ syncro_done = FALSE
  BY DEF Init, EventsInit, Sup!SupInit
<1>2. syncro_done \in BOOLEAN /\ ~syncro_done
  BY <1>1
<1>3. Len(sigrt_deliver) = 0
  BY <1>1
<1>4. \A k \in 1 .. Len(sigrt_deliver) : k # 1 \/ syncro_done => sigrt_deliver[k] # "SYNCRO"
  BY <1>3
<1>5. main = "handlers" /\ main # "periodic" /\ main # "wait"
  BY <1>1
<1>6. QED
  BY <1>1, <1>2, <1>4, <1>5, Zenon DEF SyncroFirst

(* An event that is not SYNCRO comes behind the others. *)
LEMMA QueuedBehind ==
    ASSUME IInv, SyncroFirst, main = "wait", NEW e \in Event \ {"SYNCRO"},
           sigrt_deliver' = Append(sigrt_deliver, e), UNCHANGED <<main, syncro_done>>
    PROVE  SyncroFirst'
<1>1. sigrt_deliver \in Seq(Event)
  BY DEF IInv, EngineOK, EventsTypeOK
<1>2. /\ Len(sigrt_deliver) \in Nat
      /\ Len(sigrt_deliver') = Len(sigrt_deliver) + 1
      /\ \A k \in 1 .. Len(sigrt_deliver) : sigrt_deliver'[k] = sigrt_deliver[k]
      /\ sigrt_deliver'[Len(sigrt_deliver) + 1] = e
  BY <1>1, AppendProperties, LenProperties
<1>3. main' = "wait" /\ syncro_done' = syncro_done
  OBVIOUS
<1>4. ~syncro_done' => /\ Len(sigrt_deliver') >= 2
                       /\ sigrt_deliver'[1] = "SYNCRO" /\ sigrt_deliver'[2] = "PERIODIC_WORK"
  BY <1>2, <1>3 DEF SyncroFirst
<1>5. ASSUME NEW k \in 1 .. Len(sigrt_deliver'), k # 1 \/ syncro_done'
      PROVE  sigrt_deliver'[k] # "SYNCRO"
  <2>1. CASE k = Len(sigrt_deliver) + 1
    BY <1>2, <2>1
  <2>2. CASE k # Len(sigrt_deliver) + 1
    <3>1. k \in 1 .. Len(sigrt_deliver)
      BY <1>2, <1>5, <2>2
    <3>2. QED
      BY <1>2, <1>3, <1>5, <3>1 DEF SyncroFirst
  <2>3. QED
    BY <2>1, <2>2
<1>6. QED
  BY <1>3, <1>4, <1>5 DEF SyncroFirst

(* The event that is handled goes, and once SYNCRO has gone it is done. *)
LEMMA QueuedFirst ==
    ASSUME IInv, SyncroFirst, main = "wait", NEW e, Handles(e),
           sigrt_deliver' = Tail(sigrt_deliver), main' = main,
           syncro_done' = (syncro_done \/ e = "SYNCRO")
    PROVE  SyncroFirst' /\ (e = "SYNCRO" <=> ~syncro_done)
<1>1. sigrt_deliver \in Seq(Event) /\ sigrt_deliver # <<>> /\ sigrt_deliver[1] = e
  BY HeadTailProperties DEF IInv, EngineOK, EventsTypeOK, Handles
<1>2. /\ Len(sigrt_deliver) \in Nat \ {0}
      /\ Len(sigrt_deliver') = Len(sigrt_deliver) - 1
      /\ \A k \in 1 .. Len(sigrt_deliver') : sigrt_deliver'[k] = sigrt_deliver[k + 1]
  BY <1>1, HeadTailProperties, LenProperties, EmptySeq
<1>3. e = "SYNCRO" <=> ~syncro_done
  BY <1>1, <1>2 DEF SyncroFirst
<1>4. syncro_done' = TRUE /\ main' = "wait"
  BY <1>3
<1>5. ASSUME NEW k \in 1 .. Len(sigrt_deliver') PROVE sigrt_deliver'[k] # "SYNCRO"
  <2>1. k + 1 \in 1 .. Len(sigrt_deliver) /\ k + 1 # 1
    BY <1>2, <1>5
  <2>2. QED
    BY <1>2, <1>5, <2>1 DEF SyncroFirst
<1>6. QED
  BY <1>3, <1>4, <1>5 DEF SyncroFirst

LEMMA SyncroFirstOK ==
    ASSUME Assumptions, IInv, SyncroFirst, [Next]_vars
    PROVE  SyncroFirst'
<1>1. CASE UNCHANGED vars \/ Expire \/ Stop \/ Peers
  <2>1. UNCHANGED <<main, syncro_done, sigrt_deliver>>
    BY <1>1 DEF vars, viewVars, engineVars, Expire, TimerExpires, Stop, ForcedExit, Peers, Hear,
                Enter, Leave, Report, PacketArrives
  <2>2. QED
    BY <2>1 DEF SyncroFirst
<1>2. CASE RegisterHandlers
  BY <1>2 DEF RegisterHandlers, init_handlers, viewVars, SyncroFirst
<1>3. CASE DeliverSyncro
  <2>1. /\ main' = "periodic" /\ main = "syncro" /\ syncro_done' = syncro_done
        /\ sigrt_deliver' = Append(sigrt_deliver, "SYNCRO")
    BY <1>3 DEF DeliverSyncro, Kickstart, deliver_event, viewVars
  <2>2. sigrt_deliver' = <<"SYNCRO">> /\ ~syncro_done
    BY <2>1 DEF SyncroFirst
  <2>3. QED
    BY <2>1, <2>2 DEF SyncroFirst
<1>4. CASE DeliverPeriodicWork
  <2>1. /\ main' = "wait" /\ main = "periodic" /\ syncro_done' = syncro_done
        /\ sigrt_deliver' = Append(sigrt_deliver, "PERIODIC_WORK")
    BY <1>4 DEF DeliverPeriodicWork, Kickstart, deliver_event, viewVars
  <2>2. sigrt_deliver = <<"SYNCRO">> /\ ~syncro_done
    BY <2>1 DEF SyncroFirst
  <2>3. /\ <<"SYNCRO">> \in Seq(Event) /\ "PERIODIC_WORK" \in Event
        /\ Len(<<"SYNCRO">>) = 1 /\ <<"SYNCRO">>[1] = "SYNCRO"
    BY DEF Event
  <2>4. /\ Len(sigrt_deliver') = 2
        /\ sigrt_deliver'[1] = "SYNCRO" /\ sigrt_deliver'[2] = "PERIODIC_WORK"
    <3>1. /\ Len(Append(<<"SYNCRO">>, "PERIODIC_WORK")) = 1 + 1
          /\ \A k \in 1 .. 1 : Append(<<"SYNCRO">>, "PERIODIC_WORK")[k] = <<"SYNCRO">>[k]
          /\ Append(<<"SYNCRO">>, "PERIODIC_WORK")[1 + 1] = "PERIODIC_WORK"
      BY <2>3, AppendProperties
    <3>2. QED
      BY <2>1, <2>2, <2>3, <3>1
  <2>5. QED
    BY <2>1, <2>2, <2>4 DEF SyncroFirst
<1>5. CASE main = "wait" /\ Signal
  <2>1. UNCHANGED <<main, syncro_done>>
    BY <1>5 DEF Signal, viewVars
  <2>2. \E e \in Event \ {"SYNCRO"} : sigrt_deliver' = Append(sigrt_deliver, e)
    <3>1. CASE networkio_handler
      BY <3>1 DEF networkio_handler, QueuePackIn, deliver_event, Event
    <3>2. CASE timer_expire_handler
      <4>1. /\ sigrt_timerexp \in Seq(Cookie) /\ sigrt_timerexp # <<>>
            /\ \A k \in 1 .. Len(sigrt_timerexp) : sigrt_timerexp[k].stc_evt = "PERIODIC_WORK"
            /\ sigrt_deliver' = Append(sigrt_deliver, Head(sigrt_timerexp).stc_evt)
        BY <3>2 DEF IInv, EngineOK, EventsTypeOK, TimersAreFor, timer_expire_handler,
                    deliver_event
      <4>2. Head(sigrt_timerexp) = sigrt_timerexp[1] /\ 1 \in 1 .. Len(sigrt_timerexp)
        BY <4>1, HeadTailProperties, LenProperties, EmptySeq
      <4>3. sigrt_deliver' = Append(sigrt_deliver, "PERIODIC_WORK")
        BY <4>1, <4>2
      <4>4. QED
        BY <4>3 DEF Event
    <3>3. QED
      BY <1>5, <3>1, <3>2 DEF Signal, EngineNext
  <2>3. QED
    BY <1>5, <2>1, <2>2, QueuedBehind
<1>6. CASE main = "wait" /\ (syncro \/ do_work \/ PackIn)
  <2>1. \E e \in Event : /\ Handles(e)
                         /\ sigrt_deliver' = Tail(sigrt_deliver) /\ main' = main
                         /\ syncro_done' = (syncro_done \/ e = "SYNCRO")
    <3>1. CASE syncro
      <4>1. /\ syncro_done' = TRUE /\ Handles("SYNCRO") /\ main' = main
            /\ sigrt_deliver' = Tail(sigrt_deliver) /\ "SYNCRO" \in Event
        BY <3>1 DEF syncro, Event
      <4>2. QED
        BY <4>1
    <3>2. CASE do_work
      <4>1. syncro_done' = syncro_done
        BY <3>2 DEF do_work
      <4>2. /\ Handles("PERIODIC_WORK") /\ sigrt_deliver' = Tail(sigrt_deliver) /\ main' = main
            /\ "PERIODIC_WORK" \in Event
        BY <3>2 DEF do_work, Event
      <4>3. syncro_done \in BOOLEAN
        BY DEF SyncroFirst
      <4>4. QED
        BY <4>1, <4>2, <4>3
    <3>3. CASE PackIn
      <4>1. /\ syncro_done' = syncro_done /\ Handles("PACK_IN") /\ main' = main
            /\ sigrt_deliver' = Tail(sigrt_deliver) /\ "PACK_IN" \in Event
        BY <3>3 DEF PackIn, net_demux, process_messages, Event
      <4>2. syncro_done \in BOOLEAN
        BY DEF SyncroFirst
      <4>3. QED
        BY <4>1, <4>2
    <3>4. QED
      BY <1>6, <3>1, <3>2, <3>3
  <2>2. QED
    BY <1>6, <2>1, QueuedFirst
<1>7. QED
  BY <1>1, <1>2, <1>3, <1>4, <1>5, <1>6 DEF Next, WaitEvents
-----------------------------------------------------------------------------
(* The network of module Supervisor. *)
NetView ==
    [l \in Node \X Node |->
        IF l = <<SUPERVISOR_PID, SUPERVISOR_PID>> THEN socket
        ELSE IF l[1] = SUPERVISOR_PID THEN sent[l[2]] ELSE <<>>]

ExitView == [n \in Node |-> n = SUPERVISOR_PID /\ exit_request]

LEMMA NodesAre ==
    ASSUME Assumptions
    PROVE  /\ SUPERVISOR_PID = 0 /\ 0 \in Node /\ 0 \notin Proc /\ Proc \subseteq Node
           /\ Sup!Node = Node /\ Sup!Proc = Proc /\ Sup!SUPERVISOR_PID = SUPERVISOR_PID
BY DEF Assumptions, SupervisorProgramAssumption, Node, Proc, SUPERVISOR_PID, Sup!Node, Sup!Proc,
       Sup!SUPERVISOR_PID

LEMMA SameOperators ==
    /\ \A s : Sup!ToSet(s) = ToSet(s)
    /\ \A S, T : Sup!Injection(S, T) \subseteq [S -> T]
    /\ \A s, k : Sup!RemoveAt(s, k) = SubSeq(s, 1, k - 1) \o SubSeq(s, k + 1, Len(s))
BY DEF Sup!ToSet, ToSet, Sup!Injection, Sup!RemoveAt

LEMMA ViewWaits ==
    ASSUME Assumptions, ~exit_request
    PROVE  Sup!Waiting(Sup!SUPERVISOR_PID)
<1>1. ~Sup!InHandler(0)
  BY DEF Sup!InHandler
<1>2. QED
  BY <1>1, NodesAre DEF Sup!Waiting

(* Sending one message to some peers, in both. *)
LEMMA ViewSends ==
    ASSUME Assumptions, NEW dests, ToSet(dests) \subseteq Proc, NEW type,
           SendTo(ToSet(dests), type), socket' = socket
    PROVE  NetView' = Sup!SendToEach(NetView, Sup!SUPERVISOR_PID, dests, [type |-> type])
<1> DEFINE procs == ToSet(dests)
<1>1. sent' = [p \in Proc |-> IF p \in procs THEN Append(sent[p], Wanted(type, p)) ELSE sent[p]]
  BY DEF SendTo
<1>2. Sup!Lane = Node \X Node
  BY NodesAre DEF Sup!Lane
<1>3. Sup!SendToEach(NetView, Sup!SUPERVISOR_PID, dests, [type |-> type]) =
          [l \in Node \X Node |->
              IF l[1] = 0 /\ l[2] \in procs
              THEN Append(NetView[l], Sup!Packet(0, l[2], [type |-> type]))
              ELSE NetView[l]]
  BY <1>2, NodesAre, SameOperators DEF Sup!SendToEach
<1> HIDE DEF procs
<1>4. ASSUME NEW l \in Node \X Node
      PROVE  NetView'[l] = IF l[1] = 0 /\ l[2] \in procs
                           THEN Append(NetView[l], Sup!Packet(0, l[2], [type |-> type]))
                           ELSE NetView[l]
  <2>1. l = <<l[1], l[2]>> /\ l[1] \in Node /\ l[2] \in Node
    BY <1>4
  <2>2. l[2] \in Node /\ l[2] # 0 => l[2] \in Proc
    BY DEF Node, Proc
  <2>3. procs \subseteq Proc
    BY DEF procs
  <2>4. CASE l[1] = 0 /\ l[2] = 0
    <3>1. l = <<0, 0>>
      BY <2>1, <2>4
    <3>2. QED
      BY <2>3, <2>4, <3>1, NodesAre DEF NetView
  <2>5. CASE l[1] = 0 /\ l[2] # 0
    <3>1. l # <<0, 0>> /\ l[2] \in Proc
      BY <2>1, <2>2, <2>5
    <3>2. NetView[l] = sent[l[2]] /\ NetView'[l] = sent'[l[2]]
      BY <1>4, <2>5, <3>1, NodesAre DEF NetView
    <3>3. Wanted(type, l[2]) = Sup!Packet(0, l[2], [type |-> type])
      BY NodesAre DEF Wanted, Sup!Packet
    <3>4. QED
      BY <1>1, <2>5, <3>1, <3>2, <3>3
  <2>6. CASE l[1] # 0
    <3>1. l # <<0, 0>>
      BY <2>1, <2>6
    <3>2. NetView[l] = <<>> /\ NetView'[l] = <<>>
      BY <1>4, <2>6, <3>1, NodesAre DEF NetView
    <3>3. QED
      BY <2>6, <3>2
  <2>7. QED
    BY <2>4, <2>5, <2>6
<1>5. NetView' = [l \in Node \X Node |-> NetView'[l]]
  BY DEF NetView, Node, SUPERVISOR_PID
<1> HIDE DEF NetView
<1>6. QED
  BY <1>3, <1>4, <1>5

LEMMA ViewSyncro ==
    ASSUME Assumptions, IInv, SyncroFirst, main = "wait", syncro
    PROVE  Sup!syncro
<1>1. /\ ~exit_request /\ Handles("SYNCRO") /\ SendTo(Proc, "SYNCRO") /\ syncro_done' = TRUE
      /\ sigrt_deliver' = Tail(sigrt_deliver) /\ main' = main
      /\ UNCHANGED <<socket, exit_request, nodes, elected_proc_count, received_resps_count,
                     test_number>>
  BY DEF syncro, Handles, netioVars
<1>2. ~syncro_done
  BY <1>1, QueuedFirst
<1>3. ToSet(Sup!BroadcastOrder(0)) = Proc
  <2>1. Sup!BroadcastOrder(0) = [ix \in 1 .. nodes_count |-> ix]
    BY NodesAre DEF Sup!BroadcastOrder
  <2>2. QED
    BY <2>1 DEF ToSet, Proc
<1>4. NetView' = Sup!dme_broadcast_msg(NetView, Sup!SUPERVISOR_PID, [type |-> "SYNCRO"])
  <2>1. NetView' = Sup!SendToEach(NetView, Sup!SUPERVISOR_PID, Sup!BroadcastOrder(0),
                                  [type |-> "SYNCRO"])
    BY <1>1, <1>3, ViewSends
  <2>2. QED
    BY <2>1, NodesAre DEF Sup!dme_broadcast_msg
<1>5. ExitView' = ExitView
  BY <1>1 DEF ExitView
<1>6. Sup!Waiting(Sup!SUPERVISOR_PID)
  BY <1>1, ViewWaits
<1>7. QED
  BY <1>1, <1>2, <1>4, <1>5, <1>6 DEF Sup!syncro, NetView, ExitView

LEMMA ViewWork ==
    ASSUME Assumptions, IInv, SyncroFirst, main = "wait", do_work
    PROVE  Sup!do_work \/ UNCHANGED Sup!supVars
<1>1. /\ ~exit_request /\ Handles("PERIODIC_WORK")
      /\ sigrt_deliver' = Tail(sigrt_deliver) /\ main' = main
      /\ UNCHANGED <<socket, exit_request, syncro_done>>
  BY DEF do_work, Handles, netioVars
<1>2. syncro_done
  <2>1. syncro_done' = (syncro_done \/ "PERIODIC_WORK" = "SYNCRO")
    BY <1>1 DEF SyncroFirst
  <2>2. QED
    BY <1>1, <2>1, QueuedFirst
<1>3. CASE UNCHANGED <<nodes, elected_proc_count, received_resps_count, test_number>>
  BY <1>1, <1>3 DEF Sup!supVars
<1>4. CASE Sup!critical_region_is_idlle /\ test_number < MaxTests /\ StartTest
  <2>1. PICK pid_arr \in Sup!Elections :
            /\ elected_proc_count' = Len(pid_arr)
            /\ nodes' = [p \in Proc |-> IF p \in ToSet(pid_arr) THEN "PS_PENDING" ELSE nodes[p]]
            /\ SendTo(ToSet(pid_arr), "WANT")
    BY <1>4 DEF StartTest
  <2>2. ToSet(pid_arr) \subseteq Proc
    <3>1. PICK count \in Sup!concurrent_counts : pid_arr \in Sup!Injection(1 .. count, Sup!Proc)
      BY <2>1 DEF Sup!Elections
    <3>2. pid_arr \in [1 .. count -> Proc]
      BY <3>1, NodesAre, SameOperators
    <3>3. QED
      BY <3>2 DEF ToSet
  <2>3. NetView' = Sup!SendToEach(NetView, Sup!SUPERVISOR_PID, pid_arr, [type |-> "WANT"])
    BY <1>1, <2>1, <2>2, ViewSends
  <2>4. ExitView' = ExitView
    BY <1>1 DEF ExitView
  <2>5. Sup!Waiting(Sup!SUPERVISOR_PID)
    BY <1>1, ViewWaits
  <2>6. received_resps_count' = 0 /\ test_number' = test_number + 1
    BY <1>4 DEF StartTest
  <2>7. nodes' = [p \in Sup!Proc |-> IF p \in ToSet(pid_arr) THEN "PS_PENDING" ELSE nodes[p]]
    BY <2>1, NodesAre
  <2>8. QED
    BY <1>1, <1>2, <1>4, <2>1, <2>3, <2>4, <2>5, <2>6, <2>7, SameOperators DEF Sup!do_work, NetView, ExitView
<1>5. QED
  BY <1>3, <1>4 DEF do_work

LEMMA ViewPack ==
    ASSUME Assumptions, IInv, PackIn
    PROVE  Sup!SupReceive
<1> DEFINE pkt  == Head(socket)
           slot == <<<<0, 0>>, 1>>
<1>1. /\ ~exit_request /\ socket # <<>> /\ socket' = Tail(socket) /\ sent' = sent
      /\ process_messages(pkt)
      /\ UNCHANGED <<elected_proc_count, test_number, syncro_done>>
  BY DEF PackIn, net_demux, Handles, peersVars, process_messages
<1>2. socket \in Seq(PeerReport)
  BY DEF IInv
<1>3. /\ pkt \in PeerReport /\ pkt = socket[1] /\ 1 \in DOMAIN socket
      /\ Len(socket) \in Nat \ {0}
  BY <1>1, <1>2, HeadTailProperties, LenProperties, EmptySeq
<1>4. NetView[<<0, 0>>] = socket /\ NetView'[<<0, 0>>] = Tail(socket)
  BY <1>1, NodesAre DEF NetView
<1>5. slot \in Sup!Receivable(Sup!SUPERVISOR_PID)
  <2>1. <<0, 0>> \in Sup!RecvLanes(Sup!SUPERVISOR_PID)
    BY NodesAre DEF Sup!RecvLanes
  <2>2. slot \in {<<0, 0>>} \X DOMAIN NetView[<<0, 0>>]
    BY <1>3, <1>4
  <2>3. slot \in UNION {{l} \X DOMAIN NetView[l] : l \in Sup!RecvLanes(Sup!SUPERVISOR_PID)}
    BY <2>1, <2>2
  <2>4. slot[2] = 1
    OBVIOUS
  <2> HIDE DEF slot
  <2>5. QED
    BY <2>3, <2>4 DEF Sup!Receivable, NetView
<1>6. Sup!PacketAt(slot) = pkt
  BY <1>3, <1>4 DEF Sup!PacketAt, NetView
<1>7. NetView' = Sup!dme_recv_msg(slot)
  <2>1. Sup!RemoveAt(socket, 1) = Tail(socket)
    <3>1. Sup!RemoveAt(socket, 1) = SubSeq(socket, 1, 0) \o SubSeq(socket, 2, Len(socket))
      <4>1. Sup!RemoveAt(socket, 1) = SubSeq(socket, 1, 1 - 1) \o SubSeq(socket, 1 + 1, Len(socket))
        BY SameOperators, Zenon
      <4>2. 1 - 1 = 0 /\ 1 + 1 = 2
        OBVIOUS
      <4>3. QED
        BY <4>1, <4>2, Zenon
    <3>2. SubSeq(socket, 1, 0) = <<>>
      OBVIOUS
    <3>3. SubSeq(socket, 2, Len(socket)) = Tail(socket)
      BY <1>1, <1>2, HeadTailProperties
    <3>4. QED
      BY <1>1, <1>2, <3>1, <3>2, <3>3, HeadTailProperties, ConcatProperties, ConcatEmptySeq
  <2>2. Sup!dme_recv_msg(slot) = [NetView EXCEPT ![<<0, 0>>] = Tail(socket)]
    BY <1>4, <2>1 DEF Sup!dme_recv_msg, NetView
  <2>3. QED
    BY <1>1, <2>2, NodesAre DEF NetView
<1>8. Sup!Waiting(Sup!SUPERVISOR_PID)
  BY <1>1, ViewWaits
<1>9. Sup!process_messages(slot)
  <2>1. CASE pkt.msg.type = "ENTERED"
    <3>1. /\ nodes' = [nodes EXCEPT ![pkt.src] = "PS_EXECUTING"]
          /\ received_resps_count' = received_resps_count + 1
          /\ exit_request' = ~Sup!critical_region_is_sane(nodes', FALSE)
      BY <1>1, <2>1 DEF process_messages
    <3>2. ExitView' = [ExitView EXCEPT ![Sup!SUPERVISOR_PID] =
                           ~Sup!critical_region_is_sane(nodes', FALSE)]
      BY <1>1, <3>1, NodesAre DEF ExitView
    <3>3. QED
      BY <1>6, <2>1, <3>1, <3>2 DEF Sup!process_messages, ExitView
  <2>2. CASE pkt.msg.type = "EXITED"
    <3>1. /\ nodes' = [nodes EXCEPT ![pkt.src] = "PS_IDLE"]
          /\ UNCHANGED <<received_resps_count, exit_request>>
      BY <1>1, <2>2 DEF process_messages
    <3>2. ExitView' = ExitView
      BY <3>1 DEF ExitView
    <3>3. QED
      BY <1>6, <2>2, <3>1, <3>2 DEF Sup!process_messages, ExitView
  <2>3. QED
    BY <1>3, <2>1, <2>2 DEF PeerReport
<1> HIDE DEF slot
<1>10. QED
  BY <1>1, <1>5, <1>7, <1>8, <1>9 DEF Sup!SupReceive, NetView
LEMMA ViewSteps ==
    ASSUME Assumptions, IInv, SyncroFirst, [Next]_vars
    PROVE  [Sup!SupNext]_(Sup!supVars)
<1>1. CASE main = "wait" /\ syncro
  BY <1>1, ViewSyncro DEF Sup!SupNext
<1>2. CASE main = "wait" /\ do_work
  BY <1>2, ViewWork DEF Sup!SupNext
<1>3. CASE PackIn
  BY <1>3, ViewPack DEF Sup!SupNext
<1>4. CASE \/ UNCHANGED vars \/ RegisterHandlers \/ DeliverSyncro \/ DeliverPeriodicWork
           \/ Expire \/ Signal \/ Stop \/ Peers
  <2>1. UNCHANGED viewVars
    BY <1>4 DEF vars, RegisterHandlers, DeliverSyncro, DeliverPeriodicWork, Expire, Signal, Stop,
                Peers, Hear, Enter, Leave, Report
  <2>2. QED
    BY <2>1 DEF viewVars, Sup!supVars
<1>5. QED
  BY <1>1, <1>2, <1>3, <1>4 DEF Next, WaitEvents

(***************************************************************************)
(* Every step of the supervisor on its signals, its timer and its queue of *)
(* events is a step of module Supervisor, which the peers are composed     *)
(* with, or leaves its view of the experiment alone.                       *)
(***************************************************************************)
THEOREM SupSteps == Spec => Sup!SupInit /\ [][Sup!SupNext]_(Sup!supVars)
<1>1. Assumptions
  BY EventsAssumption, SupervisorProgramAssumption DEF Assumptions
<1>2. Init => Sup!SupInit /\ SyncroFirst
  BY SyncroFirstInit DEF Init
<1>3. IInv /\ SyncroFirst /\ [Next]_vars => SyncroFirst' /\ [Sup!SupNext]_(Sup!supVars)
  BY <1>1, SyncroFirstOK, ViewSteps
<1>4. QED
  BY <1>2, <1>3, Invariance, PTL DEF Spec
-----------------------------------------------------------------------------
ToPeer == [src : {SUPERVISOR_PID}, dst : Proc, msg : [type : {"SYNCRO", "WANT"}]]

PeersTypeOK ==
    /\ nodes \in [Proc -> Sup!State]
    /\ peer \in [Proc -> Sup!State]
    /\ sent \in [Proc -> Seq(ToPeer)]

(***************************************************************************)
(* Who is inside as the view has it, and after the first k reports of q.   *)
(***************************************************************************)
Executing(view) == {p \in Proc : view[p] = "PS_EXECUTING"}

Inside(view, q, k) ==
    IF k = 0 THEN Executing(view)
    ELSE IF q[k].msg.type = "ENTERED" THEN {q[k].src} ELSE {}

(* The reports take turns, and the last of them leaves what is the case. *)
Alternate ==
    /\ \A k \in 1 .. Len(socket) :
          Inside(nodes, socket, k - 1) = IF socket[k].msg.type = "ENTERED" THEN {} ELSE {socket[k].src}
    /\ Inside(nodes, socket, Len(socket)) = Executing(peer)
    /\ \A p, q \in Proc : peer[p] = "PS_EXECUTING" /\ peer[q] = "PS_EXECUTING" => p = q

NoReport(p) == \A k \in 1 .. Len(socket) : socket[k].src # p

NoWant(p) == \A k \in 1 .. Len(sent[p]) : sent[p][k].msg.type # "WANT"

OneWant(p) ==
    \A j, k \in 1 .. Len(sent[p]) :
        sent[p][j].msg.type = "WANT" /\ sent[p][k].msg.type = "WANT" => j = k

(* Where the WANT of p, its turn and its reports are, as nodes[p] says. *)
Follows(p) ==
    /\ ~NoWant(p) => nodes[p] = "PS_PENDING" /\ peer[p] = "PS_IDLE" /\ NoReport(p)
    /\ OneWant(p)
    /\ peer[p] = "PS_PENDING" => nodes[p] = "PS_PENDING" /\ NoReport(p)
    /\ nodes[p] = "PS_IDLE" => peer[p] = "PS_IDLE" /\ NoReport(p)
    /\ \A k \in 1 .. Len(socket) :
          socket[k].src = p /\ socket[k].msg.type = "EXITED" =>
              /\ peer[p] = "PS_IDLE"
              /\ \A j \in 1 .. Len(socket) : j > k => socket[j].src # p

PeersInv == PeersTypeOK /\ Alternate /\ \A p \in Proc : Follows(p)

LEMMA PeersInvInit == ASSUME Init PROVE PeersInv
<1>1. /\ nodes = [p \in Proc |-> "PS_IDLE"] /\ peer = [p \in Proc |-> "PS_IDLE"]
      /\ sent = [p \in Proc |-> <<>>] /\ socket = <<>> /\ Len(socket) = 0
  BY DEF Init, EventsInit, Sup!SupInit, Sup!Proc, Proc
<1>2. PeersTypeOK
  BY <1>1 DEF PeersTypeOK, Sup!State
<1>3. Alternate
  BY <1>1 DEF Alternate, Inside, Executing
<1>4. ASSUME NEW p \in Proc PROVE Follows(p)
  <2>1. Len(sent[p]) = 0
    BY <1>1
  <2>2. NoWant(p) /\ OneWant(p) /\ NoReport(p) /\ peer[p] = "PS_IDLE"
    BY <1>1, <2>1 DEF NoWant, OneWant, NoReport
  <2>3. QED
    BY <1>1, <2>2 DEF Follows
<1>5. QED
  BY <1>2, <1>3, <1>4 DEF PeersInv

LEMMA PeersUntouched ==
    ASSUME PeersInv, UNCHANGED <<nodes, peer, sent, socket>>
    PROVE  PeersInv'
<1>1. PeersTypeOK' /\ Alternate'
  BY DEF PeersInv, PeersTypeOK, Alternate
<1>2. \A p \in Proc : /\ NoReport(p)' <=> NoReport(p)
                      /\ NoWant(p)' <=> NoWant(p)
                      /\ OneWant(p)' <=> OneWant(p)
  BY DEF NoReport, NoWant, OneWant
<1>3. ASSUME NEW p \in Proc PROVE Follows(p)'
  BY <1>2 DEF PeersInv, Follows
<1>4. QED
  BY <1>1, <1>3 DEF PeersInv

(* Messages of one kind to some peers. *)
LEMMA SentTo ==
    ASSUME PeersTypeOK, NEW procs \in SUBSET Proc, NEW type \in {"SYNCRO", "WANT"},
           SendTo(procs, type)
    PROVE  /\ sent' \in [Proc -> Seq(ToPeer)]
           /\ \A p \in Proc \ procs : sent'[p] = sent[p]
           /\ \A p \in procs :
                 /\ Len(sent[p]) \in Nat /\ Len(sent'[p]) = Len(sent[p]) + 1
                 /\ \A k \in 1 .. Len(sent[p]) : sent'[p][k] = sent[p][k]
                 /\ sent'[p][Len(sent[p]) + 1].msg.type = type
<1>1. sent' = [p \in Proc |-> IF p \in procs THEN Append(sent[p], Wanted(type, p)) ELSE sent[p]]
  BY DEF SendTo
<1>2. ASSUME NEW p \in Proc
      PROVE  /\ sent[p] \in Seq(ToPeer) /\ Wanted(type, p) \in ToPeer
             /\ Wanted(type, p).msg.type = type
  BY DEF PeersTypeOK, Wanted, ToPeer
<1>3. ASSUME NEW p \in procs
      PROVE  /\ Len(sent[p]) \in Nat /\ Len(sent'[p]) = Len(sent[p]) + 1
             /\ \A k \in 1 .. Len(sent[p]) : sent'[p][k] = sent[p][k]
             /\ sent'[p][Len(sent[p]) + 1].msg.type = type
             /\ sent'[p] \in Seq(ToPeer)
  <2>1. sent'[p] = Append(sent[p], Wanted(type, p))
    BY <1>1, <1>3
  <2>2. QED
    BY <1>2, <2>1, AppendProperties, LenProperties
<1>4. \A p \in Proc \ procs : sent'[p] = sent[p]
  BY <1>1
<1>5. sent' \in [Proc -> Seq(ToPeer)]
  <2>1. \A p \in Proc : sent'[p] \in Seq(ToPeer)
    BY <1>2, <1>3, <1>4
  <2>2. sent' = [p \in Proc |-> sent'[p]]
    BY <1>1
  <2>3. QED
    BY <2>1, <2>2
<1>6. QED
  BY <1>3, <1>4, <1>5

LEMMA PeersSyncro ==
    ASSUME PeersInv, syncro
    PROVE  PeersInv'
<1>1. SendTo(Proc, "SYNCRO") /\ UNCHANGED <<nodes, peer, socket>>
  BY DEF syncro, netioVars
<1>2. /\ sent' \in [Proc -> Seq(ToPeer)]
      /\ \A p \in Proc :
            /\ Len(sent[p]) \in Nat /\ Len(sent'[p]) = Len(sent[p]) + 1
            /\ \A k \in 1 .. Len(sent[p]) : sent'[p][k] = sent[p][k]
            /\ sent'[p][Len(sent[p]) + 1].msg.type = "SYNCRO"
  BY <1>1, SentTo DEF PeersInv
<1>3. PeersTypeOK' /\ Alternate'
  BY <1>1, <1>2 DEF PeersInv, PeersTypeOK, Alternate
<1>4. ASSUME NEW p \in Proc PROVE Follows(p)'
  <2>1. \A k \in 1 .. Len(sent'[p]) :
            sent'[p][k].msg.type = "WANT" => k \in 1 .. Len(sent[p]) /\ sent[p][k].msg.type = "WANT"
    BY <1>2
  <2>2. NoWant(p) => NoWant(p)'
    BY <2>1 DEF NoWant
  <2>3. OneWant(p) => OneWant(p)'
    BY <2>1 DEF OneWant
  <2>4. NoReport(p)' <=> NoReport(p)
    BY <1>1 DEF NoReport
  <2>5. Follows(p)
    BY DEF PeersInv
  <2>6. QED
    BY <1>1, <2>2, <2>3, <2>4, <2>5 DEF Follows
<1>5. QED
  BY <1>3, <1>4 DEF PeersInv

(***************************************************************************)
(* A test starts when the supervisor knows everybody idle: then nobody has *)
(* anything to do or to report from the test before.                       *)
(***************************************************************************)
LEMMA PeersWork ==
    ASSUME Assumptions, IInv, PeersInv, do_work
    PROVE  PeersInv'
<1>1. UNCHANGED <<socket, peer>>
  BY DEF do_work, netioVars
<1>2. CASE UNCHANGED <<nodes, sent>>
  BY <1>1, <1>2, PeersUntouched
<1>3. CASE Sup!critical_region_is_idlle /\ StartTest
  <2>1. PICK pid_arr \in Sup!Elections :
            /\ nodes' = [p \in Proc |-> IF p \in ToSet(pid_arr) THEN "PS_PENDING" ELSE nodes[p]]
            /\ SendTo(ToSet(pid_arr), "WANT")
    BY <1>3 DEF StartTest
  <2> DEFINE procs == ToSet(pid_arr)
  <2>2. procs \in SUBSET Proc
    <3>1. PICK count \in Sup!concurrent_counts : pid_arr \in Sup!Injection(1 .. count, Sup!Proc)
      BY <2>1 DEF Sup!Elections
    <3>2. pid_arr \in [1 .. count -> Proc]
      BY <3>1, NodesAre, SameOperators
    <3>3. QED
      BY <3>2 DEF ToSet
  <2>3. \A p \in Proc : nodes[p] = "PS_IDLE"
    BY <1>3, NodesAre DEF Sup!critical_region_is_idlle
  <2>4. \A p \in Proc : peer[p] = "PS_IDLE" /\ NoReport(p) /\ NoWant(p)
    BY <2>3 DEF PeersInv, Follows
  <2> HIDE DEF procs
  <2>5. /\ sent' \in [Proc -> Seq(ToPeer)]
        /\ \A p \in Proc \ procs : sent'[p] = sent[p]
        /\ \A p \in procs :
              /\ Len(sent[p]) \in Nat /\ Len(sent'[p]) = Len(sent[p]) + 1
              /\ \A k \in 1 .. Len(sent[p]) : sent'[p][k] = sent[p][k]
    BY <2>1, <2>2, SentTo DEF PeersInv, procs
  <2>6. /\ nodes' \in [Proc -> Sup!State]
        /\ \A p \in Proc : nodes'[p] = IF p \in procs THEN "PS_PENDING" ELSE "PS_IDLE"
    BY <2>1, <2>3 DEF procs, Sup!State
  <2>7. PeersTypeOK'
    BY <1>1, <2>5, <2>6 DEF PeersInv, PeersTypeOK
  <2>8. Alternate'
    <3>1. Executing(nodes) = {} /\ Executing(nodes') = {}
      BY <2>3, <2>6 DEF Executing
    <3>2. \A k : Inside(nodes', socket, k) = Inside(nodes, socket, k)
      BY <3>1 DEF Inside
    <3>3. QED
      BY <1>1, <3>2 DEF Alternate, PeersInv
  <2>9. ASSUME NEW p \in Proc PROVE Follows(p)'
    <3>1. NoReport(p)' /\ peer'[p] = "PS_IDLE"
      BY <1>1, <2>4 DEF NoReport
    <3>2. OneWant(p)' /\ (p \notin procs => NoWant(p)')
      BY <2>4, <2>5 DEF OneWant, NoWant
    <3>3. nodes'[p] = IF p \in procs THEN "PS_PENDING" ELSE "PS_IDLE"
      BY <2>6
    <3>4. QED
      BY <3>1, <3>2, <3>3 DEF Follows, NoReport
  <2>10. QED
    BY <2>7, <2>8, <2>9 DEF PeersInv
<1>4. QED
  BY <1>2, <1>3 DEF do_work
-----------------------------------------------------------------------------
LEMMA PeersHear ==
    ASSUME PeersInv, NEW p \in Proc, Hear(p)
    PROVE  PeersInv'
<1>1. /\ sent[p] # <<>> /\ sent' = [sent EXCEPT ![p] = Tail(@)]
      /\ peer' = IF Head(sent[p]).msg.type = "WANT" THEN [peer EXCEPT ![p] = "PS_PENDING"] ELSE peer
      /\ UNCHANGED <<nodes, socket>>
  BY DEF Hear, viewVars, engineVars, netioVars
<1>2. /\ sent[p] \in Seq(ToPeer) /\ sent \in [Proc -> Seq(ToPeer)]
      /\ peer \in [Proc -> Sup!State] /\ Follows(p)
  BY DEF PeersInv, PeersTypeOK
<1>3. /\ Len(sent[p]) \in Nat \ {0} /\ Head(sent[p]) = sent[p][1]
      /\ Tail(sent[p]) \in Seq(ToPeer)
      /\ Len(Tail(sent[p])) = Len(sent[p]) - 1
      /\ \A k \in 1 .. Len(Tail(sent[p])) : Tail(sent[p])[k] = sent[p][k + 1]
  BY <1>1, <1>2, HeadTailProperties, LenProperties, EmptySeq
<1>4. sent'[p] = Tail(sent[p]) /\ sent' \in [Proc -> Seq(ToPeer)]
      /\ \A q \in Proc \ {p} : sent'[q] = sent[q] /\ peer'[q] = peer[q]
  BY <1>1, <1>2, <1>3
<1>5. \A k \in 1 .. Len(sent'[p]) : k + 1 \in 1 .. Len(sent[p]) /\ sent'[p][k] = sent[p][k + 1]
  BY <1>3, <1>4
<1>6. OneWant(p)' /\ (NoWant(p) => NoWant(p)')
  <2>1. OneWant(p)
    BY <1>2 DEF Follows
  <2>2. ASSUME NEW j \in 1 .. Len(sent'[p]), NEW k \in 1 .. Len(sent'[p]),
               sent'[p][j].msg.type = "WANT", sent'[p][k].msg.type = "WANT"
        PROVE  j = k
    <3>1. j + 1 = k + 1
      BY <1>5, <2>1, <2>2 DEF OneWant
    <3>2. QED
      BY <3>1
  <2>3. QED
    BY <1>5, <2>2 DEF OneWant, NoWant
<1>7. 1 \in 1 .. Len(sent[p])
  BY <1>3
<1>8. peer'[p] # peer[p] =>
          /\ sent[p][1].msg.type = "WANT" /\ peer'[p] = "PS_PENDING"
          /\ nodes[p] = "PS_PENDING" /\ peer[p] = "PS_IDLE" /\ NoReport(p) /\ NoWant(p)'
  <2>1. peer'[p] # peer[p] => sent[p][1].msg.type = "WANT" /\ peer'[p] = "PS_PENDING"
    BY <1>1, <1>2, <1>3
  <2>2. sent[p][1].msg.type = "WANT" => ~NoWant(p)
    BY <1>7 DEF NoWant
  <2>3. sent[p][1].msg.type = "WANT" => NoWant(p)'
    <3>1. ASSUME sent[p][1].msg.type = "WANT", NEW k \in 1 .. Len(sent'[p]) PROVE sent'[p][k].msg.type # "WANT"
      <4>1. k + 1 \in 1 .. Len(sent[p]) /\ k + 1 # 1
        BY <1>3, <1>5, <3>1
      <4>2. OneWant(p)
        BY <1>2 DEF Follows
      <4>3. QED
        BY <1>5, <1>7, <3>1, <4>1, <4>2 DEF OneWant
    <3>2. QED
      BY <3>1 DEF NoWant
  <2>4. QED
    BY <1>2, <2>1, <2>2, <2>3 DEF Follows
<1>9. PeersTypeOK'
  BY <1>1, <1>2, <1>4 DEF PeersInv, PeersTypeOK, Sup!State
<1>10. Alternate'
  <2>1. \A q \in Proc : peer'[q] = "PS_EXECUTING" <=> peer[q] = "PS_EXECUTING"
    BY <1>4, <1>8
  <2>2. QED
    BY <1>1, <2>1 DEF PeersInv, Alternate, Executing
<1>11. NoReport(p)' <=> NoReport(p)
  BY <1>1 DEF NoReport
<1>12. Follows(p)'
  <2>1. CASE peer'[p] # peer[p]
    <3>1. \A k \in 1 .. Len(socket') : socket'[k].src # p
      BY <1>1, <1>8, <2>1 DEF NoReport
    <3>2. QED
      BY <1>1, <1>6, <1>8, <1>11, <2>1, <3>1 DEF Follows
  <2>2. CASE peer'[p] = peer[p]
    BY <1>1, <1>2, <1>6, <1>11, <2>2 DEF Follows
  <2>3. QED
    BY <2>1, <2>2
<1>13. ASSUME NEW q \in Proc \ {p} PROVE Follows(q)'
  BY <1>1, <1>4, <1>13 DEF PeersInv, Follows, NoReport, NoWant, OneWant
<1>14. QED
  BY <1>9, <1>10, <1>12, <1>13 DEF PeersInv
-----------------------------------------------------------------------------
(* A report comes behind the others. *)
LEMMA Reported ==
    ASSUME Assumptions, IInv, NEW p \in Proc, NEW type \in {"ENTERED", "EXITED"}, Report(p, type)
    PROVE  /\ UNCHANGED <<nodes, sent>>
           /\ Len(socket) \in Nat /\ Len(socket') = Len(socket) + 1
           /\ \A k \in 1 .. Len(socket) : socket'[k] = socket[k]
           /\ socket'[Len(socket) + 1].src = p /\ socket'[Len(socket) + 1].msg.type = type
<1> DEFINE pkt == [src |-> p, dst |-> SUPERVISOR_PID, msg |-> [type |-> type]]
<1>1. UNCHANGED <<nodes, sent>> /\ socket' = Append(socket, pkt)
  BY DEF Report, viewVars, PacketArrives
<1>2. socket \in Seq(PeerReport) /\ pkt \in PeerReport /\ pkt.src = p /\ pkt.msg.type = type
  BY DEF IInv, PeerReport
<1> HIDE DEF pkt
<1>3. QED
  BY <1>1, <1>2, AppendProperties, LenProperties

LEMMA EarlierReports ==
    ASSUME NEW view, NEW q, NEW r, NEW len \in Nat, \A k \in 1 .. len : r[k] = q[k]
    PROVE  \A k \in 0 .. len : Inside(view, r, k) = Inside(view, q, k)
<1>1. ASSUME NEW k \in 0 .. len PROVE Inside(view, r, k) = Inside(view, q, k)
  <2>1. CASE k = 0
    BY <2>1 DEF Inside
  <2>2. CASE k # 0
    <3>1. k \in 1 .. len
      BY <2>2
    <3>2. r[k] = q[k]
      BY <3>1
    <3>3. QED
      BY <3>2 DEF Inside
  <2>3. QED
    BY <2>1, <2>2
<1>2. QED
  BY <1>1

(* The other processes do not notice. *)
LEMMA ReportedByOther ==
    ASSUME Assumptions, IInv, PeersInv, NEW p \in Proc, NEW type \in {"ENTERED", "EXITED"},
           Report(p, type), NEW q \in Proc \ {p}, peer'[q] = peer[q]
    PROVE  Follows(q)'
<1> DEFINE len == Len(socket)
<1>1. /\ UNCHANGED <<nodes, sent>>
      /\ len \in Nat /\ Len(socket') = len + 1
      /\ \A k \in 1 .. len : socket'[k] = socket[k]
      /\ socket'[len + 1].src = p
  BY Reported
<1>2. Follows(q) /\ p # q
  BY DEF PeersInv
<1> HIDE DEF len
<1>3. \A k \in 1 .. Len(socket') : k = len + 1 \/ k \in 1 .. len
  BY <1>1
<1>4. NoReport(q) => NoReport(q)'
  <2>1. NoReport(q) => \A k \in 1 .. len : socket[k].src # q
    BY DEF NoReport, len
  <2>2. NoReport(q) => \A k \in 1 .. Len(socket') : socket'[k].src # q
    BY <1>1, <1>2, <1>3, <2>1
  <2>3. QED
    BY <2>2 DEF NoReport
<1>5. (NoWant(q)' <=> NoWant(q)) /\ (OneWant(q)' <=> OneWant(q))
  BY <1>1 DEF NoWant, OneWant
<1>6. ASSUME NEW k \in 1 .. Len(socket'), socket'[k].src = q, socket'[k].msg.type = "EXITED"
      PROVE  /\ peer'[q] = "PS_IDLE"
             /\ \A j \in 1 .. Len(socket') : j > k => socket'[j].src # q
  <2>1. k \in 1 .. len /\ socket'[k] = socket[k]
    BY <1>1, <1>2, <1>3, <1>6
  <2>2. peer[q] = "PS_IDLE" /\ \A j \in 1 .. len : j > k => socket[j].src # q
    BY <1>2, <1>6, <2>1 DEF Follows, len
  <2>3. QED
    BY <1>1, <1>2, <1>3, <2>2
<1>7. QED
  BY <1>1, <1>2, <1>4, <1>5, <1>6 DEF Follows

(* Entering takes the turn, leaving gives it back. *)
LEMMA PeersEnter ==
    ASSUME Assumptions, IInv, PeersInv, NEW p \in Proc, Enter(p)
    PROVE  PeersInv'
<1> DEFINE len == Len(socket)
<1>1. /\ peer[p] = "PS_PENDING" /\ \A q \in Proc : peer[q] # "PS_EXECUTING"
      /\ peer' = [peer EXCEPT ![p] = "PS_EXECUTING"]
      /\ Report(p, "ENTERED")
  BY DEF Enter
<1>2. /\ UNCHANGED <<nodes, sent>>
      /\ len \in Nat /\ Len(socket') = len + 1
      /\ \A k \in 1 .. len : socket'[k] = socket[k]
      /\ socket'[len + 1].src = p /\ socket'[len + 1].msg.type = "ENTERED"
  BY <1>1, Reported
<1>3. peer \in [Proc -> Sup!State] /\ Follows(p) /\ PeersTypeOK /\ Alternate
  BY DEF PeersInv, PeersTypeOK
<1>4. PeersTypeOK'
  BY <1>1, <1>2, <1>3 DEF PeersTypeOK, Sup!State
<1>5. \A q \in Proc : peer'[q] = "PS_EXECUTING" <=> q = p
  BY <1>1, <1>3
<1>6. Executing(peer) = {} /\ Executing(peer') = {p}
  BY <1>1, <1>5 DEF Executing
<1>7. Inside(nodes, socket, len) = {}
  BY <1>3, <1>6 DEF Alternate
<1>8. Inside(nodes, socket', len + 1) = {p}
  BY <1>2 DEF Inside
<1> HIDE DEF len
<1>9. \A k \in 0 .. len : Inside(nodes, socket', k) = Inside(nodes, socket, k)
  BY <1>2, EarlierReports
<1>10. Alternate'
  <2>1. ASSUME NEW k \in 1 .. len + 1
        PROVE  Inside(nodes, socket', k - 1)
                   = IF socket'[k].msg.type = "ENTERED" THEN {} ELSE {socket'[k].src}
    <3>1. CASE k = len + 1
      <4>1. k - 1 = len /\ len \in 0 .. len
        BY <1>2, <3>1
      <4>2. QED
        BY <1>2, <1>7, <1>9, <3>1, <4>1
    <3>2. CASE k \in 1 .. len
      <4>1. k - 1 \in 0 .. len
        BY <1>2, <3>2
      <4>2. Inside(nodes, socket, k - 1)
                   = IF socket[k].msg.type = "ENTERED" THEN {} ELSE {socket[k].src}
        BY <1>3, <3>2 DEF Alternate, len
      <4>3. QED
        BY <1>2, <1>9, <3>2, <4>1, <4>2
    <3>3. QED
      BY <1>2, <3>1, <3>2
  <2>2. QED
    BY <1>2, <1>5, <1>6, <1>8, <2>1 DEF Alternate
<1>11. NoReport(p) /\ NoWant(p) /\ nodes[p] = "PS_PENDING"
  BY <1>1, <1>3 DEF Follows
<1>12. Follows(p)'
  <2>1. NoWant(p)' /\ OneWant(p)'
    BY <1>2, <1>11 DEF NoWant, OneWant
  <2>2. peer'[p] = "PS_EXECUTING" /\ nodes'[p] = "PS_PENDING"
    BY <1>2, <1>5, <1>11
  <2>3. \A k \in 1 .. Len(socket') : socket'[k].src = p => socket'[k].msg.type # "EXITED"
    <3>1. \A k \in 1 .. len : socket[k].src # p
      BY <1>11 DEF NoReport, len
    <3>2. \A k \in 1 .. Len(socket') : k = len + 1 \/ k \in 1 .. len
      BY <1>2
    <3>3. QED
      BY <1>2, <3>1, <3>2
  <2>4. QED
    BY <2>1, <2>2, <2>3 DEF Follows
<1>13. ASSUME NEW q \in Proc \ {p} PROVE Follows(q)'
  <2>1. peer'[q] = peer[q]
    BY <1>1, <1>3
  <2>2. QED
    BY <1>1, <2>1, ReportedByOther
<1>14. QED
  BY <1>4, <1>10, <1>12, <1>13 DEF PeersInv

LEMMA PeersLeave ==
    ASSUME Assumptions, IInv, PeersInv, NEW p \in Proc, Leave(p)
    PROVE  PeersInv'
<1> DEFINE len == Len(socket)
<1>1. /\ peer[p] = "PS_EXECUTING"
      /\ peer' = [peer EXCEPT ![p] = "PS_IDLE"]
      /\ Report(p, "EXITED")
  BY DEF Leave
<1>2. /\ UNCHANGED <<nodes, sent>>
      /\ len \in Nat /\ Len(socket') = len + 1
      /\ \A k \in 1 .. len : socket'[k] = socket[k]
      /\ socket'[len + 1].src = p /\ socket'[len + 1].msg.type = "EXITED"
  BY <1>1, Reported
<1>3. peer \in [Proc -> Sup!State] /\ Follows(p) /\ PeersTypeOK /\ Alternate
  BY DEF PeersInv, PeersTypeOK
<1>4. PeersTypeOK'
  BY <1>1, <1>2, <1>3 DEF PeersTypeOK, Sup!State
<1>5. \A q \in Proc : (peer[q] = "PS_EXECUTING" <=> q = p) /\ peer'[q] # "PS_EXECUTING"
  BY <1>1, <1>3 DEF Alternate
<1>6. Executing(peer) = {p} /\ Executing(peer') = {}
  BY <1>5 DEF Executing
<1>7. Inside(nodes, socket, len) = {p}
  BY <1>3, <1>6 DEF Alternate
<1>8. Inside(nodes, socket', len + 1) = {}
  BY <1>2 DEF Inside
<1> HIDE DEF len
<1>9. \A k \in 0 .. len : Inside(nodes, socket', k) = Inside(nodes, socket, k)
  BY <1>2, EarlierReports
<1>10. Alternate'
  <2>1. ASSUME NEW k \in 1 .. len + 1
        PROVE  Inside(nodes, socket', k - 1)
                   = IF socket'[k].msg.type = "ENTERED" THEN {} ELSE {socket'[k].src}
    <3>1. CASE k = len + 1
      <4>1. k - 1 = len /\ len \in 0 .. len
        BY <1>2, <3>1
      <4>2. QED
        BY <1>2, <1>7, <1>9, <3>1, <4>1
    <3>2. CASE k \in 1 .. len
      <4>1. k - 1 \in 0 .. len
        BY <1>2, <3>2
      <4>2. Inside(nodes, socket, k - 1)
                   = IF socket[k].msg.type = "ENTERED" THEN {} ELSE {socket[k].src}
        BY <1>3, <3>2 DEF Alternate, len
      <4>3. QED
        BY <1>2, <1>9, <3>2, <4>1, <4>2
    <3>3. QED
      BY <1>2, <3>1, <3>2
  <2>2. QED
    BY <1>2, <1>5, <1>6, <1>8, <2>1 DEF Alternate
<1>11. NoWant(p) /\ nodes[p] # "PS_IDLE"
  BY <1>1, <1>3 DEF Follows
<1>12. Follows(p)'
  <2>1. NoWant(p)' /\ OneWant(p)'
    BY <1>2, <1>11 DEF NoWant, OneWant
  <2>2. peer'[p] = "PS_IDLE" /\ nodes'[p] # "PS_IDLE"
    BY <1>1, <1>2, <1>3, <1>11
  <2>3. ASSUME NEW k \in 1 .. Len(socket'), socket'[k].src = p, socket'[k].msg.type = "EXITED"
        PROVE  \A j \in 1 .. Len(socket') : j > k => socket'[j].src # p
    <3>1. k \notin 1 .. len
      <4>1. k \in 1 .. len => socket[k].src = p /\ socket[k].msg.type = "EXITED"
        BY <1>2, <2>3
      <4>2. QED
        BY <1>1, <1>3, <4>1 DEF Follows, len
    <3>2. QED
      BY <1>2, <2>3, <3>1
  <2>4. QED
    BY <2>1, <2>2, <2>3 DEF Follows
<1>13. ASSUME NEW q \in Proc \ {p} PROVE Follows(q)'
  <2>1. peer'[q] = peer[q]
    BY <1>1, <1>3
  <2>2. QED
    BY <1>1, <2>1, ReportedByOther
<1>14. QED
  BY <1>4, <1>10, <1>12, <1>13 DEF PeersInv
-----------------------------------------------------------------------------
(***************************************************************************)
(* The supervisor reads the oldest report.  Its view then is what Inside   *)
(* has after that report.                                                  *)
(***************************************************************************)
LEMMA PackTaken ==
    ASSUME Assumptions, IInv, PeersInv, PackIn
    PROVE  \E p \in Proc, type \in {"ENTERED", "EXITED"} :
              /\ p = socket[1].src /\ type = socket[1].msg.type
              /\ nodes' = [nodes EXCEPT ![p] = IF type = "ENTERED" THEN "PS_EXECUTING"
                                                                   ELSE "PS_IDLE"]
              /\ Len(socket) \in Nat \ {0} /\ Len(socket') = Len(socket) - 1
              /\ \A k \in 1 .. Len(socket') : socket'[k] = socket[k + 1]
              /\ UNCHANGED <<peer, sent>>
              /\ Executing(nodes) = IF type = "ENTERED" THEN {} ELSE {p}
              /\ Executing(nodes') = Inside(nodes, socket, 1)
<1>1. /\ socket # <<>> /\ socket' = Tail(socket) /\ UNCHANGED <<peer, sent>>
      /\ process_messages(Head(socket))
  BY DEF PackIn, net_demux, peersVars
<1>2. socket \in Seq(PeerReport) /\ nodes \in [Proc -> Sup!State] /\ Alternate
  BY DEF IInv, PeersInv, PeersTypeOK
<1>3. /\ Len(socket) \in Nat \ {0} /\ Len(socket') = Len(socket) - 1
      /\ Head(socket) = socket[1] /\ socket[1] \in PeerReport
      /\ \A k \in 1 .. Len(socket') : socket'[k] = socket[k + 1]
  BY <1>1, <1>2, HeadTailProperties, LenProperties, EmptySeq
<1> DEFINE p == socket[1].src
           type == socket[1].msg.type
<1>4. p \in Proc /\ type \in {"ENTERED", "EXITED"}
  BY <1>3 DEF PeerReport
<1>5. nodes' = [nodes EXCEPT ![p] = IF type = "ENTERED" THEN "PS_EXECUTING" ELSE "PS_IDLE"]
  BY <1>1, <1>3, <1>4 DEF process_messages
<1>6. Inside(nodes, socket, 0) = IF type = "ENTERED" THEN {} ELSE {p}
  <2>1. 1 \in 1 .. Len(socket) /\ 1 - 1 = 0
    BY <1>3
  <2>2. Inside(nodes, socket, 1 - 1) = IF type = "ENTERED" THEN {} ELSE {p}
    BY <1>2, <2>1 DEF Alternate
  <2>3. QED
    BY <2>1, <2>2
<1>7. Executing(nodes) = IF type = "ENTERED" THEN {} ELSE {p}
  BY <1>6 DEF Inside
<1>8. Inside(nodes, socket, 1) = IF type = "ENTERED" THEN {p} ELSE {}
  BY DEF Inside
<1> HIDE DEF p, type
<1>9. \A q \in Proc : nodes'[q] = IF q = p THEN (IF type = "ENTERED" THEN "PS_EXECUTING" ELSE "PS_IDLE")
                                  ELSE nodes[q]
  BY <1>2, <1>4, <1>5
<1>10. Executing(nodes') = IF type = "ENTERED" THEN {p} ELSE {}
  <2>1. \A q \in Proc : nodes[q] = "PS_EXECUTING" <=> (type # "ENTERED" /\ q = p)
    BY <1>4, <1>7 DEF Executing
  <2>2. QED
    BY <1>4, <1>9, <2>1 DEF Executing
<1>11. QED
  BY <1>1, <1>3, <1>4, <1>5, <1>7, <1>8, <1>10 DEF p, type

LEMMA PeersPack ==
    ASSUME Assumptions, IInv, PeersInv, PackIn
    PROVE  PeersInv'
<1>1. PICK p \in Proc, type \in {"ENTERED", "EXITED"} :
              /\ p = socket[1].src /\ type = socket[1].msg.type
              /\ nodes' = [nodes EXCEPT ![p] = IF type = "ENTERED" THEN "PS_EXECUTING"
                                                                   ELSE "PS_IDLE"]
              /\ Len(socket) \in Nat \ {0} /\ Len(socket') = Len(socket) - 1
              /\ \A k \in 1 .. Len(socket') : socket'[k] = socket[k + 1]
              /\ UNCHANGED <<peer, sent>>
              /\ Executing(nodes) = IF type = "ENTERED" THEN {} ELSE {p}
              /\ Executing(nodes') = Inside(nodes, socket, 1)
  BY PackTaken
<1> DEFINE len == Len(socket')
<1>2. len \in Nat /\ Len(socket) = len + 1 /\ 1 \in 1 .. Len(socket)
  BY <1>1
<1>3. PeersTypeOK /\ Alternate /\ \A q \in Proc : Follows(q)
  BY DEF PeersInv
<1>4. PeersTypeOK'
  BY <1>1, <1>3 DEF PeersTypeOK, Sup!State
<1>5. \A k \in 1 .. len : k + 1 \in 1 .. Len(socket) /\ k + 1 # 1 /\ socket'[k] = socket[k + 1]
  BY <1>1, <1>2
<1>6. \A k \in 0 .. len : Inside(nodes', socket', k) = Inside(nodes, socket, k + 1)
  <2>1. Inside(nodes', socket', 0) = Inside(nodes, socket, 1)
    BY <1>1 DEF Inside
  <2>2. ASSUME NEW k \in 1 .. len
        PROVE  Inside(nodes', socket', k) = Inside(nodes, socket, k + 1)
    <3>1. k # 0 /\ k + 1 # 0
      BY <1>2
    <3>2. QED
      BY <1>5, <3>1 DEF Inside
  <2> HIDE DEF len
  <2>3. ASSUME NEW k \in 0 .. len
        PROVE  Inside(nodes', socket', k) = Inside(nodes, socket, k + 1)
    <3>1. CASE k = 0
      <4>1. 0 + 1 = 1
        OBVIOUS
      <4>2. QED
        BY <2>1, <3>1, <4>1
    <3>2. CASE k # 0
      <4>1. k \in 1 .. len
        BY <1>2, <3>2
      <4>2. QED
        BY <2>2, <4>1
    <3>3. QED
      BY <3>1, <3>2
  <2>4. QED
    BY <2>3
<1>7. Alternate'
  <2> HIDE DEF len
  <2>1. ASSUME NEW k \in 1 .. len
        PROVE  Inside(nodes', socket', k - 1)
                   = IF socket'[k].msg.type = "ENTERED" THEN {} ELSE {socket'[k].src}
    <3>1. k - 1 \in 0 .. len /\ (k - 1) + 1 = k /\ (k + 1) - 1 = k
      BY <1>2
    <3>2. Inside(nodes, socket, (k + 1) - 1)
              = IF socket[k + 1].msg.type = "ENTERED" THEN {} ELSE {socket[k + 1].src}
      BY <1>3, <1>5 DEF Alternate
    <3>3. QED
      BY <1>5, <1>6, <3>1, <3>2
  <2>2. Inside(nodes', socket', len) = Executing(peer)
    <3>1. len \in 0 .. len /\ len + 1 = Len(socket)
      BY <1>2
    <3>2. QED
      BY <1>3, <1>6, <3>1 DEF Alternate
  <2>3. QED
    BY <1>1, <1>3, <2>1, <2>2 DEF Alternate, len
<1> HIDE DEF len
<1>8. ASSUME NEW q \in Proc PROVE Follows(q)'
  <2>1. (NoWant(q)' <=> NoWant(q)) /\ (OneWant(q)' <=> OneWant(q))
    BY <1>1 DEF NoWant, OneWant
  <2>2. NoReport(q) => NoReport(q)' /\ q # p
    BY <1>1, <1>2, <1>5 DEF NoReport, len
  <2>3. \A k \in 1 .. Len(socket') :
          socket'[k].src = q /\ socket'[k].msg.type = "EXITED" =>
              /\ peer'[q] = "PS_IDLE"
              /\ \A j \in 1 .. Len(socket') : j > k => socket'[j].src # q
    <3>1. ASSUME NEW k \in 1 .. len, socket'[k].src = q, socket'[k].msg.type = "EXITED"
          PROVE  /\ peer'[q] = "PS_IDLE"
                 /\ \A j \in 1 .. len : j > k => socket'[j].src # q
      <4>1. /\ peer[q] = "PS_IDLE"
            /\ \A j \in 1 .. Len(socket) : j > k + 1 => socket[j].src # q
        BY <1>3, <1>5, <3>1 DEF Follows
      <4>2. \A j \in 1 .. len : j > k => j + 1 > k + 1
        BY <1>2
      <4>3. QED
        BY <1>1, <1>5, <4>1, <4>2
    <3>2. QED
      BY <3>1 DEF len
  <2>4. CASE q # p
    <3>1. nodes'[q] = nodes[q] /\ peer'[q] = peer[q]
      BY <1>1, <1>3, <2>4 DEF PeersTypeOK
    <3>2. QED
      BY <1>3, <2>1, <2>2, <2>3, <3>1 DEF Follows
  <2>5. CASE q = p
    <3>1. ~NoReport(q)
      BY <2>2, <2>5
    <3>2. NoWant(q) /\ OneWant(q) /\ peer[q] # "PS_PENDING" /\ peer'[q] = peer[q]
      BY <1>1, <1>3, <3>1 DEF Follows
    <3>3. CASE type = "ENTERED"
      <4>1. nodes'[q] = "PS_EXECUTING"
        BY <1>1, <1>3, <2>5, <3>3 DEF PeersTypeOK
      <4>2. QED
        BY <2>1, <2>3, <3>2, <4>1 DEF Follows
    <3>4. CASE type = "EXITED"
      <4>1. peer[q] = "PS_IDLE" /\ \A j \in 1 .. Len(socket) : j > 1 => socket[j].src # q
        BY <1>1, <1>2, <1>3, <2>5, <3>4 DEF Follows
      <4>2. NoReport(q)'
        <5>1. \A k \in 1 .. len : k + 1 > 1
          BY <1>2
        <5>2. \A k \in 1 .. len : socket'[k].src # q
          BY <1>5, <4>1, <5>1
        <5>3. QED
          BY <5>2 DEF NoReport, len
      <4>3. peer'[q] = "PS_IDLE"
        BY <3>2, <4>1
      <4>4. QED
        BY <2>1, <2>3, <3>2, <4>2, <4>3 DEF Follows
    <3>5. QED
      BY <3>3, <3>4
  <2>6. QED
    BY <2>4, <2>5
<1>9. QED
  BY <1>4, <1>7, <1>8 DEF PeersInv

LEMMA PeersNext ==
    ASSUME Assumptions, IInv, PeersInv, [Next]_vars
    PROVE  PeersInv'
<1>1. CASE syncro
  BY <1>1, PeersSyncro
<1>2. CASE do_work
  BY <1>2, PeersWork
<1>3. CASE PackIn
  BY <1>3, PeersPack
<1>4. CASE Peers
  BY <1>4, PeersHear, PeersEnter, PeersLeave DEF Peers
<1>5. CASE \/ UNCHANGED vars \/ RegisterHandlers \/ DeliverSyncro \/ DeliverPeriodicWork
           \/ Expire \/ Signal \/ Stop
  <2>1. UNCHANGED <<nodes, peer, sent, socket>>
    BY <1>5 DEF vars, viewVars, peersVars, engineVars, netioVars, RegisterHandlers, init_handlers,
                DeliverSyncro, DeliverPeriodicWork, Expire, TimerExpires, Signal, EngineNext,
                networkio_handler, timer_expire_handler, Stop, ForcedExit
  <2>2. QED
    BY <2>1, PeersUntouched
<1>6. QED
  BY <1>1, <1>2, <1>3, <1>4, <1>5 DEF Next, WaitEvents
-----------------------------------------------------------------------------
Delay == [tv_sec : Int, tv_nsec : Int]

DelaySum == SumOf([k \in DOMAIN synchro_delays |-> Nanoseconds(synchro_delays[k])])

(***************************************************************************)
(* The last exit, or the start of the test, was at t.  Until then, or, if  *)
(* somebody has entered since, until now, the delays add up to no more.    *)
(***************************************************************************)
NoLonger(t, clock, start, total, free) ==
    /\ t \in Nat /\ clock \in Nat /\ start \in Nat /\ total \in Int
    /\ start <= t /\ t <= clock
    /\ free => total <= t - start
    /\ total <= clock - start

LEMMA LongerClock ==
    ASSUME NEW t, NEW clock, NEW start, NEW total, NEW free, NoLonger(t, clock, start, total, free),
           NEW later \in Nat, later >= clock
    PROVE  NoLonger(t, later, start, total, free)
BY DEF NoLonger

LEMMA LongerByEntry ==
    ASSUME NEW t, NEW clock, NEW start, NEW total, NoLonger(t, clock, start, total, TRUE),
           NEW later \in Nat, later >= clock
    PROVE  NoLonger(t, later, start, total + (later - t), FALSE)
BY DEF NoLonger

LEMMA LongerByExit ==
    ASSUME NEW t, NEW clock, NEW start, NEW total, NEW free, NoLonger(t, clock, start, total, free),
           NEW later \in Nat, later >= clock, NEW free2
    PROVE  NoLonger(later, later, start, total, free2)
BY DEF NoLonger

LEMMA NoLongerAtStart ==
    ASSUME NEW t \in Nat, NEW free
    PROVE  NoLonger(t, t, t, 0, free)
BY DEF NoLonger

LastExitAt(t) ==
    /\ tstamp_last_exited = ReadClock(t)
    /\ NoLonger(t, now, elected_at, DelaySum, Executing(nodes) = {})

DelaysInv ==
    /\ synchro_delays \in Seq(Delay)
    /\ \E t : LastExitAt(t)

LEMMA DelaySumGrows ==
    ASSUME synchro_delays \in Seq(Delay), NEW d \in Delay,
           synchro_delays' = Append(synchro_delays, d)
    PROVE  DelaySum' = DelaySum + Nanoseconds(d)
<1> DEFINE n == Len(synchro_delays)
           s == [k \in DOMAIN synchro_delays |-> Nanoseconds(synchro_delays[k])]
           more == [k \in DOMAIN synchro_delays' |-> Nanoseconds(synchro_delays'[k])]
<1>1. /\ n \in Nat /\ DOMAIN synchro_delays = 1 .. n
      /\ DOMAIN synchro_delays' = 1 .. n + 1
      /\ \A k \in 1 .. n : synchro_delays[k] \in Delay /\ synchro_delays'[k] = synchro_delays[k]
      /\ synchro_delays'[n + 1] = d
  BY LenProperties, AppendProperties
<1> HIDE DEF n
<1>2. \A k \in 1 .. n + 1 : synchro_delays'[k] \in Delay
  <2>1. \A k \in 1 .. n + 1 : k = n + 1 \/ k \in 1 .. n
    BY <1>1
  <2>2. QED
    BY <1>1, <2>1
<1>3. \A x \in Delay : Nanoseconds(x) \in Int
  BY TimeAssumption DEF Delay, Nanoseconds
<1>4. /\ s \in [1 .. n -> Int] /\ more \in [1 .. n + 1 -> Int]
      /\ \A k \in 1 .. n : more[k] = s[k]
      /\ more[n + 1] = Nanoseconds(d)
  BY <1>1, <1>2, <1>3
<1> HIDE DEF s, more
<1>5. SumOf(more) = SumOf(s) + Nanoseconds(d)
  BY <1>1, <1>4, SumOfMore
<1>6. QED
  BY <1>5 DEF s, more, DelaySum

LEMMA DelaySumNone == ASSUME synchro_delays = <<>> PROVE DelaySum = 0
<1> DEFINE s == [k \in DOMAIN synchro_delays |-> Nanoseconds(synchro_delays[k])]
<1>1. DOMAIN synchro_delays = 1 .. 0
  OBVIOUS
<1>2. s \in [1 .. 0 -> Int]
  BY <1>1
<1> HIDE DEF s
<1>3. SumOf(s) = 0
  BY <1>2, SumOfNone
<1>4. QED
  BY <1>3 DEF s, DelaySum

LEMMA DelaySumNoneNext == ASSUME synchro_delays' = <<>> PROVE DelaySum' = 0
<1> DEFINE s == [k \in DOMAIN synchro_delays' |-> Nanoseconds(synchro_delays'[k])]
<1>1. DOMAIN synchro_delays' = 1 .. 0
  OBVIOUS
<1>2. s \in [1 .. 0 -> Int]
  BY <1>1
<1> HIDE DEF s
<1>3. SumOf(s) = 0
  BY <1>2, SumOfNone
<1>4. QED
  BY <1>3 DEF s, DelaySum

LEMMA DelaysInit == ASSUME Init PROVE DelaysInv
<1>1. /\ now = 0 /\ elected_at = 0 /\ synchro_delays = <<>>
      /\ tstamp_last_exited = ReadClock(0)
  BY DEF Init
<1>2. DelaySum = 0
  BY <1>1, DelaySumNone
<1>3. LastExitAt(0)
  <2>1. NoLonger(0, 0, 0, 0, Executing(nodes) = {})
    BY NoLongerAtStart
  <2>2. QED
    BY <1>1, <1>2, <2>1 DEF LastExitAt
<1>4. QED
  BY <1>1, <1>3 DEF DelaysInv

LEMMA ClockGoesOn ==
    ASSUME Assumptions, now \in Nat, TimePasses
    PROVE  \E later \in Nat : now' = later /\ later >= now
<1>1. PICK pause \in Pauses : now' = now + pause
  BY DEF TimePasses
<1>2. pause \in Nat
  BY DEF Assumptions, SupervisorProgramAssumption
<1>3. now + pause \in Nat /\ now + pause >= now
  BY <1>2
<1>4. QED
  BY <1>1, <1>3

LEMMA DelaysNext ==
    ASSUME Assumptions, IInv, PeersInv, DelaysInv, [Next]_vars
    PROVE  DelaysInv'
<1>1. PICK t : LastExitAt(t)
  BY DEF DelaysInv
<1>2. /\ tstamp_last_exited = ReadClock(t)
      /\ NoLonger(t, now, elected_at, DelaySum, Executing(nodes) = {})
      /\ t \in Nat /\ now \in Nat /\ synchro_delays \in Seq(Delay)
  BY <1>1 DEF LastExitAt, DelaysInv, NoLonger
<1>3. ASSUME UNCHANGED <<tstamp_last_exited, synchro_delays, elected_at, nodes>>,
             NEW later \in Nat, now' = later, later >= now
      PROVE  DelaysInv'
  <2>1. DelaySum' = DelaySum
    BY <1>3 DEF DelaySum
  <2>2. NoLonger(t, later, elected_at, DelaySum, Executing(nodes) = {})
    BY <1>2, <1>3, LongerClock
  <2>3. LastExitAt(t)'
    BY <1>2, <1>3, <2>1, <2>2 DEF LastExitAt
  <2>4. QED
    BY <1>2, <1>3, <2>3 DEF DelaysInv
<1>4. CASE StartTest
  <2>1. /\ synchro_delays' = <<>> /\ TimePasses
        /\ tstamp_last_exited' = ReadClock(now') /\ elected_at' = now'
    BY <1>4 DEF StartTest
  <2>2. PICK later \in Nat : now' = later
    BY <1>2, <2>1, ClockGoesOn
  <2>3. DelaySum' = 0
    BY <2>1, DelaySumNoneNext
  <2>4. NoLonger(later, later, later, 0, Executing(nodes') = {})
    BY NoLongerAtStart
  <2>5. LastExitAt(later)'
    BY <2>1, <2>2, <2>3, <2>4 DEF LastExitAt
  <2>6. QED
    BY <2>1, <2>5 DEF DelaysInv
<1>5. CASE PackIn
  <2>1. PICK p \in Proc, type \in {"ENTERED", "EXITED"} :
            /\ type = socket[1].msg.type
            /\ p = socket[1].src
            /\ Executing(nodes) = IF type = "ENTERED" THEN {} ELSE {p}
            /\ Executing(nodes') = Inside(nodes, socket, 1)
    BY <1>5, PackTaken
  <2>2. /\ TimePasses /\ process_messages(Head(socket)) /\ elected_at' = elected_at
        /\ Head(socket) = socket[1]
    <3>1. socket # <<>> /\ socket \in Seq(PeerReport)
      BY <1>5 DEF PackIn, IInv
    <3>2. Head(socket) = socket[1]
      BY <3>1, HeadTailProperties
    <3>3. QED
      BY <1>5, <3>2 DEF PackIn, process_messages
  <2>3. PICK later \in Nat : now' = later /\ later >= now
    BY <1>2, <2>2, ClockGoesOn
  <2>4. CASE type = "ENTERED"
    <3> DEFINE d == timespec_delta(tstamp_last_exited, ReadClock(later))
    <3>1. /\ synchro_delays' = Append(synchro_delays, d)
          /\ tstamp_last_exited' = tstamp_last_exited
      BY <2>1, <2>2, <2>3, <2>4 DEF process_messages
    <3>2. /\ ReadClock(t).tv_sec \in Int /\ ReadClock(t).tv_nsec \in Int
          /\ ReadClock(later).tv_sec \in Int /\ ReadClock(later).tv_nsec \in Int
          /\ Nanoseconds(ReadClock(t)) = t /\ Nanoseconds(ReadClock(later)) = later
      BY <1>2, ClockRead
    <3>3. d \in Delay /\ Nanoseconds(d) = later - t
      BY <1>2, <3>2, DeltaIs DEF Delay
    <3> HIDE DEF d
    <3>4. DelaySum' = DelaySum + (later - t)
      BY <1>2, <3>1, <3>3, DelaySumGrows
    <3>5. synchro_delays' \in Seq(Delay)
      BY <1>2, <3>1, <3>3, AppendProperties
    <3>6. (Executing(nodes) = {}) = TRUE /\ (Executing(nodes') = {}) = FALSE
      BY <2>1, <2>4 DEF Inside
    <3>7. NoLonger(t, later, elected_at, DelaySum + (later - t), FALSE)
      BY <1>2, <2>3, <3>6, LongerByEntry
    <3>8. LastExitAt(t)'
      BY <1>2, <2>2, <2>3, <3>1, <3>4, <3>6, <3>7, Zenon DEF LastExitAt
    <3>9. QED
      BY <3>5, <3>8 DEF DelaysInv
  <2>5. CASE type = "EXITED"
    <3>1. synchro_delays' = synchro_delays /\ tstamp_last_exited' = ReadClock(later)
      BY <2>1, <2>2, <2>3, <2>5 DEF process_messages
    <3>2. DelaySum' = DelaySum
      BY <3>1 DEF DelaySum
    <3>3. NoLonger(later, later, elected_at, DelaySum, Executing(nodes') = {})
      BY <1>2, <2>3, LongerByExit
    <3>4. LastExitAt(later)'
      BY <2>2, <2>3, <3>1, <3>2, <3>3 DEF LastExitAt
    <3>5. QED
      BY <1>2, <3>1, <3>4 DEF DelaysInv
  <2>6. QED
    BY <2>4, <2>5
<1>6. CASE DeliverSyncro
  <2>1. TimePasses /\ UNCHANGED <<tstamp_last_exited, synchro_delays, elected_at, nodes>>
    BY <1>6 DEF DeliverSyncro, viewVars
  <2>2. PICK later \in Nat : now' = later /\ later >= now
    BY <1>2, <2>1, ClockGoesOn
  <2>3. QED
    BY <1>3, <2>1, <2>2
<1>7. CASE \/ UNCHANGED vars \/ RegisterHandlers \/ DeliverPeriodicWork \/ Expire \/ Signal
           \/ Stop \/ Peers \/ syncro \/ (do_work /\ ~StartTest)
  <2>1. UNCHANGED <<now, tstamp_last_exited, synchro_delays, elected_at, nodes>>
    BY <1>7 DEF vars, viewVars, timeVars, RegisterHandlers, DeliverPeriodicWork, Expire, Signal,
                Stop, Peers, Hear, Enter, Leave, Report, syncro, do_work
  <2>2. PICK later \in Nat : now = later /\ later >= now
    BY <1>2
  <2>3. QED
    BY <1>3, <2>1, <2>2
<1>8. QED
  BY <1>4, <1>5, <1>6, <1>7 DEF Next, WaitEvents

LEMMA DelaysInvariance == Spec => []DelaysInv
<1>1. Assumptions
  BY EventsAssumption, SupervisorProgramAssumption DEF Assumptions
<1>2. Init => PeersInv /\ DelaysInv
  BY PeersInvInit, DelaysInit
<1>3. IInv /\ PeersInv /\ DelaysInv /\ [Next]_vars => PeersInv' /\ DelaysInv'
  BY <1>1, PeersNext, DelaysNext
<1>4. QED
  BY <1>2, <1>3, Invariance, PTL DEF Spec

(***************************************************************************)
(* The synchronisation delays of a test do not overlap: together they are  *)
(* no longer than the test, whatever the clock readings, the peers and the *)
(* order of signals.                                                       *)
(***************************************************************************)
THEOREM DelaysApart == Spec => []DelaysDisjoint
<1>1. DelaysInv => DelaysDisjoint
  <2>1. ASSUME DelaysInv PROVE DelaysDisjoint
    <3>1. PICK t : LastExitAt(t)
      BY <2>1 DEF DelaysInv
    <3>2. DelaySum <= now - elected_at
      BY <3>1 DEF LastExitAt, NoLonger
    <3>3. QED
      BY <3>2 DEF DelaysDisjoint, DelaySum
  <2>2. QED
    BY <2>1
<1>2. QED
  BY <1>1, DelaysInvariance, PTL
-----------------------------------------------------------------------------
(***************************************************************************)
(* There is a delay for every response, and no response before an election.*)
(***************************************************************************)
ResponsesInv ==
    /\ elected_proc_count \in Nat
    /\ received_resps_count \in Nat
    /\ Len(synchro_delays) = received_resps_count
    /\ elected_proc_count = 0 => received_resps_count = 0 /\ \A p \in Proc : nodes[p] = "PS_IDLE"

LEMMA ResponsesInit == ASSUME Init PROVE ResponsesInv
<1>1. /\ synchro_delays = <<>> /\ elected_proc_count = 0 /\ received_resps_count = 0
      /\ nodes = [p \in Proc |-> "PS_IDLE"]
  BY DEF Init, Sup!SupInit, Sup!Proc, Proc
<1>2. QED
  BY <1>1 DEF ResponsesInv

LEMMA ResponsesNext ==
    ASSUME Assumptions, IInv, PeersInv, DelaysInv, ResponsesInv, [Next]_vars
    PROVE  ResponsesInv'
<1>1. CASE StartTest
  <2>1. /\ synchro_delays' = <<>> /\ received_resps_count' = 0
        /\ \E pid_arr \in Sup!Elections : elected_proc_count' = Len(pid_arr)
    BY <1>1 DEF StartTest
  <2>2. PICK pid_arr \in Sup!Elections : elected_proc_count' = Len(pid_arr)
    BY <2>1
  <2>3. PICK count \in Sup!concurrent_counts : pid_arr \in Sup!Injection(1 .. count, Sup!Proc)
    BY <2>2 DEF Sup!Elections
  <2>4. pid_arr \in [1 .. count -> Proc]
    BY <2>3, NodesAre, SameOperators
  <2>5. count \in Nat \ {0}
    BY <2>3 DEF Sup!concurrent_counts, Assumptions, SupervisorProgramAssumption
  <2>6. Len(pid_arr) = count
    BY <2>4, <2>5
  <2>7. elected_proc_count' \in Nat /\ elected_proc_count' # 0
    BY <2>2, <2>5, <2>6
  <2>8. QED
    BY <2>1, <2>7 DEF ResponsesInv
<1>2. CASE PackIn
  <2>1. PICK p \in Proc, type \in {"ENTERED", "EXITED"} :
            /\ p = socket[1].src /\ type = socket[1].msg.type
            /\ Len(socket) \in Nat \ {0}
    BY <1>2, PackTaken
  <2>2. /\ process_messages(Head(socket)) /\ elected_proc_count' = elected_proc_count
        /\ Head(socket) = socket[1]
    <3>1. socket # <<>> /\ socket \in Seq(PeerReport)
      BY <1>2 DEF PackIn, IInv
    <3>2. Head(socket) = socket[1]
      BY <3>1, HeadTailProperties
    <3>3. QED
      BY <1>2, <3>2 DEF PackIn, process_messages
  <2>3. elected_proc_count # 0
    <3>1. 1 \in 1 .. Len(socket)
      BY <2>1
    <3>2. ~NoReport(p)
      BY <2>1, <3>1 DEF NoReport
    <3>3. nodes[p] # "PS_IDLE"
      BY <3>2 DEF PeersInv, Follows
    <3>4. QED
      BY <3>3 DEF ResponsesInv
  <2>4. CASE type = "ENTERED"
    <3>1. PICK d : synchro_delays' = Append(synchro_delays, d)
                   /\ d = timespec_delta(tstamp_last_exited, ReadClock(now'))
      BY <2>1, <2>2, <2>4 DEF process_messages
    <3>2. received_resps_count' = received_resps_count + 1
      BY <2>1, <2>2, <2>4 DEF process_messages
    <3>3. Len(synchro_delays') = Len(synchro_delays) + 1
      BY <3>1 DEF DelaysInv
    <3>4. received_resps_count + 1 \in Nat
      BY DEF ResponsesInv
    <3>5. QED
      BY <2>2, <2>3, <3>2, <3>3, <3>4 DEF ResponsesInv
  <2>5. CASE type = "EXITED"
    <3>1. UNCHANGED <<synchro_delays, received_resps_count>>
      BY <2>1, <2>2, <2>5 DEF process_messages
    <3>2. QED
      BY <2>2, <2>3, <3>1 DEF ResponsesInv
  <2>6. QED
    BY <2>4, <2>5
<1>3. CASE \/ UNCHANGED vars \/ RegisterHandlers \/ DeliverSyncro \/ DeliverPeriodicWork
           \/ Expire \/ Signal \/ Stop \/ Peers \/ syncro \/ (do_work /\ ~StartTest)
  <2>1. UNCHANGED <<elected_proc_count, received_resps_count, synchro_delays, nodes>>
    BY <1>3 DEF vars, viewVars, timeVars, RegisterHandlers, DeliverSyncro, DeliverPeriodicWork,
                Expire, Signal, Stop, Peers, Hear, Enter, Leave, Report, syncro, do_work
  <2>2. QED
    BY <2>1 DEF ResponsesInv
<1>4. QED
  BY <1>1, <1>2, <1>3 DEF Next, WaitEvents

LEMMA AverageStep ==
    ASSUME Assumptions, DelaysInv, ResponsesInv, [Next]_vars,
           test_number' # test_number, received_resps_count > 0
    PROVE  Nanoseconds(avg_synchro_time') =
               SumOf([k \in DOMAIN synchro_delays |-> Nanoseconds(synchro_delays[k])])
                   \div received_resps_count
<1>1. Statistics
  BY DEF Next, vars, viewVars, WaitEvents, RegisterHandlers, DeliverSyncro, DeliverPeriodicWork,
         Expire, Signal, Stop, Peers, Hear, Enter, Leave, Report, syncro, do_work, PackIn,
         process_messages, StartTest
<1>2. elected_proc_count > 0
  BY DEF ResponsesInv
<1>3. avg_synchro_time' = timespec_avg(synchro_delays)
  BY <1>1, <1>2 DEF Statistics
<1>4. /\ synchro_delays \in Seq([tv_sec : Int, tv_nsec : Int]) /\ synchro_delays # <<>>
      /\ Len(synchro_delays) = received_resps_count
  BY DEF DelaysInv, Delay, ResponsesInv
<1>5. QED
  BY <1>3, <1>4, AverageIs

(***************************************************************************)
(* The average logged for a test is the exact one, rounded down to a       *)
(* nanosecond, of all its delays: timespec_avg loses nothing of the rest   *)
(* of the seconds, whatever the numbers and however many.                  *)
(***************************************************************************)
THEOREM AverageLogged == Spec => AverageExact
<1>1. Assumptions
  BY EventsAssumption, SupervisorProgramAssumption DEF Assumptions
<1>2. Init => PeersInv /\ DelaysInv /\ ResponsesInv
  BY PeersInvInit, DelaysInit, ResponsesInit
<1>3. IInv /\ PeersInv /\ DelaysInv /\ ResponsesInv /\ [Next]_vars
          => PeersInv' /\ DelaysInv' /\ ResponsesInv'
  BY <1>1, PeersNext, DelaysNext, ResponsesNext
<1>4. DelaysInv /\ ResponsesInv /\ [Next]_vars =>
          [test_number' # test_number /\ received_resps_count > 0 =>
              Nanoseconds(avg_synchro_time') =
                  SumOf([k \in DOMAIN synchro_delays |-> Nanoseconds(synchro_delays[k])])
                      \div received_resps_count]_vars
  BY <1>1, AverageStep
<1>5. QED
  BY <1>2, <1>3, <1>4, Invariance, PTL DEF Spec, AverageExact
=============================================================================

------------------------------- MODULE Events -------------------------------
(***************************************************************************)
(* The event engine of src/common/init.c in one process.  Everything a     *)
(* program does starts as a real-time signal: SIGRT_NETWORK for a packet in *)
(* its socket, SIGRT_TIMEREXP for a timer, SIGRT_DELIVER for an event the   *)
(* program queues for itself.  The three are blocked at all times; wait_   *)
(* events takes the pending ones by sigwaitinfo, the lowest number first   *)
(* and those of one number in the order they were raised.  Only a signal   *)
(* of the last kind runs a handler of the program; the other two put an    *)
(* event into that queue.                                                  *)
(*                                                                         *)
(* The module has the steps of the engine and of the kernel below it, and  *)
(* the calls the programs' handlers are made of.  PeerProgram and          *)
(* SupervisorProgram add the handlers.                                     *)
(***************************************************************************)
EXTENDS Integers, Sequences, FiniteSets, SequencesExt

CONSTANT MAX_TIMERS     \* cells of the timers pool, 64 in the code

ASSUME EventsAssumption == MAX_TIMERS \in Nat \ {0}

Slot == 0 .. MAX_TIMERS - 1

(* The events of dme_ev_t that travel in signals; "none": no timer runs. *)
Event == {"PACK_IN", "ENTERED", "EXITED", "PERIODIC_WORK", "SYNCRO"}

VARIABLES
    socket,             \* packets in the socket's buffer, oldest first
    early,              \* history: packets that came before O_ASYNC was set
    o_async,            \* init_handlers has run: a packet raises SIGRT_NETWORK
    sigrt_network,      \* pending signals SIGRT_NETWORK
    sigrt_timerexp,     \* pending SIGRT_TIMEREXP: their sig_timer_cookie_t
    sigrt_deliver,      \* pending SIGRT_DELIVER: their events
    timers_state,       \* timers_state[ix]: the program's view of a slot
    timers_pool,        \* timers_pool[ix]: event of the timer the kernel runs
    last_timer,         \* get_free_timer's static variable
    exit_request

timerVars == <<timers_state, timers_pool, last_timer>>

netioVars == <<socket, early, o_async>>

EventsInit ==
    /\ socket = <<>>
    /\ early = 0
    /\ o_async = FALSE
    /\ sigrt_network = 0
    /\ sigrt_timerexp = <<>>
    /\ sigrt_deliver = <<>>
    /\ timers_state = [ix \in Slot |-> "TIMER_UNUSED"]
    /\ timers_pool = [ix \in Slot |-> "none"]
    /\ last_timer = 0
    /\ exit_request = FALSE

Cookie == [stc_timer_idx : Slot, stc_evt : Event]

EventsTypeOK ==
    /\ early \in Nat
    /\ o_async \in BOOLEAN
    /\ sigrt_network \in Nat
    /\ sigrt_timerexp \in Seq(Cookie)
    /\ sigrt_deliver \in Seq(Event)
    /\ timers_state \in [Slot -> {"TIMER_UNUSED", "TIMER_ARMED"}]
    /\ timers_pool \in [Slot -> Event \cup {"none"}]
    /\ last_timer \in Slot
    /\ exit_request \in BOOLEAN
-----------------------------------------------------------------------------
(* Calls of the programs. *)

(***************************************************************************)
(* get_free_timer looks from the slot it returned last, once around; -1 if *)
(* the pool is used up.                                                    *)
(***************************************************************************)
ScanOrder == [k \in Slot |-> (last_timer + k) % MAX_TIMERS]

get_free_timer ==
    LET free == {k \in Slot : timers_state[ScanOrder[k]] = "TIMER_UNUSED"}
    IN  IF free = {} THEN -1 ELSE ScanOrder[Min(free)]

(***************************************************************************)
(* schedule_event.  A timer set to zero seconds is disarmed: its slot is   *)
(* taken and it never expires.  Without a free slot nothing is scheduled,  *)
(* and none of the callers looks at the result.                            *)
(***************************************************************************)
schedule_event(evt, secs) ==
    LET tidx == get_free_timer IN
    IF tidx = -1
    THEN UNCHANGED timerVars
    ELSE /\ last_timer' = tidx
         /\ timers_state' = [timers_state EXCEPT ![tidx] = "TIMER_ARMED"]
         /\ timers_pool' = [timers_pool EXCEPT ![tidx] = IF secs = 0 THEN "none" ELSE evt]

(* deliver_event: sigqueue behind the events that are waiting in q. *)
deliver_event(q, evt) == Append(q, evt)

(***************************************************************************)
(* init_handlers.  Packets that came before are in the socket and will not *)
(* raise a signal any more.                                                *)
(***************************************************************************)
init_handlers ==
    /\ o_async' = TRUE
    /\ UNCHANGED <<socket, early, sigrt_network, sigrt_timerexp, sigrt_deliver,
                   timerVars, exit_request>>
-----------------------------------------------------------------------------
(* The kernel. *)

PacketArrives(pkt) ==
    /\ socket' = Append(socket, pkt)
    /\ IF o_async
       THEN sigrt_network' = sigrt_network + 1 /\ UNCHANGED early
       ELSE early' = early + 1 /\ UNCHANGED sigrt_network
    /\ UNCHANGED <<o_async, sigrt_timerexp, sigrt_deliver, timerVars, exit_request>>

(* A one-shot timer expires.  CLOCK_MONOTONIC: in any order with the rest. *)
TimerExpires(ix) ==
    /\ timers_pool[ix] # "none"
    /\ timers_pool' = [timers_pool EXCEPT ![ix] = "none"]
    /\ sigrt_timerexp' = Append(sigrt_timerexp,
                                [stc_timer_idx |-> ix, stc_evt |-> timers_pool[ix]])
    /\ UNCHANGED <<netioVars, sigrt_network, sigrt_deliver, timers_state, last_timer,
                   exit_request>>
-----------------------------------------------------------------------------
(* wait_events, one signal at a time, as long as there is no exit request. *)

QueueOnePackIn(q) ==      \* faulty: one PACK_IN for several packets
    IF "PACK_IN" \in ToSet(q) THEN q ELSE Append(q, "PACK_IN")

(* What the handler of SIGRT_NETWORK leaves in the queue of events. *)
QueuePackIn(q) == deliver_event(q, "PACK_IN")

networkio_handler ==
    /\ ~exit_request
    /\ sigrt_network > 0
    /\ sigrt_network' = sigrt_network - 1
    /\ sigrt_deliver' = QueuePackIn(sigrt_deliver)
    /\ UNCHANGED <<netioVars, sigrt_timerexp, timerVars, exit_request>>

SlotStaysTaken(ix) == timers_state      \* faulty: the slot is not given back

FreeSlot(ix) == [timers_state EXCEPT ![ix] = "TIMER_UNUSED"]

timer_expire_handler ==
    /\ ~exit_request
    /\ sigrt_network = 0
    /\ sigrt_timerexp # <<>>
    /\ LET stc == Head(sigrt_timerexp) IN
          /\ timers_state' = FreeSlot(stc.stc_timer_idx)
          /\ sigrt_deliver' = deliver_event(sigrt_deliver, stc.stc_evt)
    /\ sigrt_timerexp' = Tail(sigrt_timerexp)
    /\ UNCHANGED <<netioVars, sigrt_network, timers_pool, last_timer, exit_request>>

(***************************************************************************)
(* queued_event_handler: the guard of every handler of a program, which    *)
(* finds the events behind its own in q.                                   *)
(***************************************************************************)
Handles(evt) ==
    /\ ~exit_request
    /\ sigrt_network = 0
    /\ sigrt_timerexp = <<>>
    /\ sigrt_deliver # <<>>
    /\ Head(sigrt_deliver) = evt

(***************************************************************************)
(* net_demux takes the oldest packet; the programs' handlers tell by its   *)
(* magic what it is.  Its branch for an empty socket is never taken, which *)
(* SignalsCoverSocket says.                                                *)
(***************************************************************************)
net_demux(pkt) ==
    /\ Handles("PACK_IN")
    /\ socket # <<>>
    /\ pkt = Head(socket)
    /\ socket' = Tail(socket)
    /\ UNCHANGED <<early, o_async, sigrt_network, sigrt_timerexp>>

(* ^Z: SIGTSTP is in the set wait_events waits for. *)
ForcedExit ==
    /\ ~exit_request
    /\ exit_request' = TRUE
    /\ UNCHANGED <<netioVars, sigrt_network, sigrt_timerexp, sigrt_deliver, timerVars>>

EngineNext == networkio_handler \/ timer_expire_handler
-----------------------------------------------------------------------------
Count(q, evt) == Cardinality({k \in DOMAIN q : q[k] = evt})

(* How often an event is due: on a timer, in a timer's signal, or queued. *)
Due(evt) ==
    Cardinality({ix \in Slot : timers_pool[ix] = evt})
        + Cardinality({k \in DOMAIN sigrt_timerexp : sigrt_timerexp[k].stc_evt = evt})
        + Count(sigrt_deliver, evt)

(***************************************************************************)
(* A slot of the pool is taken exactly as long as its timer runs or the    *)
(* signal of its expiry is pending, once: a timer that is set to zero, a   *)
(* slot that is not given back or one given away twice would break it, and *)
(* after 64 of the first two kinds schedule_event silently does nothing.   *)
(***************************************************************************)
SlotsMatchTimers ==
    \A ix \in Slot :
        (IF timers_pool[ix] # "none" THEN 1 ELSE 0)
            + Cardinality({k \in DOMAIN sigrt_timerexp : sigrt_timerexp[k].stc_timer_idx = ix})
        = IF timers_state[ix] = "TIMER_ARMED" THEN 1 ELSE 0

(***************************************************************************)
(* networkio_handler and net_demux count packets and do not look at them:  *)
(* there is a signal or a queued PACK_IN for every packet in the socket    *)
(* except for as many as came before init_handlers.  So the last of those  *)
(* is never read, and a PACK_IN always finds a packet.                     *)
(***************************************************************************)
SignalsCoverSocket ==
    Len(socket) = early + sigrt_network + Count(sigrt_deliver, "PACK_IN")
=============================================================================

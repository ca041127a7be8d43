------------------------- MODULE SupervisorProgram -------------------------
(***************************************************************************)
(* The supervisor as a process: the end of main() in src/supervisor.c and  *)
(* its three handlers on the event engine of src/common/init.c, with the   *)
(* timer that starts the tests and the statistics of each test.  The peers *)
(* are represented by their traffic with the supervisor.  What a handler   *)
(* does to the view of the critical region is taken from Supervisor, whose *)
(* steps this program is shown to implement.                               *)
(*                                                                         *)
(* Time passes between the readings of the clock in handlers and main().   *)
(***************************************************************************)
EXTENDS Events, TimeArith

CONSTANTS
    nodes_count, max_concurrent_proc, fixed_concurent_num,  \* as in Supervisor
    election_interval,  \* seconds, the option -t
    Pauses,             \* nanoseconds that may pass between two clock readings
    MaxTests            \* bound: tests started in a behaviour

ASSUME SupervisorProgramAssumption ==
    /\ nodes_count \in Nat \ {0}
    /\ max_concurrent_proc \in 1 .. nodes_count
    /\ fixed_concurent_num \in BOOLEAN
    /\ MaxTests \in Nat
    /\ election_interval \in 5 .. 300
    /\ Pauses \subseteq Nat \ {0}

VARIABLES
    main,               \* what main() does next: "syncro", "periodic", "wait"
    syncro_done,        \* history: the SYNCRO event has been handled
    nodes, elected_proc_count, received_resps_count, test_number,
    tstamp_last_exited, synchro_delays, avg_synchro_time,
    now,                \* the clock in nanoseconds, when it was last read
    elected_at,         \* history: the time of the last election
    sent,               \* sent[p]: packets on their way to peer p
    peer                \* peer[p]: the state of peer p

viewVars == <<nodes, elected_proc_count, received_resps_count, test_number, syncro_done>>

timeVars == <<tstamp_last_exited, synchro_delays, avg_synchro_time, now, elected_at>>

peersVars == <<sent, peer>>

engineVars == <<netioVars, sigrt_network, sigrt_timerexp, sigrt_deliver, timerVars, exit_request>>

vars == <<main, viewVars, timeVars, peersVars, engineVars>>

SUPERVISOR_PID == 0
Proc == 1 .. nodes_count
Node == 0 .. nodes_count

(***************************************************************************)
(* Supervisor, on the network as this program sees it: the packets it has  *)
(* sent and those in its socket, which is one queue whoever they are from. *)
(* The lane of the supervisor to itself, otherwise not used, stands for it. *)
(***************************************************************************)
Sup == INSTANCE Supervisor WITH
    Net <- "fifo",
    OutOfBounds <- {FALSE},
    net <- [l \in Node \X Node |->
               IF l = <<SUPERVISOR_PID, SUPERVISOR_PID>> THEN socket
               ELSE IF l[1] = SUPERVISOR_PID THEN sent[l[2]] ELSE <<>>],
    exit_request <- [n \in Node |-> n = SUPERVISOR_PID /\ exit_request]

Init ==
    /\ EventsInit
    /\ Sup!SupInit
    /\ main = "handlers"
    /\ tstamp_last_exited = ReadClock(0)
    /\ synchro_delays = <<>>
    /\ avg_synchro_time = ReadClock(0)
    /\ now = 0
    /\ elected_at = 0
    /\ sent = [p \in Proc |-> <<>>]
    /\ peer = [p \in Proc |-> "PS_IDLE"]

(* clock_gettime *)
TimePasses == \E pause \in Pauses : now' = now + pause
-----------------------------------------------------------------------------
(***************************************************************************)
(* main(): SYNCRO and, after sleep(1), PERIODIC_WORK are queued before the *)
(* signals are looked at, so both are handled back to back.                *)
(***************************************************************************)
RegisterHandlers ==
    /\ main = "handlers"
    /\ main' = "syncro"
    /\ init_handlers
    /\ UNCHANGED <<viewVars, timeVars, peersVars>>

PeriodicFirst(evt) ==       \* faulty: the two events are queued the other way round
    IF evt = "SYNCRO" THEN "PERIODIC_WORK" ELSE "SYNCRO"

Kickstart(evt) == evt

DeliverSyncro ==
    /\ main = "syncro"
    /\ main' = "periodic"
    /\ sigrt_deliver' = deliver_event(sigrt_deliver, Kickstart("SYNCRO"))
    /\ TimePasses
    /\ UNCHANGED <<viewVars, tstamp_last_exited, synchro_delays, avg_synchro_time, elected_at,
                   peersVars, netioVars, sigrt_network, sigrt_timerexp, timerVars, exit_request>>

DeliverPeriodicWork ==
    /\ main = "periodic"
    /\ main' = "wait"
    /\ sigrt_deliver' = deliver_event(sigrt_deliver, Kickstart("PERIODIC_WORK"))
    /\ UNCHANGED <<viewVars, timeVars, peersVars, netioVars, sigrt_network, sigrt_timerexp,
                   timerVars, exit_request>>
-----------------------------------------------------------------------------
(* The handlers. *)

Wanted(msgtype, p) == [src |-> SUPERVISOR_PID, dst |-> p, msg |-> [type |-> msgtype]]

SendTo(procs, msgtype) ==
    sent' = [p \in Proc |-> IF p \in procs THEN Append(sent[p], Wanted(msgtype, p)) ELSE sent[p]]

syncro ==
    /\ Handles("SYNCRO")
    /\ SendTo(Proc, "SYNCRO")
    /\ syncro_done' = TRUE
    /\ sigrt_deliver' = Tail(sigrt_deliver)
    /\ UNCHANGED <<main, nodes, elected_proc_count, received_resps_count, test_number, timeVars,
                   peer, netioVars, sigrt_network, sigrt_timerexp, timerVars, exit_request>>

Statistics ==
    avg_synchro_time' = IF elected_proc_count > 0 /\ received_resps_count > 0
                        THEN timespec_avg(synchro_delays)
                        ELSE avg_synchro_time

StartTest ==
    /\ Statistics
    /\ \E pid_arr \in Sup!Elections :
          /\ elected_proc_count' = Len(pid_arr)
          /\ nodes' = [p \in Proc |-> IF p \in ToSet(pid_arr) THEN "PS_PENDING" ELSE nodes[p]]
          /\ SendTo(ToSet(pid_arr), "WANT")
    /\ received_resps_count' = 0
    /\ synchro_delays' = <<>>
    /\ TimePasses
    /\ tstamp_last_exited' = ReadClock(now')
    /\ elected_at' = now'
    /\ test_number' = test_number + 1

RearmUnlessIdle ==      \* faulty: only a busy handler asks to be called again
    IF Sup!critical_region_is_idlle
    THEN UNCHANGED timerVars
    ELSE schedule_event("PERIODIC_WORK", election_interval)

Rearm == schedule_event("PERIODIC_WORK", election_interval)

(***************************************************************************)
(* do_work has no return statement: the result queued_event_handler looks  *)
(* at is what schedule_event left behind, 0 or 1, and is not fatal.        *)
(***************************************************************************)
do_work ==
    /\ Handles("PERIODIC_WORK")
    /\ \/ /\ Sup!critical_region_is_idlle
          /\ test_number < MaxTests
          /\ StartTest
       \/ /\ ~Sup!critical_region_is_idlle \/ test_number = MaxTests
          /\ UNCHANGED <<nodes, elected_proc_count, received_resps_count, test_number, timeVars,
                         sent>>
    /\ Rearm
    /\ sigrt_deliver' = Tail(sigrt_deliver)
    /\ UNCHANGED <<main, syncro_done, peer, netioVars, sigrt_network, sigrt_timerexp, exit_request>>

process_messages(pkt) ==
    /\ TimePasses
    /\ \/ /\ pkt.msg.type = "ENTERED"
          /\ nodes' = [nodes EXCEPT ![pkt.src] = "PS_EXECUTING"]
          /\ synchro_delays' =
                Append(synchro_delays, timespec_delta(tstamp_last_exited, ReadClock(now')))
          /\ received_resps_count' = received_resps_count + 1
          /\ exit_request' = ~Sup!critical_region_is_sane(nodes', FALSE)
          /\ UNCHANGED tstamp_last_exited
       \/ /\ pkt.msg.type = "EXITED"
          /\ nodes' = [nodes EXCEPT ![pkt.src] = "PS_IDLE"]
          /\ tstamp_last_exited' = ReadClock(now')
          /\ UNCHANGED <<synchro_delays, received_resps_count, exit_request>>
    /\ UNCHANGED <<elected_proc_count, test_number, syncro_done, avg_synchro_time, elected_at>>

PackIn ==
    /\ socket # <<>>
    /\ net_demux(Head(socket))
    /\ process_messages(Head(socket))
    /\ sigrt_deliver' = Tail(sigrt_deliver)
    /\ UNCHANGED <<main, peersVars, timerVars>>

Signal == EngineNext /\ UNCHANGED <<main, viewVars, timeVars, peersVars>>

WaitEvents == main = "wait" /\ (Signal \/ syncro \/ do_work \/ PackIn)

Expire ==
    /\ \E ix \in Slot : TimerExpires(ix)
    /\ UNCHANGED <<main, viewVars, timeVars, peersVars>>

Stop == main = "wait" /\ ForcedExit /\ UNCHANGED <<main, viewVars, timeVars, peersVars>>
-----------------------------------------------------------------------------
(* The peers: they exclude each other and report to the supervisor. *)

Hear(p) ==
    /\ sent[p] # <<>>
    /\ sent' = [sent EXCEPT ![p] = Tail(@)]
    /\ peer' = IF Head(sent[p]).msg.type = "WANT" THEN [peer EXCEPT ![p] = "PS_PENDING"] ELSE peer
    /\ UNCHANGED <<main, viewVars, timeVars, engineVars>>

Report(p, msgtype) ==
    /\ PacketArrives([src |-> p, dst |-> SUPERVISOR_PID, msg |-> [type |-> msgtype]])
    /\ UNCHANGED <<main, viewVars, timeVars, sent>>

Enter(p) ==
    /\ peer[p] = "PS_PENDING"
    /\ \A q \in Proc : peer[q] # "PS_EXECUTING"
    /\ peer' = [peer EXCEPT ![p] = "PS_EXECUTING"]
    /\ Report(p, "ENTERED")

Leave(p) ==
    /\ peer[p] = "PS_EXECUTING"
    /\ peer' = [peer EXCEPT ![p] = "PS_IDLE"]
    /\ Report(p, "EXITED")

Peers == \E p \in Proc : Hear(p) \/ Enter(p) \/ Leave(p)

Next ==
    \/ RegisterHandlers \/ DeliverSyncro \/ DeliverPeriodicWork
    \/ WaitEvents \/ Expire \/ Stop \/ Peers

(***************************************************************************)
(* main() runs on, sigwaitinfo returns as long as a signal is pending, and *)
(* the kernel ends every timer it runs.  Of the peers nothing is assumed.  *)
(***************************************************************************)
Spec ==
    /\ Init
    /\ [][Next]_vars
    /\ WF_vars(RegisterHandlers \/ DeliverSyncro \/ DeliverPeriodicWork)
    /\ WF_vars(WaitEvents)
    /\ WF_vars(Expire)
-----------------------------------------------------------------------------
TypeOK ==
    /\ EventsTypeOK
    /\ Sup!SupTypeOK
    /\ main \in {"handlers", "syncro", "periodic", "wait"}
    /\ now \in Nat /\ elected_at \in 0 .. now

(***************************************************************************)
(* The periodic work never stops and never doubles: once main() has queued *)
(* it, its event is on a timer, in the timer's signal or in the queue,     *)
(* exactly once, whatever packets come in between.  The supervisor has no  *)
(* other way to start a test.                                              *)
(***************************************************************************)
PeriodicAlive == Due("PERIODIC_WORK") = IF main = "wait" THEN 1 ELSE 0

(***************************************************************************)
(* The synchronisation delays of a test are taken from an exit to the next *)
(* entry, so they do not overlap: together they are no longer than the     *)
(* test.  This is what timespec_delta's borrow and the resetting of        *)
(* tstamp_last_exited in two handlers are for.                             *)
(***************************************************************************)
DelaysDisjoint ==
    SumOf([k \in DOMAIN synchro_delays |-> Nanoseconds(synchro_delays[k])]) <= now - elected_at

(***************************************************************************)
(* The average logged for a test is the exact one, rounded down to a       *)
(* nanosecond, over all responses of that test and of no other.            *)
(***************************************************************************)
AverageExact ==
    [][test_number' # test_number /\ received_resps_count > 0 =>
          Nanoseconds(avg_synchro_time') =
              SumOf([k \in DOMAIN synchro_delays |-> Nanoseconds(synchro_delays[k])])
                  \div received_resps_count]_vars

(* The program implements Supervisor, which the peers are composed with. *)
SupervisorSpec == Sup!SupSpec
=============================================================================

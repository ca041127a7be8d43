----------------------------- MODULE Supervisor -----------------------------
(***************************************************************************)
(* The supervisor process: src/supervisor.c with the view of the critical  *)
(* region in src/common/fsm.c.  It starts a test by electing processes and *)
(* telling each of them to compete for the critical region, follows them   *)
(* by their ENTERED and EXITED messages, and stops the experiment when it  *)
(* sees two of them inside.                                                *)
(***************************************************************************)
EXTENDS Network

CONSTANTS
    max_concurrent_proc,    \* computed by main() from the command line
    fixed_concurent_num,    \* TRUE: always elect max_concurrent_proc
    OutOfBounds,            \* what nodes[nodes_count + 1] may look like
    MaxTests                \* bound: tests started in a behaviour

(***************************************************************************)
(* main() refuses fewer than two competitors, then caps them at the number *)
(* of peers; with a single peer only the option -c gets past the refusal.  *)
(* OutOfBounds holds TRUE when the memory behind the nodes array may read  *)
(* as a process in state PS_EXECUTING.                                     *)
(***************************************************************************)
ASSUME SupervisorAssumption ==
    /\ \/ max_concurrent_proc \in 2 .. nodes_count
       \/ max_concurrent_proc = 1 /\ nodes_count = 1 /\ fixed_concurent_num
    /\ fixed_concurent_num \in BOOLEAN
    /\ OutOfBounds \subseteq BOOLEAN /\ OutOfBounds # {}
    /\ MaxTests \in Nat

VARIABLES
    nodes,                  \* nodes[p]: state of p as the supervisor knows it
    elected_proc_count,
    received_resps_count,
    test_number,
    syncro_done,            \* the SYNCRO event of main() has been handled
    exit_request            \* exit_request[n]: node n has left wait_events

supVars == <<nodes, elected_proc_count, received_resps_count, test_number, syncro_done>>

State == {"PS_IDLE", "PS_PENDING", "PS_EXECUTING"}

SupMsg == {[type |-> t] : t \in {"SYNCRO", "WANT", "ENTERED", "EXITED"}}

SupTypeOK ==
    /\ nodes \in [Proc -> State]
    /\ elected_proc_count \in Nat
    /\ received_resps_count \in Nat
    /\ test_number \in Nat
    /\ syncro_done \in BOOLEAN
    /\ exit_request \in [Node -> BOOLEAN]

SupInit ==
    /\ nodes = [p \in Proc |-> "PS_IDLE"]
    /\ elected_proc_count = 0
    /\ received_resps_count = 0
    /\ test_number = 0
    /\ syncro_done = FALSE
    /\ exit_request = [n \in Node |-> FALSE]

(***************************************************************************)
(* wait_events: a node takes its next signal when it has not been asked to *)
(* exit and the previous handler has returned.                             *)
(***************************************************************************)
Waiting(n) == ~exit_request[n] /\ ~InHandler(n)

(* Nobody is inside; the code has this predicate and does not call it. *)
critical_region_is_free == \A p \in Proc : nodes[p] # "PS_EXECUTING"

(* Nobody is inside or waiting: the condition for a new test. *)
critical_region_is_idlle == \A p \in Proc : nodes[p] = "PS_IDLE"

(***************************************************************************)
(* The loop increments ix before it reads nodes[ix], so it looks at        *)
(* 2..nodes_count+1: node 1 is skipped and the last read is behind the end *)
(* of the array (beyond).                                                  *)
(***************************************************************************)
critical_region_is_sane(view, beyond) ==
    Cardinality({p \in Proc \ {1} : view[p] = "PS_EXECUTING"})
        + (IF beyond THEN 1 ELSE 0) < 2

(* The SYNCRO event: tell every peer the start of the experiment. *)
syncro ==
    /\ Waiting(SUPERVISOR_PID)
    /\ ~syncro_done
    /\ syncro_done' = TRUE
    /\ net' = dme_broadcast_msg(net, SUPERVISOR_PID, [type |-> "SYNCRO"])
    /\ UNCHANGED <<nodes, elected_proc_count, received_resps_count, test_number, exit_request>>

concurrent_counts ==
    IF fixed_concurent_num THEN {max_concurrent_proc} ELSE 2 .. max_concurrent_proc

Elections == UNION {Injection(1 .. count, Proc) : count \in concurrent_counts}

(***************************************************************************)
(* The PERIODIC_WORK event, re-armed by the handler itself for ever.  When *)
(* the critical region is not idle it only re-arms, which changes nothing  *)
(* here; otherwise a new test starts.  main() queues it behind SYNCRO.     *)
(***************************************************************************)
do_work ==
    /\ Waiting(SUPERVISOR_PID)
    /\ syncro_done
    /\ critical_region_is_idlle
    /\ test_number < MaxTests
    /\ \E pid_arr \in Elections :
          /\ elected_proc_count' = Len(pid_arr)
          /\ nodes' = [p \in Proc |-> IF p \in ToSet(pid_arr) THEN "PS_PENDING" ELSE nodes[p]]
          /\ net' = SendToEach(net, SUPERVISOR_PID, pid_arr, [type |-> "WANT"])
    /\ received_resps_count' = 0
    /\ test_number' = test_number + 1
    /\ UNCHANGED <<syncro_done, exit_request>>

(***************************************************************************)
(* The SUP_MSG_IN event.  Nothing is registered for PEER_MSG_IN in the     *)
(* supervisor: null_func returns ERR_INIT, which is fatal.                 *)
(***************************************************************************)
process_messages(slot) ==
    LET pkt == PacketAt(slot) IN
    \/ /\ pkt.msg.type = "ENTERED"
       /\ nodes' = [nodes EXCEPT ![pkt.src] = "PS_EXECUTING"]
       /\ received_resps_count' = received_resps_count + 1
       /\ \E beyond \in OutOfBounds :
             exit_request' = [exit_request EXCEPT ![SUPERVISOR_PID] =
                                 ~critical_region_is_sane(nodes', beyond)]
    \/ /\ pkt.msg.type = "EXITED"
       /\ nodes' = [nodes EXCEPT ![pkt.src] = "PS_IDLE"]
       /\ UNCHANGED <<received_resps_count, exit_request>>

null_func(slot) ==
    /\ PacketAt(slot).msg \notin SupMsg
    /\ exit_request' = [exit_request EXCEPT ![SUPERVISOR_PID] = TRUE]
    /\ UNCHANGED <<nodes, received_resps_count>>

SupReceive ==
    /\ Waiting(SUPERVISOR_PID)
    /\ \E slot \in Receivable(SUPERVISOR_PID) :
          /\ process_messages(slot) \/ null_func(slot)
          /\ net' = dme_recv_msg(slot)
    /\ UNCHANGED <<elected_proc_count, test_number, syncro_done>>

SupNext == syncro \/ do_work \/ SupReceive

(***************************************************************************)
(* What SupervisorProgram, with its signals and its timer, is to implement: *)
(* no other steps, and each of these taken in the end.                     *)
(***************************************************************************)
SupSpec ==
    /\ SupInit
    /\ [][SupNext]_supVars
    /\ WF_supVars(syncro)
    /\ WF_supVars(do_work)
    /\ WF_supVars(SupReceive)
=============================================================================

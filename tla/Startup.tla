------------------------------ MODULE Startup ------------------------------
(***************************************************************************)
(* What main() of a peer (src/skel.c) and of the supervisor                *)
(* (src/supervisor.c) do before they wait for events, with the parsers of  *)
(* src/common/util.c, up to the supervisor's first election.  A program    *)
(* runs these steps alone, one after the other; what varies is its command *)
(* line, the configuration file, and whether the system calls succeed.     *)
(*                                                                         *)
(* A command line is a sequence of options [opt, val], its file names are  *)
(* numbers.  A file is the number on its first line and the lines after it:*)
(* the record of a node with so many link speeds, or a line that is empty  *)
(* or a comment.                                                           *)
(***************************************************************************)
EXTENDS Naturals, Sequences, FiniteSets, SequencesExt

CONSTANTS
    PeerOptions,            \* command lines a peer may be started with
    SupervisorOptions,      \* command lines the supervisor may be started with
    Files                   \* configuration files

Option == [opt : STRING, val : Nat]

Line == [record : BOOLEAN, speeds : Nat]

(* A negative count on the first line is left out. *)
ConfigFile == [prc_count : Nat, lines : Seq(Line)]

ASSUME StartupAssumption ==
    /\ PeerOptions \subseteq Seq(Option)
    /\ SupervisorOptions \subseteq Seq(Option)
    /\ Files \subseteq ConfigFile

Comment == [record |-> FALSE, speeds |-> 0]

VARIABLES
    program,                \* "peer" or "supervisor"
    pc,                     \* the next call of main()
    proc_id, nodes, nodes_count,
    concurency_ratio, max_concurrent_proc, fixed_concurent_num, election_interval,
    pid_arr                 \* the processes do_work has elected

paramVars == <<concurency_ratio, max_concurrent_proc, fixed_concurent_num, election_interval>>

startVars == <<program, pc, proc_id, nodes, nodes_count, paramVars, pid_arr>>

SupervisorPid == 0

DefaultLog == 0

StartInit ==
    /\ program \in {"peer", "supervisor"}
    /\ pc = "params"
    /\ proc_id = SupervisorPid
    /\ nodes = <<>>
    /\ nodes_count = 0
    /\ concurency_ratio = 50
    /\ max_concurrent_proc = 0
    /\ fixed_concurent_num = FALSE
    /\ election_interval = 10
    /\ pid_arr = <<>>

(* main() jumps to its end, or a parser calls exit. *)
GiveUp ==
    /\ pc' = "end"
    /\ UNCHANGED <<program, proc_id, nodes, nodes_count, paramVars, pid_arr>>
-----------------------------------------------------------------------------
(* Command line.  An option given twice counts as given last. *)

Given(args, opt) == \E k \in DOMAIN args : args[k].opt = opt

Value(args, opt, default) ==
    IF Given(args, opt)
    THEN args[Max({k \in DOMAIN args : args[k].opt = opt})].val
    ELSE default

parse_peer_params(args) ==
    /\ program = "peer" /\ pc = "params"
    /\ IF Given(args, "i") /\ Given(args, "f") /\ ~Given(args, "?")
       THEN /\ pc' = "file"
            /\ proc_id' = Value(args, "i", SupervisorPid)
            /\ UNCHANGED <<program, nodes, nodes_count, paramVars, pid_arr>>
       ELSE GiveUp

InRange(o) ==
    CASE o.opt = "r" -> o.val <= 100
      [] o.opt = "c" -> o.val >= 2
      [] o.opt = "t" -> o.val \in 5 .. 300
      [] OTHER -> o.opt # "?"

(* A value out of range is refused even if the option is given again. *)
parse_sup_params(args) ==
    /\ program = "supervisor" /\ pc = "params"
    /\ IF /\ Given(args, "f")
          /\ \A k \in DOMAIN args : InRange(args[k])
          /\ Value(args, "o", DefaultLog) # Value(args, "f", DefaultLog)
       THEN /\ pc' = "file"
            /\ concurency_ratio' = Value(args, "r", concurency_ratio)
            /\ max_concurrent_proc' = Value(args, "c", max_concurrent_proc)
            /\ election_interval' = Value(args, "t", election_interval)
            /\ UNCHANGED <<program, proc_id, nodes, nodes_count, fixed_concurent_num, pid_arr>>
       ELSE GiveUp
-----------------------------------------------------------------------------
(* Configuration file. *)

(***************************************************************************)
(* One round of parse_file's loop: the ix-th record is that of process ix. *)
(* Only the process's own record must have a link speed for every peer.    *)
(***************************************************************************)
CountedRecord(l) == TRUE        \* faulty: a comment counts as a record

IsRecord(l) == l.record

ReadLine(p_id, prc_count, read, l) ==
    IF read.bad \/ read.ix > prc_count \/ ~IsRecord(l)
    THEN read
    ELSE IF read.ix = p_id /\ p_id > 0 /\ l.speeds < prc_count
    THEN [read EXCEPT !.bad = TRUE]
    ELSE [read EXCEPT !.nodes[read.ix] = [proc_id |-> read.ix, line |-> l], !.ix = @ + 1]

(* The array of nodes comes from calloc: a cell that is not read is zero. *)
ReadLines(p_id, file) ==
    FoldLeft(LAMBDA read, l : ReadLine(p_id, file.prc_count, read, l),
             [ix |-> 0, bad |-> FALSE,
              nodes |-> [ix \in 0 .. file.prc_count |-> [proc_id |-> 0, line |-> Comment]]],
             file.lines)

(* There are prc_count + 1 records to read; fewer than prc_count are refused. *)
parse_file(file) ==
    /\ pc = "file"
    /\ LET read == ReadLines(proc_id, file) IN
       IF read.bad \/ read.ix < file.prc_count
       THEN GiveUp
       ELSE /\ nodes' = read.nodes
            /\ nodes_count' = file.prc_count
            /\ pc' = (IF program = "supervisor" THEN "compute" ELSE "listen")
            /\ UNCHANGED <<program, proc_id, paramVars, pid_arr>>
-----------------------------------------------------------------------------
ConcurrencyNumber ==
    IF max_concurrent_proc # 0
    THEN max_concurrent_proc
    ELSE (nodes_count * concurency_ratio + 50) \div 100

Uncapped(number) == number      \* faulty: more competitors than processes

AtMostAll(number) == IF number > nodes_count THEN nodes_count ELSE number

(* main() of the supervisor: how many processes may compete. *)
ComputeConcurrency ==
    /\ pc = "compute"
    /\ IF ConcurrencyNumber < 2
       THEN GiveUp
       ELSE /\ pc' = "listen"
            /\ fixed_concurent_num' = (max_concurrent_proc # 0)
            /\ max_concurrent_proc' = AtMostAll(ConcurrencyNumber)
            /\ UNCHANGED <<program, proc_id, nodes, nodes_count, concurency_ratio,
                           election_interval, pid_arr>>

(* open_listen_socket binds the socket to the node's own address. *)
open_listen_socket ==
    /\ pc = "listen"
    /\ IF proc_id > nodes_count
       THEN GiveUp
       ELSE /\ pc' = "bound"
            /\ UNCHANGED <<program, proc_id, nodes, nodes_count, paramVars, pid_arr>>

(* fopen of the file or of the log, socket or bind fails. *)
SystemCallFails ==
    /\ pc \in {"file", "compute", "listen"}
    /\ GiveUp
-----------------------------------------------------------------------------
(***************************************************************************)
(* The election in do_work: get_random_pid draws a node from the array,    *)
(* and one that has been drawn before is drawn again.                      *)
(***************************************************************************)
concurrent_counts ==
    IF fixed_concurent_num THEN {max_concurrent_proc} ELSE 2 .. max_concurrent_proc

get_random_pid(ix) == nodes[ix].proc_id

ElectOne ==
    /\ program = "supervisor" /\ pc = "bound"
    /\ \E count \in concurrent_counts : Len(pid_arr) < count
    /\ \E ix \in 1 .. nodes_count :
          /\ get_random_pid(ix) \notin ToSet(pid_arr)
          /\ pid_arr' = Append(pid_arr, get_random_pid(ix))
    /\ UNCHANGED <<program, pc, proc_id, nodes, nodes_count, paramVars>>

StartNext ==
    \/ \E args \in PeerOptions : parse_peer_params(args)
    \/ \E args \in SupervisorOptions : parse_sup_params(args)
    \/ \E file \in Files : parse_file(file)
    \/ ComputeConcurrency
    \/ open_listen_socket
    \/ SystemCallFails
    \/ ElectOne
-----------------------------------------------------------------------------
Configured == pc \in {"listen", "bound"}

(***************************************************************************)
(* "Line number determines the proc_id": once a file has been accepted the *)
(* cells of the array hold the records of the processes with these numbers,*)
(* and a process knows the speed of its link to every peer.  The last cell *)
(* is left out: the comparison at the end of parse_file lets a file pass   *)
(* that lacks the last record.                                             *)
(***************************************************************************)
RecordsInPlace ==
    Configured =>
        /\ \A ix \in 0 .. nodes_count - 1 :
              nodes[ix].proc_id = ix /\ nodes[ix].line.record
        /\ proc_id \in 1 .. nodes_count - 1 => nodes[proc_id].line.speeds >= nodes_count

(***************************************************************************)
(* Whatever the command line and the file, the election in do_work is      *)
(* defined and comes to an end: random() % (max_concurrent_proc - 1) does  *)
(* not divide by zero, pid_arr is not larger than the arrays of the        *)
(* statistics, and there are that many processes to draw.  This is also    *)
(* what module Supervisor assumes of its constants.  get_random_pid        *)
(* "Returns a random pid in [1..nodes_count]"; it returns 0, the           *)
(* supervisor's, only for the cell of a record the file lacks.             *)
(***************************************************************************)
ElectionDefined ==
    Configured /\ program = "supervisor" =>
        /\ max_concurrent_proc >= 2
              \/ (fixed_concurent_num /\ max_concurrent_proc = nodes_count)
        /\ max_concurrent_proc <= Cardinality({nodes[ix].proc_id : ix \in 1 .. nodes_count})
        /\ \A pid \in ToSet(pid_arr) :
              \/ pid \in 1 .. nodes_count
              \/ pid = SupervisorPid /\ ~nodes[nodes_count].line.record
=============================================================================

-------------------------- MODULE MCStartupValues --------------------------
(***************************************************************************)
(* Command lines and configuration files for module Startup, at the limits *)
(* the parsers compare with.                                               *)
(***************************************************************************)
EXTENDS Naturals, Sequences

LOCAL Opt(opt, val) == [opt |-> opt, val |-> val]

(* Peers: -i and -f, one of them missing, an unknown option, a pid too large. *)
PeerLines ==
    {<<Opt("i", pid), Opt("f", 1)>> : pid \in 1 .. 4}
        \cup {<<Opt("f", 1)>>, <<Opt("i", 1)>>, <<Opt("i", 1), Opt("f", 1), Opt("?", 0)>>}

(***************************************************************************)
(* The supervisor: the defaults, a ratio, a fixed count, both; values out  *)
(* of range, also corrected later; the log on the configuration file.      *)
(***************************************************************************)
SupervisorLines ==
    {<<Opt("f", 1)>> \o more :
        more \in {<<>>, <<Opt("t", 4)>>, <<Opt("t", 5), Opt("r", 100)>>, <<Opt("o", 1)>>,
                  <<Opt("r", 101), Opt("r", 100)>>}
                 \cup {<<Opt("r", ratio)>> : ratio \in {0, 49, 50, 83, 84}}
                 \cup {<<Opt("c", count)>> : count \in 1 .. 4}}
        \cup {<<Opt("c", 2)>>}

LOCAL Node(speeds) == [record |-> TRUE, speeds |-> speeds]

LOCAL Remark == [record |-> FALSE, speeds |-> 0]

(* n peers, records for the supervisor and m of them, remarks in between. *)
LOCAL WithRecords(n, m) ==
    [prc_count |-> n, lines |-> <<Remark, Node(0)>> \o [k \in 1 .. m |-> Node(n)]]

(* Files with all their records, or too few of them to be accepted. *)
CompleteFiles ==
    {WithRecords(n, n) : n \in 0 .. 3} \cup {WithRecords(n, n + 1) : n \in 1 .. 3}
        \cup {WithRecords(3, 1)}
        \cup {[prc_count |-> 2, lines |-> <<Node(0), Remark, Node(1), Node(2), Remark>>]}

(* The same and files in which the record of the last peer is missing. *)
AllFiles == CompleteFiles \cup {WithRecords(n, n - 1) : n \in 1 .. 3}
=============================================================================

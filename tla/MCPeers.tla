------------------------------ MODULE MCPeers ------------------------------
(***************************************************************************)
(* Values of the constants of Network and Supervisor for the model checker.*)
(***************************************************************************)

(* Net: one host, several hosts, several hosts whose packets overtake. *)
OneHost == "loopback"
SeveralHosts == "fifo"
Overtaking == "udp"

(***************************************************************************)
(* OutOfBounds: the four bytes behind the nodes array read as a process    *)
(* that does not execute, or as anything.                                  *)
(***************************************************************************)
QuietBehindNodes == {FALSE}
AnyBehindNodes == BOOLEAN
=============================================================================

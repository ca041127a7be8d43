----------------------------- MODULE MCLamport ------------------------------
(* The instance of Lamport the runs check; the .cfg files give the bounds. *)
EXTENDS Lamport, MCClock
=============================================================================

------------------------------ MODULE MCRicart ------------------------------
(* The instance of Ricart the runs check; the .cfg files give the bounds. *)
EXTENDS Ricart, MCClock
=============================================================================

------------------------------ MODULE MCClock ------------------------------
(***************************************************************************)
(* Values of the constants of PeerClock for the model checker: when        *)
(* requests are stamped.  No run reaches the last of the instants.         *)
(***************************************************************************)
EXTENDS PeerClock, MCPeers

EveryInstant == SyncroInstant .. SyncroInstant + 20

(* The nanoseconds of t are those of the start, or later ones. *)
NoBorrowAt(t) == t % NsecPerSec >= SyncroInstant % NsecPerSec

(***************************************************************************)
(* No two requests are stamped in one second before and after the start's  *)
(* nanoseconds: after them in the second of the start and in every other   *)
(* from then on, before them, where a borrow is due, in those between.     *)
(***************************************************************************)
OneSideOfASecond ==
    {t \in EveryInstant :
        NoBorrowAt(t) <=> (Reading(t).sec - Reading(SyncroInstant).sec) % 2 = 0}
=============================================================================

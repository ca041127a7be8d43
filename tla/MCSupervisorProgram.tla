------------------------ MODULE MCSupervisorProgram ------------------------
(* The instance of SupervisorProgram the run checks; the .cfg file has the bounds. *)
EXTENDS SupervisorProgram

(***************************************************************************)
(* With three nanoseconds to a second: a part of a second and a second and *)
(* a part, whose averages have a rest of seconds, a carry, and a carry of  *)
(* exactly one second.                                                     *)
(***************************************************************************)
ShortAndLong == {2, 5}
=============================================================================

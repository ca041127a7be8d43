----------------------------- MODULE MCSinghal ------------------------------
(* The instances of Singhal the runs check; the .cfg files give the bounds. *)
EXTENDS Singhal, MCClock

(***************************************************************************)
(* A schedule for five competitors, the action constraint of one run: the  *)
(* lanes are emptied in this order before any other (the WANTs first, then *)
(* five of the requests), and nobody leaves while a packet is under way.   *)
(* It only leaves out behaviours: a state it reaches is one of Singhal's.  *)
(***************************************************************************)
LaneOrder ==
    << <<0, 1>>, <<0, 5>>, <<0, 2>>, <<0, 3>>, <<0, 4>>,
       <<3, 2>>, <<5, 2>>, <<4, 2>>, <<4, 3>>, <<2, 4>> >>

LanesBefore(lane) ==
    {LaneOrder[i] : i \in {i \in DOMAIN LaneOrder : \A j \in 1 .. i : LaneOrder[j] # lane}}

Scheduled ==
    /\ \A lane \in Lane :
          Len(net'[lane]) < Len(net[lane]) => \A first \in LanesBefore(lane) : net[first] = <<>>
    /\ (\E p \in Proc : exited_due'[p] < exited_due[p]) => NetEmpty
=============================================================================

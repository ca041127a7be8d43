------------------------------ MODULE MCSuzuki ------------------------------
(* The instance of Suzuki the runs check; the .cfg files give the bounds. *)
EXTENDS Suzuki, MCPeers
=============================================================================

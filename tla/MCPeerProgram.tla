--------------------------- MODULE MCPeerProgram ---------------------------
(* The instance of PeerProgram the run checks; the .cfg file has the bounds. *)
EXTENDS PeerProgram, MCStartupValues

(* What a peer may find in its socket. *)
AnyPacket == {"SYNCRO", "WANT", "PEER", "OTHER"}
=============================================================================

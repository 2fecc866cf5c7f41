----------------------------- MODULE MCPeerLink -----------------------------
(* A link on small instances.                                              *)
EXTENDS PeerLink

CONSTANT Far

MCDstOf == [s \in Sockets |-> Far]
=============================================================================

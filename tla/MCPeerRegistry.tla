---------------------------- MODULE MCPeerRegistry ----------------------------
(* Small rings: every hash function into the given positions is tried.     *)
EXTENDS PeerRegistry
=============================================================================

------------------------------- MODULE MCPeer ---------------------------------
(* The mock peer under four requests: two at a time, one per two ticks.    *)
EXTENDS Peer
=============================================================================

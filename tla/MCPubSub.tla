------------------------------ MODULE MCPubSub ------------------------------
(* A small instance of PubSub. *)
EXTENDS PubSub
=============================================================================

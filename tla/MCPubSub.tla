------------------------------ MODULE MCPubSub ------------------------------
(***************************************************************************)
(* Instance of PubSub for TLC: handlers are model values.  No symmetry,    *)
(* since the run checks liveness.                                          *)
(***************************************************************************)
EXTENDS PubSub
=============================================================================

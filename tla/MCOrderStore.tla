---------------------------- MODULE MCOrderStore ----------------------------
(***************************************************************************)
(* Instance of OrderStore.                                                 *)
(***************************************************************************)
EXTENDS OrderStore
=============================================================================

------------------------- MODULE MCWebSocketManager -------------------------
(***************************************************************************)
(* Instances of WebSocketManager for TLC.  Clients and orders are model    *)
(* values; the clients are interchangeable in the safety runs, and so are  *)
(* the orders.                                                             *)
(***************************************************************************)
EXTENDS WebSocketManager, TLC

SocketSymmetry == Permutations(Clients) \cup Permutations(Orders)
=============================================================================

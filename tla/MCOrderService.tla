--------------------------- MODULE MCOrderService ---------------------------
(***************************************************************************)
(* Instance of OrderService for TLC: executions and clients are model      *)
(* values.  No symmetry, since the run checks liveness.                    *)
(***************************************************************************)
EXTENDS OrderService
=============================================================================

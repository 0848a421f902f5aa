--------------------------- MODULE MCOrderRouting ---------------------------
(***************************************************************************)
(* Instance of OrderRouting: amounts below, between, at and above the      *)
(* lots at which the price impact of the two fetchers reaches its cap.     *)
(***************************************************************************)
EXTENDS OrderRouting

MCLots == {1, 49, 50, 51, 66, 67, 100}
=============================================================================

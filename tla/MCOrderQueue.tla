---------------------------- MODULE MCOrderQueue ----------------------------
(***************************************************************************)
(* Instances of OrderQueue for TLC.  Job ids are model values; the jobs are  *)
(* interchangeable, so the safety runs use symmetry.                       *)
(***************************************************************************)
EXTENDS OrderQueue, TLC

NoManagerCalls  == {}
AllManagerCalls == {"removeJob", "resetCircuitBreaker"}

AllPriorities   == Priorities
TwoPriorities   == {"normal", "high"}

JobSymmetry == Permutations(Jobs)
=============================================================================

------------------------- MODULE MCExecutionEngine -------------------------
(***************************************************************************)
(* Instances of ExecutionEngine for TLC.  Executions are model values and  *)
(* interchangeable, so the safety runs use symmetry.                       *)
(***************************************************************************)
EXTENDS ExecutionEngine, TLC

ExecutionSymmetry == Permutations(Executions)
=============================================================================

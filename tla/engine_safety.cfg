SPECIFICATION Spec
CONSTANTS
  Executions = {e1, e2, e3, e4}
  Durations = {1, 3}
  ListenerMayThrow = FALSE
  ResetAllowed = FALSE
SYMMETRY ExecutionSymmetry
INVARIANTS CountersAgree DistributionDriftsOnlyByConfirmations
           ListingsAgree AverageWithinLongest
CHECK_DEADLOCK FALSE

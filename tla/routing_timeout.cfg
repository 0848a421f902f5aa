SPECIFICATION Spec
CONSTANT
  Lots <- MCLots
INVARIANT TimeoutsAreRetried
CHECK_DEADLOCK FALSE

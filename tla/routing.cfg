SPECIFICATION FairSpec
CONSTANT
  Lots <- MCLots
INVARIANTS
  RetriesUntilExhausted
  DelaysGrowWithinTheCap
  RoutesToTheBestAnswer
PROPERTY RetryEnds
CHECK_DEADLOCK FALSE

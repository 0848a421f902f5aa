SPECIFICATION FairSpec
CONSTANTS
  Callers = {c1, c2}
  PoolSize = 2
  MaxAttempt = 3
  MayBlockItself = FALSE
INVARIANTS ClientsAccounted LocksEndWithTransactions IncrementsAreNeverLost
PROPERTY CallsEnd

SPECIFICATION FairSpec
CONSTANTS
  Jobs = {j1, j2}
  MaxConcurrentJobs = 1
  MaxRetries = 2
  CircuitBreakerThreshold = 50
  SubmittedPriorities <- AllPriorities
  ManagerCalls <- AllManagerCalls
  ListenerMayThrow = TRUE
  MaxRetryTimers = 1
INVARIANTS PlacementMatchesState RetryBudget StatsAccountForJobs
PROPERTIES SettledIsFinal SubmittedJobsSettle

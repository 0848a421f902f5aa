SPECIFICATION Spec
CONSTANTS
  Jobs = {j1, j2, j3}
  MaxConcurrentJobs = 1
  MaxRetries = 1
  CircuitBreakerThreshold = 50
  SubmittedPriorities <- AllPriorities
  ManagerCalls <- NoManagerCalls
  ListenerMayThrow = FALSE
  MaxRetryTimers = 1
INVARIANT BreakerOpensOnFailureRate

SPECIFICATION Spec
CONSTANTS
  Jobs = {j1, j2, j3}
  MaxConcurrentJobs = 2
  MaxRetries = 1
  CircuitBreakerThreshold = 50
  SubmittedPriorities <- TwoPriorities
  ManagerCalls <- NoManagerCalls
  ListenerMayThrow = FALSE
  MaxRetryTimers = 1
SYMMETRY JobSymmetry
INVARIANTS SlotsMatchExecutions ConcurrencyLimit FirstComeFirstServed
PROPERTIES OneFailureStopsAdmission ImplementsJobLifecycle

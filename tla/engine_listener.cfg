SPECIFICATION FairSpec
CONSTANTS
  Executions = {e1, e2}
  Durations = {1}
  ListenerMayThrow = TRUE
  ResetAllowed = TRUE
INVARIANTS EventsFollowThePipeline ListenersKnowTheState
PROPERTIES SettledOrderIsFinal ExecutionsEnd

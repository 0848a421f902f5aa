SPECIFICATION Spec
CONSTANTS
  Executions = {e1}
  Clients = {c1}
  Durations = {0}
  MaxSubscriptionsPerClient = 1
  PingMayThrow = FALSE
  MaxSequence = 0
INVARIANT OrdersAreFound
CHECK_DEADLOCK FALSE

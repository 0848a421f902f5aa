SPECIFICATION FairSpec
CONSTANTS
  Executions = {e1, e2}
  Clients = {c1, c2}
  Durations = {0}
  MaxSubscriptionsPerClient = 1
  PingMayThrow = FALSE
  MaxSequence = 0
INVARIANTS NothingMissedSinceSubscribing SubscribersKnowTheState
PROPERTIES SubscribersHearTheOutcome SilentClientsAreDropped
CHECK_DEADLOCK FALSE

SPECIFICATION Spec
CONSTANTS
  Clients = {c1, c2, c3}
  Orders = {o1, o2}
  MaxSubscriptionsPerClient = 1
  PingMayThrow = TRUE
  ResetAllowed = TRUE
  MaxSequence = 2
SYMMETRY SocketSymmetry
INVARIANTS SubscriptionIndexesAgree StatsMatchSessions
           ClientsAreWatched
PROPERTIES DroppedStaysOut NumbersGrow
CHECK_DEADLOCK FALSE

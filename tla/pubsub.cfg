SPECIFICATION FairSpec
CONSTANTS
  Handlers = {h1, h2, h3}
  RedisMayFail = TRUE
  HandlersMayThrow = TRUE
  MaxMessages = 1
  MaxListeners = 2
INVARIANTS OpenChannelIsReached SubscribersAreRegistered MissedOnlyIfCutOff PassedOnce
PROPERTIES CallsEnd

CONSTANTS
  Attempts <- MCAttempts
  MaxIndex = 8
  KeepAlive = KeepAlive
  SseError = SseError
  JsonError = JsonError
  Cut = Cut
  HeartbeatOn = FALSE
  MaxKeepAlives = 1
  UpstreamEvents <- AllInputs
  MaxEvents = 3
SPECIFICATION FairSpec
INVARIANT OneWellFormedMessage
INVARIANT ConcludedOnce
INVARIANT VisibleOutputDelivered
CHECK_DEADLOCK FALSE

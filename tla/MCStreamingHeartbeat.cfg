CONSTANTS
  Attempts <- MCAttempts
  MaxIndex = 5
  KeepAlive = KeepAlive
  SseError = SseError
  JsonError = JsonError
  Cut = Cut
  HeartbeatOn = TRUE
  MaxKeepAlives = 1
  UpstreamEvents <- FewInputs
  MaxEvents = 2
SPECIFICATION FairSpec
INVARIANT NoThinkingOnlyMessage
INVARIANT HeartbeatThroughout
PROPERTY UsesSession
PROPERTY RequestEnds
CHECK_DEADLOCK FALSE

CONSTANTS
  Payload = {p1, p2, p3}
  KeepAlive = KeepAlive
  SseError = SseError
  JsonError = JsonError
  Cut = Cut
  HeartbeatOn = TRUE
  MaxKeepAlives = 2
SPECIFICATION MCSpec
INVARIANT TypeOK
INVARIANT FramingMatchesHeader
INVARIANT DeliveredInOrder
INVARIANT StopJoinsHeartbeat
PROPERTY ImplementsResponse
PROPERTY IdleClientIsKeptAlive
CHECK_DEADLOCK FALSE

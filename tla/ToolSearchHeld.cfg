CONSTANTS
  Attempts = {1, 2}
  MaxIndex = 11
  Tool = {t1}
  MaxRounds = 3
  UpstreamEvents <- MCUpstreamEvents
  MaxResults = 1
  MaxCredits = 1
  MaxEvents = 2
SPECIFICATION Spec
INVARIANT HeldTextComesOut
CHECK_DEADLOCK FALSE

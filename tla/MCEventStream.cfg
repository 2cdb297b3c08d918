CONSTANT MaxFrames = 3
SPECIFICATION FairSpec
INVARIANT ToolCallsAsMeant
INVARIANT CleanEndLosesNothing
INVARIANT StopIsFinal
PROPERTY ReturnsWithoutReader
CHECK_DEADLOCK FALSE

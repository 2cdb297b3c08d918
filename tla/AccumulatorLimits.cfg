CONSTANTS
  Char <- MCChar
  OpenTag <- MCOpenTag
  CloseTag <- MCCloseTag
  Thought = "think"
  RunesPerToken = 2
  Rounded <- MCRounded
  Requests <- MCRequests
  Sends <- MCSends
  TextLength = 5
  OtherEvents = 1
SPECIFICATION AccSpec
INVARIANT LimitsEnforced
CHECK_DEADLOCK FALSE

CONSTANTS
  Char <- MCChar
  OpenTag <- MCOpenTag
  CloseTag <- MCCloseTag
  Thought = "think"
  RunesPerToken = 2
  Rounded <- MCRounded
  Requests <- MCRequests
  Sends <- MCSends
  TextLength = 4
  OtherEvents = 0
SPECIFICATION AccSpec
INVARIANT OverlapIsLongest
CHECK_DEADLOCK FALSE

CONSTANTS
  Foreign <- MCForeign
  Client <- MCClient
  Environment <- MCEnvironment
  Said <- MCSaid
  Asked <- MCAsked
  Flags <- MCFlags
  MaxMessages <- MCMaxMessages
  Char <- MCChar
  OpenTag <- MCOpenTag
  CloseTag <- MCCloseTag
  Thought = "think"
  RunesPerToken = 2
  Rounded <- MCRounded
  Requests <- MCRequests
  Sends <- MCSends
  TextLength = 5
  OtherEvents = 3
SPECIFICATION TranslationSpec
INVARIANT TurnsAlternate
INVARIANT ResultsFollowCalls
INVARIANT NothingIsLost
INVARIANT HistoryIsStable
INVARIANT EffortIsHonoured
INVARIANT DeltaIsShortest
INVARIANT ChunksAreInvisible
INVARIANT StopSequencesFound
INVARIANT BudgetCounts
INVARIANT ReportedAsHeard
PROPERTY EchoKeepsModel
CHECK_DEADLOCK FALSE

CONSTANTS
  Attempts = {1, 2}
  MaxIndex = 11
  Tool = {t1, t2}
  MaxRounds = 3
  UpstreamEvents <- MCUpstreamEvents
  MaxResults = 2
  MaxCredits = 1
  MaxEvents = 2
SPECIFICATION Spec
INVARIANT FoundToolsAreOffered
INVARIANT RoundsMakeOneMessage
INVARIANT AnsweredOnce
INVARIANT CreditsSummed
CHECK_DEADLOCK FALSE

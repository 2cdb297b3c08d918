CONSTANTS
  Caller = {c1, c2}
  MaxIssued = 3
SPECIFICATION FairAuthSpec
INVARIANT ReturnsValidCredentials
PROPERTY RefreshesOnlyWithoutToken
PROPERTY WaitersAnswered

CONSTANTS
  Caller = {c1, c2}
  Client = {c1}
  MaxIssued = 2
  MaxAttempts = 3
SPECIFICATION Spec
INVARIANT BodiesClosed
INVARIANT RetriesSendValidToken
INVARIANT PersistsWhileTransient
INVARIANT CancelledNeverWaits
PROPERTY UsesAuth

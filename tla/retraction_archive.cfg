SPECIFICATION FairArchive
CONSTANTS
  Messages = {m1, m2}
  Metas = {t1, t2}
  MaxAttempts = 2
  MaxRequests = 2
  MaxCrashes = 1
INVARIANT StaysRemoved
PROPERTY OthersUntouched
PROPERTY ArchivedInPlace
PROPERTY Drained
CHECK_DEADLOCK FALSE

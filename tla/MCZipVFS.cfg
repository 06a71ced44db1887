SPECIFICATION FairSpec
CONSTANTS
  Request = {r1, r2}
  Expiration = 1
  RefreshInterval = 1
  OpenTimeout = 1
  Files = 1
  MaxTime = 3
  MaxArchives = 3
INVARIANTS OncePerExpiration AddSucceeds NoCorruptedArchive NothingGoneIsCounted
PROPERTY RootReturns
CHECK_DEADLOCK FALSE

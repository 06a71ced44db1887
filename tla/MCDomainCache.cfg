SPECIFICATION FairSpec
CONSTANTS
  Client = {c1, c2}
  Domain = {d1}
  RefreshTimeout = 0
  ExpirationTimeout = 1
  RetrievalTimeout = 0
  DisableRefreshTemporaryError = FALSE
  MaxTime = 2
  MaxEntries = 3
INVARIANTS
  MissOncePerExpiry
PROPERTIES
  ReachableResponseStable
  WaitersAnswered
  RefreshPublishes
  ImplementsSource
CHECK_DEADLOCK FALSE

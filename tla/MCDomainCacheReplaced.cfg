SPECIFICATION Spec
CONSTANTS
  Client = {c1}
  Domain = {d1}
  RefreshTimeout = 1
  ExpirationTimeout = 2
  RetrievalTimeout = 1
  DisableRefreshTemporaryError = FALSE
  MaxTime = 4
  MaxEntries = 3
PROPERTIES
  SuccessNotReplacedByError
CHECK_DEADLOCK FALSE

SPECIFICATION FairSpec
CONSTANTS
  RetrievalTimeout = 4
  MaxRetrievalInterval = 1
  MaxRetrievalRetries = 3
  MaxTime = 9
INVARIANT FailureJustified
PROPERTIES WorkerEndsUnlessTimeout KeepsPromise
CHECK_DEADLOCK FALSE

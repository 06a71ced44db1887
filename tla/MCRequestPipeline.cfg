SPECIFICATION Spec
CONSTANTS
  None = None
  Request <- MCRequest
  Config <- MCConfig
  World <- MCWorld
  MaxChanges = 1
INVARIANTS
  AnsweredOnce
  CheckedBeforeServed
  MissingLikeForbidden
PROPERTIES
  Answered
CHECK_DEADLOCK FALSE

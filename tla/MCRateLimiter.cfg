SPECIFICATION Spec
CONSTANTS
  None = None
  r1 = r1
  r2 = r2
  a = a
  b = b
  ip = ip
  Request <- MCRequest
  Key <- MCKey
  Burst <- MCBurst
  Limited <- MCLimited
  Enforce <- MCEnforce
  Duration = 1
  MaxSize = 1
  MaxTime = 2
  MaxBuckets <- MCBuckets
SYMMETRY MCSymmetry
INVARIANTS
  AdmitBound
PROPERTIES
  WaitedIsAdmitted
CHECK_DEADLOCK FALSE

SPECIFICATION Spec
CONSTANTS
  None = None
  stored = stored
  deflated = deflated
  h1 = h1
  h2 = h2
  d1 = d1
  d2 = d2
  Handle <- MCHandle
  Size <- MCSize
  MaxUrl = 2
  Entry <- MCEntry
  Header <- MCHeader
  Data <- MCData
  Length <- MCLength
  Method <- MCMethod
  Deflater <- MCDeflater
SYMMETRY MCSymmetry
INVARIANTS
  GaugeExact
  OneObjectPerFile
  RefusedOnlyIfChanged
  OneHolder
  NoBodyLeaks
  ReadsItsRange
CHECK_DEADLOCK FALSE

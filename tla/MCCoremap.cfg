CONSTANTS
  coremapSize = 4
  MaxRun = 4
  Handles = {h1, h2}
  AddrSpaces = {a1, a2}
  NULL = NULL
SPECIFICATION Spec
SYMMETRY Symmetry
INVARIANTS
  TypeOK
  OwnersMatch
  ScanIsFirstFit

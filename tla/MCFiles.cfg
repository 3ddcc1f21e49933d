SPECIFICATION Spec
CONSTANTS
  NULL = NULL
  Procs = {p1, p2}
  Names = {f1, f2}
  STDERR_FILENO = 2
  OPEN_MAX = 5
  SYSTEM_OPEN_MAX = 3
  MaxOffset = 1
  MaxOpens = 3
SYMMETRY MCSymmetry
CONSTRAINT NotRaced
INVARIANTS
  DescriptorsOpen
  ProgramView

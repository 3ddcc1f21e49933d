CONSTANTS
  PAGE_SIZE = 4
  USERSTACK = 32
  STACKPAGES = 1
  Programs <- SizedPrograms
SPECIFICATION Spec
CHECK_DEADLOCK FALSE
INVARIANTS
  FaultFindsPage
  FileBytesLoaded

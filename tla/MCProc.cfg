CONSTANTS
  p1 = p1
  p2 = p2
  p3 = p3
  kproc = kproc
  NULL = NULL
  Procs = {kproc, p1, p2, p3}
  MAX_PROC = 4
  Statuses = {300}
  OPT_FORK = TRUE
SPECIFICATION FairSpec
INVARIANTS
  PidsMatch
  OnlyReference
PROPERTY
  WaitReturns

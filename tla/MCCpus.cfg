CONSTANTS
  t0 = t0
  t1 = t1
  t2 = t2
  t3 = t3
  numcpus = 2
  Threads = {t0, t1, t2, t3}
  bootThread <- Boot2
SPECIFICATION FairSpec
INVARIANTS
  OnePlace
  OneStack
  VictimsThere
  NoWorkIgnored
PROPERTIES
  RunnableRuns
CHECK_DEADLOCK FALSE

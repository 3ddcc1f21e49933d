CONSTANTS
  t1 = t1
  t2 = t2
  t3 = t3
  boot = t1
  NULL = NULL
  Threads = {t1, t2, t3}
SPECIFICATION FairSpec
INVARIANTS
  OnePlace
  LockExcludes
  NoLostWakeup
PROPERTIES
  IsMonitor
  LockHandedOn

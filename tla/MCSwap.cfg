CONSTANTS
  t1 = t1
  t2 = t2
  p1 = p1
  p2 = p2
  p3 = p3
  NSlots = 2
  PAGE_SIZE = 4096
  Threads = {t1, t2}
  NoThread = NoThread
  Contents = {c1, c2}
  Pages = {p1, p2, p3}
  Owner <- TwoOwners
SPECIFICATION FairSpec
INVARIANTS
  UsedCountsSlots
  SwappedPagesSafe
  NoSlotLost
PROPERTY LockGivenBack

CONSTANTS
  p1 = p1
  p2 = p2
  kproc = kproc
  NULL = NULL
  NoThread = NoThread
  AddrSpaces = {p1}
  Threads = {p1, kproc}
  coremapSize = 4
  NSlots = 2
  PAGE_SIZE = 4
  NUM_TLB = 1
  Text = {1}
  Data = {2}
  Bss = {3}
  Stack = {}
  VPages = {1, 2, 3}
  firstpaddr = 10
  PFrames = {10, 11, 12, 13}
  Writes = {"w"}
  Contents = {"elf", "zero", "w"}
  MaxKPages = 2
  MaxCreated = 2
  OPT_FORK = FALSE
  DiskErrors = TRUE
SPECIFICATION FairSpec
INVARIANTS
  OneHolderPerFrame
  OneHolderPerSlot
PROPERTIES
  IsVirtualMemory
  FaultServed
  ExitReaped

CONSTANTS
  p1 = p1
  p2 = p2
  kproc = kproc
  NULL = NULL
  NoThread = NoThread
  AddrSpaces = {p1, p2}
  Threads = {p1, p2, kproc}
  coremapSize = 5
  NSlots = 2
  PAGE_SIZE = 4
  NUM_TLB = 1
  Text = {1}
  Data = {}
  Bss = {}
  Stack = {2}
  VPages = {1, 2}
  firstpaddr = 10
  PFrames = {10, 11, 12, 13, 14}
  Writes = {"w"}
  Contents = {"elf", "zero", "w"}
  MaxKPages = 0
  MaxCreated = 3
  OPT_FORK = TRUE
  DiskErrors = FALSE
SYMMETRY Symmetry
SPECIFICATION Spec
INVARIANTS
  OneHolderPerFrame
  OneHolderPerSlot
  TlbCoherent
  SleepNeedsTransfer
PROPERTY
  IsVirtualMemory

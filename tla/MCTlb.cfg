CONSTANTS
  NUM_TLB = 2
  v1 = v1
  v2 = v2
  v3 = v3
  f1 = f1
  f2 = f2
  a1 = a1
  a2 = a2
  VPages = {v1, v2, v3}
  ReadOnly = {v1}
  PFrames = {f1, f2}
  AddrSpaces = {a1, a2}
  NULL = NULL
SYMMETRY Symmetry
SPECIFICATION TlbSpec
INVARIANTS
  NoDuplicates
  Coherent

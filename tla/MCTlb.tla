------------------------------- MODULE MCTlb --------------------------------
EXTENDS TlbClients, TLC

CONSTANTS v1, v2, v3, f1, f2, a1, a2

Symmetry ==
  Permutations(VPages \ ReadOnly) \cup Permutations(PFrames)
    \cup Permutations(AddrSpaces)

=============================================================================

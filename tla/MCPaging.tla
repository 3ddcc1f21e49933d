------------------------------ MODULE MCPaging ------------------------------
EXTENDS Paging, TLC

CONSTANTS p1, p2

\* The processes are interchangeable; kproc is not one of them.
Symmetry == Permutations(AddrSpaces)

=============================================================================

------------------------------- MODULE MCProc -------------------------------
(***************************************************************************)
(* Small instances of Proc.                                                *)
(***************************************************************************)
EXTENDS Proc, TLC

CONSTANTS p1, p2, p3

Symmetry == Permutations({p1, p2, p3})
=============================================================================

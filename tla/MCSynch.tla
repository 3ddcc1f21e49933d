------------------------------ MODULE MCSynch -------------------------------
(***************************************************************************)
(* A small instance of Synch.                                              *)
(***************************************************************************)
EXTENDS Synch

CONSTANTS t1, t2, t3

=============================================================================

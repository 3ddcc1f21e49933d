------------------------------- MODULE MCCpus -------------------------------
(***************************************************************************)
(* Small instances of Cpus.                                                *)
(***************************************************************************)
EXTENDS Cpus

CONSTANTS t0, t1, t2, t3

Boot2 == [c \in 0 .. 1 |-> IF c = 0 THEN t0 ELSE t1]

=============================================================================

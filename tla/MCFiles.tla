------------------------------ MODULE MCFiles -------------------------------
(***************************************************************************)
(* The file system calls of processes that share systemFileTable, for TLC. *)
(***************************************************************************)
EXTENDS Files, TLC

\* Processes are interchangeable, and so are files.
MCSymmetry == Permutations(Procs) \cup Permutations(Names)

\* No property says anything once two calls of sys_open have claimed one entry.
NotRaced == ~raced
=============================================================================

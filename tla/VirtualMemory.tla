---------------------------- MODULE VirtualMemory ----------------------------
(***************************************************************************)
(* What the paging system promises to user programs: each process has a    *)
(* memory of its own, and a page changes only when the process itself, in  *)
(* user mode, writes to it.                                                *)
(* Where a page is kept (frame, swap file, executable) is not visible.     *)
(*                                                                         *)
(* The promise ends (sound = FALSE) when the kernel panics, hangs, or runs *)
(* on after one of the failures that module Paging lists.                  *)
(***************************************************************************)
CONSTANTS
  Procs,         \* the processes
  Pages,         \* the pages of a program
  Text,          \* the pages of read-only segments
  Initial,       \* Initial[v]: what page v of a new process holds
  Undefined,     \* Initial[v] of a page whose contents are not determined
  NoMemory,      \* the memory of a process that does not run
  Contents       \* what a page can hold

VARIABLES
  mem,           \* mem[p][v]: what p reads from page v, or mem[p] = NoMemory
  user,          \* the process that runs in user mode, if one does
  sound

vars == <<mem, user, sound>>

Init ==
  /\ mem = [p \in Procs |-> NoMemory]
  /\ user \notin Procs
  /\ sound = TRUE

\* The program itself writes to a page of a writable segment.
Write(p, v) ==
  /\ user = p /\ user' = p
  /\ v \notin Text
  /\ \E c \in Contents : mem' = [mem EXCEPT ![p][v] = c]

\* What the kernel does to the memory of a process: nothing, but for these.
Start(p) ==
  /\ mem[p] = NoMemory
  /\ mem' = [mem EXCEPT ![p] = Initial]

\* The first access settles what an undetermined page holds.
Touch(p, v) ==
  /\ mem[p] # NoMemory /\ mem[p][v] = Undefined
  /\ \E c \in Contents : mem' = [mem EXCEPT ![p][v] = c]

Fork(p, child) ==
  /\ mem[p] # NoMemory /\ mem[child] = NoMemory
  /\ mem' = [mem EXCEPT ![child] = mem[p]]

Exit(p) ==
  /\ user = p
  /\ mem' = [mem EXCEPT ![p] = NoMemory]

Kernel ==
  \/ UNCHANGED mem
  \/ \E p \in Procs : Start(p) \/ Exit(p) \/ \E v \in Pages : Touch(p, v)
  \/ \E p, child \in Procs : Fork(p, child)

Next ==
  \/ sound' = FALSE
  \/ sound /\ sound' /\ (Kernel \/ \E p \in Procs, v \in Pages : Write(p, v))

Spec == Init /\ [][Next]_vars

=============================================================================

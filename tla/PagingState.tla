---------------------------- MODULE PagingState ----------------------------
(***************************************************************************)
(* The state of demand paging: page tables, the frames and slots pages are *)
(* in, and the threads that work on them.  Module Paging has the steps.    *)
(***************************************************************************)
EXTENDS Coremap, Swapfile, Tlb

CONSTANTS
  kproc,         \* the thread of the kernel menu
  Text, Data, Bss, Stack,   \* the pages of a program, by kind
  Writes,        \* what a program writes to a page
  firstpaddr,    \* the page number of frame 0
  MaxKPages,     \* bound: pages the kernel heap holds at a time
  MaxCreated,    \* bound: processes created in all
  OPT_FORK,      \* the configuration option fork
  DiskErrors     \* whether a transfer from or to a disk may fail

Pages == Text \cup Data \cup Bss \cup Stack

\* Slot numbers and physical addresses share the field paddr of a page table
\* entry; the kernel image lies below firstpaddr and is larger than NSlots.
ASSUME PagingAssumption ==
  /\ Threads = AddrSpaces \cup {kproc} /\ kproc \notin AddrSpaces \cup {NULL}
  /\ NULL \notin Nat \cup [Pages -> Contents \cup {"undefined"}]
  /\ Pages = VPages /\ Pages \subseteq Nat \ {0}
  /\ \A v \in Pages : /\ v \in Text => v \notin Data \cup Bss \cup Stack
                      /\ v \in Data => v \notin Bss \cup Stack
                      /\ v \in Bss => v \notin Stack
  /\ MaxCreated \in Nat
  /\ firstpaddr \in Nat /\ NSlots < firstpaddr
  /\ PFrames = firstpaddr .. firstpaddr + coremapSize - 1
  /\ Contents = {"elf", "zero"} \cup Writes

VARIABLES
  pt,            \* pt[as][v]: the page table entry of page v
  as_pt,         \* as_pt[as]: the frame the page table is in
  t_stack,       \* t_stack[as]: the frame of the thread's kernel stack
  heap,          \* the other frames alloc_kpages gave to the kernel
  ram,           \* ram[f]: what frame f holds
  th,            \* th[t]: where thread t is, and its local variables
  curthread,     \* the thread that has the CPU
  zombies,       \* exited threads whose stack is still to be freed
  created,       \* processes created so far
  garbled,       \* as_copy read a slot it was not given
  status         \* "running", or why the machine stopped

memVars == <<coremapVars, swapVars, tlbVars, ram>>
procVars == <<pt, as_pt, t_stack, heap, zombies, created, garbled>>
vars == <<memVars, procVars, th, curthread, status>>

PtEntry == [paddr : Slots \cup {0} \cup PFrames, in_mem : BOOLEAN, in_swap : BOOLEAN]
NoPage == [paddr |-> 0, in_mem |-> FALSE, in_swap |-> FALSE]
Resident(f) == [paddr |-> firstpaddr + f, in_mem |-> TRUE, in_swap |-> FALSE]
Swapped(s) == [paddr |-> s, in_mem |-> FALSE, in_swap |-> TRUE]

\* th[t].as is the address space the kernel works on for t: its own in a page
\* fault, the child's in as_copy, the dead one's in proc_wait.
At(pc, as, i) == [pc |-> pc, as |-> as, i |-> i, frame |-> 0, slot |-> 0]
Nowhere(pc) == At(pc, NULL, 0)

\* Thread t has the CPU and is at pc.
On(t, pc) == status = "running" /\ curthread = t /\ th[t].pc = pc

\* proc_getas() # NULL.  A thread that exits leaves its process first.
Ended == {"exiting", "exited"}
HasAs(t) == t \in AddrSpaces /\ th[t].pc \notin {"none", "new", "leaving"} \cup Ended

Running == status = "running"

\* While a process has the CPU the TLB translates only pages that its page
\* table has in memory, to the same frame, as writable only where allowed:
\* evictions, context switches and as_copy leave no stale entry behind.
TlbCoherent ==
  Running /\ HasAs(curthread) =>
    \A k \in Entries : tlb[k].valid =>
      /\ pt[curthread][tlb[k].vpage].in_mem
      /\ pt[curthread][tlb[k].vpage].paddr = tlb[k].ppage
      /\ tlb[k].dirty <=> tlb[k].vpage \notin Text

\* What page v of process p holds, wherever it is kept.
held(p, v) ==
  CASE pt[p][v].in_swap -> disk[pt[p][v].paddr]
    [] pt[p][v].in_mem -> ram[pt[p][v].paddr - firstpaddr]
    [] ~pt[p][v].in_swap /\ ~pt[p][v].in_mem ->
         IF v \in Bss THEN "undefined" ELSE IF v \in Stack THEN "zero" ELSE "elf"

=============================================================================

----------------------------- MODULE TlbClients -----------------------------
(***************************************************************************)
(* The TLB with the page tables behind it.  A page fault is several steps: *)
(* the miss, the eviction of another page, the page brought in, and the    *)
(* load of the TLB entry.  The thread may sleep before each (in getPages,  *)
(* swap_in, load_segment, or for a lock) or be preempted, so that context  *)
(* switches, faults of other processes and as_destroy come in between.     *)
(***************************************************************************)
EXTENDS Tlb, FiniteSets

CONSTANTS
  AddrSpaces,
  NULL,          \* the address space of a kernel thread
  ReadOnly       \* the pages of segments that may not be written

ASSUME TlbClientsAssumption ==
  NULL \notin AddrSpaces /\ NULL \notin PFrames /\ NULL \notin VPages

VARIABLES
  current,       \* the address space of the running thread's process
  ptPaddr,       \* ptPaddr[as][v]: the frame of page v, NULL if not in memory
  faulting       \* faulting[as]: the page its thread is in vm_fault for, or NULL

tlbClientsVars == <<tlbVars, current, ptPaddr, faulting>>

TlbInit ==
  /\ tlb_reset
  /\ current = NULL
  /\ ptPaddr = [as \in AddrSpaces |-> [v \in VPages |-> NULL]]
  /\ faulting = [as \in AddrSpaces |-> NULL]

-----------------------------------------------------------------------------
\* vm_fault.  The running process touches a page the TLB has no entry for.
vm_fault(v) ==
  /\ current \in AddrSpaces
  /\ faulting[current] = NULL
  /\ tlb_probe(v) = {}
  /\ faulting' = [faulting EXCEPT ![current] = v]
  /\ UNCHANGED <<tlbVars, current, ptPaddr>>

\* The running thread is in vm_fault for page v.
InFault(v) == current \in AddrSpaces /\ v \in VPages /\ faulting[current] = v

\* getPage, when memory is full, takes the frame of page w of the address space
\* that faulted.
evict(w) ==
  /\ \E v \in VPages : InFault(v) /\ ptPaddr[current][v] = NULL
  /\ ptPaddr[current][w] # NULL
  /\ ptPaddr' = [ptPaddr EXCEPT ![current][w] = NULL]
  /\ tlb_invalidate_vaddr(w)
  /\ UNCHANGED <<current, faulting>>

\* The page has been read from the swap file or the executable, or zeroed.
bringIn(v, p) ==
  /\ InFault(v)
  /\ ptPaddr[current][v] = NULL
  /\ ptPaddr' = [ptPaddr EXCEPT ![current][v] = p]
  /\ UNCHANGED <<tlbVars, current, faulting>>

\* tlb_loadentry, with what the page table says now, and the return to the
\* program.
vm_fault_end(v) ==
  /\ InFault(v)
  /\ ptPaddr[current][v] # NULL
  /\ tlb_loadentry(v, ptPaddr[current][v], v \in ReadOnly)
  /\ faulting' = [faulting EXCEPT ![current] = NULL]
  /\ UNCHANGED <<current, ptPaddr>>

-----------------------------------------------------------------------------
\* as_activate, at the end of every context switch, to a thread that may be in
\* the middle of a fault, and in runprogram: the TLB is left alone when the new
\* thread has no address space.
as_activate_resumes(as) ==
  /\ current' = as
  /\ IF as = NULL \/ faulting[as] # NULL THEN UNCHANGED tlbVars ELSE tlb_invalidate
  /\ UNCHANGED <<ptPaddr, faulting>>

as_activate(as) ==
  /\ current' = as
  /\ IF as = NULL THEN UNCHANGED tlbVars ELSE tlb_invalidate
  /\ UNCHANGED <<ptPaddr, faulting>>

\* as_destroy of a process that ended; TLB entries for it may still be there.
as_destroy(as) ==
  /\ current # as
  /\ faulting[as] = NULL
  /\ ptPaddr' = [ptPaddr EXCEPT ![as] = [v \in VPages |-> NULL]]
  /\ UNCHANGED <<tlbVars, current, faulting>>

TlbNext ==
  \/ \E v \in VPages : vm_fault(v) \/ vm_fault_end(v) \/ evict(v)
  \/ \E v \in VPages, p \in PFrames : bringIn(v, p)
  \/ \E as \in AddrSpaces \cup {NULL} : as_activate(as)
  \/ \E as \in AddrSpaces : as_destroy(as)

TlbSpec == TlbInit /\ [][TlbNext]_tlbClientsVars

-----------------------------------------------------------------------------

\* The entries, the flag and the round robin index of vm_tlb.c are in range.
TlbClientsTypeOK ==
  /\ TlbTypeOK
  /\ current \in AddrSpaces \cup {NULL}
  /\ ptPaddr \in [AddrSpaces -> [VPages -> PFrames \cup {NULL}]]
  /\ faulting \in [AddrSpaces -> VPages \cup {NULL}]

\* The types, and: tlb_loadentry, which does not probe, never leaves two entries
\* for one page (the MIPS processor's behaviour would be undefined), although
\* other processes, with the same pages, loaded entries since the miss, and
\* tlb_full and the round robin victim ignore which entries are valid.  So
\* tlb_invalidate_vaddr, which clears one entry, clears them all.
NoDuplicates ==
  /\ TlbClientsTypeOK
  /\ \A j, k \in Entries :
       tlb[j].valid /\ tlb[k].valid /\ tlb[j].vpage = tlb[k].vpage => j = k

\* While a user process runs, what the TLB translates its page table
\* translates to the same frame, and only pages of writable segments are
\* writable: no entry survives an eviction or a change of address space.
Coherent ==
  \A k \in Entries : current \in AddrSpaces /\ tlb[k].valid =>
    /\ ptPaddr[current][tlb[k].vpage] = tlb[k].ppage
    /\ tlb[k].dirty <=> tlb[k].vpage \notin ReadOnly

=============================================================================

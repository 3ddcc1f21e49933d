------------------------------- MODULE Paging -------------------------------
(***************************************************************************)
(* Demand paging as a whole: vm_fault and the address space operations of  *)
(* kern/vm/addrspace.c over the coremap, the swap file and the TLB, driven *)
(* by user processes, the kernel menu and the scheduler of one CPU.        *)
(*                                                                         *)
(* A process has one thread and one address space; the three share a name. *)
(* A step is what a thread does between two points where it can sleep or   *)
(* where another thread's steps matter: an access to the coremap (one      *)
(* spinlock), to the swap file (one sleep lock and a transfer), to the TLB.*)
(* as->pt_lock is only ever taken by the thread of the address space, or   *)
(* by the one that destroys it, so it is never contended and left out.     *)
(*                                                                         *)
(* When the kernel panics, hangs, or goes on with a frame or a page it     *)
(* does not own, status records why and nothing more happens.              *)
(***************************************************************************)
EXTENDS PagingState

Init ==
  /\ coremap_init /\ swapmap_init /\ tlb_reset
  /\ disk = [s \in Slots |-> "zero"]
  /\ ram = [f \in Frames |-> "zero"]
  /\ pt = [as \in AddrSpaces |-> [v \in Pages |-> NoPage]]
  /\ as_pt = [as \in AddrSpaces |-> NULL]
  /\ t_stack = [as \in AddrSpaces |-> NULL]
  /\ heap = {} /\ zombies = {} /\ created = 0 /\ garbled = FALSE
  /\ th = [t \in Threads |-> Nowhere(IF t = kproc THEN "menu" ELSE "none")]
  /\ curthread = kproc
  /\ status = "running"

Stops(why) ==
  /\ status' = why
  /\ UNCHANGED <<memVars, procVars, th, curthread>>

-----------------------------------------------------------------------------
\* Memory of the kernel itself.

\* getPage for the kernel: when memory is full it is given frame 0, and the
\* spinlock of the coremap is never released (module CoremapClients).
kernelPage(is_reserved, f) ==
  IF NoneAvailable
  THEN getPage_full(f) /\ status' = "full"
  ELSE getPage(is_reserved, NULL, f) /\ UNCHANGED status

\* alloc_kpages, from a system call or the menu.
alloc_kpages(t) ==
  /\ On(t, "user") \/ On(t, "menu")
  /\ Cardinality(heap) < MaxKPages
  /\ \E f \in Frames : kernelPage(FALSE, f) /\ heap' = heap \cup {f}
  /\ UNCHANGED <<swapVars, tlbVars, ram, pt, as_pt, t_stack, zombies, created, garbled,
                 th, curthread>>

\* free_kpages in the context of a thread without address space.
free_kpages(t) ==
  /\ On(t, "menu")
  /\ \E f \in heap : freepages(f) /\ heap' = heap \ {f}
  /\ UNCHANGED <<swapVars, tlbVars, ram, pt, as_pt, t_stack, zombies, created, garbled,
                 th, curthread, status>>

\* free_kpages when the process has one: getPageVtoP returns -1 whatever it
\* finds.
free_kpages_user(t) ==
  /\ On(t, "user")
  /\ heap # {}
  /\ Stops("free_kpages")

-----------------------------------------------------------------------------
\* vm_fault

\* The TLB holds no entry for page v, which process t reads or writes.
vm_fault(t, v) ==
  /\ On(t, "user")
  /\ tlb_probe(v) = {}
  /\ IF pt[t][v].in_mem
     THEN tlb_loadentry(v, pt[t][v].paddr, v \in Text) /\ UNCHANGED th
     ELSE th' = [th EXCEPT ![t] = At("getPage", t, v)] /\ UNCHANGED tlbVars
  /\ UNCHANGED <<coremapVars, swapVars, ram, procVars, curthread, status>>

\* VM_FAULT_READONLY: a write to a page whose TLB entry is not dirty.
vm_fault_readonly(t, v) ==
  /\ On(t, "user")
  /\ \E k \in tlb_probe(v) : ~tlb[k].dirty
  /\ Stops("readonly")

\* An address in none of the pages of the program.
vm_fault_unmapped(t) ==
  /\ On(t, "user")
  /\ Stops("unmapped")

\* A write by the program, through its TLB entry.
userWrite(t, v) ==
  /\ On(t, "user")
  /\ \E k \in tlb_probe(v), c \in Writes :
       /\ tlb[k].dirty
       /\ ram' = [ram EXCEPT ![tlb[k].ppage - firstpaddr] = c]
  /\ UNCHANGED <<coremapVars, swapVars, tlbVars, procVars, th, curthread, status>>

\* getPage for a page of th[t].as, first half: under the spinlock.
Holding(t, pc, f) == th' = [th EXCEPT ![t].pc = pc, ![t].frame = f]

getPage_free(t) ==
  /\ On(t, "getPage")
  /\ \E f \in Frames : getPage(FALSE, th[t].as, f) /\ Holding(t, "fill", f)
  /\ UNCHANGED <<swapVars, tlbVars, ram, procVars, curthread, status>>

\* No frame is free.  getAvailableSwap takes the lock of the swap file: with
\* the spinlock held, waiting for it is a failed assertion.
getPage_stops(t) ==
  /\ On(t, "getPage")
  /\ NoneAvailable
  /\ \/ swap_lock # NoThread /\ Stops("slept with spinlock")
     \/ /\ swap_lock = NoThread
        /\ getAvailableSwap = 0 \/ victimLoopForever(th[t].as)
        /\ Stops(IF getAvailableSwap = 0 THEN "no swap" ELSE "victim loop")

getPage_victim(t) ==
  /\ On(t, "getPage")
  /\ swap_lock = NoThread /\ getAvailableSwap # 0
  /\ \E f \in Frames : swapvictim(th[t].as, f) /\ Holding(t, "evict", f)
  /\ UNCHANGED <<swapVars, tlbVars, ram, procVars, curthread, status>>

\* Second half: the page table entry of the victim, if there is one.
InFrame(as, f) ==
  {v \in Pages : /\ pt[as][v].paddr = firstpaddr + f
                 /\ \A w \in Pages : w < v => pt[as][w].paddr # firstpaddr + f}

\* No entry, or a read-only page: nothing is written.
evict_retries(t) ==
  LET as == th[t].as
      J == InFrame(as, th[t].frame)
  IN  /\ On(t, "evict")
      /\ J \subseteq Text
      /\ Holding(t, "getPage", 0)
      /\ IF J = {} THEN UNCHANGED <<pt, tlbVars>>
         ELSE \E j \in J : /\ pt' = [pt EXCEPT ![as][j] = NoPage]
                           /\ tlb_invalidate_vaddr(j)
      /\ UNCHANGED <<coremapVars, swapVars, ram, as_pt, t_stack, heap, zombies, created,
                     garbled, curthread, status>>

evict_discards(t) ==
  LET as == th[t].as
  IN  /\ On(t, "evict")
      /\ Holding(t, "fill", th[t].frame)
      /\ \E j \in InFrame(as, th[t].frame) : /\ pt' = [pt EXCEPT ![as][j] = NoPage]
                                             /\ tlb_invalidate_vaddr(j)
      /\ UNCHANGED <<coremapVars, swapVars, ram, as_pt, t_stack, heap, zombies, created,
                     garbled, curthread, status>>

evict(t) ==
  LET as == th[t].as
      J == InFrame(as, th[t].frame)
  IN  /\ On(t, "evict")
      /\ J \subseteq Text
      /\ Holding(t, "fill", IF J = {} THEN 0 ELSE th[t].frame)
      /\ IF J = {} THEN UNCHANGED <<pt, tlbVars>>
         ELSE \E j \in J : /\ pt' = [pt EXCEPT ![as][j] = NoPage]
                           /\ tlb_invalidate_vaddr(j)
      /\ UNCHANGED <<coremapVars, swapVars, ram, as_pt, t_stack, heap, zombies,
                     created, garbled, curthread, status>>

\* A writable page: swap_out as far as the transfer ...
swap_out(t) ==
  /\ On(t, "evict")
  /\ ~(InFrame(th[t].as, th[t].frame) \subseteq Text)
  /\ \/ \E s \in Slots : /\ swap_out_start(t, s)
                         /\ th' = [th EXCEPT ![t].pc = "write", ![t].slot = s]
                         /\ UNCHANGED <<coremapVars, tlbVars, ram, procVars,
                                        curthread, status>>
     \/ swap_out_nospace /\ Stops("swap file full")

\* ... and from its end.
swapped_out(t) ==
  /\ On(t, "write")
  /\ swap_out_end(t, th[t].slot, ram[th[t].frame])
  /\ \E j \in InFrame(th[t].as, th[t].frame) :
       /\ pt' = [pt EXCEPT ![th[t].as][j] = Swapped(th[t].slot)]
       /\ tlb_invalidate_vaddr(j)
  /\ th' = [th EXCEPT ![t].pc = "fill", ![t].slot = 0]
  /\ UNCHANGED <<coremapVars, ram, as_pt, t_stack, heap, zombies, created, garbled,
                 curthread, status>>

-----------------------------------------------------------------------------
\* The frame is there: vm_fault and as_copy fill it.

InFault(t, pc) == On(t, pc) /\ th[t].as = t
InCopy(t, pc) == On(t, pc) /\ th[t].as # t

\* What the frame f holds after load_elf_ondemand or bzero for page v: a page
\* of the data segment beyond its part in the file is not written at all.
Loaded(v, f) ==
  CASE v \in Text \cup Data -> "elf"
    [] v \in Bss -> ram[f]
    [] v \in Stack -> "zero"

\* The end of vm_fault: the frame holds c, and the page table and TLB say so.
Mapped(t, c) ==
  LET f == th[t].frame  v == th[t].i
  IN  /\ ram' = [ram EXCEPT ![f] = c]
      /\ pt' = [pt EXCEPT ![t][v] = Resident(f)]
      /\ tlb_loadentry(v, firstpaddr + f, v \in Text)
      /\ th' = [th EXCEPT ![t] = Nowhere("user")]

load_elf_ondemand(t) ==
  /\ InFault(t, "fill")
  /\ ~pt[t][th[t].i].in_swap
  /\ Mapped(t, Loaded(th[t].i, th[t].frame))
  /\ UNCHANGED <<coremapVars, swapVars, as_pt, t_stack, heap, zombies, created, garbled,
                 curthread, status>>

\* swap_in, in vm_fault or in as_copy, as far as the transfer.
swap_in(t) ==
  /\ On(t, "fill")
  /\ pt[t][th[t].i].in_swap
  /\ swap_in_start(t)
  /\ th' = [th EXCEPT ![t].pc = "read"]
  /\ UNCHANGED <<coremapVars, tlbVars, ram, procVars, curthread, status>>

swapped_in(t) ==
  /\ InFault(t, "read")
  /\ swap_in_end(t, pt[t][th[t].i].paddr, TRUE)
  /\ Mapped(t, disk[pt[t][th[t].i].paddr])
  /\ UNCHANGED <<coremapVars, as_pt, t_stack, heap, zombies, created, garbled, curthread,
                 status>>

\* A failed read, from the swap file or the executable, is ignored: vm_fault
\* maps the page and returns 0.  After a failed swap_in the entry still holds
\* the slot number as its address, and the lock of the swap file stays held.
\* (as_copy gives up, leaving that lock and the parent's pt_lock held.)
read_fails(t) ==
  /\ DiskErrors
  /\ \/ On(t, "read")
     \/ InFault(t, "fill") /\ th[t].i \notin Stack /\ ~pt[t][th[t].i].in_swap
  /\ Stops("read error")

\* A failed write to the swap file is a failed assertion in swap_out.
write_fails(t) ==
  /\ DiskErrors
  /\ On(t, "write")
  /\ Stops("write error")

-----------------------------------------------------------------------------
\* as_copy, in sys_fork.

\* The pages of t that as_copy still has to give a frame, from page i on.
ToCopy(t, i) == {v \in Pages : v >= i /\ (pt[t][v].in_mem \/ pt[t][v].in_swap)}

\* The loop goes on with the first of them, or ends.
copyFrom(t, c, i) ==
  IF ToCopy(t, i) = {} THEN At("thread_fork", c, 0)
  ELSE At("getPage", c, CHOOSE v \in ToCopy(t, i) : \A w \in ToCopy(t, i) : v <= w)

\* as_create and ptAlloc for the child.  Its table is not cleared; entries are
\* set one by one, those with nothing to copy to zero.
sys_fork(t, c) ==
  /\ OPT_FORK
  /\ On(t, "user")
  /\ th[c].pc = "none"
  /\ \E f \in Frames : kernelPage(TRUE, f) /\ as_pt' = [as_pt EXCEPT ![c] = f]
  /\ pt' = [pt EXCEPT ![c] = [v \in Pages |-> NoPage]]
  /\ th' = [th EXCEPT ![c] = Nowhere("embryo"), ![t] = copyFrom(t, c, 1)]
  /\ created < MaxCreated /\ created' = created + 1
  /\ UNCHANGED <<swapVars, tlbVars, ram, t_stack, heap, zombies, garbled, curthread>>

Copied(t, content) ==
  LET f == th[t].frame  i == th[t].i
  IN  /\ ram' = [ram EXCEPT ![f] = content]
      /\ pt' = [pt EXCEPT ![th[t].as][i] = Resident(f)]
      /\ th' = [th EXCEPT ![t] = copyFrom(t, th[t].as, i + 1)]

\* The page is in memory: memmove.
copy_page(t) ==
  /\ InCopy(t, "fill")
  /\ ~pt[t][th[t].i].in_swap
  /\ Copied(t, ram[pt[t][th[t].i].paddr - firstpaddr])
  /\ UNCHANGED <<coremapVars, swapVars, tlbVars, as_pt, t_stack, heap, zombies,
                 created, garbled, curthread, status>>

\* The page is in the swap file: swap_in is given the address of the paddr of
\* the new entry, not yet set, so the slot x is whatever the page table's
\* frame held there.
copy_swapped(t) ==
  /\ InCopy(t, "read")
  /\ \E x \in Slots :
       \/ /\ swap_in_end(t, x, FALSE)
          /\ Copied(t, disk[x])
          /\ garbled' = TRUE
          /\ UNCHANGED <<coremapVars, tlbVars, as_pt, t_stack, heap, zombies,
                         created, curthread, status>>
       \/ x \notin swapMap /\ Stops("slot not set")

\* thread_fork: the child's kernel stack; the child is runnable.
thread_fork(t) ==
  LET c == th[t].as
  IN  /\ On(t, "thread_fork")
      /\ \E f \in Frames : kernelPage(FALSE, f) /\ t_stack' = [t_stack EXCEPT ![c] = f]
      /\ th' = [th EXCEPT ![c] = Nowhere("user"), ![t] = Nowhere("user")]
      /\ UNCHANGED <<swapVars, tlbVars, ram, pt, as_pt, heap, zombies, created, garbled,
                     curthread>>

-----------------------------------------------------------------------------
\* The life of a process.

\* The menu starts a program (thread_fork allocates its kernel stack) and
\* waits for it.
common_prog(p) ==
  /\ On(kproc, "menu")
  /\ th[p].pc = "none"
  /\ \E f \in Frames : kernelPage(FALSE, f) /\ t_stack' = [t_stack EXCEPT ![p] = f]
  /\ th' = [th EXCEPT ![p] = Nowhere("new"), ![kproc] = At("proc_wait", p, 0)]
  /\ created < MaxCreated /\ created' = created + 1
  /\ UNCHANGED <<swapVars, tlbVars, ram, pt, as_pt, heap, zombies, garbled, curthread>>

\* proc_init_waitpid, in either case, when the process table is full.
process_table_full(t) ==
  /\ On(t, "menu") \/ (OPT_FORK /\ On(t, "user"))
  /\ \A p \in AddrSpaces : th[p].pc \notin {"none", "leaving"}
  /\ Stops("process table full")

\* runprogram: as_create, as_activate, and as_prepare_load with ptAlloc.
runprogram(p) ==
  /\ On(p, "new")
  /\ tlb_invalidate
  /\ \E f \in Frames : kernelPage(TRUE, f) /\ as_pt' = [as_pt EXCEPT ![p] = f]
  /\ pt' = [pt EXCEPT ![p] = [v \in Pages |-> NoPage]]
  /\ th' = [th EXCEPT ![p] = Nowhere("user")]
  /\ UNCHANGED <<swapVars, ram, t_stack, heap, zombies, created, garbled, curthread>>

\* The program cannot be opened or is not an executable: the thread exits, but
\* without the V on p_sem, so the menu waits for ever and nothing else runs.
runprogram_fails(p) == On(p, "new") /\ Stops("not loaded")

\* sys__exit: the thread leaves its process, V on p_sem ...
sys__exit(p) ==
  /\ On(p, "user")
  /\ th' = [th EXCEPT ![p] = Nowhere("exiting")]
  /\ UNCHANGED <<memVars, procVars, curthread, status>>

\* ... and thread_exit.  The process may have been destroyed in between.
thread_exit(p) ==
  /\ \/ On(p, "exiting") /\ th' = [th EXCEPT ![p].pc = "exited"]
     \/ On(p, "leaving") /\ th' = [th EXCEPT ![p].pc = "none"]
  /\ zombies' = zombies \cup {p}
  /\ UNCHANGED <<memVars, pt, as_pt, t_stack, heap, created, garbled, curthread, status>>

\* A process waits for another that nobody waits for and that does not wait for
\* it in turn.
sys_waitpid(t, c) ==
  /\ On(t, "user")
  /\ c # t /\ th[c].pc \notin {"none", "embryo", "leaving"} /\ th[c].as # t
  /\ \A u \in Threads \ {c} : th[u].as # c
  /\ th' = [th EXCEPT ![t] = At("proc_wait", c, 0)]
  /\ UNCHANGED <<memVars, procVars, curthread, status>>

\* proc_wait past its P, proc_destroy, as_destroy: the slots of the dead
\* process from page i on ...
ToClear(as, i) == {v \in Pages : v >= i /\ pt[as][v].in_swap}

clearFrom(as, i) ==
  IF ToClear(as, i) = {} THEN At("freepages", as, 0)
  ELSE At("clear_swap", as,
          CHOOSE v \in ToClear(as, i) : \A w \in ToClear(as, i) : v <= w)

proc_wait_sleepsAgain(t) ==
  /\ On(t, "proc_wait")
  /\ th[th[t].as].pc \in Ended
  /\ UNCHANGED vars

proc_wait(t) ==
  /\ On(t, "proc_wait")
  /\ th[th[t].as].pc \in Ended
  /\ th' = [th EXCEPT ![t] = clearFrom(th[t].as, 1)]
  /\ UNCHANGED <<memVars, procVars, curthread, status>>

as_destroy_slot(t) ==
  /\ On(t, "clear_swap")
  /\ clear_swap(pt[th[t].as][th[t].i].paddr)
  /\ th' = [th EXCEPT ![t] = clearFrom(th[t].as, th[t].i + 1)]
  /\ UNCHANGED <<coremapVars, tlbVars, ram, procVars, curthread, status>>

\* ... its page table ...
as_destroy_pt(t) ==
  /\ On(t, "freepages")
  /\ freepages(as_pt[th[t].as])
  /\ as_pt' = [as_pt EXCEPT ![th[t].as] = NULL]
  /\ th' = [th EXCEPT ![t].pc = "freeAs"]
  /\ UNCHANGED <<swapVars, tlbVars, ram, pt, t_stack, heap, zombies, created, garbled,
                 curthread, status>>

\* ... and its frames.
as_destroy_frames(t) ==
  LET as == th[t].as
  IN  /\ On(t, "freeAs")
      /\ freeAs(as)
      /\ pt' = [pt EXCEPT ![as] = [v \in Pages |-> NoPage]]
      /\ th' = [th EXCEPT ![as].pc = IF @ = "exited" THEN "none" ELSE "leaving",
                          ![t] = Nowhere(IF t = kproc THEN "menu" ELSE "user")]
      /\ UNCHANGED <<swapVars, tlbVars, ram, as_pt, t_stack, heap, zombies, created, garbled,
                     curthread, status>>

-----------------------------------------------------------------------------
\* The scheduler.  A thread that is given the CPU to find the swap file's lock
\* busy or its transfer unfinished goes back to sleep.

Runnable(t) ==
  /\ th[t].pc \notin {"none", "embryo", "exited"}
  /\ th[t].pc = "proc_wait" => th[th[t].as].pc \in Ended

\* thread_switch to t, on its way out of it: as_activate and exorcise.  The
\* stack of an exited thread is freed with free_kpages.  A thread that slept
\* through a transfer on an idle machine switches to itself.
CanSwitchTo(t) ==
  /\ status = "running"
  /\ Runnable(t)
  /\ t # curthread \/ th[t].pc \in {"read", "write"}

as_activate(t) == IF HasAs(t) THEN tlb_invalidate ELSE UNCHANGED tlbVars

thread_switch_noFlush(t) ==
  /\ CanSwitchTo(t)
  /\ zombies = {}
  /\ curthread' = t
  /\ UNCHANGED <<memVars, procVars, th, status>>

thread_switch(t) ==
  /\ CanSwitchTo(t)
  /\ zombies = {}
  /\ curthread' = t
  /\ as_activate(t)
  /\ UNCHANGED <<coremapVars, swapVars, ram, procVars, th, status>>

exorcise(t) ==
  /\ CanSwitchTo(t)
  /\ ~HasAs(t)
  /\ curthread' = t
  /\ as_activate(t)
  /\ \E z \in zombies : /\ freepages(t_stack[z])
                        /\ t_stack' = [t_stack EXCEPT ![z] = NULL]
                        /\ zombies' = zombies \ {z}
  /\ UNCHANGED <<swapVars, ram, pt, as_pt, heap, created, garbled, th, status>>

exorcise_user(t) ==
  /\ CanSwitchTo(t)
  /\ zombies # {} /\ HasAs(t)
  /\ Stops("free_kpages")

\* The menu's command that shuts the machine down.
cmd_quit == On(kproc, "menu") /\ Stops("shutdown")

halted == status # "running" /\ UNCHANGED vars

-----------------------------------------------------------------------------

kernelStep(t) ==
  \/ getPage_free(t) \/ getPage_stops(t) \/ getPage_victim(t)
  \/ evict(t) \/ swap_out(t) \/ swapped_out(t)
  \/ load_elf_ondemand(t) \/ swap_in(t) \/ swapped_in(t)
  \/ copy_page(t) \/ copy_swapped(t) \/ thread_fork(t)
  \/ runprogram(t) \/ thread_exit(t) \/ proc_wait(t)
  \/ as_destroy_slot(t) \/ as_destroy_pt(t) \/ as_destroy_frames(t)

userStep(t) ==
  \/ \E v \in Pages : vm_fault(t, v) \/ vm_fault_readonly(t, v) \/ userWrite(t, v)
  \/ vm_fault_unmapped(t)
  \/ alloc_kpages(t) \/ free_kpages_user(t)
  \/ \E c \in AddrSpaces : sys_fork(t, c) \/ sys_waitpid(t, c)
  \/ sys__exit(t)

Next ==
  \/ \E t \in Threads : kernelStep(t) \/ read_fails(t) \/ write_fails(t)
                          \/ process_table_full(t)
  \/ \E t \in AddrSpaces : userStep(t)
  \/ alloc_kpages(kproc) \/ free_kpages(kproc)
  \/ \E p \in AddrSpaces : common_prog(p) \/ runprogram_fails(p)
  \/ cmd_quit
  \/ \E t \in Threads : thread_switch(t) \/ exorcise(t) \/ exorcise_user(t)
  \/ halted

Spec == Init /\ [][Next]_vars

\* A runnable thread is given the CPU when the current one sleeps or exits.  A
\* thread that is given it again and again gets on: its time slice is far longer
\* than a step.
Fairness ==
  \A t \in Threads : /\ SF_vars(kernelStep(t))
                     /\ WF_vars(thread_switch(t) \/ exorcise(t) \/ exorcise_user(t))

FairSpec == Spec /\ Fairness

-----------------------------------------------------------------------------
\* Properties.

\* The variables of the paging system are in range.
TypeOK ==
  /\ CoremapTypeOK /\ SwapTypeOK /\ TlbTypeOK
  /\ pt \in [AddrSpaces -> [Pages -> PtEntry]]
  /\ as_pt \in [AddrSpaces -> Frames \cup {NULL}]
  /\ t_stack \in [AddrSpaces -> Frames \cup {NULL}]
  /\ heap \subseteq Frames
  /\ ram \in [Frames -> Contents]
  /\ \A t \in Threads : /\ th[t].as \in AddrSpaces \cup {NULL}
                        /\ th[t].i \in Pages \cup {0}
                        /\ th[t].frame \in Frames
                        /\ th[t].slot \in Slots
  /\ curthread \in Threads
  /\ zombies \subseteq AddrSpaces
  /\ created \in 0 .. MaxCreated

\* Who holds frame f: a page table, a kernel stack, the kernel heap, a page in
\* memory, or a thread that is about to fill it.
Holders(f) ==
  {<<"pt", as>> : as \in {a \in AddrSpaces : as_pt[a] = f}}
    \cup {<<"stack", as>> : as \in {a \in AddrSpaces : t_stack[a] = f}}
    \cup (IF f \in heap THEN {<<"heap", NULL>>} ELSE {})
    \cup {<<"page", p>> : p \in {q \in AddrSpaces \X Pages :
                                  /\ pt[q[1]][q[2]].in_mem
                                  /\ pt[q[1]][q[2]].paddr = firstpaddr + f}}
    \cup {<<"thread", t>> : t \in {u \in Threads : /\ th[u].pc \in {"fill", "read"}
                                                   /\ th[u].frame = f}}

\* A frame that is in use has exactly one holder and a free one none, whatever
\* faults, evictions, forks and exits interleave: getPage never gives out a
\* frame twice, and as_destroy and exorcise neither lose one nor free one that
\* is still used.
OneHolderPerFrame ==
  /\ TypeOK
  /\ Running => \A f \in Frames : Cardinality(Holders(f)) = IF Available(f) THEN 0 ELSE 1

\* The entries whose page is in the swap file, less those as_destroy is past.
InSwap ==
  {q \in AddrSpaces \X Pages :
     /\ pt[q[1]][q[2]].in_swap
     /\ \A t \in Threads : th[t].as = q[1] =>
          /\ th[t].pc = "clear_swap" => q[2] >= th[t].i
          /\ th[t].pc \notin {"freepages", "freeAs"}}

\* The bitmap marks the slots of pages in the swap file and of transfers to
\* it, no two pages share a slot, and used counts the pages, reduced to an
\* unsigned short: swap_out, swap_in and clear_swap keep the three in step.
OneHolderPerSlot ==
  Running =>
    LET writing == {t \in Threads : th[t].pc = "write"}
        paddr(q) == pt[q[1]][q[2]].paddr
    IN  /\ swapMap = {paddr(q) : q \in InSwap} \cup {th[t].slot : t \in writing}
        /\ Cardinality(swapMap) = Cardinality(InSwap) + Cardinality(writing)
        /\ used = Cardinality(InSwap) % USHORT

VM == INSTANCE VirtualMemory WITH
  Procs <- AddrSpaces,
  Initial <- [v \in Pages |-> IF v \in Bss THEN "undefined"
                              ELSE IF v \in Stack THEN "zero" ELSE "elf"],
  Undefined <- "undefined",
  NoMemory <- NULL,
  mem <- [p \in AddrSpaces |->
            IF th[p].pc \in {"none", "new", "embryo", "leaving"} \cup Ended THEN NULL
            ELSE [v \in Pages |-> held(p, v)]],
  user <- IF th[curthread].pc = "user" THEN curthread ELSE NULL,
  sound <- Running /\ ~garbled

\* Paging is invisible: through faults, evictions to the swap file, discarded
\* text pages, forks and exits, every page of every process holds what its
\* process last wrote there.
IsVirtualMemory == VM!Spec

\* A page fault is served: the process is back in user mode unless the machine
\* stops.
FaultServed ==
  \A t \in AddrSpaces :
    th[t].pc \in {"getPage", "evict", "write", "fill", "read"} ~>
      th[t].pc = "user" \/ ~Running

\* The menu gets the memory of an exited program back and can start another.
ExitReaped ==
  \A t \in AddrSpaces : th[t].pc \in Ended ~> th[t].pc = "none" \/ ~Running

\* Process u is reading or writing the swap file, and another has the CPU.
InTransfer(u) ==
  u # curthread /\ swap_lock = u /\ th[u].pc \in {"read", "write"}

\* getPage asks for the swap file's lock under the spinlock of the coremap, where
\* waiting is forbidden (synch.c: "OS161 forbids sleeping/realeasing the CPU while
\* owning a spinlocks").  It has to wait only in a fault during the transfer of
\* another process, which takes fork: otherwise the menu waits for a program
\* before it starts another.  Nobody else ever has the lock, as every transfer
\* and as_destroy give it back.
SleepNeedsTransfer ==
  status = "slept with spinlock" =>
    OPT_FORK /\ \E u \in AddrSpaces : InTransfer(u)

=============================================================================

--------------------------- MODULE CoremapClients ---------------------------
(***************************************************************************)
(* The coremap with its callers in kern/vm/addrspace.c: the kernel's page  *)
(* allocations (alloc_kpages, free_kpages), the page tables (ptAlloc), the *)
(* user pages (vm_fault, as_copy) and as_destroy.  What each caller was    *)
(* given is recorded, so that the coremap can be compared with it.         *)
(***************************************************************************)
EXTENDS Coremap, FiniteSets

CONSTANTS
  Handles,      \* the kernel's allocations, one for each that may be live
  MaxRun        \* the longest allocation asked for, in pages

ASSUME ClientsAssumption == MaxRun \in Nat

VARIABLES
  kmem,         \* kmem[h]: the frames alloc_kpages returned for h
  ptmem,        \* ptmem[as]: the frames of the page table of as
  upages,       \* upages[as]: the frames holding user pages of as
  stopped       \* the kernel panicked, or loops for ever

vars == <<coremap, next_svic, coremap_lock, kmem, ptmem, upages, stopped>>

Alloc == [first : Frames, n : 0 .. coremapSize]
NoAlloc == [first |-> 0, n |-> 0]
FramesOf(a) == a.first .. a.first + a.n - 1

Init ==
  /\ coremap_init
  /\ kmem = [h \in Handles |-> NoAlloc]
  /\ ptmem = [as \in AddrSpaces |-> NoAlloc]
  /\ upages = [as \in AddrSpaces |-> {}]
  /\ stopped = FALSE

Stop ==
  /\ stopped' = TRUE
  /\ UNCHANGED <<coremap, next_svic, coremap_lock, kmem, ptmem, upages>>

\* getPages(npages, 0, NULL), through getppages.
alloc_kpages(h, npages) ==
  /\ ~stopped
  /\ kmem[h].n = 0
  /\ \/ /\ \E i \in Frames :
             /\ IF npages > 1 THEN getMultiplePages(npages, FALSE, NULL, i)
                ELSE getPage(FALSE, NULL, i) \/ getPage_full(i)
             /\ kmem' = [kmem EXCEPT ![h] = [first |-> i, n |-> npages]]
        /\ UNCHANGED <<ptmem, upages, stopped>>
     \/ npages > 1 /\ noRun(npages) /\ Stop

\* free_kpages called by a thread whose process has no address space.
free_kpages(h) ==
  /\ ~stopped
  /\ kmem[h].n > 0
  /\ freepages(kmem[h].first)
  /\ kmem' = [kmem EXCEPT ![h] = NoAlloc]
  /\ UNCHANGED <<ptmem, upages, stopped>>

\* as_prepare_load (and as_copy): the page table takes npages frames.
ptAlloc(as, npages) ==
  /\ ~stopped
  /\ ptmem[as].n = 0 /\ upages[as] = {}
  /\ \/ /\ getAvailableRam > npages
        /\ \E i \in Frames :
             /\ IF npages > 1 THEN getMultiplePages(npages, TRUE, NULL, i)
                ELSE getPage(TRUE, NULL, i) \/ getPage_full(i)
             /\ ptmem' = [ptmem EXCEPT ![as] = [first |-> i, n |-> npages]]
        /\ UNCHANGED <<kmem, upages, stopped>>
     \/ getAvailableRam <= npages /\ Stop
     \/ npages > 1 /\ noRun(npages) /\ Stop

\* getPages(1, vaddr, as): a new frame, or one taken from another page of as.
userPage(as) ==
  /\ ~stopped
  /\ ptmem[as].n > 0
  /\ \/ \E i \in Frames :
          /\ getPage(FALSE, as, i)
          /\ upages' = [upages EXCEPT ![as] = @ \cup {i}]
          /\ UNCHANGED <<kmem, ptmem, stopped>>
     \/ \E i \in Frames :
          /\ swapvictim(as, i)
          /\ UNCHANGED <<kmem, ptmem, upages, stopped>>
     \/ victimLoopForever(as) /\ Stop

\* as_destroy gives back the page table first ...
as_destroy_pt(as) ==
  /\ ~stopped
  /\ ptmem[as].n > 0
  /\ freepages(ptmem[as].first)
  /\ ptmem' = [ptmem EXCEPT ![as] = NoAlloc]
  /\ UNCHANGED <<kmem, upages, stopped>>

\* ... and then, in a second critical section, the user pages.
as_destroy_pages(as) ==
  /\ ~stopped
  /\ ptmem[as].n = 0 /\ upages[as] # {}
  /\ freeAs(as)
  /\ upages' = [upages EXCEPT ![as] = {}]
  /\ UNCHANGED <<kmem, ptmem, stopped>>

\* Once the spinlock is left held, the next acquire on this CPU panics.
spinlockDeadlock == ~stopped /\ coremap_lock /\ Stop

\* A panicked kernel does nothing more.
halted == stopped /\ UNCHANGED vars

Next ==
  \/ \E h \in Handles, n \in 1 .. MaxRun : alloc_kpages(h, n)
  \/ \E h \in Handles : free_kpages(h)
  \/ \E as \in AddrSpaces, n \in 1 .. MaxRun : ptAlloc(as, n)
  \/ \E as \in AddrSpaces : userPage(as)
  \/ \E as \in AddrSpaces : as_destroy_pt(as)
  \/ \E as \in AddrSpaces : as_destroy_pages(as)
  \/ spinlockDeadlock
  \/ halted

Spec == Init /\ [][Next]_vars

-----------------------------------------------------------------------------

\* Every variable keeps its type; in particular the round robin index of
\* swapvictim stays a frame number.
TypeOK ==
  /\ CoremapTypeOK
  /\ kmem \in [Handles -> Alloc]
  /\ ptmem \in [AddrSpaces -> Alloc]
  /\ upages \in [AddrSpaces -> SUBSET Frames]
  /\ stopped \in BOOLEAN

\* The allocation a is what the coremap cm records at its first frame, so that
\* freepages will give back all of it and nothing else; its entries carry f.
Recorded(cm, a, f) ==
  a.n > 0 =>
    /\ a.first + a.n - 1 \in Frames
    /\ cm[a.first].allocpages = a.n
    /\ \A i \in FramesOf(a) : cm[i].flags = f /\ cm[i].as = NULL

Disjoint(a, b) == FramesOf(a) \cap FramesOf(b) = {}

\* As long as getPage has not returned with the spinlock held, the coremap
\* agrees with its callers: no frame was given to two of them, the frames of
\* each are marked as its kind of owner needs, and every marked frame is owned
\* (none is lost by freepages, freeAs or the two halves of as_destroy).
OwnersMatch ==
  ~coremap_lock =>
    /\ \A h \in Handles : Recorded(coremap, kmem[h], 2)
    /\ \A as \in AddrSpaces : Recorded(coremap, ptmem[as], 3)
    /\ \A h1, h2 \in Handles : h1 # h2 => Disjoint(kmem[h1], kmem[h2])
    /\ \A a1, a2 \in AddrSpaces : a1 # a2 => Disjoint(ptmem[a1], ptmem[a2])
    /\ \A as \in AddrSpaces : \A i \in upages[as] :
         coremap[i].flags = 2 /\ coremap[i].as = as
    /\ \A i \in Frames : coremap[i].flags # 0 =>
         \/ \E h \in Handles : i \in FramesOf(kmem[h])
         \/ \E as \in AddrSpaces : i \in FramesOf(ptmem[as]) \cup upages[as]

\* The search loop of getMultiplePages stops at the end of the lowest run of
\* npages available frames, with its variable first at the start of that run,
\* and runs to the end exactly when there is none.
ScanIsFirstFit ==
  \A n \in 2 .. coremapSize :
    LET stops == scanStops(n)
        runs == {f \in Frames : Fits(n, f)}
    IN  /\ (stops = {}) <=> (runs = {})
        /\ \A i \in stops : (\A j \in stops : i <= j) =>
             /\ firstAt[i] \in runs
             /\ \A f \in runs : firstAt[i] <= f

=============================================================================

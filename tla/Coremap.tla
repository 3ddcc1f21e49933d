------------------------------ MODULE Coremap ------------------------------
(***************************************************************************)
(* The physical frame allocator, kern/vm/coremap.c.                        *)
(*                                                                         *)
(* Every operation runs under the spinlock coremap_lock with interrupts    *)
(* off on the only CPU, so each is one atomic step.  coremap_lock here is  *)
(* TRUE exactly when an operation returned without releasing it.           *)
(*                                                                         *)
(* The frame number stands for the physical address                        *)
(* firstpaddr + frame * PAGE_SIZE.  The virtual address kept in an entry   *)
(* is never read back, so only its two flag bits remain.                   *)
(***************************************************************************)
EXTENDS Integers

CONSTANTS
  coremapSize,   \* number of frames the coremap manages
  AddrSpaces,    \* the address spaces (struct addrspace pointers)
  NULL           \* the null pointer

ASSUME CoremapAssumption ==
  /\ coremapSize \in Nat \ {0}
  /\ NULL \notin AddrSpaces

VARIABLES
  coremap,       \* coremap[i]: the c_entry of frame i
  next_svic,     \* the static index of swapvictim
  coremap_lock   \* TRUE: the spinlock was left held by an earlier operation

coremapVars == <<coremap, next_svic, coremap_lock>>

Frames == 0 .. coremapSize - 1

\* flags: 0 free, 2 used, 3 used and reserved (never a swap victim).
c_entry == [flags : {0, 2, 3},
            as : AddrSpaces \cup {NULL},
            allocpages : 0 .. coremapSize]

CoremapTypeOK ==
  /\ coremap \in [Frames -> c_entry]
  /\ next_svic \in Frames
  /\ coremap_lock \in BOOLEAN

coremap_init ==
  /\ coremap = [i \in Frames |-> [flags |-> 0, as |-> NULL, allocpages |-> 0]]
  /\ next_svic = 0
  /\ coremap_lock = FALSE

-----------------------------------------------------------------------------

CUSED(i) == coremap[i].flags \in {2, 3}
CRES(i) == coremap[i].flags # 0

Available(i) == ~CUSED(i) /\ ~CRES(i)
NoneAvailable == \A i \in Frames : ~Available(i)

set_coreentry(e, is_reserved, as) ==
  [e EXCEPT !.flags = IF is_reserved THEN 3 ELSE 2,
            !.as = IF is_reserved THEN NULL ELSE as]

set_empty(e) == [e EXCEPT !.flags = 0, !.as = NULL]

-----------------------------------------------------------------------------

\* getPage, a frame is available: the lowest one, i, is taken.
getPage(is_reserved, as, i) ==
  /\ ~coremap_lock
  /\ Available(i)
  /\ \A j \in Frames : j < i => ~Available(j)
  /\ coremap' = [coremap EXCEPT
       ![i] = [set_coreentry(@, is_reserved, as) EXCEPT !.allocpages = 1]]
  /\ UNCHANGED <<next_svic, coremap_lock>>

\* getPage, no frame available and no address space to evict from: the caller
\* is given frame 0, whoever owns it, and the spinlock stays held.
getPage_full(i) ==
  /\ ~coremap_lock
  /\ NoneAvailable
  /\ i = 0
  /\ coremap_lock' = TRUE
  /\ UNCHANGED <<coremap, next_svic>>

\* The frames the victim loop accepts for as.
Victims(as) == {i \in Frames : coremap[i].flags # 3 /\ coremap[i].as = as}

\* How many times swapvictim is called before it returns frame i.
Turns(i) == (i - next_svic + coremapSize) % coremapSize

\* getPage, no frame available: the victim loop stops at the first frame of as
\* in the round robin order.  The entry is left as it is; the caller evicts
\* the page after the spinlock is released.
swapvictim_noWrap(as, i) ==
  /\ ~coremap_lock
  /\ NoneAvailable
  /\ i \in Victims(as)
  /\ \A j \in Victims(as) : Turns(i) <= Turns(j)
  /\ next_svic' = i + 1
  /\ UNCHANGED <<coremap, coremap_lock>>

swapvictim(as, i) ==
  /\ ~coremap_lock
  /\ NoneAvailable
  /\ i \in Victims(as)
  /\ \A j \in Victims(as) : Turns(i) <= Turns(j)
  /\ next_svic' = (i + 1) % coremapSize
  /\ UNCHANGED <<coremap, coremap_lock>>

\* ... and never stops when as owns no frame.
victimLoopForever(as) ==
  /\ ~coremap_lock
  /\ NoneAvailable
  /\ Victims(as) = {}

\* getMultiplePages: npages available frames starting at first.
Fits(npages, first) ==
  /\ first + npages - 1 \in Frames
  /\ \A k \in first .. first + npages - 1 : Available(k)

\* The lowest such run is taken; only its first entry records the length.
\* ScanIsFirstFit (module CoremapClients) relates this to the search loop.
getMultiplePages(npages, is_reserved, as, first) ==
  /\ ~coremap_lock
  /\ first \in Frames
  /\ Fits(npages, first)
  /\ \A f \in Frames : f < first => ~Fits(npages, f)
  /\ coremap' = [i \in Frames |->
       IF i \notin first .. first + npages - 1 THEN coremap[i]
       ELSE set_coreentry([coremap[i] EXCEPT
              !.allocpages = IF i = first THEN npages ELSE @], is_reserved, as)]
  /\ UNCHANGED <<next_svic, coremap_lock>>

\* ... and the kernel panics when there is no such run.
noRun(npages) ==
  /\ ~coremap_lock
  /\ \A f \in Frames : ~Fits(npages, f)

\* The search loop of getMultiplePages: the value of its variable first after
\* it has looked at frame i ...
firstAt[i \in Frames] ==
  IF i = 0 THEN 0
  ELSE IF Available(i) /\ (CUSED(i - 1) \/ CRES(i - 1)) THEN i ELSE firstAt[i - 1]

\* ... and the frames at which it could stop; it stops at the lowest.
scanStops_offByOne(npages) ==
  {i \in Frames : Available(i) /\ i - firstAt[i] >= npages}

scanStops(npages) ==
  {i \in Frames : Available(i) /\ i - firstAt[i] + 1 >= npages}

-----------------------------------------------------------------------------

freepages_firstOnly(i) ==
  /\ ~coremap_lock
  /\ coremap' = [coremap EXCEPT ![i] = [set_empty(@) EXCEPT !.allocpages = 0]]
  /\ UNCHANGED <<next_svic, coremap_lock>>

freepages(i) ==
  /\ ~coremap_lock
  /\ coremap' = [j \in Frames |->
       LET e == IF j = i THEN [coremap[j] EXCEPT !.allocpages = 0] ELSE coremap[j]
       IN  IF j \in i .. i + coremap[i].allocpages - 1 THEN set_empty(e) ELSE e]
  /\ UNCHANGED <<next_svic, coremap_lock>>

freeAs_skipsLast(as) ==
  /\ ~coremap_lock
  /\ coremap' = [i \in Frames |->
       IF coremap[i].as = as /\ i < coremapSize - 1 THEN set_empty(coremap[i])
       ELSE coremap[i]]
  /\ UNCHANGED <<next_svic, coremap_lock>>

freeAs(as) ==
  /\ ~coremap_lock
  /\ coremap' = [i \in Frames |->
       IF coremap[i].as = as THEN set_empty(coremap[i]) ELSE coremap[i]]
  /\ UNCHANGED <<next_svic, coremap_lock>>

\* ram_used is never changed, so this is the size of the coremap, always.
getAvailableRam == coremapSize

=============================================================================

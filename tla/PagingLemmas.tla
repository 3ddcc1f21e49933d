---------------------------- MODULE PagingLemmas ----------------------------
(***************************************************************************)
(* Lemmas about demand paging: page table entries, threads, the operations *)
(* of the coremap, the TLB and the swap file, and what keeps the roles of  *)
(* the threads, the frames, the slots, the TLB and the contents of pages in *)
(* order.                                                                  *)
(***************************************************************************)
EXTENDS Paging, PagingInv, TLAPS

\* A leaf is proved by Zenon unless it says SMT.
USE ZenonT(30)

-----------------------------------------------------------------------------
\* Page table entries, threads and the address spaces they work on.

\* The entries of the three kinds are told apart by their flags, and a slot
\* number is never taken for a frame.
LEMMA EntryFacts ==
  ASSUME NEW e \in Entry
  PROVE  /\ e \in PtEntry
         /\ e.in_mem <=> \E f \in Frames : e = Resident(f)
         /\ e.in_swap <=> \E s \in Slots : e = Swapped(s)
         /\ e = NoPage <=> ~e.in_mem /\ ~e.in_swap
         /\ ~(e.in_mem /\ e.in_swap)
         /\ \A f \in Frames : e.paddr = firstpaddr + f <=> e = Resident(f)
<1>1. firstpaddr \in Nat /\ NSlots \in Nat /\ NSlots < firstpaddr /\ coremapSize \in Nat
      /\ PFrames = firstpaddr .. firstpaddr + coremapSize - 1
  BY PagingAssumption, SwapfileAssumption, CoremapAssumption
<1>2. ASSUME e = NoPage
      PROVE  /\ e \in PtEntry /\ ~e.in_mem /\ ~e.in_swap
             /\ \A f \in Frames : e.paddr # firstpaddr + f /\ e # Resident(f)
             /\ \A s \in Slots : e # Swapped(s)
  <2>1. e.paddr = 0 /\ e.in_mem = FALSE /\ e.in_swap = FALSE /\ e \in PtEntry
    BY <1>2 DEF NoPage, PtEntry
  <2>2. \A f \in Frames : e.paddr # firstpaddr + f /\ e # Resident(f)
    BY SMTT(30), <1>1, <2>1 DEF Frames, Resident
  <2>3. \A s \in Slots : e # Swapped(s)
    BY SMTT(30), <2>1 DEF Swapped
  <2> QED
    BY <2>1, <2>2, <2>3
<1>3. ASSUME NEW f \in Frames, e = Resident(f)
      PROVE  /\ e \in PtEntry /\ e.in_mem /\ ~e.in_swap /\ e # NoPage
             /\ e.paddr = firstpaddr + f
  BY SMTT(30), <1>1, <1>3 DEF NoPage, Resident, Swapped, PtEntry, Frames, Slots
<1>4. ASSUME NEW f \in Frames, e = Resident(f)
      PROVE  \A g \in Frames : e.paddr = firstpaddr + g <=> e = Resident(g)
  <2> TAKE g \in Frames
  <2>1. e.paddr = firstpaddr + f
    BY <1>3, <1>4
  <2>2. f \in Int /\ g \in Int
    BY SMTT(30) DEF Frames
  <2>3. e.paddr = firstpaddr + g => f = g
    BY SMTT(30), <1>1, <2>1, <2>2
  <2>4. e = Resident(g) => e.paddr = firstpaddr + g
    BY SMTT(30) DEF Resident
  <2> QED
    BY <1>4, <2>3, <2>4
<1>5. ASSUME NEW s \in Slots, e = Swapped(s)
      PROVE  /\ e \in PtEntry /\ ~e.in_mem /\ e.in_swap /\ e # NoPage
             /\ e.paddr = s
  BY <1>1, <1>5 DEF NoPage, Resident, Swapped, PtEntry, Frames, Slots
<1>6. ASSUME NEW s \in Slots, e = Swapped(s)
      PROVE  \A g \in Frames : e.paddr # firstpaddr + g /\ e # Resident(g)
  BY SMTT(30), <1>1, <1>5, <1>6 DEF Frames, Slots, Resident
<1>7. e = NoPage \/ (\E f \in Frames : e = Resident(f)) \/ (\E s \in Slots : e = Swapped(s))
  BY DEF Entry
<1>8. ASSUME NEW f \in Frames, e = Resident(f)
      PROVE  \A s \in Slots : e # Swapped(s)
  BY SMTT(30), <1>3, <1>8 DEF Swapped
<1> QED
  BY <1>2, <1>3, <1>4, <1>5, <1>6, <1>7, <1>8

\* What the three kinds of entries are.
LEMMA KindFacts ==
  /\ NoPage \in Entry /\ ~NoPage.in_mem /\ ~NoPage.in_swap
  /\ \A f \in Frames : /\ Resident(f) \in Entry /\ Resident(f).in_mem /\ ~Resident(f).in_swap
                       /\ Resident(f).paddr = firstpaddr + f /\ Resident(f) # NoPage
                       /\ Resident(f).paddr - firstpaddr = f
                       /\ \A s \in Slots : Resident(f) # Swapped(s)
                       /\ \A g \in Frames : Resident(f) = Resident(g) => f = g
  /\ \A s \in Slots : /\ Swapped(s) \in Entry /\ ~Swapped(s).in_mem /\ Swapped(s).in_swap
                      /\ Swapped(s).paddr = s /\ Swapped(s) # NoPage
                      /\ \A r \in Slots : Swapped(s) = Swapped(r) => s = r
<1>1. firstpaddr \in Nat
  BY PagingAssumption
<1>2. /\ ~NoPage.in_mem /\ ~NoPage.in_swap
      /\ \A f \in Frames : /\ Resident(f).in_mem /\ ~Resident(f).in_swap
                           /\ Resident(f).paddr = firstpaddr + f
                           /\ Resident(f).paddr - firstpaddr = f
      /\ \A s \in Slots : /\ ~Swapped(s).in_mem /\ Swapped(s).in_swap
                          /\ Swapped(s).paddr = s
  BY SMTT(30), <1>1 DEF NoPage, Resident, Swapped, Frames
<1>3. /\ NoPage \in Entry
      /\ \A f \in Frames : Resident(f) \in Entry
      /\ \A s \in Slots : Swapped(s) \in Entry
  BY DEF Entry
<1>4. /\ \A f \in Frames : Resident(f) # NoPage /\ \A s \in Slots : Resident(f) # Swapped(s)
      /\ \A s \in Slots : Swapped(s) # NoPage
  BY <1>2
<1>5. \A f \in Frames : \A g \in Frames : Resident(f) = Resident(g) => f = g
  BY <1>2
<1>6. \A s \in Slots : \A r \in Slots : Swapped(s) = Swapped(r) => s = r
  BY <1>2
<1> QED
  BY <1>2, <1>3, <1>4, <1>5, <1>6

\* 0 is a frame and a slot, and not a page.
LEMMA Zero == 0 \in Frames /\ 0 \in Slots /\ Pages \subseteq Nat /\ 0 \notin Pages
  BY SMTT(30), PagingAssumption, CoremapAssumption, SwapfileAssumption DEF Frames, Slots

\* The order of the pages, as the loops over a page table use it.
LEMMA PageOrder ==
  /\ \A i \in Pages : i \in Nat /\ i + 1 \in Nat /\ i >= 1 /\ i >= i /\ ~(i < i)
  /\ \A i, v \in Pages : /\ v >= i + 1 \/ v < i \/ v = i
                         /\ v < i => ~(v >= i) /\ ~(v >= i + 1)
                         /\ v >= i => ~(v < i)
                         /\ v >= i + 1 => v >= i /\ v # i /\ ~(v < i) /\ i < v
  /\ \A i, j, v \in Pages : j >= i + 1 => /\ v < i => v < j
                                          /\ v >= j => v >= i /\ v # i /\ v >= i + 1
                                          /\ v < j => v < i \/ v = i \/ v >= i + 1
  BY SMTT(30), Zero

\* Frames are not NULL.
LEMMA FrameNotNull ==
  ASSUME NEW f \in Frames
  PROVE  f # NULL
  BY SMTT(30), PagingAssumption DEF Frames

\* The types of the local variables of a thread.
LEMMA LocalFacts ==
  ASSUME Types, NEW t \in Threads
  PROVE  /\ th[t] \in Local /\ th[t].pc \in PCs /\ th[t].as \in AddrSpaces \cup {NULL}
         /\ th[t].i \in Pages \cup {0} /\ th[t].frame \in Frames /\ th[t].slot \in Slots
<1>1. th[t] \in Local
  BY DEF Types
<1> QED
  BY <1>1 DEF Local

\* What Roles says of the thread that has the CPU.
LEMMA OnFacts ==
  ASSUME Types, Roles, NEW t, NEW pc, On(t, pc)
  PROVE  /\ Running /\ curthread = t /\ t \in Threads /\ th[t].pc = pc /\ Role(t)
         /\ t # kproc => t \in AddrSpaces
  BY PagingAssumption DEF On, Roles, Running, Types

\* The address space a thread works on.
LEMMA WorkFacts ==
  ASSUME Types, Roles, Running, NEW t \in Threads, th[t].pc \notin Idle
  PROVE  /\ Role(t) /\ th[t].as \in AddrSpaces /\ th[t].as # NULL
         /\ th[t].pc \in Faulting \cup {"thread_fork"} => t \in AddrSpaces /\ t # kproc
         /\ th[t].pc \in Faulting => th[t].i \in Pages
         /\ th[t].as = t => th[t].pc \in Faulting
<1>1. Role(t)
  BY DEF Roles
<1>2. th[t].as # NULL /\ th[t].as \in AddrSpaces
  BY <1>1, LocalFacts DEF Role
<1>3. th[t].pc \in Faulting \cup {"thread_fork"} => t # kproc
  BY <1>1 DEF Role, Faulting, Destroying
<1>4. t # kproc => t \in AddrSpaces
  BY PagingAssumption
<1> QED
  BY <1>1, <1>2, <1>3, <1>4 DEF Role

\* Who works on the address space of another process, by where that process is.
LEMMA Workers ==
  ASSUME Types, Roles, Running, NEW u \in Threads, NEW a \in AddrSpaces, th[u].as = a, u # a
  PROVE  /\ th[a].pc \notin {"none", "leaving"}
         /\ th[a].pc = "embryo" => th[u].pc \in Faulting \cup {"thread_fork"}
         /\ th[a].pc \in Ended => th[u].pc \in Destroying \cup {"proc_wait"}
         /\ th[a].pc \notin Ended \cup {"embryo"} => th[u].pc = "proc_wait"
         /\ th[u].pc \notin Idle
<1>1. Role(u) /\ th[u].pc \in PCs /\ th[u].as # NULL
  BY CoremapAssumption, LocalFacts DEF Roles
<1>2. th[u].pc \notin Idle
  BY <1>1 DEF Role
<1>3. th[u].pc \in Faulting \cup Destroying \cup {"thread_fork", "proc_wait"}
  BY <1>1, <1>2 DEF PCs
<1>4. /\ th[u].pc \in Faulting \cup {"thread_fork"} => th[a].pc = "embryo"
      /\ th[u].pc \in Destroying => th[a].pc \in Ended
      /\ th[u].pc = "proc_wait" => th[a].pc \notin {"none", "embryo", "leaving"}
  BY <1>1 DEF Role
<1> QED
  BY <1>2, <1>3, <1>4 DEF Ended

\* A free frame is one whose flags are zero.
LEMMA AvailableFacts ==
  ASSUME CoremapTypeOK, NEW i \in Frames
  PROVE  Available(i) <=> coremap[i].flags = 0
  BY SMTT(30) DEF CoremapTypeOK, Available, CUSED, CRES, c_entry

\* getPage takes one free frame.
LEMMA GetPageEffect ==
  ASSUME CoremapTypeOK, NEW r \in BOOLEAN, NEW as \in AddrSpaces \cup {NULL}, NEW i \in Frames,
         getPage(r, as, i)
  PROVE  /\ CoremapTypeOK'
         /\ coremap[i].flags = 0 /\ coremap'[i].allocpages = 1
         /\ r => Tag(i, 3, NULL)'
         /\ ~r => Tag(i, 2, as)'
         /\ \A j \in Frames : j # i => coremap'[j] = coremap[j]
<1> DEFINE d == set_coreentry(coremap[i], r, as)
           e == [d EXCEPT !.allocpages = 1]
<1>1. coremap[i] \in c_entry /\ coremap[i].flags = 0
  BY AvailableFacts DEF CoremapTypeOK, getPage
<1>2. d \in c_entry /\ (r => d.flags = 3 /\ d.as = NULL) /\ (~r => d.flags = 2 /\ d.as = as)
  <2>1. CASE r
    BY <1>1, <2>1 DEF set_coreentry, c_entry
  <2>2. CASE ~r
    BY <1>1, <2>2 DEF set_coreentry, c_entry
  <2> QED
    BY <2>1, <2>2
<1>3. e \in c_entry /\ e.flags = d.flags /\ e.as = d.as /\ e.allocpages = 1
  <2> HIDE DEF d
  <2> QED
    BY SMTT(30), <1>2, CoremapAssumption DEF c_entry
<1>4. coremap' = [coremap EXCEPT ![i] = e]
  BY DEF getPage
<1> HIDE DEF e, d
<1>5. coremap'[i] = e /\ \A j \in Frames : j # i => coremap'[j] = coremap[j]
  BY <1>4 DEF CoremapTypeOK
<1>6. CoremapTypeOK'
  BY <1>3, <1>4 DEF CoremapTypeOK, getPage
<1> QED
  BY <1>1, <1>2, <1>3, <1>5, <1>6 DEF Tag

\* An entry of the TLB is invalid or a translation.
LEMMA TlbEntryFacts ==
  ASSUME TlbTypeOK, NEW k \in Entries
  PROVE  /\ tlb[k].valid \in BOOLEAN
         /\ tlb[k].valid => /\ tlb[k].vpage \in Pages /\ tlb[k].ppage \in PFrames
                            /\ tlb[k].dirty \in BOOLEAN
<1>1. tlb[k] \in TlbEntry \/ tlb[k] = INVALID
  BY DEF TlbTypeOK
<1>2. tlb[k] = INVALID => tlb[k].valid = FALSE
  BY SMTT(30) DEF INVALID
<1>3. tlb[k] \in TlbEntry => /\ tlb[k].valid = TRUE
                             /\ tlb[k].vpage \in Pages /\ tlb[k].ppage \in PFrames
                             /\ tlb[k].dirty \in BOOLEAN
  BY PagingAssumption DEF TlbEntry
<1> QED
  BY <1>1, <1>2, <1>3

\* An unsigned short is never out of its range.
LEMMA UShort ==
  ASSUME NEW n \in Int
  PROVE  n % USHORT \in 0 .. USHORT - 1
<1>1. \A m \in Nat : m > 0 => n % m \in 0 .. m - 1
  BY SMTT(30)
<1>2. USHORT \in Nat /\ USHORT > 0
  BY SMTT(30) DEF USHORT
<1> QED
  BY <1>1, <1>2

\* The operations of the swap file keep its types.
LEMMA SwapTypes ==
  ASSUME SwapTypeOK, NEW t \in Threads, NEW s \in Slots, NEW c \in Contents, NEW b \in BOOLEAN,
         \/ swap_out_start(t, s) \/ swap_out_end(t, s, c) \/ swap_in_start(t)
         \/ swap_in_end(t, s, b) \/ clear_swap(s)
  PROVE  SwapTypeOK'
<1>1. used \in Int
  BY SMTT(30) DEF SwapTypeOK
<1>2. (used + 1) % USHORT \in 0 .. USHORT - 1 /\ (used - 1) % USHORT \in 0 .. USHORT - 1
  BY SMTT(30), <1>1, UShort
<1>3. used' \in 0 .. USHORT - 1
  BY <1>2 DEF SwapTypeOK, swap_out_start, swap_out_end, swap_in_start, swap_in_end, clear_swap
<1>4. swapMap' \subseteq Slots /\ swap_lock' \in Threads \cup {NoThread}
  BY DEF SwapTypeOK, swap_out_start, swap_out_end, swap_in_start, swap_in_end, clear_swap,
         bitmap_alloc
<1>5. disk' \in [Slots -> Contents]
  BY DEF SwapTypeOK, swap_out_start, swap_out_end, swap_in_start, swap_in_end, clear_swap
<1> QED
  BY <1>3, <1>4, <1>5 DEF SwapTypeOK

-----------------------------------------------------------------------------
\* The frames.

\* What FramesOK says of one frame.
LEMMA FrameFacts ==
  ASSUME Types, Roles, FramesOK, Running
  PROVE  /\ FrameTags /\ FrameOnce /\ FrameKept /\ VictimThere
         /\ \A a \in AddrSpaces : as_pt[a] # NULL => as_pt[a] \in Frames
         /\ \A a \in AddrSpaces : t_stack[a] # NULL => t_stack[a] \in Frames
         /\ \A t \in Threads : Filling(t) => th[t].frame \in Frames /\ th[t].as \in AddrSpaces
         /\ \A t \in Threads : th[t].pc \in {"evict", "write"} =>
              th[t].frame \in Frames /\ th[t].as \in AddrSpaces
<1>1. /\ \A a \in AddrSpaces : as_pt[a] # NULL => as_pt[a] \in Frames
      /\ \A a \in AddrSpaces : t_stack[a] # NULL => t_stack[a] \in Frames
  BY DEF Types
<1>2. \A t \in Threads : th[t].pc \in {"fill", "read", "evict", "write"} =>
        th[t].frame \in Frames /\ th[t].as \in AddrSpaces
  BY WorkFacts, LocalFacts DEF Idle
<1> QED
  BY <1>1, <1>2 DEF FramesOK, Filling

\* A free frame has no holder.
LEMMA FreeFrame ==
  ASSUME Types, Roles, FramesOK, Running, NEW f \in Frames, coremap[f].flags = 0
  PROVE  /\ \A a \in AddrSpaces : as_pt[a] # f /\ t_stack[a] # f
         /\ f \notin heap
         /\ \A a \in AddrSpaces, v \in Pages : pt[a][v] # Resident(f)
         /\ \A t \in Threads : Filling(t) => th[t].frame # f
<1>1. FrameTags /\ f # NULL
  BY FrameFacts, FrameNotNull
<1> QED
  BY SMTT(30), <1>1 DEF FrameTags, Tag

\* No page leaves its frame and no thread has a new victim: VictimThere stays.
LEMMA VictimKept ==
  ASSUME Types, Roles, FramesOK, Running, PagesStay, VictimsStay
  PROVE  VictimThere'
<1>1. VictimThere /\ \A t \in Threads : th[t].pc \in {"evict", "write"} =>
                       th[t].frame \in Frames /\ th[t].as \in AddrSpaces
  BY FrameFacts
<1> SUFFICES ASSUME NEW t \in Threads, th'[t].pc \in {"evict", "write"}
             PROVE  \E v \in Pages : /\ pt'[th'[t].as][v] = Resident(th'[t].frame)
                                     /\ th'[t].pc = "write" => v \notin Text
  BY DEF VictimThere
<1>2. th'[t].pc = th[t].pc /\ th'[t].as = th[t].as /\ th'[t].frame = th[t].frame
  BY DEF VictimsStay
<1>3. PICK v \in Pages : /\ pt[th[t].as][v] = Resident(th[t].frame)
                         /\ th[t].pc = "write" => v \notin Text
  BY <1>1, <1>2 DEF VictimThere
<1>4. pt'[th[t].as][v] = Resident(th[t].frame)
  BY <1>1, <1>2, <1>3 DEF PagesStay
<1> QED
  BY <1>2, <1>3, <1>4

\* A step that has no part in the frames.
LEMMA FramesSame ==
  ASSUME Types, Roles, FramesOK, Running, UNCHANGED <<coremap, as_pt, t_stack, heap>>,
         PagesStay, FillersStay
  PROVE  FrameTags' /\ FrameOnce' /\ FrameKept'
<1>1. FrameTags /\ FrameOnce /\ FrameKept
      /\ \A t \in Threads : Filling(t) => th[t].frame \in Frames /\ th[t].as \in AddrSpaces
  BY FrameFacts
<1>2. FrameTags'
  <2>1. \A a \in AddrSpaces, v \in Pages, f \in Frames : pt'[a][v] = Resident(f) => Tag(f, 2, a)'
    BY <1>1 DEF FrameTags, PagesStay, Tag
  <2>2. \A t \in Threads : Filling(t)' => coremap'[th'[t].frame].flags = 2
                                          /\ coremap'[th'[t].frame].as = th'[t].as
    BY SMTT(30), <1>1 DEF FrameTags, FillersStay, Tag
  <2> QED
    BY <1>1, <2>1, <2>2 DEF FrameTags, Tag
<1>3. FrameOnce'
  <2>1. \A a \in AddrSpaces, v, w \in Pages, f \in Frames :
           pt'[a][v] = Resident(f) /\ pt'[a][w] = Resident(f) => v = w
    BY SMTT(30), <1>1 DEF FrameOnce, PagesStay
  <2>2. \A t \in Threads, v \in Pages : Filling(t)' => pt'[th'[t].as][v] # Resident(th'[t].frame)
    BY SMTT(30), <1>1 DEF FrameOnce, PagesStay, FillersStay
  <2> QED
    BY <1>1, <2>1, <2>2 DEF FrameOnce
<1>4. FrameKept'
  <2> SUFFICES ASSUME NEW f \in Frames, coremap'[f].flags # 0
               PROVE  Held(f)'
    BY DEF FrameKept
  <2>1. Held(f)
    BY <1>1 DEF FrameKept
  <2> QED
    BY <2>1 DEF Held, PagesStay, FillersStay
<1> QED
  BY <1>2, <1>3, <1>4

-----------------------------------------------------------------------------
\* The slots.

\* What SlotsOK says of the threads that use the swap file.
LEMMA SlotFacts ==
  ASSUME Types, Roles, SlotsOK, Running
  PROVE  /\ LockHeld /\ SlotOnce /\ SlotsMarked
         /\ \A t \in Threads : th[t].pc \in {"read", "write"} <=> swap_lock = t
         /\ \A t \in Threads : th[t].pc = "write" =>
              /\ Writing = {t} /\ th[t].slot \in swapMap /\ Settled = swapMap \ {th[t].slot}
              /\ \A a \in AddrSpaces, v \in Pages : ~Stored(a, v, th[t].slot)
         /\ \A t \in Threads : th[t].pc = "read" => Writing = {} /\ Settled = swapMap
         /\ swap_lock = NoThread => Writing = {} /\ Settled = swapMap
         /\ Settled \subseteq Slots
<1>1. LockHeld /\ SlotOnce /\ SlotsMarked
  BY DEF SlotsOK
<1>2. \A t \in Threads : th[t].pc \in {"read", "write"} <=> swap_lock = t
  BY <1>1 DEF LockHeld
<1>3. Settled \subseteq Slots
  BY DEF Types, SwapTypeOK, Settled
<1>4. ASSUME NEW t \in Threads, th[t].pc = "write"
      PROVE  /\ Writing = {t} /\ th[t].slot \in swapMap /\ Settled = swapMap \ {th[t].slot}
             /\ \A a \in AddrSpaces, v \in Pages : ~Stored(a, v, th[t].slot)
  <2>1. Writing = {t}
    BY <1>2, <1>4 DEF Writing
  <2>2. Settled = swapMap \ {th[t].slot}
    BY <2>1 DEF Settled
  <2>3. th[t].slot \in swapMap /\ th[t].slot \in Slots
    BY <1>1, <2>1, LocalFacts DEF SlotsMarked
  <2> QED
    BY <1>1, <2>1, <2>2, <2>3 DEF SlotsMarked
<1>5. ASSUME \A t \in Threads : th[t].pc # "write"
      PROVE  Writing = {} /\ Settled = swapMap
  BY <1>5 DEF Writing, Settled
<1>6. ASSUME NEW t \in Threads, th[t].pc = "read"
      PROVE  Writing = {} /\ Settled = swapMap
  BY <1>2, <1>5, <1>6
<1>7. ASSUME swap_lock = NoThread
      PROVE  Writing = {} /\ Settled = swapMap
  BY <1>2, <1>5, <1>7, SwapfileAssumption
<1> QED
  BY <1>1, <1>2, <1>3, <1>4, <1>6, <1>7

\* The pages that have a slot keep it.
LEMMA StoredSame ==
  ASSUME SwapsStay, ClearersStay
  PROVE  StoredStays
<1>1. \A a \in AddrSpaces, v \in Pages : Cleared(a, v)' <=> Cleared(a, v)
  <2> TAKE a \in AddrSpaces, v \in Pages
  <2>1. ASSUME NEW t \in Threads
        PROVE  /\ th'[t].as = a
               /\ (th'[t].pc = "clear_swap" /\ v < th'[t].i) \/ th'[t].pc \in {"freepages", "freeAs"}
               <=>
               /\ th[t].as = a
               /\ (th[t].pc = "clear_swap" /\ v < th[t].i) \/ th[t].pc \in {"freepages", "freeAs"}
    BY DEF ClearersStay, Destroying
  <2> QED
    BY <2>1 DEF Cleared
<1> QED
  BY <1>1 DEF Stored, StoredStays, SwapsStay

\* The lock of the swap file may change hands, but no slot does.
LEMMA SlotsKept ==
  ASSUME Types, Roles, SlotsOK, Running, UNCHANGED <<swapMap, used>>, LockHeld', StoredStays,
         \A t \in Threads : /\ th'[t].pc = "write" <=> th[t].pc = "write"
                            /\ th[t].pc = "write" => th'[t].slot = th[t].slot
  PROVE  SlotsOK' /\ Counts
<1>1. SlotOnce /\ SlotsMarked
  BY SlotFacts
<1>2. SlotOnce'
  BY SMTT(30), <1>1 DEF SlotOnce, StoredStays
<1>3. Writing' = Writing
  BY DEF Writing
<1>4. Settled' = Settled
  <2>1. {th[t].slot : t \in Writing}' = {th[t].slot : t \in Writing}
    BY <1>3 DEF Writing
  <2> QED
    BY <2>1 DEF Settled
<1>5. SlotsMarked'
  <2>1. \A s \in Slots : s \in Settled' <=> \E a \in AddrSpaces, v \in Pages : Stored(a, v, s)'
    BY <1>1, <1>4 DEF SlotsMarked, StoredStays
  <2>2. \A t \in Writing' : th'[t].slot \in swapMap'
    BY <1>1, <1>3 DEF SlotsMarked, Writing
  <2> QED
    BY <2>1, <2>2 DEF SlotsMarked
<1> QED
  BY <1>2, <1>4, <1>5 DEF SlotsOK, Counts

\* A step that has no part in the swap file.
LEMMA SlotsSame ==
  ASSUME Types, Roles, SlotsOK, Running, UNCHANGED <<swapMap, used, swap_lock>>,
         UsersStay, StoredStays
  PROVE  SlotsOK' /\ Counts
<1>1. LockHeld'
  BY SlotFacts DEF LockHeld, UsersStay
<1> QED
  BY <1>1, SlotsKept DEF UsersStay

\* A slot is given back: by vm_fault, which has read the page, or by as_destroy.
LEMMA SlotLost ==
  ASSUME Types, Roles, SlotsOK, Running, LockHeld', Writing = {}, Writing' = {},
         NEW a \in AddrSpaces, NEW j \in Pages, NEW s \in Slots, Stored(a, j, s),
         swapMap' = swapMap \ {s}, used' = (used - 1) % USHORT,
         \A b \in AddrSpaces, v \in Pages, r \in Slots :
           Stored(b, v, r)' <=> Stored(b, v, r) /\ ~(b = a /\ v = j)
  PROVE  SlotsOK' /\ Counts
<1>1. SlotOnce /\ SlotsMarked /\ Settled = swapMap
  BY SlotFacts DEF Settled
<1>2. Settled' = Settled \ {s}
  BY <1>1 DEF Settled
<1>3. SlotOnce'
  BY SMTT(30), <1>1 DEF SlotOnce
<1>4. SlotsMarked'
  <2>1. ASSUME NEW r \in Slots
        PROVE  r \in Settled' <=> \E b \in AddrSpaces, v \in Pages : Stored(b, v, r)'
    <3>1. ASSUME r \in Settled'
          PROVE  \E b \in AddrSpaces, v \in Pages : Stored(b, v, r)'
      <4>1. r \in Settled /\ r # s
        BY <1>2, <3>1
      <4>2. PICK b \in AddrSpaces, v \in Pages : Stored(b, v, r)
        BY <1>1, <4>1 DEF SlotsMarked
      <4>3. ~(b = a /\ v = j)
        BY SMTT(30), <4>1, <4>2, KindFacts DEF Stored
      <4> QED
        BY <4>2, <4>3
    <3>2. ASSUME NEW b \in AddrSpaces, NEW v \in Pages, Stored(b, v, r)'
          PROVE  r \in Settled'
      <4>1. Stored(b, v, r) /\ ~(b = a /\ v = j)
        BY <3>2
      <4>2. r # s
        BY SMTT(30), <1>1, <4>1 DEF SlotOnce
      <4> QED
        BY <1>1, <1>2, <4>1, <4>2 DEF SlotsMarked
    <3> QED
      BY <3>1, <3>2
  <2> QED
    BY <2>1 DEF SlotsMarked
<1>5. Counts
  <2>1. s \in Settled
    BY <1>1 DEF SlotsMarked
  <2> QED
    BY <1>2, <2>1 DEF Counts
<1> QED
  BY <1>3, <1>4, <1>5 DEF SlotsOK

-----------------------------------------------------------------------------
\* The TLB.

\* What TlbOK says of the process that has the CPU.
LEMMA TlbFacts ==
  ASSUME Types, TlbOK, Running
  PROVE  /\ TlbOnce
         /\ \A k \in Entries : tlb[k].valid => tlb[k].vpage \in Pages
         /\ HasAs(curthread) => \A k \in Entries : tlb[k].valid =>
              /\ pt[curthread][tlb[k].vpage].in_mem
              /\ pt[curthread][tlb[k].vpage].paddr = tlb[k].ppage
              /\ tlb[k].dirty <=> tlb[k].vpage \notin Text
<1>1. \A k \in Entries : tlb[k].valid => tlb[k].vpage \in Pages
  BY TlbEntryFacts DEF Types
<1> QED
  BY <1>1 DEF TlbOK, TlbCoherent

\* A step that leaves the TLB alone, and the pages of the current process that
\* are in memory.
LEMMA TlbSame ==
  ASSUME Types, TlbOK, Running, UNCHANGED <<tlb, curthread>>,
         HasAs(curthread)' =>
           /\ HasAs(curthread)
           /\ \A v \in Pages : pt[curthread][v].in_mem => pt'[curthread][v] = pt[curthread][v]
  PROVE  TlbOK'
<1>1. TlbOnce'
  BY TlbFacts DEF TlbOnce
<1>2. TlbCoherent'
  <2> SUFFICES ASSUME HasAs(curthread)', NEW k \in Entries, tlb[k].valid
               PROVE  /\ pt'[curthread][tlb[k].vpage].in_mem
                      /\ pt'[curthread][tlb[k].vpage].paddr = tlb[k].ppage
                      /\ tlb[k].dirty <=> tlb[k].vpage \notin Text
    BY DEF TlbCoherent
  <2> QED
    BY TlbFacts
<1> QED
  BY <1>1, <1>2 DEF TlbOK

-----------------------------------------------------------------------------
\* What pages hold.

\* Where the content of a page is.
LEMMA HeldFacts ==
  Types => \A a \in AddrSpaces, v \in Pages :
    /\ pt[a][v] = NoPage \/ (\E f \in Frames : pt[a][v] = Resident(f))
                         \/ (\E s \in Slots : pt[a][v] = Swapped(s))
    /\ pt[a][v] = NoPage => held(a, v) = Fresh(v)
    /\ \A f \in Frames : pt[a][v] = Resident(f) => held(a, v) = ram[f]
    /\ \A s \in Slots : pt[a][v] = Swapped(s) => held(a, v) = disk[s]
<1> SUFFICES ASSUME Types, NEW a \in AddrSpaces, NEW v \in Pages
             PROVE  /\ pt[a][v] = NoPage \/ (\E f \in Frames : pt[a][v] = Resident(f))
                                         \/ (\E s \in Slots : pt[a][v] = Swapped(s))
                    /\ pt[a][v] = NoPage => held(a, v) = Fresh(v)
                    /\ \A f \in Frames : pt[a][v] = Resident(f) => held(a, v) = ram[f]
                    /\ \A s \in Slots : pt[a][v] = Swapped(s) => held(a, v) = disk[s]
  OBVIOUS
<1>1. pt[a][v] \in Entry
  BY DEF Types
<1>2. pt[a][v] = NoPage \/ (\E f \in Frames : pt[a][v] = Resident(f))
                        \/ (\E s \in Slots : pt[a][v] = Swapped(s))
  BY <1>1 DEF Entry
<1>3. pt[a][v] = NoPage => held(a, v) = Fresh(v)
  BY KindFacts DEF held, Fresh
<1>4. \A f \in Frames : pt[a][v] = Resident(f) => held(a, v) = ram[f]
  BY KindFacts DEF held
<1>5. \A s \in Slots : pt[a][v] = Swapped(s) => held(a, v) = disk[s]
  BY KindFacts DEF held
<1> QED
  BY <1>2, <1>3, <1>4, <1>5

\* A page that stays where it is, in a frame or slot nobody writes, holds what
\* it held.
LEMMA HeldKept ==
  ASSUME Types, Types', NEW a \in AddrSpaces, NEW v \in Pages, pt'[a][v] = pt[a][v],
         \A f \in Frames : pt[a][v] = Resident(f) => ram'[f] = ram[f],
         \A s \in Slots : pt[a][v] = Swapped(s) => disk'[s] = disk[s]
  PROVE  held(a, v)' = held(a, v)
<1>1. HeldFacts'
  BY HeldFacts, PTL
<1>2. CASE pt[a][v] = NoPage
  BY SMTT(30), <1>1, <1>2, HeldFacts
<1>3. ASSUME NEW f \in Frames, pt[a][v] = Resident(f) PROVE held(a, v)' = held(a, v)
  BY SMTT(30), <1>1, <1>3, HeldFacts
<1>4. ASSUME NEW s \in Slots, pt[a][v] = Swapped(s) PROVE held(a, v)' = held(a, v)
  BY SMTT(30), <1>1, <1>4, HeldFacts
<1> QED
  BY <1>2, <1>3, <1>4, HeldFacts

\* The processes that have an address space keep what they hold.
LEMMA ContentsKept ==
  ASSUME Types, Roles, ContentsOK, Running, garbled => garbled', CopiersStay, TextKept',
         \A a \in AddrSpaces : InFork(a) => HeldStays(a)
  PROVE  ContentsOK'
<1>1. CopiedSoFar'
  <2> SUFFICES ASSUME ~garbled', NEW t \in Threads,
                      th'[t].pc \in Faulting \cup {"thread_fork"}, th'[t].as # t,
                      NEW v \in Pages, th'[t].pc = "thread_fork" \/ v < th'[t].i
               PROVE  (held(th[t].as, v) = held(t, v))'
    BY DEF CopiedSoFar
  <2>1. /\ th[t].pc \in Faulting \cup {"thread_fork"} /\ th[t].as # t
        /\ th'[t].as = th[t].as
        /\ th[t].pc = "thread_fork" \/ v < th[t].i
    BY DEF CopiersStay
  <2>2. th[t].pc \notin Idle
    BY <2>1 DEF Idle, Faulting
  <2>3. t \in AddrSpaces /\ th[t].as \in AddrSpaces /\ th[th[t].as].pc = "embryo"
    BY <2>1, <2>2, WorkFacts DEF Role
  <2> PICK c \in AddrSpaces : c = th[t].as
    BY <2>3
  <2>4. InFork(t) /\ InFork(c)
    BY <2>1, <2>3 DEF InFork
  <2>5. held(t, v)' = held(t, v) /\ held(c, v)' = held(c, v)
    BY <2>3, <2>4 DEF HeldStays
  <2>6. held(c, v) = held(t, v)
    BY <2>1 DEF ContentsOK, CopiedSoFar
  <2>7. (held(c, v) = held(t, v))'
    BY <2>5, <2>6
  <2>8. c = th'[t].as
    BY <2>1
  <2> QED
    BY <2>7, <2>8
<1> QED
  BY <1>1 DEF ContentsOK

\* No memory changes when no page does.
LEMMA MemoryKept ==
  ASSUME \A a \in AddrSpaces : th[a].pc \notin Absent => HeldStays(a), AbsentStay
  PROVE  MemoryStep
<1> SUFFICES ASSUME NEW p \in AddrSpaces PROVE Memory(p)' = Memory(p)
  BY DEF MemoryStep
<1>1. CASE th[p].pc \in Absent
  BY <1>1 DEF Memory, AbsentStay
<1>2. CASE th[p].pc \notin Absent
  <2>1. [v \in Pages |-> held(p, v)]' = [v \in Pages |-> held(p, v)]
    BY <1>2 DEF HeldStays
  <2> QED
    BY <1>2, <2>1 DEF Memory, AbsentStay
<1> QED
  BY <1>1, <1>2

\* A step that moves no page and writes none.
LEMMA ContentsSame ==
  ASSUME Types, Types', Roles, ContentsOK, Running, UNCHANGED <<ram, disk>>,
         \A a \in AddrSpaces, v \in Pages : pt'[a][v] = pt[a][v]
  PROVE  /\ \A a \in AddrSpaces : HeldStays(a)
         /\ TextKept'
<1>1. \A a \in AddrSpaces : HeldStays(a)
  BY HeldKept DEF HeldStays
<1>2. TextKept'
  <2> SUFFICES ASSUME NEW a \in AddrSpaces, NEW v \in Text
               PROVE  /\ \A s \in Slots : pt'[a][v] # Swapped(s)
                      /\ \A f \in Frames : pt'[a][v] = Resident(f) => ram'[f] = "elf"
    BY DEF TextKept
  <2>1. v \in Pages
    BY DEF Pages
  <2> QED
    BY SMTT(30), <2>1 DEF ContentsOK, TextKept
<1> QED
  BY <1>1, <1>2

\* A step in which only threads without frame and slot move.
LEMMA CalmThreads ==
  ASSUME \A u \in Threads : th'[u] = th[u] \/ (th[u].pc \in Calm /\ th'[u].pc \in Calm)
  PROVE  FillersStay /\ VictimsStay /\ UsersStay /\ ClearersStay
<1>1. \A pc \in Calm : pc \notin {"fill", "read", "evict", "write"} \cup Destroying
  BY DEF Calm, Idle, Destroying
<1>2. FillersStay
  BY <1>1 DEF FillersStay, Filling
<1>3. VictimsStay
  BY <1>1 DEF VictimsStay
<1>4. UsersStay
  BY <1>1 DEF UsersStay
<1>5. ClearersStay
  BY <1>1 DEF ClearersStay
<1> QED
  BY <1>2, <1>3, <1>4, <1>5

\* A step that moves no page, writes none and leaves as_copy where it was.
LEMMA ContentsQuiet ==
  ASSUME Types, Types', Roles, ContentsOK, Running, UNCHANGED <<ram, disk, garbled>>,
         \A a \in AddrSpaces, v \in Pages : pt'[a][v] = pt[a][v], CopiersStay
  PROVE  /\ ContentsOK' /\ \A a \in AddrSpaces : HeldStays(a)
         /\ AbsentStay => MemoryStep
<1>1. (\A a \in AddrSpaces : HeldStays(a)) /\ TextKept'
  BY ContentsSame
<1>2. ContentsOK'
  BY <1>1, ContentsKept
<1>3. AbsentStay => MemoryStep
  BY <1>1, MemoryKept
<1> QED
  BY <1>1, <1>2, <1>3

\* A process that is not absent has a memory.
LEMMA MemoryThere ==
  ASSUME Types, NEW p \in AddrSpaces, th[p].pc \notin Absent
  PROVE  /\ Memory(p) = [v \in Pages |-> held(p, v)]
         /\ Memory(p) # NULL
<1>1. \A v \in Pages : held(p, v) \in Contents \cup {"undefined"}
  <2> TAKE v \in Pages
  <2>1. Fresh(v) \in Contents \cup {"undefined"}
    BY PagingAssumption DEF Fresh
  <2>2. (\A f \in Frames : ram[f] \in Contents) /\ (\A s \in Slots : disk[s] \in Contents)
    BY DEF Types, SwapTypeOK
  <2> QED
    BY <2>1, <2>2, HeldFacts
<1>2. Memory(p) = [v \in Pages |-> held(p, v)]
  BY DEF Memory
<1>3. [v \in Pages |-> held(p, v)] \in [Pages -> Contents \cup {"undefined"}]
  BY <1>1
<1> QED
  BY <1>2, <1>3, PagingAssumption

-----------------------------------------------------------------------------
\* Threads that move, entries that change, and the roles of the threads.

\* The fields of At.
LEMMA AtFacts ==
  ASSUME NEW pc \in PCs, NEW as \in AddrSpaces \cup {NULL}, NEW i \in Pages \cup {0}
  PROVE  /\ At(pc, as, i) \in Local
         /\ At(pc, as, i).pc = pc /\ At(pc, as, i).as = as /\ At(pc, as, i).i = i
         /\ At(pc, as, i).frame = 0 /\ At(pc, as, i).slot = 0
  BY Zero DEF At, Local

\* A thread moves.
LEMMA MoveFacts ==
  ASSUME Types, NEW t \in Threads, NEW r \in Local, th' = [th EXCEPT ![t] = r]
  PROVE  Changes(t, r.pc, r.as, r.i, r.frame, r.slot)
<1>1. th' \in [Threads -> Local] /\ th'[t] = r /\ \A u \in Threads : u # t => th'[u] = th[u]
  BY DEF Types
<1> QED
  BY <1>1 DEF Changes

\* The moves of one thread, in the form of Changes.
LEMMA MoveAt ==
  ASSUME Types, NEW t \in Threads, NEW pc \in PCs, NEW as \in AddrSpaces \cup {NULL},
         NEW i \in Pages \cup {0}, th' = [th EXCEPT ![t] = At(pc, as, i)]
  PROVE  Changes(t, pc, as, i, 0, 0)
<1> DEFINE r == At(pc, as, i)
<1>1. r \in Local /\ r.pc = pc /\ r.as = as /\ r.i = i /\ r.frame = 0 /\ r.slot = 0
  BY Zero DEF At, Local
<1> HIDE DEF r
<1>2. Changes(t, r.pc, r.as, r.i, r.frame, r.slot)
  BY <1>1, MoveFacts DEF r
<1> QED
  BY <1>1, <1>2

\* A thread stops working on an address space.
LEMMA MoveNowhere ==
  ASSUME Types, NEW t \in Threads, NEW pc \in PCs, th' = [th EXCEPT ![t] = Nowhere(pc)]
  PROVE  Changes(t, pc, NULL, 0, 0, 0)
  BY MoveAt DEF Nowhere

\* A thread moves on with the same local variables.
LEMMA MovePc ==
  ASSUME Types, NEW t \in Threads, NEW pc \in PCs, th' = [th EXCEPT ![t].pc = pc]
  PROVE  Changes(t, pc, th[t].as, th[t].i, th[t].frame, th[t].slot)
<1> DEFINE r == [th[t] EXCEPT !.pc = pc]
<1>1. /\ r \in Local /\ r.pc = pc /\ r.as = th[t].as /\ r.i = th[t].i /\ r.frame = th[t].frame
      /\ r.slot = th[t].slot
  BY LocalFacts DEF Local
<1>2. th' = [th EXCEPT ![t] = r]
  OBVIOUS
<1> HIDE DEF r
<1>4. Changes(t, r.pc, r.as, r.i, r.frame, r.slot)
  BY <1>1, <1>2, MoveFacts
<1> QED
  BY <1>1, <1>4

\* A thread that stays where it is keeps its role.
LEMMA RoleKept ==
  ASSUME NEW u \in Threads, Role(u), th'[u] = th[u],
         th[u].pc \in Faulting => /\ \A v \in Pages : pt'[u][v] = pt[u][v]
                                  /\ \A v \in Pages : pt'[th[u].as][v] = pt[th[u].as][v],
         th[u].pc = "clear_swap" => \A v \in Pages : pt'[th[u].as][v] = pt[th[u].as][v],
         th[u].pc \notin Idle /\ th[u].as # u =>
           \/ th'[th[u].as].pc = th[th[u].as].pc
           \/ th[u].pc = "proc_wait" /\ th'[th[u].as].pc \notin {"none", "embryo", "leaving"}
           \/ th[u].pc \in Destroying /\ th'[th[u].as].pc \in Ended
  PROVE  Role(u)'
<1> DEFINE r == th[u]
           a == th[u].as
<1>1. /\ r.pc = "menu" => u = kproc
      /\ u = kproc => r.pc \in {"menu", "proc_wait"} \cup Destroying
      /\ r.as = NULL <=> r.pc \in Idle
  BY DEF Role
<1>2. r.as = u => r.pc \in Faulting /\ ~pt'[u][r.i].in_mem
  BY DEF Role
<1>3. r.pc \in Faulting => r.i \in Pages
  BY DEF Role
<1>4. r.pc = "read" => pt'[u][r.i].in_swap
  BY <1>3 DEF Role, Faulting
<1>5. /\ r.pc \in Faulting \cup {"thread_fork"} /\ a # u => th'[a].pc = "embryo"
      /\ r.pc = "proc_wait" => th'[a].pc \notin {"none", "embryo", "leaving"}
      /\ r.pc \in Destroying => th'[a].pc \in Ended
  <2>1. r.pc = "proc_wait" \/ r.pc \in Destroying => a # u
    BY DEF Role, Destroying, Faulting
  <2>2. r.pc \in Faulting \cup Destroying \cup {"thread_fork", "proc_wait"} => r.pc \notin Idle
    BY DEF Idle, Faulting, Destroying
  <2>3. r.pc \in Faulting \cup {"thread_fork"} => r.pc # "proc_wait" /\ r.pc \notin Destroying
    BY DEF Destroying, Faulting
  <2>4. r.pc # "proc_wait" \/ r.pc \notin Destroying
    BY DEF Destroying
  <2> QED
    BY <2>1, <2>2, <2>3, <2>4 DEF Role, Ended
<1>6. r.pc \in Faulting /\ a # u => /\ pt'[u][r.i] # NoPage
                                    /\ \A v \in Pages : v >= r.i => pt'[a][v] = NoPage
  BY <1>3 DEF Role
<1>7. r.pc = "clear_swap" => r.i \in Pages /\ pt'[a][r.i].in_swap
  BY DEF Role
<1> QED
  BY <1>1, <1>2, <1>3, <1>4, <1>5, <1>6, <1>7 DEF Role

\* One thread comes to an address space nobody works on, or stays, or leaves.
LEMMA OneWorkerKept ==
  ASSUME OneWorker, NEW t \in Threads,
         \A u \in Threads : u # t => th'[u].as = th[u].as,
         \/ th'[t].as \in {NULL, t, th[t].as}
         \/ \A u \in Threads : u # t /\ th[u].as = th'[t].as => u = th[u].as
  PROVE  OneWorker'
  BY DEF OneWorker

\* The tags of the coremap stay right when only user pages and the threads' frames change.
LEMMA TagsKept ==
  ASSUME FrameTags, UNCHANGED <<coremap, as_pt, t_stack, heap>>,
         \A a \in AddrSpaces, v \in Pages, f \in Frames : pt'[a][v] = Resident(f) => Tag(f, 2, a),
         \A t \in Threads : Filling(t)' => Tag(th'[t].frame, 2, th'[t].as)
  PROVE  FrameTags'
<1>1. /\ \A a \in AddrSpaces : as_pt'[a] # NULL =>
           Tag(as_pt[a], 3, NULL)' /\ coremap'[as_pt'[a]].allocpages = 1
      /\ \A f \in heap' : Tag(f, 2, NULL)' /\ coremap'[f].allocpages = 1
  BY DEF FrameTags, Tag
<1>2. \A a \in AddrSpaces : t_stack'[a] # NULL =>
        /\ Tag(t_stack[a], 2, NULL)' /\ coremap'[t_stack'[a]].allocpages = 1
        /\ t_stack'[a] \notin heap'
  BY DEF FrameTags, Tag
<1>3. \A a \in AddrSpaces, v \in Pages, f \in Frames : pt'[a][v] = Resident(f) => Tag(f, 2, a)'
  BY DEF Tag
<1>4. \A t \in Threads : Filling(t)' => Tag(th[t].frame, 2, th[t].as)'
  BY DEF Tag
<1> QED
  BY <1>1, <1>2, <1>3, <1>4 DEF FrameTags

\* The first frames of the coremap are the first physical ones after the kernel's.
LEMMA PhysicalFrame ==
  ASSUME NEW f \in Frames
  PROVE  firstpaddr + f \in PFrames
<1>1. /\ firstpaddr \in Nat /\ coremapSize \in Nat
      /\ PFrames = firstpaddr .. firstpaddr + coremapSize - 1
  BY PagingAssumption, CoremapAssumption
<1>2. firstpaddr + f \in firstpaddr .. firstpaddr + coremapSize - 1
  BY SMTT(30), <1>1 DEF Frames
<1> QED
  BY <1>1, <1>2

\* A garbled page stays garbled in a step that leaves the flag alone.
LEMMA GarbledSame ==
  ASSUME UNCHANGED garbled
  PROVE  garbled => garbled'
  BY SMTT(30)

\* Only a thread that has exited has a zombie on its CPU.
LEMMA NoZombies ==
  ASSUME Types, Roles, NEW t, NEW pc, On(t, pc), pc \notin {"exited", "none"}
  PROVE  zombies = {}
  BY OnFacts DEF Roles, ZombieLast

\* A step that touches none of the variables of Roles keeps it.
LEMMA RolesSame ==
  ASSUME Roles, Running, UNCHANGED <<th, pt, as_pt, t_stack, zombies, curthread>>
  PROVE  Roles'
<1>1. \A t \in Threads : Role(t)'
  BY DEF Roles, Role
<1>2. OneWorker'
  BY DEF Roles, OneWorker
<1>3. ZombieLast'
  BY DEF Roles, ZombieLast
<1>4. TablesThere' /\ StacksThere'
  BY DEF Roles, TablesThere, StacksThere
<1>5. NoPagesYet' /\ Alone'
  BY DEF Roles, NoPagesYet, Alone
<1> QED
  BY <1>1, <1>2, <1>3, <1>4, <1>5 DEF Roles

\* Nothing is claimed of a machine that has stopped.
LEMMA RolesStopped ==
  ASSUME ~Running'
  PROVE  Roles' /\ FramesOK' /\ SlotsOK' /\ TlbOK' /\ ContentsOK'
  BY DEF Roles, FramesOK, SlotsOK, TlbOK, ContentsOK

\* The parts of Roles that a step with no part in them keeps.
LEMMA RestKept ==
  ASSUME Types, Roles, Running, zombies = {}, UNCHANGED <<as_pt, t_stack, zombies>>,
         \A p \in AddrSpaces :
           /\ th'[p].pc \in {"none", "new", "leaving"} <=> th[p].pc \in {"none", "new", "leaving"}
           /\ th'[p].pc \in {"none", "embryo", "exited"} <=> th[p].pc \in {"none", "embryo", "exited"}
           /\ th[p].pc \in {"none", "leaving"} => th'[p].pc \in {"none", "leaving"}
           /\ th[p].pc \in {"none", "new", "leaving"} => \A v \in Pages : pt'[p][v] = pt[p][v],
         \A u \in Threads : /\ th'[u].pc = "freeAs" <=> th[u].pc = "freeAs"
                            /\ th[u].pc = "freeAs" => th'[u].as = th[u].as,
         th'[kproc].as = th[kproc].as
  PROVE  ZombieLast' /\ TablesThere' /\ StacksThere' /\ NoPagesYet' /\ Alone'
<1>1. TablesThere'
  BY SMTT(30) DEF Roles, TablesThere
<1>2. StacksThere'
  BY DEF Roles, StacksThere
<1>3. NoPagesYet'
  BY DEF Roles, NoPagesYet
<1>4. Alone'
  BY DEF Roles, Alone
<1>5. ZombieLast'
  BY DEF ZombieLast
<1> QED
  BY <1>1, <1>2, <1>3, <1>4, <1>5

\* A thread in vm_fault or as_copy has its role.
LEMMA FaultRole ==
  ASSUME NEW t \in Threads, t # kproc, NEW pc \in Faulting, NEW a \in AddrSpaces, NEW i \in Pages,
         th'[t].pc = pc, th'[t].as = a, th'[t].i = i,
         a = t => ~pt'[t][i].in_mem,
         pc = "read" => pt'[t][i].in_swap,
         a # t => /\ th'[a].pc = "embryo" /\ pt'[t][i] # NoPage
                  /\ \A v \in Pages : v >= i => pt'[a][v] = NoPage
  PROVE  Role(t)'
<1>1. a # NULL
  BY CoremapAssumption
<1>2. pc \notin Idle \cup Destroying \cup {"proc_wait", "thread_fork", "menu", "clear_swap"}
  BY DEF Faulting, Idle, Destroying
<1> QED
  BY <1>1, <1>2 DEF Role

\* A thread that works on nothing has its role, and one that waits for a
\* process or destroys its address space.
LEMMA IdleRole ==
  ASSUME NEW t \in Threads, NEW pc \in Idle, th'[t].pc = pc, th'[t].as = NULL,
         pc = "menu" <=> t = kproc
  PROVE  Role(t)'
<1>1. pc \notin Faulting \cup Destroying \cup {"proc_wait", "thread_fork", "read", "clear_swap"}
  BY DEF Faulting, Idle, Destroying
<1>2. t # NULL
  BY CoremapAssumption, PagingAssumption
<1> QED
  BY <1>1, <1>2 DEF Role

\* A thread keeps its role when no step touches its process or the one it
\* works on, except in ways that do not matter to it.
LEMMA OtherRole ==
  ASSUME Types, Roles, Running, NEW u \in Threads, th'[u] = th[u],
         \A b \in AddrSpaces :
           \/ th'[b].pc = th[b].pc /\ \A v \in Pages : pt'[b][v] = pt[b][v]
           \/ u # b /\ th[u].as # b
           \/ /\ u # b /\ th[b].pc \notin Ended \cup {"embryo"}
              /\ th'[b].pc \notin {"none", "embryo", "leaving"}
           \/ /\ u # b /\ th[b].pc \in Ended /\ th'[b].pc \in Ended
              /\ \A v \in Pages : pt'[b][v] = pt[b][v]
           \/ u = b /\ th[b].pc = "embryo"
  PROVE  Role(u)'
<1> DEFINE a == th[u].as
<1>1. Role(u)
  BY DEF Roles
<1>2. th[u].pc \notin Idle => a \in AddrSpaces
  BY WorkFacts
<1>3. th[u].pc \in Faulting => u \in AddrSpaces /\ \A v \in Pages : pt'[u][v] = pt[u][v]
  BY WorkFacts DEF Idle, Faulting
<1>4. ASSUME th[u].pc \notin Idle, a # u
      PROVE  /\ \/ th'[a].pc = th[a].pc
                \/ th[u].pc = "proc_wait" /\ th'[a].pc \notin {"none", "embryo", "leaving"}
                \/ th[u].pc \in Destroying /\ th'[a].pc \in Ended
             /\ th[u].pc # "proc_wait" => \A v \in Pages : pt'[a][v] = pt[a][v]
  <2>1. a \in AddrSpaces
    BY <1>2, <1>4
  <2>2. CASE th'[a].pc = th[a].pc /\ \A v \in Pages : pt'[a][v] = pt[a][v]
    BY <2>2
  <2>3. CASE th[a].pc \notin Ended \cup {"embryo"} /\ th'[a].pc \notin {"none", "embryo", "leaving"}
    <3>1. th[u].pc = "proc_wait"
      BY <1>4, <2>1, <2>3, Workers
    <3> QED
      BY <2>3, <3>1
  <2>4. CASE /\ th[a].pc \in Ended /\ th'[a].pc \in Ended
             /\ \A v \in Pages : pt'[a][v] = pt[a][v]
    <3>1. th[u].pc \in Destroying \cup {"proc_wait"}
      BY <1>4, <2>1, <2>4, Workers
    <3>2. th'[a].pc \notin {"none", "embryo", "leaving"}
      BY <2>4 DEF Ended
    <3> QED
      BY <2>4, <3>1, <3>2
  <2> HIDE DEF a
  <2> QED
    BY <1>4, <2>1, <2>2, <2>3, <2>4 DEF a
<1>5. th[u].pc \in Faulting \cup {"clear_swap"} => th[u].pc \notin Idle /\ th[u].pc # "proc_wait"
  BY DEF Idle, Faulting
<1>6. th[u].pc \in Faulting => \A v \in Pages : pt'[a][v] = pt[a][v]
  BY <1>3, <1>4, <1>5
<1>7. th[u].pc = "clear_swap" => \A v \in Pages : pt'[a][v] = pt[a][v]
  BY <1>1, <1>4, <1>5 DEF Role, Faulting
<1> QED
  BY <1>1, <1>3, <1>4, <1>6, <1>7, RoleKept

-----------------------------------------------------------------------------
\* Whole steps.

\* A step in which threads move, and frames, slots and pages stay.
LEMMA ThreadsMove ==
  ASSUME Types, Types', Roles, FramesOK, SlotsOK, ContentsOK, Running,
         UNCHANGED <<coremap, as_pt, t_stack, heap, swapMap, used, swap_lock, disk, ram, garbled>>,
         \A a \in AddrSpaces, v \in Pages : pt'[a][v] = pt[a][v],
         FillersStay, VictimsStay, UsersStay, StoredStays, CopiersStay
  PROVE  /\ FramesOK' /\ SlotsOK' /\ Counts /\ ContentsOK'
         /\ \A a \in AddrSpaces : HeldStays(a)
         /\ AbsentStay => MemoryStep
<1>1. PagesStay
  BY DEF PagesStay
<1>2. FramesOK'
  BY <1>1, FramesSame, VictimKept DEF FramesOK
<1>3. SlotsOK' /\ Counts
  BY SlotsSame
<1> QED
  BY <1>2, <1>3, ContentsQuiet

\* The pages that a step leaves where they are keep their slots.
LEMMA StoredQuiet ==
  ASSUME \A a \in AddrSpaces, v \in Pages : pt'[a][v] = pt[a][v], ClearersStay
  PROVE  PagesStay /\ SwapsStay /\ StoredStays
<1>1. PagesStay /\ SwapsStay
  BY DEF PagesStay, SwapsStay
<1> QED
  BY <1>1, StoredSame

\* The kernel takes or frees a frame; threads without frame and slot move.
LEMMA KernelSteps ==
  ASSUME Types, Types', Roles, FramesOK, SlotsOK, ContentsOK, Running,
         FrameTags' /\ FrameOnce' /\ FrameKept', UNCHANGED <<swapMap, used, swap_lock>>,
         \A a \in AddrSpaces, v \in Pages : pt'[a][v] = pt[a][v],
         VictimsStay, UsersStay, StoredStays
  PROVE  FramesOK' /\ SlotsOK' /\ Counts
<1>1. PagesStay
  BY DEF PagesStay
<1> QED
  BY <1>1, VictimKept, SlotsSame DEF FramesOK

\* Where as_copy goes on, and where as_destroy does.
LEMMA CopyFromFacts ==
  ASSUME Types, PagesOrdered, NEW t \in AddrSpaces, NEW c \in AddrSpaces, NEW i \in Nat
  PROVE  LET r == copyFrom(t, c, i)
         IN  /\ r \in Local /\ r.as = c /\ r.frame = 0 /\ r.slot = 0
             /\ \/ /\ r.pc = "thread_fork" /\ r.i = 0
                   /\ \A v \in Pages : v >= i => pt[t][v] = NoPage
                \/ /\ r.pc = "getPage" /\ r.i \in Pages /\ r.i >= i /\ pt[t][r.i] # NoPage
                   /\ \A v \in Pages : v >= i /\ v < r.i => pt[t][v] = NoPage
<1> DEFINE S == ToCopy(t, i)
           m == CHOOSE v \in S : \A w \in S : v <= w
<1>1. \A v \in Pages : v \in S <=> v >= i /\ pt[t][v] # NoPage
  <2>1. \A v \in Pages : pt[t][v] \in Entry
    BY DEF Types
  <2> QED
    BY <2>1, EntryFacts DEF ToCopy
<1>2. S \subseteq Pages
  BY DEF ToCopy
<1>3. CASE S = {}
  <2>1. copyFrom(t, c, i) = At("thread_fork", c, 0)
    BY <1>3 DEF copyFrom
  <2>2. "thread_fork" \in PCs
    BY DEF PCs
  <2> QED
    BY SMTT(30), <1>1, <1>3, <2>1, <2>2, AtFacts
<1>4. CASE S # {}
  <2>1. copyFrom(t, c, i) = At("getPage", c, m)
    BY <1>4 DEF copyFrom
  <2>2. "getPage" \in PCs
    BY DEF PCs, Faulting
  <2>3. m \in S /\ \A w \in S : m <= w
    <3>1. \E v \in S : \A w \in S : v <= w
      BY <1>2, <1>4 DEF PagesOrdered
    <3> QED
      BY <3>1
  <2> HIDE DEF S, m
  <2>4. m \in Pages /\ m >= i /\ pt[t][m] # NoPage
    BY <1>1, <1>2, <2>3
  <2>5. \A v \in Pages : v >= i /\ v < m => pt[t][v] = NoPage
    BY SMTT(30), <1>1, <2>3, <2>4, Zero
  <2>6. /\ At("getPage", c, m) \in Local
        /\ At("getPage", c, m).pc = "getPage" /\ At("getPage", c, m).as = c
        /\ At("getPage", c, m).i = m
        /\ At("getPage", c, m).frame = 0 /\ At("getPage", c, m).slot = 0
    BY SMTT(30), <2>2, <2>4, AtFacts
  <2> QED
    BY <2>1, <2>4, <2>5, <2>6
<1> QED
  BY <1>3, <1>4

\* The loop of as_copy goes on with the first page that is somewhere.
LEMMA CopyNextFacts ==
  ASSUME Types, PagesOrdered, NEW t \in AddrSpaces, NEW c \in AddrSpaces, NEW i \in Nat,
         th'[t] = copyFrom(t, c, i)
  PROVE  CopyNext(t, c, i)
  BY SMTT(30), CopyFromFacts DEF CopyNext, Placed

-----------------------------------------------------------------------------
\* The steps.

\* A step after which the machine has stopped.
LEMMA StopsStep ==
  ASSUME Types, NEW why, why # "running", Stops(why)
  PROVE  StepOK
<1>1. Types'
  BY DEF Stops, Types, memVars, procVars, coremapVars, swapVars, tlbVars, CoremapTypeOK,
         SwapTypeOK, TlbTypeOK
<1>2. ~Running'
  BY DEF Stops, Running
<1> QED
  BY <1>1, <1>2, RolesStopped DEF StepOK, Inv

=============================================================================

---------------------------- MODULE PagingProofs ----------------------------
(***************************************************************************)
(* Theorems about demand paging, from the inductive invariant of module    *)
(* PagingInv, which every step keeps (modules PagingFaults, PagingLife).   *)
(***************************************************************************)
EXTENDS PagingFaults, PagingLife, FiniteSetTheorems, WellFoundedInduction, TLAPS

\* A leaf is proved by Zenon unless it says SMT.
USE ZenonT(30)

\* Page numbers are natural numbers, so a set of pages has a first one: as_copy
\* and as_destroy go through the page table in order.
LEMMA FirstPage == PagesOrdered
<1> SUFFICES ASSUME NEW S \in SUBSET Pages, S # {}
             PROVE  \E v \in S : \A w \in S : v <= w
  BY DEF PagesOrdered
<1>1. S \subseteq Nat
  BY PagingAssumption
<1>2. \E v \in S : \A w \in S : ~(<<w, v>> \in OpToRel(<, Nat))
  BY <1>1, WFMin, NatLessThanWellFounded
<1>3. \A v, w \in S : ~(<<w, v>> \in OpToRel(<, Nat)) => v <= w
  BY SMTT(30), <1>1 DEF OpToRel
<1> QED
  BY <1>2, <1>3

\* used, an unsigned short, follows the number of slots up and down.
LEMMA FiniteSlots ==
  ASSUME NEW S \in SUBSET Slots
  PROVE  IsFiniteSet(S)
<1>1. 0 \in Int /\ NSlots - 1 \in Int
  BY SMTT(30), SwapfileAssumption
<1>2. IsFiniteSet(Slots)
  BY <1>1, FS_Interval DEF Slots
<1> QED
  BY <1>2, FS_Subset

\* used follows the number of slots that hold a page, step by step.
LEMMA CountFollows ==
  ASSUME Types, Types', Counts, used = Cardinality(Settled) % USHORT
  PROVE  used' = Cardinality(Settled') % USHORT
<1>1. Settled \in SUBSET Slots /\ IsFiniteSet(Settled)
  BY FiniteSlots DEF Types, SwapTypeOK, Settled
<1>2. PICK n \in Nat : n = Cardinality(Settled)
  BY <1>1, FS_CardinalityType
<1>3. CASE Settled' = Settled /\ used' = used
  BY <1>3
<1>4. ASSUME NEW s \in Slots \ Settled,
             Settled' = Settled \cup {s} /\ used' = (used + 1) % USHORT
      PROVE  used' = Cardinality(Settled') % USHORT
  <2>1. Cardinality(Settled \cup {s}) = n + 1
    BY SMTT(30), <1>1, <1>2, FS_AddElement
  <2>2. ((n % USHORT) + 1) % USHORT = (n + 1) % USHORT
    BY SMTT(30) DEF USHORT
  <2> QED
    BY <1>2, <1>4, <2>1, <2>2
<1>5. ASSUME NEW s \in Settled,
             Settled' = Settled \ {s} /\ used' = (used - 1) % USHORT
      PROVE  used' = Cardinality(Settled') % USHORT
  <2>1. Cardinality(Settled \ {s}) = n - 1
    BY SMTT(30), <1>1, <1>2, FS_RemoveElement
  <2>2. ((n % USHORT) - 1) % USHORT = (n - 1) % USHORT
    BY SMTT(30) DEF USHORT
  <2> QED
    BY <1>2, <1>5, <2>1, <2>2
<1> QED
  BY <1>3, <1>4, <1>5 DEF Counts

-----------------------------------------------------------------------------
\* The inductive invariant.

\* Nothing is in use at boot.
LEMMA InitInv == Init => Inv /\ CountOK
<1> SUFFICES ASSUME Init
             PROVE  Inv /\ CountOK
  OBVIOUS
<1>1. Types
  <2>1. CoremapTypeOK
    <3>1. [flags |-> 0, as |-> NULL, allocpages |-> 0] \in c_entry
      BY SMTT(30), CoremapAssumption DEF c_entry
    <3> QED
      BY <3>1, Zero DEF Init, coremap_init, CoremapTypeOK
  <2>2. SwapTypeOK
    <3>1. 0 \in 0 .. USHORT - 1
      BY SMTT(30) DEF USHORT
    <3> QED
      BY <3>1 DEF Init, swapmap_init, SwapTypeOK
  <2>3. TlbTypeOK
    <3>1. 0 \in Entries
      BY SMTT(30), TlbAssumption DEF Entries
    <3> QED
      BY <3>1 DEF Init, tlb_reset, TlbTypeOK
  <2>4. ram \in [Frames -> Contents]
    BY PagingAssumption DEF Init
  <2>5. th \in [Threads -> Local]
    <3>1. "menu" \in PCs /\ "none" \in PCs
      BY DEF PCs, Idle
    <3> QED
      BY <3>1, NowhereFacts DEF Init
  <2>6. created \in 0 .. MaxCreated /\ kproc \in Threads
    BY SMTT(30), PagingAssumption DEF Init
  <2>7. pt \in [AddrSpaces -> [Pages -> Entry]]
    BY KindFacts DEF Init
  <2> QED
    BY <2>1, <2>2, <2>3, <2>4, <2>5, <2>6, <2>7 DEF Init, Types
<1>2. /\ th[kproc].pc = "menu" /\ \A t \in Threads : t # kproc => th[t].pc = "none"
      /\ \A t \in Threads : th[t].as = NULL
  <2>1. \A t \in Threads : th[t] = Nowhere(IF t = kproc THEN "menu" ELSE "none")
    BY DEF Init
  <2>2. kproc \in Threads
    BY PagingAssumption
  <2>3. th[kproc] = Nowhere("menu") /\ \A t \in Threads : t # kproc => th[t] = Nowhere("none")
    BY <2>1, <2>2
  <2>4. "menu" \in PCs /\ "none" \in PCs
    BY DEF PCs, Idle
  <2>5. /\ Nowhere("menu").pc = "menu" /\ Nowhere("menu").as = NULL
        /\ Nowhere("none").pc = "none" /\ Nowhere("none").as = NULL
    BY <2>4, NowhereFacts
  <2> QED
    BY <2>3, <2>5
<1>3. /\ \A a \in AddrSpaces : as_pt[a] = NULL /\ t_stack[a] = NULL /\ a \in Threads
      /\ \A a \in AddrSpaces, v \in Pages : pt[a][v] = NoPage
      /\ heap = {} /\ zombies = {} /\ curthread = kproc /\ swapMap = {} /\ swap_lock = NoThread
      /\ used = 0
  BY PagingAssumption DEF Init, swapmap_init
<1>4. \A a \in AddrSpaces : th[a].pc = "none" /\ th[a].as = NULL /\ a # NULL /\ a # kproc
  BY <1>2, <1>3, PagingAssumption, CoremapAssumption
<1>5. \A t \in Threads : th[t].pc \in {"menu", "none"}
  BY <1>2
<1>6. Roles
  <2>1. \A t \in Threads : Role(t)
    BY <1>2, <1>5, PagingAssumption, CoremapAssumption DEF Role, Idle, Faulting, Destroying
  <2>2. OneWorker /\ ZombieLast
    BY <1>2, <1>3 DEF OneWorker, ZombieLast
  <2>3. TablesThere /\ StacksThere
    BY <1>3, <1>4 DEF TablesThere, StacksThere
  <2>4. NoPagesYet /\ Alone
    BY <1>3, <1>4 DEF NoPagesYet, Alone
  <2> QED
    BY <2>1, <2>2, <2>3, <2>4 DEF Roles
<1>7. FramesOK
  <2>1. \A t \in Threads : ~Filling(t)
    BY <1>5 DEF Filling
  <2>2. FrameTags /\ FrameOnce
    BY <1>3, <2>1, KindFacts DEF FrameTags, FrameOnce
  <2>3. FrameKept
    BY DEF FrameKept, Init, coremap_init
  <2>4. VictimThere
    BY <1>5 DEF VictimThere
  <2> QED
    BY <2>2, <2>3, <2>4 DEF FramesOK
<1>8. Writing = {} /\ Settled = {}
  BY <1>3, <1>5 DEF Writing, Settled
<1>9. SlotsOK
  <2>1. LockHeld
    BY <1>3, <1>5, SwapfileAssumption DEF LockHeld
  <2>2. \A a \in AddrSpaces, v \in Pages, s \in Slots : ~Stored(a, v, s)
    BY <1>3, KindFacts DEF Stored
  <2>3. SlotOnce /\ SlotsMarked
    BY <1>8, <2>2 DEF SlotOnce, SlotsMarked
  <2> QED
    BY <2>1, <2>3 DEF SlotsOK
<1>10. TlbOK
  <2>1. \A k \in Entries : ~tlb[k].valid
    BY DEF Init, tlb_reset, INVALID
  <2> QED
    BY <2>1 DEF TlbOK, TlbOnce, TlbCoherent
<1>11. ContentsOK
  <2>1. TextKept
    <3>1. \A v \in Text : v \in Pages
      BY DEF Pages
    <3> QED
      BY <1>3, <3>1, KindFacts DEF TextKept
  <2>2. CopiedSoFar
    BY <1>5 DEF CopiedSoFar, Faulting
  <2> QED
    BY <2>1, <2>2 DEF ContentsOK
<1>12. CountOK
  <2>1. 0 % USHORT = 0
    BY SMTT(30) DEF USHORT
  <2> QED
    BY <1>3, <1>8, <2>1, FS_EmptySet DEF CountOK
<1> QED
  BY <1>1, <1>6, <1>7, <1>9, <1>10, <1>11, <1>12 DEF Inv

\* Every step keeps the invariant, and does to the slots and to the memories of
\* processes what Steady says, unless the machine has stopped.
LEMMA KernelStep ==
  ASSUME Inv, NEW t \in Threads, kernelStep(t)
  PROVE  StepOK
<1>1. PagesOrdered
  BY FirstPage
<1>2. Types /\ Roles /\ FramesOK /\ SlotsOK /\ TlbOK /\ ContentsOK
  BY DEF Inv
<1>3. CASE getPage_free(t)
  BY <1>2, <1>3, GetPageFreeStep
<1>4. CASE getPage_stops(t)
  <2>1. PICK why : why # "running" /\ Stops(why)
    BY <1>4 DEF getPage_stops
  <2> QED
    BY <1>2, <2>1, StopsStep
<1>5. CASE getPage_victim(t)
  BY <1>2, <1>5, GetPageVictimStep
<1>6. CASE evict(t)
  BY <1>2, <1>6, EvictStep
<1>7. CASE swap_out(t)
  BY <1>2, <1>7, SwapOutStep
<1>8. CASE swapped_out(t)
  BY <1>2, <1>8, SwappedOutStep
<1>9. CASE load_elf_ondemand(t)
  BY <1>2, <1>9, LoadElfStep
<1>10. CASE swap_in(t)
  BY <1>2, <1>10, SwapInStep
<1>11. CASE swapped_in(t)
  BY <1>2, <1>11, SwappedInStep
<1>12. CASE copy_page(t)
  BY <1>1, <1>2, <1>12, CopyPageStep
<1>13. CASE copy_swapped(t)
  BY <1>1, <1>2, <1>13, CopySwappedStep
<1>14. CASE thread_fork(t)
  BY <1>2, <1>14, ThreadForkStep
<1>15. CASE runprogram(t)
  BY <1>2, <1>15, RunprogramStep
<1>16. CASE thread_exit(t)
  BY <1>2, <1>16, ThreadExitStep
<1>17. CASE proc_wait(t)
  BY <1>1, <1>2, <1>17, ProcWaitStep
<1>18. CASE as_destroy_slot(t)
  BY <1>1, <1>2, <1>18, DestroySlotStep
<1>19. CASE as_destroy_pt(t)
  BY <1>2, <1>19, DestroyPtStep
<1>20. CASE as_destroy_frames(t)
  BY <1>2, <1>20, DestroyFramesStep
<1> QED
  BY <1>3, <1>4, <1>5, <1>6, <1>7, <1>8, <1>9, <1>10, <1>11, <1>12, <1>13, <1>14, <1>15,
     <1>16, <1>17, <1>18, <1>19, <1>20 DEF kernelStep

\* The steps of a user program: page faults, stores, fork, _exit and waitpid.
LEMMA UserStep ==
  ASSUME Inv, NEW t \in AddrSpaces, userStep(t)
  PROVE  StepOK
<1>1. PagesOrdered
  BY FirstPage
<1>2. Types /\ Roles /\ FramesOK /\ SlotsOK /\ TlbOK /\ ContentsOK
  BY DEF Inv
<1>3. ASSUME NEW v \in Pages, vm_fault(t, v) PROVE StepOK
  BY <1>2, <1>3, VmFaultStep
<1>4. ASSUME NEW v \in Pages, userWrite(t, v) PROVE StepOK
  BY <1>2, <1>4, UserWriteStep
<1>5. ASSUME NEW v \in Pages, vm_fault_readonly(t, v) PROVE StepOK
  BY <1>2, <1>5, StopsStep DEF vm_fault_readonly
<1>6. CASE vm_fault_unmapped(t)
  BY <1>2, <1>6, StopsStep DEF vm_fault_unmapped
<1>7. CASE alloc_kpages(t)
  BY <1>2, <1>7, AllocKpagesStep
<1>8. CASE free_kpages_user(t)
  BY <1>2, <1>8, StopsStep DEF free_kpages_user
<1>9. ASSUME NEW c \in AddrSpaces, sys_fork(t, c) PROVE StepOK
  BY <1>1, <1>2, <1>9, SysForkStep
<1>10. ASSUME NEW c \in AddrSpaces, sys_waitpid(t, c) PROVE StepOK
  BY <1>2, <1>10, WaitpidStep
<1>11. CASE sys__exit(t)
  BY <1>2, <1>11, SysExitStep
<1> QED
  BY <1>3, <1>4, <1>5, <1>6, <1>7, <1>8, <1>9, <1>10, <1>11 DEF userStep

\* Every step keeps the invariant, or changes nothing.
LEMMA NextStep ==
  ASSUME Inv, [Next]_vars
  PROVE  StepOK \/ UNCHANGED vars
<1>1. Types /\ Roles /\ FramesOK /\ SlotsOK /\ TlbOK /\ ContentsOK
  BY DEF Inv
<1>2. ASSUME NEW t \in Threads, read_fails(t) \/ write_fails(t) \/ process_table_full(t)
      PROVE  StepOK
  BY <1>1, <1>2, StopsStep DEF read_fails, write_fails, process_table_full
<1>3. CASE alloc_kpages(kproc) \/ free_kpages(kproc)
  BY <1>1, <1>3, AllocKpagesStep, FreeKpagesStep
<1>4. ASSUME NEW p \in AddrSpaces, common_prog(p) PROVE StepOK
  BY <1>1, <1>4, CommonProgStep
<1>5. ASSUME NEW p \in AddrSpaces, runprogram_fails(p) PROVE StepOK
  BY <1>1, <1>5, StopsStep DEF runprogram_fails
<1>6. CASE cmd_quit
  BY <1>1, <1>6, StopsStep DEF cmd_quit
<1>7. ASSUME NEW t \in Threads, thread_switch(t) PROVE StepOK
  BY <1>1, <1>7, SwitchStep
<1>8. ASSUME NEW t \in Threads, exorcise(t) PROVE StepOK
  BY <1>1, <1>8, ExorciseStep
<1>9. ASSUME NEW t \in Threads, exorcise_user(t) PROVE StepOK
  BY <1>1, <1>9, StopsStep DEF exorcise_user
<1>10. CASE halted
  BY <1>10 DEF halted
<1> QED
  BY <1>2, <1>3, <1>4, <1>5, <1>6, <1>7, <1>8, <1>9, <1>10, KernelStep, UserStep DEF Next

\* used stays the number of slots that hold a page.
LEMMA NextInv == Inv /\ CountOK /\ [Next]_vars => Inv' /\ CountOK'
<1> SUFFICES ASSUME Inv, CountOK, [Next]_vars
             PROVE  Inv' /\ CountOK'
  OBVIOUS
<1>1. CASE StepOK
  <2>1. Inv' /\ (Running' => Running /\ Counts)
    BY <1>1 DEF StepOK, Steady
  <2>2. Types /\ Types'
    BY <2>1 DEF Inv
  <2>3. CountOK'
    BY <2>1, <2>2, CountFollows DEF CountOK
  <2> QED
    BY <2>1, <2>3
<1>2. CASE UNCHANGED vars
  <2>1. UNCHANGED <<coremap, next_svic, coremap_lock, swapMap, used, swap_lock, disk, tlb,
                    tlb_full, next_victim, ram, pt, as_pt, t_stack, heap, zombies, created,
                    garbled, th, curthread, status>>
    BY <1>2 DEF vars, memVars, procVars, coremapVars, swapVars, tlbVars
  <2>2. Types' /\ Roles'
    BY <2>1, RolesSame, RolesStopped
    DEF Inv, Types, CoremapTypeOK, SwapTypeOK, TlbTypeOK, Running
  <2>3. FramesOK' /\ SlotsOK' /\ TlbOK' /\ ContentsOK' /\ CountOK'
    <3>1. CASE ~Running
      BY <2>1, <3>1, RolesStopped DEF Running, CountOK
    <3>2. CASE Running
      <4>1. FillersStay /\ VictimsStay /\ UsersStay /\ ClearersStay
        BY <2>1, CalmThreads
      <4>2. StoredStays /\ CopiersStay
        BY <2>1, <4>1, StoredQuiet DEF CopiersStay
      <4>3. FramesOK' /\ SlotsOK' /\ Counts /\ ContentsOK'
        BY <2>1, <2>2, <3>2, <4>1, <4>2, ThreadsMove DEF Inv
      <4>4. TlbOK'
        BY <2>1, <3>2, TlbSame DEF Inv, HasAs
      <4>5. CountOK'
        BY <2>2, <3>2, <4>3, CountFollows DEF Inv, CountOK
      <4> QED
        BY <4>3, <4>4, <4>5
    <3> QED
      BY <3>1, <3>2
  <2> QED
    BY <2>2, <2>3 DEF Inv
<1> QED
  BY <1>1, <1>2, NextStep

\* The inductive invariant holds in every state of every behaviour.
LEMMA PagingInvariant == Spec => [](Inv /\ CountOK)
  BY InitInv, NextInv, PTL DEF Spec

-----------------------------------------------------------------------------
\* The theorems.

\* While a process has the CPU, every entry of the TLB is one of its page
\* table: no eviction, context switch or fork leaves a stale one.
THEOREM PagingTlb == Spec => []TlbCoherent
<1>1. Inv /\ CountOK => TlbCoherent
  BY DEF Inv, TlbOK, TlbCoherent
<1> QED
  BY <1>1, PagingInvariant, PTL

\* What the coremap says of a frame, by who holds it.
LEMMA HolderCases ==
  ASSUME Types, NEW f \in Frames, NEW h
  PROVE  h \in Holders(f) <=>
           \/ \E a \in AddrSpaces : h = <<"pt", a>> /\ as_pt[a] = f
           \/ \E a \in AddrSpaces : h = <<"stack", a>> /\ t_stack[a] = f
           \/ h = <<"heap", NULL>> /\ f \in heap
           \/ \E a \in AddrSpaces, v \in Pages :
                h = <<"page", <<a, v>>>> /\ pt[a][v] = Resident(f)
           \/ \E t \in Threads : h = <<"thread", t>> /\ Filling(t) /\ th[t].frame = f
<1>1. \A a \in AddrSpaces, v \in Pages :
        pt[a][v].in_mem /\ pt[a][v].paddr = firstpaddr + f <=> pt[a][v] = Resident(f)
  <2> SUFFICES ASSUME NEW a \in AddrSpaces, NEW v \in Pages
               PROVE  pt[a][v].in_mem /\ pt[a][v].paddr = firstpaddr + f
                        <=> pt[a][v] = Resident(f)
    OBVIOUS
  <2>1. pt[a][v] \in Entry
    BY DEF Types
  <2> QED
    BY <2>1, EntryFacts
<1>2. (\E p \in {q \in AddrSpaces \X Pages : /\ pt[q[1]][q[2]].in_mem
                                             /\ pt[q[1]][q[2]].paddr = firstpaddr + f} :
         h = <<"page", p>>)
      <=> \E a \in AddrSpaces, v \in Pages :
            h = <<"page", <<a, v>>>> /\ pt[a][v] = Resident(f)
  BY SMTT(30), <1>1
<1> QED
  BY <1>2 DEF Holders, Filling

\* What the coremap records for each kind of holder of a frame.
LEMMA HolderTags ==
  ASSUME Types, Roles, FramesOK, Running, NEW f \in Frames
  PROVE  /\ \A a \in AddrSpaces : as_pt[a] = f => Tag(f, 3, NULL)
         /\ \A a \in AddrSpaces : t_stack[a] = f => Tag(f, 2, NULL) /\ f \notin heap
         /\ f \in heap => Tag(f, 2, NULL)
         /\ \A a \in AddrSpaces, v \in Pages : pt[a][v] = Resident(f) => Tag(f, 2, a)
         /\ \A t \in Threads : Filling(t) /\ th[t].frame = f => Tag(f, 2, th[t].as)
         /\ \A a \in AddrSpaces : a # NULL
         /\ \A t \in Threads : Filling(t) => th[t].as \in AddrSpaces /\ th[t].pc \in Faulting
         /\ 2 # 3
<1>1. FrameTags
  BY FrameFacts
<1>2. f # NULL /\ \A a \in AddrSpaces : a # NULL
  BY FrameNotNull, CoremapAssumption
<1>3. \A t \in Threads : Filling(t) => th[t].as \in AddrSpaces /\ th[t].pc \in Faulting
  BY FrameFacts DEF Filling, Faulting
<1>4. 2 # 3
  BY SMTT(30)
<1> QED
  BY <1>1, <1>2, <1>3, <1>4 DEF FrameTags

\* Two holders of a frame are the same.
LEMMA HolderOnce ==
  ASSUME Types, Roles, FramesOK, Running, NEW f \in Frames,
         NEW h \in Holders(f), NEW k \in Holders(f)
  PROVE  h = k
<1> DEFINE IsPt(x) == \E a \in AddrSpaces : x = <<"pt", a>> /\ as_pt[a] = f
           IsStack(x) == \E a \in AddrSpaces : x = <<"stack", a>> /\ t_stack[a] = f
           IsHeap(x) == x = <<"heap", NULL>> /\ f \in heap
           IsPage(x, a) == \E v \in Pages : x = <<"page", <<a, v>>>> /\ pt[a][v] = Resident(f)
           IsThread(x, t) == x = <<"thread", t>> /\ Filling(t) /\ th[t].frame = f
<1>1. \A x \in Holders(f) : \/ IsPt(x) \/ IsStack(x) \/ IsHeap(x)
                            \/ \E a \in AddrSpaces : IsPage(x, a)
                            \/ \E t \in Threads : IsThread(x, t)
  BY HolderCases
<1>2. /\ \A x : IsPt(x) => Tag(f, 3, NULL)
      /\ \A x : IsStack(x) => Tag(f, 2, NULL) /\ f \notin heap
      /\ \A x : IsHeap(x) => Tag(f, 2, NULL)
      /\ \A x, a : a \in AddrSpaces /\ IsPage(x, a) => Tag(f, 2, a)
      /\ \A x, t : t \in Threads /\ IsThread(x, t) => Tag(f, 2, th[t].as)
  BY HolderTags
<1>3. /\ \A a \in AddrSpaces : a # NULL
      /\ \A t \in Threads : Filling(t) => th[t].as \in AddrSpaces /\ th[t].pc \in Faulting
      /\ 2 # 3 /\ f # NULL
  BY HolderTags, FrameNotNull
<1>4. /\ \A fl, x, gl, y : Tag(f, fl, x) /\ Tag(f, gl, y) => fl = gl /\ x = y
  BY DEF Tag
<1>5. FrameOnce
  BY FrameFacts
<1>6. \A x, y : IsPt(x) /\ IsPt(y) => x = y
  BY <1>3, <1>5 DEF FrameOnce
<1>7. \A x, y : IsStack(x) /\ IsStack(y) => x = y
  BY <1>3, <1>5 DEF FrameOnce
<1>8. ASSUME NEW x, NEW y, NEW a \in AddrSpaces, NEW b \in AddrSpaces, IsPage(x, a), IsPage(y, b)
      PROVE  x = y
  <2>1. a = b
    <3>1. Tag(f, 2, a) /\ Tag(f, 2, b)
      BY <1>2, <1>8
    <3> QED
      BY <3>1 DEF Tag
  <2>2. PICK v \in Pages : x = <<"page", <<a, v>>>> /\ pt[a][v] = Resident(f)
    BY <1>8
  <2>3. PICK w \in Pages : y = <<"page", <<a, w>>>> /\ pt[a][w] = Resident(f)
    BY <1>8, <2>1
  <2>4. v = w
    BY <1>5, <2>2, <2>3 DEF FrameOnce
  <2> QED
    BY <2>2, <2>3, <2>4
<1>9. ASSUME NEW x, NEW y, NEW a \in AddrSpaces, NEW t \in Threads, IsPage(x, a), IsThread(y, t)
      PROVE  FALSE
  <2>1. a = th[t].as
    <3>1. Tag(f, 2, a) /\ Tag(f, 2, th[t].as)
      BY <1>2, <1>9
    <3> QED
      BY <3>1 DEF Tag
  <2>2. PICK v \in Pages : pt[a][v] = Resident(f)
    BY <1>9
  <2> QED
    BY <1>5, <1>9, <2>1, <2>2 DEF FrameOnce
<1>10. ASSUME NEW x, NEW y, NEW t \in Threads, NEW u \in Threads, IsThread(x, t), IsThread(y, u)
       PROVE  x = y
  <2>1. th[t].as = th[u].as
    <3>1. Tag(f, 2, th[t].as) /\ Tag(f, 2, th[u].as)
      BY <1>2, <1>10
    <3> QED
      BY <3>1 DEF Tag
  <2>2. t = u
    BY <1>3, <1>10, <2>1, SoleFaulter
  <2> QED
    BY <1>10, <2>2
<1>11. ASSUME NEW x \in Holders(f), NEW y \in Holders(f), IsPt(x)
       PROVE  IsPt(y)
  <2> HIDE DEF IsPt, IsStack, IsHeap, IsPage, IsThread
  <2> QED
    BY <1>1, <1>2, <1>3, <1>4, <1>11
<1>12. ASSUME NEW x \in Holders(f), NEW y \in Holders(f), IsStack(x)
       PROVE  IsStack(y)
  <2>1. ~IsHeap(y)
    BY <1>2, <1>12
  <2> HIDE DEF IsPt, IsStack, IsHeap, IsPage, IsThread
  <2>2. Tag(f, 2, NULL)
    BY <1>2, <1>12
  <2>3. ~IsPt(y)
    BY <1>2, <1>3, <1>4, <2>2
  <2>4. \A a \in AddrSpaces : ~IsPage(y, a)
    BY <1>2, <1>3, <1>4, <2>2
  <2>5. \A t \in Threads : ~IsThread(y, t)
    <3> SUFFICES ASSUME NEW t \in Threads, IsThread(y, t)
                 PROVE  FALSE
      OBVIOUS
    <3>1. Tag(f, 2, th[t].as) /\ Filling(t)
      BY <1>2 DEF IsThread
    <3> QED
      BY <1>3, <2>2, <3>1 DEF Tag
  <2> QED
    BY <1>1, <2>1, <2>3, <2>4, <2>5
<1>13. ASSUME NEW x \in Holders(f), NEW y \in Holders(f), IsHeap(x)
       PROVE  IsHeap(y)
  <2>1. ~IsStack(y)
    BY <1>2, <1>13
  <2> HIDE DEF IsPt, IsStack, IsHeap, IsPage, IsThread
  <2>2. Tag(f, 2, NULL)
    BY <1>2, <1>13
  <2>3. ~IsPt(y)
    BY <1>2, <1>3, <1>4, <2>2
  <2>4. \A a \in AddrSpaces : ~IsPage(y, a)
    BY <1>2, <1>3, <1>4, <2>2
  <2>5. \A t \in Threads : ~IsThread(y, t)
    <3> SUFFICES ASSUME NEW t \in Threads, IsThread(y, t)
                 PROVE  FALSE
      OBVIOUS
    <3>1. Tag(f, 2, th[t].as) /\ Filling(t)
      BY <1>2 DEF IsThread
    <3> QED
      BY <1>3, <2>2, <3>1 DEF Tag
  <2> QED
    BY <1>1, <2>1, <2>3, <2>4, <2>5
<1>14. ASSUME NEW x, NEW y, IsHeap(x), IsHeap(y)
       PROVE  x = y
  BY <1>14
<1>15. CASE IsPt(h) \/ IsPt(k)
  BY <1>6, <1>11, <1>15
<1>16. CASE IsStack(h) \/ IsStack(k)
  BY <1>7, <1>12, <1>16
<1>17. CASE IsHeap(h) \/ IsHeap(k)
  BY <1>13, <1>14, <1>17
<1> HIDE DEF IsPt, IsStack, IsHeap, IsPage, IsThread
<1> QED
  BY <1>1, <1>8, <1>9, <1>10, <1>15, <1>16, <1>17

\* A frame in use has exactly one holder, and a free one none: getPage never
\* gives out a frame twice, and none is lost or freed while it is used.
THEOREM PagingFrames == Spec => []OneHolderPerFrame
<1>1. Inv => OneHolderPerFrame
  <2> SUFFICES ASSUME Inv
               PROVE  OneHolderPerFrame
    OBVIOUS
  <2>1. Types /\ Roles /\ FramesOK
    BY DEF Inv
  <2>2. TypeOK
    <3>1. pt \in [AddrSpaces -> [Pages -> PtEntry]]
      <4>1. \A e \in Entry : e \in PtEntry
        BY EntryFacts
      <4> QED
        BY <2>1, <4>1 DEF Types
    <3>2. \A t \in Threads : /\ th[t].as \in AddrSpaces \cup {NULL}
                             /\ th[t].i \in Pages \cup {0}
                             /\ th[t].frame \in Frames
                             /\ th[t].slot \in Slots
      BY <2>1, LocalFacts
    <3> QED
      BY <2>1, <3>1, <3>2 DEF Types, TypeOK
  <2>3. ASSUME Running, NEW f \in Frames
        PROVE  Cardinality(Holders(f)) = IF Available(f) THEN 0 ELSE 1
    <3>1. Available(f) <=> coremap[f].flags = 0
      BY <2>1, AvailableFacts DEF Types
    <3>2. CASE coremap[f].flags = 0
      <4>2. ASSUME NEW h \in Holders(f)
            PROVE  FALSE
        <5>1. \/ \E a \in AddrSpaces : as_pt[a] = f \/ t_stack[a] = f
              \/ f \in heap
              \/ \E a \in AddrSpaces, v \in Pages : pt[a][v] = Resident(f)
              \/ \E t \in Threads : Filling(t) /\ th[t].frame = f
          BY <2>1, <4>2, HolderCases
        <5> QED
          BY <2>1, <2>3, <3>2, <5>1, FreeFrame
      <4>3. Holders(f) = {}
        BY <4>2
      <4> QED
        BY <3>1, <3>2, <4>3, FS_EmptySet
    <3>3. CASE coremap[f].flags # 0
      <4>1. Held(f)
        BY <2>1, <2>3, <3>3, FrameFacts DEF FrameKept
      <4>2. \E h : h \in Holders(f)
        BY <2>1, <4>1, HolderCases DEF Held
      <4>3. PICK h : h \in Holders(f)
        BY <4>2
      <4>4. Holders(f) = {h}
        BY <2>1, <2>3, <4>3, HolderOnce
      <4> QED
        BY <3>1, <3>3, <4>4, FS_Singleton
    <3> QED
      BY <3>2, <3>3
  <2> QED
    BY <2>2, <2>3 DEF OneHolderPerFrame
<1> QED
  BY <1>1, PagingInvariant, PTL

\* A page is in the swap file, as OneHolderPerSlot counts it, when a slot stores
\* it.
LEMMA InSwapStored ==
  ASSUME Types, NEW a \in AddrSpaces, NEW v \in Pages
  PROVE  /\ <<a, v>> \in InSwap <=> \E s \in Slots : Stored(a, v, s)
         /\ \A s \in Slots : Stored(a, v, s) => pt[a][v].paddr = s
<1>1. pt[a][v] \in Entry
  BY DEF Types
<1>2. \A s \in Slots : pt[a][v] = Swapped(s) => pt[a][v].paddr = s
  BY SMTT(30) DEF Swapped
<1>3. \A t \in Threads : v >= th[t].i <=> ~(v < th[t].i)
  <2> SUFFICES ASSUME NEW t \in Threads
               PROVE  v >= th[t].i <=> ~(v < th[t].i)
    OBVIOUS
  <2>1. v \in Nat /\ th[t].i \in Nat
    <3>1. th[t].i \in Pages \cup {0}
      BY LocalFacts
    <3>2. Pages \subseteq Nat
      BY PagingAssumption
    <3>3. 0 \in Nat
      BY SMTT(30)
    <3> QED
      BY <3>1, <3>2, <3>3
  <2> QED
    BY SMTT(30), <2>1
<1>4. ~Cleared(a, v) <=> \A t \in Threads : th[t].as = a =>
                           /\ th[t].pc = "clear_swap" => v >= th[t].i
                           /\ th[t].pc \notin {"freepages", "freeAs"}
  BY <1>3 DEF Cleared
<1>5. <<a, v>> \in InSwap <=> pt[a][v].in_swap /\ ~Cleared(a, v)
  <2>1. <<a, v>> \in InSwap <=> /\ pt[a][v].in_swap
                                /\ \A t \in Threads : th[t].as = a =>
                                     /\ th[t].pc = "clear_swap" => v >= th[t].i
                                     /\ th[t].pc \notin {"freepages", "freeAs"}
    BY SMTT(30) DEF InSwap
  <2> QED
    BY <1>4, <2>1
<1>6. pt[a][v].in_swap <=> \E s \in Slots : pt[a][v] = Swapped(s)
  BY <1>1, EntryFacts
<1> QED
  BY <1>2, <1>5, <1>6 DEF Stored

\* The slots that hold a page, and as many pages.
LEMMA SlotCount ==
  ASSUME Types, Roles, SlotsOK, Running
  PROVE  /\ {pt[q[1]][q[2]].paddr : q \in InSwap} = Settled
         /\ IsFiniteSet(Settled)
         /\ Cardinality(InSwap) = Cardinality(Settled)
<1> DEFINE paddr == [q \in InSwap |-> pt[q[1]][q[2]].paddr]
<1>1. SlotOnce /\ SlotsMarked /\ Settled \subseteq Slots
  BY SlotFacts
<1>2. \A q \in InSwap : \E a \in AddrSpaces, v \in Pages :
        q = <<a, v>> /\ q[1] = a /\ q[2] = v
  BY SMTT(30) DEF InSwap
<1>3. \A q \in InSwap : \E a \in AddrSpaces, v \in Pages, s \in Slots :
        q = <<a, v>> /\ Stored(a, v, s) /\ pt[q[1]][q[2]].paddr = s
  <2> SUFFICES ASSUME NEW q \in InSwap
               PROVE  \E a \in AddrSpaces, v \in Pages, s \in Slots :
                        q = <<a, v>> /\ Stored(a, v, s) /\ pt[q[1]][q[2]].paddr = s
    OBVIOUS
  <2>1. PICK a \in AddrSpaces, v \in Pages : q = <<a, v>> /\ q[1] = a /\ q[2] = v
    BY <1>2
  <2>2. PICK s \in Slots : Stored(a, v, s) /\ pt[a][v].paddr = s
    BY <2>1, InSwapStored
  <2>3. pt[q[1]][q[2]].paddr = s
    BY <2>1, <2>2
  <2> QED
    BY <2>1, <2>2, <2>3
<1>4. \A a \in AddrSpaces, v \in Pages, s \in Slots : Stored(a, v, s) =>
        <<a, v>> \in InSwap /\ pt[a][v].paddr = s
  BY InSwapStored
<1>5. \A s \in Settled : \E q \in InSwap : pt[q[1]][q[2]].paddr = s
  <2> SUFFICES ASSUME NEW s \in Settled
               PROVE  \E q \in InSwap : pt[q[1]][q[2]].paddr = s
    OBVIOUS
  <2>1. PICK a \in AddrSpaces, v \in Pages : Stored(a, v, s)
    BY <1>1 DEF SlotsMarked
  <2>2. <<a, v>> \in InSwap /\ pt[a][v].paddr = s
    BY <1>1, <1>4, <2>1
  <2>3. <<a, v>>[1] = a /\ <<a, v>>[2] = v
    BY SMTT(30)
  <2> QED
    BY <2>2, <2>3
<1>6. \A q \in InSwap : pt[q[1]][q[2]].paddr \in Settled
  BY <1>1, <1>3 DEF SlotsMarked
<1>7. paddr \in [InSwap -> Settled]
  BY <1>6
<1>8. ASSUME NEW q \in InSwap, NEW r \in InSwap, paddr[q] = paddr[r]
      PROVE  q = r
  <2>1. PICK a \in AddrSpaces, v \in Pages, s \in Slots :
          q = <<a, v>> /\ Stored(a, v, s) /\ pt[q[1]][q[2]].paddr = s
    BY <1>3
  <2>2. PICK b \in AddrSpaces, w \in Pages, z \in Slots :
          r = <<b, w>> /\ Stored(b, w, z) /\ pt[r[1]][r[2]].paddr = z
    BY <1>3
  <2>3. s = z
    BY <1>8, <2>1, <2>2
  <2>4. Stored(a, v, s) /\ Stored(b, w, s)
    BY <2>1, <2>2, <2>3
  <2>5. a = b /\ v = w
    BY <1>1, <2>4 DEF SlotOnce
  <2> QED
    BY <2>1, <2>2, <2>5
<1>9. paddr \in Bijection(InSwap, Settled)
  BY <1>5, <1>7, <1>8 DEF Bijection, Injection, Surjection, IsInjective
<1>10. IsFiniteSet(Settled)
  BY <1>1, FiniteSlots
<1>11. Cardinality(InSwap) = Cardinality(Settled)
  BY <1>7, <1>9, <1>10, FS_Injection DEF Bijection
<1> QED
  BY <1>5, <1>6, <1>10, <1>11

\* The bitmap, the page tables and the counter of the swap file agree:
\* swap_out, swap_in and clear_swap lose no slot and give none out twice.
THEOREM PagingSlots == Spec => []OneHolderPerSlot
<1>1. Inv /\ CountOK => OneHolderPerSlot
  <2> SUFFICES ASSUME Inv, CountOK, Running
               PROVE  OneHolderPerSlot
    BY DEF OneHolderPerSlot
  <2>1. Types /\ Roles /\ SlotsOK
    BY DEF Inv
  <2>2. /\ {pt[q[1]][q[2]].paddr : q \in InSwap} = Settled
        /\ IsFiniteSet(Settled)
        /\ Cardinality(InSwap) = Cardinality(Settled)
    BY <2>1, SlotCount
  <2>3. used = Cardinality(InSwap) % USHORT
    BY <2>2 DEF CountOK
  <2>4. /\ swapMap = Settled \cup {th[t].slot : t \in Writing}
        /\ Cardinality(swapMap) = Cardinality(Settled) + Cardinality(Writing)
    <3>1. CASE Writing = {}
      <4>1. swapMap = Settled
        BY <3>1 DEF Settled
      <4>2. Cardinality(Writing) = 0 /\ Cardinality(Settled) \in Nat
        BY <2>2, <3>1, FS_EmptySet, FS_CardinalityType
      <4>3. {th[t].slot : t \in Writing} = {}
        BY <3>1
      <4> QED
        BY SMTT(30), <4>1, <4>2, <4>3
    <3>2. CASE Writing # {}
      <4>1. PICK t \in Threads : th[t].pc = "write"
        BY <3>2 DEF Writing
      <4>2. Writing = {t} /\ th[t].slot \in swapMap /\ Settled = swapMap \ {th[t].slot}
        BY <2>1, <4>1, SlotFacts
      <4>3. {th[u].slot : u \in Writing} = {th[t].slot}
        BY <4>2
      <4>4. swapMap = Settled \cup {th[t].slot} /\ th[t].slot \notin Settled
        BY <4>2
      <4>5. Cardinality(swapMap) = Cardinality(Settled) + 1
        BY <2>2, <4>4, FS_AddElement
      <4>6. Cardinality(Writing) = 1
        BY <4>2, FS_Singleton
      <4> QED
        BY <4>3, <4>4, <4>5, <4>6
    <3> QED
      BY <3>1, <3>2
  <2> QED
    BY <2>2, <2>3, <2>4 DEF OneHolderPerSlot, Writing
<1> QED
  BY <1>1, PagingInvariant, PTL

\* Once the machine has stopped nothing changes any more.
LEMMA StoppedStays ==
  ASSUME [Next]_vars, ~Running
  PROVE  UNCHANGED vars
<1>1. \A t, pc : ~On(t, pc) /\ ~InFault(t, pc) /\ ~InCopy(t, pc)
  BY DEF On, Running, InFault, InCopy
<1>2. \A t : ~CanSwitchTo(t)
  BY DEF CanSwitchTo, Running
<1>3. ASSUME NEW t \in Threads
      PROVE  ~kernelStep(t)
  <2>1. ~getPage_free(t) /\ ~getPage_stops(t) /\ ~getPage_victim(t)
    BY <1>1 DEF getPage_free, getPage_stops, getPage_victim
  <2>2. ~evict(t) /\ ~swap_out(t) /\ ~swapped_out(t)
    BY <1>1 DEF evict, swap_out, swapped_out
  <2>3. ~load_elf_ondemand(t) /\ ~swap_in(t) /\ ~swapped_in(t)
    BY <1>1 DEF load_elf_ondemand, swap_in, swapped_in
  <2>4. ~copy_page(t) /\ ~copy_swapped(t) /\ ~thread_fork(t)
    BY <1>1 DEF copy_page, copy_swapped, thread_fork
  <2>5. ~runprogram(t) /\ ~thread_exit(t) /\ ~proc_wait(t)
    BY <1>1 DEF runprogram, thread_exit, proc_wait
  <2>6. ~as_destroy_slot(t) /\ ~as_destroy_pt(t) /\ ~as_destroy_frames(t)
    BY <1>1 DEF as_destroy_slot, as_destroy_pt, as_destroy_frames
  <2> QED
    BY <2>1, <2>2, <2>3, <2>4, <2>5, <2>6 DEF kernelStep
<1>4. ASSUME NEW t \in AddrSpaces
      PROVE  ~userStep(t)
  BY <1>1 DEF userStep, vm_fault, vm_fault_readonly, userWrite, vm_fault_unmapped,
              alloc_kpages, free_kpages_user, sys_fork, sys_waitpid, sys__exit
<1>5. \A t : ~read_fails(t) /\ ~write_fails(t) /\ ~process_table_full(t)
  BY <1>1 DEF read_fails, write_fails, process_table_full
<1>6. ~alloc_kpages(kproc) /\ ~free_kpages(kproc) /\ ~cmd_quit
  BY <1>1 DEF alloc_kpages, free_kpages, cmd_quit
<1>7. \A p : ~common_prog(p) /\ ~runprogram_fails(p)
  BY <1>1 DEF common_prog, runprogram_fails
<1>8. \A t : ~thread_switch(t) /\ ~exorcise(t) /\ ~exorcise_user(t)
  BY <1>2 DEF thread_switch, exorcise, exorcise_user
<1> QED
  BY <1>3, <1>4, <1>5, <1>6, <1>7, <1>8 DEF Next, halted

\* Only a thread at getPage that finds the swap file's lock taken, with all
\* frames used, sleeps with the spinlock of the coremap held.
LEMMA SleepsWhere ==
  ASSUME [Next]_vars, status' = "slept with spinlock", status' # status
  PROVE  \E t \in Threads : /\ On(t, "getPage") /\ swap_lock # NoThread
                             /\ Stops("slept with spinlock")
<1>1. \A why : Stops(why) => why = "slept with spinlock"
  BY DEF Stops
<1>2. \A r, f : ~kernelPage(r, f)
  BY DEF kernelPage
<1>3. ASSUME NEW t \in Threads, kernelStep(t)
      PROVE  On(t, "getPage") /\ swap_lock # NoThread /\ Stops("slept with spinlock")
  <2>1. CASE getPage_stops(t)
    <3>1. swap_lock = NoThread => Stops("no swap") \/ Stops("victim loop")
      BY <2>1 DEF getPage_stops
    <3> QED
      BY <1>1, <2>1, <3>1 DEF getPage_stops
  <2>2. ~getPage_free(t) /\ ~getPage_victim(t)
    BY DEF getPage_free, getPage_victim
  <2>3. ~evict(t) /\ ~swapped_out(t)
    BY DEF evict, swapped_out
  <2>4. ~swap_out(t)
    BY <1>1 DEF swap_out
  <2>5. ~load_elf_ondemand(t) /\ ~swap_in(t) /\ ~swapped_in(t)
    BY DEF load_elf_ondemand, swap_in, swapped_in
  <2>6. ~copy_page(t)
    BY DEF copy_page
  <2>7. ~copy_swapped(t)
    BY <1>1 DEF copy_swapped
  <2>8. ~thread_fork(t) /\ ~runprogram(t)
    BY <1>2 DEF thread_fork, runprogram
  <2>9. ~thread_exit(t) /\ ~proc_wait(t)
    BY DEF thread_exit, proc_wait
  <2>10. ~as_destroy_slot(t) /\ ~as_destroy_pt(t) /\ ~as_destroy_frames(t)
    BY DEF as_destroy_slot, as_destroy_pt, as_destroy_frames
  <2> QED
    BY <1>3, <2>1, <2>2, <2>3, <2>4, <2>5, <2>6, <2>7, <2>8, <2>9, <2>10 DEF kernelStep
<1>4. ASSUME NEW t \in AddrSpaces
      PROVE  ~userStep(t)
  <2>1. \A v \in Pages : ~vm_fault(t, v) /\ ~vm_fault_readonly(t, v) /\ ~userWrite(t, v)
    BY <1>1 DEF vm_fault, vm_fault_readonly, userWrite
  <2>2. ~vm_fault_unmapped(t) /\ ~free_kpages_user(t)
    BY <1>1 DEF vm_fault_unmapped, free_kpages_user
  <2>3. ~alloc_kpages(t)
    BY <1>2 DEF alloc_kpages
  <2>4. \A c \in AddrSpaces : ~sys_fork(t, c) /\ ~sys_waitpid(t, c)
    BY <1>2 DEF sys_fork, sys_waitpid
  <2>5. ~sys__exit(t)
    BY DEF sys__exit
  <2> QED
    BY <2>1, <2>2, <2>3, <2>4, <2>5 DEF userStep
<1>5. \A t \in Threads : ~read_fails(t) /\ ~write_fails(t) /\ ~process_table_full(t)
  BY <1>1 DEF read_fails, write_fails, process_table_full
<1>6. ~alloc_kpages(kproc) /\ ~free_kpages(kproc) /\ ~cmd_quit
  BY <1>1, <1>2 DEF alloc_kpages, free_kpages, cmd_quit
<1>7. \A p \in AddrSpaces : ~common_prog(p) /\ ~runprogram_fails(p)
  BY <1>1, <1>2 DEF common_prog, runprogram_fails
<1>8. \A t \in Threads : ~thread_switch(t) /\ ~exorcise(t) /\ ~exorcise_user(t)
  BY <1>1 DEF thread_switch, exorcise, exorcise_user
<1>9. ~halted /\ ~(UNCHANGED vars)
  BY DEF halted, vars
<1> QED
  BY <1>3, <1>4, <1>5, <1>6, <1>7, <1>8, <1>9 DEF Next

\* getPage sleeps with the spinlock of the coremap held only if fork is on and
\* another process is in a transfer.  A thread has the lock of the swap file only
\* in a transfer (LockHeld), and without fork the process the menu waits for is
\* the only one that can be in a fault (Alone).
THEOREM PagingSpinlock == Spec => []SleepNeedsTransfer
<1>1. Init => SleepNeedsTransfer
  BY DEF Init, SleepNeedsTransfer
<1>2. Inv /\ SleepNeedsTransfer /\ [Next]_vars => SleepNeedsTransfer'
  <2> SUFFICES ASSUME Inv, SleepNeedsTransfer, [Next]_vars,
                      status' = "slept with spinlock"
               PROVE  OPT_FORK /\ (\E u \in AddrSpaces : InTransfer(u))'
    BY DEF SleepNeedsTransfer
  <2>1. CASE status = "slept with spinlock"
    <3>1. UNCHANGED vars
      BY <2>1, StoppedStays DEF Running
    <3>2. UNCHANGED <<swap_lock, th, curthread>>
      BY <3>1 DEF vars, memVars, swapVars
    <3> QED
      BY <2>1, <3>2 DEF SleepNeedsTransfer, InTransfer
  <2>2. CASE status # "slept with spinlock"
    <3>1. PICK t \in Threads : /\ On(t, "getPage") /\ swap_lock # NoThread
                              /\ Stops("slept with spinlock")
      BY <2>2, SleepsWhere
    <3>2. Types /\ Roles /\ SlotsOK /\ Running
      BY <3>1 DEF Inv, On, Running
    <3>3. PICK u \in Threads : swap_lock = u
      BY <3>1, <3>2 DEF Types, SwapTypeOK
    <3>4. th[u].pc \in {"read", "write"} /\ th[t].pc = "getPage"
      BY <3>1, <3>2, <3>3, SlotFacts DEF On
    <3>5. t \in AddrSpaces /\ u \in AddrSpaces
      BY <3>2, <3>4, WorkFacts DEF Idle, Faulting
    <3>6. OPT_FORK
      <4> SUFFICES ASSUME ~OPT_FORK
                   PROVE  FALSE
        OBVIOUS
      <4>1. th[kproc].as = t /\ th[kproc].as = u
        BY <3>2, <3>4, <3>5 DEF Roles, Alone
      <4> QED
        BY <3>4, <4>1
    <3>7. UNCHANGED <<swap_lock, th, curthread>>
      BY <3>1 DEF Stops, memVars, swapVars
    <3>8. curthread = t /\ u # t
      BY <3>1, <3>4 DEF On
    <3> QED
      BY <3>3, <3>4, <3>5, <3>6, <3>7, <3>8 DEF InTransfer
  <2> QED
    BY <2>1, <2>2
<1> QED
  BY <1>1, <1>2, PagingInvariant, PTL DEF Spec

-----------------------------------------------------------------------------
\* The refinement.

\* The variables of VirtualMemory.
Mem == [p \in AddrSpaces |-> Memory(p)]
Sound == Running /\ ~garbled

\* The steps of VirtualMemory, in these terms.
LEMMA VirtualSteps ==
  /\ VM!Init <=> Mem = [p \in AddrSpaces |-> NULL] /\ User \notin AddrSpaces /\ Sound = TRUE
  /\ VM!Next <=> \/ Sound' = FALSE
                 \/ /\ Sound /\ Sound'
                    /\ VM!Kernel \/ \E p \in AddrSpaces, v \in Pages : VM!Write(p, v)
  /\ VM!Kernel <=>
       \/ UNCHANGED Mem
       \/ \E p \in AddrSpaces : VM!Start(p) \/ VM!Exit(p) \/ \E v \in Pages : VM!Touch(p, v)
       \/ \E p, child \in AddrSpaces : VM!Fork(p, child)
<1>1. VM!Init <=> Mem = [p \in AddrSpaces |-> NULL] /\ User \notin AddrSpaces /\ Sound = TRUE
  BY DEF VM!Init, Mem, Memory, Absent, User, Sound
<1>2. VM!Next <=> \/ Sound' = FALSE
                  \/ /\ Sound /\ Sound'
                     /\ VM!Kernel \/ \E p \in AddrSpaces, v \in Pages : VM!Write(p, v)
  BY DEF VM!Next, Sound
<1>3. VM!Kernel <=>
       \/ UNCHANGED Mem
       \/ \E p \in AddrSpaces : VM!Start(p) \/ VM!Exit(p) \/ \E v \in Pages : VM!Touch(p, v)
       \/ \E p, child \in AddrSpaces : VM!Fork(p, child)
  BY DEF VM!Kernel, Mem, Memory, Absent
<1> QED
  BY <1>1, <1>2, <1>3

\* The actions of VirtualMemory in terms of the memories of the mapping.
LEMMA VirtualActions ==
  ASSUME NEW p \in AddrSpaces
  PROVE  /\ VM!Start(p) <=> Mem[p] = NULL /\ Mem' = [Mem EXCEPT ![p] = Initial]
         /\ VM!Exit(p) <=> User = p /\ Mem' = [Mem EXCEPT ![p] = NULL]
         /\ \A v \in Pages : VM!Touch(p, v) <=>
              /\ Mem[p] # NULL /\ Mem[p][v] = "undefined"
              /\ \E c \in Contents : Mem' = [Mem EXCEPT ![p][v] = c]
         /\ \A child \in AddrSpaces : VM!Fork(p, child) <=>
              /\ Mem[p] # NULL /\ Mem[child] = NULL
              /\ Mem' = [Mem EXCEPT ![child] = Mem[p]]
         /\ \A v \in Pages : VM!Write(p, v) <=>
              /\ User = p /\ User' = p /\ v \notin Text
              /\ \E c \in Contents : Mem' = [Mem EXCEPT ![p][v] = c]
<1>1. VM!Start(p) <=> Mem[p] = NULL /\ Mem' = [Mem EXCEPT ![p] = Initial]
  BY DEF VM!Start, Mem, Memory, Absent, Initial, Fresh
<1>2. VM!Exit(p) <=> User = p /\ Mem' = [Mem EXCEPT ![p] = NULL]
  BY DEF VM!Exit, Mem, Memory, Absent, User
<1>3. \A v \in Pages : VM!Touch(p, v) <=>
        /\ Mem[p] # NULL /\ Mem[p][v] = "undefined"
        /\ \E c \in Contents : Mem' = [Mem EXCEPT ![p][v] = c]
  BY DEF VM!Touch, Mem, Memory, Absent
<1>4. \A child \in AddrSpaces : VM!Fork(p, child) <=>
        /\ Mem[p] # NULL /\ Mem[child] = NULL
        /\ Mem' = [Mem EXCEPT ![child] = Mem[p]]
  BY DEF VM!Fork, Mem, Memory, Absent
<1>5. \A v \in Pages : VM!Write(p, v) <=>
        /\ User = p /\ User' = p /\ v \notin Text
        /\ \E c \in Contents : Mem' = [Mem EXCEPT ![p][v] = c]
  BY DEF VM!Write, Mem, Memory, Absent, User
<1> QED
  BY <1>1, <1>2, <1>3, <1>4, <1>5

\* When one memory changes.
LEMMA MemBecomes ==
  ASSUME NEW p \in AddrSpaces, NEW m, MemoryBecomes(p, m)
  PROVE  Mem' = [Mem EXCEPT ![p] = m]
<1>1. \A q \in AddrSpaces : Memory(q)' = IF q = p THEN m ELSE Memory(q)
  BY DEF MemoryBecomes
<1>2. Mem' = [q \in AddrSpaces |-> IF q = p THEN m ELSE Memory(q)]
  BY <1>1 DEF Mem
<1>3. [Mem EXCEPT ![p] = m] = [q \in AddrSpaces |-> IF q = p THEN m ELSE Memory(q)]
  BY DEF Mem
<1> QED
  BY <1>2, <1>3

\* Each step of the paging system is one of VirtualMemory, or changes nothing
\* there.
LEMMA VirtualStep ==
  ASSUME Inv, [Next]_vars
  PROVE  [VM!Next]_VM!vars
<1>1. CASE UNCHANGED vars
  <2>1. th' = th /\ curthread' = curthread /\ status' = status
    BY <1>1 DEF vars
  <2>2. pt' = pt /\ garbled' = garbled /\ disk' = disk /\ ram' = ram
    BY <1>1 DEF vars, memVars, procVars, swapVars
  <2>3. \A p \in AddrSpaces : Memory(p)' = Memory(p)
    <3>1. ASSUME NEW p \in AddrSpaces, NEW v \in Pages
          PROVE  held(p, v)' = held(p, v)
      BY <2>2 DEF held
    <3> QED
      BY <2>1, <3>1 DEF Memory
  <2>4. Mem' = Mem /\ User' = User /\ Sound' = Sound
    BY <2>1, <2>2, <2>3 DEF Mem, User, Sound, Running
  <2>5. UNCHANGED VM!vars
    BY <2>4 DEF VM!vars, Mem, Memory, Absent, User, Sound
  <2> QED
    BY <2>5
<1>2. CASE StepOK
  <2>1. CASE ~Sound'
    BY <2>1, VirtualSteps DEF Sound
  <2>2. CASE Sound'
    <3>1. Sound /\ MemoryStep
      BY <1>2, <2>2 DEF Sound, StepOK, Steady
    <3>2. \A p \in AddrSpaces : Mem[p] = Memory(p)
      BY DEF Mem
    <3>3. CASE \A p \in AddrSpaces : Memory(p)' = Memory(p)
      <4>1. Mem' = Mem
        BY <3>3 DEF Mem
      <4> QED
        BY <2>2, <3>1, <4>1, VirtualSteps
    <3>4. ASSUME NEW p \in AddrSpaces, Memory(p) = NULL, MemoryBecomes(p, Initial)
          PROVE  VM!Next
      <4>1. VM!Start(p)
        BY <3>2, <3>4, MemBecomes, VirtualActions
      <4> QED
        BY <2>2, <3>1, <4>1, VirtualSteps
    <3>5. ASSUME NEW p \in AddrSpaces, User = p, MemoryBecomes(p, NULL)
          PROVE  VM!Next
      <4>1. VM!Exit(p)
        BY <3>2, <3>5, MemBecomes, VirtualActions
      <4> QED
        BY <2>2, <3>1, <4>1, VirtualSteps
    <3>6. ASSUME NEW p \in AddrSpaces, NEW v \in Pages, NEW c \in Contents,
                 Memory(p) # NULL, MemoryBecomes(p, [Memory(p) EXCEPT ![v] = c]),
                 Memory(p)[v] = "undefined" \/ (v \notin Text /\ User = p /\ User' = p)
          PROVE  VM!Next
      <4>1. Mem' = [Mem EXCEPT ![p] = [Memory(p) EXCEPT ![v] = c]]
        BY <3>6, MemBecomes
      <4>2. [Mem EXCEPT ![p] = [Memory(p) EXCEPT ![v] = c]] = [Mem EXCEPT ![p][v] = c]
        BY <3>2
      <4>3. Mem' = [Mem EXCEPT ![p][v] = c]
        BY <4>1, <4>2
      <4>4. VM!Touch(p, v) \/ VM!Write(p, v)
        BY <3>2, <3>6, <4>3, VirtualActions
      <4> QED
        BY <2>2, <3>1, <4>4, VirtualSteps
    <3>7. ASSUME NEW p \in AddrSpaces, NEW child \in AddrSpaces,
                 Memory(p) # NULL, Memory(child) = NULL, MemoryBecomes(child, Memory(p))
          PROVE  VM!Next
      <4>1. Mem' = [Mem EXCEPT ![child] = Memory(p)]
        BY <3>7, MemBecomes
      <4>2. Mem[p] = Memory(p) /\ Mem[child] = Memory(child)
        BY <3>2
      <4>3. Mem' = [Mem EXCEPT ![child] = Mem[p]]
        BY <4>1, <4>2
      <4>4. VM!Fork(p, child)
        BY <3>7, <4>2, <4>3, VirtualActions
      <4> QED
        BY <2>2, <3>1, <4>4, VirtualSteps
    <3> QED
      BY <3>1, <3>3, <3>4, <3>5, <3>6, <3>7 DEF MemoryStep
  <2> QED
    BY <2>1, <2>2
<1> QED
  BY <1>1, <1>2, NextStep

\* Paging is invisible to the programs: while the machine is sound, every page of
\* every process holds what the program last wrote to it, or what a new page or
\* the parent's page held.
THEOREM PagingRefines == Spec => IsVirtualMemory
<1>1. Init => VM!Init
  <2> SUFFICES ASSUME Init
               PROVE  VM!Init
    OBVIOUS
  <2>1. \A p \in AddrSpaces : p # kproc /\ p \in Threads
    BY PagingAssumption
  <2>2. kproc \in Threads /\ kproc # NULL /\ NULL \notin AddrSpaces
    BY PagingAssumption, CoremapAssumption
  <2>3. \A p \in AddrSpaces : th[p].pc = "none"
    BY <2>1 DEF Init, Nowhere, At
  <2>4. th[curthread].pc = "menu"
    BY <2>2 DEF Init, Nowhere, At
  <2>5. Mem = [p \in AddrSpaces |-> NULL]
    BY <2>3 DEF Mem, Memory, Absent
  <2>6. User = NULL
    BY <2>4 DEF User
  <2>7. Sound = TRUE
    BY DEF Init, Sound, Running
  <2> QED
    BY <2>2, <2>5, <2>6, <2>7, VirtualSteps
<1>2. Inv /\ [Next]_vars => [VM!Next]_VM!vars
  BY VirtualStep
<1> QED
  BY <1>1, <1>2, PagingInvariant, PTL DEF Spec, IsVirtualMemory, VM!Spec

=============================================================================

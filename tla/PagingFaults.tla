---------------------------- MODULE PagingFaults ----------------------------
(***************************************************************************)
(* Each step of a page fault, and of as_copy, keeps the inductive          *)
(* invariant.                                                              *)
(*                                                                         *)
(* A lemma per action: what the action does, thread by thread and page by  *)
(* page, that it keeps the types, that every thread keeps its role, and    *)
(* then the frames, the slots, the TLB and the contents of the pages.      *)
(* Before it come the lemmas that only it and the actions below it need.   *)
(***************************************************************************)
EXTENDS PagingLemmas, TLAPS

\* A leaf is proved by Zenon unless it says SMT.
USE ZenonT(30)

-----------------------------------------------------------------------------
\* A program's write, and vm_fault as far as getPage.

\* One page of one process changes.
LEMMA MemoryWritten ==
  ASSUME Types, NEW p \in AddrSpaces, NEW v \in Pages, NEW c \in Contents,
         th[p].pc \notin Absent, AbsentStay,
         \A b \in AddrSpaces, w \in Pages : b # p \/ w # v => held(b, w)' = held(b, w),
         held(p, v)' = c,
         held(p, v) = "undefined" \/ (v \notin Text /\ User = p /\ User' = p)
  PROVE  MemoryStep
<1>1. Memory(p) = [w \in Pages |-> held(p, w)] /\ Memory(p) # NULL
  BY MemoryThere
<1>2. Memory(p)' = [w \in Pages |-> held(p, w)']
  BY DEF Memory, AbsentStay
<1>3. Memory(p)' = [Memory(p) EXCEPT ![v] = c]
  BY SMTT(30), <1>1, <1>2
<1>4. ASSUME NEW q \in AddrSpaces, q # p PROVE Memory(q)' = Memory(q)
  <2>1. [w \in Pages |-> held(q, w)]' = [w \in Pages |-> held(q, w)]
    BY <1>4
  <2> QED
    BY <2>1 DEF Memory, AbsentStay
<1>5. MemoryBecomes(p, [Memory(p) EXCEPT ![v] = c])
  BY <1>3, <1>4 DEF MemoryBecomes
<1>6. Memory(p)[v] = held(p, v)
  BY <1>1
<1> QED
  BY <1>1, <1>5, <1>6 DEF MemoryStep

\* The program writes to a page that it may write to.
LEMMA PageWritten ==
  ASSUME Types, Types', Roles, FramesOK, ContentsOK, Running, NEW p \in AddrSpaces,
         th[p].pc = "user", curthread = p, UNCHANGED <<pt, disk, th, garbled, curthread>>,
         NEW v \in Pages, v \notin Text, NEW f \in Frames, pt[p][v] = Resident(f),
         NEW c \in Contents, ram' = [ram EXCEPT ![f] = c]
  PROVE  ContentsOK' /\ MemoryStep
<1>1. ram'[f] = c /\ \A g \in Frames : g # f => ram'[g] = ram[g]
  BY DEF Types
<1>2. ASSUME NEW b \in AddrSpaces, NEW w \in Pages, pt[b][w] = Resident(f)
      PROVE  b = p /\ w = v
  <2>1. FrameTags /\ FrameOnce
    BY FrameFacts
  <2>2. Tag(f, 2, b) /\ Tag(f, 2, p)
    BY <1>2, <2>1 DEF FrameTags
  <2>3. b = p
    BY <2>2 DEF Tag
  <2> QED
    BY <1>2, <2>1, <2>3 DEF FrameOnce
<1>3. ASSUME NEW b \in AddrSpaces, NEW w \in Pages, b # p \/ w # v
      PROVE  held(b, w)' = held(b, w)
  <2>1. \A g \in Frames : pt[b][w] = Resident(g) => ram'[g] = ram[g]
    BY <1>1, <1>2, <1>3
  <2> QED
    BY <2>1, HeldKept
<1>4. held(p, v)' = c
  <2>1. HeldFacts'
    BY HeldFacts, PTL
  <2> QED
    BY <1>1, <2>1
<1>5. TextKept'
  <2> SUFFICES ASSUME NEW b \in AddrSpaces, NEW w \in Text
               PROVE  /\ \A s \in Slots : pt'[b][w] # Swapped(s)
                      /\ \A g \in Frames : pt'[b][w] = Resident(g) => ram'[g] = "elf"
    BY DEF TextKept
  <2>1. w \in Pages /\ w # v
    BY DEF Pages
  <2>2. TextKept /\ pt'[b][w] = pt[b][w]
    BY DEF ContentsOK
  <2> QED
    BY <1>1, <1>2, <2>1, <2>2 DEF TextKept
<1>6. CopiersStay /\ AbsentStay
  BY DEF CopiersStay, AbsentStay
<1>7. \A a \in AddrSpaces : InFork(a) => HeldStays(a)
  <2>1. ~InFork(p)
    BY DEF InFork, Faulting
  <2> QED
    BY <1>3, <2>1 DEF HeldStays
<1>8. ContentsOK'
  BY <1>5, <1>6, <1>7, ContentsKept
<1>9. User = p /\ User' = p
  BY DEF User
<1>10. th[p].pc \notin Absent
  BY DEF Absent, Ended
<1> QED
  BY <1>3, <1>4, <1>6, <1>8, <1>9, <1>10, MemoryWritten

\* A write by the program.
LEMMA UserWriteStep ==
  ASSUME Types, Roles, FramesOK, SlotsOK, TlbOK, ContentsOK,
         NEW t \in AddrSpaces, NEW v \in Pages, userWrite(t, v)
  PROVE  StepOK
<1>1. /\ Types' /\ On(t, "user")
      /\ UNCHANGED <<coremapVars, swapVars, tlbVars, procVars, th, curthread, status>>
      /\ \E k \in tlb_probe(v), c \in Writes :
           /\ tlb[k].dirty /\ ram' = [ram EXCEPT ![tlb[k].ppage - firstpaddr] = c]
  <2>1. /\ On(t, "user")
        /\ UNCHANGED <<coremapVars, swapVars, tlbVars, procVars, th, curthread, status>>
        /\ \E k \in tlb_probe(v), c \in Writes :
                /\ tlb[k].dirty /\ ram' = [ram EXCEPT ![tlb[k].ppage - firstpaddr] = c]
    BY DEF userWrite
  <2>2. Writes \subseteq Contents
    BY PagingAssumption
  <2>3. ram' \in [Frames -> Contents]
    BY <2>1, <2>2 DEF Types
  <2> QED
    BY <2>1, <2>3 DEF Types, coremapVars, swapVars, procVars, tlbVars, CoremapTypeOK, SwapTypeOK,
                      TlbTypeOK
<1>2. /\ Running /\ Running' /\ curthread = t /\ th[t].pc = "user" /\ t \in Threads /\ HasAs(t)
      /\ UNCHANGED <<coremap, as_pt, t_stack, heap, swapMap, used, swap_lock, disk, garbled>>
      /\ UNCHANGED <<pt, tlb, th, zombies, curthread>>
  BY SMTT(30), <1>1, OnFacts DEF coremapVars, swapVars, tlbVars, procVars, HasAs, Running, Ended
<1>3. Roles'
  BY <1>2, RolesSame
<1>4. FillersStay /\ VictimsStay /\ UsersStay /\ ClearersStay
  BY <1>2, CalmThreads
<1>5. PagesStay /\ StoredStays
  BY <1>2, <1>4, StoredQuiet
<1>6. FramesOK' /\ SlotsOK' /\ Counts
  BY <1>1, <1>2, <1>4, <1>5, FramesSame, KernelSteps
<1>7. TlbOK'
  BY <1>2, TlbSame DEF HasAs
<1>8. ContentsOK' /\ MemoryStep
  <2>1. PICK k \in Entries, c \in Writes :
          /\ tlb[k].valid /\ tlb[k].vpage = v /\ tlb[k].dirty
          /\ ram' = [ram EXCEPT ![tlb[k].ppage - firstpaddr] = c]
    BY <1>1 DEF tlb_probe
  <2>2. pt[t][v].in_mem /\ pt[t][v].paddr = tlb[k].ppage /\ v \notin Text
    BY <1>2, <2>1, TlbFacts
  <2>3. PICK f \in Frames : pt[t][v] = Resident(f)
    BY SMTT(30), <2>2, EntryFacts DEF Types
  <2>4. tlb[k].ppage - firstpaddr = f
    BY SMTT(30), <2>2, <2>3, KindFacts
  <2>5. c \in Contents
    BY PagingAssumption
  <2>6. ram' = [ram EXCEPT ![f] = c]
    BY <2>1, <2>4
  <2> QED
    BY <1>1, <1>2, <2>2, <2>3, <2>5, <2>6, PageWritten
<1> QED
  BY <1>1, <1>2, <1>3, <1>6, <1>7, <1>8 DEF StepOK, Inv, Steady

\* tlb_loadentry writes one entry.
LEMMA LoadEntryEffect ==
  ASSUME TlbTypeOK, NEW v \in Pages, NEW p \in PFrames, tlb_loadentry(v, p, v \in Text)
  PROVE  /\ TlbTypeOK'
         /\ \E k \in Entries :
              /\ tlb'[k].valid /\ tlb'[k].vpage = v /\ tlb'[k].ppage = p
              /\ tlb'[k].dirty <=> v \notin Text
              /\ \A j \in Entries : j # k => tlb'[j] = tlb[j]
<1> DEFINE e == [valid |-> TRUE, vpage |-> v, ppage |-> p, dirty |-> ~(v \in Text)]
<1>1. e \in TlbEntry
  BY PagingAssumption DEF TlbEntry
<1>2. NUM_TLB \in Nat /\ NUM_TLB > 0
  BY SMTT(30), TlbAssumption
<1>3. (next_victim + 1) % NUM_TLB \in Entries
  BY SMTT(30), <1>2 DEF TlbTypeOK, Entries
<1>e. e.valid = TRUE /\ e.vpage = v /\ e.ppage = p /\ (e.dirty <=> v \notin Text)
  OBVIOUS
<1>4. PICK k \in Entries : tlb' = [tlb EXCEPT ![k] = e]
  BY DEF tlb_loadentry, FreeEntries, TlbTypeOK
<1> HIDE DEF e
<1>5. tlb' \in [Entries -> TlbEntry \cup {INVALID}]
  BY <1>1, <1>4 DEF TlbTypeOK
<1>6. tlb_full' \in BOOLEAN /\ next_victim' \in Entries
  BY <1>3 DEF tlb_loadentry, tlb_get_rr_victim, TlbTypeOK
<1>7. tlb'[k] = e /\ \A j \in Entries : j # k => tlb'[j] = tlb[j]
  BY <1>4 DEF TlbTypeOK
<1> QED
  BY <1>e, <1>5, <1>6, <1>7 DEF TlbTypeOK

\* A translation is loaded.
LEMMA TlbLoads ==
  ASSUME Types, TlbOK, Running, UNCHANGED curthread, HasAs(curthread), NEW v \in Pages,
         NEW f \in Frames, tlb_loadentry(v, firstpaddr + f, v \in Text),
         \A k \in Entries : tlb[k].valid => tlb[k].vpage # v,
         pt'[curthread][v] = Resident(f),
         \A w \in Pages : w # v => pt'[curthread][w] = pt[curthread][w]
  PROVE  TlbOK'
<1>0. firstpaddr + f \in PFrames
  BY SMTT(30), PagingAssumption, CoremapAssumption DEF Frames
<1>1. PICK k \in Entries : /\ tlb'[k].valid /\ tlb'[k].vpage = v /\ tlb'[k].ppage = firstpaddr + f
                           /\ tlb'[k].dirty <=> v \notin Text
                           /\ \A j \in Entries : j # k => tlb'[j] = tlb[j]
  BY SMTT(30), <1>0, LoadEntryEffect DEF Types
<1>2. TlbOnce'
  BY SMTT(30), <1>1, TlbFacts DEF TlbOnce
<1>3. TlbCoherent'
  <2> SUFFICES ASSUME NEW j \in Entries, tlb'[j].valid
               PROVE  /\ pt'[curthread][tlb'[j].vpage].in_mem
                      /\ pt'[curthread][tlb'[j].vpage].paddr = tlb'[j].ppage
                      /\ tlb'[j].dirty <=> tlb'[j].vpage \notin Text
    BY DEF TlbCoherent
  <2>1. CASE j = k
    BY SMTT(30), <1>1, <2>1, KindFacts
  <2>2. CASE j # k
    <3>1. tlb'[j] = tlb[j] /\ tlb[j].valid /\ tlb[j].vpage # v /\ tlb[j].vpage \in Pages
      BY <1>1, <2>2, TlbFacts
    <3>2. pt'[curthread][tlb[j].vpage] = pt[curthread][tlb[j].vpage]
      BY <3>1
    <3> QED
      BY SMTT(30), <3>1, <3>2, TlbFacts
  <2> QED
    BY <2>1, <2>2
<1> QED
  BY <1>2, <1>3 DEF TlbOK

\* vm_fault, as far as the TLB or getPage.
LEMMA VmFaultStep ==
  ASSUME Types, Roles, FramesOK, SlotsOK, TlbOK, ContentsOK,
         NEW t \in AddrSpaces, NEW v \in Pages, vm_fault(t, v)
  PROVE  StepOK
<1>1. /\ Types' /\ On(t, "user") /\ UNCHANGED status
      /\ UNCHANGED <<coremapVars, swapVars, ram, procVars, curthread>>
      /\ tlb_probe(v) = {}
      /\ \/ /\ pt[t][v].in_mem /\ tlb_loadentry(v, pt[t][v].paddr, v \in Text)
            /\ UNCHANGED th
         \/ ~pt[t][v].in_mem /\ UNCHANGED tlbVars /\ Changes(t, "getPage", t, v, 0, 0)
  <2>1. /\ On(t, "user") /\ UNCHANGED status /\ tlb_probe(v) = {}
        /\ UNCHANGED <<coremapVars, swapVars, ram, procVars, curthread>>
    BY DEF vm_fault
  <2>2. t \in Threads
    BY PagingAssumption
  <2>3. ASSUME pt[t][v].in_mem
        PROVE  /\ tlb_loadentry(v, pt[t][v].paddr, v \in Text) /\ UNCHANGED th /\ TlbTypeOK'
    <3>1. tlb_loadentry(v, pt[t][v].paddr, v \in Text) /\ UNCHANGED th
      BY <2>3 DEF vm_fault
    <3>2. pt[t][v] \in Entry
      BY DEF Types
    <3>3. PICK f \in Frames : pt[t][v] = Resident(f)
      BY <2>3, <3>2, EntryFacts
    <3>4. pt[t][v].paddr = firstpaddr + f
      BY <3>3, KindFacts
    <3>5. pt[t][v].paddr \in PFrames
      BY SMTT(30), <3>4, PagingAssumption, CoremapAssumption DEF Frames
    <3> QED
      BY <3>1, <3>5, LoadEntryEffect DEF Types
  <2>4. ASSUME ~pt[t][v].in_mem
        PROVE  UNCHANGED tlbVars /\ Changes(t, "getPage", t, v, 0, 0)
    <3>1. UNCHANGED tlbVars /\ th' = [th EXCEPT ![t] = At("getPage", t, v)]
      BY <2>4 DEF vm_fault
    <3>2. "getPage" \in PCs
      BY DEF PCs, Faulting
    <3> QED
      BY <2>2, <3>1, <3>2, MoveAt
  <2>5. Types'
    <3>1. TlbTypeOK' /\ th' \in [Threads -> Local]
      BY <2>3, <2>4 DEF Types, Changes, tlbVars, TlbTypeOK
    <3> QED
      BY <2>1, <3>1 DEF Types, coremapVars, swapVars, procVars, CoremapTypeOK, SwapTypeOK
  <2> QED
    BY <2>1, <2>3, <2>4, <2>5
<1>2. Roles'
  <2>1. /\ On(t, "user") /\ UNCHANGED <<pt, as_pt, t_stack, zombies, curthread>>
        /\ Running /\ th[t].pc = "user" /\ zombies = {}
        /\ UNCHANGED th \/ (~pt[t][v].in_mem /\ Changes(t, "getPage", t, v, 0, 0))
    BY <1>1, OnFacts, NoZombies DEF procVars
  <2>2. CASE UNCHANGED th
    BY <2>1, <2>2, RolesSame
  <2>3. CASE ~pt[t][v].in_mem /\ Changes(t, "getPage", t, v, 0, 0)
    <3>1. /\ th'[t].pc = "getPage" /\ th'[t].as = t /\ th'[t].i = v
          /\ \A u \in Threads : u # t => th'[u] = th[u]
      BY <2>3 DEF Changes
    <3>2. t \in Threads /\ t # kproc /\ kproc \in Threads /\ AddrSpaces \subseteq Threads
      BY PagingAssumption
    <3>3. Role(t)'
      BY <2>1, <2>3, <3>1, <3>2, FaultRole DEF Faulting
    <3>4. ASSUME NEW u \in Threads, u # t
          PROVE  Role(u)'
      <4>1. th'[u] = th[u]
        BY <3>1, <3>4
      <4>2. \A b \in AddrSpaces :
              \/ th'[b].pc = th[b].pc /\ \A w \in Pages : pt'[b][w] = pt[b][w]
              \/ /\ u # b /\ th[b].pc \notin Ended \cup {"embryo"}
                 /\ th'[b].pc \notin {"none", "embryo", "leaving"}
        BY <2>1, <3>1, <3>2, <3>4 DEF Ended
      <4> QED
        BY <2>1, <4>1, <4>2, OtherRole
    <3>5. OneWorker'
      BY <2>1, <3>1, <3>2, OneWorkerKept DEF Roles
    <3>6. ZombieLast' /\ TablesThere' /\ StacksThere' /\ NoPagesYet' /\ Alone'
      BY <2>1, <3>1, <3>2, RestKept
    <3> QED
      BY <3>3, <3>4, <3>5, <3>6 DEF Roles
  <2> QED
    BY <2>1, <2>2, <2>3
<1>3. /\ Running /\ Running' /\ curthread = t /\ th[t].pc = "user" /\ t \in Threads
      /\ HasAs(t) /\ Role(t)
      /\ UNCHANGED <<coremap, as_pt, t_stack, heap, swapMap, used, swap_lock, disk, ram, garbled>>
      /\ UNCHANGED <<pt, curthread>>
  BY SMTT(30), <1>1, OnFacts DEF coremapVars, swapVars, procVars, HasAs, Running, Ended
<1>4. /\ \A u \in Threads : u # t => th'[u] = th[u]
      /\ th'[t] = th[t] \/ (th'[t].pc = "getPage" /\ th'[t].as = t)
  BY <1>1, <1>3 DEF Changes
<1>5. FillersStay /\ VictimsStay /\ UsersStay /\ ClearersStay
  BY <1>3, <1>4, CalmThreads DEF Calm, Idle
<1>6. CopiersStay
  BY <1>4 DEF CopiersStay
<1>7. HasAs(t)' /\ AbsentStay
  BY <1>3, <1>4, PagingAssumption DEF HasAs, AbsentStay, Absent, Ended
<1>8. /\ FramesOK' /\ SlotsOK' /\ Counts /\ ContentsOK' /\ MemoryStep
  BY <1>1, <1>3, <1>5, <1>6, <1>7, ThreadsMove, StoredQuiet
<1>9. TlbOK'
  <2>1. CASE UNCHANGED tlbVars
    BY <1>3, <1>7, <2>1, TlbSame DEF tlbVars
  <2>2. CASE pt[t][v].in_mem /\ tlb_loadentry(v, pt[t][v].paddr, v \in Text)
    <3>1. PICK f \in Frames : pt[t][v] = Resident(f)
      BY SMTT(30), <2>2, EntryFacts DEF Types
    <3>2. pt[t][v].paddr = firstpaddr + f
      BY <3>1, KindFacts
    <3>3. \A k \in Entries : tlb[k].valid => tlb[k].vpage # v
      BY <1>1 DEF tlb_probe
    <3> QED
      BY <1>3, <2>2, <3>1, <3>2, <3>3, TlbLoads
  <2> QED
    BY <1>1, <2>1, <2>2
<1> QED
  BY <1>1, <1>2, <1>3, <1>8, <1>9 DEF StepOK, Inv, Steady

-----------------------------------------------------------------------------
\* getPage: a frame, or a victim.

\* getPage takes a free frame.
LEMMA GetPageFrames ==
  ASSUME Types, Roles, FramesOK, Running, NEW t \in Threads, th[t].pc = "getPage",
         NEW f \in Frames, NEW s, coremap[f].flags = 0, Tag(f, 2, th[t].as)',
         \A j \in Frames : j # f => coremap'[j] = coremap[j],
         Changes(t, "fill", th[t].as, th[t].i, f, s),
         UNCHANGED <<pt, as_pt, t_stack, heap>>
  PROVE  FramesOK'
<1>1. /\ FrameTags /\ FrameOnce /\ FrameKept
      /\ \A a \in AddrSpaces : as_pt[a] # NULL => as_pt[a] \in Frames
      /\ \A a \in AddrSpaces : t_stack[a] # NULL => t_stack[a] \in Frames
      /\ \A u \in Threads : Filling(u) => th[u].frame \in Frames /\ th[u].as \in AddrSpaces
  BY FrameFacts
<1>2. /\ \A a \in AddrSpaces : as_pt[a] # f /\ t_stack[a] # f
      /\ f \notin heap
      /\ \A a \in AddrSpaces, v \in Pages : pt[a][v] # Resident(f)
      /\ \A u \in Threads : Filling(u) => th[u].frame # f
  BY FreeFrame
<1>3. heap \subseteq Frames
  BY DEF Types
<1>4. /\ th'[t].pc = "fill" /\ th'[t].as = th[t].as /\ th'[t].frame = f
      /\ \A u \in Threads : u # t => th'[u] = th[u]
  BY DEF Changes
<1>5. th[t].as \in AddrSpaces
  BY WorkFacts DEF Idle
<1>6. \A u \in Threads : Filling(u)' => u = t \/ (u # t /\ Filling(u))
  BY <1>4 DEF Filling
<1>7. FrameTags'
  <2>1. \A a \in AddrSpaces : as_pt'[a] # NULL =>
          /\ coremap'[as_pt'[a]].flags = 3 /\ coremap'[as_pt'[a]].as = NULL
          /\ coremap'[as_pt'[a]].allocpages = 1
    BY SMTT(30), <1>1, <1>2 DEF FrameTags, Tag
  <2>2. \A a \in AddrSpaces : t_stack'[a] # NULL =>
          /\ coremap'[t_stack'[a]].flags = 2 /\ coremap'[t_stack'[a]].as = NULL
          /\ coremap'[t_stack'[a]].allocpages = 1 /\ t_stack'[a] \notin heap'
    BY SMTT(30), <1>1, <1>2 DEF FrameTags, Tag
  <2>3. \A g \in heap' : /\ coremap'[g].flags = 2 /\ coremap'[g].as = NULL
                         /\ coremap'[g].allocpages = 1
    BY SMTT(30), <1>1, <1>2, <1>3 DEF FrameTags, Tag
  <2>4. \A a \in AddrSpaces, v \in Pages, g \in Frames : pt'[a][v] = Resident(g) =>
          coremap'[g].flags = 2 /\ coremap'[g].as = a
    BY SMTT(30), <1>1, <1>2 DEF FrameTags, Tag
  <2>5. \A u \in Threads : Filling(u)' => coremap'[th'[u].frame].flags = 2
                                          /\ coremap'[th'[u].frame].as = th'[u].as
    BY SMTT(30), <1>1, <1>2, <1>4, <1>6 DEF FrameTags, Tag
  <2> QED
    BY <2>1, <2>2, <2>3, <2>4, <2>5 DEF FrameTags, Tag
<1>8. FrameOnce'
  <2>1. \A u \in Threads, v \in Pages : Filling(u)' => pt'[th'[u].as][v] # Resident(th'[u].frame)
    BY SMTT(30), <1>1, <1>2, <1>4, <1>5, <1>6 DEF FrameOnce
  <2> QED
    BY SMTT(30), <1>1, <2>1 DEF FrameOnce
<1>9. FrameKept'
  <2> SUFFICES ASSUME NEW g \in Frames, coremap'[g].flags # 0
               PROVE  Held(g)'
    BY DEF FrameKept
  <2>1. CASE g = f
    BY <1>4, <2>1 DEF Held, Filling
  <2>2. CASE g # f
    <3>1. Held(g)
      BY <1>1, <2>2 DEF FrameKept
    <3>2. \A u \in Threads : Filling(u) => Filling(u)' /\ th'[u].frame = th[u].frame
      BY <1>4 DEF Filling
    <3> QED
      BY <3>1, <3>2 DEF Held
  <2> QED
    BY <2>1, <2>2
<1>10. VictimThere'
  <2>1. VictimsStay
    BY <1>4 DEF VictimsStay
  <2>2. PagesStay
    BY DEF PagesStay
  <2> QED
    BY <2>1, <2>2, VictimKept
<1> QED
  BY <1>7, <1>8, <1>9, <1>10 DEF FramesOK

\* A thread that gets a page its frame goes on with the same page.
LEMMA FaultMoves ==
  ASSUME NEW t \in Threads, th[t].pc \in Faulting, NEW pc \in Faulting, NEW f, NEW s,
         Changes(t, pc, th[t].as, th[t].i, f, s)
  PROVE  /\ CopiersStay /\ AbsentStay /\ ClearersStay
         /\ \A u \in Threads : HasAs(u)' <=> HasAs(u)
<1>1. /\ th'[t].pc = pc /\ th'[t].as = th[t].as /\ th'[t].i = th[t].i
      /\ \A u \in Threads : u # t => th'[u] = th[u]
  BY DEF Changes
<1>2. \A q \in Faulting : q \notin Destroying \cup Absent \cup {"thread_fork"}
  BY DEF Faulting, Destroying, Absent, Ended
<1>3. CopiersStay
  BY <1>1, <1>2 DEF CopiersStay
<1>4. AddrSpaces \subseteq Threads
  BY PagingAssumption
<1>5. AbsentStay
  BY <1>1, <1>2, <1>4 DEF AbsentStay
<1>6. ClearersStay
  BY <1>1, <1>2 DEF ClearersStay
<1>7. \A u \in Threads : HasAs(u)' <=> HasAs(u)
  BY <1>1, <1>2 DEF HasAs, Absent
<1> QED
  BY <1>3, <1>5, <1>6, <1>7

\* A step of getPage or swap_in: the page table may lose a page that is in
\* memory.
LEMMA FaultMoveRoles ==
  ASSUME Types, Roles, Running, NEW t \in Threads, th[t].pc \in Faulting, zombies = {},
         NEW pc \in Faulting, NEW f \in Frames, NEW s \in Slots,
         Changes(t, pc, th[t].as, th[t].i, f, s),
         pc = "read" => pt[t][th[t].i].in_swap,
         UNCHANGED <<as_pt, t_stack, zombies>>,
         \A b \in AddrSpaces, w \in Pages :
           pt'[b][w] = pt[b][w] \/ (b = th[t].as /\ pt[b][w].in_mem /\ ~pt'[b][w].in_mem)
  PROVE  Roles'
<1> DEFINE a == th[t].as
<1>1. /\ Role(t) /\ a \in AddrSpaces /\ a # NULL /\ t \in AddrSpaces /\ t # kproc
      /\ th[t].i \in Pages /\ a \in Threads /\ OneWorker
  BY WorkFacts, PagingAssumption DEF Roles, Faulting, Idle
<1>2. /\ th'[t].pc = pc /\ th'[t].as = a /\ th'[t].i = th[t].i
      /\ \A u \in Threads : u # t => th'[u] = th[u]
  BY DEF Changes
<1>3. pc \notin Idle \cup Destroying \cup {"proc_wait", "thread_fork"} \cup Ended
  BY DEF Faulting, Idle, Destroying, Ended
<1>4. th[t].pc \notin Idle \cup Destroying \cup {"proc_wait", "thread_fork"} \cup Ended
  BY DEF Faulting, Idle, Destroying, Ended
<1>5. ASSUME a # t
      PROVE  /\ th[a].pc = "embryo" /\ th'[a].pc = "embryo" /\ th[a].as = NULL
             /\ pt[t][th[t].i] # NoPage
             /\ \A v \in Pages : v >= th[t].i => pt[a][v] = NoPage
             /\ \A u \in Threads : th[u].as = a => u = t
  <2>1. /\ th[a].pc = "embryo" /\ pt[t][th[t].i] # NoPage
        /\ \A v \in Pages : v >= th[t].i => pt[a][v] = NoPage
    BY <1>1, <1>5 DEF Role
  <2>2. Role(a)
    BY <1>1 DEF Roles
  <2>3. th[a].as = NULL
    BY <2>1, <2>2 DEF Role, Idle
  <2>4. \A u \in Threads : th[u].as = a => u = t
    BY <1>1, <1>5, <2>3 DEF OneWorker
  <2>5. th'[a].pc = "embryo"
    BY <1>1, <1>2, <1>5, <2>1
  <2> QED
    BY <2>1, <2>3, <2>4, <2>5
<1>6. ASSUME NEW u \in Threads, u # t
      PROVE  Role(u)'
  <2>1. Role(u)
    BY DEF Roles
  <2>2. th'[u] = th[u]
    BY <1>2, <1>6
  <2>3. th[u].as = a => a = t /\ th[u].pc = "proc_wait"
    <3> HAVE th[u].as = a
    <3>1. a = t
      BY <1>5, <1>6
    <3>2. th[u].pc = "proc_wait"
      BY SMTT(30), <1>1, <1>4, <1>6, <3>1, Workers DEF Idle
    <3> QED
      BY <3>1, <3>2
  <2>4. th[u].pc \in Faulting => u \in AddrSpaces /\ th[u].as \in AddrSpaces
    BY WorkFacts DEF Faulting, Idle
  <2>5. th[u].pc \in Faulting => u # a
    BY <1>5, <1>6 DEF Faulting
  <2>6. th[u].pc \in Faulting => \A v \in Pages : pt'[u][v] = pt[u][v]
    BY <2>4, <2>5
  <2>7. th[u].pc \in Faulting \cup {"clear_swap"} =>
          th[u].as \in AddrSpaces /\ \A v \in Pages : pt'[th[u].as][v] = pt[th[u].as][v]
    <3>1. th[u].pc \in Faulting \cup {"clear_swap"} => th[u].as # a
      BY <2>3 DEF Faulting
    <3>2. th[u].pc = "clear_swap" => th[u].as \in AddrSpaces
      BY WorkFacts DEF Idle
    <3> QED
      BY <2>4, <3>1, <3>2
  <2>8. th[u].pc \notin Idle /\ th[u].as # u =>
           \/ th'[th[u].as].pc = th[th[u].as].pc
           \/ th[u].pc = "proc_wait" /\ th'[th[u].as].pc \notin {"none", "embryo", "leaving"}
    <3> HAVE th[u].pc \notin Idle /\ th[u].as # u
    <3>1. th[u].as \in AddrSpaces
      BY WorkFacts
    <3>2. th[u].as \in Threads
      BY <3>1, PagingAssumption
    <3>3. CASE th[u].as # t
      BY <1>2, <3>2, <3>3
    <3>4. CASE th[u].as = t
      <4>1. u # t /\ t \in AddrSpaces /\ th[t].pc \notin Ended \cup {"embryo"}
        BY <1>1, <1>4, <1>6, <3>4 DEF Faulting, Ended
      <4>2. th[u].pc = "proc_wait"
        BY <3>4, <4>1, Workers
      <4> QED
        BY <1>2, <1>3, <3>4, <4>2 DEF Idle
    <3> QED
      BY <3>3, <3>4
  <2> QED
    BY <2>1, <2>2, <2>6, <2>7, <2>8, RoleKept
<1>7. Role(t)'
  <2>1. a = t => ~pt'[t][th[t].i].in_mem
    BY <1>1 DEF Role
  <2>2. ASSUME a # t
        PROVE  /\ pt'[t][th[t].i] # NoPage
               /\ \A v \in Pages : v >= th[t].i => pt'[a][v] = NoPage
    BY SMTT(30), <1>1, <1>5, <2>2, KindFacts
  <2>3. pc = "read" => pt'[t][th[t].i].in_swap
    <3>1. pt[t][th[t].i] \in Entry
      BY SMTT(30), <1>1 DEF Types
    <3>2. pt[t][th[t].i].in_swap => ~pt[t][th[t].i].in_mem
      BY <3>1, EntryFacts
    <3> QED
      BY <1>1, <3>2
  <2> HIDE DEF a
  <2> QED
    BY SMTT(30), <1>1, <1>2, <1>5, <2>1, <2>2, <2>3, FaultRole
<1>8. OneWorker'
  BY <1>1, <1>2, OneWorkerKept
<1>9. ZombieLast' /\ TablesThere' /\ StacksThere' /\ NoPagesYet' /\ Alone'
  <2>1. ASSUME NEW p \in AddrSpaces
        PROVE  /\ p # t => th'[p] = th[p]
               /\ th[p].pc \in {"none", "new", "leaving"} => p # a
    <3>1. p \in Threads
      BY PagingAssumption
    <3>2. th[p].pc \in {"none", "new", "leaving"} => p # a
      BY <1>4, <1>5 DEF Idle
    <3> QED
      BY <1>2, <3>1, <3>2
  <2>2. \A p \in AddrSpaces :
           /\ th'[p].pc \in {"none", "new", "leaving"} <=> th[p].pc \in {"none", "new", "leaving"}
           /\ th'[p].pc \in {"none", "embryo", "exited"} <=> th[p].pc \in {"none", "embryo", "exited"}
           /\ th[p].pc \in {"none", "leaving"} => th'[p].pc \in {"none", "leaving"}
           /\ th[p].pc \in {"none", "new", "leaving"} => \A v \in Pages : pt'[p][v] = pt[p][v]
    BY SMTT(30), <1>2, <1>3, <1>4, <2>1 DEF Idle
  <2>3. \A u \in Threads : /\ th'[u].pc = "freeAs" <=> th[u].pc = "freeAs"
                           /\ th[u].pc = "freeAs" => th'[u].as = th[u].as
    BY <1>2, <1>3, <1>4 DEF Destroying
  <2>4. th'[kproc].as = th[kproc].as
    BY <1>1, <1>2, PagingAssumption
  <2> QED
    BY <2>2, <2>3, <2>4, RestKept
<1> QED
  BY <1>6, <1>7, <1>8, <1>9 DEF Roles

\* A thread that holds a frame moves.
LEMMA MoveHolding ==
  ASSUME Types, NEW t \in Threads, NEW pc \in PCs, NEW f \in Frames, Holding(t, pc, f)
  PROVE  Changes(t, pc, th[t].as, th[t].i, f, th[t].slot)
<1> DEFINE q == [th[t] EXCEPT !.pc = pc]
           r == [q EXCEPT !.frame = f]
<1>1. q \in Local /\ q.pc = pc /\ q.as = th[t].as /\ q.i = th[t].i /\ q.slot = th[t].slot
  BY LocalFacts DEF Local
<1>2. th' = [th EXCEPT ![t] = r]
  BY DEF Holding
<1> HIDE DEF q
<1>3. r \in Local /\ r.pc = pc /\ r.as = q.as /\ r.i = q.i /\ r.frame = f /\ r.slot = q.slot
  BY <1>1 DEF Local
<1>4. Changes(t, r.pc, r.as, r.i, r.frame, r.slot)
  BY <1>2, <1>3, MoveFacts
<1> QED
  BY <1>1, <1>3, <1>4

\* getPage finds a free frame.
LEMMA GetPageFreeStep ==
  ASSUME Types, Roles, FramesOK, SlotsOK, TlbOK, ContentsOK, NEW t \in Threads, getPage_free(t)
  PROVE  StepOK
<1>1. /\ Types' /\ On(t, "getPage")
      /\ UNCHANGED <<swapVars, tlbVars, ram, procVars, curthread, status>>
      /\ \E f \in Frames : /\ getPage(FALSE, th[t].as, f)
                           /\ Changes(t, "fill", th[t].as, th[t].i, f, th[t].slot)
  <2>1. /\ On(t, "getPage")
        /\ UNCHANGED <<swapVars, tlbVars, ram, procVars, curthread, status>>
    BY DEF getPage_free
  <2>2. PICK f \in Frames : getPage(FALSE, th[t].as, f) /\ Holding(t, "fill", f)
    BY DEF getPage_free
  <2>3. "fill" \in PCs
    BY DEF PCs, Faulting
  <2>4. Changes(t, "fill", th[t].as, th[t].i, f, th[t].slot)
    BY <2>2, <2>3, MoveHolding
  <2>5. CoremapTypeOK'
    BY <2>2, GetPageEffect, LocalFacts DEF Types
  <2>6. th' \in [Threads -> Local]
    BY <2>4 DEF Changes
  <2> QED
    BY <2>1, <2>2, <2>4, <2>5, <2>6 DEF Types, swapVars, tlbVars, procVars, SwapTypeOK, TlbTypeOK
<1>2. /\ Running /\ Running' /\ curthread = t /\ th[t].pc = "getPage" /\ zombies = {}
      /\ UNCHANGED <<as_pt, t_stack, heap, swapMap, used, swap_lock, disk, ram, garbled>>
      /\ UNCHANGED <<pt, tlb, zombies, curthread>>
  BY <1>1, OnFacts, NoZombies DEF swapVars, tlbVars, procVars, Running
<1>3. th[t].pc \in Faulting /\ th[t].as \in AddrSpaces /\ th[t].slot \in Slots
  BY <1>2, WorkFacts, LocalFacts DEF Faulting, Idle
<1>4. PICK f \in Frames : /\ getPage(FALSE, th[t].as, f)
                          /\ Changes(t, "fill", th[t].as, th[t].i, f, th[t].slot)
  BY <1>1
<1>5. Roles'
  BY <1>2, <1>3, <1>4, FaultMoveRoles DEF Faulting
<1>6. /\ coremap[f].flags = 0 /\ Tag(f, 2, th[t].as)'
      /\ \A j \in Frames : j # f => coremap'[j] = coremap[j]
  <2>1. PICK r \in BOOLEAN, a \in AddrSpaces \cup {NULL} : r = FALSE /\ a = th[t].as
    BY <1>3
  <2>2. CoremapTypeOK /\ getPage(r, a, f)
    BY <1>4, <2>1 DEF Types
  <2>3. /\ coremap[f].flags = 0 /\ (~r => Tag(f, 2, a)')
        /\ \A j \in Frames : j # f => coremap'[j] = coremap[j]
    BY <2>2, GetPageEffect
  <2>4. th'[t].as = a
    BY <1>4, <2>1 DEF Changes
  <2> QED
    BY <2>1, <2>3, <2>4 DEF Tag
<1>7. FramesOK'
  BY <1>2, <1>4, <1>6, GetPageFrames
<1>8. CopiersStay /\ AbsentStay /\ ClearersStay /\ \A u \in Threads : HasAs(u)' <=> HasAs(u)
  BY <1>3, <1>4, FaultMoves DEF Faulting
<1>9. UsersStay
  BY <1>2, <1>4 DEF UsersStay, Changes
<1>10. SlotsOK' /\ Counts
  BY <1>2, <1>8, <1>9, StoredQuiet, SlotsSame
<1>11. TlbOK'
  BY <1>2, <1>8, TlbSame
<1>12. ContentsOK' /\ MemoryStep
  BY <1>1, <1>2, <1>8, ContentsQuiet
<1> QED
  BY <1>1, <1>2, <1>5, <1>7, <1>10, <1>11, <1>12 DEF StepOK, Inv, Steady

\* No two threads get frames for the same address space.
LEMMA SoleFaulter ==
  ASSUME Types, Roles, Running, NEW t \in Threads, NEW u \in Threads, t # u,
         th[t].pc \in Faulting, th[u].pc \in Faulting
  PROVE  th[t].as # th[u].as
<1>1. th[t].as \in AddrSpaces /\ th[t].as # NULL /\ th[u].as \in AddrSpaces
  BY WorkFacts DEF Faulting, Idle
<1>2. /\ th[t].pc \notin Ended \cup {"embryo", "proc_wait"}
      /\ th[u].pc \notin Ended \cup {"embryo", "proc_wait"}
  BY DEF Faulting, Ended
<1> SUFFICES ASSUME th[t].as = th[u].as
             PROVE  FALSE
  OBVIOUS
<1>3. CASE th[t].as = t
  <2>1. t \in AddrSpaces /\ th[u].as = t
    BY <1>1, <1>3
  <2>2. th[u].pc = "proc_wait"
    BY <1>2, <2>1, Workers
  <2> QED
    BY <1>2, <2>2
<1>4. CASE th[t].as = u
  BY <1>1, <1>2, <1>4, Workers
<1>5. CASE th[t].as # t /\ th[t].as # u
  BY <1>1, <1>5 DEF Roles, OneWorker
<1> QED
  BY <1>3, <1>4, <1>5

\* swapvictim chooses a used frame of the address space, and changes no entry.
LEMMA SwapvictimEffect ==
  ASSUME CoremapTypeOK, NEW as, NEW i \in Frames, swapvictim(as, i)
  PROVE  /\ CoremapTypeOK' /\ UNCHANGED coremap
         /\ coremap[i].flags = 2 /\ coremap[i].as = as
<1>1. coremapSize \in Nat /\ coremapSize > 0
  BY SMTT(30), CoremapAssumption
<1>2. \A n \in Int, m \in Nat : m > 0 => n % m \in 0 .. m - 1
  BY SMTT(30)
<1>3. next_svic' \in Frames
  BY SMTT(30), <1>1, <1>2 DEF swapvictim, Frames
<1>4. coremap[i].flags # 0
  BY AvailableFacts DEF swapvictim, NoneAvailable
<1> QED
  BY <1>3, <1>4 DEF swapvictim, CoremapTypeOK, Victims, c_entry

\* A frame that swapvictim finds holds a page of the address space.
LEMMA VictimFound ==
  ASSUME Types, Roles, FramesOK, Running, NEW t \in Threads, th[t].pc = "getPage",
         NEW f \in Frames, coremap[f].flags = 2, coremap[f].as = th[t].as
  PROVE  \E v \in Pages : pt[th[t].as][v] = Resident(f)
<1>1. th[t].as \in AddrSpaces /\ th[t].as # NULL
  BY WorkFacts DEF Idle
<1>2. FrameTags /\ Held(f)
  BY SMTT(30), FrameFacts DEF FrameKept
<1>3. \A a \in AddrSpaces : as_pt[a] # f
  BY SMTT(30), <1>2, FrameNotNull DEF FrameTags, Tag
<1>4. \A a \in AddrSpaces : t_stack[a] # f
  BY SMTT(30), <1>1, <1>2, FrameNotNull DEF FrameTags, Tag
<1>5. f \notin heap
  BY <1>1, <1>2 DEF FrameTags, Tag
<1>6. ASSUME NEW u \in Threads, Filling(u), th[u].frame = f PROVE FALSE
  <2>1. th[u].as = th[t].as
    BY <1>2, <1>6 DEF FrameTags, Tag
  <2>2. u # t /\ th[u].pc \in Faulting /\ th[t].pc \in Faulting
    BY <1>6 DEF Filling, Faulting
  <2> QED
    BY <2>1, <2>2, SoleFaulter
<1>7. ASSUME NEW a \in AddrSpaces, NEW v \in Pages, pt[a][v] = Resident(f) PROVE a = th[t].as
  BY <1>2, <1>7 DEF FrameTags, Tag
<1> QED
  BY <1>2, <1>3, <1>4, <1>5, <1>6, <1>7 DEF Held

\* getPage finds a victim.
LEMMA GetPageVictimStep ==
  ASSUME Types, Roles, FramesOK, SlotsOK, TlbOK, ContentsOK, NEW t \in Threads, getPage_victim(t)
  PROVE  StepOK
<1>1. /\ Types' /\ On(t, "getPage")
      /\ UNCHANGED <<coremap, swapVars, tlbVars, ram, procVars, curthread, status>>
      /\ \E f \in Frames : /\ coremap[f].flags = 2 /\ coremap[f].as = th[t].as
                           /\ Changes(t, "evict", th[t].as, th[t].i, f, th[t].slot)
  <2>1. /\ On(t, "getPage")
        /\ UNCHANGED <<swapVars, tlbVars, ram, procVars, curthread, status>>
    BY DEF getPage_victim
  <2>2. PICK f \in Frames : swapvictim(th[t].as, f) /\ Holding(t, "evict", f)
    BY DEF getPage_victim
  <2>3. "evict" \in PCs
    BY DEF PCs, Faulting
  <2>4. Changes(t, "evict", th[t].as, th[t].i, f, th[t].slot)
    BY <2>2, <2>3, MoveHolding
  <2>5. CoremapTypeOK' /\ UNCHANGED coremap /\ coremap[f].flags = 2 /\ coremap[f].as = th[t].as
    BY <2>2, SwapvictimEffect DEF Types
  <2>6. th' \in [Threads -> Local]
    BY <2>4 DEF Changes
  <2> QED
    BY <2>1, <2>4, <2>5, <2>6 DEF Types, swapVars, tlbVars, procVars, SwapTypeOK, TlbTypeOK
<1>2. /\ Running /\ Running' /\ curthread = t /\ th[t].pc = "getPage" /\ zombies = {}
      /\ UNCHANGED <<coremap, as_pt, t_stack, heap, swapMap, used, swap_lock, disk, ram, garbled>>
      /\ UNCHANGED <<pt, tlb, zombies, curthread>>
  BY <1>1, OnFacts, NoZombies DEF swapVars, tlbVars, procVars, Running
<1>3. th[t].pc \in Faulting /\ th[t].as \in AddrSpaces /\ th[t].slot \in Slots
  BY <1>2, WorkFacts, LocalFacts DEF Faulting, Idle
<1>4. PICK f \in Frames : /\ coremap[f].flags = 2 /\ coremap[f].as = th[t].as
                          /\ Changes(t, "evict", th[t].as, th[t].i, f, th[t].slot)
  BY <1>1
<1>5. Roles'
  BY <1>2, <1>3, <1>4, FaultMoveRoles DEF Faulting
<1>6. /\ th'[t].pc = "evict" /\ th'[t].as = th[t].as /\ th'[t].frame = f
      /\ \A u \in Threads : u # t => th'[u] = th[u]
  BY <1>4 DEF Changes
<1>7. FramesOK'
  <2>1. PagesStay /\ FillersStay
    BY <1>2, <1>6 DEF PagesStay, FillersStay, Filling
  <2>2. FrameTags' /\ FrameOnce' /\ FrameKept'
    BY <1>2, <2>1, FramesSame
  <2>3. \E v \in Pages : pt[th[t].as][v] = Resident(f)
    BY <1>2, <1>4, VictimFound
  <2>4. VictimThere
    BY <1>2, FrameFacts
  <2>5. VictimThere'
    BY <1>2, <1>6, <2>3, <2>4 DEF VictimThere
  <2> QED
    BY <2>2, <2>5 DEF FramesOK
<1>8. CopiersStay /\ AbsentStay /\ ClearersStay /\ \A u \in Threads : HasAs(u)' <=> HasAs(u)
  BY <1>3, <1>4, FaultMoves DEF Faulting
<1>9. UsersStay
  BY <1>2, <1>6 DEF UsersStay
<1>10. SlotsOK' /\ Counts
  BY <1>2, <1>8, <1>9, StoredQuiet, SlotsSame
<1>11. TlbOK'
  BY <1>2, <1>8, TlbSame
<1>12. ContentsOK' /\ MemoryStep
  BY <1>1, <1>2, <1>8, ContentsQuiet
<1> QED
  BY <1>1, <1>2, <1>5, <1>7, <1>10, <1>11, <1>12 DEF StepOK, Inv, Steady

-----------------------------------------------------------------------------
\* The transfers to and from the swap file begin.

\* swap_out allocates a slot for the page it writes.
LEMMA SlotTaken ==
  ASSUME Types, Roles, SlotsOK, Running, NEW t \in Threads, NEW s \in Slots,
         th[t].pc = "evict", swap_out_start(t, s),
         Changes(t, "write", th[t].as, th[t].i, th[t].frame, s), UNCHANGED pt
  PROVE  SlotsOK' /\ Counts
<1>1. LockHeld /\ SlotOnce /\ SlotsMarked /\ Settled = swapMap
      /\ \A u \in Threads : th[u].pc \notin {"read", "write"}
  BY SlotFacts, SwapfileAssumption DEF swap_out_start
<1>2. /\ swapMap' = swapMap \cup {s} /\ s \notin swapMap /\ used' = used /\ swap_lock' = t
  BY DEF swap_out_start, bitmap_alloc
<1>3. /\ th'[t].pc = "write" /\ th'[t].slot = s
      /\ \A u \in Threads : u # t => th'[u] = th[u]
  BY DEF Changes
<1>4. StoredStays
  <2>1. ClearersStay
    BY <1>3 DEF ClearersStay, Destroying
  <2>2. SwapsStay
    BY DEF SwapsStay
  <2> QED
    BY <2>1, <2>2, StoredSame
<1>5. LockHeld'
  BY <1>1, <1>2, <1>3 DEF LockHeld
<1>6. Writing' = {t}
  BY <1>1, <1>3 DEF Writing
<1>7. Settled' = Settled
  <2>1. {th[u].slot : u \in Writing}' = {s}
    BY <1>3, <1>6
  <2> QED
    BY <1>1, <1>2, <2>1 DEF Settled
<1>8. SlotOnce'
  BY SMTT(30), <1>1, <1>4 DEF SlotOnce, StoredStays
<1>9. SlotsMarked'
  <2>1. \A r \in Slots : r \in Settled' <=> \E a \in AddrSpaces, v \in Pages : Stored(a, v, r)'
    BY <1>1, <1>4, <1>7 DEF SlotsMarked, StoredStays
  <2>2. \A u \in Writing' : th'[u].slot \in swapMap'
    BY <1>2, <1>3, <1>6
  <2> QED
    BY <2>1, <2>2 DEF SlotsMarked
<1> QED
  BY <1>2, <1>5, <1>7, <1>8, <1>9 DEF SlotsOK, Counts

\* A thread moves on with a slot.
LEMMA MoveSlot ==
  ASSUME Types, NEW t \in Threads, NEW pc \in PCs, NEW s \in Slots,
         th' = [th EXCEPT ![t].pc = pc, ![t].slot = s]
  PROVE  Changes(t, pc, th[t].as, th[t].i, th[t].frame, s)
<1> DEFINE q == [th[t] EXCEPT !.pc = pc]
           r == [q EXCEPT !.slot = s]
<1>1. q \in Local /\ q.pc = pc /\ q.as = th[t].as /\ q.i = th[t].i /\ q.frame = th[t].frame
  BY LocalFacts DEF Local
<1>2. th' = [th EXCEPT ![t] = r]
  OBVIOUS
<1> HIDE DEF q
<1>3. r \in Local /\ r.pc = pc /\ r.as = q.as /\ r.i = q.i /\ r.slot = s /\ r.frame = q.frame
  BY <1>1 DEF Local
<1>4. Changes(t, r.pc, r.as, r.i, r.frame, r.slot)
  BY <1>2, <1>3, MoveFacts
<1> QED
  BY <1>1, <1>3, <1>4

\* The page that evict finds.
LEMMA InFrameFacts ==
  ASSUME Types, NEW a \in AddrSpaces, NEW f \in Frames
  PROVE  /\ \A j \in InFrame(a, f) : j \in Pages /\ pt[a][j] = Resident(f)
         /\ \A v \in Pages : /\ pt[a][v] = Resident(f)
                             /\ \A w \in Pages : pt[a][w] = Resident(f) => v = w
                             => InFrame(a, f) = {v}
<1>1. \A v \in Pages : pt[a][v] \in Entry
  BY DEF Types
<1>2. \A v \in Pages : pt[a][v].paddr = firstpaddr + f <=> pt[a][v] = Resident(f)
  BY <1>1, EntryFacts
<1>3. Pages \subseteq Nat
  BY PagingAssumption
<1>4. InFrame(a, f) = {v \in Pages : /\ pt[a][v] = Resident(f)
                                    /\ \A w \in Pages : w < v => pt[a][w] # Resident(f)}
  BY <1>2 DEF InFrame
<1>5. ASSUME NEW v \in Pages, pt[a][v] = Resident(f),
             \A w \in Pages : pt[a][w] = Resident(f) => v = w
      PROVE  InFrame(a, f) = {v}
  <2>1. \A w \in Pages : w < v => pt[a][w] # Resident(f)
    BY SMTT(30), <1>3, <1>5
  <2>2. v \in InFrame(a, f)
    BY <1>4, <1>5, <2>1
  <2>3. \A w \in InFrame(a, f) : w = v
    BY <1>4, <1>5
  <2> QED
    BY <2>2, <2>3
<1> QED
  BY <1>4, <1>5

\* The frame to evict holds exactly one page of the address space.
LEMMA VictimFacts ==
  ASSUME Types, Roles, FramesOK, Running, NEW t \in Threads, th[t].pc \in {"evict", "write"}
  PROVE  /\ th[t].as \in AddrSpaces /\ th[t].frame \in Frames
         /\ \E v \in Pages : /\ InFrame(th[t].as, th[t].frame) = {v}
                             /\ pt[th[t].as][v] = Resident(th[t].frame)
                             /\ th[t].pc = "write" => v \notin Text
<1>1. th[t].as \in AddrSpaces /\ th[t].frame \in Frames
  BY WorkFacts, LocalFacts DEF Idle
<1>2. PICK v \in Pages : /\ pt[th[t].as][v] = Resident(th[t].frame)
                         /\ th[t].pc = "write" => v \notin Text
  BY DEF FramesOK, VictimThere
<1>3. \A w \in Pages : pt[th[t].as][w] = Resident(th[t].frame) => v = w
  BY SMTT(30), <1>1, <1>2 DEF FramesOK, FrameOnce
<1>4. InFrame(th[t].as, th[t].frame) = {v}
  BY SMTT(30), <1>1, <1>2, <1>3, InFrameFacts
<1> QED
  BY <1>1, <1>2, <1>4

\* A writable page is given a slot, and written to it.
LEMMA SwapOutStep ==
  ASSUME Types, Roles, FramesOK, SlotsOK, TlbOK, ContentsOK, NEW t \in Threads, swap_out(t)
  PROVE  StepOK
<1> SUFFICES ASSUME NEW s \in Slots, On(t, "evict"),
                    ~(InFrame(th[t].as, th[t].frame) \subseteq Text), swap_out_start(t, s),
                    th' = [th EXCEPT ![t].pc = "write", ![t].slot = s],
                    UNCHANGED <<coremapVars, tlbVars, ram, procVars, curthread, status>>
             PROVE  StepOK
  <2>1. swap_out_nospace /\ Stops("swap file full") => StepOK
    BY StopsStep
  <2> QED
    BY <2>1 DEF swap_out
<1>1. /\ Types'
      /\ Changes(t, "write", th[t].as, th[t].i, th[t].frame, s)
      /\ \E v \in Pages : v \notin Text /\ pt[th[t].as][v] = Resident(th[t].frame)
  <2>1. \E v \in Pages : v \notin Text /\ pt[th[t].as][v] = Resident(th[t].frame)
    BY OnFacts, VictimFacts
  <2>2. "write" \in PCs
    BY DEF PCs, Faulting
  <2>3. Changes(t, "write", th[t].as, th[t].i, th[t].frame, s)
    BY <2>2, MoveSlot
  <2>4. SwapTypeOK'
    <3>1. "elf" \in Contents
      BY PagingAssumption
    <3> QED
      BY <3>1, SwapTypes DEF Types
  <2>5. th' \in [Threads -> Local]
    BY <2>3 DEF Changes
  <2>6. Types'
    BY <2>4, <2>5 DEF Types, coremapVars, tlbVars, procVars, CoremapTypeOK, TlbTypeOK
  <2> QED
    BY <2>1, <2>3, <2>6
<1>2. /\ Running /\ Running' /\ curthread = t /\ th[t].pc = "evict" /\ zombies = {}
      /\ UNCHANGED <<coremap, as_pt, t_stack, heap, disk, ram, garbled>>
      /\ UNCHANGED <<pt, tlb, zombies, curthread>>
  BY OnFacts, NoZombies DEF coremapVars, tlbVars, procVars, Running, swap_out_start
<1>3. th[t].pc \in Faulting /\ th[t].frame \in Frames
  BY <1>2, LocalFacts DEF Faulting
<1>4. Roles'
  BY <1>1, <1>2, <1>3, FaultMoveRoles DEF Faulting
<1>5. /\ th'[t].pc = "write" /\ th'[t].as = th[t].as /\ th'[t].frame = th[t].frame
      /\ \A u \in Threads : u # t => th'[u] = th[u]
  BY <1>1 DEF Changes
<1>6. FramesOK'
  <2>1. PagesStay /\ FillersStay
    BY <1>2, <1>5 DEF PagesStay, FillersStay, Filling
  <2>2. FrameTags' /\ FrameOnce' /\ FrameKept'
    BY <1>2, <2>1, FramesSame
  <2>3. VictimThere
    BY <1>2, FrameFacts
  <2>4. VictimThere'
    BY <1>1, <1>2, <1>5, <2>3 DEF VictimThere
  <2> QED
    BY <2>2, <2>4 DEF FramesOK
<1>7. CopiersStay /\ AbsentStay /\ \A u \in Threads : HasAs(u)' <=> HasAs(u)
  BY <1>1, <1>3, FaultMoves DEF Faulting
<1>8. SlotsOK' /\ Counts
  BY <1>1, <1>2, SlotTaken
<1>9. TlbOK'
  BY <1>2, <1>7, TlbSame
<1>10. ContentsOK' /\ MemoryStep
  BY <1>1, <1>2, <1>7, ContentsQuiet
<1> QED
  BY <1>1, <1>2, <1>4, <1>6, <1>8, <1>9, <1>10 DEF StepOK, Inv, Steady

\* swap_in takes the lock, and as_copy's call of it gives it back, to no effect
\* on the slots.
LEMMA LockTaken ==
  ASSUME Types, Roles, SlotsOK, Running, NEW t \in Threads, th[t].pc = "fill", swap_in_start(t),
         Changes(t, "read", th[t].as, th[t].i, th[t].frame, th[t].slot), UNCHANGED pt
  PROVE  SlotsOK' /\ Counts
<1>1. /\ th'[t].pc = "read" /\ \A u \in Threads : u # t => th'[u] = th[u]
  BY DEF Changes
<1>2. UNCHANGED <<swapMap, used>> /\ swap_lock = NoThread /\ swap_lock' = t
  BY DEF swap_in_start
<1>3. StoredStays
  <2>1. ClearersStay
    BY <1>1 DEF ClearersStay, Destroying
  <2>2. SwapsStay
    BY DEF SwapsStay
  <2> QED
    BY <2>1, <2>2, StoredSame
<1>4. LockHeld'
  <2>1. \A u \in Threads : th[u].pc \notin {"read", "write"}
    BY <1>2, SlotFacts, SwapfileAssumption
  <2> QED
    BY <1>1, <1>2, <2>1 DEF LockHeld
<1> QED
  BY <1>1, <1>2, <1>3, <1>4, SlotsKept

\* swap_in is about to read.
LEMMA SwapInStep ==
  ASSUME Types, Roles, FramesOK, SlotsOK, TlbOK, ContentsOK, NEW t \in Threads, swap_in(t)
  PROVE  StepOK
<1>1. /\ Types' /\ On(t, "fill") /\ pt[t][th[t].i].in_swap /\ swap_in_start(t)
      /\ Changes(t, "read", th[t].as, th[t].i, th[t].frame, th[t].slot)
      /\ UNCHANGED <<coremapVars, tlbVars, ram, procVars, curthread, status>>
  <2>1. /\ On(t, "fill") /\ pt[t][th[t].i].in_swap /\ swap_in_start(t)
        /\ th' = [th EXCEPT ![t].pc = "read"]
        /\ UNCHANGED <<coremapVars, tlbVars, ram, procVars, curthread, status>>
    BY DEF swap_in
  <2>2. "read" \in PCs
    BY DEF PCs, Faulting
  <2>3. Changes(t, "read", th[t].as, th[t].i, th[t].frame, th[t].slot)
    BY <2>1, <2>2, MovePc
  <2>4. SwapTypeOK'
    BY <2>1 DEF swap_in_start, SwapTypeOK, Types
  <2>5. th' \in [Threads -> Local]
    BY <2>3 DEF Changes
  <2>6. Types'
    BY <2>1, <2>4, <2>5 DEF Types, coremapVars, tlbVars, procVars, CoremapTypeOK, TlbTypeOK
  <2> QED
    BY <2>1, <2>3, <2>6
<1>2. /\ Running /\ Running' /\ curthread = t /\ th[t].pc = "fill" /\ zombies = {}
      /\ UNCHANGED <<coremap, as_pt, t_stack, heap, disk, ram, garbled>>
      /\ UNCHANGED <<pt, tlb, zombies, curthread>>
  BY <1>1, OnFacts, NoZombies DEF coremapVars, tlbVars, procVars, Running, swap_in_start
<1>3. th[t].pc \in Faulting /\ th[t].frame \in Frames /\ th[t].slot \in Slots
  BY <1>2, LocalFacts DEF Faulting
<1>4. Roles'
  BY <1>1, <1>2, <1>3, FaultMoveRoles DEF Faulting
<1>5. /\ th'[t].pc = "read" /\ th'[t].as = th[t].as /\ th'[t].frame = th[t].frame
      /\ \A u \in Threads : u # t => th'[u] = th[u]
  BY <1>1 DEF Changes
<1>6. FramesOK'
  <2>1. PagesStay /\ FillersStay /\ VictimsStay
    BY <1>2, <1>5 DEF PagesStay, FillersStay, VictimsStay, Filling
  <2> QED
    BY <1>2, <2>1, FramesSame, VictimKept DEF FramesOK
<1>7. CopiersStay /\ AbsentStay /\ \A u \in Threads : HasAs(u)' <=> HasAs(u)
  BY <1>1, <1>3, FaultMoves DEF Faulting
<1>8. SlotsOK' /\ Counts
  BY <1>1, <1>2, LockTaken
<1>9. TlbOK'
  BY <1>2, <1>7, TlbSame
<1>10. ContentsOK' /\ MemoryStep
  BY <1>1, <1>2, <1>7, ContentsQuiet
<1> QED
  BY <1>1, <1>2, <1>4, <1>6, <1>8, <1>9, <1>10 DEF StepOK, Inv, Steady

-----------------------------------------------------------------------------
\* The victim leaves memory.

\* tlb_invalidate_vaddr leaves no translation of its page.
LEMMA InvalidateVaddrEffect ==
  ASSUME TlbTypeOK, NEW v, tlb_invalidate_vaddr(v)
  PROVE  /\ TlbTypeOK'
         /\ \A k \in Entries : tlb'[k].valid => tlb'[k] = tlb[k]
         /\ TlbOnce => \A k \in Entries : tlb'[k].valid => tlb[k].vpage # v
<1>1. CASE tlb_probe(v) = {} /\ UNCHANGED tlb
  BY <1>1, TlbEntryFacts DEF tlb_invalidate_vaddr, tlb_probe, TlbTypeOK
<1>2. ASSUME NEW k \in tlb_probe(v), tlb' = [tlb EXCEPT ![k] = INVALID]
      PROVE  /\ TlbTypeOK'
             /\ \A j \in Entries : tlb'[j].valid => tlb'[j] = tlb[j]
             /\ TlbOnce => \A j \in Entries : tlb'[j].valid => tlb[j].vpage # v
  <2>1. k \in Entries /\ tlb[k].valid /\ tlb[k].vpage = v
    BY DEF tlb_probe
  <2>2. TlbTypeOK'
    BY <1>2, <2>1 DEF TlbTypeOK, tlb_invalidate_vaddr
  <2>3. ~tlb'[k].valid
    BY <1>2, <2>1 DEF TlbTypeOK, INVALID
  <2>4. \A j \in Entries : tlb'[j].valid => j # k /\ tlb'[j] = tlb[j]
    BY <1>2, <2>3 DEF TlbTypeOK
  <2> QED
    BY <2>1, <2>2, <2>4 DEF TlbOnce
<1> QED
  BY <1>1, <1>2 DEF tlb_invalidate_vaddr

\* The victim's page leaves its frame to the thread.
LEMMA PageLeaves ==
  ASSUME Types, Roles, FramesOK, Running, NEW t \in Threads, th[t].pc \in {"evict", "write"},
         NEW j \in Pages, NEW e, NEW s, pt[th[t].as][j] = Resident(th[t].frame),
         \A g \in Frames : e # Resident(g),
         Enters(th[t].as, j, e), Changes(t, "fill", th[t].as, th[t].i, th[t].frame, s),
         UNCHANGED <<coremap, as_pt, t_stack, heap>>
  PROVE  FramesOK'
<1>0. PICK a \in AddrSpaces, f \in Frames : a = th[t].as /\ f = th[t].frame
  BY FrameFacts
<1>1. /\ FrameTags /\ FrameOnce /\ FrameKept /\ VictimThere
      /\ \A u \in Threads : Filling(u) => th[u].frame \in Frames /\ th[u].as \in AddrSpaces
      /\ \A u \in Threads : th[u].pc \in {"evict", "write"} =>
              th[u].frame \in Frames /\ th[u].as \in AddrSpaces
  BY FrameFacts
<1>2. /\ th'[t].pc = "fill" /\ th'[t].as = a /\ th'[t].frame = f
      /\ \A u \in Threads : u # t => th'[u] = th[u]
  BY <1>0 DEF Changes
<1>3. /\ pt'[a][j] = e
      /\ \A b \in AddrSpaces, w \in Pages : b # a \/ w # j => pt'[b][w] = pt[b][w]
  BY <1>0 DEF Enters
<1>4. pt[a][j] = Resident(f)
  BY <1>0
<1>5. \A b \in AddrSpaces, w \in Pages, g \in Frames :
        pt'[b][w] = Resident(g) => pt[b][w] = Resident(g) /\ (b # a \/ w # j)
  BY <1>3
<1>6. \A u \in Threads : Filling(u)' => u = t \/ (u # t /\ Filling(u))
  BY <1>2 DEF Filling
<1>7. FrameTags'
  <2>1. Tag(f, 2, a)
    BY <1>1, <1>4 DEF FrameTags
  <2>2. \A b \in AddrSpaces, v \in Pages, g \in Frames : pt'[b][v] = Resident(g) => Tag(g, 2, b)
    BY <1>1, <1>5 DEF FrameTags
  <2>3. \A u \in Threads : Filling(u)' => Tag(th'[u].frame, 2, th'[u].as)
    BY <1>1, <1>2, <1>6, <2>1 DEF FrameTags
  <2> QED
    BY <1>1, <2>2, <2>3, TagsKept
<1>8. FrameOnce'
  <2>1. ASSUME NEW b \in AddrSpaces, NEW v \in Pages, NEW w \in Pages, NEW g \in Frames,
               pt'[b][v] = Resident(g), pt'[b][w] = Resident(g)
        PROVE  v = w
    <3>1. pt[b][v] = Resident(g) /\ pt[b][w] = Resident(g)
      BY <1>5, <2>1
    <3> QED
      BY <1>1, <3>1 DEF FrameOnce
  <2>2. \A v \in Pages : pt'[a][v] # Resident(f)
    BY <1>1, <1>4, <1>5 DEF FrameOnce
  <2>3. ASSUME NEW u \in Threads, NEW v \in Pages, Filling(u)'
        PROVE  pt'[th'[u].as][v] # Resident(th'[u].frame)
    <3>1. CASE u = t
      BY <1>2, <2>2, <3>1
    <3>2. CASE u # t
      <4>1. Filling(u) /\ th'[u] = th[u] /\ th[u].frame \in Frames /\ th[u].as \in AddrSpaces
        BY <1>1, <1>2, <1>6, <2>3, <3>2
      <4>2. pt[th[u].as][v] # Resident(th[u].frame)
        BY <1>1, <4>1 DEF FrameOnce
      <4>3. pt'[th[u].as][v] # Resident(th[u].frame)
        BY <1>5, <4>1, <4>2
      <4> QED
        BY <4>1, <4>3
    <3> QED
      BY <3>1, <3>2
  <2> QED
    BY <1>1, <2>1, <2>3 DEF FrameOnce
<1>9. FrameKept'
  <2> SUFFICES ASSUME NEW g \in Frames, coremap'[g].flags # 0
               PROVE  Held(g)'
    BY DEF FrameKept
  <2>1. CASE g = f
    BY <1>2, <2>1 DEF Held, Filling
  <2>2. CASE g # f
    <3>1. Held(g)
      BY <1>1 DEF FrameKept
    <3>2. \A u \in Threads : Filling(u) => Filling(u)' /\ th'[u].frame = th[u].frame
      BY <1>2 DEF Filling
    <3>3. Resident(f) # Resident(g)
      BY <2>2, KindFacts
    <3>4. \A b \in AddrSpaces, v \in Pages : pt[b][v] = Resident(g) => pt'[b][v] = Resident(g)
      BY <1>3, <1>4, <3>3
    <3> QED
      BY <3>1, <3>2, <3>4 DEF Held
  <2> QED
    BY <2>1, <2>2
<1>10. VictimThere'
  <2> SUFFICES ASSUME NEW u \in Threads, th'[u].pc \in {"evict", "write"}
               PROVE  \E v \in Pages : /\ pt'[th'[u].as][v] = Resident(th'[u].frame)
                                       /\ th'[u].pc = "write" => v \notin Text
    BY DEF VictimThere
  <2>1. u # t /\ th'[u] = th[u]
    BY <1>2
  <2>2. th[u].as # a
    BY <1>0, <2>1, SoleFaulter DEF Faulting
  <2>3. th[u].as \in AddrSpaces
    BY <1>1, <2>1
  <2>4. PICK v \in Pages : /\ pt[th[u].as][v] = Resident(th[u].frame)
                           /\ th[u].pc = "write" => v \notin Text
    BY <1>1, <2>1 DEF VictimThere
  <2>5. pt'[th[u].as][v] = pt[th[u].as][v]
    BY <1>3, <2>2, <2>3
  <2> QED
    BY <2>1, <2>4, <2>5
<1> QED
  BY <1>7, <1>8, <1>9, <1>10 DEF FramesOK

\* A page leaves memory.
LEMMA TlbLoses ==
  ASSUME Types, TlbOK, Running, UNCHANGED curthread, HasAs(curthread), NEW j \in Pages,
         tlb_invalidate_vaddr(j), NEW a \in AddrSpaces, NEW e, Enters(a, j, e)
  PROVE  TlbOK'
<1>1. /\ \A k \in Entries : tlb'[k].valid => tlb'[k] = tlb[k]
      /\ \A k \in Entries : tlb'[k].valid => tlb[k].vpage # j
  BY TlbFacts, InvalidateVaddrEffect DEF Types
<1>2. \A b \in AddrSpaces, w \in Pages : b # a \/ w # j => pt'[b][w] = pt[b][w]
  BY DEF Enters
<1>3. TlbOnce'
  BY <1>1, TlbFacts DEF TlbOnce
<1>4. TlbCoherent'
  <2> SUFFICES ASSUME NEW k \in Entries, tlb'[k].valid
               PROVE  /\ pt'[curthread][tlb'[k].vpage].in_mem
                      /\ pt'[curthread][tlb'[k].vpage].paddr = tlb'[k].ppage
                      /\ tlb'[k].dirty <=> tlb'[k].vpage \notin Text
    BY DEF TlbCoherent
  <2>1. tlb'[k] = tlb[k] /\ tlb[k].valid /\ tlb[k].vpage # j /\ tlb[k].vpage \in Pages
    BY <1>1, TlbFacts
  <2>2. curthread \in AddrSpaces
    BY DEF HasAs
  <2>3. pt'[curthread][tlb[k].vpage] = pt[curthread][tlb[k].vpage]
    BY <1>2, <2>1, <2>2
  <2> QED
    BY <2>1, <2>3, TlbFacts
<1> QED
  BY <1>3, <1>4 DEF TlbOK

\* A page of a read-only segment is dropped: the executable holds it.
LEMMA TextDropped ==
  ASSUME Types, Types', ContentsOK, Running, UNCHANGED <<ram, disk>>, NEW a \in AddrSpaces,
         NEW j \in Pages, j \in Text, NEW f \in Frames, pt[a][j] = Resident(f),
         Enters(a, j, NoPage)
  PROVE  (\A b \in AddrSpaces : HeldStays(b)) /\ TextKept'
<1>1. \A b \in AddrSpaces, v \in Pages : b # a \/ v # j => pt'[b][v] = pt[b][v]
  BY DEF Enters
<1>2. HeldFacts'
  BY HeldFacts, PTL
<1>3. held(a, j)' = held(a, j)
  <2>1. held(a, j) = "elf"
    BY SMTT(30), HeldFacts DEF ContentsOK, TextKept
  <2>2. held(a, j)' = Fresh(j)
    BY <1>2 DEF Enters
  <2>3. Fresh(j) = "elf"
    BY PagingAssumption DEF Fresh
  <2> QED
    BY <2>1, <2>2, <2>3
<1>4. \A b \in AddrSpaces : HeldStays(b)
  <2> SUFFICES ASSUME NEW b \in AddrSpaces, NEW v \in Pages PROVE held(b, v)' = held(b, v)
    BY DEF HeldStays
  <2>1. CASE b = a /\ v = j
    BY <1>3, <2>1
  <2>2. CASE b # a \/ v # j
    BY <1>1, <2>2, HeldKept
  <2> QED
    BY <2>1, <2>2
<1>5. TextKept'
  <2> SUFFICES ASSUME NEW b \in AddrSpaces, NEW v \in Text
               PROVE  /\ \A s \in Slots : pt'[b][v] # Swapped(s)
                      /\ \A g \in Frames : pt'[b][v] = Resident(g) => ram'[g] = "elf"
    BY DEF TextKept
  <2>1. v \in Pages
    BY DEF Pages
  <2>2. CASE b = a /\ v = j
    BY <2>2, KindFacts DEF Enters
  <2>3. CASE b # a \/ v # j
    BY SMTT(30), <1>1, <2>1, <2>3 DEF ContentsOK, TextKept
  <2> QED
    BY <2>2, <2>3
<1> QED
  BY <1>4, <1>5

\* Page table entries change.
LEMMA EnterFacts ==
  ASSUME Types, NEW a \in AddrSpaces, NEW v \in Pages, NEW e \in Entry,
         pt' = [pt EXCEPT ![a][v] = e]
  PROVE  Enters(a, v, e)
  BY DEF Types, Enters

\* A read-only page gives its frame up.
LEMMA EvictStep ==
  ASSUME Types, Roles, FramesOK, SlotsOK, TlbOK, ContentsOK, NEW t \in Threads, evict(t)
  PROVE  StepOK
<1>1. /\ Types' /\ On(t, "evict") /\ th[t].as \in AddrSpaces
      /\ UNCHANGED <<coremapVars, swapVars, ram, as_pt, t_stack, heap, zombies, created,
                     garbled, curthread, status>>
      /\ Changes(t, "fill", th[t].as, th[t].i, th[t].frame, th[t].slot)
      /\ \E j \in Text : /\ pt[th[t].as][j] = Resident(th[t].frame)
                         /\ Enters(th[t].as, j, NoPage)
                         /\ tlb_invalidate_vaddr(j)
  <2> DEFINE as == th[t].as
             f == th[t].frame
             J == InFrame(as, f)
  <2>1. /\ On(t, "evict") /\ J \subseteq Text
        /\ UNCHANGED <<coremapVars, swapVars, ram, as_pt, t_stack, heap, zombies, created,
                       garbled, curthread, status>>
    BY DEF evict
  <2>2. as \in AddrSpaces /\ f \in Frames
    BY <2>1, OnFacts, VictimFacts
  <2>3. PICK v \in Pages : J = {v} /\ pt[as][v] = Resident(f)
    BY <2>1, OnFacts, VictimFacts
  <2>4. v \in Text
    BY <2>1, <2>3
  <2>5. Holding(t, "fill", f) /\ pt' = [pt EXCEPT ![as][v] = NoPage] /\ tlb_invalidate_vaddr(v)
    BY <2>3 DEF evict
  <2>6. Enters(as, v, NoPage)
    BY <2>2, <2>5, EnterFacts, KindFacts
  <2>7. "fill" \in PCs
    BY DEF PCs, Faulting
  <2>8. Changes(t, "fill", as, th[t].i, f, th[t].slot)
    BY <2>2, <2>5, <2>7, MoveHolding
  <2>9. TlbTypeOK'
    BY <2>5, InvalidateVaddrEffect DEF Types
  <2>10. th' \in [Threads -> Local] /\ pt' \in [AddrSpaces -> [Pages -> Entry]]
    BY <2>6, <2>8 DEF Changes, Enters
  <2>11. Types'
    BY <2>1, <2>9, <2>10 DEF Types, swapVars, coremapVars, SwapTypeOK, CoremapTypeOK
  <2> QED
    BY <2>1, <2>2, <2>3, <2>4, <2>5, <2>6, <2>8, <2>11
<1>2. /\ Running /\ Running' /\ curthread = t /\ th[t].pc = "evict" /\ zombies = {}
      /\ UNCHANGED <<coremap, as_pt, t_stack, heap, swapMap, used, swap_lock, disk, ram, garbled>>
      /\ UNCHANGED <<zombies, curthread>>
  BY <1>1, OnFacts, NoZombies DEF coremapVars, swapVars, Running
<1>3. /\ th[t].pc \in Faulting /\ th[t].slot \in Slots /\ th[t].frame \in Frames
      /\ t \in AddrSpaces /\ HasAs(t)
  BY <1>2, WorkFacts, LocalFacts DEF Faulting, Idle, HasAs, Ended
<1>4. PICK a \in AddrSpaces, f \in Frames : a = th[t].as /\ f = th[t].frame
  BY <1>1, <1>3
<1>5. PICK j \in Text : pt[a][j] = Resident(f) /\ Enters(a, j, NoPage) /\ tlb_invalidate_vaddr(j)
  BY <1>1, <1>4
<1>6. j \in Pages /\ Changes(t, "fill", a, th[t].i, f, th[t].slot)
  BY <1>1, <1>4 DEF Pages
<1>7. \A b \in AddrSpaces, w \in Pages : b # a \/ w # j => pt'[b][w] = pt[b][w]
  BY <1>5 DEF Enters
<1>8. pt'[a][j] = NoPage
  BY <1>5 DEF Enters
<1>9. Roles'
  <2>1. \A b \in AddrSpaces, w \in Pages :
          pt'[b][w] = pt[b][w] \/ (b = a /\ pt[b][w].in_mem /\ ~pt'[b][w].in_mem)
    <3>1. pt[a][j].in_mem /\ ~pt'[a][j].in_mem
      BY <1>5, <1>8, KindFacts
    <3> QED
      BY <1>7, <3>1
  <2>2. /\ Changes(t, "fill", th[t].as, th[t].i, f, th[t].slot)
        /\ \A b \in AddrSpaces, w \in Pages :
             pt'[b][w] = pt[b][w] \/ (b = th[t].as /\ pt[b][w].in_mem /\ ~pt'[b][w].in_mem)
    BY <1>4, <1>6, <2>1
  <2>3. "fill" \in Faulting /\ "fill" # "read"
    BY DEF Faulting
  <2>4. UNCHANGED <<as_pt, t_stack, zombies>>
    BY <1>2
  <2>5. PICK s \in Slots : s = th[t].slot
    BY <1>3
  <2>6. Changes(t, "fill", th[t].as, th[t].i, f, s)
    BY <2>2, <2>5
  <2> QED
    BY <1>2, <1>3, <2>2, <2>3, <2>4, <2>6, FaultMoveRoles
<1>10. FramesOK'
  <2>1. /\ pt[th[t].as][j] = Resident(th[t].frame) /\ Enters(th[t].as, j, NoPage)
        /\ Changes(t, "fill", th[t].as, th[t].i, th[t].frame, th[t].slot)
    BY <1>4, <1>5, <1>6
  <2>2. \A g \in Frames : NoPage # Resident(g)
    BY KindFacts
  <2> QED
    BY <1>2, <1>6, <2>1, <2>2, PageLeaves
<1>11. CopiersStay /\ AbsentStay /\ ClearersStay
  BY <1>3, <1>4, <1>6, FaultMoves DEF Faulting
<1>12. SlotsOK' /\ Counts
  <2>1. UsersStay
    BY <1>2, <1>6 DEF UsersStay, Changes
  <2>2. SwapsStay
    <3>1. \A s \in Slots : Resident(f) # Swapped(s) /\ NoPage # Swapped(s)
      BY KindFacts
    <3> QED
      BY <1>5, <1>7, <1>8, <3>1 DEF SwapsStay
  <2> QED
    BY <1>2, <1>11, <2>1, <2>2, StoredSame, SlotsSame
<1>13. TlbOK'
  BY <1>2, <1>3, <1>5, <1>6, TlbLoses
<1>14. (\A b \in AddrSpaces : HeldStays(b)) /\ TextKept'
  BY <1>1, <1>2, <1>5, <1>6, TextDropped
<1>15. ContentsOK'
  BY <1>2, <1>11, <1>14, ContentsKept
<1>16. MemoryStep
  BY <1>11, <1>14, MemoryKept
<1>17. Inv'
  BY <1>1, <1>2, <1>9, <1>10, <1>12, <1>13, <1>15, <1>16 DEF Inv
<1>18. garbled => garbled'
  BY <1>1, <1>2, GarbledSame
<1>19. Running' => Steady
  BY <1>1, <1>2, <1>9, <1>10, <1>12, <1>13, <1>15, <1>16, <1>18 DEF Steady
<1> QED
  BY <1>17, <1>19 DEF StepOK

\* Nobody destroys the address space of a process that has not exited.
LEMMA NotCleared ==
  ASSUME Types, Roles, Running, NEW a \in AddrSpaces, th[a].pc \notin Ended
  PROVE  \A v \in Pages : ~Cleared(a, v)
<1>1. ASSUME NEW u \in Threads, th[u].as = a
      PROVE  th[u].pc \notin Destroying
  BY <1>1 DEF Roles, Role
<1> QED
  BY <1>1 DEF Cleared, Destroying

\* The page is written, and its entry says where.
LEMMA SlotFilled ==
  ASSUME Types, Roles, SlotsOK, Running, NEW t \in Threads, th[t].pc = "write",
         NEW a \in AddrSpaces, a = th[t].as, NEW j \in Pages, NEW s \in Slots, s = th[t].slot,
         NEW f \in Frames, pt[a][j] = Resident(f), NEW c, swap_out_end(t, s, c),
         Changes(t, "fill", a, th[t].i, th[t].frame, 0), Enters(a, j, Swapped(s))
  PROVE  SlotsOK' /\ Counts
<1>1. /\ LockHeld /\ SlotOnce /\ SlotsMarked /\ Settled = swapMap \ {s} /\ s \in swapMap
      /\ \A b \in AddrSpaces, v \in Pages : ~Stored(b, v, s)
      /\ \A u \in Threads : u # t => th[u].pc \notin {"read", "write"}
      /\ Settled \subseteq Slots
  BY SlotFacts
<1>2. swapMap' = swapMap /\ used' = (used + 1) % USHORT /\ swap_lock' = NoThread
  BY DEF swap_out_end
<1>3. /\ th'[t].pc = "fill" /\ \A u \in Threads : u # t => th'[u] = th[u]
  BY DEF Changes
<1>4. /\ pt'[a][j] = Swapped(s)
      /\ \A b \in AddrSpaces, w \in Pages : b # a \/ w # j => pt'[b][w] = pt[b][w]
  BY DEF Enters
<1>5. \A b \in AddrSpaces, v \in Pages : Cleared(b, v)' <=> Cleared(b, v)
  <2> TAKE b \in AddrSpaces, v \in Pages
  <2>1. ASSUME NEW u \in Threads
        PROVE  /\ th'[u].as = b
               /\ (th'[u].pc = "clear_swap" /\ v < th'[u].i) \/ th'[u].pc \in {"freepages", "freeAs"}
               <=>
               /\ th[u].as = b
               /\ (th[u].pc = "clear_swap" /\ v < th[u].i) \/ th[u].pc \in {"freepages", "freeAs"}
    BY <1>3
  <2> QED
    BY <2>1 DEF Cleared
<1>6. \A v \in Pages : ~Cleared(a, v)
  <2>1. Role(t)
    BY DEF Roles
  <2>2. th[a].pc \notin Ended
    BY <2>1 DEF Role, Faulting, Ended
  <2> QED
    BY <2>2, NotCleared
<1>7. \A b \in AddrSpaces, v \in Pages, r \in Slots :
        Stored(b, v, r)' <=> Stored(b, v, r) \/ (b = a /\ v = j /\ r = s)
  <2>1. ASSUME NEW b \in AddrSpaces, NEW v \in Pages, NEW r \in Slots, b # a \/ v # j
        PROVE  Stored(b, v, r)' <=> Stored(b, v, r)
    BY <1>4, <1>5, <2>1 DEF Stored
  <2>2. \A r \in Slots : ~Stored(a, j, r)
    BY KindFacts DEF Stored
  <2>3. \A r \in Slots : Stored(a, j, r)' <=> r = s
    <3>1. \A r \in Slots : Swapped(s) = Swapped(r) => r = s
      BY KindFacts
    <3>2. ASSUME NEW r \in Slots PROVE Stored(a, j, r)' <=> pt'[a][j] = Swapped(r)
      BY <1>5, <1>6 DEF Stored
    <3> QED
      BY <1>4, <3>1, <3>2
  <2> QED
    BY <2>1, <2>2, <2>3
<1>8. LockHeld'
  <2>1. NoThread \notin Threads
    BY SwapfileAssumption
  <2> QED
    BY <1>1, <1>2, <1>3, <2>1 DEF LockHeld
<1>9. Writing' = {}
  BY <1>1, <1>3 DEF Writing
<1>10. Settled' = Settled \cup {s}
  BY <1>1, <1>2, <1>9 DEF Settled
<1>11. SlotOnce'
  BY SMTT(30), <1>1, <1>7 DEF SlotOnce
<1>12. SlotsMarked'
  <2>1. \A r \in Slots : r \in Settled' <=> \E b \in AddrSpaces, v \in Pages : Stored(b, v, r)'
    BY <1>1, <1>7, <1>10 DEF SlotsMarked
  <2> QED
    BY <1>9, <2>1 DEF SlotsMarked
<1>13. Counts
  BY <1>1, <1>2, <1>10 DEF Counts
<1> QED
  BY <1>8, <1>11, <1>12, <1>13 DEF SlotsOK

\* A page goes to a slot that no process which still has its memory uses.
LEMMA PageSwapped ==
  ASSUME Types, Types', Roles, ContentsOK, Running, UNCHANGED ram, NEW s \in Slots,
         \A b \in AddrSpaces, v \in Pages : ~Stored(b, v, s),
         NEW a \in AddrSpaces, NEW j \in Pages, j \notin Text, NEW f \in Frames,
         pt[a][j] = Resident(f), Enters(a, j, Swapped(s)), disk' = [disk EXCEPT ![s] = ram[f]]
  PROVE  (\A b \in AddrSpaces : HasAs(b) => HeldStays(b)) /\ TextKept'
<1>1. \A b \in AddrSpaces, v \in Pages : b # a \/ v # j => pt'[b][v] = pt[b][v]
  BY DEF Enters
<1>2. HeldFacts'
  BY HeldFacts, PTL
<1>3. disk'[s] = ram[f] /\ \A r \in Slots : r # s => disk'[r] = disk[r]
  BY DEF Types, SwapTypeOK
<1>4. held(a, j)' = held(a, j)
  <2>1. held(a, j) = ram[f]
    BY HeldFacts
  <2>2. held(a, j)' = disk'[s]
    BY SMTT(30), <1>2 DEF Enters
  <2> QED
    BY <1>3, <2>1, <2>2
<1>5. ASSUME NEW b \in AddrSpaces, HasAs(b) PROVE HeldStays(b)
  <2> SUFFICES ASSUME NEW v \in Pages PROVE held(b, v)' = held(b, v)
    BY DEF HeldStays
  <2>1. CASE b = a /\ v = j
    BY <1>4, <2>1
  <2>2. CASE b # a \/ v # j
    <3>1. th[b].pc \notin Ended
      BY <1>5 DEF HasAs
    <3>2. pt[b][v] # Swapped(s)
      BY <3>1, NotCleared DEF Stored
    <3> QED
      BY <1>1, <1>3, <2>2, <3>2, HeldKept
  <2> QED
    BY <2>1, <2>2
<1>6. TextKept'
  <2> SUFFICES ASSUME NEW b \in AddrSpaces, NEW v \in Text
               PROVE  /\ \A r \in Slots : pt'[b][v] # Swapped(r)
                      /\ \A g \in Frames : pt'[b][v] = Resident(g) => ram'[g] = "elf"
    BY DEF TextKept
  <2>1. v \in Pages
    BY DEF Pages
  <2> QED
    BY SMTT(30), <1>1, <2>1 DEF ContentsOK, TextKept
<1> QED
  BY <1>5, <1>6

\* getPage has written its victim to the swap file.
LEMMA SwappedOutStep ==
  ASSUME Types, Roles, FramesOK, SlotsOK, TlbOK, ContentsOK, NEW t \in Threads, swapped_out(t)
  PROVE  StepOK
<1>1. /\ Types' /\ On(t, "write") /\ th[t].as \in AddrSpaces
      /\ UNCHANGED <<coremapVars, ram, as_pt, t_stack, heap, zombies, created,
                     garbled, curthread, status>>
      /\ swap_out_end(t, th[t].slot, ram[th[t].frame])
      /\ Changes(t, "fill", th[t].as, th[t].i, th[t].frame, 0)
      /\ \E j \in Pages : /\ j \notin Text /\ pt[th[t].as][j] = Resident(th[t].frame)
                          /\ Enters(th[t].as, j, Swapped(th[t].slot))
                          /\ tlb_invalidate_vaddr(j)
  <2> DEFINE as == th[t].as
             f == th[t].frame
             s == th[t].slot
  <2>1. /\ On(t, "write") /\ swap_out_end(t, s, ram[f])
        /\ UNCHANGED <<coremapVars, ram, as_pt, t_stack, heap, zombies, created,
                       garbled, curthread, status>>
        /\ th' = [th EXCEPT ![t].pc = "fill", ![t].slot = 0]
    BY DEF swapped_out
  <2>2. as \in AddrSpaces /\ f \in Frames /\ s \in Slots
    BY <2>1, OnFacts, VictimFacts, LocalFacts
  <2>3. PICK v \in Pages : InFrame(as, f) = {v} /\ pt[as][v] = Resident(f) /\ v \notin Text
    BY <2>1, OnFacts, VictimFacts
  <2>4. pt' = [pt EXCEPT ![as][v] = Swapped(s)] /\ tlb_invalidate_vaddr(v)
    BY <2>3 DEF swapped_out
  <2>5. Enters(as, v, Swapped(s))
    BY <2>2, <2>4, EnterFacts, KindFacts
  <2>6. "fill" \in PCs
    BY DEF PCs, Faulting
  <2>7. Changes(t, "fill", as, th[t].i, f, 0)
    BY <2>1, <2>6, Zero, MoveSlot
  <2>8. TlbTypeOK'
    BY <2>4, InvalidateVaddrEffect DEF Types
  <2>9. ram[f] \in Contents
    BY <2>2 DEF Types
  <2>10. SwapTypeOK'
    BY <2>1, <2>2, <2>9, SwapTypes DEF Types
  <2>11. th' \in [Threads -> Local] /\ pt' \in [AddrSpaces -> [Pages -> Entry]]
    BY <2>5, <2>7 DEF Changes, Enters
  <2>12. Types'
    BY <2>1, <2>8, <2>10, <2>11 DEF Types, coremapVars, CoremapTypeOK
  <2> QED
    BY <2>1, <2>2, <2>3, <2>4, <2>5, <2>7, <2>12
<1>2. /\ Running /\ Running' /\ curthread = t /\ th[t].pc = "write" /\ zombies = {}
      /\ UNCHANGED <<coremap, as_pt, t_stack, heap, ram, garbled>>
      /\ UNCHANGED <<zombies, curthread>>
  BY <1>1, OnFacts, NoZombies DEF coremapVars, Running
<1>3. /\ th[t].pc \in Faulting /\ th[t].slot \in Slots /\ th[t].frame \in Frames
      /\ t \in AddrSpaces /\ HasAs(t)
  BY <1>2, WorkFacts, LocalFacts DEF Faulting, Idle, HasAs, Ended
<1>4. PICK a \in AddrSpaces, f \in Frames, s \in Slots :
        a = th[t].as /\ f = th[t].frame /\ s = th[t].slot
  BY <1>1, <1>3
<1>5. PICK j \in Pages : /\ j \notin Text /\ pt[a][j] = Resident(f)
                         /\ Enters(a, j, Swapped(s)) /\ tlb_invalidate_vaddr(j)
  BY <1>1, <1>4
<1>6. Changes(t, "fill", a, th[t].i, f, 0) /\ swap_out_end(t, s, ram[f])
  BY <1>1, <1>4
<1>7. \A b \in AddrSpaces, w \in Pages : b # a \/ w # j => pt'[b][w] = pt[b][w]
  BY <1>5 DEF Enters
<1>8. pt'[a][j] = Swapped(s)
  BY <1>5 DEF Enters
<1>9. Roles'
  <2>1. \A b \in AddrSpaces, w \in Pages :
          pt'[b][w] = pt[b][w] \/ (b = a /\ pt[b][w].in_mem /\ ~pt'[b][w].in_mem)
    <3>1. pt[a][j].in_mem /\ ~pt'[a][j].in_mem
      BY <1>5, <1>8, KindFacts
    <3> QED
      BY <1>7, <3>1
  <2>2. /\ Changes(t, "fill", th[t].as, th[t].i, f, 0)
        /\ \A b \in AddrSpaces, w \in Pages :
             pt'[b][w] = pt[b][w] \/ (b = th[t].as /\ pt[b][w].in_mem /\ ~pt'[b][w].in_mem)
    BY <1>4, <1>6, <2>1
  <2>3. "fill" \in Faulting /\ 0 \in Slots /\ "fill" # "read"
    BY Zero DEF Faulting
  <2> QED
    BY <1>2, <1>3, <2>2, <2>3, FaultMoveRoles
<1>10. FramesOK'
  <2>1. \A g \in Frames : Swapped(s) # Resident(g)
    BY KindFacts
  <2> QED
    BY <1>2, <1>4, <1>5, <1>6, <2>1, PageLeaves
<1>11. CopiersStay /\ AbsentStay
  BY <1>3, <1>4, <1>6, FaultMoves DEF Faulting
<1>12. SlotsOK' /\ Counts
  BY <1>2, <1>4, <1>5, <1>6, SlotFilled
<1>13. TlbOK'
  BY <1>2, <1>3, <1>5, TlbLoses
<1>14. (\A b \in AddrSpaces : HasAs(b) => HeldStays(b)) /\ TextKept'
  <2>1. \A b \in AddrSpaces, v \in Pages : ~Stored(b, v, s)
    BY <1>2, <1>4, SlotFacts
  <2>2. disk' = [disk EXCEPT ![s] = ram[f]]
    BY <1>6 DEF swap_out_end
  <2> QED
    BY <1>1, <1>2, <1>5, <2>1, <2>2, PageSwapped
<1>15. \A b \in AddrSpaces : InFork(b) \/ th[b].pc \notin Absent => HasAs(b)
  BY DEF InFork, HasAs, Absent, Faulting, Ended
<1>16. ContentsOK'
  BY <1>2, <1>11, <1>14, <1>15, ContentsKept
<1>17. MemoryStep
  BY <1>11, <1>14, <1>15, MemoryKept
<1>18. Inv'
  BY <1>1, <1>2, <1>9, <1>10, <1>12, <1>13, <1>16, <1>17 DEF Inv
<1>19. garbled => garbled'
  BY <1>1, <1>2, GarbledSame
<1>20. Running' => Steady
  BY <1>1, <1>2, <1>9, <1>10, <1>12, <1>13, <1>16, <1>17, <1>19 DEF Steady
<1> QED
  BY <1>18, <1>20 DEF StepOK

-----------------------------------------------------------------------------
\* The page is in memory: vm_fault ends.

\* The thread's frame becomes the frame of a page.
LEMMA ThreadMaps ==
  ASSUME Types, Roles, FramesOK, Running, NEW t \in Threads, Filling(t), NEW i \in Pages,
         \A g \in Frames : pt[th[t].as][i] # Resident(g),
         Enters(th[t].as, i, Resident(th[t].frame)),
         th'[t].pc \notin {"fill", "read", "evict", "write"},
         \A u \in Threads : u # t => th'[u] = th[u],
         UNCHANGED <<coremap, as_pt, t_stack, heap>>
  PROVE  FramesOK'
<1>0. PICK a \in AddrSpaces, f \in Frames : a = th[t].as /\ f = th[t].frame
  BY FrameFacts
<1>1. /\ FrameTags /\ FrameOnce /\ FrameKept /\ VictimThere
      /\ \A u \in Threads : Filling(u) => th[u].frame \in Frames /\ th[u].as \in AddrSpaces
      /\ \A u \in Threads : th[u].pc \in {"evict", "write"} =>
              th[u].frame \in Frames /\ th[u].as \in AddrSpaces
  BY FrameFacts
<1>2. /\ pt'[a][i] = Resident(f)
      /\ \A b \in AddrSpaces, w \in Pages : b # a \/ w # i => pt'[b][w] = pt[b][w]
  BY <1>0 DEF Enters
<1>3. \A u \in Threads : Filling(u)' => u # t /\ Filling(u) /\ th'[u] = th[u]
  BY DEF Filling
<1>4. \A u \in Threads : Filling(u)' => th[u].as # a
  BY <1>0, <1>3, SoleFaulter DEF Filling, Faulting
<1>5. \A b \in AddrSpaces, w \in Pages, g \in Frames :
        pt'[b][w] = Resident(g) => \/ b = a /\ w = i /\ g = f
                                   \/ pt[b][w] = Resident(g) /\ (b # a \/ w # i)
  <2>1. \A g \in Frames : Resident(f) = Resident(g) => g = f
    BY KindFacts
  <2> QED
    BY <1>2, <2>1
<1>6. FrameTags'
  <2>1. Tag(f, 2, a)
    BY <1>0, <1>1 DEF FrameTags
  <2>2. ASSUME NEW b \in AddrSpaces, NEW v \in Pages, NEW g \in Frames, pt'[b][v] = Resident(g)
        PROVE  Tag(g, 2, b)
    <3>1. (b = a /\ g = f) \/ pt[b][v] = Resident(g)
      BY <1>5, <2>2
    <3> QED
      BY <1>1, <2>1, <3>1 DEF FrameTags
  <2>3. \A u \in Threads : Filling(u)' => Tag(th'[u].frame, 2, th'[u].as)
    BY <1>1, <1>3 DEF FrameTags
  <2> QED
    BY <1>1, <2>2, <2>3, TagsKept
<1>7. FrameOnce'
  <2>1. \A v \in Pages : pt[a][v] # Resident(f)
    BY <1>0, <1>1 DEF FrameOnce
  <2>2. ASSUME NEW b \in AddrSpaces, NEW v \in Pages, NEW w \in Pages, NEW g \in Frames,
               pt'[b][v] = Resident(g), pt'[b][w] = Resident(g)
        PROVE  v = w
    <3>1. /\ (b = a /\ v = i /\ g = f) \/ pt[b][v] = Resident(g)
          /\ (b = a /\ w = i /\ g = f) \/ pt[b][w] = Resident(g)
      BY <1>5, <2>2
    <3>2. CASE b = a /\ g = f
      BY <2>1, <3>1, <3>2
    <3>3. CASE b # a \/ g # f
      BY <1>1, <3>1, <3>3 DEF FrameOnce
    <3> QED
      BY <3>2, <3>3
  <2>3. ASSUME NEW u \in Threads, NEW v \in Pages, Filling(u)'
        PROVE  pt'[th'[u].as][v] # Resident(th'[u].frame)
    <3>1. /\ Filling(u) /\ th'[u] = th[u] /\ th[u].as # a
          /\ th[u].frame \in Frames /\ th[u].as \in AddrSpaces
      BY <1>1, <1>3, <1>4, <2>3
    <3>2. pt[th[u].as][v] # Resident(th[u].frame)
      BY <1>1, <3>1 DEF FrameOnce
    <3>3. pt'[th[u].as][v] = pt[th[u].as][v]
      BY <1>2, <3>1
    <3> QED
      BY <3>1, <3>2, <3>3
  <2>4. /\ \A b, d \in AddrSpaces : as_pt'[b] = as_pt'[d] /\ as_pt'[b] # NULL => b = d
        /\ \A b, d \in AddrSpaces : t_stack'[b] = t_stack'[d] /\ t_stack'[b] # NULL => b = d
    BY <1>1 DEF FrameOnce
  <2> QED
    BY <2>2, <2>3, <2>4 DEF FrameOnce
<1>8. FrameKept'
  <2> SUFFICES ASSUME NEW g \in Frames, coremap'[g].flags # 0
               PROVE  Held(g)'
    BY DEF FrameKept
  <2>1. CASE g = f
    BY <1>2, <2>1 DEF Held
  <2>2. CASE g # f
    <3>1. Held(g)
      BY <1>1 DEF FrameKept
    <3>2. \A u \in Threads : Filling(u) /\ th[u].frame = g => Filling(u)' /\ th'[u].frame = g
      BY <1>0, <2>2 DEF Filling
    <3>3. \A b \in AddrSpaces, v \in Pages : pt[b][v] = Resident(g) => pt'[b][v] = Resident(g)
      BY <1>0, <1>2
    <3> QED
      BY <3>1, <3>2, <3>3 DEF Held
  <2> QED
    BY <2>1, <2>2
<1>9. VictimThere'
  <2> SUFFICES ASSUME NEW u \in Threads, th'[u].pc \in {"evict", "write"}
               PROVE  \E v \in Pages : /\ pt'[th'[u].as][v] = Resident(th'[u].frame)
                                       /\ th'[u].pc = "write" => v \notin Text
    BY DEF VictimThere
  <2>1. u # t /\ th'[u] = th[u]
    OBVIOUS
  <2>2. th[u].as # a
    BY <1>0, <2>1, SoleFaulter DEF Faulting, Filling
  <2>3. th[u].as \in AddrSpaces
    BY <1>1, <2>1
  <2>4. PICK v \in Pages : /\ pt[th[u].as][v] = Resident(th[u].frame)
                           /\ th[u].pc = "write" => v \notin Text
    BY <1>1, <2>1 DEF VictimThere
  <2>5. pt'[th[u].as][v] = pt[th[u].as][v]
    BY <1>2, <2>2, <2>3
  <2> QED
    BY <2>1, <2>4, <2>5
<1> QED
  BY <1>6, <1>7, <1>8, <1>9 DEF FramesOK

\* Nobody's page is in the frame that a thread is about to fill.
LEMMA FillingFrame ==
  ASSUME Types, Roles, FramesOK, Running, NEW t \in Threads, Filling(t)
  PROVE  \A a \in AddrSpaces, v \in Pages : pt[a][v] # Resident(th[t].frame)
<1> SUFFICES ASSUME NEW a \in AddrSpaces, NEW v \in Pages, pt[a][v] = Resident(th[t].frame)
             PROVE  FALSE
  OBVIOUS
<1>1. FrameTags /\ FrameOnce /\ th[t].frame \in Frames /\ th[t].as \in AddrSpaces
  BY FrameFacts
<1>2. coremap[th[t].frame].as = a /\ coremap[th[t].frame].as = th[t].as
  BY <1>1 DEF FrameTags, Tag
<1> QED
  BY <1>1, <1>2 DEF FrameOnce

\* A thread fills its frame, which becomes the frame of a page.
LEMMA FrameFilled ==
  ASSUME Types, Types', Roles, FramesOK, ContentsOK, Running, NEW t \in Threads, Filling(t),
         NEW f \in Frames, f = th[t].frame, \A g \in Frames : g # f => ram'[g] = ram[g],
         UNCHANGED disk, NEW a \in AddrSpaces, NEW i \in Pages, Enters(a, i, Resident(f))
  PROVE  /\ \A b \in AddrSpaces, v \in Pages : b # a \/ v # i => held(b, v)' = held(b, v)
         /\ held(a, i)' = ram'[f]
         /\ (i \in Text => ram'[f] = "elf") => TextKept'
<1>1. \A b \in AddrSpaces, v \in Pages : pt[b][v] # Resident(f)
  BY FillingFrame
<1>2. \A b \in AddrSpaces, v \in Pages : b # a \/ v # i => pt'[b][v] = pt[b][v]
  BY DEF Enters
<1>3. ASSUME NEW b \in AddrSpaces, NEW v \in Pages, b # a \/ v # i
      PROVE  held(b, v)' = held(b, v)
  <2>1. pt'[b][v] = pt[b][v]
    BY <1>2, <1>3
  <2>2. \A g \in Frames : pt[b][v] = Resident(g) => ram'[g] = ram[g]
    BY <1>1
  <2>3. \A s \in Slots : pt[b][v] = Swapped(s) => disk'[s] = disk[s]
    OBVIOUS
  <2> QED
    BY <2>1, <2>2, <2>3, HeldKept
<1>4. HeldFacts'
  BY HeldFacts, PTL
<1>5. held(a, i)' = ram'[f]
  BY <1>4 DEF Enters
<1>6. ASSUME i \in Text => ram'[f] = "elf" PROVE TextKept'
  <2> SUFFICES ASSUME NEW b \in AddrSpaces, NEW v \in Text
               PROVE  /\ \A s \in Slots : pt'[b][v] # Swapped(s)
                      /\ \A g \in Frames : pt'[b][v] = Resident(g) => ram'[g] = "elf"
    BY DEF TextKept
  <2>1. v \in Pages
    BY DEF Pages
  <2>2. CASE b = a /\ v = i
    <3>1. pt'[b][v] = Resident(f)
      BY <2>2 DEF Enters
    <3>2. \A s \in Slots : Resident(f) # Swapped(s)
      BY KindFacts
    <3>3. \A g \in Frames : Resident(f) = Resident(g) => f = g
      BY KindFacts
    <3> QED
      BY <1>6, <2>2, <3>1, <3>2, <3>3
  <2>3. CASE b # a \/ v # i
    <3>1. pt'[b][v] = pt[b][v]
      BY <1>2, <2>1, <2>3
    <3>2. /\ \A s \in Slots : pt[b][v] # Swapped(s)
          /\ \A g \in Frames : pt[b][v] = Resident(g) => ram[g] = "elf"
      BY DEF ContentsOK, TextKept
    <3> QED
      BY <1>1, <2>1, <3>1, <3>2
  <2> QED
    BY <2>2, <2>3
<1> QED
  BY <1>3, <1>5, <1>6

\* The end of a fault: one page of the process is mapped.
LEMMA PageMapped ==
  ASSUME Types, Types', Roles, ContentsOK, Running, NEW t \in AddrSpaces,
         th[t].pc \in Faulting, th[t].as = t, Changes(t, "user", NULL, 0, 0, 0),
         UNCHANGED garbled, TextKept', NEW i \in Pages, NEW c \in Contents,
         \A b \in AddrSpaces, v \in Pages : b # t \/ v # i => held(b, v)' = held(b, v),
         held(t, i)' = c, held(t, i) = c \/ held(t, i) = "undefined"
  PROVE  ContentsOK' /\ MemoryStep
<1>1. /\ th'[t].pc = "user" /\ \A u \in Threads : u # t => th'[u] = th[u]
      /\ t \in Threads /\ AddrSpaces \subseteq Threads
  BY PagingAssumption DEF Changes
<1>2. "user" \notin Absent \cup Faulting \cup {"thread_fork"}
  BY DEF Absent, Ended, Faulting
<1>3. th[t].pc \notin Absent
  BY DEF Absent, Ended, Faulting
<1>4. CopiersStay
  BY <1>1, <1>2 DEF CopiersStay
<1>5. AbsentStay
  BY <1>1, <1>2, <1>3 DEF AbsentStay
<1>6. ~InFork(t)
  BY DEF InFork, Faulting
<1>7. \A a \in AddrSpaces : InFork(a) => HeldStays(a)
  BY <1>6 DEF HeldStays
<1>8. ContentsOK'
  BY <1>4, <1>7, ContentsKept
<1>9. MemoryStep
  <2>1. CASE held(t, i) = c
    <3>1. \A a \in AddrSpaces : HeldStays(a)
      BY <2>1 DEF HeldStays
    <3> QED
      BY <1>5, <3>1, MemoryKept
  <2>2. CASE held(t, i) = "undefined"
    BY <1>3, <1>5, <2>2, MemoryWritten
  <2> QED
    BY <2>1, <2>2
<1> QED
  BY <1>8, <1>9

\* A page fault ends.
LEMMA MappedRoles ==
  ASSUME Types, Roles, Running, NEW t \in AddrSpaces, th[t].pc \in Faulting, th[t].as = t,
         zombies = {}, NEW i \in Pages, NEW e,
         Enters(t, i, e), Changes(t, "user", NULL, 0, 0, 0),
         UNCHANGED <<as_pt, t_stack, zombies>>
  PROVE  Roles'
<1>1. /\ th'[t].pc = "user" /\ th'[t].as = NULL
      /\ \A u \in Threads : u # t => th'[u] = th[u]
  BY DEF Changes
<1>2. t \in Threads /\ t # kproc /\ kproc \in Threads /\ AddrSpaces \subseteq Threads
  BY PagingAssumption
<1>3. \A b \in AddrSpaces, w \in Pages : b # t => pt'[b][w] = pt[b][w]
  BY DEF Enters
<1>4. th[t].pc \notin Idle \cup Ended \cup Destroying \cup {"none", "embryo"}
  BY DEF Faulting, Idle, Ended, Destroying
<1>5. Role(t)'
  BY <1>1, <1>2, IdleRole DEF Idle
<1>6. ASSUME NEW u \in Threads, u # t
      PROVE  Role(u)'
  <2>1. th'[u] = th[u]
    BY <1>1, <1>6
  <2>2. \A b \in AddrSpaces :
          \/ th'[b].pc = th[b].pc /\ \A w \in Pages : pt'[b][w] = pt[b][w]
          \/ /\ u # b /\ th[b].pc \notin Ended \cup {"embryo"}
             /\ th'[b].pc \notin {"none", "embryo", "leaving"}
    BY <1>1, <1>2, <1>3, <1>4, <1>6
  <2> QED
    BY <2>1, <2>2, OtherRole
<1>7. OneWorker'
  BY <1>1, <1>2, OneWorkerKept DEF Roles
<1>8. ZombieLast' /\ TablesThere' /\ StacksThere' /\ NoPagesYet' /\ Alone'
  <2>1. \A u \in Threads : /\ th'[u].pc = "freeAs" <=> th[u].pc = "freeAs"
                           /\ th[u].pc = "freeAs" => th'[u].as = th[u].as
    BY <1>1, <1>4 DEF Destroying
  <2>2. \A p \in AddrSpaces :
           /\ th'[p].pc \in {"none", "new", "leaving"} <=> th[p].pc \in {"none", "new", "leaving"}
           /\ th'[p].pc \in {"none", "embryo", "exited"} <=> th[p].pc \in {"none", "embryo", "exited"}
           /\ th[p].pc \in {"none", "leaving"} => th'[p].pc \in {"none", "leaving"}
           /\ th[p].pc \in {"none", "new", "leaving"} => \A v \in Pages : pt'[p][v] = pt[p][v]
    BY <1>1, <1>2, <1>3, <1>4 DEF Idle
  <2> QED
    BY <1>1, <1>2, <2>1, <2>2, RestKept
<1> QED
  BY <1>5, <1>6, <1>7, <1>8 DEF Roles

\* What load_elf_ondemand leaves in the frame.
LEMMA LoadedFacts ==
  ASSUME Types, NEW v \in Pages, NEW f \in Frames
  PROVE  /\ Loaded(v, f) \in Contents
         /\ v \in Text \cup Data => Loaded(v, f) = "elf"
         /\ v \in Stack => Loaded(v, f) = "zero"
<1>1. ram[f] \in Contents
  BY DEF Types
<1>2. v \in Text \cup Data => v \notin Bss \cup Stack
  BY PagingAssumption
<1>3. v \in Bss => v \notin Stack
  BY PagingAssumption
<1>4. v \in Text \cup Data \/ v \in Bss \/ v \in Stack
  BY DEF Pages
<1>5. "elf" \in Contents /\ "zero" \in Contents
  BY PagingAssumption
<1>6. CASE v \in Text \cup Data
  <2>1. Loaded(v, f) = "elf"
    BY <1>2, <1>6 DEF Loaded
  <2> QED
    BY <1>2, <1>5, <1>6, <2>1
<1>7. CASE v \in Bss
  <2>1. Loaded(v, f) = ram[f]
    BY <1>2, <1>3, <1>7 DEF Loaded
  <2> QED
    BY <1>1, <1>2, <1>3, <1>7, <2>1
<1>8. CASE v \in Stack
  <2>1. Loaded(v, f) = "zero"
    BY <1>2, <1>3, <1>8 DEF Loaded
  <2> QED
    BY <1>2, <1>5, <1>8, <2>1
<1> QED
  BY <1>4, <1>6, <1>7, <1>8

\* The end of vm_fault.
LEMMA MappedEffect ==
  ASSUME Types, Roles, Running, NEW t \in Threads, th[t].pc \in Faulting, th[t].as = t,
         NEW c \in Contents, Mapped(t, c)
  PROVE  /\ t \in AddrSpaces /\ th[t].i \in Pages /\ th[t].frame \in Frames
         /\ ram' \in [Frames -> Contents] /\ ram'[th[t].frame] = c
         /\ \A g \in Frames : g # th[t].frame => ram'[g] = ram[g]
         /\ Enters(t, th[t].i, Resident(th[t].frame))
         /\ Changes(t, "user", NULL, 0, 0, 0)
         /\ TlbTypeOK'
         /\ tlb_loadentry(th[t].i, firstpaddr + th[t].frame, th[t].i \in Text)
         /\ firstpaddr + th[t].frame \in PFrames
<1> DEFINE f == th[t].frame
           v == th[t].i
<1>1. t \in AddrSpaces /\ v \in Pages /\ f \in Frames
  BY WorkFacts, LocalFacts DEF Faulting, Idle
<1>2. /\ ram' = [ram EXCEPT ![f] = c] /\ pt' = [pt EXCEPT ![t][v] = Resident(f)]
      /\ tlb_loadentry(v, firstpaddr + f, v \in Text) /\ th' = [th EXCEPT ![t] = Nowhere("user")]
  BY DEF Mapped
<1>3. Enters(t, v, Resident(f))
  BY <1>1, <1>2, EnterFacts, KindFacts
<1>4. "user" \in PCs
  BY DEF PCs, Idle
<1>5. Changes(t, "user", NULL, 0, 0, 0)
  BY <1>2, <1>4, MoveNowhere
<1>6. firstpaddr + f \in PFrames
  BY <1>1, PhysicalFrame
<1>7. TlbTypeOK'
  BY <1>1, <1>2, <1>6, LoadEntryEffect DEF Types
<1>8. /\ ram' \in [Frames -> Contents] /\ ram'[f] = c
      /\ \A g \in Frames : g # f => ram'[g] = ram[g]
  BY <1>1, <1>2 DEF Types
<1> QED
  BY <1>1, <1>2, <1>3, <1>5, <1>6, <1>7, <1>8

\* vm_fault maps a page that it has loaded from the executable, or zeroed.
LEMMA LoadElfStep ==
  ASSUME Types, Roles, FramesOK, SlotsOK, TlbOK, ContentsOK, NEW t \in Threads,
         load_elf_ondemand(t)
  PROVE  StepOK
<1>1. /\ Types' /\ On(t, "fill") /\ th[t].as = t /\ ~pt[t][th[t].i].in_swap
      /\ Mapped(t, Loaded(th[t].i, th[t].frame)) /\ Loaded(th[t].i, th[t].frame) \in Contents
      /\ UNCHANGED <<coremapVars, swapVars, as_pt, t_stack, heap, zombies, created, garbled,
                     curthread, status>>
  <2>1. /\ On(t, "fill") /\ th[t].as = t /\ ~pt[t][th[t].i].in_swap
        /\ Mapped(t, Loaded(th[t].i, th[t].frame))
        /\ UNCHANGED <<coremapVars, swapVars, as_pt, t_stack, heap, zombies, created, garbled,
                       curthread, status>>
    BY DEF load_elf_ondemand, InFault
  <2>2. Running /\ th[t].pc = "fill"
    BY <2>1, OnFacts
  <2>3. th[t].i \in Pages /\ th[t].frame \in Frames
    BY <2>2, WorkFacts, LocalFacts DEF Faulting, Idle
  <2>4. Loaded(th[t].i, th[t].frame) \in Contents
    BY <2>3, LoadedFacts
  <2>5. /\ ram' \in [Frames -> Contents] /\ Enters(t, th[t].i, Resident(th[t].frame))
        /\ Changes(t, "user", NULL, 0, 0, 0) /\ TlbTypeOK'
    BY <2>1, <2>2, <2>4, MappedEffect DEF Faulting
  <2>6. th' \in [Threads -> Local] /\ pt' \in [AddrSpaces -> [Pages -> Entry]]
    BY <2>5 DEF Changes, Enters
  <2>7. Types'
    BY <2>1, <2>5, <2>6 DEF Types, coremapVars, CoremapTypeOK, swapVars, SwapTypeOK
  <2> QED
    BY <2>1, <2>4, <2>7
<1>2. /\ Running /\ Running' /\ curthread = t /\ th[t].pc = "fill" /\ zombies = {}
      /\ UNCHANGED <<coremap, as_pt, t_stack, heap, swapMap, used, swap_lock, disk, garbled>>
      /\ UNCHANGED <<zombies, curthread>> /\ th[t].pc \in Faulting
  BY <1>1, OnFacts, NoZombies DEF coremapVars, swapVars, Running, Faulting
<1>3. t \in AddrSpaces /\ HasAs(t) /\ Filling(t) /\ th[t].i \in Pages /\ th[t].frame \in Frames
  BY <1>2, WorkFacts, LocalFacts DEF Faulting, Idle, HasAs, Ended, Filling
<1>4. PICK i \in Pages, f \in Frames, c \in Contents :
        i = th[t].i /\ f = th[t].frame /\ c = Loaded(i, f) /\ th[t].as = t /\ Mapped(t, c)
  BY <1>1, <1>3
<1>5. /\ ram'[f] = c /\ (\A g \in Frames : g # f => ram'[g] = ram[g])
      /\ Enters(t, i, Resident(f)) /\ Changes(t, "user", NULL, 0, 0, 0)
      /\ tlb_loadentry(i, firstpaddr + f, i \in Text)
  <2>1. /\ ram'[th[t].frame] = c /\ (\A g \in Frames : g # th[t].frame => ram'[g] = ram[g])
        /\ Enters(t, th[t].i, Resident(th[t].frame)) /\ Changes(t, "user", NULL, 0, 0, 0)
        /\ tlb_loadentry(th[t].i, firstpaddr + th[t].frame, th[t].i \in Text)
    BY <1>2, <1>4, MappedEffect
  <2> QED
    BY <1>4, <2>1
<1>6. ~pt[t][i].in_mem /\ ~pt[t][i].in_swap /\ pt[t][i] = NoPage
  <2>1. Role(t)
    BY <1>2 DEF Roles
  <2>2. ~pt[t][i].in_mem /\ ~pt[t][i].in_swap
    BY <1>1, <1>4, <2>1 DEF Role
  <2>3. pt[t][i] \in Entry
    BY <1>3 DEF Types
  <2> QED
    BY <2>2, <2>3, EntryFacts
<1>7. /\ pt'[t][i] = Resident(f)
      /\ \A b \in AddrSpaces, w \in Pages : b # t \/ w # i => pt'[b][w] = pt[b][w]
  BY <1>5 DEF Enters
<1>8. th'[t].pc = "user" /\ \A u \in Threads : u # t => th'[u] = th[u]
  BY <1>5 DEF Changes
<1>9. Roles'
  BY <1>1, <1>2, <1>3, <1>5, MappedRoles
<1>10. FramesOK'
  <2>1. \A g \in Frames : pt[t][i] # Resident(g)
    BY <1>6, KindFacts
  <2>2. /\ \A g \in Frames : pt[th[t].as][i] # Resident(g)
        /\ Enters(th[t].as, i, Resident(th[t].frame))
    BY <1>1, <1>4, <1>5, <2>1
  <2>3. th'[t].pc \notin {"fill", "read", "evict", "write"}
    BY <1>8
  <2> QED
    BY <1>2, <1>3, <1>8, <2>2, <2>3, ThreadMaps
<1>11. SlotsOK' /\ Counts
  <2>1. UsersStay /\ ClearersStay
    BY <1>2, <1>8 DEF UsersStay, ClearersStay, Destroying
  <2>2. SwapsStay
    BY <1>6, <1>7, KindFacts DEF SwapsStay
  <2> QED
    BY <1>2, <2>1, <2>2, StoredSame, SlotsSame
<1>12. TlbOK'
  <2>1. \A k \in Entries : tlb[k].valid => tlb[k].vpage # i
    BY <1>2, <1>3, <1>6, TlbFacts
  <2> QED
    BY <1>2, <1>3, <1>5, <1>7, <2>1, TlbLoads
<1>13. ContentsOK' /\ MemoryStep
  <2>1. /\ \A b \in AddrSpaces, v \in Pages : b # t \/ v # i => held(b, v)' = held(b, v)
        /\ held(t, i)' = c
        /\ (i \in Text => c = "elf") => TextKept'
    BY <1>1, <1>2, <1>3, <1>4, <1>5, FrameFilled
  <2>2. TextKept'
    BY <1>4, <2>1, LoadedFacts
  <2>3. held(t, i) = c \/ held(t, i) = "undefined"
    <3>1. held(t, i) = Fresh(i)
      BY <1>3, <1>6, HeldFacts
    <3> QED
      BY <1>4, <3>1, LoadedFacts DEF Fresh, Pages
  <2> QED
    BY <1>1, <1>2, <1>3, <1>5, <2>1, <2>2, <2>3, PageMapped
<1>14. Inv'
  BY <1>1, <1>9, <1>10, <1>11, <1>12, <1>13 DEF Inv
<1>15. Steady
  BY <1>2, <1>11, <1>13 DEF Steady
<1> QED
  BY <1>14, <1>15 DEF StepOK

\* vm_fault has read the page back.
LEMMA SlotRead ==
  ASSUME Types, Roles, SlotsOK, Running, NEW t \in AddrSpaces, th[t].pc = "read", th[t].as = t,
         NEW i \in Pages, NEW s \in Slots, pt[t][i] = Swapped(s), swap_in_end(t, s, TRUE),
         NEW f \in Frames, Enters(t, i, Resident(f)), Changes(t, "user", NULL, 0, 0, 0)
  PROVE  SlotsOK' /\ Counts
<1>1. t \in Threads /\ NoThread \notin Threads
  BY PagingAssumption, SwapfileAssumption
<1>2. /\ th'[t].pc = "user" /\ \A u \in Threads : u # t => th'[u] = th[u]
  BY DEF Changes
<1>3. /\ pt'[t][i] = Resident(f)
      /\ \A b \in AddrSpaces, w \in Pages : b # t \/ w # i => pt'[b][w] = pt[b][w]
  BY DEF Enters
<1>4. swapMap' = swapMap \ {s} /\ used' = (used - 1) % USHORT /\ swap_lock' = NoThread
  BY DEF swap_in_end
<1>5. Writing = {} /\ \A u \in Threads : u # t => th[u].pc \notin {"read", "write"}
  BY <1>1, SlotFacts
<1>6. LockHeld'
  BY <1>1, <1>2, <1>4, <1>5 DEF LockHeld
<1>7. Writing' = {}
  BY <1>2, <1>5 DEF Writing
<1>8. \A v \in Pages : ~Cleared(t, v)
  BY NotCleared DEF Ended
<1>9. \A b \in AddrSpaces, v \in Pages : Cleared(b, v)' <=> Cleared(b, v)
  <2> TAKE b \in AddrSpaces, v \in Pages
  <2>1. ASSUME NEW u \in Threads
        PROVE  /\ th'[u].as = b
               /\ (th'[u].pc = "clear_swap" /\ v < th'[u].i) \/ th'[u].pc \in {"freepages", "freeAs"}
               <=>
               /\ th[u].as = b
               /\ (th[u].pc = "clear_swap" /\ v < th[u].i) \/ th[u].pc \in {"freepages", "freeAs"}
    BY <1>2
  <2> QED
    BY <2>1 DEF Cleared
<1>10. \A b \in AddrSpaces, v \in Pages, r \in Slots :
         Stored(b, v, r)' <=> Stored(b, v, r) /\ ~(b = t /\ v = i)
  <2>1. ASSUME NEW b \in AddrSpaces, NEW v \in Pages, NEW r \in Slots, b # t \/ v # i
        PROVE  Stored(b, v, r)' <=> Stored(b, v, r)
    BY <1>3, <1>9, <2>1 DEF Stored
  <2>2. \A r \in Slots : ~Stored(t, i, r)'
    BY SMTT(30), <1>3, KindFacts DEF Stored
  <2> QED
    BY <2>1, <2>2
<1>11. Stored(t, i, s)
  BY <1>8 DEF Stored
<1> QED
  BY <1>4, <1>5, <1>6, <1>7, <1>10, <1>11, SlotLost

\* vm_fault maps a page that it has read from the swap file.
LEMMA SwappedInStep ==
  ASSUME Types, Roles, FramesOK, SlotsOK, TlbOK, ContentsOK, NEW t \in Threads, swapped_in(t)
  PROVE  StepOK
<1>1. /\ Types' /\ On(t, "read") /\ th[t].as = t
      /\ \E s \in Slots : /\ pt[t][th[t].i] = Swapped(s)
                          /\ swap_in_end(t, s, TRUE)
                          /\ Mapped(t, disk[s]) /\ disk[s] \in Contents
      /\ UNCHANGED <<coremapVars, as_pt, t_stack, heap, zombies, created, garbled,
                     curthread, status>>
  <2>1. /\ On(t, "read") /\ th[t].as = t
        /\ UNCHANGED <<coremapVars, as_pt, t_stack, heap, zombies, created, garbled,
                       curthread, status>>
    BY DEF swapped_in, InFault
  <2>2. Running /\ th[t].pc = "read" /\ Role(t)
    BY <2>1, OnFacts
  <2>3. th[t].i \in Pages /\ th[t].frame \in Frames /\ t \in AddrSpaces
    BY <2>2, WorkFacts, LocalFacts DEF Faulting, Idle
  <2>4. pt[t][th[t].i] \in Entry /\ pt[t][th[t].i].in_swap
    BY <2>2, <2>3 DEF Role, Types
  <2>5. PICK s \in Slots : pt[t][th[t].i] = Swapped(s)
    BY <2>4, EntryFacts
  <2>6. swap_in_end(t, s, TRUE) /\ Mapped(t, disk[s])
    BY <2>5, KindFacts DEF swapped_in
  <2>7. disk[s] \in Contents
    BY DEF Types, SwapTypeOK
  <2>8. /\ ram' \in [Frames -> Contents] /\ Enters(t, th[t].i, Resident(th[t].frame))
        /\ Changes(t, "user", NULL, 0, 0, 0) /\ TlbTypeOK'
    BY <2>1, <2>2, <2>6, <2>7, MappedEffect DEF Faulting
  <2>9. SwapTypeOK'
    BY <2>6, <2>7, SwapTypes DEF Types
  <2>10. th' \in [Threads -> Local] /\ pt' \in [AddrSpaces -> [Pages -> Entry]]
    BY <2>8 DEF Changes, Enters
  <2>11. Types'
    BY <2>1, <2>8, <2>9, <2>10 DEF Types, coremapVars, CoremapTypeOK
  <2> QED
    BY <2>1, <2>5, <2>6, <2>7, <2>11
<1>2. /\ Running /\ Running' /\ curthread = t /\ th[t].pc = "read" /\ zombies = {}
      /\ UNCHANGED <<coremap, as_pt, t_stack, heap, garbled>>
      /\ UNCHANGED <<zombies, curthread>> /\ th[t].pc \in Faulting
  BY <1>1, OnFacts, NoZombies DEF coremapVars, Running, Faulting
<1>3. t \in AddrSpaces /\ HasAs(t) /\ Filling(t) /\ th[t].i \in Pages /\ th[t].frame \in Frames
  BY <1>2, WorkFacts, LocalFacts DEF Faulting, Idle, HasAs, Ended, Filling
<1>4. PICK i \in Pages, f \in Frames, s \in Slots, c \in Contents :
        /\ i = th[t].i /\ f = th[t].frame /\ c = disk[s] /\ pt[t][i] = Swapped(s)
        /\ swap_in_end(t, s, TRUE) /\ Mapped(t, c)
  BY <1>1, <1>3
<1>5. /\ ram'[f] = c /\ (\A g \in Frames : g # f => ram'[g] = ram[g])
      /\ Enters(t, i, Resident(f)) /\ Changes(t, "user", NULL, 0, 0, 0)
      /\ tlb_loadentry(i, firstpaddr + f, i \in Text)
  BY <1>1, <1>2, <1>4, MappedEffect
<1>6. ~pt[t][i].in_mem /\ \A g \in Frames : pt[t][i] # Resident(g)
  BY SMTT(30), <1>4, KindFacts
<1>7. /\ pt'[t][i] = Resident(f)
      /\ \A b \in AddrSpaces, w \in Pages : b # t \/ w # i => pt'[b][w] = pt[b][w]
  BY <1>5 DEF Enters
<1>8. th'[t].pc = "user" /\ \A u \in Threads : u # t => th'[u] = th[u]
  BY <1>5 DEF Changes
<1>9. Roles'
  BY <1>1, <1>2, <1>3, <1>5, MappedRoles
<1>10. FramesOK'
  BY <1>1, <1>2, <1>3, <1>4, <1>5, <1>6, <1>8, ThreadMaps
<1>11. SlotsOK' /\ Counts
  BY <1>1, <1>2, <1>3, <1>4, <1>5, SlotRead
<1>12. TlbOK'
  <2>1. \A k \in Entries : tlb[k].valid => tlb[k].vpage # i
    BY <1>2, <1>3, <1>6, TlbFacts
  <2> QED
    BY <1>2, <1>3, <1>5, <1>7, <2>1, TlbLoads
<1>13. ContentsOK' /\ MemoryStep
  <2>1. UNCHANGED disk
    BY <1>4 DEF swap_in_end
  <2>2. /\ \A b \in AddrSpaces, v \in Pages : b # t \/ v # i => held(b, v)' = held(b, v)
        /\ held(t, i)' = c
        /\ (i \in Text => c = "elf") => TextKept'
    BY <1>1, <1>2, <1>3, <1>4, <1>5, <2>1, FrameFilled
  <2>3. TextKept'
    <3>1. TextKept
      BY <1>2 DEF ContentsOK
    <3>2. i \notin Text
      BY <1>3, <1>4, <3>1 DEF TextKept
    <3> QED
      BY <2>2, <3>2
  <2>4. held(t, i) = c
    BY <1>3, <1>4, HeldFacts
  <2> QED
    BY <1>1, <1>2, <1>3, <1>5, <2>2, <2>3, <2>4, PageMapped
<1>14. Inv'
  BY <1>1, <1>9, <1>10, <1>11, <1>12, <1>13 DEF Inv
<1>15. Steady
  BY <1>2, <1>11, <1>13 DEF Steady
<1> QED
  BY <1>14, <1>15 DEF StepOK

-----------------------------------------------------------------------------
\* A page of the child is in memory: as_copy goes on.

\* as_copy has copied a page.
LEMMA CopiedRoles ==
  ASSUME Types, Roles, Running, NEW t \in AddrSpaces, NEW c \in AddrSpaces,
         th[t].pc \in Faulting, th[t].as = c, c # t,
         zombies = {}, NEW e,
         Enters(c, th[t].i, e), Others(t, t), CopyNext(t, c, th[t].i + 1),
         UNCHANGED <<as_pt, t_stack, zombies>>
  PROVE  Roles'
<1> DEFINE i == th[t].i
<1>1. /\ t \in Threads /\ c \in Threads /\ t # kproc /\ c # kproc /\ kproc \in Threads
      /\ AddrSpaces \subseteq Threads /\ c # NULL
  BY PagingAssumption, CoremapAssumption
<1>2. Role(t) /\ Role(c) /\ OneWorker
  BY <1>1 DEF Roles
<1>3. /\ i \in Pages /\ th[c].pc = "embryo"
      /\ \A v \in Pages : v >= i => pt[c][v] = NoPage
  BY <1>2 DEF Role
<1>4. th[c].as = NULL
  BY <1>2, <1>3 DEF Role, Idle
<1>5. \A u \in Threads : th[u].as = c => u = t
  BY <1>1, <1>2, <1>4 DEF OneWorker
<1>6. \A u \in Threads : u # t => th'[u] = th[u]
  BY DEF Others
<1>7. th[t].pc \notin Idle \cup Ended \cup Destroying \cup {"none", "embryo"}
  BY DEF Faulting, Idle, Ended, Destroying
<1>8. \A b \in AddrSpaces, w \in Pages : b # c \/ w # i => pt'[b][w] = pt[b][w]
  BY DEF Enters
<1>9. /\ th'[t].as = c
      /\ \/ th'[t].pc = "thread_fork"
         \/ /\ th'[t].pc = "getPage" /\ th'[t].i \in Pages /\ th'[t].i >= i + 1
            /\ pt[t][th'[t].i] # NoPage
  BY DEF CopyNext, Placed
<1>10. Role(t)'
  <2>1. CASE th'[t].pc = "thread_fork"
    BY <1>1, <1>3, <1>6, <1>9, <2>1 DEF Role, Faulting, Idle, Destroying
  <2>2. CASE /\ th'[t].pc = "getPage" /\ th'[t].i \in Pages /\ th'[t].i >= i + 1
             /\ pt[t][th'[t].i] # NoPage
    <3>1. pt'[t][th'[t].i] # NoPage
      BY <1>8, <2>2
    <3>2. \A v \in Pages : v >= th'[t].i => v >= i /\ v # i
      <4>1. PICK j \in Pages : j = th'[t].i
        BY <2>2
      <4>2. i \in Pages /\ j >= i + 1
        BY <1>3, <2>2, <4>1
      <4> HIDE DEF i
      <4>3. \A v \in Pages : v >= j => v >= i /\ v # i
        BY <4>2, PageOrder
      <4> QED
        BY <4>1, <4>3
    <3>3. \A v \in Pages : v >= th'[t].i => pt'[c][v] = NoPage
      BY <1>3, <1>8, <3>2
    <3>4. th'[c].pc = "embryo"
      BY <1>1, <1>3, <1>6
    <3> QED
      BY <1>1, <1>9, <2>2, <3>1, <3>3, <3>4, FaultRole DEF Faulting
  <2> QED
    BY <1>9, <2>1, <2>2
<1>11. ASSUME NEW u \in Threads, u # t
       PROVE  Role(u)'
  <2>1. th'[u] = th[u]
    BY <1>6, <1>11
  <2>2. ASSUME NEW b \in AddrSpaces
        PROVE  \/ th'[b].pc = th[b].pc /\ \A w \in Pages : pt'[b][w] = pt[b][w]
               \/ u # b /\ th[u].as # b
               \/ /\ u # b /\ th[b].pc \notin Ended \cup {"embryo"}
                  /\ th'[b].pc \notin {"none", "embryo", "leaving"}
               \/ u = b /\ th[b].pc = "embryo"
    <3>1. CASE b = t
      BY <1>7, <1>9, <1>11, <3>1
    <3>2. CASE b = c
      BY <1>3, <1>5, <1>11, <3>2
    <3>3. CASE b # t /\ b # c
      BY <1>1, <1>6, <1>8, <3>3
    <3> QED
      BY <3>1, <3>2, <3>3
  <2> QED
    BY <2>1, <2>2, OtherRole
<1>12. OneWorker'
  BY <1>1, <1>2, <1>6, <1>9, OneWorkerKept
<1>13. ZombieLast' /\ TablesThere' /\ StacksThere' /\ NoPagesYet' /\ Alone'
  <2>1. \A u \in Threads : /\ th'[u].pc = "freeAs" <=> th[u].pc = "freeAs"
                           /\ th[u].pc = "freeAs" => th'[u].as = th[u].as
    BY <1>6, <1>7, <1>9 DEF Destroying
  <2>2. ASSUME NEW p \in AddrSpaces
        PROVE  /\ th'[p].pc \in {"none", "new", "leaving"} <=> th[p].pc \in {"none", "new", "leaving"}
               /\ th'[p].pc \in {"none", "embryo", "exited"} <=> th[p].pc \in {"none", "embryo", "exited"}
               /\ th[p].pc \in {"none", "leaving"} => th'[p].pc \in {"none", "leaving"}
               /\ th[p].pc \in {"none", "new", "leaving"} => \A v \in Pages : pt'[p][v] = pt[p][v]
    <3>1. CASE p = t
      BY <1>7, <1>9, <3>1 DEF Idle
    <3>2. CASE p # t
      BY <1>1, <1>3, <1>6, <1>8, <3>2
    <3> QED
      BY <3>1, <3>2
  <2> QED
    BY <1>1, <1>6, <2>1, <2>2, RestKept
<1> QED
  BY <1>10, <1>11, <1>12, <1>13 DEF Roles

\* The end of one turn of as_copy's loop.
LEMMA CopiedEffect ==
  ASSUME Types, PagesOrdered, Roles, Running, NEW t \in Threads, th[t].pc \in Faulting,
         th[t].as # t, NEW c \in Contents, Copied(t, c)
  PROVE  /\ t \in AddrSpaces /\ th[t].as \in AddrSpaces
         /\ th[t].i \in Pages /\ th[t].frame \in Frames
         /\ ram' \in [Frames -> Contents] /\ ram'[th[t].frame] = c
         /\ \A g \in Frames : g # th[t].frame => ram'[g] = ram[g]
         /\ Enters(th[t].as, th[t].i, Resident(th[t].frame))
         /\ Others(t, t) /\ CopyNext(t, th[t].as, th[t].i + 1)
<1> DEFINE f == th[t].frame
           v == th[t].i
           a == th[t].as
<1>1. t \in AddrSpaces /\ a \in AddrSpaces /\ v \in Pages /\ f \in Frames
  BY WorkFacts, LocalFacts DEF Faulting, Idle
<1>2. /\ ram' = [ram EXCEPT ![f] = c] /\ pt' = [pt EXCEPT ![a][v] = Resident(f)]
      /\ th' = [th EXCEPT ![t] = copyFrom(t, a, v + 1)]
  BY DEF Copied
<1>3. Enters(a, v, Resident(f))
  BY <1>1, <1>2, EnterFacts, KindFacts
<1>4. v + 1 \in Nat
  BY <1>1, PageOrder
<1>5. copyFrom(t, a, v + 1) \in Local
  BY <1>1, <1>4, CopyFromFacts
<1>6. Others(t, t) /\ th'[t] = copyFrom(t, a, v + 1)
  BY <1>2, <1>5 DEF Types, Others
<1>7. CopyNext(t, a, v + 1)
  BY <1>1, <1>4, <1>6, CopyNextFacts
<1>8. /\ ram' \in [Frames -> Contents] /\ ram'[f] = c
      /\ \A g \in Frames : g # f => ram'[g] = ram[g]
  BY <1>1, <1>2 DEF Types
<1> QED
  BY <1>1, <1>3, <1>6, <1>7, <1>8

\* as_copy has copied a page that is in memory.
LEMMA CopyPageStep ==
  ASSUME Types, Roles, FramesOK, SlotsOK, TlbOK, ContentsOK, PagesOrdered, NEW t \in Threads,
         copy_page(t)
  PROVE  StepOK
<1>1. /\ Types' /\ On(t, "fill") /\ th[t].as # t
      /\ \E g \in Frames : /\ pt[t][th[t].i] = Resident(g)
                           /\ Copied(t, ram[g]) /\ ram[g] \in Contents
      /\ UNCHANGED <<coremapVars, swapVars, tlbVars, as_pt, t_stack, heap, zombies,
                     created, garbled, curthread, status>>
  <2>1. /\ On(t, "fill") /\ th[t].as # t /\ ~pt[t][th[t].i].in_swap
        /\ UNCHANGED <<coremapVars, swapVars, tlbVars, as_pt, t_stack, heap, zombies,
                       created, garbled, curthread, status>>
    BY DEF copy_page, InCopy
  <2>2. Running /\ th[t].pc = "fill" /\ Role(t)
    BY <2>1, OnFacts
  <2>3. th[t].i \in Pages /\ t \in AddrSpaces
    BY <2>2, WorkFacts DEF Faulting, Idle
  <2>4. pt[t][th[t].i] \in Entry /\ pt[t][th[t].i] # NoPage
    BY <2>1, <2>2, <2>3 DEF Role, Types, Faulting
  <2>5. PICK g \in Frames : pt[t][th[t].i] = Resident(g)
    BY <2>1, <2>4, EntryFacts
  <2>6. Copied(t, ram[g]) /\ ram[g] \in Contents
    BY <2>5, KindFacts DEF copy_page, Types
  <2>7. /\ ram' \in [Frames -> Contents] /\ Enters(th[t].as, th[t].i, Resident(th[t].frame))
        /\ Others(t, t)
    BY <2>1, <2>2, <2>6, CopiedEffect DEF Faulting
  <2>8. Types'
    BY <2>1, <2>7 DEF Types, Others, Enters, coremapVars, swapVars, tlbVars, CoremapTypeOK,
                      SwapTypeOK, TlbTypeOK
  <2> QED
    BY <2>1, <2>5, <2>6, <2>8
<1>2. /\ Running /\ Running' /\ curthread = t /\ th[t].pc = "fill" /\ zombies = {}
      /\ UNCHANGED <<coremap, as_pt, t_stack, heap, swapMap, used, swap_lock, disk, garbled>>
      /\ UNCHANGED <<tlb, zombies, curthread>> /\ th[t].pc \in Faulting
  BY <1>1, OnFacts, NoZombies DEF coremapVars, swapVars, tlbVars, Running, Faulting
<1>3. PICK g \in Frames : /\ pt[t][th[t].i] = Resident(g)
                          /\ Copied(t, ram[g]) /\ ram[g] \in Contents
  BY <1>1
<1>4. PICK c \in Contents : c = ram[g]
  BY <1>3
<1>5. /\ t \in AddrSpaces /\ th[t].as \in AddrSpaces
      /\ th[t].i \in Pages /\ th[t].frame \in Frames
      /\ ram'[th[t].frame] = c /\ (\A h \in Frames : h # th[t].frame => ram'[h] = ram[h])
      /\ Enters(th[t].as, th[t].i, Resident(th[t].frame))
      /\ Others(t, t) /\ CopyNext(t, th[t].as, th[t].i + 1)
  BY <1>1, <1>2, <1>3, <1>4, CopiedEffect
<1>6. PICK a \in AddrSpaces, i \in Pages, f \in Frames :
        a = th[t].as /\ i = th[t].i /\ f = th[t].frame
  BY <1>5
<1>7. /\ Enters(a, i, Resident(f)) /\ CopyNext(t, a, i + 1)
      /\ ram'[f] = c /\ (\A h \in Frames : h # f => ram'[h] = ram[h])
  BY <1>5, <1>6
<1>8. a # t /\ th[a].pc = "embryo" /\ \A v \in Pages : v >= i => pt[a][v] = NoPage
  <2>1. Role(t)
    BY <1>2 DEF Roles
  <2> QED
    BY <1>1, <1>2, <1>6, <2>1 DEF Role
<1>9. /\ pt'[a][i] = Resident(f) /\ pt[a][i] = NoPage
      /\ \A b \in AddrSpaces, w \in Pages : b # a \/ w # i => pt'[b][w] = pt[b][w]
  BY <1>7, <1>8, PageOrder DEF Enters
<1>10. /\ th'[t].pc \in {"thread_fork", "getPage"} /\ th'[t].as = a
       /\ \A u \in Threads : u # t => th'[u] = th[u]
  BY <1>5, <1>7 DEF Others, CopyNext, Placed
<1>11. Roles'
  BY <1>1, <1>2, <1>5, <1>6, <1>8, CopiedRoles
<1>12. FramesOK'
  <2>1. \A h \in Frames : pt[a][i] # Resident(h)
    BY <1>9, KindFacts
  <2>2. Filling(t) /\ th'[t].pc \notin {"fill", "read", "evict", "write"}
    BY <1>2, <1>10 DEF Filling
  <2> QED
    BY <1>2, <1>6, <1>7, <1>10, <2>1, <2>2, ThreadMaps
<1>13. SlotsOK' /\ Counts
  <2>1. UsersStay /\ ClearersStay
    BY <1>2, <1>10 DEF UsersStay, ClearersStay, Destroying
  <2>2. SwapsStay
    BY SMTT(30), <1>9, KindFacts DEF SwapsStay
  <2> QED
    BY <1>2, <2>1, <2>2, StoredSame, SlotsSame
<1>14. HasAs(t) /\ HasAs(t)'
  BY <1>2, <1>5, <1>10 DEF HasAs, Ended
<1>15. TlbOK'
  BY <1>2, <1>5, <1>8, <1>9, <1>14, TlbSame
<1>16. /\ \A b \in AddrSpaces, v \in Pages : b # a \/ v # i => held(b, v)' = held(b, v)
       /\ held(a, i)' = c
       /\ (i \in Text => c = "elf") => TextKept'
  BY <1>1, <1>2, <1>6, <1>7, FrameFilled DEF Filling
<1>17. ContentsOK'
  <2>1. TextKept /\ CopiedSoFar
    BY <1>2 DEF ContentsOK
  <2>2. TextKept'
    BY <1>3, <1>4, <1>5, <1>6, <1>16, <2>1 DEF TextKept
  <2>3. CopiedSoFar'
    <3> SUFFICES ASSUME ~garbled', NEW u \in Threads,
                        th'[u].pc \in Faulting \cup {"thread_fork"}, th'[u].as # u,
                        NEW v \in Pages, th'[u].pc = "thread_fork" \/ v < th'[u].i
                 PROVE  held(th[u].as, v)' = held(u, v)'
      BY DEF CopiedSoFar
    <3>1. CASE u = t
      <4>1. v < i \/ v = i \/ (v >= i + 1 /\ pt[t][v] = NoPage)
        BY <1>7, <3>1, PageOrder DEF CopyNext, Placed
      <4>2. CASE v < i
        <5>1. held(a, v) = held(t, v)
          <6>1. th[t].pc \in Faulting /\ th[t].as # t /\ v < th[t].i
            BY <1>1, <1>2, <1>6, <4>2
          <6>2. garbled' = garbled
            BY <1>2
          <6>3. ~garbled
            BY <6>2
          <6>4. held(th[t].as, v) = held(t, v)
            BY <2>1, <6>1, <6>3 DEF CopiedSoFar
          <6> QED
            BY <1>6, <6>4
        <5>2. v # i
          BY <4>2, PageOrder
        <5>3. held(a, v)' = held(a, v) /\ held(t, v)' = held(t, v)
          BY <1>5, <1>16, <5>2
        <5> QED
          BY <1>10, <3>1, <5>1, <5>3
      <4>3. CASE v = i
        <5>1. held(t, i) = c
          BY <1>3, <1>4, <1>5, <1>6, HeldFacts
        <5> QED
          BY <1>5, <1>8, <1>10, <1>16, <3>1, <4>3, <5>1
      <4>4. CASE v >= i + 1 /\ pt[t][v] = NoPage
        <5>1. v # i /\ pt[a][v] = NoPage
          BY <1>8, <4>4, PageOrder
        <5>2. held(a, v) = Fresh(v)
          BY <5>1, HeldFacts
        <5>3. held(t, v) = Fresh(v)
          BY <1>5, <4>4, HeldFacts
        <5>4. held(a, v)' = held(a, v) /\ held(t, v)' = held(t, v)
          BY <1>5, <1>16, <5>1
        <5> QED
          BY <1>10, <3>1, <5>2, <5>3, <5>4
      <4> QED
        BY <4>1, <4>2, <4>3, <4>4
    <3>2. CASE u # t
      <4>1. th'[u] = th[u] /\ u # a
        BY <1>8, <1>10, <3>2 DEF Faulting
      <4>2. held(th[u].as, v) = held(u, v)
        BY <1>2, <2>1, <4>1 DEF CopiedSoFar
      <4>3. u \in AddrSpaces /\ th[u].as \in AddrSpaces /\ th[u].as # NULL
        BY <1>2, <4>1, WorkFacts DEF Idle, Faulting
      <4>4. OneWorker
        BY <1>2 DEF Roles
      <4>5. th[u].as # a
        BY <1>1, <1>6, <3>2, <4>1, <4>3, <4>4 DEF OneWorker
      <4> QED
        BY <1>16, <4>1, <4>2, <4>3, <4>5
    <3> QED
      BY <3>1, <3>2
  <2> QED
    BY <2>2, <2>3 DEF ContentsOK
<1>18. MemoryStep
  <2>1. AbsentStay
    <3>1. th'[t].pc \notin Absent /\ th[t].pc \notin Absent
      BY <1>2, <1>10 DEF Absent, Ended
    <3> QED
      BY <1>10, <3>1, PagingAssumption DEF AbsentStay
  <2>2. \A b \in AddrSpaces : th[b].pc \notin Absent => HeldStays(b)
    BY <1>8, <1>16 DEF HeldStays, Absent
  <2> QED
    BY <2>1, <2>2, MemoryKept
<1>19. Inv'
  BY <1>1, <1>11, <1>12, <1>13, <1>15, <1>17 DEF Inv
<1>20. Steady
  BY <1>2, <1>13, <1>18 DEF Steady
<1> QED
  BY <1>19, <1>20 DEF StepOK

\* A read of as_copy ends: swap_lock is free again, the slots are as they were.
LEMMA LockReleased ==
  ASSUME Types, Roles, SlotsOK, Running, NEW t \in Threads, th[t].pc = "read",
         NEW x, swap_in_end(t, x, FALSE), SwapsStay,
         th'[t].pc \notin Destroying \cup {"read", "write"},
         \A u \in Threads : u # t => th'[u] = th[u]
  PROVE  SlotsOK' /\ Counts
<1>1. UNCHANGED <<swapMap, used>> /\ swap_lock' = NoThread
  BY DEF swap_in_end
<1>2. StoredStays
  <2>1. ClearersStay
    BY DEF ClearersStay, Destroying
  <2> QED
    BY <2>1, StoredSame
<1>3. LockHeld'
  <2>1. \A u \in Threads : u # t => th[u].pc \notin {"read", "write"}
    BY SlotFacts
  <2>2. NoThread \notin Threads
    BY SwapfileAssumption
  <2> QED
    BY <1>1, <2>1, <2>2 DEF LockHeld
<1>4. \A u \in Threads : /\ th'[u].pc = "write" <=> th[u].pc = "write"
                         /\ th[u].pc = "write" => th'[u].slot = th[u].slot
  OBVIOUS
<1> QED
  BY <1>1, <1>2, <1>3, <1>4, SlotsKept

\* as_copy has read a page that is in the swap file, from whatever slot.
LEMMA CopySwappedStep ==
  ASSUME Types, Roles, FramesOK, SlotsOK, TlbOK, ContentsOK, PagesOrdered, NEW t \in Threads,
         copy_swapped(t)
  PROVE  StepOK
<1> SUFFICES ASSUME NEW x \in Slots, InCopy(t, "read"), swap_in_end(t, x, FALSE),
                    Copied(t, disk[x]), garbled' = TRUE,
                    UNCHANGED <<coremapVars, tlbVars, as_pt, t_stack, heap, zombies, created,
                                curthread, status>>
             PROVE  StepOK
  <2>1. Stops("slot not set") => StepOK
    BY StopsStep
  <2> QED
    BY <2>1 DEF copy_swapped
<1>1. Types' /\ On(t, "read") /\ th[t].as # t /\ disk[x] \in Contents
  <2>1. On(t, "read") /\ th[t].as # t
    BY DEF InCopy
  <2>2. Running /\ th[t].pc = "read"
    BY <2>1, OnFacts
  <2>3. disk[x] \in Contents
    BY DEF Types, SwapTypeOK
  <2>4. SwapTypeOK'
    BY <2>3, SwapTypes DEF Types
  <2>7. /\ ram' \in [Frames -> Contents] /\ Enters(th[t].as, th[t].i, Resident(th[t].frame))
        /\ Others(t, t)
    BY <2>1, <2>2, <2>3, CopiedEffect DEF Faulting
  <2>8. Types'
    BY <2>4, <2>7 DEF Types, Others, Enters, coremapVars, tlbVars, CoremapTypeOK, TlbTypeOK
  <2> QED
    BY <2>1, <2>3, <2>8
<1>2. /\ Running /\ Running' /\ curthread = t /\ th[t].pc = "read" /\ zombies = {}
      /\ UNCHANGED <<coremap, as_pt, t_stack, heap, disk>>
      /\ UNCHANGED <<tlb, zombies, curthread>> /\ th[t].pc \in Faulting
  BY <1>1, OnFacts, NoZombies DEF coremapVars, tlbVars, Running, Faulting, swap_in_end
<1>3. PICK c \in Contents : c = disk[x]
  BY <1>1
<1>4. /\ t \in AddrSpaces /\ th[t].as \in AddrSpaces
      /\ th[t].i \in Pages /\ th[t].frame \in Frames
      /\ ram'[th[t].frame] = c /\ (\A h \in Frames : h # th[t].frame => ram'[h] = ram[h])
      /\ Enters(th[t].as, th[t].i, Resident(th[t].frame))
      /\ Others(t, t) /\ CopyNext(t, th[t].as, th[t].i + 1)
  BY <1>1, <1>2, <1>3, CopiedEffect
<1>5. PICK a \in AddrSpaces, i \in Pages, f \in Frames :
        a = th[t].as /\ i = th[t].i /\ f = th[t].frame
  BY <1>4
<1>6. /\ Enters(a, i, Resident(f)) /\ CopyNext(t, a, i + 1)
      /\ ram'[f] = c /\ (\A h \in Frames : h # f => ram'[h] = ram[h])
  BY <1>4, <1>5
<1>7. a # t /\ pt[t][i].in_swap /\ \A v \in Pages : v >= i => pt[a][v] = NoPage
  <2>1. Role(t)
    BY <1>2 DEF Roles
  <2> QED
    BY <1>1, <1>2, <1>5, <2>1 DEF Role
<1>8. /\ pt'[a][i] = Resident(f) /\ pt[a][i] = NoPage
      /\ \A b \in AddrSpaces, w \in Pages : b # a \/ w # i => pt'[b][w] = pt[b][w]
  BY <1>6, <1>7, PageOrder DEF Enters
<1>9. /\ th'[t].pc \in {"thread_fork", "getPage"} /\ th'[t].as = a
      /\ \A u \in Threads : u # t => th'[u] = th[u]
  BY <1>4, <1>6 DEF Others, CopyNext, Placed
<1>10. Roles'
  BY <1>1, <1>2, <1>4, <1>5, <1>7, CopiedRoles
<1>11. FramesOK'
  <2>1. \A h \in Frames : pt[a][i] # Resident(h)
    BY <1>8, KindFacts
  <2>2. Filling(t) /\ th'[t].pc \notin {"fill", "read", "evict", "write"}
    BY <1>2, <1>9 DEF Filling
  <2>3. /\ \A h \in Frames : pt[th[t].as][i] # Resident(h)
        /\ Enters(th[t].as, i, Resident(th[t].frame))
        /\ \A u \in Threads : u # t => th'[u] = th[u]
    BY <1>5, <1>6, <1>9, <2>1
  <2> QED
    BY <1>2, <1>5, <2>2, <2>3, ThreadMaps
<1>12. SlotsOK' /\ Counts
  <2>1. SwapsStay
    BY <1>8, KindFacts DEF SwapsStay
  <2>2. th'[t].pc \notin Destroying \cup {"read", "write"}
    BY <1>9 DEF Destroying
  <2> QED
    BY <1>2, <1>9, <2>1, <2>2, LockReleased
<1>13. HasAs(t) /\ HasAs(t)'
  BY <1>2, <1>4, <1>9 DEF HasAs, Ended
<1>14. TlbOK'
  BY <1>2, <1>4, <1>7, <1>8, <1>13, TlbSame
<1>15. ContentsOK'
  <2>1. TextKept
    BY <1>2 DEF ContentsOK
  <2>2. i \notin Text
    <3>1. pt[t][i] \in Entry
      BY <1>4 DEF Types
    <3>2. PICK s \in Slots : pt[t][i] = Swapped(s)
      BY <1>7, <3>1, EntryFacts
    <3> QED
      BY <1>4, <2>1, <3>2 DEF TextKept
  <2>3. TextKept'
    BY <1>1, <1>2, <1>5, <1>6, <2>2, FrameFilled DEF Filling
  <2> QED
    BY <2>3 DEF ContentsOK, CopiedSoFar
<1> QED
  BY <1>1, <1>2, <1>10, <1>11, <1>12, <1>14, <1>15 DEF StepOK, Inv, Steady

=============================================================================

---------------------------- MODULE PagingLife ------------------------------
(***************************************************************************)
(* Each step in the life of a process keeps the inductive invariant: its   *)
(* start, fork, exit, wait and as_destroy, the memory of the kernel, and   *)
(* the scheduler.  The lemmas have the form of those of PagingFaults.      *)
(***************************************************************************)
EXTENDS PagingLemmas, TLAPS

\* A leaf is proved by Zenon unless it says SMT.
USE ZenonT(30)

-----------------------------------------------------------------------------
\* exit and wait.

\* The thread that runs next has no address space, or is given an empty TLB.
LEMMA TlbElsewhere ==
  ASSUME TlbOK, Running, UNCHANGED tlb, ~HasAs(curthread)'
  PROVE  TlbOK'
  BY DEF TlbOK, TlbOnce, TlbCoherent

\* sys__exit: the process has no memory any more.
LEMMA SysExitStep ==
  ASSUME Types, Roles, FramesOK, SlotsOK, TlbOK, ContentsOK, NEW p \in AddrSpaces, sys__exit(p)
  PROVE  StepOK
<1>1. /\ Types' /\ On(p, "user") /\ UNCHANGED <<memVars, procVars, curthread, status>>
      /\ Changes(p, "exiting", NULL, 0, 0, 0)
  <2>1. /\ On(p, "user") /\ UNCHANGED <<memVars, procVars, curthread, status>>
        /\ th' = [th EXCEPT ![p] = Nowhere("exiting")]
    BY DEF sys__exit
  <2>2. Changes(p, "exiting", NULL, 0, 0, 0)
    BY <2>1, MoveNowhere, PagingAssumption DEF PCs, Idle
  <2> QED
    BY <2>1, <2>2 DEF Types, Changes, memVars, procVars, coremapVars, swapVars, tlbVars,
                      CoremapTypeOK, SwapTypeOK, TlbTypeOK
<1>2. Roles'
  <2>1. /\ Running /\ th[p].pc = "user" /\ zombies = {}
        /\ UNCHANGED <<pt, as_pt, t_stack, zombies>> /\ Changes(p, "exiting", NULL, 0, 0, 0)
    BY <1>1, OnFacts, NoZombies DEF procVars
  <2>2. p # kproc /\ kproc \in Threads /\ AddrSpaces \subseteq Threads /\ p \in Threads
    BY PagingAssumption
  <2>3. /\ th'[p].pc = "exiting" /\ th'[p].as = NULL
        /\ \A u \in Threads : u # p => th'[u] = th[u]
    BY <2>1 DEF Changes
  <2>4. Role(p)'
    BY <2>2, <2>3, IdleRole DEF Idle
  <2>5. ASSUME NEW u \in Threads, u # p
        PROVE  Role(u)'
    <3>1. th'[u] = th[u]
      BY <2>3, <2>5
    <3>2. \A b \in AddrSpaces :
            \/ th'[b].pc = th[b].pc /\ \A w \in Pages : pt'[b][w] = pt[b][w]
            \/ /\ u # b /\ th[b].pc \notin Ended \cup {"embryo"}
               /\ th'[b].pc \notin {"none", "embryo", "leaving"}
      BY <2>1, <2>2, <2>3, <2>5 DEF Ended
    <3> QED
      BY <2>1, <3>1, <3>2, OtherRole
  <2>6. OneWorker'
    BY <2>1, <2>2, <2>3, OneWorkerKept DEF Roles
  <2>7. ZombieLast' /\ TablesThere' /\ StacksThere' /\ NoPagesYet' /\ Alone'
    BY <2>1, <2>2, <2>3, RestKept
  <2> QED
    BY <2>4, <2>5, <2>6, <2>7 DEF Roles
<1>3. /\ Running /\ Running' /\ curthread = p /\ th[p].pc = "user" /\ p \in Threads
      /\ UNCHANGED <<coremap, as_pt, t_stack, heap, swapMap, used, swap_lock, disk, ram, garbled>>
      /\ UNCHANGED <<pt, tlb, zombies, curthread>>
  BY <1>1, OnFacts DEF memVars, procVars, coremapVars, swapVars, tlbVars, Running
<1>4. th'[p].pc = "exiting" /\ \A u \in Threads : u # p => th'[u] = th[u]
  BY <1>1 DEF Changes
<1>5. FillersStay /\ VictimsStay /\ UsersStay /\ ClearersStay /\ StoredStays
  <2>1. th[p].pc \in Calm /\ th'[p].pc \in Calm
    BY <1>3, <1>4 DEF Calm, Idle
  <2>2. FillersStay /\ VictimsStay /\ UsersStay /\ ClearersStay
    BY <1>4, <2>1, CalmThreads
  <2> QED
    BY <1>3, <2>2, StoredQuiet
<1>6. CopiersStay
  BY <1>4 DEF CopiersStay, Faulting
<1>7. FramesOK' /\ SlotsOK' /\ Counts /\ ContentsOK' /\ \A a \in AddrSpaces : HeldStays(a)
  BY <1>1, <1>3, <1>5, <1>6, ThreadsMove
<1>8. TlbOK'
  <2>1. ~HasAs(curthread)'
    BY <1>3, <1>4 DEF HasAs, Ended
  <2> QED
    BY <1>3, <2>1, TlbElsewhere
<1>9. MemoryStep
  <2>1. th'[p].pc \in Absent /\ User = p
    BY <1>3, <1>4 DEF Absent, Ended, User
  <2>2. Memory(p)' = NULL
    BY <2>1 DEF Memory
  <2>3. \A q \in AddrSpaces : q # p => Memory(q)' = Memory(q)
    BY <1>4, <1>7, PagingAssumption DEF Memory, HeldStays
  <2> QED
    BY <2>1, <2>2, <2>3 DEF MemoryStep, MemoryBecomes
<1> QED
  BY <1>1, <1>2, <1>3, <1>7, <1>8, <1>9 DEF StepOK, Inv, Steady

\* Nobody works on the address space of a process that is not there.
LEMMA Untouched ==
  ASSUME Types, Roles, Running, NEW c \in AddrSpaces, th[c].pc \in {"none", "leaving"}
  PROVE  /\ \A u \in Threads : th[u].as # c
         /\ th[c].as = NULL
<1>1. c \in Threads /\ c # NULL
  BY PagingAssumption, CoremapAssumption
<1>2. Role(c)
  BY <1>1 DEF Roles
<1>3. th[c].as = NULL
  BY <1>2 DEF Role, Idle
<1> QED
  BY <1>1, <1>3, Workers

\* thread_exit.
LEMMA ThreadExitStep ==
  ASSUME Types, Roles, FramesOK, SlotsOK, TlbOK, ContentsOK, NEW p \in Threads, thread_exit(p)
  PROVE  StepOK
<1>1. /\ Types' /\ p \in AddrSpaces /\ zombies' = zombies \cup {p}
      /\ UNCHANGED <<memVars, pt, as_pt, t_stack, heap, created, garbled, curthread, status>>
      /\ \/ /\ On(p, "exiting")
            /\ Changes(p, "exited", th[p].as, th[p].i, th[p].frame, th[p].slot)
         \/ /\ On(p, "leaving")
            /\ Changes(p, "none", th[p].as, th[p].i, th[p].frame, th[p].slot)
  <2>1. /\ zombies' = zombies \cup {p}
        /\ UNCHANGED <<memVars, pt, as_pt, t_stack, heap, created, garbled, curthread, status>>
    BY DEF thread_exit
  <2>2. \/ /\ On(p, "exiting")
           /\ Changes(p, "exited", th[p].as, th[p].i, th[p].frame, th[p].slot)
        \/ /\ On(p, "leaving")
           /\ Changes(p, "none", th[p].as, th[p].i, th[p].frame, th[p].slot)
    <3>1. CASE On(p, "exiting") /\ th' = [th EXCEPT ![p].pc = "exited"]
      BY <3>1, MovePc DEF PCs, Idle
    <3>2. CASE On(p, "leaving") /\ th' = [th EXCEPT ![p].pc = "none"]
      BY <3>2, MovePc DEF PCs, Idle
    <3> QED
      BY <3>1, <3>2 DEF thread_exit
  <2>3. Role(p) /\ th[p].pc \in {"exiting", "leaving"}
    BY <2>2, OnFacts
  <2>4. p \in AddrSpaces
    BY <2>3, PagingAssumption DEF Role, Destroying
  <2>5. th' \in [Threads -> Local]
    BY <2>2 DEF Changes
  <2>6. Types'
    BY <2>1, <2>4, <2>5 DEF Types, memVars, coremapVars, swapVars, tlbVars,
                            CoremapTypeOK, SwapTypeOK, TlbTypeOK
  <2> QED
    BY <2>1, <2>2, <2>4, <2>6
<1>2. Roles'
  <2>1. /\ Running /\ zombies = {} /\ p \in AddrSpaces /\ zombies' = {p} /\ curthread = p
        /\ UNCHANGED <<pt, as_pt, t_stack, curthread>>
        /\ \/ /\ th[p].pc = "exiting"
              /\ Changes(p, "exited", th[p].as, th[p].i, th[p].frame, th[p].slot)
           \/ /\ th[p].pc = "leaving"
              /\ Changes(p, "none", th[p].as, th[p].i, th[p].frame, th[p].slot)
    <3>1. /\ p \in AddrSpaces /\ zombies' = zombies \cup {p}
          /\ UNCHANGED <<pt, as_pt, t_stack, curthread>>
          /\ \/ /\ On(p, "exiting")
                /\ Changes(p, "exited", th[p].as, th[p].i, th[p].frame, th[p].slot)
             \/ /\ On(p, "leaving")
                /\ Changes(p, "none", th[p].as, th[p].i, th[p].frame, th[p].slot)
      BY <1>1
    <3>2. zombies = {} /\ Running /\ curthread = p
      BY <3>1, NoZombies, OnFacts
    <3> QED
      BY SMTT(30), <3>1, <3>2, OnFacts
  <2>2. p # kproc /\ kproc \in Threads /\ AddrSpaces \subseteq Threads /\ p \in Threads
    BY <2>1, PagingAssumption
  <2>3. Role(p)
    BY <2>1 DEF Roles
  <2>4. th[p].as = NULL
    BY <2>1, <2>3 DEF Role, Idle
  <2>5. /\ \/ th[p].pc = "exiting" /\ th'[p].pc = "exited"
           \/ th[p].pc = "leaving" /\ th'[p].pc = "none" /\ \A u \in Threads : th[u].as # p
        /\ th'[p].as = NULL
        /\ \A u \in Threads : u # p => th'[u] = th[u]
    BY <2>1, <2>4, Untouched DEF Changes
  <2>6. Role(p)'
    BY <2>2, <2>5, IdleRole DEF Idle
  <2>7. ASSUME NEW u \in Threads, u # p
        PROVE  Role(u)'
    <3>1. th'[u] = th[u]
      BY <2>5, <2>7
    <3>2. \A b \in AddrSpaces :
            \/ th'[b].pc = th[b].pc /\ \A w \in Pages : pt'[b][w] = pt[b][w]
            \/ u # b /\ th[u].as # b
            \/ /\ u # b /\ th[b].pc \in Ended /\ th'[b].pc \in Ended
               /\ \A v \in Pages : pt'[b][v] = pt[b][v]
      BY <2>1, <2>2, <2>5, <2>7 DEF Ended
    <3> QED
      BY <2>1, <3>1, <3>2, OtherRole
  <2>8. OneWorker'
    BY <2>1, <2>2, <2>5, OneWorkerKept DEF Roles
  <2>9. ZombieLast'
    BY <2>1, <2>5 DEF ZombieLast
  <2>10. TablesThere'
    BY SMTT(30), <2>1, <2>2, <2>5 DEF Roles, TablesThere
  <2>11. StacksThere'
    BY <2>1, <2>2, <2>5 DEF Roles, StacksThere
  <2>12. NoPagesYet'
    BY <2>1, <2>2, <2>5 DEF Roles, NoPagesYet
  <2>13. Alone'
    BY <2>1, <2>2, <2>5 DEF Roles, Alone
  <2> QED
    BY <2>6, <2>7, <2>8, <2>9, <2>10, <2>11, <2>12, <2>13 DEF Roles
<1>3. /\ Running /\ Running' /\ curthread = p
      /\ UNCHANGED <<coremap, as_pt, t_stack, heap, swapMap, used, swap_lock, disk, ram, garbled>>
      /\ UNCHANGED <<pt, tlb, curthread>>
  BY <1>1, OnFacts DEF memVars, coremapVars, swapVars, tlbVars, Running
<1>4. /\ th[p].pc \in {"exiting", "leaving"} /\ th'[p].pc \in {"exited", "none"}
      /\ \A u \in Threads : u # p => th'[u] = th[u]
  BY <1>1, OnFacts DEF Changes
<1>5. FillersStay /\ VictimsStay /\ UsersStay /\ ClearersStay /\ StoredStays
  <2>1. th[p].pc \in Calm /\ th'[p].pc \in Calm
    BY <1>4 DEF Calm, Idle
  <2>2. FillersStay /\ VictimsStay /\ UsersStay /\ ClearersStay
    BY <1>4, <2>1, CalmThreads
  <2> QED
    BY <1>3, <2>2, StoredQuiet
<1>6. CopiersStay
  BY <1>4 DEF CopiersStay, Faulting
<1>7. AbsentStay
  <2>1. th[p].pc \in Absent /\ th'[p].pc \in Absent
    BY <1>4 DEF Absent, Ended
  <2> QED
    BY <1>4, <2>1, PagingAssumption DEF AbsentStay
<1>8. FramesOK' /\ SlotsOK' /\ Counts /\ ContentsOK' /\ MemoryStep
  BY <1>1, <1>3, <1>5, <1>6, <1>7, ThreadsMove
<1>9. TlbOK'
  <2>1. ~HasAs(curthread)'
    BY <1>3, <1>4 DEF HasAs, Ended
  <2> QED
    BY <1>3, <2>1, TlbElsewhere
<1>10. Inv'
  BY <1>1, <1>2, <1>3, <1>8, <1>9 DEF Inv
<1>11. garbled => garbled'
  BY <1>1, <1>2, GarbledSame
<1>12. Running' => Steady
  BY <1>1, <1>2, <1>3, <1>8, <1>9, <1>11 DEF Steady
<1> QED
  BY <1>10, <1>12 DEF StepOK

\* What Role says of a thread that waits for, or destroys, another process.
LEMMA WaitRole ==
  ASSUME NEW t \in Threads, NEW pc \in Destroying \cup {"proc_wait"}, NEW a \in AddrSpaces, a # t,
         th'[t].pc = pc, th'[t].as = a,
         pc = "proc_wait" => th'[a].pc \notin {"none", "embryo", "leaving"},
         pc \in Destroying => th'[a].pc \in Ended,
         pc = "clear_swap" => th'[t].i \in Pages /\ pt'[a][th'[t].i].in_swap
  PROVE  Role(t)'
<1>1. pc \notin Faulting \cup Idle \cup {"thread_fork", "read", "menu"}
  BY DEF Faulting, Idle, Destroying
<1>2. a # NULL
  BY CoremapAssumption
<1> QED
  BY <1>1, <1>2 DEF Role

\* sys_waitpid.
LEMMA WaitpidStep ==
  ASSUME Types, Roles, FramesOK, SlotsOK, TlbOK, ContentsOK,
         NEW t \in AddrSpaces, NEW c \in AddrSpaces, sys_waitpid(t, c)
  PROVE  StepOK
<1>1. /\ Types' /\ On(t, "user") /\ UNCHANGED <<memVars, procVars, curthread, status>>
      /\ c # t /\ th[c].pc \notin {"none", "embryo", "leaving"} /\ th[c].as # t
      /\ \A u \in Threads \ {c} : th[u].as # c
      /\ Changes(t, "proc_wait", c, 0, 0, 0)
  <2>1. /\ On(t, "user") /\ UNCHANGED <<memVars, procVars, curthread, status>>
        /\ c # t /\ th[c].pc \notin {"none", "embryo", "leaving"} /\ th[c].as # t
        /\ \A u \in Threads \ {c} : th[u].as # c
        /\ th' = [th EXCEPT ![t] = At("proc_wait", c, 0)]
    BY DEF sys_waitpid
  <2>2. "proc_wait" \in PCs /\ t \in Threads
    BY PagingAssumption DEF PCs
  <2>3. Changes(t, "proc_wait", c, 0, 0, 0)
    BY <2>1, <2>2, MoveAt
  <2>4. Types'
    BY <2>1, <2>3 DEF Types, Changes, memVars, procVars, coremapVars, swapVars, tlbVars,
                      CoremapTypeOK, SwapTypeOK, TlbTypeOK
  <2> QED
    BY <2>1, <2>3, <2>4
<1>2. Roles'
  <2>1. /\ Running /\ th[t].pc = "user" /\ zombies = {}
        /\ UNCHANGED <<pt, as_pt, t_stack, zombies>> /\ Changes(t, "proc_wait", c, 0, 0, 0)
        /\ c # t /\ th[c].pc \notin {"none", "embryo", "leaving"}
        /\ \A u \in Threads \ {c} : th[u].as # c
    BY <1>1, OnFacts, NoZombies DEF procVars
  <2>2. t # kproc /\ kproc \in Threads /\ AddrSpaces \subseteq Threads /\ t \in Threads /\ c \in Threads
    BY PagingAssumption
  <2>3. /\ th'[t].pc = "proc_wait" /\ th'[t].as = c
        /\ \A u \in Threads : u # t => th'[u] = th[u]
    BY <2>1 DEF Changes
  <2>4. Role(t)'
    BY <2>1, <2>2, <2>3, WaitRole DEF Destroying
  <2>5. ASSUME NEW u \in Threads, u # t
        PROVE  Role(u)'
    <3>1. th'[u] = th[u]
      BY <2>3, <2>5
    <3>2. \A b \in AddrSpaces :
            \/ th'[b].pc = th[b].pc /\ \A w \in Pages : pt'[b][w] = pt[b][w]
            \/ /\ u # b /\ th[b].pc \notin Ended \cup {"embryo"}
               /\ th'[b].pc \notin {"none", "embryo", "leaving"}
      BY <2>1, <2>2, <2>3, <2>5 DEF Ended
    <3> QED
      BY <2>1, <3>1, <3>2, OtherRole
  <2>6. OneWorker'
    <3>1. \A u \in Threads : u # t /\ th[u].as = th'[t].as => u = th[u].as
      BY <2>1, <2>3
    <3> QED
      BY <2>1, <2>2, <2>3, <3>1, OneWorkerKept DEF Roles
  <2>7. ZombieLast' /\ TablesThere' /\ StacksThere' /\ NoPagesYet' /\ Alone'
    BY <2>1, <2>2, <2>3, RestKept
  <2> QED
    BY <2>4, <2>5, <2>6, <2>7 DEF Roles
<1>3. /\ Running /\ Running' /\ curthread = t /\ th[t].pc = "user" /\ t \in Threads
      /\ UNCHANGED <<coremap, as_pt, t_stack, heap, swapMap, used, swap_lock, disk, ram, garbled>>
      /\ UNCHANGED <<pt, tlb, curthread>>
  BY <1>1, OnFacts DEF memVars, procVars, coremapVars, swapVars, tlbVars, Running
<1>4. th'[t].pc = "proc_wait" /\ \A u \in Threads : u # t => th'[u] = th[u]
  BY <1>1 DEF Changes
<1>5. FillersStay /\ VictimsStay /\ UsersStay /\ ClearersStay /\ StoredStays
  <2>1. th[t].pc \in Calm /\ th'[t].pc \in Calm
    BY <1>3, <1>4 DEF Calm, Idle
  <2>2. FillersStay /\ VictimsStay /\ UsersStay /\ ClearersStay
    BY <1>4, <2>1, CalmThreads
  <2> QED
    BY <1>3, <2>2, StoredQuiet
<1>6. CopiersStay
  BY <1>4 DEF CopiersStay, Faulting
<1>7. AbsentStay
  <2>1. th[t].pc \notin Absent /\ th'[t].pc \notin Absent
    BY <1>3, <1>4 DEF Absent, Ended
  <2> QED
    BY <1>4, <2>1, PagingAssumption DEF AbsentStay
<1>8. FramesOK' /\ SlotsOK' /\ Counts /\ ContentsOK' /\ MemoryStep
  BY <1>1, <1>3, <1>5, <1>6, <1>7, ThreadsMove
<1>9. TlbOK'
  <2>1. HasAs(t)
    BY <1>3 DEF HasAs, Ended
  <2> QED
    BY <1>3, <2>1, TlbSame
<1> QED
  BY <1>1, <1>2, <1>3, <1>8, <1>9 DEF StepOK, Inv, Steady

-----------------------------------------------------------------------------
\* The scheduler, and the stacks of dead threads.

\* tlb_invalidate leaves no translation at all.
LEMMA InvalidateEffect ==
  ASSUME TlbTypeOK, tlb_invalidate
  PROVE  TlbTypeOK' /\ \A k \in Entries : ~tlb'[k].valid
  BY DEF tlb_invalidate, TlbTypeOK, INVALID

\* After as_activate the TLB is empty.
LEMMA TlbEmpty ==
  ASSUME \A k \in Entries : ~tlb'[k].valid
  PROVE  TlbOK'
  BY DEF TlbOK, TlbOnce, TlbCoherent

\* The parts of Roles that the zombies do not matter to.
LEMMA RolesStay ==
  ASSUME Roles, Running, UNCHANGED <<th, pt, as_pt>>
  PROVE  (\A t \in Threads : Role(t)') /\ OneWorker' /\ TablesThere' /\ NoPagesYet' /\ Alone'
<1>1. \A t \in Threads : Role(t)
  BY DEF Roles
<1>2. \A t \in Threads : Role(t)'
  BY <1>1 DEF Role
<1>3. OneWorker' /\ TablesThere' /\ NoPagesYet' /\ Alone'
  BY DEF Roles, OneWorker, TablesThere, NoPagesYet, Alone
<1> QED
  BY <1>2, <1>3

\* The scheduler switches to another thread.
LEMMA SwitchStep ==
  ASSUME Types, Roles, FramesOK, SlotsOK, TlbOK, ContentsOK, NEW t \in Threads,
         thread_switch(t)
  PROVE  StepOK
<1>1. /\ Types' /\ Running /\ zombies = {} /\ curthread' = t
      /\ UNCHANGED <<coremapVars, swapVars, ram, procVars, th, status>>
      /\ HasAs(t) => \A k \in Entries : ~tlb'[k].valid
      /\ ~HasAs(t) => UNCHANGED tlbVars
  <2>1. /\ Running /\ zombies = {} /\ curthread' = t /\ as_activate(t)
        /\ UNCHANGED <<coremapVars, swapVars, ram, procVars, th, status>>
    BY DEF thread_switch, CanSwitchTo, Running
  <2>2. TlbTypeOK' /\ (HasAs(t) => \A k \in Entries : ~tlb'[k].valid)
        /\ (~HasAs(t) => UNCHANGED tlbVars)
    BY <2>1, InvalidateEffect DEF as_activate, Types, tlbVars, TlbTypeOK
  <2> QED
    BY <2>1, <2>2 DEF Types, coremapVars, swapVars, procVars, CoremapTypeOK, SwapTypeOK
<1>2. Roles'
  <2>1. Running /\ zombies = {} /\ UNCHANGED <<th, pt, as_pt, t_stack, zombies>>
    BY <1>1 DEF procVars
  <2>2. ZombieLast' /\ StacksThere'
    BY <2>1 DEF Roles, ZombieLast, StacksThere
  <2> QED
    BY <2>1, <2>2, RolesStay DEF Roles
<1>3. /\ Running /\ Running'
      /\ UNCHANGED <<coremap, as_pt, t_stack, heap, swapMap, used, swap_lock, disk, ram, garbled>>
      /\ UNCHANGED <<pt, th>>
  BY <1>1 DEF procVars, coremapVars, swapVars, Running
<1>4. FillersStay /\ VictimsStay /\ UsersStay /\ ClearersStay
  BY <1>3, CalmThreads
<1>5. CopiersStay /\ AbsentStay /\ StoredStays
  BY <1>3, <1>4, StoredQuiet DEF CopiersStay, AbsentStay
<1>6. FramesOK' /\ SlotsOK' /\ Counts /\ ContentsOK' /\ MemoryStep
  BY <1>1, <1>3, <1>4, <1>5, ThreadsMove
<1>7. TlbOK'
  <2>1. CASE HasAs(t)
    BY <1>1, <2>1, TlbEmpty
  <2>2. CASE ~HasAs(t)
    <3>1. UNCHANGED tlb /\ ~HasAs(curthread)'
      BY <1>1, <1>3, <2>2 DEF HasAs, tlbVars
    <3> QED
      BY <1>3, <3>1, TlbElsewhere
  <2> QED
    BY <2>1, <2>2
<1> QED
  BY <1>1, <1>2, <1>3, <1>6, <1>7 DEF StepOK, Inv, Steady

\* freepages keeps the types of the coremap.
LEMMA FreepagesTypes ==
  ASSUME CoremapTypeOK, NEW i, freepages(i)
  PROVE  CoremapTypeOK'
<1> DEFINE e(j) == IF j = i THEN [coremap[j] EXCEPT !.allocpages = 0] ELSE coremap[j]
<1>1. \A j \in Frames : e(j) \in c_entry
  BY SMTT(30), CoremapAssumption DEF CoremapTypeOK, c_entry
<1>2. \A j \in Frames : set_empty(e(j)) \in c_entry
  BY <1>1 DEF set_empty, c_entry
<1>3. coremap' = [j \in Frames |-> IF j \in i .. i + coremap[i].allocpages - 1
                                   THEN set_empty(e(j)) ELSE e(j)]
  BY DEF freepages
<1> HIDE DEF e
<1>4. coremap' \in [Frames -> c_entry]
  BY <1>1, <1>2, <1>3
<1> QED
  BY <1>4 DEF CoremapTypeOK, freepages

\* An allocation of one page is freed, and nothing else.
LEMMA FreepagesEffect ==
  ASSUME CoremapTypeOK, NEW i \in Frames, coremap[i].allocpages = 1, freepages(i)
  PROVE  /\ coremap'[i].flags = 0
         /\ \A j \in Frames : j # i => coremap'[j] = coremap[j]
<1> DEFINE e(j) == IF j = i THEN [coremap[j] EXCEPT !.allocpages = 0] ELSE coremap[j]
<1>1. i \in Int /\ Frames \subseteq Int
  BY SMTT(30) DEF Frames
<1>2. \A j \in Frames : j \in i .. i + coremap[i].allocpages - 1 <=> j = i
  BY SMTT(30), <1>1
<1>3. coremap' = [j \in Frames |-> IF j \in i .. i + coremap[i].allocpages - 1
                                   THEN set_empty(e(j)) ELSE e(j)]
  BY DEF freepages
<1>4. set_empty(e(i)).flags = 0
  BY DEF set_empty, CoremapTypeOK, c_entry
<1>5. \A j \in Frames : j # i => e(j) = coremap[j]
  OBVIOUS
<1> HIDE DEF e
<1> QED
  BY <1>2, <1>3, <1>4, <1>5

\* The kernel frees a page table, a stack, or a page of its heap.
LEMMA KernelFrees ==
  ASSUME Types, Roles, FramesOK, Running, NEW f \in Frames, freepages(f),
         PagesStay, FillersStay,
         \/ /\ UNCHANGED <<t_stack, heap>>
            /\ \E c \in AddrSpaces : as_pt[c] = f /\ as_pt' = [as_pt EXCEPT ![c] = NULL]
         \/ /\ UNCHANGED <<as_pt, heap>>
            /\ \E c \in AddrSpaces : t_stack[c] = f /\ t_stack' = [t_stack EXCEPT ![c] = NULL]
         \/ /\ UNCHANGED <<as_pt, t_stack>> /\ f \in heap /\ heap' = heap \ {f}
  PROVE  FrameTags' /\ FrameOnce' /\ FrameKept'
<1>1. /\ FrameTags /\ FrameOnce /\ FrameKept
      /\ \A a \in AddrSpaces : as_pt[a] # NULL => as_pt[a] \in Frames
      /\ \A a \in AddrSpaces : t_stack[a] # NULL => t_stack[a] \in Frames
      /\ \A t \in Threads : Filling(t) => th[t].frame \in Frames /\ th[t].as \in AddrSpaces
  BY FrameFacts
<1>2. /\ as_pt \in [AddrSpaces -> Frames \cup {NULL}] /\ t_stack \in [AddrSpaces -> Frames \cup {NULL}]
      /\ heap \subseteq Frames /\ f # NULL /\ NULL \notin AddrSpaces
  BY FrameNotNull, CoremapAssumption DEF Types
<1>3. coremap[f].as = NULL /\ coremap[f].allocpages = 1
  BY SMTT(30), <1>1, <1>2 DEF FrameTags, Tag
<1>4. coremap'[f].flags = 0 /\ \A j \in Frames : j # f => coremap'[j] = coremap[j]
  BY <1>3, FreepagesEffect DEF Types
<1>5. /\ \A a \in AddrSpaces : as_pt'[a] # NULL => as_pt'[a] = as_pt[a] /\ as_pt[a] # f
      /\ \A a \in AddrSpaces : t_stack'[a] # NULL => t_stack'[a] = t_stack[a] /\ t_stack[a] # f
      /\ \A g \in heap' : g # f /\ g \in heap
  <2>1. CASE /\ UNCHANGED <<t_stack, heap>>
             /\ \E c \in AddrSpaces : as_pt[c] = f /\ as_pt' = [as_pt EXCEPT ![c] = NULL]
    <3>1. coremap[f].flags = 3
      BY SMTT(30), <1>1, <1>2, <2>1 DEF FrameTags, Tag
    <3>2. \A a \in AddrSpaces : t_stack[a] # f
      BY SMTT(30), <1>1, <1>2, <3>1 DEF FrameTags, Tag
    <3>3. f \notin heap
      BY SMTT(30), <1>1, <3>1 DEF FrameTags, Tag
    <3>4. \A a \in AddrSpaces : as_pt'[a] # NULL => as_pt'[a] = as_pt[a] /\ as_pt[a] # f
      BY <1>1, <1>2, <2>1 DEF FrameOnce
    <3> QED
      BY <2>1, <3>2, <3>3, <3>4
  <2>2. CASE /\ UNCHANGED <<as_pt, heap>>
             /\ \E c \in AddrSpaces : t_stack[c] = f /\ t_stack' = [t_stack EXCEPT ![c] = NULL]
    <3>1. coremap[f].flags = 2 /\ f \notin heap
      BY SMTT(30), <1>1, <1>2, <2>2 DEF FrameTags, Tag
    <3>2. \A a \in AddrSpaces : as_pt[a] # f
      BY SMTT(30), <1>1, <1>2, <3>1 DEF FrameTags, Tag
    <3>3. \A a \in AddrSpaces : t_stack'[a] # NULL => t_stack'[a] = t_stack[a] /\ t_stack[a] # f
      BY <1>1, <1>2, <2>2 DEF FrameOnce
    <3> QED
      BY <2>2, <3>1, <3>2, <3>3
  <2>3. CASE UNCHANGED <<as_pt, t_stack>> /\ f \in heap /\ heap' = heap \ {f}
    <3>1. coremap[f].flags = 2
      BY <1>1, <2>3 DEF FrameTags, Tag
    <3>2. \A a \in AddrSpaces : as_pt[a] # f
      BY SMTT(30), <1>1, <1>2, <3>1 DEF FrameTags, Tag
    <3>3. \A a \in AddrSpaces : t_stack[a] # f
      BY <1>1, <1>2, <2>3 DEF FrameTags
    <3> QED
      BY <2>3, <3>2, <3>3
  <2> QED
    BY <2>1, <2>2, <2>3
<1>6. \A a \in AddrSpaces, v \in Pages : pt[a][v] # Resident(f)
  BY SMTT(30), <1>1, <1>2, <1>3 DEF FrameTags, Tag
<1>7. \A t \in Threads : Filling(t) => th[t].frame # f
  BY SMTT(30), <1>1, <1>2, <1>3 DEF FrameTags, Tag
<1>8. FrameTags'
  <2>1. \A a \in AddrSpaces : as_pt'[a] # NULL =>
          /\ coremap'[as_pt'[a]].flags = 3 /\ coremap'[as_pt'[a]].as = NULL
          /\ coremap'[as_pt'[a]].allocpages = 1
    BY SMTT(30), <1>1, <1>4, <1>5 DEF FrameTags, Tag
  <2>2. \A a \in AddrSpaces : t_stack'[a] # NULL =>
          /\ coremap'[t_stack'[a]].flags = 2 /\ coremap'[t_stack'[a]].as = NULL
          /\ coremap'[t_stack'[a]].allocpages = 1 /\ t_stack'[a] \notin heap'
    BY SMTT(30), <1>1, <1>4, <1>5 DEF FrameTags, Tag
  <2>3. \A g \in heap' : /\ coremap'[g].flags = 2 /\ coremap'[g].as = NULL
                         /\ coremap'[g].allocpages = 1
    BY SMTT(30), <1>1, <1>2, <1>4, <1>5 DEF FrameTags, Tag
  <2>4. \A a \in AddrSpaces, v \in Pages, g \in Frames : pt'[a][v] = Resident(g) =>
          coremap'[g].flags = 2 /\ coremap'[g].as = a
    BY SMTT(30), <1>1, <1>4, <1>6 DEF FrameTags, Tag, PagesStay
  <2>5. \A t \in Threads : Filling(t)' => coremap'[th'[t].frame].flags = 2
                                          /\ coremap'[th'[t].frame].as = th'[t].as
    BY SMTT(30), <1>1, <1>4, <1>7 DEF FrameTags, FillersStay, Tag
  <2> QED
    BY <2>1, <2>2, <2>3, <2>4, <2>5 DEF FrameTags, Tag
<1>9. FrameOnce'
  <2>1. \A a, b \in AddrSpaces : as_pt'[a] = as_pt'[b] /\ as_pt'[a] # NULL => a = b
    BY SMTT(30), <1>1, <1>5 DEF FrameOnce
  <2>2. \A a, b \in AddrSpaces : t_stack'[a] = t_stack'[b] /\ t_stack'[a] # NULL => a = b
    BY SMTT(30), <1>1, <1>5 DEF FrameOnce
  <2>3. \A a \in AddrSpaces, v, w \in Pages, g \in Frames :
           pt'[a][v] = Resident(g) /\ pt'[a][w] = Resident(g) => v = w
    BY SMTT(30), <1>1 DEF FrameOnce, PagesStay
  <2>4. \A t \in Threads, v \in Pages : Filling(t)' => pt'[th'[t].as][v] # Resident(th'[t].frame)
    BY SMTT(30), <1>1 DEF FrameOnce, PagesStay, FillersStay
  <2> QED
    BY <2>1, <2>2, <2>3, <2>4 DEF FrameOnce
<1>10. FrameKept'
  <2> SUFFICES ASSUME NEW g \in Frames, coremap'[g].flags # 0
               PROVE  Held(g)'
    BY DEF FrameKept
  <2>1. g # f
    BY <1>4
  <2>2. Held(g)
    BY <1>1, <1>4, <2>1 DEF FrameKept
  <2>3. /\ \A a \in AddrSpaces : as_pt[a] = g => as_pt'[a] = g
        /\ \A a \in AddrSpaces : t_stack[a] = g => t_stack'[a] = g
        /\ g \in heap => g \in heap'
    BY SMTT(30), <1>2, <2>1
  <2> QED
    BY <2>2, <2>3 DEF Held, PagesStay, FillersStay
<1> QED
  BY <1>8, <1>9, <1>10

\* The scheduler switches away from a thread that has exited.
LEMMA ExorciseStep ==
  ASSUME Types, Roles, FramesOK, SlotsOK, TlbOK, ContentsOK, NEW t \in Threads, exorcise(t)
  PROVE  StepOK
<1>1. /\ Types' /\ Running /\ ~HasAs(t) /\ Runnable(t) /\ curthread' = t
      /\ t # curthread \/ th[t].pc \in {"read", "write"}
      /\ UNCHANGED <<swapVars, tlbVars, ram, pt, as_pt, heap, created, garbled, th, status>>
      /\ \E z \in zombies : /\ t_stack[z] \in Frames /\ t_stack[z] # NULL
                            /\ freepages(t_stack[z])
                            /\ t_stack' = [t_stack EXCEPT ![z] = NULL]
                            /\ zombies' = zombies \ {z}
  <2>1. /\ Running /\ ~HasAs(t) /\ Runnable(t) /\ curthread' = t /\ as_activate(t)
        /\ t # curthread \/ th[t].pc \in {"read", "write"}
        /\ UNCHANGED <<swapVars, ram, pt, as_pt, heap, created, garbled, th, status>>
    BY DEF exorcise, CanSwitchTo, Running
  <2>2. UNCHANGED tlbVars
    BY <2>1 DEF as_activate
  <2>3. PICK z \in zombies : /\ freepages(t_stack[z])
                             /\ t_stack' = [t_stack EXCEPT ![z] = NULL]
                             /\ zombies' = zombies \ {z}
    BY DEF exorcise
  <2>4. z \in AddrSpaces
    BY DEF Types
  <2>5. t_stack[z] # NULL
    BY <2>1, <2>4 DEF Roles, StacksThere
  <2>6. t_stack[z] \in Frames
    BY <2>4, <2>5 DEF Types
  <2>7. CoremapTypeOK'
    BY <2>3, FreepagesTypes DEF Types
  <2>8. t_stack' \in [AddrSpaces -> Frames \cup {NULL}]
    BY <2>3 DEF Types
  <2>9. Types'
    BY <2>1, <2>2, <2>3, <2>7, <2>8 DEF Types, swapVars, tlbVars, SwapTypeOK, TlbTypeOK
  <2> QED
    BY <2>1, <2>2, <2>3, <2>5, <2>6, <2>9
<1>2. Roles'
  <2>1. Running /\ UNCHANGED <<th, pt, as_pt>>
    BY <1>1
  <2>2. PICK z \in zombies : t_stack' = [t_stack EXCEPT ![z] = NULL] /\ zombies' = zombies \ {z}
    BY <1>1
  <2>3. z \in AddrSpaces /\ th[z].pc \in {"exited", "none"} /\ zombies' = {}
    BY <2>1, <2>2 DEF Types, Roles, ZombieLast
  <2>4. StacksThere'
    <3>1. t_stack'[z] = NULL /\ \A p \in AddrSpaces : p # z => t_stack'[p] = t_stack[p]
      BY <2>2, <2>3 DEF Types
    <3> QED
      BY <2>1, <2>2, <2>3, <3>1 DEF Roles, StacksThere
  <2>5. ZombieLast'
    BY <2>3 DEF ZombieLast
  <2> QED
    BY <2>1, <2>4, <2>5, RolesStay DEF Roles
<1>3. /\ Running /\ Running'
      /\ UNCHANGED <<as_pt, heap, swapMap, used, swap_lock, disk, ram, garbled>>
      /\ UNCHANGED <<pt, th, tlb>>
  BY <1>1 DEF swapVars, tlbVars, Running
<1>4. PICK z \in zombies, f \in Frames : /\ t_stack[z] = f /\ freepages(f)
                                         /\ t_stack' = [t_stack EXCEPT ![z] = NULL]
  BY <1>1
<1>5. FillersStay /\ VictimsStay /\ UsersStay /\ ClearersStay
  BY <1>3, CalmThreads
<1>6. PagesStay /\ StoredStays /\ CopiersStay /\ AbsentStay
  BY <1>3, <1>5, StoredQuiet DEF CopiersStay, AbsentStay
<1>7. z \in AddrSpaces
  BY DEF Types
<1>8. FrameTags' /\ FrameOnce' /\ FrameKept'
  BY <1>3, <1>4, <1>5, <1>6, <1>7, KernelFrees
<1>9. FramesOK' /\ SlotsOK' /\ Counts
  BY <1>1, <1>3, <1>5, <1>6, <1>8, KernelSteps
<1>10. ContentsOK' /\ MemoryStep
  BY <1>1, <1>3, <1>6, ContentsQuiet
<1>11. TlbOK'
  <2>1. ~HasAs(curthread)'
    BY <1>1, <1>3 DEF HasAs
  <2> QED
    BY <1>3, <2>1, TlbElsewhere
<1>12. Inv'
  BY <1>1, <1>2, <1>3, <1>9, <1>10, <1>11 DEF Inv
<1>13. garbled => garbled'
  BY <1>1, <1>2, GarbledSame
<1>14. Running' => Steady
  BY <1>1, <1>2, <1>3, <1>9, <1>10, <1>11, <1>13 DEF Steady
<1> QED
  BY <1>12, <1>14 DEF StepOK

-----------------------------------------------------------------------------
\* The memory of the kernel.

\* The kernel takes a free frame: for a page table, a stack, or its heap.
LEMMA KernelTakes ==
  ASSUME Types, Roles, FramesOK, Running, NEW f \in Frames, coremap[f].flags = 0,
         coremap'[f].allocpages = 1, \A j \in Frames : j # f => coremap'[j] = coremap[j],
         PagesStay, FillersStay,
         \/ /\ UNCHANGED <<t_stack, heap>> /\ Tag(f, 3, NULL)'
            /\ \E c \in AddrSpaces : as_pt[c] = NULL /\ as_pt' = [as_pt EXCEPT ![c] = f]
         \/ /\ UNCHANGED <<as_pt, heap>> /\ Tag(f, 2, NULL)'
            /\ \E c \in AddrSpaces : t_stack[c] = NULL /\ t_stack' = [t_stack EXCEPT ![c] = f]
         \/ /\ UNCHANGED <<as_pt, t_stack>> /\ Tag(f, 2, NULL)' /\ heap' = heap \cup {f}
  PROVE  FrameTags' /\ FrameOnce' /\ FrameKept'
<1>1. /\ FrameTags /\ FrameOnce /\ FrameKept
      /\ \A a \in AddrSpaces : as_pt[a] # NULL => as_pt[a] \in Frames
      /\ \A a \in AddrSpaces : t_stack[a] # NULL => t_stack[a] \in Frames
      /\ \A t \in Threads : Filling(t) => th[t].frame \in Frames /\ th[t].as \in AddrSpaces
  BY FrameFacts
<1>2. /\ \A a \in AddrSpaces : as_pt[a] # f /\ t_stack[a] # f
      /\ f \notin heap
      /\ \A a \in AddrSpaces, v \in Pages : pt[a][v] # Resident(f)
      /\ \A t \in Threads : Filling(t) => th[t].frame # f
  BY FreeFrame
<1>3. /\ as_pt \in [AddrSpaces -> Frames \cup {NULL}] /\ t_stack \in [AddrSpaces -> Frames \cup {NULL}]
      /\ heap \subseteq Frames
  BY DEF Types
<1>4. /\ \A a \in AddrSpaces : as_pt'[a] # NULL =>
           \/ as_pt'[a] = as_pt[a] /\ as_pt[a] # f
           \/ as_pt'[a] = f /\ Tag(f, 3, NULL)'
      /\ \A a \in AddrSpaces : t_stack'[a] # NULL =>
           \/ t_stack'[a] = t_stack[a] /\ t_stack[a] # f
           \/ t_stack'[a] = f /\ Tag(f, 2, NULL)' /\ heap' = heap
      /\ \A g \in heap' : g # f => g \in heap
      /\ f \in heap' => Tag(f, 2, NULL)' /\ t_stack' = t_stack
  BY <1>2, <1>3
<1>5. FrameTags'
  <2>2. \A a \in AddrSpaces : as_pt'[a] # NULL =>
          /\ coremap'[as_pt'[a]].flags = 3 /\ coremap'[as_pt'[a]].as = NULL
          /\ coremap'[as_pt'[a]].allocpages = 1
    BY SMTT(30), <1>1, <1>4 DEF FrameTags, Tag
  <2>3. \A a \in AddrSpaces : t_stack'[a] # NULL =>
          /\ coremap'[t_stack'[a]].flags = 2 /\ coremap'[t_stack'[a]].as = NULL
          /\ coremap'[t_stack'[a]].allocpages = 1 /\ t_stack'[a] \notin heap'
    BY SMTT(30), <1>1, <1>2, <1>4 DEF FrameTags, Tag
  <2>4. \A g \in heap' : /\ coremap'[g].flags = 2 /\ coremap'[g].as = NULL
                         /\ coremap'[g].allocpages = 1
    BY SMTT(30), <1>1, <1>3, <1>4 DEF FrameTags, Tag
  <2>5. \A a \in AddrSpaces, v \in Pages, g \in Frames : pt'[a][v] = Resident(g) =>
          coremap'[g].flags = 2 /\ coremap'[g].as = a
    BY SMTT(30), <1>1, <1>2 DEF FrameTags, Tag, PagesStay
  <2>6. \A t \in Threads : Filling(t)' => coremap'[th'[t].frame].flags = 2
                                          /\ coremap'[th'[t].frame].as = th'[t].as
    BY SMTT(30), <1>1, <1>2 DEF FrameTags, FillersStay, Tag
  <2> QED
    BY <2>2, <2>3, <2>4, <2>5, <2>6 DEF FrameTags, Tag
<1>6. FrameOnce'
  <2>1. \A a, b \in AddrSpaces : as_pt'[a] = as_pt'[b] /\ as_pt'[a] # NULL => a = b
    BY SMTT(30), <1>1, <1>2, <1>3 DEF FrameOnce
  <2>2. \A a, b \in AddrSpaces : t_stack'[a] = t_stack'[b] /\ t_stack'[a] # NULL => a = b
    BY SMTT(30), <1>1, <1>2, <1>3 DEF FrameOnce
  <2>3. \A a \in AddrSpaces, v, w \in Pages, g \in Frames :
           pt'[a][v] = Resident(g) /\ pt'[a][w] = Resident(g) => v = w
    BY SMTT(30), <1>1 DEF FrameOnce, PagesStay
  <2>4. \A t \in Threads, v \in Pages : Filling(t)' => pt'[th'[t].as][v] # Resident(th'[t].frame)
    BY SMTT(30), <1>1 DEF FrameOnce, PagesStay, FillersStay
  <2> QED
    BY <2>1, <2>2, <2>3, <2>4 DEF FrameOnce
<1>7. FrameKept'
  <2> SUFFICES ASSUME NEW g \in Frames, coremap'[g].flags # 0
               PROVE  Held(g)'
    BY DEF FrameKept
  <2>1. CASE g = f
    <3>1. (\E a \in AddrSpaces : as_pt'[a] = f \/ t_stack'[a] = f) \/ f \in heap'
      BY <1>3
    <3> QED
      BY <2>1, <3>1 DEF Held
  <2>2. CASE g # f
    <3>1. Held(g)
      BY <1>1, <2>2 DEF FrameKept
    <3>2. /\ \A a \in AddrSpaces : as_pt[a] = g => as_pt'[a] = g
          /\ \A a \in AddrSpaces : t_stack[a] = g => t_stack'[a] = g
          /\ g \in heap => g \in heap'
      BY <1>3, FrameNotNull
    <3> QED
      BY <3>1, <3>2 DEF Held, PagesStay, FillersStay
  <2> QED
    BY <2>1, <2>2
<1> QED
  BY <1>5, <1>6, <1>7

\* A page for the kernel, as long as the machine runs.
LEMMA KernelPageEffect ==
  ASSUME CoremapTypeOK, NEW r \in BOOLEAN, NEW i \in Frames, Running, kernelPage(r, i)
  PROVE  /\ CoremapTypeOK'
         /\ Running' => /\ coremap[i].flags = 0 /\ coremap'[i].allocpages = 1
                        /\ r => Tag(i, 3, NULL)'
                        /\ ~r => Tag(i, 2, NULL)'
                        /\ \A j \in Frames : j # i => coremap'[j] = coremap[j]
<1>1. CASE NoneAvailable
  BY <1>1 DEF kernelPage, getPage_full, Running, CoremapTypeOK
<1>2. CASE ~NoneAvailable
  <2>1. getPage(r, NULL, i)
    BY <1>2 DEF kernelPage
  <2> QED
    BY <2>1, GetPageEffect
<1> QED
  BY <1>1, <1>2

\* alloc_kpages and free_kpages.
LEMMA AllocKpagesStep ==
  ASSUME Types, Roles, FramesOK, SlotsOK, TlbOK, ContentsOK, NEW t, alloc_kpages(t)
  PROVE  StepOK
<1>1. /\ Types' /\ Running
      /\ UNCHANGED <<swapVars, tlbVars, ram, pt, as_pt, t_stack, zombies, created, garbled,
                     th, curthread>>
      /\ \E f \in Frames : kernelPage(FALSE, f) /\ heap' = heap \cup {f}
  <2>1. /\ Running
        /\ UNCHANGED <<swapVars, tlbVars, ram, pt, as_pt, t_stack, zombies, created, garbled,
                       th, curthread>>
    BY DEF alloc_kpages, On, Running
  <2>2. PICK f \in Frames : kernelPage(FALSE, f) /\ heap' = heap \cup {f}
    BY DEF alloc_kpages
  <2>3. CoremapTypeOK'
    BY <2>1, <2>2, KernelPageEffect DEF Types
  <2> QED
    BY <2>1, <2>2, <2>3 DEF Types, swapVars, tlbVars, SwapTypeOK, TlbTypeOK
<1> SUFFICES ASSUME Running'
             PROVE  StepOK
  BY <1>1, RolesStopped DEF StepOK, Inv
<1>2. /\ UNCHANGED <<as_pt, t_stack, swapMap, used, swap_lock, disk, ram, garbled>>
      /\ UNCHANGED <<pt, tlb, th, zombies, curthread>> /\ Running
  BY <1>1 DEF swapVars, tlbVars
<1>3. PICK f \in Frames : kernelPage(FALSE, f) /\ heap' = heap \cup {f}
  BY <1>1
<1>4. /\ coremap[f].flags = 0 /\ coremap'[f].allocpages = 1 /\ Tag(f, 2, NULL)'
      /\ \A j \in Frames : j # f => coremap'[j] = coremap[j]
  BY <1>1, <1>3, KernelPageEffect DEF Types
<1>5. Roles'
  BY <1>2, RolesSame
<1>6. FillersStay /\ VictimsStay /\ UsersStay /\ ClearersStay
  BY <1>2, CalmThreads
<1>7. PagesStay /\ StoredStays
  BY <1>2, <1>6, StoredQuiet
<1>8. FrameTags' /\ FrameOnce' /\ FrameKept'
  BY <1>2, <1>3, <1>4, <1>6, <1>7, KernelTakes
<1>9. FramesOK' /\ SlotsOK' /\ Counts
  BY <1>1, <1>2, <1>6, <1>7, <1>8, KernelSteps
<1>10. TlbOK'
  BY <1>2, TlbSame DEF HasAs
<1>11. CopiersStay /\ AbsentStay
  BY <1>2 DEF CopiersStay, AbsentStay
<1>12. ContentsOK' /\ MemoryStep
  BY <1>1, <1>2, <1>11, ContentsQuiet
<1>13. Inv'
  BY <1>1, <1>2, <1>5, <1>9, <1>10, <1>12 DEF Inv
<1>14. garbled => garbled'
  BY <1>1, <1>2, GarbledSame
<1>15. Running' => Steady
  BY <1>1, <1>2, <1>5, <1>9, <1>10, <1>12, <1>14 DEF Steady
<1> QED
  BY <1>13, <1>15 DEF StepOK

\* free_kpages gives a page of the kernel heap back.
LEMMA FreeKpagesStep ==
  ASSUME Types, Roles, FramesOK, SlotsOK, TlbOK, ContentsOK, NEW t, free_kpages(t)
  PROVE  StepOK
<1>1. /\ Types' /\ Running
      /\ UNCHANGED <<swapVars, tlbVars, ram, pt, as_pt, t_stack, zombies, created, garbled,
                     th, curthread, status>>
      /\ \E f \in heap : freepages(f) /\ heap' = heap \ {f}
  <2>1. /\ Running
        /\ UNCHANGED <<swapVars, tlbVars, ram, pt, as_pt, t_stack, zombies, created, garbled,
                       th, curthread, status>>
        /\ \E f \in heap : freepages(f) /\ heap' = heap \ {f}
    BY DEF free_kpages, On, Running
  <2>2. CoremapTypeOK'
    BY <2>1, FreepagesTypes DEF Types
  <2> QED
    BY <2>1, <2>2 DEF Types, swapVars, tlbVars, SwapTypeOK, TlbTypeOK
<1>2. /\ UNCHANGED <<as_pt, t_stack, swapMap, used, swap_lock, disk, ram, garbled>>
      /\ UNCHANGED <<pt, tlb, th, zombies, curthread>> /\ Running /\ Running'
  BY <1>1 DEF swapVars, tlbVars, Running
<1>3. PICK f \in Frames : f \in heap /\ freepages(f) /\ heap' = heap \ {f}
  BY <1>1 DEF Types
<1>4. Roles'
  BY <1>2, RolesSame
<1>5. FillersStay /\ VictimsStay /\ UsersStay /\ ClearersStay
  BY <1>2, CalmThreads
<1>6. PagesStay /\ StoredStays
  BY <1>2, <1>5, StoredQuiet
<1>7. FrameTags' /\ FrameOnce' /\ FrameKept'
  BY <1>2, <1>3, <1>5, <1>6, KernelFrees
<1>8. FramesOK' /\ SlotsOK' /\ Counts
  BY <1>1, <1>2, <1>5, <1>6, <1>7, KernelSteps
<1>9. TlbOK'
  BY <1>2, TlbSame DEF HasAs
<1>10. CopiersStay /\ AbsentStay
  BY <1>2 DEF CopiersStay, AbsentStay
<1>11. ContentsOK' /\ MemoryStep
  BY <1>1, <1>2, <1>10, ContentsQuiet
<1>12. Inv'
  BY <1>1, <1>2, <1>4, <1>8, <1>9, <1>11 DEF Inv
<1>13. garbled => garbled'
  BY <1>1, <1>2, GarbledSame
<1>14. Running' => Steady
  BY <1>1, <1>2, <1>4, <1>8, <1>9, <1>11, <1>13 DEF Steady
<1> QED
  BY <1>12, <1>14 DEF StepOK

-----------------------------------------------------------------------------
\* A program starts.

\* A step that moves two threads: the one that runs and the one it creates or ends.
LEMMA MoveTwo ==
  ASSUME Types, NEW t \in Threads, NEW c \in Threads, t # c, NEW q \in Local, NEW r \in Local,
         th' = [th EXCEPT ![c] = q, ![t] = r]
  PROVE  Others(t, c) /\ th'[c] = q /\ th'[t] = r
  BY DEF Types, Others

\* The fields of Nowhere.
LEMMA NowhereFacts ==
  ASSUME NEW pc \in PCs
  PROVE  /\ Nowhere(pc) \in Local /\ Nowhere(pc).pc = pc /\ Nowhere(pc).as = NULL
         /\ Nowhere(pc).i = 0 /\ Nowhere(pc).frame = 0 /\ Nowhere(pc).slot = 0
  BY SMTT(30), AtFacts DEF Nowhere

\* The menu starts a program.
LEMMA CommonProgStep ==
  ASSUME Types, Roles, FramesOK, SlotsOK, TlbOK, ContentsOK, NEW p \in AddrSpaces,
         common_prog(p)
  PROVE  StepOK
<1>1. /\ Types' /\ On(kproc, "menu") /\ th[p].pc = "none" /\ p # kproc /\ kproc \in Threads
      /\ UNCHANGED <<swapVars, tlbVars, ram, pt, as_pt, heap, zombies, garbled, curthread>>
      /\ \E f \in Frames : kernelPage(FALSE, f) /\ t_stack' = [t_stack EXCEPT ![p] = f]
      /\ Others(kproc, p) /\ Placed(p, "new", NULL, 0) /\ Placed(kproc, "proc_wait", p, 0)
  <2> DEFINE q == Nowhere("new")
             r == At("proc_wait", p, 0)
  <2>1. /\ On(kproc, "menu") /\ th[p].pc = "none" /\ created < MaxCreated
        /\ UNCHANGED <<swapVars, tlbVars, ram, pt, as_pt, heap, zombies, garbled, curthread>>
        /\ created' = created + 1
        /\ th' = [th EXCEPT ![p] = q, ![kproc] = r]
    BY DEF common_prog
  <2>2. Running /\ p \in Threads /\ kproc \in Threads /\ p # kproc
    BY <2>1, OnFacts, PagingAssumption
  <2>3. PICK f \in Frames : kernelPage(FALSE, f) /\ t_stack' = [t_stack EXCEPT ![p] = f]
    BY DEF common_prog
  <2>4. q \in Local /\ q.pc = "new" /\ q.as = NULL /\ q.i = 0 /\ q.frame = 0 /\ q.slot = 0
    BY NowhereFacts DEF PCs, Idle
  <2>5. r \in Local /\ r.pc = "proc_wait" /\ r.as = p /\ r.i = 0 /\ r.frame = 0 /\ r.slot = 0
    BY SMTT(30), AtFacts DEF PCs
  <2> HIDE DEF q, r
  <2>6. Others(kproc, p) /\ th'[p] = q /\ th'[kproc] = r
    <3>1. q \in Local /\ r \in Local /\ th' = [th EXCEPT ![p] = q, ![kproc] = r]
      BY <2>1, <2>4, <2>5
    <3> QED
      BY <2>2, <3>1, MoveTwo
  <2>7. Placed(p, "new", NULL, 0) /\ Placed(kproc, "proc_wait", p, 0)
    BY <2>4, <2>5, <2>6 DEF Placed
  <2>8. CoremapTypeOK'
    BY <2>2, <2>3, KernelPageEffect DEF Types
  <2>9. created' \in 0 .. MaxCreated
    BY SMTT(30), <2>1, PagingAssumption DEF Types
  <2>10. Types'
    BY <2>1, <2>3, <2>6, <2>8, <2>9
       DEF Types, Others, swapVars, tlbVars, SwapTypeOK, TlbTypeOK
  <2> QED
    BY <2>1, <2>2, <2>3, <2>6, <2>7, <2>10
<1> SUFFICES ASSUME Running'
             PROVE  StepOK
  BY <1>1, RolesStopped DEF StepOK, Inv
<1>2. Roles'
  <2>1. /\ Running /\ th[kproc].pc = "menu" /\ zombies = {} /\ th[p].pc = "none" /\ p # kproc
        /\ UNCHANGED <<pt, as_pt, zombies>> /\ Role(kproc)
        /\ Others(kproc, p) /\ Placed(p, "new", NULL, 0) /\ Placed(kproc, "proc_wait", p, 0)
    BY <1>1, OnFacts, NoZombies
  <2>2. PICK f \in Frames : t_stack' = [t_stack EXCEPT ![p] = f]
    BY <1>1
  <2>3. p \in Threads /\ kproc \in Threads /\ kproc \notin AddrSpaces /\ AddrSpaces \subseteq Threads
    BY PagingAssumption
  <2>4. /\ th'[p].pc = "new" /\ th'[p].as = NULL
        /\ th'[kproc].pc = "proc_wait" /\ th'[kproc].as = p
        /\ \A u \in Threads : u # kproc /\ u # p => th'[u] = th[u]
    BY <2>1 DEF Placed, Others
  <2>5. th[kproc].as = NULL
    BY <2>1 DEF Role, Idle
  <2>6. (\A u \in Threads : th[u].as # p) /\ th[p].as = NULL
    BY <2>1, Untouched
  <2>7. Role(p)'
    BY <2>1, <2>3, <2>4, IdleRole DEF Idle
  <2>8. Role(kproc)'
    BY <2>1, <2>3, <2>4, WaitRole DEF Destroying
  <2>9. ASSUME NEW u \in Threads, u # p, u # kproc
        PROVE  Role(u)'
    <3>1. th'[u] = th[u]
      BY <2>4, <2>9
    <3>2. \A b \in AddrSpaces :
            \/ th'[b].pc = th[b].pc /\ \A w \in Pages : pt'[b][w] = pt[b][w]
            \/ u # b /\ th[u].as # b
      BY <2>1, <2>3, <2>4, <2>6, <2>9
    <3> QED
      BY <2>1, <3>1, <3>2, OtherRole
  <2>10. OneWorker'
    <3>1. \A u \in Threads : u # kproc => th'[u].as = th[u].as
      BY <2>4, <2>6
    <3> QED
      BY <2>1, <2>3, <2>4, <2>6, <3>1, OneWorkerKept DEF Roles
  <2>11. ZombieLast'
    BY <2>1 DEF ZombieLast
  <2>12. TablesThere'
    BY SMTT(30), <2>1, <2>3, <2>4, <2>6 DEF Roles, TablesThere
  <2>13. StacksThere'
    <3>1. t_stack'[p] = f /\ f # NULL /\ \A q \in AddrSpaces : q # p => t_stack'[q] = t_stack[q]
      BY <2>1, <2>2, FrameNotNull DEF Types
    <3> QED
      BY <2>1, <2>3, <2>4, <3>1 DEF Roles, StacksThere
  <2>14. NoPagesYet'
    BY <2>1, <2>3, <2>4 DEF Roles, NoPagesYet
  <2>15. Alone'
    <3>1. Alone
      BY <2>1 DEF Roles
    <3> QED
      BY <2>3, <2>4, <2>5, <3>1, CoremapAssumption DEF Alone
  <2> QED
    BY <2>7, <2>8, <2>9, <2>10, <2>11, <2>12, <2>13, <2>14, <2>15 DEF Roles
<1>3. /\ Running /\ curthread = kproc /\ th[kproc].pc = "menu" /\ zombies = {}
      /\ UNCHANGED <<as_pt, heap, swapMap, used, swap_lock, disk, ram, garbled>>
      /\ UNCHANGED <<pt, tlb, zombies, curthread>>
  BY <1>1, OnFacts, NoZombies DEF swapVars, tlbVars
<1>4. t_stack[p] = NULL
  <2>1. StacksThere
    BY <1>3 DEF Roles
  <2> QED
    BY <1>1, <1>3, <2>1 DEF StacksThere
<1>5. /\ th'[p].pc = "new" /\ th'[kproc].pc = "proc_wait"
      /\ \A u \in Threads : u # kproc /\ u # p => th'[u] = th[u]
  BY <1>1 DEF Others, Placed
<1>6. FillersStay /\ VictimsStay /\ UsersStay /\ ClearersStay
  <2>1. /\ th[kproc].pc \in Calm /\ th[p].pc \in Calm
        /\ th'[kproc].pc \in Calm /\ th'[p].pc \in Calm
    BY <1>1, <1>3, <1>5 DEF Calm, Idle
  <2> QED
    BY <1>5, <2>1, CalmThreads
<1>7. PagesStay /\ StoredStays
  BY <1>3, <1>6, StoredQuiet
<1>8. PICK f \in Frames, r \in BOOLEAN :
        r = FALSE /\ kernelPage(r, f) /\ t_stack' = [t_stack EXCEPT ![p] = f]
  BY <1>1
<1>9. /\ coremap[f].flags = 0 /\ coremap'[f].allocpages = 1 /\ Tag(f, 2, NULL)'
      /\ \A j \in Frames : j # f => coremap'[j] = coremap[j]
  BY <1>3, <1>8, KernelPageEffect DEF Types
<1>10. FrameTags' /\ FrameOnce' /\ FrameKept'
  BY <1>3, <1>4, <1>6, <1>7, <1>8, <1>9, KernelTakes
<1>11. FramesOK' /\ SlotsOK' /\ Counts
  BY <1>1, <1>3, <1>6, <1>7, <1>10, KernelSteps
<1>12. TlbOK'
  <2>1. ~HasAs(curthread)'
    BY <1>3, PagingAssumption DEF HasAs
  <2> QED
    BY <1>3, <2>1, TlbElsewhere
<1>13. CopiersStay
  BY <1>5 DEF CopiersStay, Faulting
<1>14. AbsentStay
  <2>1. th[p].pc \in Absent /\ th'[p].pc \in Absent
    BY <1>1, <1>5 DEF Absent
  <2> QED
    BY <1>5, <2>1, PagingAssumption DEF AbsentStay
<1>15. ContentsOK' /\ MemoryStep
  BY <1>1, <1>3, <1>13, <1>14, ContentsQuiet
<1>16. Inv'
  BY <1>1, <1>2, <1>3, <1>11, <1>12, <1>15 DEF Inv
<1>17. garbled => garbled'
  BY <1>1, <1>2, GarbledSame
<1>18. Running' => Steady
  BY <1>1, <1>2, <1>3, <1>11, <1>12, <1>15, <1>17 DEF Steady
<1> QED
  BY <1>16, <1>18 DEF StepOK

\* An empty page table, in the form of Clears.
LEMMA ClearFacts ==
  ASSUME Types, NEW a \in AddrSpaces, pt' = [pt EXCEPT ![a] = [v \in Pages |-> NoPage]]
  PROVE  Clears(a)
<1>1. [v \in Pages |-> NoPage] \in [Pages -> Entry]
  BY KindFacts
<1> QED
  BY <1>1 DEF Types, Clears

\* runprogram: the program has its initial memory.
LEMMA RunprogramStep ==
  ASSUME Types, Roles, FramesOK, SlotsOK, TlbOK, ContentsOK, NEW p \in Threads, runprogram(p)
  PROVE  StepOK
<1>1. /\ Types' /\ On(p, "new") /\ p \in AddrSpaces
      /\ UNCHANGED <<swapVars, ram, t_stack, heap, zombies, created, garbled, curthread>>
      /\ tlb_invalidate
      /\ \E f \in Frames : kernelPage(TRUE, f) /\ as_pt' = [as_pt EXCEPT ![p] = f]
      /\ Clears(p) /\ Changes(p, "user", NULL, 0, 0, 0)
  <2>1. /\ On(p, "new") /\ tlb_invalidate
        /\ UNCHANGED <<swapVars, ram, t_stack, heap, zombies, created, garbled, curthread>>
        /\ pt' = [pt EXCEPT ![p] = [v \in Pages |-> NoPage]]
        /\ th' = [th EXCEPT ![p] = Nowhere("user")]
    BY DEF runprogram
  <2>2. Running /\ Role(p) /\ th[p].pc = "new"
    BY <2>1, OnFacts
  <2>3. p \in AddrSpaces
    BY <2>2, PagingAssumption DEF Role, Destroying
  <2>4. PICK f \in Frames : kernelPage(TRUE, f) /\ as_pt' = [as_pt EXCEPT ![p] = f]
    BY DEF runprogram
  <2>5. Clears(p)
    BY <2>1, <2>3, ClearFacts
  <2>6. Changes(p, "user", NULL, 0, 0, 0)
    BY <2>1, MoveNowhere DEF PCs, Idle
  <2>7. CoremapTypeOK'
    BY <2>2, <2>4, KernelPageEffect DEF Types
  <2>8. TlbTypeOK'
    BY <2>1, InvalidateEffect DEF Types
  <2>9. Types'
    BY <2>1, <2>3, <2>4, <2>5, <2>6, <2>7, <2>8 DEF Types, Changes, Clears, swapVars, SwapTypeOK
  <2> QED
    BY <2>1, <2>3, <2>4, <2>5, <2>6, <2>9
<1> SUFFICES ASSUME Running'
             PROVE  StepOK
  BY <1>1, RolesStopped DEF StepOK, Inv
<1>2. Roles'
  <2>1. /\ Running /\ th[p].pc = "new" /\ zombies = {} /\ p \in AddrSpaces
        /\ UNCHANGED <<t_stack, zombies>> /\ Clears(p) /\ Changes(p, "user", NULL, 0, 0, 0)
    BY <1>1, OnFacts, NoZombies
  <2>2. PICK f \in Frames : as_pt' = [as_pt EXCEPT ![p] = f]
    BY <1>1
  <2>3. p # kproc /\ kproc \in Threads /\ AddrSpaces \subseteq Threads
    BY <2>1, PagingAssumption
  <2>4. /\ th'[p].pc = "user" /\ th'[p].as = NULL
        /\ \A u \in Threads : u # p => th'[u] = th[u]
    BY <2>1 DEF Changes
  <2>5. \A b \in AddrSpaces, w \in Pages : b # p => pt'[b][w] = pt[b][w]
    BY <2>1 DEF Clears
  <2>6. Role(p)'
    BY <2>3, <2>4, IdleRole DEF Idle
  <2>7. ASSUME NEW u \in Threads, u # p
        PROVE  Role(u)'
    <3>1. th'[u] = th[u]
      BY <2>4, <2>7
    <3>2. \A b \in AddrSpaces :
            \/ th'[b].pc = th[b].pc /\ \A w \in Pages : pt'[b][w] = pt[b][w]
            \/ /\ u # b /\ th[b].pc \notin Ended \cup {"embryo"}
               /\ th'[b].pc \notin {"none", "embryo", "leaving"}
      BY <2>1, <2>3, <2>4, <2>5, <2>7 DEF Ended
    <3> QED
      BY <2>1, <3>1, <3>2, OtherRole
  <2>8. OneWorker'
    BY <2>1, <2>4, OneWorkerKept DEF Roles
  <2>9. ZombieLast'
    BY <2>1 DEF ZombieLast
  <2>10. TablesThere'
    <3>1. as_pt'[p] = f /\ f # NULL /\ \A q \in AddrSpaces : q # p => as_pt'[q] = as_pt[q]
      BY <2>1, <2>2, FrameNotNull DEF Types
    <3>2. \A u \in Threads : th[u].pc = "freeAs" => th[u].as # p
      <4> TAKE u \in Threads
      <4>1. u # p => (th[u].as = p => th[u].pc = "proc_wait")
        BY <2>1, Workers DEF Ended
      <4> QED
        BY <2>1, <4>1
    <3>3. TablesThere
      BY <2>1 DEF Roles
    <3> QED
      BY SMTT(30), <2>1, <2>3, <2>4, <3>1, <3>2, <3>3 DEF TablesThere
  <2>11. StacksThere'
    BY <2>1, <2>3, <2>4 DEF Roles, StacksThere
  <2>12. NoPagesYet'
    BY <2>1, <2>3, <2>4, <2>5 DEF Roles, NoPagesYet
  <2>13. Alone'
    BY <2>1, <2>3, <2>4 DEF Roles, Alone
  <2> QED
    BY <2>6, <2>7, <2>8, <2>9, <2>10, <2>11, <2>12, <2>13 DEF Roles
<1>3. /\ Running /\ curthread = p /\ th[p].pc = "new"
      /\ UNCHANGED <<t_stack, heap, swapMap, used, swap_lock, disk, ram, garbled>>
      /\ UNCHANGED <<zombies, curthread>>
  BY <1>1, OnFacts DEF swapVars
<1>4. TablesThere /\ NoPagesYet
  BY <1>3 DEF Roles
<1>5. /\ as_pt[p] = NULL /\ \A v \in Pages : pt[p][v] = NoPage
      /\ \A b \in AddrSpaces, v \in Pages : pt'[b][v] = pt[b][v]
  BY <1>1, <1>3, <1>4 DEF TablesThere, NoPagesYet, Clears
<1>6. th'[p].pc = "user" /\ \A u \in Threads : u # p => th'[u] = th[u]
  BY <1>1 DEF Changes
<1>7. FillersStay /\ VictimsStay /\ UsersStay /\ ClearersStay
  <2>1. th[p].pc \in Calm /\ th'[p].pc \in Calm
    BY <1>3, <1>6 DEF Calm, Idle
  <2> QED
    BY <1>6, <2>1, CalmThreads
<1>8. PagesStay /\ StoredStays
  BY <1>5, <1>7, StoredQuiet
<1>9. PICK f \in Frames, r \in BOOLEAN :
        r = TRUE /\ kernelPage(r, f) /\ as_pt' = [as_pt EXCEPT ![p] = f]
  BY <1>1
<1>10. /\ coremap[f].flags = 0 /\ coremap'[f].allocpages = 1 /\ Tag(f, 3, NULL)'
       /\ \A j \in Frames : j # f => coremap'[j] = coremap[j]
  BY <1>3, <1>9, KernelPageEffect DEF Types
<1>11. FrameTags' /\ FrameOnce' /\ FrameKept'
  BY <1>1, <1>3, <1>5, <1>7, <1>8, <1>9, <1>10, KernelTakes
<1>12. FramesOK' /\ SlotsOK' /\ Counts
  BY <1>1, <1>3, <1>5, <1>7, <1>8, <1>11, KernelSteps
<1>13. TlbOK'
  BY <1>1, InvalidateEffect, TlbEmpty DEF Types
<1>14. CopiersStay
  BY <1>6 DEF CopiersStay, Faulting
<1>15. ContentsOK' /\ \A b \in AddrSpaces : HeldStays(b)
  BY <1>1, <1>3, <1>5, <1>14, ContentsQuiet
<1>16. MemoryStep
  <2>1. th[p].pc \in Absent /\ th'[p].pc \notin Absent
    BY <1>3, <1>6 DEF Absent, Ended
  <2>2. Memory(p) = NULL
    BY <2>1 DEF Memory
  <2>3. \A v \in Pages : held(p, v)' = Fresh(v)
    BY SMTT(30), <1>1, <1>5, <1>15, HeldFacts DEF HeldStays
  <2>4. Memory(p)' = [v \in Pages |-> held(p, v)']
    BY <2>1 DEF Memory
  <2>5. Memory(p)' = Initial
    BY <2>3, <2>4 DEF Initial
  <2>6. \A q \in AddrSpaces : q # p => Memory(q)' = Memory(q)
    BY <1>6, <1>15, PagingAssumption DEF Memory, HeldStays
  <2> QED
    BY <1>1, <2>2, <2>5, <2>6 DEF MemoryStep, MemoryBecomes
<1>17. Inv'
  BY <1>1, <1>2, <1>3, <1>12, <1>13, <1>15, <1>16 DEF Inv
<1>18. garbled => garbled'
  BY <1>1, <1>2, GarbledSame
<1>19. Running' => Steady
  BY <1>1, <1>2, <1>3, <1>12, <1>13, <1>15, <1>16, <1>18 DEF Steady
<1> QED
  BY <1>17, <1>19 DEF StepOK

-----------------------------------------------------------------------------
\* sys_fork, before and after as_copy.

\* sys_fork: the child's page table, and the start of as_copy.
LEMMA SysForkStep ==
  ASSUME Types, Roles, FramesOK, SlotsOK, TlbOK, ContentsOK, PagesOrdered,
         NEW t \in AddrSpaces, NEW c \in AddrSpaces, sys_fork(t, c)
  PROVE  StepOK
<1>1. /\ Types' /\ OPT_FORK /\ On(t, "user") /\ th[c].pc = "none" /\ t # c
      /\ UNCHANGED <<swapVars, tlbVars, ram, t_stack, heap, zombies, garbled, curthread>>
      /\ \E f \in Frames : kernelPage(TRUE, f) /\ as_pt' = [as_pt EXCEPT ![c] = f]
      /\ Clears(c) /\ Others(t, c) /\ Placed(c, "embryo", NULL, 0) /\ CopyNext(t, c, 1)
  <2>1. /\ OPT_FORK /\ On(t, "user") /\ th[c].pc = "none" /\ created < MaxCreated
        /\ UNCHANGED <<swapVars, tlbVars, ram, t_stack, heap, zombies, garbled, curthread>>
        /\ created' = created + 1
        /\ pt' = [pt EXCEPT ![c] = [v \in Pages |-> NoPage]]
        /\ th' = [th EXCEPT ![c] = Nowhere("embryo"), ![t] = copyFrom(t, c, 1)]
    BY DEF sys_fork
  <2>2. t # c /\ t \in Threads /\ c \in Threads
    BY <2>1, PagingAssumption DEF On
  <2>3. PICK f \in Frames : kernelPage(TRUE, f) /\ as_pt' = [as_pt EXCEPT ![c] = f]
    BY DEF sys_fork
  <2>4. Nowhere("embryo") \in Local /\ copyFrom(t, c, 1) \in Local
    BY NowhereFacts, CopyFromFacts DEF PCs, Idle
  <2>5. Others(t, c) /\ th'[c] = Nowhere("embryo") /\ th'[t] = copyFrom(t, c, 1)
    <3> DEFINE q == Nowhere("embryo")
               r == copyFrom(t, c, 1)
    <3>1. q \in Local /\ r \in Local /\ th' = [th EXCEPT ![c] = q, ![t] = r]
      BY <2>1, <2>4
    <3> HIDE DEF q, r
    <3>2. Others(t, c) /\ th'[c] = q /\ th'[t] = r
      BY <2>2, <3>1, MoveTwo
    <3> QED
      BY <3>2 DEF q, r
  <2>6. Placed(c, "embryo", NULL, 0)
    BY SMTT(30), <2>5, NowhereFacts DEF PCs, Idle, Placed
  <2>7. CopyNext(t, c, 1)
    BY <2>5, CopyNextFacts
  <2>8. Clears(c)
    BY <2>1, ClearFacts
  <2>9. Running
    BY <2>1 DEF On, Running
  <2>10. CoremapTypeOK'
    BY <2>3, <2>9, KernelPageEffect DEF Types
  <2>11. created' \in 0 .. MaxCreated
    BY SMTT(30), <2>1, PagingAssumption DEF Types
  <2>12. Types'
    BY <2>1, <2>3, <2>5, <2>8, <2>10, <2>11
       DEF Types, Others, Clears, swapVars, tlbVars, SwapTypeOK, TlbTypeOK
  <2> QED
    BY <2>1, <2>2, <2>3, <2>5, <2>6, <2>7, <2>8, <2>12
<1> SUFFICES ASSUME Running'
             PROVE  StepOK
  BY <1>1, RolesStopped DEF StepOK, Inv
<1>2. Roles'
  <2>1. /\ Running /\ th[t].pc = "user" /\ zombies = {} /\ th[c].pc = "none" /\ t # c /\ OPT_FORK
        /\ UNCHANGED <<t_stack, zombies>>
        /\ Clears(c) /\ Others(t, c) /\ Placed(c, "embryo", NULL, 0) /\ CopyNext(t, c, 1)
    BY <1>1, OnFacts, NoZombies
  <2>2. PICK f \in Frames : as_pt' = [as_pt EXCEPT ![c] = f]
    BY <1>1
  <2>3. /\ t \in Threads /\ c \in Threads /\ t # kproc /\ c # kproc /\ kproc \in Threads
        /\ AddrSpaces \subseteq Threads
    BY PagingAssumption
  <2>4. \A u \in Threads : th[u].as # c
    BY <2>1, Untouched
  <2>5. /\ th'[c].pc = "embryo" /\ th'[c].as = NULL
        /\ \A u \in Threads : u # t /\ u # c => th'[u] = th[u]
    BY <2>1 DEF Placed, Others
  <2>6. /\ \A w \in Pages : pt'[c][w] = NoPage
        /\ \A b \in AddrSpaces, w \in Pages : b # c => pt'[b][w] = pt[b][w]
    BY <2>1 DEF Clears
  <2>7. Role(c)'
    BY <2>3, <2>5, IdleRole DEF Idle
  <2>8. /\ th'[t].as = c
        /\ \/ th'[t].pc = "thread_fork"
           \/ th'[t].pc = "getPage" /\ th'[t].i \in Pages /\ pt[t][th'[t].i] # NoPage
    BY <2>1 DEF CopyNext, Placed
  <2>9. Role(t)'
    <3>1. CASE th'[t].pc = "thread_fork"
      <4>1. c # NULL
        BY CoremapAssumption
      <4> QED
        BY <2>1, <2>3, <2>5, <2>8, <3>1, <4>1 DEF Role, Faulting, Idle, Destroying
    <3>2. CASE th'[t].pc = "getPage" /\ th'[t].i \in Pages /\ pt[t][th'[t].i] # NoPage
      <4>1. pt'[t][th'[t].i] # NoPage
        BY <2>1, <2>6, <3>2
      <4> QED
        BY SMTT(30), <2>1, <2>3, <2>5, <2>6, <2>8, <3>2, <4>1, FaultRole DEF Faulting
    <3> QED
      BY <2>8, <3>1, <3>2
  <2>10. ASSUME NEW u \in Threads, u # t, u # c
         PROVE  Role(u)'
    <3>1. th'[u] = th[u]
      BY <2>5, <2>10
    <3>2. \A b \in AddrSpaces :
            \/ th'[b].pc = th[b].pc /\ \A w \in Pages : pt'[b][w] = pt[b][w]
            \/ u # b /\ th[u].as # b
            \/ /\ u # b /\ th[b].pc \notin Ended \cup {"embryo"}
               /\ th'[b].pc \notin {"none", "embryo", "leaving"}
      BY <2>1, <2>3, <2>4, <2>5, <2>6, <2>8, <2>10 DEF Ended
    <3> QED
      BY <2>1, <3>1, <3>2, OtherRole
  <2>11. OneWorker'
    <3>1. \A u \in Threads : u # t => th'[u].as = th[u].as
      BY <2>1, <2>3, <2>5, Untouched
    <3> QED
      BY <2>1, <2>3, <2>4, <2>8, <3>1, OneWorkerKept DEF Roles
  <2>12. ZombieLast'
    BY <2>1 DEF ZombieLast
  <2>13. TablesThere'
    <3>1. \A u \in Threads : th'[u].pc = "freeAs" <=> th[u].pc = "freeAs"
      BY <2>1, <2>5, <2>8
    <3>2. \A u \in Threads : th[u].pc = "freeAs" => th'[u].as = th[u].as
      BY <2>1, <2>5
    <3>3. f # NULL
      BY SMTT(30), PagingAssumption DEF Frames
    <3>4. \A p \in AddrSpaces : p # c => as_pt'[p] = as_pt[p]
      BY <2>2 DEF Types
    <3>5. as_pt'[c] = f
      BY <2>2 DEF Types
    <3>6. \A p \in AddrSpaces : p # c =>
             (th'[p].pc \in {"none", "new", "leaving"} <=> th[p].pc \in {"none", "new", "leaving"})
      BY <2>1, <2>3, <2>5, <2>8
    <3>7. TablesThere
      BY <2>1 DEF Roles
    <3> QED
      BY SMTT(30), <2>4, <2>5, <3>1, <3>2, <3>3, <3>4, <3>5, <3>6, <3>7 DEF TablesThere
  <2>14. StacksThere'
    BY <2>1, <2>3, <2>5, <2>8 DEF Roles, StacksThere
  <2>15. NoPagesYet'
    BY SMTT(30), <2>1, <2>3, <2>5, <2>6, <2>8 DEF Roles, NoPagesYet
  <2>16. Alone'
    BY <2>1 DEF Alone
  <2> QED
    BY <2>7, <2>9, <2>10, <2>11, <2>12, <2>13, <2>14, <2>15, <2>16 DEF Roles
<1>3. /\ Running /\ curthread = t /\ th[t].pc = "user" /\ t \in Threads /\ c \in Threads
      /\ UNCHANGED <<t_stack, heap, swapMap, used, swap_lock, disk, ram, garbled>>
      /\ UNCHANGED <<tlb, zombies, curthread>>
  BY <1>1, OnFacts, PagingAssumption DEF swapVars, tlbVars
<1>4. TablesThere /\ NoPagesYet
  BY <1>3 DEF Roles
<1>5. /\ as_pt[c] = NULL /\ \A v \in Pages : pt[c][v] = NoPage
      /\ \A b \in AddrSpaces, v \in Pages : pt'[b][v] = pt[b][v]
  BY <1>1, <1>4 DEF TablesThere, NoPagesYet, Clears
<1>6. /\ th'[c].pc = "embryo" /\ th'[t].pc \in {"thread_fork", "getPage"} /\ th'[t].as = c
      /\ \A u \in Threads : u # t /\ u # c => th'[u] = th[u]
  BY <1>1 DEF Others, Placed, CopyNext
<1>7. FillersStay /\ VictimsStay /\ UsersStay /\ ClearersStay
  <2>1. th[t].pc \in Calm /\ th[c].pc \in Calm /\ th'[t].pc \in Calm /\ th'[c].pc \in Calm
    BY <1>1, <1>3, <1>6 DEF Calm, Idle
  <2> QED
    BY <1>6, <2>1, CalmThreads
<1>8. PagesStay /\ StoredStays
  BY <1>5, <1>7, StoredQuiet
<1>9. PICK f \in Frames, r \in BOOLEAN :
        r = TRUE /\ kernelPage(r, f) /\ as_pt' = [as_pt EXCEPT ![c] = f]
  BY <1>1
<1>10. /\ coremap[f].flags = 0 /\ coremap'[f].allocpages = 1 /\ Tag(f, 3, NULL)'
       /\ \A j \in Frames : j # f => coremap'[j] = coremap[j]
  BY <1>3, <1>9, KernelPageEffect DEF Types
<1>11. FrameTags' /\ FrameOnce' /\ FrameKept'
  BY <1>3, <1>5, <1>7, <1>8, <1>9, <1>10, KernelTakes
<1>12. FramesOK' /\ SlotsOK' /\ Counts
  BY <1>1, <1>3, <1>5, <1>7, <1>8, <1>11, KernelSteps
<1>13. TlbOK'
  <2>1. HasAs(t)
    BY <1>3 DEF HasAs, Ended
  <2> QED
    BY <1>3, <1>5, <2>1, TlbSame
<1>14. (\A b \in AddrSpaces : HeldStays(b)) /\ TextKept'
  BY <1>1, <1>3, <1>5, ContentsSame
<1>15. ContentsOK'
  <2>1. CopiedSoFar
    BY <1>3 DEF ContentsOK
  <2>2. CopiedSoFar'
    <3> SUFFICES ASSUME ~garbled', NEW u \in Threads,
                        th'[u].pc \in Faulting \cup {"thread_fork"}, th'[u].as # u,
                        NEW v \in Pages, th'[u].pc = "thread_fork" \/ v < th'[u].i
                 PROVE  held(th[u].as, v)' = held(u, v)'
      BY DEF CopiedSoFar
    <3>1. CASE u = t
      <4>1. pt[t][v] = NoPage
        BY SMTT(30), <1>1, <3>1, PageOrder DEF CopyNext, Placed
      <4>2. held(c, v) = held(t, v)
        BY SMTT(30), <1>5, <4>1, HeldFacts
      <4> QED
        BY <1>6, <1>14, <3>1, <4>2 DEF HeldStays
    <3>2. CASE u # t
      <4>1. u # c
        BY <1>6 DEF Faulting
      <4>2. th'[u] = th[u]
        BY <1>6, <3>2, <4>1
      <4>3. held(th[u].as, v) = held(u, v)
        BY <1>3, <2>1, <4>2 DEF CopiedSoFar
      <4>4. u \in AddrSpaces /\ th[u].as \in AddrSpaces
        BY <1>3, <4>2, WorkFacts DEF Idle, Faulting
      <4> QED
        BY <1>14, <4>2, <4>3, <4>4 DEF HeldStays
    <3> QED
      BY <3>1, <3>2
  <2> QED
    BY <1>14, <2>2 DEF ContentsOK
<1>16. MemoryStep
  <2>1. AbsentStay
    <3>1. /\ th'[t].pc \notin Absent /\ th[t].pc \notin Absent
          /\ th'[c].pc \in Absent /\ th[c].pc \in Absent
      BY <1>1, <1>3, <1>6 DEF Absent, Ended
    <3> QED
      BY <1>6, <3>1, PagingAssumption DEF AbsentStay
  <2> QED
    BY <1>14, <2>1, MemoryKept
<1>17. Inv'
  BY <1>1, <1>2, <1>3, <1>12, <1>13, <1>15, <1>16 DEF Inv
<1>18. garbled => garbled'
  BY <1>1, <1>2, GarbledSame
<1>19. Running' => Steady
  BY <1>1, <1>2, <1>3, <1>12, <1>13, <1>15, <1>16, <1>18 DEF Steady
<1> QED
  BY <1>17, <1>19 DEF StepOK

\* thread_fork: the child has a copy of its parent's memory.
LEMMA ThreadForkStep ==
  ASSUME Types, Roles, FramesOK, SlotsOK, TlbOK, ContentsOK, NEW t \in Threads, thread_fork(t)
  PROVE  StepOK
<1>1. LET c == th[t].as
      IN  /\ Types' /\ On(t, "thread_fork") /\ c \in AddrSpaces /\ t \in AddrSpaces /\ c # t
          /\ UNCHANGED <<swapVars, tlbVars, ram, pt, as_pt, heap, zombies, created, garbled,
                         curthread>>
          /\ \E f \in Frames : kernelPage(FALSE, f) /\ t_stack' = [t_stack EXCEPT ![c] = f]
          /\ Others(t, c) /\ Placed(c, "user", NULL, 0) /\ Placed(t, "user", NULL, 0)
  <2> DEFINE c == th[t].as
             q == Nowhere("user")
  <2>1. /\ On(t, "thread_fork")
        /\ UNCHANGED <<swapVars, tlbVars, ram, pt, as_pt, heap, zombies, created, garbled,
                       curthread>>
        /\ th' = [th EXCEPT ![c] = q, ![t] = q]
    BY DEF thread_fork
  <2>2. Running /\ th[t].pc = "thread_fork"
    BY <2>1, OnFacts
  <2>3. c \in AddrSpaces /\ t \in AddrSpaces /\ c # t
    BY <2>2, WorkFacts DEF Idle, Faulting
  <2>4. PICK f \in Frames : kernelPage(FALSE, f) /\ t_stack' = [t_stack EXCEPT ![c] = f]
    BY DEF thread_fork
  <2>5. q \in Local /\ q.pc = "user" /\ q.as = NULL /\ q.i = 0 /\ q.frame = 0 /\ q.slot = 0
    BY NowhereFacts DEF PCs, Idle
  <2>6. Others(t, c) /\ th'[c] = q /\ th'[t] = q
    <3> HIDE DEF q
    <3>1. c \in Threads
      BY <2>3, PagingAssumption
    <3>2. t # c /\ q \in Local /\ th' = [th EXCEPT ![c] = q, ![t] = q]
      BY <2>1, <2>3, <2>5
    <3> HIDE DEF c
    <3> QED
      BY <3>1, <3>2, MoveTwo
  <2>7. Placed(c, "user", NULL, 0) /\ Placed(t, "user", NULL, 0)
    BY <2>5, <2>6 DEF Placed
  <2>8. CoremapTypeOK'
    BY <2>2, <2>4, KernelPageEffect DEF Types
  <2>9. Types'
    BY <2>1, <2>3, <2>4, <2>6, <2>8
       DEF Types, Others, swapVars, tlbVars, SwapTypeOK, TlbTypeOK
  <2> QED
    BY <2>1, <2>3, <2>4, <2>6, <2>7, <2>9
<1> SUFFICES ASSUME Running'
             PROVE  StepOK
  BY <1>1, RolesStopped DEF StepOK, Inv
<1>2. Roles'
  <2>0. PICK c \in AddrSpaces : c = th[t].as
    BY <1>1
  <2>1. /\ Running /\ th[t].pc = "thread_fork" /\ zombies = {} /\ c \in AddrSpaces /\ c # t
        /\ t \in AddrSpaces /\ UNCHANGED <<pt, as_pt, zombies>>
        /\ Others(t, c) /\ Placed(c, "user", NULL, 0) /\ Placed(t, "user", NULL, 0)
    BY <2>0, <1>1, OnFacts, NoZombies
  <2>2. PICK f \in Frames : t_stack' = [t_stack EXCEPT ![c] = f]
    BY <2>0, <1>1
  <2>3. /\ c \in Threads /\ t # kproc /\ c # kproc /\ kproc \in Threads
        /\ AddrSpaces \subseteq Threads
    BY <2>1, PagingAssumption
  <2>4. /\ th'[c].pc = "user" /\ th'[c].as = NULL /\ th'[t].pc = "user" /\ th'[t].as = NULL
        /\ \A u \in Threads : u # t /\ u # c => th'[u] = th[u]
    BY <2>1 DEF Placed, Others
  <2>5. Role(t) /\ Role(c) /\ OneWorker
    BY <2>1, <2>3 DEF Roles
  <2>6. th[c].pc = "embryo"
    BY <2>0, <2>1, <2>5 DEF Role
  <2>7. th[c].as = NULL /\ \A u \in Threads : th[u].as = c => u = t
    <3>1. th[c].as = NULL
      BY <2>5, <2>6 DEF Role, Idle
    <3> QED
      BY <2>0, <2>1, <2>5, <3>1, CoremapAssumption DEF OneWorker
  <2>8. Role(t)' /\ Role(c)'
    BY <2>1, <2>3, <2>4, IdleRole DEF Idle
  <2>9. ASSUME NEW u \in Threads, u # t, u # c
        PROVE  Role(u)'
    <3>1. th'[u] = th[u]
      BY <2>4, <2>9
    <3>2. ASSUME NEW b \in AddrSpaces
          PROVE  \/ th'[b].pc = th[b].pc /\ \A w \in Pages : pt'[b][w] = pt[b][w]
                 \/ u # b /\ th[u].as # b
                 \/ /\ u # b /\ th[b].pc \notin Ended \cup {"embryo"}
                    /\ th'[b].pc \notin {"none", "embryo", "leaving"}
      <4>1. CASE b = t
        BY <2>1, <2>4, <2>9, <4>1 DEF Ended
      <4>2. CASE b = c
        BY <2>7, <2>9, <4>2
      <4>3. CASE b # t /\ b # c
        BY <2>1, <2>3, <2>4, <4>3
      <4> QED
        BY <4>1, <4>2, <4>3
    <3> QED
      BY <2>1, <3>1, <3>2, OtherRole
  <2>10. OneWorker'
    <3>1. \A u \in Threads : u # t => th'[u].as = th[u].as
      BY <2>3, <2>4, <2>7
    <3> QED
      BY <2>4, <2>5, <3>1, OneWorkerKept
  <2>11. ZombieLast'
    BY <2>1 DEF ZombieLast
  <2>12. TablesThere'
    BY SMTT(30), <2>1, <2>3, <2>4, <2>6 DEF Roles, TablesThere
  <2>13. StacksThere'
    <3>1. t_stack'[c] = f /\ f # NULL /\ \A p \in AddrSpaces : p # c => t_stack'[p] = t_stack[p]
      BY <2>1, <2>2, FrameNotNull DEF Types
    <3> QED
      BY <2>1, <2>3, <2>4, <3>1 DEF Roles, StacksThere
  <2>14. NoPagesYet'
    BY <2>1, <2>3, <2>4 DEF Roles, NoPagesYet
  <2>15. Alone'
    BY <2>1, <2>3, <2>4, <2>6 DEF Roles, Alone
  <2> QED
    BY <2>8, <2>9, <2>10, <2>11, <2>12, <2>13, <2>14, <2>15 DEF Roles
<1>3. PICK c \in AddrSpaces : c = th[t].as
  BY <1>1
<1>4. /\ Running /\ curthread = t /\ th[t].pc = "thread_fork" /\ zombies = {}
      /\ UNCHANGED <<as_pt, heap, swapMap, used, swap_lock, disk, ram, garbled>>
      /\ UNCHANGED <<pt, tlb, zombies, curthread>> /\ t \in AddrSpaces /\ c # t
  BY <1>1, <1>3, OnFacts, NoZombies DEF swapVars, tlbVars
<1>5. t_stack[c] = NULL /\ th[c].pc = "embryo"
  <2>1. Role(t) /\ StacksThere
    BY <1>4 DEF Roles
  <2>2. th[c].pc = "embryo"
    BY <1>3, <1>4, <2>1 DEF Role
  <2> QED
    BY <1>4, <2>1, <2>2 DEF StacksThere
<1>6. /\ th'[c].pc = "user" /\ th'[t].pc = "user" /\ th'[c].as = NULL
      /\ \A u \in Threads : u # t /\ u # c => th'[u] = th[u]
  BY <1>1, <1>3 DEF Others, Placed
<1>7. FillersStay /\ VictimsStay /\ UsersStay /\ ClearersStay
  <2>1. th[t].pc \in Calm /\ th[c].pc \in Calm /\ th'[t].pc \in Calm /\ th'[c].pc \in Calm
    BY <1>4, <1>5, <1>6 DEF Calm, Idle
  <2> QED
    BY <1>6, <2>1, CalmThreads
<1>8. PagesStay /\ StoredStays
  BY <1>4, <1>7, StoredQuiet
<1>9. PICK f \in Frames, r \in BOOLEAN :
        r = FALSE /\ kernelPage(r, f) /\ t_stack' = [t_stack EXCEPT ![c] = f]
  BY <1>1, <1>3
<1>10. /\ coremap[f].flags = 0 /\ coremap'[f].allocpages = 1 /\ Tag(f, 2, NULL)'
       /\ \A j \in Frames : j # f => coremap'[j] = coremap[j]
  BY <1>4, <1>9, KernelPageEffect DEF Types
<1>11. FrameTags' /\ FrameOnce' /\ FrameKept'
  BY <1>4, <1>5, <1>7, <1>8, <1>9, <1>10, KernelTakes
<1>12. FramesOK' /\ SlotsOK' /\ Counts
  BY <1>1, <1>4, <1>7, <1>8, <1>11, KernelSteps
<1>13. TlbOK'
  <2>1. HasAs(t)
    BY <1>4 DEF HasAs, Ended
  <2> QED
    BY <1>4, <2>1, TlbSame
<1>14. CopiersStay
  BY <1>6 DEF CopiersStay, Faulting
<1>15. ContentsOK' /\ \A b \in AddrSpaces : HeldStays(b)
  BY <1>1, <1>4, <1>14, ContentsQuiet
<1>16. ~garbled' => MemoryStep
  <2> SUFFICES ASSUME ~garbled'
               PROVE  MemoryStep
    OBVIOUS
  <2>1. CopiedSoFar
    BY <1>4 DEF ContentsOK
  <2>2. \A v \in Pages : held(c, v) = held(t, v)
    BY <1>3, <1>4, <2>1 DEF CopiedSoFar
  <2>3. \A v \in Pages : held(c, v)' = held(t, v)
    BY <1>15, <2>2 DEF HeldStays
  <2>4. /\ th[t].pc \notin Absent /\ th'[t].pc \notin Absent
        /\ th[c].pc \in Absent /\ th'[c].pc \notin Absent
    BY <1>4, <1>5, <1>6 DEF Absent, Ended
  <2>5. Memory(c) = NULL
    BY <2>4 DEF Memory
  <2>6. Memory(t) = [v \in Pages |-> held(t, v)] /\ Memory(t) # NULL
    BY <1>4, <2>4, MemoryThere
  <2>7. Memory(c)' = [v \in Pages |-> held(c, v)']
    BY <2>4 DEF Memory
  <2>8. Memory(c)' = Memory(t)
    BY <2>3, <2>6, <2>7
  <2>9. \A q \in AddrSpaces : q # c => Memory(q)' = Memory(q)
    <3> SUFFICES ASSUME NEW q \in AddrSpaces, q # c
                 PROVE  Memory(q)' = Memory(q)
      OBVIOUS
    <3>1. th'[q].pc \in Absent <=> th[q].pc \in Absent
      BY <1>6, <2>4, PagingAssumption
    <3> QED
      BY <1>15, <3>1 DEF Memory, HeldStays
  <2> QED
    BY <1>4, <2>5, <2>6, <2>8, <2>9 DEF MemoryStep, MemoryBecomes
<1>17. Inv'
  BY <1>1, <1>2, <1>4, <1>12, <1>13, <1>15, <1>16 DEF Inv
<1>18. garbled => garbled'
  BY <1>1, <1>2, GarbledSame
<1>19. Running' => Steady
  BY <1>1, <1>2, <1>4, <1>12, <1>13, <1>15, <1>16, <1>18 DEF Steady
<1> QED
  BY <1>17, <1>19 DEF StepOK

-----------------------------------------------------------------------------
\* proc_wait and as_destroy.

\* Only the thread that waits for a process, or destroys its address space,
\* decides which of its pages are cleared.
LEMMA ClearMoves ==
  ASSUME NEW t \in Threads, NEW a \in AddrSpaces,
         \A u \in Threads : th[u].as = a => u = t,
         th[t].as = a, th'[t].as \in {a, NULL},
         \A u \in Threads : u # t => th'[u] = th[u] \/ (th[u].as = NULL /\ th'[u].as = NULL)
  PROVE  /\ \A v \in Pages : Cleared(a, v) <=>
              \/ th[t].pc = "clear_swap" /\ v < th[t].i
              \/ th[t].pc \in {"freepages", "freeAs"}
         /\ \A v \in Pages : Cleared(a, v)' <=>
              /\ th'[t].as = a
              /\ \/ th'[t].pc = "clear_swap" /\ v < th'[t].i
                 \/ th'[t].pc \in {"freepages", "freeAs"}
         /\ \A b \in AddrSpaces, v \in Pages : b # a => (Cleared(b, v)' <=> Cleared(b, v))
<1>0. NULL \notin AddrSpaces
  BY CoremapAssumption
<1>1. \A v \in Pages : Cleared(a, v) <=>
        \/ th[t].pc = "clear_swap" /\ v < th[t].i
        \/ th[t].pc \in {"freepages", "freeAs"}
  BY DEF Cleared
<1>2. \A u \in Threads : th'[u].as = a => u = t
  BY <1>0
<1>3. \A v \in Pages : Cleared(a, v)' <=>
        /\ th'[t].as = a
        /\ \/ th'[t].pc = "clear_swap" /\ v < th'[t].i
           \/ th'[t].pc \in {"freepages", "freeAs"}
  BY <1>2 DEF Cleared
<1>4. ASSUME NEW b \in AddrSpaces, NEW v \in Pages, b # a
      PROVE  Cleared(b, v)' <=> Cleared(b, v)
  <2>1. ASSUME NEW u \in Threads
        PROVE  /\ th'[u].as = b
               /\ (th'[u].pc = "clear_swap" /\ v < th'[u].i) \/ th'[u].pc \in {"freepages", "freeAs"}
               <=>
               /\ th[u].as = b
               /\ (th[u].pc = "clear_swap" /\ v < th[u].i) \/ th[u].pc \in {"freepages", "freeAs"}
    BY <1>0, <1>4
  <2> QED
    BY <2>1 DEF Cleared
<1> QED
  BY <1>1, <1>3, <1>4

\* The steps of as_destroy that give no slot back.
LEMMA ClearBegins ==
  ASSUME Types, Roles, Running, NEW t \in Threads, th[t].pc = "proc_wait",
         NEW a \in AddrSpaces, th[t].as = a, a # t, th[a].pc \in Ended,
         Others(t, t), ClearNext(t, a, 1), UNCHANGED pt
  PROVE  StoredStays
<1>1. \A u \in Threads : th[u].as = a => u = t
  <2>1. a \in Threads /\ a # NULL
    BY PagingAssumption, CoremapAssumption
  <2>2. Role(a) /\ OneWorker
    BY <2>1 DEF Roles
  <2>3. th[a].as = NULL
    BY <2>2 DEF Role, Ended, Idle
  <2> QED
    BY <2>1, <2>2, <2>3 DEF OneWorker
<1>2. \A u \in Threads : u # t => th'[u] = th[u]
  BY DEF Others
<1>3. /\ th'[t].as = a
      /\ \/ /\ th'[t].pc = "freepages" /\ \A v \in Pages : v >= 1 => ~pt[a][v].in_swap
         \/ /\ th'[t].pc = "clear_swap" /\ th'[t].i \in Pages
            /\ \A v \in Pages : v >= 1 /\ v < th'[t].i => ~pt[a][v].in_swap
  BY DEF ClearNext, Placed
<1>4. /\ \A v \in Pages : ~Cleared(a, v)
      /\ \A v \in Pages : Cleared(a, v)' <=>
           \/ th'[t].pc = "clear_swap" /\ v < th'[t].i
           \/ th'[t].pc \in {"freepages", "freeAs"}
      /\ \A b \in AddrSpaces, v \in Pages : b # a => (Cleared(b, v)' <=> Cleared(b, v))
  BY SMTT(30), <1>1, <1>2, <1>3, ClearMoves
<1>5. \A v \in Pages : v >= 1
  BY PageOrder
<1>6. \A v \in Pages : pt[a][v].in_swap => ~Cleared(a, v)'
  BY <1>3, <1>4, <1>5
<1>7. \A v \in Pages, r \in Slots : pt[a][v] = Swapped(r) => pt[a][v].in_swap
  BY KindFacts
<1>8. \A v \in Pages, r \in Slots : Stored(a, v, r)' <=> Stored(a, v, r)
  BY <1>4, <1>6, <1>7 DEF Stored
<1>9. \A b \in AddrSpaces, v \in Pages, r \in Slots : b # a => (Stored(b, v, r)' <=> Stored(b, v, r))
  BY <1>4 DEF Stored
<1> QED
  BY <1>8, <1>9 DEF StoredStays

\* proc_wait goes on with the slots of the dead process.
LEMMA ClearNextRoles ==
  ASSUME Types, Roles, Running, zombies = {}, NEW t \in Threads, NEW a \in AddrSpaces, NEW i \in Nat,
         th[t].pc \in {"proc_wait", "clear_swap"}, th[t].as = a, a # t, th[a].pc \in Ended,
         Others(t, t), ClearNext(t, a, i), UNCHANGED <<pt, as_pt, t_stack, zombies>>
  PROVE  Roles'
<1>1. kproc \in Threads /\ AddrSpaces \subseteq Threads /\ a \in Threads
  BY PagingAssumption
<1>2. \A u \in Threads : u # t => th'[u] = th[u]
  BY DEF Others
<1>3. /\ th'[t].as = a /\ th'[t].pc \in {"freepages", "clear_swap"}
      /\ th'[t].pc = "clear_swap" => th'[t].i \in Pages /\ pt[a][th'[t].i].in_swap
  BY DEF ClearNext, Placed
<1>4. Role(t)'
  BY <1>1, <1>2, <1>3, WaitRole DEF Destroying
<1>5. ASSUME NEW u \in Threads, u # t
      PROVE  Role(u)'
  <2>1. th'[u] = th[u]
    BY <1>2, <1>5
  <2>2. \A b \in AddrSpaces :
          \/ th'[b].pc = th[b].pc /\ \A w \in Pages : pt'[b][w] = pt[b][w]
          \/ /\ u # b /\ th[b].pc \notin Ended \cup {"embryo"}
             /\ th'[b].pc \notin {"none", "embryo", "leaving"}
    BY <1>1, <1>2, <1>3, <1>5 DEF Ended
  <2> QED
    BY <2>1, <2>2, OtherRole
<1>6. OneWorker'
  BY <1>1, <1>2, <1>3, OneWorkerKept DEF Roles
<1>7. ZombieLast' /\ TablesThere' /\ StacksThere' /\ NoPagesYet' /\ Alone'
  <2>1. th'[kproc].as = th[kproc].as
    BY <1>1, <1>2, <1>3
  <2>2. \A p \in AddrSpaces :
           /\ th'[p].pc \in {"none", "new", "leaving"} <=> th[p].pc \in {"none", "new", "leaving"}
           /\ th'[p].pc \in {"none", "embryo", "exited"} <=> th[p].pc \in {"none", "embryo", "exited"}
           /\ th[p].pc \in {"none", "leaving"} => th'[p].pc \in {"none", "leaving"}
    BY <1>1, <1>2, <1>3
  <2>3. \A u \in Threads : /\ th'[u].pc = "freeAs" <=> th[u].pc = "freeAs"
                           /\ th[u].pc = "freeAs" => th'[u].as = th[u].as
    BY <1>2, <1>3
  <2> QED
    BY <2>1, <2>2, <2>3, RestKept
<1> QED
  BY <1>4, <1>5, <1>6, <1>7 DEF Roles

\* The loop of as_destroy goes on with the first page that is in the swap file.
LEMMA ClearFromFacts ==
  ASSUME Types, PagesOrdered, NEW a \in AddrSpaces, NEW i \in Nat
  PROVE  LET r == clearFrom(a, i)
         IN  /\ r \in Local /\ r.as = a /\ r.frame = 0 /\ r.slot = 0
             /\ \/ /\ r.pc = "freepages" /\ r.i = 0
                   /\ \A v \in Pages : v >= i => ~pt[a][v].in_swap
                \/ /\ r.pc = "clear_swap" /\ r.i \in Pages /\ r.i >= i /\ pt[a][r.i].in_swap
                   /\ \A v \in Pages : v >= i /\ v < r.i => ~pt[a][v].in_swap
<1> DEFINE S == ToClear(a, i)
           m == CHOOSE v \in S : \A w \in S : v <= w
<1>1. \A v \in Pages : v \in S <=> v >= i /\ pt[a][v].in_swap
  BY DEF ToClear
<1>2. S \subseteq Pages
  BY DEF ToClear
<1>3. CASE S = {}
  <2>1. clearFrom(a, i) = At("freepages", a, 0)
    BY <1>3 DEF clearFrom
  <2>2. "freepages" \in PCs
    BY DEF PCs, Destroying
  <2> QED
    BY SMTT(30), <1>1, <1>3, <2>1, <2>2, AtFacts
<1>4. CASE S # {}
  <2>1. clearFrom(a, i) = At("clear_swap", a, m)
    BY <1>4 DEF clearFrom
  <2>2. "clear_swap" \in PCs
    BY DEF PCs, Destroying
  <2>3. m \in S /\ \A w \in S : m <= w
    <3>1. \E v \in S : \A w \in S : v <= w
      BY <1>2, <1>4 DEF PagesOrdered
    <3> QED
      BY <3>1
  <2> HIDE DEF S, m
  <2>4. m \in Pages /\ m >= i /\ pt[a][m].in_swap
    BY <1>1, <1>2, <2>3
  <2>5. \A v \in Pages : v >= i /\ v < m => ~pt[a][v].in_swap
    BY SMTT(30), <1>1, <2>3, <2>4, Zero
  <2>6. /\ At("clear_swap", a, m) \in Local
        /\ At("clear_swap", a, m).pc = "clear_swap" /\ At("clear_swap", a, m).as = a
        /\ At("clear_swap", a, m).i = m
        /\ At("clear_swap", a, m).frame = 0 /\ At("clear_swap", a, m).slot = 0
    BY SMTT(30), <2>2, <2>4, AtFacts
  <2> QED
    BY <2>1, <2>4, <2>5, <2>6
<1> QED
  BY <1>3, <1>4

\* The same, as a move of thread t.
LEMMA ClearNextFacts ==
  ASSUME Types, PagesOrdered, NEW t \in Threads, NEW a \in AddrSpaces, NEW i \in Nat,
         th'[t] = clearFrom(a, i)
  PROVE  ClearNext(t, a, i)
  BY SMTT(30), ClearFromFacts DEF ClearNext, Placed

\* proc_wait goes on to as_destroy.
LEMMA ProcWaitStep ==
  ASSUME Types, Roles, FramesOK, SlotsOK, TlbOK, ContentsOK, PagesOrdered, NEW t \in Threads,
         proc_wait(t)
  PROVE  StepOK
<1>1. /\ Types' /\ On(t, "proc_wait") /\ UNCHANGED <<memVars, procVars, curthread, status>>
      /\ th[t].as \in AddrSpaces /\ th[t].as # t /\ th[th[t].as].pc \in Ended
      /\ Others(t, t) /\ ClearNext(t, th[t].as, 1)
  <2> DEFINE a == th[t].as
  <2>1. /\ On(t, "proc_wait") /\ UNCHANGED <<memVars, procVars, curthread, status>>
        /\ th[a].pc \in Ended /\ th' = [th EXCEPT ![t] = clearFrom(a, 1)]
    BY DEF proc_wait
  <2>2. a \in AddrSpaces /\ a # t
    BY SMTT(30), <2>1, OnFacts, WorkFacts DEF Idle, Faulting
  <2>3. clearFrom(a, 1) \in Local
    BY <2>2, ClearFromFacts
  <2>4. Others(t, t) /\ th'[t] = clearFrom(a, 1)
    BY <2>1, <2>3 DEF Types, Others
  <2>5. ClearNext(t, a, 1)
    BY <2>2, <2>4, ClearNextFacts
  <2>6. Types'
    BY <2>1, <2>4 DEF Types, Others, memVars, procVars, coremapVars, swapVars, tlbVars,
                      CoremapTypeOK, SwapTypeOK, TlbTypeOK
  <2> QED
    BY <2>1, <2>2, <2>4, <2>5, <2>6
<1>2. /\ Running /\ Running' /\ curthread = t /\ th[t].pc = "proc_wait" /\ zombies = {}
      /\ UNCHANGED <<coremap, as_pt, t_stack, heap, swapMap, used, swap_lock, disk, ram, garbled>>
      /\ UNCHANGED <<pt, tlb, zombies, curthread>>
  BY <1>1, OnFacts, NoZombies DEF memVars, procVars, coremapVars, swapVars, tlbVars, Running
<1>3. PICK a \in AddrSpaces : a = th[t].as
  BY <1>1
<1>4. Roles'
  BY <1>1, <1>2, <1>3, ClearNextRoles
<1>5. /\ th'[t].pc \in {"freepages", "clear_swap"}
      /\ \A u \in Threads : u # t => th'[u] = th[u]
  BY <1>1 DEF Others, ClearNext, Placed
<1>6. FillersStay /\ VictimsStay /\ UsersStay
  BY <1>2, <1>5 DEF FillersStay, VictimsStay, UsersStay, Filling
<1>7. StoredStays
  BY <1>1, <1>2, <1>3, ClearBegins
<1>8. CopiersStay
  BY <1>5 DEF CopiersStay, Faulting
<1>9. AbsentStay
  <2>1. th[t].pc \notin Absent /\ th'[t].pc \notin Absent
    BY <1>2, <1>5 DEF Absent, Ended
  <2> QED
    BY <1>5, <2>1, PagingAssumption DEF AbsentStay
<1>10. FramesOK' /\ SlotsOK' /\ Counts /\ ContentsOK' /\ MemoryStep
  BY <1>1, <1>2, <1>6, <1>7, <1>8, <1>9, ThreadsMove
<1>11. TlbOK'
  <2>1. HasAs(t)' => HasAs(t)
    BY <1>2 DEF HasAs, Ended
  <2> QED
    BY <1>2, <2>1, TlbSame
<1> QED
  BY <1>1, <1>2, <1>4, <1>10, <1>11 DEF StepOK, Inv, Steady

\* The thread that destroys an address space is the only one that works on it.
LEMMA DestroyFacts ==
  ASSUME Types, Roles, Running, NEW t \in Threads, th[t].pc \in Destroying
  PROVE  /\ th[t].as \in AddrSpaces /\ th[t].as # t /\ th[t].as # kproc /\ th[t].as \in Threads
         /\ th[th[t].as].pc \in Ended /\ th[th[t].as].as = NULL
         /\ \A u \in Threads : th[u].as = th[t].as => u = t
         /\ \A u \in Threads : u # t => th[u].as # th[t].as
         /\ th[t].pc # "freeAs" => as_pt[th[t].as] # NULL
         /\ th[t].pc = "freeAs" => as_pt[th[t].as] = NULL
<1> DEFINE a == th[t].as
<1>1. a \in AddrSpaces /\ a # NULL /\ Role(t) /\ a # t
  BY WorkFacts DEF Idle, Faulting, Destroying
<1>2. a \in Threads /\ a # kproc
  BY <1>1, PagingAssumption
<1>3. th[a].pc \in Ended
  BY <1>1 DEF Role
<1>4. Role(a)
  BY <1>2 DEF Roles
<1>5. th[a].as = NULL
  BY <1>3, <1>4 DEF Role, Ended, Idle
<1>6. \A u \in Threads : th[u].as = a => u = t
  <2> TAKE u \in Threads
  <2> HAVE th[u].as = a
  <2>1. a # u
    BY <1>1, <1>5
  <2> QED
    BY <1>1, <2>1 DEF Roles, OneWorker
<1>7. as_pt[a] # NULL <=> \A u \in Threads : th[u].pc = "freeAs" => th[u].as # a
  BY <1>1, <1>3 DEF Roles, TablesThere, Ended
<1> QED
  BY <1>1, <1>2, <1>3, <1>5, <1>6, <1>7

\* as_destroy gives a slot back and goes on.
LEMMA SlotCleared ==
  ASSUME Types, Roles, SlotsOK, Running, NEW t \in Threads, th[t].pc = "clear_swap",
         NEW a \in AddrSpaces, th[t].as = a, NEW i \in Pages, th[t].i = i,
         NEW s \in Slots, pt[a][i] = Swapped(s), clear_swap(s),
         Others(t, t), ClearNext(t, a, i + 1), UNCHANGED pt
  PROVE  SlotsOK' /\ Counts
<1>1. \A u \in Threads : th[u].as = a => u = t
  BY DestroyFacts DEF Destroying
<1>2. \A u \in Threads : u # t => th'[u] = th[u]
  BY DEF Others
<1>3. i \in Nat /\ i + 1 \in Nat
  BY PageOrder
<1>4. swapMap' = swapMap \ {s} /\ used' = (used - 1) % USHORT /\ swap_lock = NoThread
      /\ swap_lock' = NoThread
  BY DEF clear_swap
<1>5. /\ th'[t].as = a
      /\ \/ /\ th'[t].pc = "freepages" /\ \A v \in Pages : v >= i + 1 => ~pt[a][v].in_swap
         \/ /\ th'[t].pc = "clear_swap" /\ th'[t].i \in Pages /\ th'[t].i >= i + 1
            /\ \A v \in Pages : v >= i + 1 /\ v < th'[t].i => ~pt[a][v].in_swap
  BY DEF ClearNext, Placed
<1>6. Writing = {} /\ \A u \in Threads : th[u].pc \notin {"read", "write"}
  BY <1>4, SlotFacts, SwapfileAssumption
<1>7. LockHeld'
  BY <1>2, <1>4, <1>5, <1>6, SwapfileAssumption DEF LockHeld
<1>8. Writing' = {}
  BY <1>2, <1>5, <1>6 DEF Writing
<1>9. /\ \A v \in Pages : Cleared(a, v) <=> v < i
      /\ \A v \in Pages : Cleared(a, v)' <=>
           \/ th'[t].pc = "clear_swap" /\ v < th'[t].i
           \/ th'[t].pc \in {"freepages", "freeAs"}
      /\ \A b \in AddrSpaces, v \in Pages : b # a => (Cleared(b, v)' <=> Cleared(b, v))
  BY SMTT(30), <1>1, <1>2, <1>5, ClearMoves
<1>10. \A v \in Pages : v >= i + 1 \/ v < i \/ v = i
  BY PageOrder
<1>11. \A v \in Pages, r \in Slots : pt[a][v] = Swapped(r) => pt[a][v].in_swap
  BY KindFacts
<1>12. \A v \in Pages, r \in Slots : Stored(a, v, r)' <=> Stored(a, v, r) /\ v # i
  <2> TAKE v \in Pages, r \in Slots
  <2>1. CASE v < i
    <3>1. Cleared(a, v)'
      <4>1. th'[t].pc = "clear_swap" => v < th'[t].i
        BY <1>5, <2>1, PageOrder
      <4> QED
        BY <1>5, <1>9, <4>1
    <3> QED
      BY <1>9, <2>1, <3>1 DEF Stored
  <2>2. CASE v = i
    <3>1. Cleared(a, v)'
      <4>1. th'[t].pc = "clear_swap" => v < th'[t].i
        <5>1. th'[t].pc = "clear_swap" => i < th'[t].i
          <6>1. ASSUME NEW j \in Pages, j >= i + 1
                PROVE  i < j
            BY <6>1, PageOrder
          <6> QED
            BY <1>5, <6>1
        <5> QED
          BY <2>2, <5>1
      <4> QED
        BY <1>5, <1>9, <4>1
    <3> QED
      BY <2>2, <3>1 DEF Stored
  <2>3. CASE v >= i + 1
    <3>1. ~Cleared(a, v) /\ v # i
      BY <1>9, <2>3, PageOrder
    <3>2. CASE pt[a][v].in_swap
      <4>1. th'[t].pc = "clear_swap" /\ ~(v < th'[t].i)
        BY <1>5, <2>3, <3>2
      <4>2. ~Cleared(a, v)'
        BY <1>9, <4>1
      <4> QED
        BY <3>1, <4>2 DEF Stored
    <3>3. CASE ~pt[a][v].in_swap
      BY <1>11, <3>3 DEF Stored
    <3> QED
      BY <3>2, <3>3
  <2> QED
    BY <1>10, <2>1, <2>2, <2>3
<1>13. \A b \in AddrSpaces, v \in Pages, r \in Slots :
         Stored(b, v, r)' <=> Stored(b, v, r) /\ ~(b = a /\ v = i)
  <2>1. \A b \in AddrSpaces, v \in Pages, r \in Slots : b # a => (Stored(b, v, r)' <=> Stored(b, v, r))
    BY <1>9 DEF Stored
  <2> QED
    BY <1>12, <2>1
<1>14. Stored(a, i, s)
  BY <1>9, PageOrder DEF Stored
<1> QED
  BY <1>4, <1>6, <1>7, <1>8, <1>13, <1>14, SlotLost

\* as_destroy clears a slot.
LEMMA DestroySlotStep ==
  ASSUME Types, Roles, FramesOK, SlotsOK, TlbOK, ContentsOK, PagesOrdered, NEW t \in Threads,
         as_destroy_slot(t)
  PROVE  StepOK
<1>1. /\ Types' /\ On(t, "clear_swap")
      /\ UNCHANGED <<coremapVars, tlbVars, ram, procVars, curthread, status>>
      /\ th[t].i \in Pages
      /\ \E s \in Slots : pt[th[t].as][th[t].i] = Swapped(s) /\ clear_swap(s)
      /\ Others(t, t) /\ ClearNext(t, th[t].as, th[t].i + 1)
  <2> DEFINE a == th[t].as
             i == th[t].i
  <2>1. /\ On(t, "clear_swap")
        /\ UNCHANGED <<coremapVars, tlbVars, ram, procVars, curthread, status>>
        /\ clear_swap(pt[a][i].paddr) /\ th' = [th EXCEPT ![t] = clearFrom(a, i + 1)]
    BY DEF as_destroy_slot
  <2>2. Running /\ th[t].pc = "clear_swap" /\ Role(t)
    BY <2>1, OnFacts
  <2>3. a \in AddrSpaces /\ i \in Pages /\ pt[a][i].in_swap
    BY <2>2, WorkFacts DEF Role, Idle
  <2>4. pt[a][i] \in Entry
    BY <2>3 DEF Types
  <2>5. PICK s \in Slots : pt[a][i] = Swapped(s)
    BY <2>3, <2>4, EntryFacts
  <2>6. clear_swap(s)
    BY <2>1, <2>5, KindFacts
  <2>7. SwapTypeOK'
    <3>1. "elf" \in Contents
      BY PagingAssumption
    <3> QED
      BY <2>6, <3>1, SwapTypes DEF Types
  <2>8. i + 1 \in Nat
    <3>1. i \in Nat
      BY <2>3, Zero
    <3> HIDE DEF i
    <3> QED
      BY SMTT(30), <3>1
  <2>9. clearFrom(a, i + 1) \in Local
    BY <2>3, <2>8, ClearFromFacts
  <2>10. Others(t, t) /\ th'[t] = clearFrom(a, i + 1)
    BY <2>1, <2>9 DEF Types, Others
  <2>11. ClearNext(t, a, i + 1)
    BY <2>3, <2>8, <2>10, ClearNextFacts
  <2>12. Types'
    BY <2>1, <2>7, <2>10 DEF Types, Others, procVars, coremapVars, tlbVars,
                             CoremapTypeOK, TlbTypeOK
  <2> QED
    BY <2>1, <2>3, <2>5, <2>6, <2>10, <2>11, <2>12
<1>2. /\ Running /\ Running' /\ curthread = t /\ th[t].pc = "clear_swap" /\ zombies = {}
      /\ UNCHANGED <<coremap, as_pt, t_stack, heap, ram, garbled>>
      /\ UNCHANGED <<pt, tlb, zombies, curthread>> /\ th[t].pc \in Destroying
  BY <1>1, OnFacts, NoZombies DEF procVars, coremapVars, tlbVars, Running, Destroying
<1>3. PICK a \in AddrSpaces, i \in Pages : a = th[t].as /\ i = th[t].i
  BY <1>1, <1>2, DestroyFacts
<1>4. PICK s \in Slots : pt[a][i] = Swapped(s) /\ clear_swap(s)
  BY <1>1, <1>3
<1>5. a # t /\ th[a].pc \in Ended
  BY <1>2, <1>3, DestroyFacts
<1>6. Others(t, t) /\ ClearNext(t, a, i + 1) /\ i + 1 \in Nat
  BY <1>1, <1>3, PageOrder
<1>7. Roles'
  BY <1>2, <1>3, <1>5, <1>6, ClearNextRoles
<1>8. /\ th'[t].pc \in {"freepages", "clear_swap"}
      /\ \A u \in Threads : u # t => th'[u] = th[u]
  BY <1>6 DEF Others, ClearNext, Placed
<1>9. FramesOK'
  <2>1. FillersStay /\ VictimsStay /\ PagesStay
    BY <1>2, <1>8 DEF FillersStay, VictimsStay, PagesStay, Filling
  <2> QED
    BY <1>2, <2>1, FramesSame, VictimKept DEF FramesOK
<1>10. SlotsOK' /\ Counts
  BY <1>2, <1>3, <1>4, <1>6, SlotCleared
<1>11. CopiersStay
  BY <1>8 DEF CopiersStay, Faulting
<1>12. AbsentStay
  <2>1. th[t].pc \notin Absent /\ th'[t].pc \notin Absent
    BY <1>2, <1>8 DEF Absent, Ended
  <2> QED
    BY <1>8, <2>1, PagingAssumption DEF AbsentStay
<1>13. ContentsOK' /\ MemoryStep
  <2>1. UNCHANGED disk
    BY <1>4 DEF clear_swap
  <2> QED
    BY <1>1, <1>2, <1>11, <1>12, <2>1, ContentsQuiet
<1>14. TlbOK'
  <2>1. HasAs(t)' => HasAs(t)
    BY <1>2 DEF HasAs, Ended
  <2> QED
    BY <1>2, <2>1, TlbSame
<1> QED
  BY <1>1, <1>2, <1>7, <1>9, <1>10, <1>13, <1>14 DEF StepOK, Inv, Steady

\* The end of as_destroy: its pages, all past, are in no slot before and after,
\* and the pages of others are where they were.
LEMMA ClearEnds ==
  ASSUME Types, Roles, Running, NEW t \in Threads, th[t].pc \in {"freepages", "freeAs"},
         NEW a \in AddrSpaces, th[t].as = a,
         \A u \in Threads : u # t => th'[u] = th[u] \/ (th[u].as = NULL /\ th'[u].as = NULL),
         \/ th'[t].pc = "freeAs" /\ th'[t].as = a
         \/ th'[t].as = NULL /\ \A v \in Pages : pt'[a][v] = NoPage,
         \A b \in AddrSpaces, v \in Pages : b # a => pt'[b][v] = pt[b][v]
  PROVE  StoredStays
<1>1. \A u \in Threads : th[u].as = a => u = t
  BY DestroyFacts DEF Destroying
<1>2. /\ \A v \in Pages : Cleared(a, v)
      /\ th'[t].pc = "freeAs" /\ th'[t].as = a => \A v \in Pages : Cleared(a, v)'
      /\ \A b \in AddrSpaces, v \in Pages : b # a => (Cleared(b, v)' <=> Cleared(b, v))
  BY SMTT(30), <1>1, ClearMoves
<1>3. \A v \in Pages, r \in Slots : ~Stored(a, v, r) /\ ~Stored(a, v, r)'
  BY <1>2, KindFacts DEF Stored
<1>4. \A b \in AddrSpaces, v \in Pages, r \in Slots : b # a => (Stored(b, v, r)' <=> Stored(b, v, r))
  BY <1>2 DEF Stored
<1> QED
  BY SMTT(30), <1>3, <1>4 DEF StoredStays

\* as_destroy frees the page table.
LEMMA DestroyPtStep ==
  ASSUME Types, Roles, FramesOK, SlotsOK, TlbOK, ContentsOK, NEW t \in Threads,
         as_destroy_pt(t)
  PROVE  StepOK
<1>1. /\ Types' /\ On(t, "freepages")
      /\ UNCHANGED <<swapVars, tlbVars, ram, pt, t_stack, heap, zombies, created, garbled,
                     curthread, status>>
      /\ as_pt[th[t].as] \in Frames /\ as_pt[th[t].as] # NULL
      /\ freepages(as_pt[th[t].as])
      /\ as_pt' = [as_pt EXCEPT ![th[t].as] = NULL]
      /\ Changes(t, "freeAs", th[t].as, th[t].i, th[t].frame, th[t].slot)
  <2> DEFINE a == th[t].as
  <2>1. /\ On(t, "freepages")
        /\ UNCHANGED <<swapVars, tlbVars, ram, pt, t_stack, heap, zombies, created, garbled,
                       curthread, status>>
        /\ freepages(as_pt[a]) /\ as_pt' = [as_pt EXCEPT ![a] = NULL]
        /\ th' = [th EXCEPT ![t].pc = "freeAs"]
    BY DEF as_destroy_pt
  <2>2. Running /\ th[t].pc = "freepages"
    BY <2>1, OnFacts
  <2>3. a \in AddrSpaces /\ as_pt[a] # NULL
    BY <2>2, DestroyFacts DEF Destroying
  <2>4. as_pt[a] \in Frames
    BY <2>3 DEF Types
  <2>5. Changes(t, "freeAs", a, th[t].i, th[t].frame, th[t].slot)
    BY <2>1, MovePc DEF PCs, Destroying
  <2>6. CoremapTypeOK'
    BY <2>1, FreepagesTypes DEF Types
  <2>7. Types'
    BY <2>1, <2>3, <2>5, <2>6 DEF Types, Changes, swapVars, tlbVars, SwapTypeOK, TlbTypeOK
  <2> QED
    BY <2>1, <2>3, <2>4, <2>5, <2>7
<1>2. Roles'
  <2>0. PICK a \in AddrSpaces : a = th[t].as
    BY <1>1, OnFacts, DestroyFacts DEF Destroying
  <2>1. /\ Running /\ th[t].pc = "freepages" /\ zombies = {}
        /\ UNCHANGED <<pt, t_stack, zombies>> /\ as_pt' = [as_pt EXCEPT ![a] = NULL]
        /\ Changes(t, "freeAs", a, th[t].i, th[t].frame, th[t].slot)
    BY <2>0, <1>1, OnFacts, NoZombies
  <2>2. /\ a # t /\ th[a].pc \in Ended /\ \A u \in Threads : th[u].as = a => u = t
    BY <2>0, <2>1, DestroyFacts DEF Destroying
  <2>3. kproc \in Threads /\ AddrSpaces \subseteq Threads /\ a \in Threads
    BY PagingAssumption
  <2>4. /\ th'[t].pc = "freeAs" /\ th'[t].as = a
        /\ \A u \in Threads : u # t => th'[u] = th[u]
    BY <2>1 DEF Changes
  <2>5. Role(t)'
    BY <2>2, <2>3, <2>4, WaitRole DEF Destroying
  <2>6. ASSUME NEW u \in Threads, u # t
        PROVE  Role(u)'
    <3>1. th'[u] = th[u]
      BY <2>4, <2>6
    <3>2. \A b \in AddrSpaces :
            \/ th'[b].pc = th[b].pc /\ \A w \in Pages : pt'[b][w] = pt[b][w]
            \/ /\ u # b /\ th[b].pc \notin Ended \cup {"embryo"}
               /\ th'[b].pc \notin {"none", "embryo", "leaving"}
      BY <2>1, <2>3, <2>4, <2>6 DEF Ended
    <3> QED
      BY <2>1, <3>1, <3>2, OtherRole
  <2>7. OneWorker'
    BY <2>0, <2>1, <2>4, OneWorkerKept DEF Roles
  <2>8. ZombieLast'
    BY <2>1 DEF ZombieLast
  <2>9. TablesThere'
    <3>1. as_pt'[a] = NULL /\ \A p \in AddrSpaces : p # a => as_pt'[p] = as_pt[p]
      BY <2>1 DEF Types
    <3>2. TablesThere
      BY <2>1 DEF Roles
    <3>3. ASSUME NEW p \in AddrSpaces, p # a
          PROVE  as_pt'[p] # NULL <=> /\ th'[p].pc \notin {"none", "new", "leaving"}
                                      /\ \A u \in Threads : th'[u].pc = "freeAs" => th'[u].as # p
      <4>1. th'[p].pc \in {"none", "new", "leaving"} <=> th[p].pc \in {"none", "new", "leaving"}
        BY <2>1, <2>3, <2>4
      <4>2. \A u \in Threads : th'[u].pc = "freeAs" /\ th'[u].as = p <=>
                                 th[u].pc = "freeAs" /\ th[u].as = p
        BY <2>1, <2>4, <3>3
      <4> QED
        BY <3>1, <3>2, <3>3, <4>1, <4>2 DEF TablesThere
    <3> QED
      BY <2>4, <3>1, <3>3 DEF TablesThere
  <2>10. StacksThere'
    BY <2>1, <2>3, <2>4 DEF Roles, StacksThere
  <2>11. NoPagesYet'
    BY <2>1, <2>3, <2>4 DEF Roles, NoPagesYet
  <2>12. Alone'
    BY <2>0, <2>1, <2>3, <2>4 DEF Roles, Alone
  <2> QED
    BY <2>5, <2>6, <2>7, <2>8, <2>9, <2>10, <2>11, <2>12 DEF Roles
<1>3. /\ Running /\ Running' /\ curthread = t /\ th[t].pc = "freepages"
      /\ UNCHANGED <<t_stack, heap, swapMap, used, swap_lock, disk, ram, garbled>>
      /\ UNCHANGED <<pt, tlb, curthread>> /\ th[t].pc \in Destroying
  BY <1>1, OnFacts DEF swapVars, tlbVars, Running, Destroying
<1>4. PICK a \in AddrSpaces : a = th[t].as
  BY <1>3, DestroyFacts
<1>5. PICK f \in Frames : /\ as_pt[a] = f /\ freepages(f)
                          /\ as_pt' = [as_pt EXCEPT ![a] = NULL]
  BY <1>1, <1>4
<1>6. /\ th'[t].pc = "freeAs" /\ th'[t].as = a
      /\ \A u \in Threads : u # t => th'[u] = th[u]
  BY <1>1, <1>4 DEF Changes
<1>7. FillersStay /\ VictimsStay /\ UsersStay /\ PagesStay
  BY <1>3, <1>6 DEF FillersStay, VictimsStay, UsersStay, PagesStay, Filling
<1>8. StoredStays
  BY <1>3, <1>4, <1>6, ClearEnds
<1>9. FrameTags' /\ FrameOnce' /\ FrameKept'
  BY <1>3, <1>5, <1>7, KernelFrees
<1>10. FramesOK' /\ SlotsOK' /\ Counts
  BY <1>1, <1>3, <1>7, <1>8, <1>9, KernelSteps
<1>11. CopiersStay
  BY <1>6 DEF CopiersStay, Faulting
<1>12. AbsentStay
  <2>1. th[t].pc \notin Absent /\ th'[t].pc \notin Absent
    BY <1>3, <1>6 DEF Absent, Ended
  <2> QED
    BY <1>6, <2>1, PagingAssumption DEF AbsentStay
<1>13. ContentsOK' /\ MemoryStep
  BY <1>1, <1>3, <1>11, <1>12, ContentsQuiet
<1>14. TlbOK'
  <2>1. HasAs(t)' => HasAs(t)
    BY <1>3 DEF HasAs, Ended
  <2> QED
    BY <1>3, <2>1, TlbSame
<1>15. Inv'
  BY <1>1, <1>2, <1>3, <1>10, <1>13, <1>14 DEF Inv
<1>16. garbled => garbled'
  BY <1>1, <1>2, GarbledSame
<1>17. Running' => Steady
  BY <1>1, <1>2, <1>3, <1>10, <1>13, <1>14, <1>16 DEF Steady
<1> QED
  BY <1>15, <1>17 DEF StepOK

\* The frames of an address space are freed, and no other.
LEMMA FreeAsEffect ==
  ASSUME CoremapTypeOK, NEW as \in AddrSpaces, freeAs(as)
  PROVE  /\ CoremapTypeOK'
         /\ \A j \in Frames : coremap[j].as = as => coremap'[j].flags = 0
         /\ \A j \in Frames : coremap[j].as # as => coremap'[j] = coremap[j]
<1>1. \A j \in Frames : /\ set_empty(coremap[j]) \in c_entry
                        /\ set_empty(coremap[j]).flags = 0
  BY DEF CoremapTypeOK, set_empty, c_entry
<1> QED
  BY <1>1 DEF CoremapTypeOK, freeAs

\* freeAs frees the frames of a dead process, and no others.
LEMMA FreeAsFrames ==
  ASSUME Types, Roles, FramesOK, Running, NEW a \in AddrSpaces, freeAs(a), Clears(a),
         \A t \in Threads : Filling(t) => th[t].as # a,
         \A t \in Threads : th[t].pc \in {"evict", "write"} => th[t].as # a,
         FillersStay, VictimsStay, UNCHANGED <<as_pt, t_stack, heap>>
  PROVE  FramesOK'
<1>1. /\ FrameTags /\ FrameOnce /\ FrameKept /\ VictimThere
      /\ \A b \in AddrSpaces : as_pt[b] # NULL => as_pt[b] \in Frames
      /\ \A b \in AddrSpaces : t_stack[b] # NULL => t_stack[b] \in Frames
      /\ \A t \in Threads : Filling(t) => th[t].frame \in Frames /\ th[t].as \in AddrSpaces
      /\ \A t \in Threads : th[t].pc \in {"evict", "write"} =>
              th[t].frame \in Frames /\ th[t].as \in AddrSpaces
  BY FrameFacts
<1>2. /\ \A j \in Frames : coremap[j].as = a => coremap'[j].flags = 0
      /\ \A j \in Frames : coremap[j].as # a => coremap'[j] = coremap[j]
  BY FreeAsEffect DEF Types
<1>3. NULL # a /\ heap \subseteq Frames
  BY CoremapAssumption DEF Types
<1>4. /\ \A w \in Pages : pt'[a][w] = NoPage
      /\ \A b \in AddrSpaces, w \in Pages : b # a => pt'[b][w] = pt[b][w]
  BY DEF Clears
<1>5. \A b \in AddrSpaces, w \in Pages, g \in Frames :
        pt'[b][w] = Resident(g) => b # a /\ pt[b][w] = Resident(g)
  <2>1. \A g \in Frames : NoPage # Resident(g)
    BY KindFacts
  <2> QED
    BY <1>4, <2>1
<1>6. FrameTags'
  <2> DEFINE Kept(g, n, b) == /\ coremap'[g].flags = n /\ coremap'[g].as = b
                              /\ coremap'[g].allocpages = coremap[g].allocpages
  <2>0. ASSUME NEW g \in Frames, NEW n, NEW b, b # a, Tag(g, n, b)
        PROVE  Kept(g, n, b)
    BY <1>2, <2>0 DEF Tag
  <2>1. ASSUME NEW b \in AddrSpaces, as_pt'[b] # NULL
        PROVE  /\ coremap'[as_pt'[b]].flags = 3 /\ coremap'[as_pt'[b]].as = NULL
               /\ coremap'[as_pt'[b]].allocpages = 1
    <3>1. PICK g \in Frames : g = as_pt[b] /\ as_pt'[b] = g
      BY <1>1, <2>1
    <3>2. Tag(g, 3, NULL) /\ coremap[g].allocpages = 1
      BY <1>1, <2>1, <3>1 DEF FrameTags
    <3>3. Kept(g, 3, NULL)
      BY <1>3, <2>0, <3>2
    <3> QED
      BY <3>1, <3>2, <3>3
  <2>2. ASSUME NEW b \in AddrSpaces, t_stack'[b] # NULL
        PROVE  /\ coremap'[t_stack'[b]].flags = 2 /\ coremap'[t_stack'[b]].as = NULL
               /\ coremap'[t_stack'[b]].allocpages = 1 /\ t_stack'[b] \notin heap'
    <3>1. PICK g \in Frames : g = t_stack[b] /\ t_stack'[b] = g
      BY <1>1, <2>2
    <3>2. Tag(g, 2, NULL) /\ coremap[g].allocpages = 1 /\ g \notin heap
      BY <1>1, <2>2, <3>1 DEF FrameTags
    <3>3. Kept(g, 2, NULL)
      BY <1>3, <2>0, <3>2
    <3> QED
      BY <3>1, <3>2, <3>3
  <2>3. ASSUME NEW g \in heap'
        PROVE  /\ coremap'[g].flags = 2 /\ coremap'[g].as = NULL /\ coremap'[g].allocpages = 1
    <3>1. g \in Frames /\ Tag(g, 2, NULL) /\ coremap[g].allocpages = 1
      BY <1>1, <1>3 DEF FrameTags
    <3>2. Kept(g, 2, NULL)
      BY <1>3, <2>0, <3>1
    <3> QED
      BY <3>1, <3>2
  <2>4. ASSUME NEW b \in AddrSpaces, NEW v \in Pages, NEW g \in Frames, pt'[b][v] = Resident(g)
        PROVE  coremap'[g].flags = 2 /\ coremap'[g].as = b
    <3>1. b # a /\ Tag(g, 2, b)
      BY <1>1, <1>5, <2>4 DEF FrameTags
    <3> QED
      BY <2>0, <3>1
  <2>5. ASSUME NEW t \in Threads, Filling(t)'
        PROVE  coremap'[th'[t].frame].flags = 2 /\ coremap'[th'[t].frame].as = th'[t].as
    <3>1. Filling(t) /\ th'[t].frame = th[t].frame /\ th'[t].as = th[t].as
      BY <2>5 DEF FillersStay
    <3>2. PICK g \in Frames, b \in AddrSpaces : g = th[t].frame /\ b = th[t].as /\ b # a
      BY <1>1, <3>1
    <3>3. Tag(g, 2, b)
      BY <1>1, <3>1, <3>2 DEF FrameTags
    <3>4. Kept(g, 2, b)
      BY <2>0, <3>2, <3>3
    <3> QED
      BY <3>1, <3>2, <3>4
  <2> QED
    BY <2>1, <2>2, <2>3, <2>4, <2>5 DEF FrameTags, Tag
<1>7. FrameOnce'
  <2>1. ASSUME NEW b \in AddrSpaces, NEW v \in Pages, NEW w \in Pages, NEW g \in Frames,
               pt'[b][v] = Resident(g), pt'[b][w] = Resident(g)
        PROVE  v = w
    <3>1. pt[b][v] = Resident(g) /\ pt[b][w] = Resident(g)
      BY <1>5, <2>1
    <3>2. \A x, y \in Pages : pt[b][x] = Resident(g) /\ pt[b][y] = Resident(g) => x = y
      BY <1>1 DEF FrameOnce
    <3> QED
      BY <3>1, <3>2
  <2>2. ASSUME NEW t \in Threads, NEW v \in Pages, Filling(t)'
        PROVE  pt'[th'[t].as][v] # Resident(th'[t].frame)
    <3>1. Filling(t) /\ th'[t].frame = th[t].frame /\ th'[t].as = th[t].as
      BY <2>2 DEF FillersStay
    <3>2. PICK g \in Frames, b \in AddrSpaces : g = th[t].frame /\ b = th[t].as
      BY <1>1, <3>1
    <3>3. pt[b][v] # Resident(g)
      BY <1>1, <3>1, <3>2 DEF FrameOnce
    <3> QED
      BY <1>5, <3>1, <3>2, <3>3
  <2>3. /\ \A b, d \in AddrSpaces : as_pt'[b] = as_pt'[d] /\ as_pt'[b] # NULL => b = d
        /\ \A b, d \in AddrSpaces : t_stack'[b] = t_stack'[d] /\ t_stack'[b] # NULL => b = d
    BY <1>1 DEF FrameOnce
  <2> QED
    BY <2>1, <2>2, <2>3 DEF FrameOnce
<1>8. FrameKept'
  <2> SUFFICES ASSUME NEW g \in Frames, coremap'[g].flags # 0
               PROVE  Held(g)'
    BY DEF FrameKept
  <2>1. coremap[g].as # a
    BY <1>2
  <2>2. Held(g)
    BY <1>1, <1>2, <2>1 DEF FrameKept
  <2>3. \A b \in AddrSpaces, v \in Pages : pt[b][v] = Resident(g) => pt'[b][v] = Resident(g)
    <3>1. \A b \in AddrSpaces, v \in Pages : pt[b][v] = Resident(g) => Tag(g, 2, b)
      BY <1>1 DEF FrameTags
    <3>2. \A b \in AddrSpaces, v \in Pages : pt[b][v] = Resident(g) => b # a
      BY <2>1, <3>1 DEF Tag
    <3> QED
      BY <1>4, <3>2
  <2> QED
    BY <2>2, <2>3 DEF Held, FillersStay
<1>9. VictimThere'
  <2> SUFFICES ASSUME NEW u \in Threads, th'[u].pc \in {"evict", "write"}
               PROVE  \E v \in Pages : /\ pt'[th'[u].as][v] = Resident(th'[u].frame)
                                       /\ th'[u].pc = "write" => v \notin Text
    BY DEF VictimThere
  <2>1. th'[u].pc = th[u].pc /\ th'[u].as = th[u].as /\ th'[u].frame = th[u].frame
    BY DEF VictimsStay
  <2>2. th[u].as # a /\ th[u].as \in AddrSpaces
    BY <1>1, <2>1
  <2>3. PICK v \in Pages : /\ pt[th[u].as][v] = Resident(th[u].frame)
                           /\ th[u].pc = "write" => v \notin Text
    BY <1>1, <2>1 DEF VictimThere
  <2>4. pt'[th[u].as][v] = pt[th[u].as][v]
    BY <1>4, <2>2
  <2> QED
    BY <2>1, <2>3, <2>4
<1> QED
  BY <1>6, <1>7, <1>8, <1>9 DEF FramesOK

\* as_destroy frees the frames.
LEMMA DestroyFramesStep ==
  ASSUME Types, Roles, FramesOK, SlotsOK, TlbOK, ContentsOK, NEW t \in Threads,
         as_destroy_frames(t)
  PROVE  StepOK
<1>1. LET a == th[t].as
      IN  /\ Types' /\ On(t, "freeAs")
          /\ UNCHANGED <<swapVars, tlbVars, ram, as_pt, t_stack, heap, zombies, created,
                         garbled, curthread, status>>
          /\ freeAs(a) /\ Clears(a) /\ Others(t, a)
          /\ th'[a].pc = (IF th[a].pc = "exited" THEN "none" ELSE "leaving")
          /\ th'[a].as = NULL
          /\ Placed(t, IF t = kproc THEN "menu" ELSE "user", NULL, 0)
  <2> DEFINE a == th[t].as
             pa == IF th[a].pc = "exited" THEN "none" ELSE "leaving"
             q == [th[a] EXCEPT !.pc = pa]
             pc == IF t = kproc THEN "menu" ELSE "user"
             r == Nowhere(pc)
  <2>1. /\ On(t, "freeAs")
        /\ UNCHANGED <<swapVars, tlbVars, ram, as_pt, t_stack, heap, zombies, created,
                       garbled, curthread, status>>
        /\ freeAs(a) /\ pt' = [pt EXCEPT ![a] = [v \in Pages |-> NoPage]]
        /\ th' = [th EXCEPT ![a] = q, ![t] = r]
    BY DEF as_destroy_frames
  <2>2. Running /\ th[t].pc = "freeAs"
    BY <2>1, OnFacts
  <2>3. a \in AddrSpaces /\ a # t /\ a \in Threads /\ th[a].as = NULL
    BY <2>2, DestroyFacts DEF Destroying
  <2>4. pa \in PCs /\ pc \in PCs
    BY DEF PCs, Idle
  <2> HIDE DEF pa, pc
  <2>5. q \in Local /\ q.pc = pa /\ q.as = NULL
    BY <2>3, <2>4, LocalFacts DEF Local
  <2>6. r \in Local /\ r.pc = pc /\ r.as = NULL /\ r.i = 0 /\ r.frame = 0 /\ r.slot = 0
    BY <2>4, NowhereFacts
  <2> HIDE DEF q, r
  <2>7. Others(t, a) /\ th'[a] = q /\ th'[t] = r
    <3>1. a # t /\ a \in Threads /\ q \in Local /\ r \in Local
          /\ th' = [th EXCEPT ![a] = q, ![t] = r]
      BY <2>1, <2>3, <2>5, <2>6
    <3> HIDE DEF a
    <3> QED
      BY <3>1, MoveTwo
  <2>8. Placed(t, pc, NULL, 0)
    BY <2>6, <2>7 DEF Placed
  <2>9. Clears(a)
    BY <2>1, <2>3, ClearFacts
  <2>10. CoremapTypeOK'
    BY <2>1, <2>3, FreeAsEffect DEF Types
  <2>11. Types'
    BY <2>1, <2>7, <2>9, <2>10
       DEF Types, Others, Clears, swapVars, tlbVars, SwapTypeOK, TlbTypeOK
  <2> QED
    BY <2>1, <2>5, <2>7, <2>8, <2>9, <2>11 DEF pa, pc
<1>2. Roles'
  <2>0. PICK a \in AddrSpaces : a = th[t].as
    BY <1>1, OnFacts, DestroyFacts DEF Destroying
  <2>1. /\ Running /\ th[t].pc = "freeAs" /\ zombies = {}
        /\ UNCHANGED <<as_pt, t_stack, zombies>> /\ Clears(a) /\ Others(t, a)
        /\ th'[a].pc = (IF th[a].pc = "exited" THEN "none" ELSE "leaving")
        /\ th'[a].as = NULL
        /\ Placed(t, IF t = kproc THEN "menu" ELSE "user", NULL, 0)
    BY <2>0, <1>1, OnFacts, NoZombies
  <2>2. /\ a # t /\ a # kproc /\ a \in Threads /\ th[a].pc \in Ended /\ th[a].as = NULL
        /\ as_pt[a] = NULL
        /\ \A u \in Threads : u # t => th[u].as # a
    BY <2>0, <2>1, DestroyFacts DEF Destroying
  <2>3. kproc \in Threads /\ AddrSpaces \subseteq Threads /\ kproc \notin AddrSpaces
    BY PagingAssumption
  <2>4. /\ th'[t].pc = (IF t = kproc THEN "menu" ELSE "user") /\ th'[t].as = NULL
        /\ \A u \in Threads : u # t /\ u # a => th'[u] = th[u]
    BY <2>1 DEF Placed, Others
  <2>5. \/ th[a].pc = "exited" /\ th'[a].pc = "none"
        \/ th[a].pc = "exiting" /\ th'[a].pc = "leaving"
    BY <2>1, <2>2 DEF Ended
  <2>6. /\ \A w \in Pages : pt'[a][w] = NoPage
        /\ \A b \in AddrSpaces, w \in Pages : b # a => pt'[b][w] = pt[b][w]
    BY <2>1 DEF Clears
  <2>7. Role(t)'
    BY <2>4, IdleRole DEF Idle
  <2>8. Role(a)'
    BY <2>1, <2>2, <2>5, IdleRole DEF Idle
  <2>9. ASSUME NEW u \in Threads, u # t, u # a
        PROVE  Role(u)'
    <3>1. th'[u] = th[u]
      BY <2>4, <2>9
    <3>2. ASSUME NEW b \in AddrSpaces
          PROVE  \/ th'[b].pc = th[b].pc /\ \A w \in Pages : pt'[b][w] = pt[b][w]
                 \/ u # b /\ th[u].as # b
                 \/ /\ u # b /\ th[b].pc \notin Ended \cup {"embryo"}
                    /\ th'[b].pc \notin {"none", "embryo", "leaving"}
      <4>1. CASE b = t
        BY <2>1, <2>4, <2>9, <4>1 DEF Ended
      <4>2. CASE b = a
        BY <2>2, <2>9, <4>2
      <4>3. CASE b # t /\ b # a
        BY <2>3, <2>4, <2>6, <4>3
      <4> QED
        BY <4>1, <4>2, <4>3
    <3> QED
      BY <2>1, <3>1, <3>2, OtherRole
  <2>10. OneWorker'
    <3>1. \A u \in Threads : u # t => th'[u].as = th[u].as
      BY <2>1, <2>2, <2>4
    <3> QED
      BY <2>1, <2>4, <3>1, OneWorkerKept DEF Roles
  <2>11. ZombieLast'
    BY <2>1 DEF ZombieLast
  <2>12. TablesThere'
    <3>1. TablesThere
      BY <2>1 DEF Roles
    <3>2. ASSUME NEW p \in AddrSpaces, p # a
          PROVE  as_pt'[p] # NULL <=> /\ th'[p].pc \notin {"none", "new", "leaving"}
                                      /\ \A u \in Threads : th'[u].pc = "freeAs" => th'[u].as # p
      <4>1. th'[p].pc \in {"none", "new", "leaving"} <=> th[p].pc \in {"none", "new", "leaving"}
        BY <2>1, <2>3, <2>4, <3>2
      <4>2. \A u \in Threads : th'[u].pc = "freeAs" /\ th'[u].as = p <=>
                                 th[u].pc = "freeAs" /\ th[u].as = p
        BY <2>0, <2>1, <2>2, <2>4, <2>5, <3>2
      <4> QED
        BY <2>1, <3>1, <3>2, <4>1, <4>2 DEF TablesThere
    <3> QED
      BY <2>1, <2>2, <2>5, <3>2 DEF TablesThere
  <2>13. StacksThere'
    BY <2>1, <2>2, <2>3, <2>4, <2>5 DEF Roles, StacksThere
  <2>14. NoPagesYet'
    BY <2>1, <2>3, <2>4, <2>6 DEF Roles, NoPagesYet
  <2>15. Alone'
    <3>1. Alone
      BY <2>1 DEF Roles
    <3> SUFFICES ASSUME ~OPT_FORK, NEW p \in AddrSpaces, th'[p].pc \notin {"none", "leaving"}
                 PROVE  th'[kproc].as = p
      BY DEF Alone
    <3>2. p # a
      BY <2>5
    <3>3. th[p].pc \notin {"none", "leaving"}
      BY <2>1, <2>3, <2>4, <3>2
    <3>4. th[kproc].as = p
      BY <3>1, <3>3 DEF Alone
    <3>5. kproc # t
      BY <2>0, <3>2, <3>4
    <3> QED
      BY <2>2, <2>3, <2>4, <3>4, <3>5
  <2> QED
    BY <2>7, <2>8, <2>9, <2>10, <2>11, <2>12, <2>13, <2>14, <2>15 DEF Roles
<1>3. /\ Running /\ Running' /\ curthread = t /\ th[t].pc = "freeAs"
      /\ UNCHANGED <<as_pt, t_stack, heap, swapMap, used, swap_lock, disk, ram, garbled>>
      /\ UNCHANGED <<tlb, curthread>> /\ th[t].pc \in Destroying
  BY <1>1, OnFacts DEF swapVars, tlbVars, Running, Destroying
<1>4. PICK a \in AddrSpaces : a = th[t].as
  BY <1>3, DestroyFacts
<1>5. /\ a # t /\ a \in Threads /\ th[a].pc \in Ended /\ th[a].as = NULL
      /\ \A u \in Threads : u # t => th[u].as # a
  BY <1>3, <1>4, DestroyFacts
<1>6. freeAs(a) /\ Clears(a)
  BY <1>1, <1>4
<1>7. /\ th'[a].pc \in {"none", "leaving"} /\ th'[a].as = NULL
      /\ th'[t].pc \in {"menu", "user"} /\ th'[t].as = NULL
      /\ \A u \in Threads : u # t /\ u # a => th'[u] = th[u]
  BY <1>1, <1>4 DEF Others, Placed
<1>8. /\ \A v \in Pages : pt'[a][v] = NoPage
      /\ \A b \in AddrSpaces, v \in Pages : b # a => pt'[b][v] = pt[b][v]
  BY <1>6 DEF Clears
<1>9. FillersStay /\ VictimsStay /\ UsersStay
  BY <1>3, <1>5, <1>7 DEF FillersStay, VictimsStay, UsersStay, Filling, Ended
<1>10. FramesOK'
  <2>1. /\ \A u \in Threads : Filling(u) => th[u].as # a
        /\ \A u \in Threads : th[u].pc \in {"evict", "write"} => th[u].as # a
    BY <1>3, <1>5 DEF Filling
  <2> QED
    BY <1>3, <1>6, <1>9, <2>1, FreeAsFrames
<1>11. SlotsOK' /\ Counts
  <2>1. \A u \in Threads : u # t => th'[u] = th[u] \/ (th[u].as = NULL /\ th'[u].as = NULL)
    BY <1>5, <1>7
  <2>2. StoredStays
    BY <1>3, <1>4, <1>7, <1>8, <2>1, ClearEnds
  <2> QED
    BY <1>3, <1>9, <2>2, SlotsSame
<1>12. TlbOK'
  <2>1. HasAs(t)' => HasAs(t) /\ \A v \in Pages : pt'[t][v] = pt[t][v]
    BY <1>3, <1>5, <1>8 DEF HasAs, Ended
  <2> QED
    BY <1>3, <2>1, TlbSame
<1>13. \A b \in AddrSpaces : b # a => HeldStays(b)
  BY <1>1, <1>3, <1>8, HeldKept DEF HeldStays
<1>14. ContentsOK'
  <2>1. TextKept
    BY <1>3 DEF ContentsOK
  <2>2. TextKept'
    <3> SUFFICES ASSUME NEW b \in AddrSpaces, NEW v \in Text
                 PROVE  /\ \A s \in Slots : pt'[b][v] # Swapped(s)
                        /\ \A f \in Frames : pt'[b][v] = Resident(f) => ram'[f] = "elf"
      BY DEF TextKept
    <3>1. v \in Pages
      BY DEF Pages
    <3>2. CASE b = a
      BY <1>8, <3>1, <3>2, KindFacts
    <3>3. CASE b # a
      <4>1. pt'[b][v] = pt[b][v] /\ ram' = ram
        BY <1>3, <1>8, <3>1, <3>3
      <4>2. /\ \A s \in Slots : pt[b][v] # Swapped(s)
            /\ \A f \in Frames : pt[b][v] = Resident(f) => ram[f] = "elf"
        BY <2>1 DEF TextKept
      <4> QED
        BY <4>1, <4>2
    <3> QED
      BY <3>2, <3>3
  <2>3. CopiersStay
    BY <1>7 DEF CopiersStay, Faulting
  <2>4. ~InFork(a)
    BY <1>5 DEF InFork, Ended, Faulting
  <2> QED
    BY <1>3, <1>13, <2>2, <2>3, <2>4, ContentsKept
<1>15. MemoryStep
  <2>1. /\ th[t].pc \notin Absent /\ th'[t].pc \notin Absent
        /\ th[a].pc \in Absent /\ th'[a].pc \in Absent
    BY <1>3, <1>5, <1>7 DEF Absent, Ended
  <2>2. AbsentStay
    BY <1>7, <2>1, PagingAssumption DEF AbsentStay
  <2> QED
    BY <1>13, <2>1, <2>2, MemoryKept
<1>16. Inv'
  BY <1>1, <1>2, <1>3, <1>10, <1>11, <1>12, <1>14, <1>15 DEF Inv
<1>17. garbled => garbled'
  BY <1>1, <1>2, GarbledSame
<1>18. Running' => Steady
  BY <1>1, <1>2, <1>3, <1>10, <1>11, <1>12, <1>14, <1>15, <1>17 DEF Steady
<1> QED
  BY <1>16, <1>18 DEF StepOK

=============================================================================

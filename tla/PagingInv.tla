----------------------------- MODULE PagingInv -----------------------------
(***************************************************************************)
(* The inductive invariant of demand paging, and the vocabulary in which   *)
(* the proofs describe a step.                                             *)
(*                                                                         *)
(* Inv is built in layers, each proved from those before it: the types;    *)
(* who works on which address space (Roles); the frames; the slots; the    *)
(* TLB; the contents of pages.                                             *)
(***************************************************************************)
EXTENDS PagingState

\* Where a thread works on no address space, where it gets a frame for a page
\* (in vm_fault or as_copy), and where it destroys an address space.
Idle == {"menu", "none", "new", "embryo", "user", "exiting", "exited", "leaving"}

Faulting == {"getPage", "evict", "write", "fill", "read"}

Destroying == {"clear_swap", "freepages", "freeAs"}

\* Where a thread holds no frame and no slot, and destroys nothing.
Calm == Idle \cup {"getPage", "thread_fork", "proc_wait"}

PCs == Idle \cup Faulting \cup Destroying \cup {"thread_fork", "proc_wait"}

Local == [pc : PCs, as : AddrSpaces \cup {NULL}, i : Pages \cup {0}, frame : Frames, slot : Slots]

\* A page is nowhere yet, in a frame, or in a slot.
Entry == {NoPage} \cup {Resident(f) : f \in Frames} \cup {Swapped(s) : s \in Slots}

Types ==
  /\ CoremapTypeOK /\ SwapTypeOK /\ TlbTypeOK
  /\ pt \in [AddrSpaces -> [Pages -> Entry]]
  /\ as_pt \in [AddrSpaces -> Frames \cup {NULL}]
  /\ t_stack \in [AddrSpaces -> Frames \cup {NULL}]
  /\ heap \subseteq Frames
  /\ ram \in [Frames -> Contents]
  /\ th \in [Threads -> Local]
  /\ curthread \in Threads
  /\ zombies \subseteq AddrSpaces
  /\ created \in 0 .. MaxCreated
  /\ garbled \in BOOLEAN

-----------------------------------------------------------------------------
\* Who works on which address space.

\* What thread t may be doing, and the state of the address space it works on.
Role(t) ==
  LET r == th[t]
  IN  /\ r.pc = "menu" => t = kproc
      /\ t = kproc => r.pc \in {"menu", "proc_wait"} \cup Destroying
      /\ r.as = NULL <=> r.pc \in Idle
      /\ r.as = t => r.pc \in Faulting /\ ~pt[t][r.i].in_mem
      /\ r.pc \in Faulting => r.i \in Pages
      /\ r.pc = "read" => pt[t][r.i].in_swap
      /\ r.pc \in Faulting \cup {"thread_fork"} /\ r.as # t => th[r.as].pc = "embryo"
      /\ r.pc \in Faulting /\ r.as # t => /\ pt[t][r.i] # NoPage
                                          /\ \A v \in Pages : v >= r.i => pt[r.as][v] = NoPage
      /\ r.pc = "proc_wait" => th[r.as].pc \notin {"none", "embryo", "leaving"}
      /\ r.pc \in Destroying => th[r.as].pc \in Ended
      /\ r.pc = "clear_swap" => r.i \in Pages /\ pt[r.as][r.i].in_swap

\* At most one other thread works on an address space.
OneWorker ==
  \A t, u \in Threads :
    th[t].as = th[u].as /\ th[t].as # NULL /\ th[t].as # t /\ th[t].as # u => t = u

\* The thread that has just exited is the only one whose stack is to be freed.
ZombieLast == \A z \in zombies : z = curthread /\ th[z].pc \in {"exited", "none"}

\* When a process has a page table, a kernel stack, and pages.
TablesThere ==
  \A p \in AddrSpaces :
    as_pt[p] # NULL <=> /\ th[p].pc \notin {"none", "new", "leaving"}
                        /\ \A t \in Threads : th[t].pc = "freeAs" => th[t].as # p

StacksThere ==
  \A p \in AddrSpaces :
    t_stack[p] # NULL <=> th[p].pc \notin {"none", "embryo", "exited"} \/ p \in zombies

NoPagesYet ==
  \A p \in AddrSpaces : th[p].pc \in {"none", "new", "leaving"} =>
    \A v \in Pages : pt[p][v] = NoPage

\* Without fork the menu waits for the only process there is.
Alone ==
  ~OPT_FORK => \A p \in AddrSpaces : th[p].pc \notin {"none", "leaving"} => th[kproc].as = p

Roles ==
  Running => /\ \A t \in Threads : Role(t)
             /\ OneWorker /\ ZombieLast /\ TablesThere /\ StacksThere /\ NoPagesYet /\ Alone

-----------------------------------------------------------------------------
\* The frames: what the coremap says of each holder's frame, that holders of
\* one kind do not share one, and that a used frame has a holder.

Tag(f, flags, as) == coremap[f].flags = flags /\ coremap[f].as = as

Filling(t) == th[t].pc \in {"fill", "read"}

FrameTags ==
  /\ \A a \in AddrSpaces : as_pt[a] # NULL =>
       Tag(as_pt[a], 3, NULL) /\ coremap[as_pt[a]].allocpages = 1
  /\ \A a \in AddrSpaces : t_stack[a] # NULL =>
       Tag(t_stack[a], 2, NULL) /\ coremap[t_stack[a]].allocpages = 1 /\ t_stack[a] \notin heap
  /\ \A f \in heap : Tag(f, 2, NULL) /\ coremap[f].allocpages = 1
  /\ \A a \in AddrSpaces, v \in Pages, f \in Frames : pt[a][v] = Resident(f) => Tag(f, 2, a)
  /\ \A t \in Threads : Filling(t) => Tag(th[t].frame, 2, th[t].as)

FrameOnce ==
  /\ \A a, b \in AddrSpaces : as_pt[a] = as_pt[b] /\ as_pt[a] # NULL => a = b
  /\ \A a, b \in AddrSpaces : t_stack[a] = t_stack[b] /\ t_stack[a] # NULL => a = b
  /\ \A a \in AddrSpaces, v, w \in Pages, f \in Frames :
       pt[a][v] = Resident(f) /\ pt[a][w] = Resident(f) => v = w
  /\ \A t \in Threads, v \in Pages : Filling(t) => pt[th[t].as][v] # Resident(th[t].frame)

Held(f) ==
  \/ \E a \in AddrSpaces : as_pt[a] = f \/ t_stack[a] = f
  \/ f \in heap
  \/ \E a \in AddrSpaces, v \in Pages : pt[a][v] = Resident(f)
  \/ \E t \in Threads : Filling(t) /\ th[t].frame = f

FrameKept == \A f \in Frames : coremap[f].flags # 0 => Held(f)

\* The victim is a page of the address space worked on.
VictimThere ==
  \A t \in Threads : th[t].pc \in {"evict", "write"} =>
    \E v \in Pages : /\ pt[th[t].as][v] = Resident(th[t].frame)
                     /\ th[t].pc = "write" => v \notin Text

FramesOK == Running => FrameTags /\ FrameOnce /\ FrameKept /\ VictimThere

-----------------------------------------------------------------------------
\* The slots.

\* as_destroy is past page v of address space a.
Cleared(a, v) ==
  \E t \in Threads : /\ th[t].as = a
                     /\ \/ th[t].pc = "clear_swap" /\ v < th[t].i
                        \/ th[t].pc \in {"freepages", "freeAs"}

\* Page v of a is in slot s.
Stored(a, v, s) == pt[a][v] = Swapped(s) /\ ~Cleared(a, v)

Writing == {t \in Threads : th[t].pc = "write"}

Settled == swapMap \ {th[t].slot : t \in Writing}

LockHeld == \A t \in Threads : swap_lock = t <=> th[t].pc \in {"read", "write"}

SlotOnce ==
  \A a, b \in AddrSpaces, v, w \in Pages, s \in Slots :
    Stored(a, v, s) /\ Stored(b, w, s) => a = b /\ v = w

SlotsMarked ==
  /\ \A s \in Slots : s \in Settled <=> \E a \in AddrSpaces, v \in Pages : Stored(a, v, s)
  /\ \A t \in Writing : th[t].slot \in swapMap

SlotsOK == Running => LockHeld /\ SlotOnce /\ SlotsMarked

\* used counts the slots that hold a page.
CountOK == Running => used = Cardinality(Settled) % USHORT

-----------------------------------------------------------------------------
\* The TLB.

TlbOnce ==
  \A j, k \in Entries :
    tlb[j].valid /\ tlb[k].valid /\ tlb[j].vpage = tlb[k].vpage => j = k

TlbOK == Running => TlbOnce /\ TlbCoherent

-----------------------------------------------------------------------------
\* What pages hold.

\* A page of a read-only segment holds what the executable does, and is never
\* in the swap file.
TextKept ==
  \A a \in AddrSpaces, v \in Text :
    /\ \A s \in Slots : pt[a][v] # Swapped(s)
    /\ \A f \in Frames : pt[a][v] = Resident(f) => ram[f] = "elf"

\* as_copy has copied the pages it is past.
CopiedSoFar ==
  ~garbled => \A t \in Threads :
    th[t].pc \in Faulting \cup {"thread_fork"} /\ th[t].as # t =>
      \A v \in Pages : (th[t].pc = "thread_fork" \/ v < th[t].i) =>
        held(th[t].as, v) = held(t, v)

ContentsOK == Running => TextKept /\ CopiedSoFar

Inv == Types /\ Roles /\ FramesOK /\ SlotsOK /\ TlbOK /\ ContentsOK

-----------------------------------------------------------------------------
\* What a step does, thread by thread and page by page.

\* Thread t is at pc now, with these local variables, and the others are where
\* they were.
Changes(t, pc, as, i, f, s) ==
  /\ th' \in [Threads -> Local]
  /\ th'[t].pc = pc /\ th'[t].as = as /\ th'[t].i = i /\ th'[t].frame = f /\ th'[t].slot = s
  /\ \A u \in Threads : u # t => th'[u] = th[u]

\* The entry of page v of address space a is e now, and the others are what
\* they were.
Enters(a, v, e) ==
  /\ pt' \in [AddrSpaces -> [Pages -> Entry]]
  /\ pt'[a][v] = e
  /\ \A b \in AddrSpaces, w \in Pages : b # a \/ w # v => pt'[b][w] = pt[b][w]

\* The page table of a is empty now.
Clears(a) ==
  /\ pt' \in [AddrSpaces -> [Pages -> Entry]]
  /\ \A w \in Pages : pt'[a][w] = NoPage
  /\ \A b \in AddrSpaces, w \in Pages : b # a => pt'[b][w] = pt[b][w]

\* Only t and c move; thread t is here now.
Others(t, c) ==
  /\ th' \in [Threads -> Local]
  /\ \A u \in Threads : u # t /\ u # c => th'[u] = th[u]

Placed(t, pc, as, i) ==
  th'[t].pc = pc /\ th'[t].as = as /\ th'[t].i = i /\ th'[t].frame = 0 /\ th'[t].slot = 0

\* Thread t goes on in as_copy with the first page from i on, and in as_destroy.
CopyNext(t, c, i) ==
  \/ /\ Placed(t, "thread_fork", c, 0)
     /\ \A v \in Pages : v >= i => pt[t][v] = NoPage
  \/ \E j \in Pages : /\ Placed(t, "getPage", c, j) /\ j >= i /\ pt[t][j] # NoPage
                      /\ \A v \in Pages : v >= i /\ v < j => pt[t][v] = NoPage

ClearNext(t, a, i) ==
  \/ /\ Placed(t, "freepages", a, 0)
     /\ \A v \in Pages : v >= i => ~pt[a][v].in_swap
  \/ \E j \in Pages : /\ Placed(t, "clear_swap", a, j) /\ j >= i /\ pt[a][j].in_swap
                      /\ \A v \in Pages : v >= i /\ v < j => ~pt[a][v].in_swap

\* The page tables have the same pages in the same frames, and the same threads
\* are about to fill the same frames.
PagesStay ==
  \A a \in AddrSpaces, v \in Pages, f \in Frames :
    pt'[a][v] = Resident(f) <=> pt[a][v] = Resident(f)

FillersStay ==
  \A t \in Threads : /\ Filling(t)' <=> Filling(t)
                     /\ Filling(t) => th'[t].frame = th[t].frame /\ th'[t].as = th[t].as

\* No thread has a new victim.
VictimsStay ==
  \A t \in Threads : th'[t].pc \in {"evict", "write"} =>
    th'[t].pc = th[t].pc /\ th'[t].as = th[t].as /\ th'[t].frame = th[t].frame

\* The same pages are in the same slots, the same threads use the swap file, and
\* as_destroy is past the same pages.
SwapsStay ==
  \A a \in AddrSpaces, v \in Pages, s \in Slots :
    pt'[a][v] = Swapped(s) <=> pt[a][v] = Swapped(s)

UsersStay ==
  \A t \in Threads : /\ th'[t].pc = "read" <=> th[t].pc = "read"
                     /\ th'[t].pc = "write" <=> th[t].pc = "write"
                     /\ th[t].pc = "write" => th'[t].slot = th[t].slot

ClearersStay ==
  \A t \in Threads :
    /\ th'[t].pc \in Destroying <=> th[t].pc \in Destroying
    /\ th[t].pc \in Destroying =>
         th'[t].pc = th[t].pc /\ th'[t].as = th[t].as /\ th'[t].i = th[t].i

StoredStays ==
  \A a \in AddrSpaces, v \in Pages, s \in Slots : Stored(a, v, s)' <=> Stored(a, v, s)

\* What a thread that waits for the swap file's transfer, or that destroys, does
\* to the slots: nothing, one more slot holds a page, or one less.
Counts ==
  \/ Settled' = Settled /\ used' = used
  \/ \E s \in Slots \ Settled : Settled' = Settled \cup {s} /\ used' = (used + 1) % USHORT
  \/ \E s \in Settled : Settled' = Settled \ {s} /\ used' = (used - 1) % USHORT

\* The processes that have no memory, and the memory of process p, as module
\* VirtualMemory has it.
Absent == {"none", "new", "embryo", "leaving"} \cup Ended
Memory(p) == IF th[p].pc \in Absent THEN NULL ELSE [v \in Pages |-> held(p, v)]
Fresh(v) == IF v \in Bss THEN "undefined" ELSE IF v \in Stack THEN "zero" ELSE "elf"
Initial == [v \in Pages |-> Fresh(v)]
User == IF th[curthread].pc = "user" THEN curthread ELSE NULL

MemoryBecomes(p, m) ==
  Memory(p)' = m /\ \A q \in AddrSpaces : q # p => Memory(q)' = Memory(q)

\* The steps of VirtualMemory, by what becomes of each memory.
MemoryStep ==
  \/ \A p \in AddrSpaces : Memory(p)' = Memory(p)
  \/ \E p \in AddrSpaces : Memory(p) = NULL /\ MemoryBecomes(p, Initial)
  \/ \E p \in AddrSpaces : User = p /\ MemoryBecomes(p, NULL)
  \/ \E p \in AddrSpaces, v \in Pages, c \in Contents :
       /\ Memory(p) # NULL /\ MemoryBecomes(p, [Memory(p) EXCEPT ![v] = c])
       /\ Memory(p)[v] = "undefined" \/ (v \notin Text /\ User = p /\ User' = p)
  \/ \E p, child \in AddrSpaces :
       Memory(p) # NULL /\ Memory(child) = NULL /\ MemoryBecomes(child, Memory(p))

\* What the pages of a process hold stays.
HeldStays(a) == \A v \in Pages : held(a, v)' = held(a, v)

\* Process a is the parent or the child of a fork that as_copy works on.
InFork(a) ==
  th[a].pc = "embryo" \/ (th[a].pc \in Faulting \cup {"thread_fork"} /\ th[a].as # a)

\* as_copy is where it was, and the same processes have no memory.
CopiersStay ==
  \A t \in Threads : th'[t].pc \in Faulting \cup {"thread_fork"} /\ th'[t].as # t =>
    /\ th[t].pc \in Faulting \cup {"thread_fork"}
    /\ th'[t].as = th[t].as /\ th'[t].i = th[t].i
    /\ th'[t].pc = "thread_fork" => th[t].pc = "thread_fork"

AbsentStay == \A p \in AddrSpaces : th'[p].pc \in Absent <=> th[p].pc \in Absent

\* What a step of a machine that goes on does, besides keeping Inv.
Steady ==
  /\ Running /\ (garbled => garbled')
  /\ Counts
  /\ ~garbled' => MemoryStep

\* What is proved of the step of each action.
StepOK == Inv' /\ (Running' => Steady)

\* Every set of pages has a first one.
PagesOrdered == \A S \in SUBSET Pages : S # {} => \E v \in S : \A w \in S : v <= w

=============================================================================

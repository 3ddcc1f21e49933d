--------------------------- MODULE SwapTlbProofs ----------------------------
(***************************************************************************)
(* What vm_tlb.c keeps true of the TLB, for every size of it and every     *)
(* number of pages, frames and address spaces: no page is translated twice,*)
(* and the TLB agrees with the page table of the process that runs.        *)
(*                                                                         *)
(* What swapfile.c keeps true of the swap file, for every size of it and   *)
(* every number of threads and pages: the count agrees with the bitmap, a  *)
(* page that was swapped out is where its page table says, and a slot is   *)
(* lost only by a failed read.                                             *)
(***************************************************************************)
EXTENDS TlbClients, SwapClients, FiniteSetTheorems, TLAPS

-----------------------------------------------------------------------------
\* The TLB.

\* The value tlb_loadentry writes into the entry it chose.
Loaded(v, p, readOnly) ==
  [valid |-> TRUE, vpage |-> v, ppage |-> p, dirty |-> ~readOnly]

\* An entry is either invalid or a full translation.
LEMMA EntryType ==
  ASSUME TlbTypeOK, NEW k \in Entries
  PROVE  /\ tlb[k].valid \in BOOLEAN
         /\ tlb[k].valid => tlb[k] \in TlbEntry
<1>1. tlb[k] \in TlbEntry \/ tlb[k] = INVALID
  BY DEF TlbTypeOK
<1>2. tlb[k] = INVALID => tlb[k].valid = FALSE
  BY DEF INVALID
<1>3. tlb[k] \in TlbEntry => tlb[k].valid = TRUE
  BY Zenon DEF TlbEntry
<1> QED
  BY Zenon, <1>1, <1>2, <1>3

\* tlb_loadentry writes the new translation into one entry and leaves the
\* others alone, whichever of its two ways it chose the entry by.
LEMMA LoadEntryEffect ==
  ASSUME TlbTypeOK, NEW v \in VPages, NEW p \in PFrames, NEW r \in BOOLEAN,
         tlb_loadentry(v, p, r)
  PROVE  /\ TlbTypeOK'
         /\ \E k \in Entries : tlb' = [tlb EXCEPT ![k] = Loaded(v, p, r)]
<1> DEFINE e == Loaded(v, p, r)
<1>1. e \in TlbEntry
  BY DEF TlbEntry, Loaded
<1>2. NUM_TLB \in Nat /\ NUM_TLB > 0
  BY TlbAssumption
<1>3. (next_victim + 1) % NUM_TLB \in Entries
  BY <1>2 DEF TlbTypeOK, Entries
<1> HIDE DEF e
<1>4. PICK k \in Entries : tlb' = [tlb EXCEPT ![k] = e]
  BY DEF tlb_loadentry, FreeEntries, TlbTypeOK, Loaded, e
<1>5. tlb' \in [Entries -> TlbEntry \cup {INVALID}]
  BY <1>1, <1>4 DEF TlbTypeOK
<1>6. tlb_full' \in BOOLEAN /\ next_victim' \in Entries
  BY Zenon, <1>3 DEF tlb_loadentry, tlb_get_rr_victim, TlbTypeOK
<1> QED
  BY Zenon, <1>4, <1>5, <1>6 DEF TlbTypeOK, e

\* tlb_invalidate_vaddr only makes entries invalid, and when no page has two
\* entries it leaves none for the page it is given.
LEMMA InvalidateVaddrEffect ==
  ASSUME NoDuplicates, NEW v \in VPages, tlb_invalidate_vaddr(v)
  PROVE  /\ TlbTypeOK'
         /\ \A k \in Entries : tlb'[k].valid => tlb'[k] = tlb[k] /\ tlb[k].vpage # v
<1> USE DEF NoDuplicates, TlbClientsTypeOK
<1>1. CASE tlb_probe(v) = {} /\ UNCHANGED tlb
  BY <1>1, EntryType DEF tlb_invalidate_vaddr, tlb_probe, TlbTypeOK
<1>2. ASSUME NEW k \in tlb_probe(v), tlb' = [tlb EXCEPT ![k] = INVALID]
      PROVE  /\ TlbTypeOK'
             /\ \A j \in Entries : tlb'[j].valid => tlb'[j] = tlb[j] /\ tlb[j].vpage # v
  <2>1. k \in Entries /\ tlb[k].valid /\ tlb[k].vpage = v
    BY DEF tlb_probe
  <2>2. TlbTypeOK'
    BY <1>2, <2>1 DEF TlbTypeOK, tlb_invalidate_vaddr
  <2>3. ~tlb'[k].valid
    BY <1>2, <2>1 DEF TlbTypeOK, INVALID
  <2>4. ASSUME NEW j \in Entries, tlb'[j].valid
        PROVE  tlb'[j] = tlb[j] /\ tlb[j].vpage # v
    <3>1. j # k
      BY <2>3, <2>4
    <3>2. tlb'[j] = tlb[j]
      BY <1>2, <3>1 DEF TlbTypeOK
    <3> QED
      BY <2>1, <2>4, <3>1, <3>2
  <2> QED
    BY <2>2, <2>4
<1> QED
  BY <1>1, <1>2 DEF tlb_invalidate_vaddr

-----------------------------------------------------------------------------

\* Since its miss no entry for the page of the running thread's fault has come
\* into the TLB: whoever ran in between, as_activate emptied it afterwards.
MissHolds == \A v \in VPages : InFault(v) => tlb_probe(v) = {}

\* The inductive invariant: vm_fault_end does not probe and relies on MissHolds,
\* and tlb_invalidate_vaddr clears every stale entry only if there is at most
\* one.
TlbInv == NoDuplicates /\ Coherent /\ MissHolds

\* The empty TLB satisfies the invariant.
LEMMA TlbInitInv == TlbInit => TlbInv
<1> SUFFICES ASSUME TlbInit PROVE TlbInv
  OBVIOUS
<1>1. NUM_TLB \in Nat /\ NUM_TLB > 0
  BY TlbAssumption
<1>2. \A k \in Entries : tlb[k] = INVALID /\ ~tlb[k].valid
  BY DEF TlbInit, tlb_reset, INVALID
<1>3. TlbClientsTypeOK
  <2>1. tlb \in [Entries -> TlbEntry \cup {INVALID}]
    BY DEF TlbInit, tlb_reset
  <2>2. tlb_full \in BOOLEAN
    BY Zenon DEF TlbInit, tlb_reset
  <2>3. next_victim \in Entries
    BY <1>1 DEF TlbInit, tlb_reset, Entries
  <2>4. ptPaddr \in [AddrSpaces -> [VPages -> PFrames \cup {NULL}]]
    BY DEF TlbInit
  <2>5. faulting \in [AddrSpaces -> VPages \cup {NULL}]
    BY DEF TlbInit
  <2> QED
    BY <2>1, <2>2, <2>3, <2>4, <2>5 DEF TlbInit, TlbClientsTypeOK, TlbTypeOK
<1>4. MissHolds
  BY Zenon, <1>2 DEF MissHolds, tlb_probe
<1> QED
  BY <1>2, <1>3, <1>4, TlbClientsAssumption DEF TlbInv, NoDuplicates, Coherent

\* The parts of the invariant, as the steps use them.
LEMMA TlbInvParts ==
  ASSUME TlbInv
  PROVE  TlbClientsTypeOK /\ TlbTypeOK /\ NoDuplicates /\ Coherent /\ MissHolds
BY DEF TlbInv, NoDuplicates, TlbClientsTypeOK

\* A step that leaves the TLB and the running process alone keeps NoDuplicates.
LEMMA SameTlb ==
  ASSUME TlbInv, TlbClientsTypeOK', tlb' = tlb
  PROVE  NoDuplicates'
BY DEF TlbInv, NoDuplicates, Entries

\* vm_fault, on a miss, changes nothing but records the page, for which the TLB
\* has no entry.
LEMMA MissStep ==
  ASSUME TlbInv, NEW v \in VPages, vm_fault(v)
  PROVE  TlbInv'
<1>1. TlbClientsTypeOK /\ TlbTypeOK /\ NoDuplicates /\ Coherent /\ MissHolds
  BY Zenon, TlbInvParts
<1>2. /\ current' = current /\ current \in AddrSpaces /\ ptPaddr' = ptPaddr
      /\ tlb' = tlb /\ tlb_full' = tlb_full /\ next_victim' = next_victim
      /\ faulting' = [faulting EXCEPT ![current] = v]
      /\ tlb_probe(v) = {}
  BY DEF vm_fault, tlbVars
<1>3. TlbClientsTypeOK'
  BY <1>1, <1>2 DEF TlbClientsTypeOK, TlbTypeOK, Entries
<1>4. NoDuplicates'
  BY <1>2, <1>3, SameTlb
<1>5. Coherent'
  BY <1>1, <1>2 DEF Coherent, Entries
<1>6. faulting'[current] = v
  BY <1>1, <1>2 DEF TlbClientsTypeOK
<1>7. MissHolds'
  BY <1>2, <1>6 DEF MissHolds, InFault, tlb_probe, Entries
<1> QED
  BY <1>4, <1>5, <1>7 DEF TlbInv

\* The page that comes into memory has no entry, so none of them is stale.
LEMMA BringInStep ==
  ASSUME TlbInv, NEW v \in VPages, NEW p \in PFrames, bringIn(v, p)
  PROVE  TlbInv'
<1>1. TlbClientsTypeOK /\ TlbTypeOK /\ NoDuplicates /\ Coherent /\ MissHolds
  BY Zenon, TlbInvParts
<1>2. /\ current' = current /\ current \in AddrSpaces /\ faulting' = faulting
      /\ tlb' = tlb /\ tlb_full' = tlb_full /\ next_victim' = next_victim
      /\ ptPaddr' = [ptPaddr EXCEPT ![current][v] = p]
      /\ InFault(v)
  BY DEF bringIn, tlbVars, InFault
<1>3. TlbClientsTypeOK'
  BY <1>1, <1>2 DEF TlbClientsTypeOK, TlbTypeOK, Entries
<1>4. NoDuplicates'
  BY <1>2, <1>3, SameTlb
<1>5. \A w \in VPages : w # v => ptPaddr'[current][w] = ptPaddr[current][w]
  BY <1>1, <1>2 DEF TlbClientsTypeOK
<1>6. \A k \in Entries : tlb[k].valid => tlb[k].vpage \in VPages /\ tlb[k].vpage # v
  <2> SUFFICES ASSUME NEW k \in Entries, tlb[k].valid
               PROVE  tlb[k].vpage \in VPages /\ tlb[k].vpage # v
    OBVIOUS
  <2>1. tlb[k].vpage \in VPages
    BY Zenon, <1>1, EntryType DEF TlbEntry
  <2>2. tlb_probe(v) = {}
    BY Zenon, <1>1, <1>2 DEF MissHolds
  <2> QED
    BY <2>1, <2>2 DEF tlb_probe
<1>7. Coherent'
  BY <1>1, <1>2, <1>5, <1>6 DEF Coherent, Entries
<1>8. MissHolds'
  BY <1>1, <1>2 DEF MissHolds, InFault, tlb_probe, Entries
<1> QED
  BY <1>4, <1>7, <1>8 DEF TlbInv

\* The end of vm_fault adds the translation the page table has.
LEMMA FaultEndStep ==
  ASSUME TlbInv, NEW v \in VPages, vm_fault_end(v)
  PROVE  TlbInv'
<1> DEFINE r == v \in ReadOnly
           p == ptPaddr[current][v]
<1>1. TlbClientsTypeOK /\ TlbTypeOK /\ NoDuplicates /\ Coherent /\ MissHolds
  BY Zenon, TlbInvParts
<1>2. /\ current' = current /\ current \in AddrSpaces /\ ptPaddr' = ptPaddr
      /\ faulting' = [faulting EXCEPT ![current] = NULL]
      /\ InFault(v) /\ p # NULL /\ tlb_loadentry(v, p, r)
  BY Zenon DEF vm_fault_end, InFault
<1>3. p \in PFrames
  BY <1>1, <1>2 DEF TlbClientsTypeOK
<1> HIDE DEF r
<1>4. r \in BOOLEAN
  BY DEF r
<1>5. TlbTypeOK'
  BY <1>1, <1>2, <1>3, <1>4, LoadEntryEffect
<1>6. PICK k \in Entries : tlb' = [tlb EXCEPT ![k] = Loaded(v, p, r)]
  BY <1>1, <1>2, <1>3, <1>4, LoadEntryEffect
<1>7. TlbClientsTypeOK'
  BY <1>1, <1>2, <1>5 DEF TlbClientsTypeOK
<1>8. /\ tlb'[k] = Loaded(v, p, r)
      /\ \A j \in Entries : j # k => tlb'[j] = tlb[j]
  BY <1>1, <1>6 DEF TlbTypeOK
<1>9. tlb_probe(v) = {}
  BY Zenon, <1>1, <1>2 DEF MissHolds
<1>10. \A j \in Entries : j # k /\ tlb'[j].valid => tlb[j].valid /\ tlb'[j].vpage # v
  BY <1>1, <1>8, <1>9, EntryType DEF tlb_probe
<1>11. tlb'[k].vpage = v /\ tlb'[k].ppage = p /\ tlb'[k].dirty = ~r
  BY <1>8 DEF Loaded
<1>12. NoDuplicates'
  <2> SUFFICES ASSUME NEW i \in Entries, NEW j \in Entries,
                      tlb'[i].valid, tlb'[j].valid, tlb'[i].vpage = tlb'[j].vpage
               PROVE  i = j
    BY <1>7 DEF NoDuplicates, Entries
  <2>1. CASE i = k \/ j = k
    BY <2>1, <1>10, <1>11
  <2>2. CASE i # k /\ j # k
    BY <2>2, <1>1, <1>8, <1>10 DEF NoDuplicates
  <2> QED
    BY <2>1, <2>2
<1>13. Coherent'
  <2> SUFFICES ASSUME NEW j \in Entries, tlb'[j].valid
               PROVE  /\ ptPaddr[current][tlb'[j].vpage] = tlb'[j].ppage
                      /\ tlb'[j].dirty <=> tlb'[j].vpage \notin ReadOnly
    BY <1>2 DEF Coherent, Entries
  <2>1. CASE j = k
    BY ZenonT(30), <2>1, <1>11 DEF r
  <2>2. CASE j # k
    BY <2>2, <1>1, <1>2, <1>8, <1>10 DEF Coherent
  <2> QED
    BY <2>1, <2>2
<1>14. faulting'[current] = NULL
  BY <1>1, <1>2 DEF TlbClientsTypeOK
<1>15. MissHolds'
  BY <1>2, <1>14, TlbClientsAssumption DEF MissHolds, InFault
<1> QED
  BY <1>12, <1>13, <1>15 DEF TlbInv

\* getPage takes the frame of a page and clears the entry for that page.
LEMMA EvictStep ==
  ASSUME TlbInv, NEW v \in VPages, evict(v)
  PROVE  TlbInv'
<1>1. TlbClientsTypeOK /\ TlbTypeOK /\ NoDuplicates /\ Coherent /\ MissHolds
  BY Zenon, TlbInvParts
<1>2. current' = current /\ current \in AddrSpaces /\ faulting' = faulting
  BY DEF evict, InFault
<1>3. TlbTypeOK'
  BY <1>1, InvalidateVaddrEffect DEF evict
<1>4. \A k \in Entries : tlb'[k].valid => tlb'[k] = tlb[k] /\ tlb[k].vpage # v
  BY <1>1, InvalidateVaddrEffect DEF evict
<1>5. TlbClientsTypeOK'
  BY <1>1, <1>2, <1>3 DEF evict, TlbClientsTypeOK
<1>6. NoDuplicates'
  BY <1>1, <1>4, <1>5 DEF NoDuplicates, Entries
<1>7. \A w \in VPages : w # v => ptPaddr'[current][w] = ptPaddr[current][w]
  BY <1>1, <1>2 DEF evict, TlbClientsTypeOK
<1>8. Coherent'
  <2> SUFFICES ASSUME NEW j \in Entries, tlb'[j].valid
               PROVE  /\ ptPaddr'[current][tlb'[j].vpage] = tlb'[j].ppage
                      /\ tlb'[j].dirty <=> tlb'[j].vpage \notin ReadOnly
    BY <1>2 DEF Coherent, Entries
  <2>1. tlb'[j] = tlb[j] /\ tlb[j].valid /\ tlb[j].vpage # v
    BY <1>4
  <2>2. tlb[j].vpage \in VPages
    BY Zenon, <2>1, <1>1, EntryType DEF TlbEntry
  <2> QED
    BY <2>1, <2>2, <1>1, <1>2, <1>7 DEF Coherent
<1>9. MissHolds'
  BY <1>1, <1>2, <1>4 DEF MissHolds, InFault, tlb_probe, Entries
<1> QED
  BY <1>6, <1>8, <1>9 DEF TlbInv

\* A context switch to a process empties the TLB, so that the miss of a fault
\* it is in still holds; one to a kernel thread leaves entries that nobody uses.
LEMMA ActivateStep ==
  ASSUME TlbInv, NEW as \in AddrSpaces \cup {NULL}, as_activate(as)
  PROVE  TlbInv'
<1>1. TlbClientsTypeOK /\ TlbTypeOK /\ NoDuplicates
  BY Zenon, TlbInvParts
<1>2. current' = as /\ ptPaddr' = ptPaddr /\ faulting' = faulting
  BY DEF as_activate
<1>3. CASE as = NULL
  <2>1. tlb' = tlb /\ TlbTypeOK'
    BY <1>1, <1>3 DEF as_activate, tlbVars, TlbTypeOK
  <2>2. MissHolds'
    BY <1>2, <1>3, TlbClientsAssumption DEF MissHolds, InFault
  <2> QED
    BY <2>1, <2>2, <1>1, <1>2, <1>3, TlbClientsAssumption
    DEF TlbInv, NoDuplicates, Coherent, TlbClientsTypeOK, Entries
<1>4. CASE as # NULL
  <2>1. tlb' = [k \in Entries |-> INVALID] /\ TlbTypeOK'
    BY <1>1, <1>4 DEF as_activate, tlb_invalidate, TlbTypeOK
  <2>2. \A k \in Entries : ~tlb'[k].valid
    BY <2>1 DEF INVALID
  <2>3. MissHolds'
    BY <2>2 DEF MissHolds, tlb_probe, Entries
  <2> QED
    BY Zenon, <2>1, <2>2, <2>3, <1>1, <1>2
    DEF TlbInv, NoDuplicates, Coherent, TlbClientsTypeOK, Entries
<1> QED
  BY Zenon, <1>3, <1>4

\* as_destroy frees the pages of a process that does not run.
LEMMA DestroyStep ==
  ASSUME TlbInv, NEW as \in AddrSpaces, as_destroy(as)
  PROVE  TlbInv'
<1>1. TlbClientsTypeOK /\ TlbTypeOK /\ NoDuplicates /\ Coherent /\ MissHolds
  BY Zenon, TlbInvParts
<1>2. /\ tlb' = tlb /\ TlbTypeOK' /\ current' = current /\ current # as
      /\ faulting' = faulting
  BY Zenon, <1>1 DEF as_destroy, tlbVars, TlbTypeOK
<1>3. TlbClientsTypeOK'
  BY Zenon, <1>1, <1>2 DEF as_destroy, TlbClientsTypeOK
<1>4. current \in AddrSpaces => ptPaddr'[current] = ptPaddr[current]
  BY <1>1, <1>2 DEF as_destroy, TlbClientsTypeOK
<1>5. NoDuplicates'
  BY <1>2, <1>3, SameTlb
<1>6. Coherent'
  BY <1>1, <1>2, <1>4 DEF Coherent, Entries
<1>7. MissHolds'
  BY <1>1, <1>2 DEF MissHolds, InFault, tlb_probe, Entries
<1> QED
  BY <1>5, <1>6, <1>7 DEF TlbInv

\* Every step of a client of vm_tlb.c keeps the invariant.
LEMMA TlbNextInv == TlbInv /\ [TlbNext]_tlbClientsVars => TlbInv'
<1> SUFFICES ASSUME TlbInv, [TlbNext]_tlbClientsVars PROVE TlbInv'
  OBVIOUS
<1>1. CASE UNCHANGED tlbClientsVars
  BY <1>1 DEF tlbClientsVars, tlbVars, TlbInv, NoDuplicates, Coherent, TlbClientsTypeOK,
              TlbTypeOK, Entries, MissHolds, InFault, tlb_probe
<1> QED
  BY <1>1, MissStep, BringInStep, FaultEndStep, EvictStep, ActivateStep, DestroyStep DEF TlbNext

\* tlb_loadentry, which does not probe, never leaves two entries for a page,
\* however long vm_fault slept since the miss and whoever ran meanwhile.
THEOREM TlbNoDuplicates == TlbSpec => []NoDuplicates
<1>1. TlbInv => NoDuplicates
  BY DEF TlbInv
<1> QED
  BY <1>1, TlbInitInv, TlbNextInv, PTL DEF TlbSpec

\* While a process runs, the TLB translates a page to the frame its page table
\* names, writable exactly when its segment is: getPage's invalidation of one
\* entry and as_activate's flush leave no stale translation.
THEOREM TlbCoherence == TlbSpec => []Coherent
<1>1. TlbInv => Coherent
  BY DEF TlbInv
<1> QED
  BY <1>1, TlbInitInv, TlbNextInv, PTL DEF TlbSpec

-----------------------------------------------------------------------------
\* The swap file.

OutOp == [kind : {"out"}, page : Pages, slot : Slots]
InOp == [kind : {"in"}, page : Pages]

\* A transfer in progress is its thread's, under swap_lock; a page on its way
\* out is still in memory and its slot is marked and no other page's; a page
\* on its way in is still in the swap file.
TransfersLocked ==
  \A t \in Threads : op[t] # NoOp =>
    /\ swap_lock = t
    /\ Owner[op[t].page] = t
    /\ op[t].kind = "out" =>
         /\ where[op[t].page] = "ram"
         /\ op[t].slot \in swapMap
         /\ \A q \in Pages : where[q] = "swap" => slot[q] # op[t].slot
    /\ op[t].kind = "in" => where[op[t].page] = "swap"

\* The inductive invariant: the three properties, and what is true of a
\* transfer between its two steps, which they rest on.
Inv ==
  /\ TypeOK
  /\ TransfersLocked
  /\ used = Cardinality(swapMap \ InFlight) % USHORT
  /\ SwappedPagesSafe
  /\ NoSlotLost

-----------------------------------------------------------------------------

\* A thread has no transfer, one of a page out, or one of a page in.
LEMMA OpCases ==
  ASSUME NEW o \in Transfer \cup {NoOp}
  PROVE  /\ o # NoOp => o \in OutOp \/ o \in InOp
         /\ o = NoOp => o.kind = "none"
         /\ o \in OutOp => o.kind = "out" /\ o.page \in Pages /\ o.slot \in Slots
         /\ o \in InOp => o.kind = "in" /\ o.page \in Pages
<1>1. o = NoOp => o.kind = "none"
  BY DEF NoOp
<1>2. o \in OutOp => o.kind = "out" /\ o.page \in Pages /\ o.slot \in Slots
  BY DEF OutOp
<1>3. o \in InOp => o.kind = "in" /\ o.page \in Pages
  BY DEF InOp
<1> QED
  BY <1>1, <1>2, <1>3 DEF Transfer, OutOp, InOp

\* The slots the transfers o write.
Written(o) == {i \in Slots : \E t \in Threads : o[t].kind = "out" /\ o[t].slot = i}

\* While no transfer writes, no slot is being written.
LEMMA WrittenNone ==
  ASSUME NEW o, \A t \in Threads : o[t].kind # "out"
  PROVE  Written(o) = {}
  BY DEF Written

\* While one thread writes, its slot is the only one being written.
LEMMA WrittenOne ==
  ASSUME NEW o, NEW t \in Threads, o[t].kind = "out", o[t].slot \in Slots,
         \A u \in Threads : u # t => o[u].kind # "out"
  PROVE  Written(o) = {o[t].slot}
  BY DEF Written

\* swap_lock admits one transfer at a time.
LEMMA OneTransfer ==
  ASSUME TypeOK, TransfersLocked
  PROVE  /\ swap_lock = NoThread => \A t \in Threads : op[t] = NoOp
         /\ \A t, u \in Threads : op[t] # NoOp /\ u # t => op[u] = NoOp
  BY SwapfileAssumption DEF TransfersLocked

\* A set of slots is finite, so that used can count it.
LEMMA FiniteSlots ==
  ASSUME NEW S \in SUBSET Slots
  PROVE  IsFiniteSet(S)
<1>1. 0 \in Int /\ NSlots - 1 \in Int
  BY SwapfileAssumption
<1>2. IsFiniteSet(Slots)
  BY <1>1, FS_Interval DEF Slots
<1> QED
  BY <1>2, FS_Subset

\* The unsigned short used follows the number of slots up and down.
LEMMA CountUp ==
  ASSUME NEW S \in SUBSET Slots, NEW i \in Slots \ S,
         NEW n, n = Cardinality(S) % USHORT
  PROVE  (n + 1) % USHORT = Cardinality(S \cup {i}) % USHORT
<1>1. IsFiniteSet(S)
  BY FiniteSlots
<1>2. Cardinality(S) \in Nat /\ Cardinality(S \cup {i}) = Cardinality(S) + 1
  BY <1>1, FS_CardinalityType, FS_AddElement
<1> QED
  BY <1>2 DEF USHORT

\* swap_in and clear_swap: used-- follows a slot that is given back.
LEMMA CountDown ==
  ASSUME NEW S \in SUBSET Slots, NEW i \in S,
         NEW n, n = Cardinality(S) % USHORT
  PROVE  (n - 1) % USHORT = Cardinality(S \ {i}) % USHORT
<1>1. IsFiniteSet(S)
  BY FiniteSlots
<1>2. Cardinality(S) \in Nat /\ Cardinality(S \ {i}) = Cardinality(S) - 1
  BY <1>1, FS_CardinalityType, FS_RemoveElement
<1> QED
  BY <1>2 DEF USHORT

\* An unsigned short is never out of its range.
LEMMA UShort ==
  ASSUME NEW n \in Int
  PROVE  n % USHORT \in 0 .. USHORT - 1
<1>1. \A m \in Nat : m > 0 => n % m \in 0 .. m - 1
  OBVIOUS
<1>2. USHORT \in Nat /\ USHORT > 0
  BY DEF USHORT
<1> QED
  BY <1>1, <1>2

-----------------------------------------------------------------------------

\* What Inv says of the transfers, in the form the steps use.
LEMMA InvFacts ==
  ASSUME Inv
  PROVE  /\ TypeOK /\ SwapTypeOK /\ TransfersLocked
         /\ InFlight = Written(op)
         /\ \A t \in Threads : op[t] \in Transfer \cup {NoOp}
         /\ \A t \in Threads : op[t].kind \in {"none", "out", "in"}
         /\ swap_lock = NoThread => InFlight = {}
         /\ \A t \in Threads : op[t].kind = "out" => InFlight = {op[t].slot}
         /\ \A t \in Threads : op[t].kind = "in" => InFlight = {}
<1>1. TypeOK /\ SwapTypeOK /\ TransfersLocked
  BY DEF Inv, TypeOK
<1>2. InFlight = Written(op)
  BY DEF InFlight, Written
<1>3. \A t \in Threads : op[t] \in Transfer \cup {NoOp}
  BY <1>1 DEF TypeOK
<1>4. \A t \in Threads :
        /\ op[t] = NoOp <=> op[t].kind = "none"
        /\ op[t].kind \in {"none", "out", "in"}
        /\ op[t].kind = "out" => op[t].slot \in Slots
  BY <1>3, OpCases
<1>5. swap_lock = NoThread => InFlight = {}
  BY <1>1, <1>2, <1>4, OneTransfer, WrittenNone
<1>6. ASSUME NEW t \in Threads, op[t].kind = "out" PROVE InFlight = {op[t].slot}
  <2>1. \A u \in Threads : u # t => op[u].kind = "none"
    BY <1>1, <1>4, <1>6, OneTransfer
  <2> QED
    BY <2>1, <1>2, <1>4, <1>6, WrittenOne
<1>7. ASSUME NEW t \in Threads, op[t].kind = "in" PROVE InFlight = {}
  <2>1. \A u \in Threads : u # t => op[u].kind = "none"
    BY <1>1, <1>4, <1>7, OneTransfer
  <2> QED
    BY <2>1, <1>2, <1>7, WrittenNone
<1> QED
  BY <1>1, <1>2, <1>3, <1>4, <1>5, <1>6, <1>7

\* The swap file that open_swapfile leaves satisfies the invariant.
LEMMA InitInv == Init => Inv
<1> SUFFICES ASSUME Init PROVE Inv
  OBVIOUS
<1>1. TypeOK
  <2>1. 0 \in Slots /\ 0 \in 0 .. USHORT - 1
    BY SwapfileAssumption DEF Slots, USHORT
  <2> QED
    BY Zenon, <2>1 DEF Init, swapmap_init, TypeOK, SwapTypeOK
<1>2. \A t \in Threads : op[t] = NoOp
  BY DEF Init
<1>3. InFlight = {}
  BY <1>2 DEF InFlight, NoOp
<1>4. used = Cardinality(swapMap \ InFlight) % USHORT
  <2>1. swapMap \ InFlight = {} /\ used = 0
    BY DEF Init, swapmap_init
  <2> QED
    BY <2>1, FS_EmptySet DEF USHORT
<1> QED
  BY <1>1, <1>2, <1>4
  DEF Inv, Init, swapmap_init, TransfersLocked, SwappedPagesSafe, NoSlotLost

\* A write by the process touches a page in memory only.
LEMMA UserWriteStep ==
  ASSUME Inv, NEW p \in Pages, NEW c \in Contents, userWrite(p, c)
  PROVE  Inv'
<1>1. TypeOK /\ SwapTypeOK
  BY InvFacts
<1>2. UNCHANGED <<swapMap, used, swap_lock, disk, where, slot, op, readFailed,
                  panicked, closed>>
  BY DEF userWrite, swapVars
<1>3. InFlight' = InFlight
  BY <1>2 DEF InFlight, Slots
<1>4. TypeOK'
  BY <1>1, <1>2 DEF userWrite, TypeOK, SwapTypeOK, Slots
<1>5. \A q \in Pages : where[q] = "swap" => data'[q] = data[q]
  BY <1>1 DEF userWrite, TypeOK
<1>6. TransfersLocked'
  BY <1>2 DEF Inv, TransfersLocked
<1> QED
  BY <1>2, <1>3, <1>4, <1>5, <1>6
  DEF Inv, SwappedPagesSafe, NoSlotLost

\* A page of a new process is in memory.
LEMMA NewPageStep ==
  ASSUME Inv, NEW p \in Pages, NEW c \in Contents, newPage(p, c)
  PROVE  Inv'
<1>1. TypeOK /\ SwapTypeOK /\ TransfersLocked
  BY InvFacts
<1>2. UNCHANGED <<swapMap, used, swap_lock, disk, slot, op, readFailed,
                  panicked, closed>>
  BY DEF newPage, swapVars
<1>3. InFlight' = InFlight
  BY <1>2 DEF InFlight, Slots
<1>4. TypeOK'
  BY <1>1, <1>2 DEF newPage, TypeOK, SwapTypeOK, Slots
<1>5. \A q \in Pages : /\ q # p => where'[q] = where[q] /\ data'[q] = data[q]
                       /\ where'[p] = "ram" /\ where[p] = "gone"
  BY <1>1 DEF newPage, TypeOK
<1>6. \A t \in Threads : op[t] # NoOp => op[t].page \in Pages
  BY InvFacts, OpCases
<1>7. TransfersLocked'
  BY <1>1, <1>2, <1>5, <1>6 DEF TransfersLocked
<1>8. SwappedPagesSafe' /\ NoSlotLost'
  BY <1>2, <1>3, <1>5 DEF Inv, SwappedPagesSafe, NoSlotLost
<1> QED
  BY <1>2, <1>3, <1>4, <1>7, <1>8 DEF Inv

\* A panic, or close_swapfile, changes nothing the invariant speaks of.
LEMMA HaltStep ==
  ASSUME Inv,
         UNCHANGED <<swapVars, where, slot, data, op, readFailed>>,
         panicked' \in BOOLEAN, closed' \in BOOLEAN
  PROVE  Inv'
<1>1. InFlight' = InFlight
  BY DEF InFlight, Slots
<1>2. UNCHANGED <<swapMap, used, swap_lock, disk>>
  BY DEF swapVars
<1>3. TypeOK'
  BY <1>2 DEF Inv, TypeOK, SwapTypeOK, Slots
<1>4. TransfersLocked'
  BY <1>2 DEF Inv, TransfersLocked
<1>5. SwappedPagesSafe' /\ NoSlotLost'
  BY <1>1, <1>2 DEF Inv, SwappedPagesSafe, NoSlotLost
<1> QED
  BY <1>1, <1>2, <1>3, <1>4, <1>5 DEF Inv

\* swap_out marks a clear slot and begins the write; no page's slot is taken.
LEMMA BeginOutStep ==
  ASSUME Inv, NEW p \in Pages, NEW i \in Slots,
         Idle(Owner[p]), where[p] = "ram", swap_out_start(Owner[p], i),
         op' = [op EXCEPT ![Owner[p]] = [kind |-> "out", page |-> p, slot |-> i]],
         UNCHANGED <<where, slot, data, readFailed, panicked, closed>>
  PROVE  Inv'
<1> DEFINE t == Owner[p]
           o == [kind |-> "out", page |-> p, slot |-> i]
<1>1. TypeOK /\ SwapTypeOK /\ TransfersLocked /\ InFlight = {}
  BY InvFacts DEF swap_out_start
<1>2. t \in Threads
  BY OwnerAssumption
<1>3. o \in OutOp /\ o.kind = "out" /\ o.page = p /\ o.slot = i
  BY DEF OutOp
<1>4. \A u \in Threads : op[u] = NoOp
  BY <1>1, OneTransfer DEF swap_out_start
<1> HIDE DEF t, o
<1>5. op'[t] = o /\ \A u \in Threads : u # t => op'[u] = NoOp
  BY <1>1, <1>2, <1>4 DEF TypeOK, t, o
<1>6. UNCHANGED <<used, disk, where, slot, data, readFailed, panicked, closed>>
  BY DEF swap_out_start
<1>7. i \notin swapMap /\ swapMap' = swapMap \cup {i} /\ swap_lock' = t
  BY Zenon DEF swap_out_start, bitmap_alloc, t
<1>8. TypeOK'
  <2>1. op' \in [Threads -> Transfer \cup {NoOp}]
    BY Zenon, <1>1, <1>2, <1>3 DEF TypeOK, Transfer, OutOp, t, o
  <2> QED
    BY Zenon, <1>1, <1>2, <1>6, <1>7, <2>1 DEF TypeOK, SwapTypeOK, Slots
<1>9. InFlight' = {i}
  <2>1. \A u \in Threads : u # t => op'[u].kind # "out"
    BY <1>5 DEF NoOp
  <2>2. op'[t].kind = "out" /\ op'[t].slot = i /\ t \in Threads /\ i \in Slots
    BY ZenonT(30), <1>2, <1>3, <1>5
  <2>3. \A s \in Slots : (\E u \in Threads : op'[u].kind = "out" /\ op'[u].slot = s) <=> s = i
    BY <2>1, <2>2
  <2>4. Written(op') = {i}
    BY <2>2, <2>3 DEF Written
  <2> QED
    BY ZenonT(30), <2>4 DEF InFlight, Written, Slots
<1>10. swapMap' \ InFlight' = swapMap \ InFlight
  BY ZenonT(30), <1>1, <1>7, <1>9
<1>11. \A q \in Pages : where[q] = "swap" => slot[q] \in swapMap
  BY DEF Inv, SwappedPagesSafe
<1>12. TransfersLocked'
  <2> SUFFICES ASSUME NEW u \in Threads, op'[u] # NoOp
               PROVE  /\ swap_lock' = u
                      /\ Owner[op'[u].page] = u
                      /\ op'[u].kind = "out" =>
                           /\ where'[op'[u].page] = "ram"
                           /\ op'[u].slot \in swapMap'
                           /\ \A q \in Pages : where'[q] = "swap" => slot'[q] # op'[u].slot
                      /\ op'[u].kind = "in" => where'[op'[u].page] = "swap"
    BY Zenon DEF TransfersLocked
  <2>1. u = t /\ op'[u] = o
    BY Zenon, <1>5
  <2> QED
    BY <2>1, <1>3, <1>6, <1>7, <1>11 DEF t
<1>13. SwappedPagesSafe'
  BY ZenonT(30), <1>6, <1>10 DEF Inv, SwappedPagesSafe
<1>14. NoSlotLost'
  <2> SUFFICES ASSUME ~readFailed', NEW s \in swapMap'
               PROVE  s \in InFlight' \/ \E q \in Pages : where'[q] = "swap" /\ slot'[q] = s
    BY DEF NoSlotLost
  <2>1. ~readFailed
    BY <1>6
  <2>2. CASE s = i
    BY <1>9, <2>2
  <2>3. CASE s \in swapMap
    <3>1. \E q \in Pages : where[q] = "swap" /\ slot[q] = s
      BY <1>1, <2>1, <2>3 DEF Inv, NoSlotLost
    <3> QED
      BY <1>6, <3>1
  <2> QED
    BY <1>7, <2>2, <2>3
<1> QED
  BY <1>6, <1>8, <1>10, <1>12, <1>13, <1>14 DEF Inv

\* The end of swap_out: the page's bytes are in the slot, which now counts.
LEMMA EndOutStep ==
  ASSUME Inv, NEW t \in Threads, endOut(t)
  PROVE  Inv'
<1> DEFINE p == op[t].page
           i == op[t].slot
<1>1. TypeOK /\ SwapTypeOK /\ TransfersLocked /\ InFlight = {i}
  BY InvFacts DEF endOut
<1>2. op[t] # NoOp /\ op[t] \in OutOp /\ p \in Pages /\ i \in Slots
  BY InvFacts, OpCases DEF endOut
<1>3. /\ where[p] = "ram"
      /\ i \in swapMap
      /\ \A q \in Pages : where[q] = "swap" => slot[q] # i
  BY <1>1, <1>2 DEF TransfersLocked, endOut
<1>4. \A u \in Threads : u # t => op[u] = NoOp
  BY <1>1, <1>2, OneTransfer
<1>5. /\ disk' = [disk EXCEPT ![i] = data[p]]
      /\ used' = (used + 1) % USHORT
      /\ swap_lock' = NoThread
      /\ where' = [where EXCEPT ![p] = "swap"]
      /\ slot' = [slot EXCEPT ![p] = i]
      /\ op' = [op EXCEPT ![t] = NoOp]
      /\ UNCHANGED <<swapMap, data, readFailed, panicked, closed>>
  BY DEF endOut, swap_out_end
<1> HIDE DEF p, i
<1>6. \A u \in Threads : op'[u] = NoOp
  BY <1>1, <1>4, <1>5 DEF TypeOK
<1>7. InFlight' = {}
  BY <1>6 DEF InFlight, NoOp
<1>8. TypeOK'
  <2>1. disk' \in [Slots -> Contents] /\ where' \in [Pages -> {"ram", "swap", "gone"}]
        /\ slot' \in [Pages -> Slots] /\ op' \in [Threads -> Transfer \cup {NoOp}]
    BY <1>1, <1>2, <1>5 DEF TypeOK, SwapTypeOK
  <2>2. used' \in 0 .. USHORT - 1
    <3>1. used + 1 \in Int
      BY <1>1 DEF SwapTypeOK
    <3> QED
      BY <3>1, <1>5, UShort
  <2> QED
    BY <1>1, <1>5, <2>1, <2>2 DEF TypeOK, SwapTypeOK, Slots
<1>9. used' = Cardinality(swapMap' \ InFlight') % USHORT
  <2> DEFINE S == swapMap \ {i}
  <2>1. S \in SUBSET Slots /\ i \in Slots \ S /\ S \cup {i} = swapMap
    BY <1>1, <1>2, <1>3 DEF SwapTypeOK
  <2>2. used = Cardinality(S) % USHORT
    BY <1>1 DEF Inv
  <2>3. (used + 1) % USHORT = Cardinality(S \cup {i}) % USHORT
    BY Zenon, <2>1, <2>2, CountUp
  <2>4. swapMap' \ InFlight' = swapMap
    BY <1>5, <1>7
  <2> QED
    BY ZenonT(30), <1>5, <2>1, <2>3, <2>4
<1>10. TransfersLocked'
  BY <1>6 DEF TransfersLocked
<1>11. /\ where'[p] = "swap" /\ slot'[p] = i /\ disk'[i] = data[p]
       /\ \A q \in Pages : q # p => where'[q] = where[q] /\ slot'[q] = slot[q]
       /\ \A j \in Slots : j # i => disk'[j] = disk[j]
  BY <1>1, <1>2, <1>5 DEF TypeOK, SwapTypeOK
<1>12. SwappedPagesSafe'
  <2>1. \A q \in Pages : where[q] = "swap" =>
          /\ slot[q] \in swapMap /\ slot[q] \in Slots
          /\ disk[slot[q]] = data[q]
          /\ \A r \in Pages : where[r] = "swap" /\ slot[r] = slot[q] => r = q
    BY <1>1 DEF Inv, SwappedPagesSafe, TypeOK
  <2> SUFFICES ASSUME NEW q \in Pages, where'[q] = "swap"
               PROVE  /\ slot'[q] \in swapMap
                      /\ disk'[slot'[q]] = data[q]
                      /\ \A r \in Pages : where'[r] = "swap" /\ slot'[r] = slot'[q] => r = q
    BY ZenonT(30), <1>5, <1>7 DEF SwappedPagesSafe
  <2>2. CASE q = p
    BY <2>2, <1>3, <1>11
  <2>3. CASE q # p
    BY <2>1, <2>3, <1>3, <1>11
  <2> QED
    BY <2>2, <2>3
<1>13. NoSlotLost'
  BY <1>1, <1>2, <1>3, <1>5, <1>7, <1>11 DEF Inv, NoSlotLost
<1> QED
  BY <1>8, <1>9, <1>10, <1>12, <1>13 DEF Inv

\* swap_in takes the lock and begins the read.
LEMMA BeginInStep ==
  ASSUME Inv, NEW p \in Pages, beginIn(p)
  PROVE  Inv'
<1> DEFINE t == Owner[p]
           o == [kind |-> "in", page |-> p]
<1>1. TypeOK /\ SwapTypeOK /\ TransfersLocked /\ InFlight = {}
  BY InvFacts DEF beginIn, swap_in_start
<1>2. t \in Threads
  BY OwnerAssumption
<1>3. o \in InOp /\ o.kind = "in" /\ o.page = p
  BY DEF InOp
<1>4. \A u \in Threads : op[u] = NoOp
  BY Zenon, <1>1, OneTransfer DEF beginIn, swap_in_start
<1>5. /\ op' = [op EXCEPT ![t] = o] /\ swap_lock' = t /\ where[p] = "swap"
      /\ UNCHANGED <<swapMap, used, disk, where, slot, data, readFailed, panicked, closed>>
  BY DEF beginIn, swap_in_start
<1> HIDE DEF t, o
<1>6. op'[t] = o /\ \A u \in Threads : u # t => op'[u] = NoOp
  BY <1>1, <1>2, <1>4, <1>5 DEF TypeOK
<1>7. TypeOK'
  <2>1. op' \in [Threads -> Transfer \cup {NoOp}]
    BY Zenon, <1>1, <1>3, <1>5 DEF TypeOK, Transfer, InOp
  <2> QED
    BY Zenon, <1>1, <1>2, <1>5, <2>1 DEF TypeOK, SwapTypeOK, Slots
<1>8. InFlight' = {}
  BY <1>3, <1>6 DEF InFlight, NoOp
<1>9. TransfersLocked'
  BY <1>2, <1>3, <1>5, <1>6 DEF TransfersLocked, t
<1> QED
  BY Zenon, <1>1, <1>5, <1>7, <1>8, <1>9 DEF Inv, SwappedPagesSafe, NoSlotLost

\* A slot of a page in the swap file is given up when the page leaves it: the
\* end of swap_in and clear_swap.
LEMMA UnmarkStep ==
  ASSUME Inv, InFlight = {}, NEW p \in Pages, where[p] = "swap",
         swapMap' = swapMap \ {slot[p]}, used' = (used - 1) % USHORT,
         swap_lock' \in Threads \cup {NoThread},
         NEW w \in {"ram", "gone"}, where' = [where EXCEPT ![p] = w],
         data' \in [Pages -> Contents], \A q \in Pages : q # p => data'[q] = data[q],
         op' \in [Threads -> Transfer \cup {NoOp}], InFlight' = {},
         TransfersLocked',
         UNCHANGED <<disk, slot, readFailed, panicked, closed>>
  PROVE  Inv'
<1>1. TypeOK /\ SwapTypeOK
  BY InvFacts
<1>2. slot[p] \in swapMap /\ slot[p] \in Slots
  BY <1>1 DEF Inv, SwappedPagesSafe, TypeOK
<1>3. where'[p] = w /\ \A q \in Pages : q # p => where'[q] = where[q]
  BY <1>1 DEF TypeOK
<1>4. TypeOK'
  <2>1. used' \in 0 .. USHORT - 1
    <3>1. used - 1 \in Int
      BY <1>1 DEF SwapTypeOK
    <3> QED
      BY <3>1, UShort
  <2>2. where' \in [Pages -> {"ram", "swap", "gone"}]
    BY <1>1 DEF TypeOK
  <2> QED
    BY ZenonT(30), <1>1, <2>1, <2>2 DEF TypeOK, SwapTypeOK, Slots
<1>5. used' = Cardinality(swapMap' \ InFlight') % USHORT
  <2>1. swapMap \in SUBSET Slots
    BY <1>1 DEF SwapTypeOK
  <2>2. used = Cardinality(swapMap) % USHORT
    <3>1. swapMap \ InFlight = swapMap
      OBVIOUS
    <3> QED
      BY <3>1 DEF Inv
  <2>3. (used - 1) % USHORT = Cardinality(swapMap \ {slot[p]}) % USHORT
    BY <1>2, <2>1, <2>2, CountDown
  <2>4. swapMap' \ InFlight' = swapMap \ {slot[p]}
    BY ZenonT(30)
  <2> QED
    BY ZenonT(30), <2>3, <2>4
<1>6. \A q \in Pages : where[q] = "swap" /\ q # p => slot[q] # slot[p]
  BY DEF Inv, SwappedPagesSafe
<1>7. SwappedPagesSafe'
  BY <1>3, <1>6 DEF Inv, SwappedPagesSafe
<1>8. NoSlotLost'
  <2> SUFFICES ASSUME ~readFailed, NEW i \in swapMap \ {slot[p]}
               PROVE  \E q \in Pages : where'[q] = "swap" /\ slot[q] = i
    BY DEF NoSlotLost
  <2>1. PICK q \in Pages : where[q] = "swap" /\ slot[q] = i
    BY DEF Inv, NoSlotLost
  <2> QED
    BY <2>1, <1>3
<1> QED
  BY ZenonT(30), <1>4, <1>5, <1>7, <1>8 DEF Inv

\* The end of swap_in: the page is in memory again; its slot is free, or, if
\* the read failed, marked for ever and the lock with it.
LEMMA EndInStep ==
  ASSUME Inv, NEW t \in Threads, endIn(t)
  PROVE  Inv'
<1> DEFINE p == op[t].page
<1>1. TypeOK /\ SwapTypeOK /\ TransfersLocked /\ InFlight = {}
  BY InvFacts DEF endIn
<1>2. op[t] # NoOp /\ p \in Pages
  BY InvFacts, OpCases DEF endIn
<1>3. where[p] = "swap" /\ swap_lock = t
  BY <1>1, <1>2 DEF TransfersLocked, endIn
<1>4. \A u \in Threads : u # t => op[u] = NoOp
  BY ZenonT(30), <1>1, <1>2, OneTransfer
<1>5. /\ where' = [where EXCEPT ![p] = "ram"]
      /\ op' = [op EXCEPT ![t] = NoOp]
      /\ UNCHANGED <<slot, panicked, closed>>
  BY DEF endIn
<1>6. \/ /\ swap_in_end(t, slot[p], TRUE)
         /\ data' = [data EXCEPT ![p] = disk[slot[p]]]
         /\ readFailed' = readFailed
      \/ /\ swap_in_fail(t)
         /\ data' = data
         /\ readFailed' = TRUE
  BY Zenon DEF endIn
<1> HIDE DEF p
<1>7. \A u \in Threads : op'[u] = NoOp
  BY <1>1, <1>4, <1>5 DEF TypeOK
<1>8. InFlight' = {}
  BY <1>7 DEF InFlight, NoOp
<1>9. TransfersLocked'
  BY <1>7 DEF TransfersLocked
<1>10. op' \in [Threads -> Transfer \cup {NoOp}]
  BY Zenon, <1>1, <1>5 DEF TypeOK
<1>11. CASE /\ swap_in_end(t, slot[p], TRUE)
            /\ data' = [data EXCEPT ![p] = disk[slot[p]]]
            /\ readFailed' = readFailed
  <2>1. data' \in [Pages -> Contents] /\ \A q \in Pages : q # p => data'[q] = data[q]
    BY <1>1, <1>2, <1>11 DEF TypeOK, SwapTypeOK
  <2>2. /\ swapMap' = swapMap \ {slot[p]}
        /\ used' = (used - 1) % USHORT
        /\ swap_lock' \in Threads \cup {NoThread}
        /\ UNCHANGED disk
    BY <1>11 DEF swap_in_end
  <2> QED
    BY ZenonT(30), <1>1, <1>2, <1>3, <1>5, <1>8, <1>9, <1>10, <1>11, <2>1, <2>2, UnmarkStep
<1>12. CASE /\ swap_in_fail(t)
            /\ data' = data
            /\ readFailed' = TRUE
  <2>1. UNCHANGED <<swapMap, used, swap_lock, disk>>
    BY <1>12 DEF swap_in_fail, swapVars
  <2>2. \A q \in Pages : where'[q] = "swap" => where[q] = "swap"
    BY Zenon, <1>1, <1>2, <1>5 DEF TypeOK
  <2>3. TypeOK'
    BY ZenonT(30), <1>1, <1>5, <1>10, <1>12, <2>1 DEF TypeOK, SwapTypeOK, Slots
  <2>4. SwappedPagesSafe'
    BY <1>1, <1>5, <1>8, <1>12, <2>1, <2>2 DEF Inv, SwappedPagesSafe
  <2> QED
    BY <1>1, <1>8, <1>9, <1>12, <2>1, <2>3, <2>4 DEF Inv, NoSlotLost
<1> QED
  BY Zenon, <1>6, <1>11, <1>12

\* as_destroy drops a page, and with clear_swap the slot it had.
LEMMA DropStep ==
  ASSUME Inv, NEW p \in Pages, drop(p)
  PROVE  Inv'
<1>1. TypeOK /\ SwapTypeOK /\ TransfersLocked
  BY ZenonT(30), InvFacts
<1>2. /\ where' = [where EXCEPT ![p] = "gone"]
      /\ UNCHANGED <<slot, data, op, readFailed, panicked, closed>>
  BY DEF drop
<1>3. Owner[p] \in Threads /\ op[Owner[p]] = NoOp
  BY OwnerAssumption DEF drop, Idle
<1>4. where'[p] = "gone" /\ \A q \in Pages : q # p => where'[q] = where[q]
  BY <1>1, <1>2 DEF TypeOK
<1>5. InFlight' = InFlight
  BY Zenon, <1>2 DEF InFlight, Slots
<1>6. \A t \in Threads : op[t] # NoOp => op[t].page \in Pages /\ op[t].page # p
  <2> SUFFICES ASSUME NEW t \in Threads, op[t] # NoOp
               PROVE  op[t].page \in Pages /\ op[t].page # p
    BY Zenon
  <2>1. op[t] \in Transfer \cup {NoOp} /\ TransfersLocked
    BY Zenon, InvFacts
  <2>2. op[t].page \in Pages
    BY Zenon, <2>1, OpCases
  <2>3. Owner[op[t].page] = t
    BY Zenon, <2>1 DEF TransfersLocked
  <2> QED
    BY Zenon, <1>3, <2>2, <2>3
<1>7. CASE where[p] = "swap" /\ clear_swap(slot[p])
  <2>1. /\ swap_lock = NoThread
        /\ swapMap' = swapMap \ {slot[p]}
        /\ used' = (used - 1) % USHORT
        /\ UNCHANGED <<swap_lock, disk>>
    BY <1>7 DEF clear_swap
  <2>2. InFlight = {} /\ swap_lock' \in Threads \cup {NoThread}
    BY <2>1, InvFacts
  <2>3. \A t \in Threads : op'[t] = NoOp
    BY Zenon, <1>1, <1>2, <2>1, OneTransfer
  <2>4. TransfersLocked'
    BY <2>3 DEF TransfersLocked
  <2>5. data' \in [Pages -> Contents] /\ op' \in [Threads -> Transfer \cup {NoOp}]
        /\ \A q \in Pages : q # p => data'[q] = data[q]
    BY <1>1, <1>2 DEF TypeOK
  <2> QED
    BY Zenon, <1>2, <1>5, <1>7, <2>1, <2>2, <2>4, <2>5, UnmarkStep
<1>8. CASE where[p] = "ram" /\ UNCHANGED swapVars
  <2>1. UNCHANGED <<swapMap, used, swap_lock, disk>>
    BY <1>8 DEF swapVars
  <2>2. TypeOK'
    BY Zenon, <1>1, <1>2, <2>1 DEF TypeOK, SwapTypeOK, Slots
  <2>3. TransfersLocked'
    BY <1>1, <1>2, <1>4, <1>6, <2>1 DEF TransfersLocked
  <2>4. SwappedPagesSafe' /\ NoSlotLost'
    BY <1>2, <1>4, <1>5, <1>8, <2>1 DEF Inv, SwappedPagesSafe, NoSlotLost
  <2> QED
    BY <1>5, <2>1, <2>2, <2>3, <2>4 DEF Inv
<1> QED
  BY <1>7, <1>8 DEF drop

-----------------------------------------------------------------------------

\* Every step of a client of swapfile.c keeps the invariant.
LEMMA NextInv == Inv /\ [Next]_vars => Inv'
<1> SUFFICES ASSUME Inv, [Next]_vars PROVE Inv'
  OBVIOUS
<1>1. panicked \in BOOLEAN /\ closed \in BOOLEAN
  BY Zenon DEF Inv, TypeOK
<1>2. ASSUME NEW p \in Pages, beginOut(p) PROVE Inv'
  <2>1. CASE swap_out_nospace /\ panicked' = TRUE
             /\ UNCHANGED <<swapVars, where, slot, data, op, readFailed, closed>>
    BY <2>1, <1>1, HaltStep
  <2>2. ASSUME NEW i \in Slots,
               swap_out_start(Owner[p], i),
               op' = [op EXCEPT ![Owner[p]] = [kind |-> "out", page |-> p, slot |-> i]],
               UNCHANGED <<where, slot, data, readFailed, panicked, closed>>
        PROVE  Inv'
    BY Zenon, <1>2, <2>2, BeginOutStep DEF beginOut
  <2> QED
    BY Zenon, <1>2, <2>1, <2>2 DEF beginOut
<1>3. ASSUME NEW t \in Threads, acquireOwnLock(t) PROVE Inv'
  BY <1>1, <1>3, HaltStep DEF acquireOwnLock
<1>6. ASSUME NEW t \in Threads, outFails(t) PROVE Inv'
  BY <1>1, <1>6, HaltStep DEF outFails, swap_out_fail
<1>4. CASE close_swapfile
  BY <1>1, <1>4, HaltStep DEF close_swapfile
<1>5. CASE UNCHANGED vars
  BY <1>1, <1>5, HaltStep DEF vars, clientVars
<1> QED
  BY <1>2, <1>3, <1>4, <1>5, <1>6, UserWriteStep, EndOutStep, BeginInStep, EndInStep,
     DropStep, NewPageStep
  DEF Next, halted

\* The invariant holds in every reachable state.
LEMMA SwapInvariant == Spec => []Inv
  BY InitInv, NextInv, PTL DEF Spec

\* The count of swapfile.c is the number of marked slots, less one being
\* written, as an unsigned short, after any mix of swap_out, swap_in, failed
\* reads and clear_swap by any number of threads.
THEOREM UsedCount == Spec => []UsedCountsSlots
<1>1. Inv => UsedCountsSlots
  BY DEF Inv, UsedCountsSlots
<1> QED
  BY <1>1, SwapInvariant, PTL

\* A page that was swapped out has a slot of its own, marked, with what the
\* process last had in the page.
THEOREM SwappedPages == Spec => []SwappedPagesSafe
<1>1. Inv => SwappedPagesSafe
  BY DEF Inv
<1> QED
  BY <1>1, SwapInvariant, PTL

\* Only a failed read of the swap file loses a slot.
THEOREM SlotsKept == Spec => []NoSlotLost
<1>1. Inv => NoSlotLost
  BY DEF Inv
<1> QED
  BY <1>1, SwapInvariant, PTL

=============================================================================

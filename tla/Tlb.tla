-------------------------------- MODULE Tlb ---------------------------------
(***************************************************************************)
(* The software-managed TLB, kern/vm/vm_tlb.c.  Every operation raises the *)
(* interrupt level around its accesses, so each is one atomic step.  The   *)
(* registers themselves (tlb_read, tlb_write, tlb_probe) are the MIPS      *)
(* processor's.                                                            *)
(***************************************************************************)
EXTENDS Integers

CONSTANTS
  NUM_TLB,       \* entries in the TLB
  VPages,        \* virtual page numbers
  PFrames        \* physical page numbers

ASSUME TlbAssumption == NUM_TLB \in Nat \ {0}

VARIABLES
  tlb,           \* the entries
  tlb_full,      \* static of vm_tlb.c, set once and never cleared
  next_victim    \* static of tlb_get_rr_victim

tlbVars == <<tlb, tlb_full, next_victim>>

Entries == 0 .. NUM_TLB - 1

INVALID == [valid |-> FALSE]
TlbEntry == [valid : {TRUE}, vpage : VPages, ppage : PFrames, dirty : BOOLEAN]

TlbTypeOK ==
  /\ tlb \in [Entries -> TlbEntry \cup {INVALID}]
  /\ tlb_full \in BOOLEAN
  /\ next_victim \in Entries

tlb_reset ==
  /\ tlb = [k \in Entries |-> INVALID]
  /\ tlb_full = FALSE
  /\ next_victim = 0

\* tlb_probe: the entries that translate page v.
tlb_probe(v) == {k \in Entries : tlb[k].valid /\ tlb[k].vpage = v}

FreeEntries == {k \in Entries : ~tlb[k].valid}

-----------------------------------------------------------------------------

tlb_get_rr_victim ==
  next_victim' = (next_victim + 1) % NUM_TLB

\* The first invalid entry while the TLB has never been found full; a round
\* robin victim from then on, whether or not there are invalid entries.
tlb_loadentry(v, p, readOnly) ==
  LET e == [valid |-> TRUE, vpage |-> v, ppage |-> p, dirty |-> ~readOnly] IN
  \/ /\ ~tlb_full
     /\ \E k \in FreeEntries :
          /\ \A j \in FreeEntries : k <= j
          /\ tlb' = [tlb EXCEPT ![k] = e]
     /\ UNCHANGED <<tlb_full, next_victim>>
  \/ /\ tlb_full \/ FreeEntries = {}
     /\ tlb_full' = TRUE
     /\ tlb' = [tlb EXCEPT ![next_victim] = e]
     /\ tlb_get_rr_victim

tlb_invalidate ==
  /\ tlb' = [k \in Entries |-> INVALID]
  /\ UNCHANGED <<tlb_full, next_victim>>

tlb_invalidate_vaddr_none(v) == UNCHANGED tlbVars

\* tlb_probe returns one entry that matches.
tlb_invalidate_vaddr(v) ==
  /\ \/ \E k \in tlb_probe(v) : tlb' = [tlb EXCEPT ![k] = INVALID]
     \/ tlb_probe(v) = {} /\ UNCHANGED tlb
  /\ UNCHANGED <<tlb_full, next_victim>>

=============================================================================

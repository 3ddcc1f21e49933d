------------------------------ MODULE Swapfile ------------------------------
(***************************************************************************)
(* The swap file, kern/vm/swapfile.c.                                      *)
(*                                                                         *)
(* swap_in and swap_out sleep in the disk driver while they hold the sleep *)
(* lock swap_lock, so each is two steps: up to the start of the transfer,  *)
(* and from its end.  Between the two any other thread may run.            *)
(* clear_swap and getAvailableSwap do not sleep once they hold the lock.   *)
(***************************************************************************)
EXTENDS Integers, FiniteSets

CONSTANTS
  NSlots,        \* pages the swap file has room for
  PAGE_SIZE,     \* bytes in a page
  Threads,       \* the threads that use the swap file
  NoThread,      \* the value of lk_owner when the lock is free
  Contents       \* what a page can hold

ASSUME SwapfileAssumption ==
  /\ NSlots \in Nat \ {0}
  /\ PAGE_SIZE \in Nat \ {0}
  /\ NoThread \notin Threads

VARIABLES
  swapMap,       \* the slots marked in the bitmap
  used,          \* count of slots in use, an unsigned short
  swap_lock,     \* the thread that owns the lock, or NoThread
  disk           \* disk[i]: what was last written to slot i

swapVars == <<swapMap, used, swap_lock, disk>>

Slots == 0 .. NSlots - 1
swapFileSize == NSlots * PAGE_SIZE          \* in bytes, from VOP_STAT
USHORT == 65536                             \* values of an unsigned short

SwapTypeOK ==
  /\ swapMap \subseteq Slots
  /\ used \in 0 .. USHORT - 1
  /\ swap_lock \in Threads \cup {NoThread}
  /\ disk \in [Slots -> Contents]

swapmap_init ==
  /\ swapMap = {}
  /\ used = 0
  /\ swap_lock = NoThread
  /\ disk \in [Slots -> Contents]

-----------------------------------------------------------------------------

\* bitmap_alloc: some clear bit, which is set.
bitmap_alloc_noMark(i) ==
  /\ i \in Slots \ swapMap
  /\ UNCHANGED swapMap

bitmap_alloc(i) ==
  /\ i \in Slots \ swapMap
  /\ swapMap' = swapMap \cup {i}

\* swap_out up to VOP_WRITE: slot i is allocated for the page.  The first test
\* compares a number of pages with a number of bytes.
swap_out_start(t, i) ==
  /\ swap_lock = NoThread
  /\ used # swapFileSize
  /\ bitmap_alloc(i)
  /\ swap_lock' = t
  /\ UNCHANGED <<used, disk>>

\* swap_out when bitmap_alloc finds no clear bit: ENOSPC, the lock is released.
swap_out_nospace ==
  /\ swap_lock = NoThread
  /\ used # swapFileSize
  /\ swapMap = Slots

\* swap_out from the end of VOP_WRITE.
swap_out_end(t, i, c) ==
  /\ swap_lock = t
  /\ disk' = [disk EXCEPT ![i] = c]
  /\ used' = (used + 1) % USHORT
  /\ swap_lock' = NoThread
  /\ UNCHANGED swapMap

\* swap_out when VOP_WRITE fails: the assertion on its result fails, with the
\* lock held.
swap_out_fail(t) ==
  /\ swap_lock = t
  /\ UNCHANGED swapVars

\* swap_in up to the read in load_segment.
swap_in_start(t) ==
  /\ swap_lock = NoThread
  /\ swap_lock' = t
  /\ UNCHANGED <<swapMap, used, disk>>

\* swap_in from the end of a successful read of slot i.
swap_in_keepsCount(t, i, toRemove) ==
  /\ swap_lock = t
  /\ i \in swapMap
  /\ swapMap' = IF toRemove THEN swapMap \ {i} ELSE swapMap
  /\ used' = used
  /\ swap_lock' = NoThread
  /\ UNCHANGED disk

swap_in_noRelease(t, i, toRemove) ==
  /\ swap_lock = t
  /\ i \in swapMap
  /\ swapMap' = IF toRemove THEN swapMap \ {i} ELSE swapMap
  /\ used' = IF toRemove THEN (used - 1) % USHORT ELSE used
  /\ UNCHANGED <<swap_lock, disk>>

swap_in_end(t, i, toRemove) ==
  /\ swap_lock = t
  /\ i \in swapMap
  /\ swapMap' = IF toRemove THEN swapMap \ {i} ELSE swapMap
  /\ used' = IF toRemove THEN (used - 1) % USHORT ELSE used
  /\ swap_lock' = NoThread
  /\ UNCHANGED disk

\* swap_in when the read fails: it returns with the lock held.
swap_in_fail(t) ==
  /\ swap_lock = t
  /\ UNCHANGED swapVars

clear_swap_noUnmark(i) ==
  /\ swap_lock = NoThread
  /\ i \in swapMap
  /\ used' = (used - 1) % USHORT
  /\ UNCHANGED <<swapMap, swap_lock, disk>>

clear_swap(i) ==
  /\ swap_lock = NoThread
  /\ i \in swapMap
  /\ swapMap' = swapMap \ {i}
  /\ used' = (used - 1) % USHORT
  /\ UNCHANGED <<swap_lock, disk>>

\* Bytes less pages, not pages less pages.
getAvailableSwap == swapFileSize - used

=============================================================================

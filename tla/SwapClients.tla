---------------------------- MODULE SwapClients -----------------------------
(***************************************************************************)
(* The swap file with the threads that use it: each owns some pages, which *)
(* it writes while they are in memory, swaps out (getPage), swaps in       *)
(* (vm_fault) and drops (as_destroy).                                      *)
(***************************************************************************)
EXTENDS Swapfile

CONSTANTS
  Pages,         \* the writable pages
  Owner          \* Owner[p]: the thread whose process has page p

ASSUME OwnerAssumption == Owner \in [Pages -> Threads]

VARIABLES
  where,         \* where[p]: "ram", "swap" (in_swap is set) or "gone"
  slot,          \* slot[p]: the slot number in pt.paddr while in_swap is set
  data,          \* data[p]: what the process last saw in page p
  op,            \* op[t]: the transfer thread t has begun
  readFailed,    \* some read of the swap file failed
  panicked,      \* a KASSERT on the swap file or its lock failed
  closed         \* close_swapfile has destroyed the bitmap

clientVars == <<where, slot, data, op, readFailed, panicked, closed>>
vars == <<swapVars, clientVars>>

NoOp == [kind |-> "none"]
Transfer == [kind : {"out"}, page : Pages, slot : Slots]
       \cup [kind : {"in"}, page : Pages]

Init ==
  /\ swapmap_init
  /\ where = [p \in Pages |-> "ram"]
  /\ slot = [p \in Pages |-> 0]
  /\ data \in [Pages -> Contents]
  /\ op = [t \in Threads |-> NoOp]
  /\ readFailed = FALSE
  /\ panicked = FALSE
  /\ closed = FALSE

Idle(t) == ~panicked /\ ~closed /\ op[t] = NoOp

userWrite(p, c) ==
  /\ Idle(Owner[p])
  /\ where[p] = "ram"
  /\ data' = [data EXCEPT ![p] = c]
  /\ UNCHANGED <<swapVars, where, slot, op, readFailed, panicked, closed>>

beginOut(p) ==
  /\ Idle(Owner[p])
  /\ where[p] = "ram"
  /\ \/ \E i \in Slots :
          /\ swap_out_start(Owner[p], i)
          /\ op' = [op EXCEPT ![Owner[p]] = [kind |-> "out", page |-> p, slot |-> i]]
          /\ UNCHANGED <<where, slot, data, readFailed, panicked, closed>>
     \/ /\ swap_out_nospace
        /\ panicked' = TRUE
        /\ UNCHANGED <<swapVars, where, slot, data, op, readFailed, closed>>

endOut(t) ==
  /\ ~panicked
  /\ op[t].kind = "out"
  /\ swap_out_end(t, op[t].slot, data[op[t].page])
  /\ where' = [where EXCEPT ![op[t].page] = "swap"]
  /\ slot' = [slot EXCEPT ![op[t].page] = op[t].slot]
  /\ op' = [op EXCEPT ![t] = NoOp]
  /\ UNCHANGED <<data, readFailed, panicked, closed>>

outFails(t) ==
  /\ ~panicked
  /\ op[t].kind = "out"
  /\ swap_out_fail(t)
  /\ panicked' = TRUE
  /\ UNCHANGED <<where, slot, data, op, readFailed, closed>>

beginIn(p) ==
  /\ Idle(Owner[p])
  /\ where[p] = "swap"
  /\ swap_in_start(Owner[p])
  /\ op' = [op EXCEPT ![Owner[p]] = [kind |-> "in", page |-> p]]
  /\ UNCHANGED <<where, slot, data, readFailed, panicked, closed>>

\* vm_fault clears in_swap whatever swap_in returned.
endIn(t) ==
  /\ ~panicked
  /\ op[t].kind = "in"
  /\ LET p == op[t].page IN
       /\ \/ /\ swap_in_end(t, slot[p], TRUE)
             /\ data' = [data EXCEPT ![p] = disk[slot[p]]]
             /\ readFailed' = readFailed
          \/ /\ swap_in_fail(t)
             /\ data' = data
             /\ readFailed' = TRUE
       /\ where' = [where EXCEPT ![p] = "ram"]
  /\ op' = [op EXCEPT ![t] = NoOp]
  /\ UNCHANGED <<slot, panicked, closed>>

\* as_destroy, by whichever thread waits for the owner's process.
drop(p) ==
  /\ Idle(Owner[p])
  /\ \/ where[p] = "swap" /\ clear_swap(slot[p])
     \/ where[p] = "ram" /\ UNCHANGED swapVars
  /\ where' = [where EXCEPT ![p] = "gone"]
  /\ UNCHANGED <<slot, data, op, readFailed, panicked, closed>>

\* A page of a new process takes the place of a dropped one.
newPage(p, c) ==
  /\ ~panicked /\ ~closed
  /\ where[p] = "gone"
  /\ where' = [where EXCEPT ![p] = "ram"]
  /\ data' = [data EXCEPT ![p] = c]
  /\ UNCHANGED <<swapVars, slot, op, readFailed, panicked, closed>>

\* lock_acquire of the lock its own failed swap_in left held: the KASSERT on
\* lock_do_i_hold fails.  (Any other thread sleeps on the lock for ever.)
acquireOwnLock(t) ==
  /\ Idle(t)
  /\ swap_lock = t
  /\ panicked' = TRUE
  /\ UNCHANGED <<swapVars, where, slot, data, op, readFailed, closed>>

\* close_swapfile, in shutdown, by the thread that stops the machine: it has to
\* wait for a transfer.  What programs that are left do afterwards is undefined.
close_swapfile ==
  /\ ~panicked /\ ~closed
  /\ swap_lock = NoThread
  /\ closed' = TRUE
  /\ UNCHANGED <<swapVars, where, slot, data, op, readFailed, panicked>>

halted == (panicked \/ closed) /\ UNCHANGED vars

Next ==
  \/ \E p \in Pages, c \in Contents : userWrite(p, c)
  \/ \E p \in Pages : beginOut(p)
  \/ \E t \in Threads : endOut(t) \/ outFails(t)
  \/ \E p \in Pages : beginIn(p)
  \/ \E t \in Threads : endIn(t)
  \/ \E p \in Pages : drop(p)
  \/ \E p \in Pages, c \in Contents : newPage(p, c)
  \/ \E t \in Threads : acquireOwnLock(t)
  \/ close_swapfile
  \/ halted

Spec == Init /\ [][Next]_vars

\* A transfer that was begun ends: the disk answers, and the timer gives the
\* sleeping thread the CPU again.
Fairness == \A t \in Threads : WF_vars(endOut(t)) /\ WF_vars(endIn(t))

FairSpec == Spec /\ Fairness

-----------------------------------------------------------------------------

\* Every variable keeps its type; used stays an unsigned short and the lock's
\* owner is a thread.
TypeOK ==
  /\ SwapTypeOK
  /\ where \in [Pages -> {"ram", "swap", "gone"}]
  /\ slot \in [Pages -> Slots]
  /\ data \in [Pages -> Contents]
  /\ op \in [Threads -> Transfer \cup {NoOp}]
  /\ readFailed \in BOOLEAN
  /\ panicked \in BOOLEAN
  /\ closed \in BOOLEAN

\* The slot a swap_out in progress has marked but not yet counted.
InFlight == {i \in Slots : \E t \in Threads : op[t].kind = "out" /\ op[t].slot = i}

\* used is the number of marked slots (less one whose write is in progress),
\* reduced to an unsigned short, whatever mix of swap_out, swap_in, failed
\* reads and clear_swap was run and in whatever order the threads ran it.
UsedCountsSlots == TypeOK /\ used = Cardinality(swapMap \ InFlight) % USHORT

\* A page in the swap file has a marked slot that no other page and no
\* transfer has, and finds there what the process last had in it.
SwappedPagesSafe ==
  \A p \in Pages : where[p] = "swap" =>
    /\ slot[p] \in swapMap \ InFlight
    /\ disk[slot[p]] = data[p]
    /\ \A q \in Pages : where[q] = "swap" /\ slot[q] = slot[p] => q = p

\* No slot is lost unless a read failed: a marked slot is a page's or is being
\* written.
NoSlotLost ==
  ~readFailed =>
    \A i \in swapMap :
      i \in InFlight \/ \E p \in Pages : where[p] = "swap" /\ slot[p] = i

\* A thread that takes swap_lock gives it back, unless a read of the swap
\* file failed (swap_in then returns with the lock held) or a write did (the
\* kernel panics).
LockGivenBack ==
  \A t \in Threads : swap_lock = t ~> (swap_lock = NoThread \/ readFailed \/ panicked)

=============================================================================

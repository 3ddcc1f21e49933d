------------------------------ MODULE VmStats -------------------------------
(***************************************************************************)
(* The statistics of kern/vm/vmstats.c, and the page faults and context    *)
(* switches that count into them.                                          *)
(*                                                                         *)
(* One CPU.  counters[i]++ is a load and a store, between which the timer  *)
(* may switch threads unless interrupts are off.  A thread that is         *)
(* switched to flushes the TLB, and counts that inside thread_switch: with *)
(* the lock if it had gone to sleep, without if the timer had taken the    *)
(* CPU from it (checkcanLock).  Threads come and go in module Menu.        *)
(***************************************************************************)
EXTENDS Integers, Sequences, FiniteSets, SequencesExt

CONSTANTS
  Users,         \* threads of user programs
  menu,          \* the thread of the menu, which has no address space
  MaxFaults,     \* page faults a thread has
  MaxNest,       \* flushes a thread may owe; more count as MaxNest
  NULL

ASSUME VmStatsAssumption ==
  /\ menu \notin Users /\ NULL \notin Users \cup {menu}
  /\ MaxFaults \in Nat /\ MaxNest \in Nat \ {0}

VARIABLES
  counters,
  st,            \* st[t]: what thread t is doing
  home,          \* home[t]: "load" in runprogram, "user" in its program; "none" without address space
  index,         \* index[t]: the counter thread t is about to increment, or NULL
  reg,           \* reg[t]: the value thread t has loaded
  owes,          \* owes[t]: flushes t has still to count, asleep in thread_switch
  preempted,     \* the threads the timer took the CPU from (t_in_interrupt)
  faults,        \* faults[t]: page faults thread t has had
  curthread,     \* NULL while the CPU idles
  runqueue,
  sem_count,     \* of the semaphore of stats_lock
  waiters,       \* threads asleep on it
  stats_lock,    \* "there", or "destroyed"
  freed          \* a destroyed stats_lock was used

threadVars == <<st, home, index, reg, owes, preempted, faults>>
cpuVars == <<curthread, runqueue>>
lockVars == <<sem_count, waiters, stats_lock, freed>>
statVars == <<counters, threadVars, cpuVars, lockVars>>

Threads == Users \cup {menu}

\* The counters vm_stats_print compares.  The values of the other two,
\* TLB_INVALIDATION and SWAP_WRITE, are left out; the locking for them is not.
Compared == {"TLB_FAULT", "TLB_FAULT_WITH_FREE", "TLB_FAULT_WITH_REPLACE", "TLB_RELOAD",
             "PAGE_FAULT_ZEROED", "PAGE_FAULT_DISK", "ELF_READ", "SWAP_READ"}

vm_stats_init ==
  /\ counters = [i \in Compared |-> 0]
  /\ sem_count = 1 /\ waiters = <<>> /\ stats_lock = "there" /\ freed = FALSE

halted == \E t \in Threads : st[t] = "halted"
On(t, pc) == curthread = t /\ st[t] = pc /\ ~halted /\ ~freed
Goes(t, pc) == st' = [st EXCEPT ![t] = pc]

-----------------------------------------------------------------------------
\* The lock: a semaphore, whose waiters V wakes one at a time.

\* The waiters that n calls of V wake.
woken(n) == SubSeq(waiters, 1, IF n < Len(waiters) THEN n ELSE Len(waiters))

lock_release_noWake ==
  sem_count' = sem_count + 1 /\ UNCHANGED <<runqueue, waiters, stats_lock, freed, curthread>>

lock_release ==
  /\ sem_count' = sem_count + 1
  /\ runqueue' = runqueue \o woken(1)
  /\ waiters' = SubSeq(waiters, Len(woken(1)) + 1, Len(waiters))
  /\ UNCHANGED <<stats_lock, freed, curthread>>

SleepOnLock(t) ==
  /\ waiters' = Append(waiters, t)
  /\ curthread' = NULL
  /\ UNCHANGED <<sem_count, stats_lock, freed>>

UseFreedLock == freed' = TRUE /\ UNCHANGED <<sem_count, waiters, stats_lock>>

\* checkcanLock is 1, the lock is not taken, in an interrupt.
checkcanLock(t) == t \in preempted

-----------------------------------------------------------------------------
\* vm_stats_inc, outside thread_switch: up to the load, and from the store on.

load(t) ==
  reg' = [reg EXCEPT ![t] = IF index[t] \in Compared THEN counters[index[t]] ELSE 0]

store(t) ==
  counters' = [i \in Compared |-> IF i = index[t] THEN reg[t] + 1 ELSE counters[i]]

vm_stats_inc_noLock(t) ==
  /\ On(t, "inc")
  /\ Goes(t, "loaded") /\ load(t)
  /\ UNCHANGED <<counters, home, index, owes, preempted, faults, cpuVars, lockVars>>

vm_stats_inc(t) ==
  /\ On(t, "inc")
  /\ \/ /\ stats_lock = "there" /\ sem_count > 0
        /\ sem_count' = sem_count - 1
        /\ Goes(t, "loaded") /\ load(t)
        /\ UNCHANGED <<waiters, stats_lock, freed, cpuVars>>
     \/ stats_lock = "there" /\ sem_count = 0 /\ SleepOnLock(t) /\ UNCHANGED <<st, reg, runqueue>>
     \/ stats_lock = "destroyed" /\ UseFreedLock /\ UNCHANGED <<st, reg, cpuVars>>
  /\ UNCHANGED <<counters, home, index, owes, preempted, faults>>

\* What vm_fault, with getPage and tlb_loadentry, counts next: the page is in
\* memory, is a page of the stack, or comes from the program or the swap file,
\* and unless it is in memory another may first have to go to the swap file.
counts(i) ==
  LET page == {"PAGE_FAULT_ZEROED", "ELF_READ", "SWAP_READ"}
  IN  CASE i = "TLB_FAULT" -> page \cup {"TLB_RELOAD", "SWAP_WRITE"}
        [] i = "SWAP_WRITE" -> page
        [] i \in {"ELF_READ", "SWAP_READ"} -> {"PAGE_FAULT_DISK"}
        [] i \in {"TLB_RELOAD", "PAGE_FAULT_ZEROED", "PAGE_FAULT_DISK"} ->
             {"TLB_FAULT_WITH_FREE", "TLB_FAULT_WITH_REPLACE"}
        [] OTHER -> {NULL}

\* The disk is read or written before that is counted.
leads(t, i) ==
  IF i = NULL THEN home[t]
  ELSE IF i \in {"ELF_READ", "SWAP_READ", "SWAP_WRITE"} THEN "disk" ELSE "inc"

_vm_stats_inc(t) ==
  /\ On(t, "loaded")
  /\ store(t)
  /\ \E i \in counts(index[t]) : index' = [index EXCEPT ![t] = i] /\ Goes(t, leads(t, i))
  /\ reg' = [reg EXCEPT ![t] = 0]
  /\ lock_release
  /\ UNCHANGED <<home, owes, preempted, faults>>

vm_fault(t) ==
  /\ On(t, home[t]) /\ t \in Users /\ faults[t] < MaxFaults
  /\ faults' = [faults EXCEPT ![t] = @ + 1]
  /\ index' = [index EXCEPT ![t] = "TLB_FAULT"]
  /\ Goes(t, "inc")
  /\ UNCHANGED <<counters, home, reg, owes, preempted, cpuVars, lockVars>>

-----------------------------------------------------------------------------
\* The CPU.

\* A read or write of the disk, in which the thread sleeps; its end.
disk(t) ==
  /\ On(t, "disk")
  /\ Goes(t, "io") /\ curthread' = NULL
  /\ UNCHANGED <<counters, home, index, reg, owes, preempted, faults, runqueue, lockVars>>

disk_done(t) ==
  /\ st[t] = "io" /\ ~halted /\ ~freed
  /\ Goes(t, "inc") /\ runqueue' = Append(runqueue, t)
  /\ UNCHANGED <<counters, home, index, reg, owes, preempted, faults, curthread, lockVars>>

\* The timer.
hardclock(t) ==
  /\ curthread = t /\ t # NULL /\ runqueue # <<>> /\ ~halted /\ ~freed
  /\ curthread' = NULL /\ runqueue' = Append(runqueue, t)
  /\ preempted' = preempted \cup {t}
  /\ UNCHANGED <<counters, st, home, index, reg, owes, faults, lockVars>>

\* thread_switch, from the choice of the next thread on.  Interrupts are off,
\* so that here vm_stats_inc is one step.  With the lock taken, t sleeps again,
\* to find itself here again, with one flush more to count.
hasAs_always(t) == st[t] # "none"

hasAs(t) == home[t] # "none"

thread_switch(t) ==
  /\ curthread = NULL /\ runqueue # <<>> /\ Head(runqueue) = t /\ ~halted /\ ~freed
  /\ preempted' = preempted \ {t}
  /\ \/ /\ ~hasAs(t) \/ checkcanLock(t)
        /\ curthread' = t /\ runqueue' = Tail(runqueue)
        /\ UNCHANGED <<owes, lockVars>>
     \/ /\ hasAs(t) /\ ~checkcanLock(t) /\ stats_lock = "there" /\ sem_count > 0
        /\ owes' = [owes EXCEPT ![t] = 0]
        /\ waiters' = SubSeq(waiters, Len(woken(owes[t] + 1)) + 1, Len(waiters))
        /\ runqueue' = Tail(runqueue) \o woken(owes[t] + 1)
        /\ curthread' = t
        /\ UNCHANGED <<sem_count, stats_lock, freed>>
     \/ /\ hasAs(t) /\ ~checkcanLock(t) /\ stats_lock = "there" /\ sem_count = 0
        /\ owes' = [owes EXCEPT ![t] = IF @ < MaxNest THEN @ + 1 ELSE @]
        /\ waiters' = Append(waiters, t) /\ runqueue' = Tail(runqueue)
        /\ UNCHANGED <<curthread, sem_count, stats_lock, freed>>
     \/ /\ hasAs(t) /\ ~checkcanLock(t) /\ stats_lock = "destroyed"
        /\ UseFreedLock /\ UNCHANGED <<owes, cpuVars>>
  /\ UNCHANGED <<counters, st, home, index, reg, faults>>

=============================================================================

-------------------------------- MODULE Menu --------------------------------
(***************************************************************************)
(* The life of the machine from the menu: commands (kern/main/menu.c),     *)
(* programs and the arguments laid out on their stacks                     *)
(* (kern/syscall/runprogram.c), and the shutdown that prints the           *)
(* statistics (kern/main/main.c), composed with the counting of VmStats.   *)
(***************************************************************************)
EXTENDS VmStats, TLC

CONSTANTS
  Lines,         \* command lines: sequences of words [name, len]
  MAXMENUARGS,
  USERSTACK      \* the address above the stack

ASSUME MenuAssumption == USERSTACK \in Nat /\ USERSTACK % 8 = 0 /\ MAXMENUARGS \in Nat \ {0}

VARIABLES
  args,          \* the words in the menu's buffer, less the command's name
  typed,         \* those the program that is being started was given
  child,         \* the program the menu waits for, or NULL
  entry,         \* what a program is entered with, until it runs
  isargs,        \* the line is the one the boot loader passed
  quiet,         \* no program was left when shutdown began
  inconsistent   \* vm_stats_print found sums that disagree

menuVars == <<args, typed, child, entry, isargs, quiet, inconsistent>>
vars == <<statVars, menuVars>>

Init ==
  /\ vm_stats_init
  /\ st = [t \in Threads |-> IF t = menu THEN "menu" ELSE "none"]
  /\ home = [t \in Threads |-> "none"]
  /\ index = [t \in Threads |-> NULL]
  /\ reg = [t \in Threads |-> 0]
  /\ owes = [t \in Threads |-> 0]
  /\ preempted = {}
  /\ faults = [t \in Threads |-> 0]
  /\ curthread = menu /\ runqueue = <<>>
  /\ args = <<>> /\ typed = <<>> /\ child = NULL /\ entry = NULL
  /\ isargs = TRUE /\ quiet = FALSE /\ inconsistent = FALSE

-----------------------------------------------------------------------------
\* The arguments.

\* External: opening a file may destroy its name, of which args[0] is the only
\* copy (as_create, before the arguments are laid out).
vfs_open(word) == {word} \cup {[name |-> "destroyed", len |-> l] : l \in 0..word.len}

roundup(n, m) == ((n + m - 1) \div m) * m

\* What runprogramWithArgs puts on the stack: the strings, the last one first,
\* string i from strings[i].from to strings[i].to, and below them their
\* addresses and a 0, from argv on.
layout(ws) ==
  LET n == Len(ws)
      addrargs[i \in 1..(n + 1)] ==
        IF i = n + 1 THEN USERSTACK ELSE addrargs[i + 1] - roundup(ws[i].len + 1, 4)
      stackptr == addrargs[1] - 4 * (n + 1)
  IN  [argc |-> n, argv |-> stackptr, sp |-> stackptr - (stackptr % 8),
       strings |-> [i \in 1..n |-> [from |-> addrargs[i], to |-> addrargs[i] + ws[i].len,
                                   word |-> ws[i]]]]

-----------------------------------------------------------------------------
\* Programs.

Leaves == curthread' = NULL

\* Users are the threads that may ever be made; which one is next is of no
\* interest.
unborn == {t \in Users : st[t] = "none"}
newThread == CHOOSE t \in unborn : TRUE

\* common_prog: a process and its thread, for which the menu waits.  The thread
\* reads the words in the menu's buffer.
common_prog_noWait(ws) ==
  /\ unborn # {}
  /\ Goes(newThread, "start")
  /\ runqueue' = Append(runqueue, newThread)
  /\ child' = newThread
  /\ typed' = ws
  /\ UNCHANGED <<counters, home, index, reg, owes, preempted, faults, lockVars, curthread,
                 entry, quiet, inconsistent>>

common_prog(ws) ==
  /\ unborn # {}
  /\ st' = [st EXCEPT ![newThread] = "start", ![menu] = "wait"]
  /\ runqueue' = Append(runqueue, newThread)
  /\ child' = newThread
  /\ typed' = ws /\ Leaves
  /\ UNCHANGED <<counters, home, index, reg, owes, preempted, faults, lockVars,
                 entry, quiet, inconsistent>>

\* runprogramWithArgs, up to load_elf: as_create opens the program, as_activate
\* counts a flush.  There is a name (KASSERT in cmd_progthread).
runprogramWithArgs(t) ==
  /\ On(t, "start") /\ args # <<>>
  /\ Goes(t, "inc") /\ home' = [home EXCEPT ![t] = "load"]
  /\ index' = [index EXCEPT ![t] = "TLB_INVALIDATION"]
  /\ \E word \in vfs_open(Head(args)) : args' = <<word>> \o Tail(args)
  /\ UNCHANGED <<counters, reg, owes, preempted, faults, cpuVars, lockVars,
                 typed, child, entry, isargs, quiet, inconsistent>>

\* An error return of runprogramWithArgs ends the thread, and nobody is told.
cmd_progthread_fails(t) ==
  /\ On(t, "start") \/ On(t, "load")
  /\ Goes(t, "exited") /\ home' = [home EXCEPT ![t] = "none"] /\ Leaves
  /\ UNCHANGED <<counters, index, reg, owes, preempted, faults, runqueue, lockVars, menuVars>>

enter_new_process(t) ==
  /\ On(t, "load")
  /\ Goes(t, "entered") /\ home' = [home EXCEPT ![t] = "user"]
  /\ entry' = layout(args)
  /\ UNCHANGED <<counters, index, reg, owes, preempted, faults, cpuVars, lockVars,
                 args, typed, child, isargs, quiet, inconsistent>>

\* From here on the registers and the stack are the program's own, and nobody
\* reads the menu's words again.
main(t) ==
  /\ On(t, "entered")
  /\ Goes(t, "user") /\ entry' = NULL /\ args' = <<>> /\ typed' = <<>>
  /\ UNCHANGED <<counters, home, index, reg, owes, preempted, faults, cpuVars, lockVars,
                 child, isargs, quiet, inconsistent>>

\* The child's enter_forked_process counts a flush before it enters the program.
sys_fork(t) ==
  /\ On(t, "user") /\ unborn # {}
  /\ Goes(newThread, "inc") /\ home' = [home EXCEPT ![newThread] = "user"]
  /\ index' = [index EXCEPT ![newThread] = "TLB_INVALIDATION"]
  /\ runqueue' = Append(runqueue, newThread)
  /\ UNCHANGED <<counters, reg, owes, preempted, faults, curthread, lockVars, menuVars>>

sys__exit(t) ==
  /\ On(t, "user") /\ t \in Users
  /\ home' = [home EXCEPT ![t] = "none"] /\ Leaves
  /\ IF t = child
     THEN /\ st' = [st EXCEPT ![t] = "exited", ![menu] = "menu"]
          /\ runqueue' = Append(runqueue, menu) /\ child' = NULL
     ELSE Goes(t, "exited") /\ UNCHANGED <<runqueue, child>>
  /\ UNCHANGED <<counters, index, reg, owes, preempted, faults, lockVars,
                 args, typed, entry, isargs, quiet, inconsistent>>

-----------------------------------------------------------------------------
\* Shutdown.

sys_reboot(t) ==
  /\ Goes(t, "print")
  /\ quiet' = \A u \in Users : st[u] \in {"none", "exited"}
  /\ UNCHANGED <<counters, home, index, reg, owes, preempted, faults, cpuVars, lockVars,
                 typed, child, entry, inconsistent>>

\* The three comparisons of vm_stats_print.
sumsAgree ==
  /\ counters["TLB_FAULT"] = counters["TLB_FAULT_WITH_FREE"] + counters["TLB_FAULT_WITH_REPLACE"]
  /\ counters["TLB_FAULT"] =
       counters["PAGE_FAULT_DISK"] + counters["PAGE_FAULT_ZEROED"] + counters["TLB_RELOAD"]
  /\ counters["PAGE_FAULT_DISK"] = counters["ELF_READ"] + counters["SWAP_READ"]

vm_stats_print(t) ==
  /\ On(t, "print")
  /\ \/ /\ stats_lock = "there" /\ sem_count > 0
        /\ sem_count' = sem_count - 1
        /\ inconsistent' = (inconsistent \/ ~sumsAgree)
        /\ Goes(t, "printed")
        /\ UNCHANGED <<waiters, stats_lock, freed, cpuVars>>
     \/ /\ stats_lock = "there" /\ sem_count = 0 /\ SleepOnLock(t)
        /\ UNCHANGED <<st, runqueue, inconsistent>>
     \/ stats_lock = "destroyed" /\ UseFreedLock /\ UNCHANGED <<st, cpuVars, inconsistent>>
  /\ UNCHANGED <<counters, home, index, reg, owes, preempted, faults,
                 args, typed, child, entry, isargs, quiet>>

\* lock_release, which wakes one waiter, and lock_destroy, whose wchan_destroy
\* asserts that no other is left.
vm_stats_print_end(t) ==
  /\ On(t, "printed")
  /\ sem_count' = sem_count + 1
  /\ runqueue' = runqueue \o woken(1) /\ waiters' = SubSeq(waiters, Len(woken(1)) + 1, Len(waiters))
  /\ stats_lock' = "destroyed" /\ freed' = (Len(waiters) > 1)
  /\ Goes(t, "unmount")
  /\ UNCHANGED <<counters, home, index, reg, owes, preempted, faults, curthread, menuVars>>

\* vfs_unmountall writes what is left to the disk, asleep.
vfs_unmountall(t) ==
  /\ On(t, "unmount")
  /\ Goes(t, "sync") /\ Leaves
  /\ UNCHANGED <<counters, home, index, reg, owes, preempted, faults, runqueue, lockVars, menuVars>>

vfs_unmountall_done(t) ==
  /\ st[t] = "sync" /\ ~halted /\ ~freed
  /\ Goes(t, "unmounted") /\ runqueue' = Append(runqueue, t)
  /\ UNCHANGED <<counters, home, index, reg, owes, preempted, faults, curthread, lockVars, menuVars>>

thread_shutdown(t) ==
  /\ On(t, "unmount") \/ On(t, "unmounted")
  /\ Goes(t, "halted")
  /\ UNCHANGED <<counters, home, index, reg, owes, preempted, faults, cpuVars, lockVars, menuVars>>

-----------------------------------------------------------------------------
\* The menu.  A word is [name, len].

\* How many words the commands that insist on it want, their own included.
nargs == ("s" :> 1) @@ ("cd" :> 2) @@ ("unmount" :> 2) @@ ("bootfs" :> 2) @@ ("mount" :> 3)

fails(line) ==
  \/ Len(line) > MAXMENUARGS
  \/ /\ line # <<>>
     /\ LET cmd == Head(line).name
        IN  \/ cmd \notin DOMAIN nargs \cup {"p", "q", "panic"}
            \/ cmd = "p" /\ Len(line) < 2
            \/ cmd \in DOMAIN nargs /\ Len(line) # nargs[cmd]

\* common_prog fails when memory is short.
menu_fails ==
  /\ st' = [st EXCEPT ![menu] = IF isargs THEN "halted" ELSE "menu"]
  /\ UNCHANGED <<counters, home, index, reg, owes, preempted, faults, cpuVars, lockVars,
                 typed, child, entry, quiet, inconsistent>>

\* panic halts the machine.
cmd_panic ==
  /\ Goes(menu, "halted")
  /\ UNCHANGED <<counters, home, index, reg, owes, preempted, faults, cpuVars, lockVars,
                 typed, child, entry, quiet, inconsistent>>

\* cmd_chdir and the like: a call of the file system, which may fail.
cmd_vfs == menu_fails \/ UNCHANGED <<statVars, typed, child, entry, quiet, inconsistent>>

\* The words a program is given: cmd_prog drops its own, cmd_shell has one.
words(line) ==
  CASE line = <<>> -> <<>>
    [] line # <<>> /\ Head(line).name = "s" -> <<[name |-> "/bin/sh", len |-> 7]>>
    [] OTHER -> Tail(line)

cmd_dispatch(line) ==
  \/ fails(line) /\ menu_fails
  \/ line = <<>> /\ UNCHANGED <<statVars, typed, child, entry, quiet, inconsistent>>
  \/ /\ ~fails(line) /\ line # <<>>
     /\ \/ Head(line).name \in {"p", "s"} /\ (common_prog(words(line)) \/ menu_fails)
        \/ Head(line).name = "q" /\ sys_reboot(menu)
        \/ Head(line).name = "panic" /\ cmd_panic
        \/ Head(line).name \in DOMAIN nargs \ {"s"} /\ cmd_vfs

\* The boot loader's line, here of one command, comes before those typed.  The
\* words of a line replace those of the line before.
menu_execute ==
  /\ On(menu, "menu")
  /\ isargs' = FALSE
  /\ \E line \in Lines : cmd_dispatch(line) /\ args' = words(line)

-----------------------------------------------------------------------------
counting(t) == vm_stats_inc(t) \/ _vm_stats_inc(t) \/ disk(t)

machine(t) == vm_fault(t) \/ disk_done(t) \/ thread_switch(t) \/ hardclock(t)

program(t) == runprogramWithArgs(t) \/ cmd_progthread_fails(t) \/ enter_new_process(t) \/ main(t)
                \/ sys__exit(t) \/ sys_fork(t)
                \/ (On(t, "user") /\ sys_reboot(t) /\ UNCHANGED <<isargs, args>>)

stopping(t) == vm_stats_print(t) \/ vm_stats_print_end(t) \/ vfs_unmountall(t)
                 \/ vfs_unmountall_done(t) \/ thread_shutdown(t)

Next ==
  \/ menu_execute
  \/ \E t \in Threads : ((counting(t) \/ machine(t)) /\ UNCHANGED menuVars) \/ program(t) \/ stopping(t)

Spec == Init /\ [][Next]_vars

\* The disk answers, the CPU takes the next thread, a thread inside the kernel
\* gets on with what it does between two interrupts of the timer, and an
\* interrupt that is pending is taken.  What programs and the person at the
\* menu do is up to them.
FairSpec ==
  /\ Spec
  /\ \A t \in Threads :
       /\ WF_vars((disk_done(t) \/ thread_switch(t)) /\ UNCHANGED menuVars)
       /\ SF_vars((counting(t) /\ UNCHANGED menuVars) \/ stopping(t))
       /\ SF_vars(hardclock(t) /\ UNCHANGED menuVars)

-----------------------------------------------------------------------------
(* Properties. *)

TypeOK ==
  /\ counters \in [Compared -> Nat]
  /\ st \in [Threads -> {"none", "start", "load", "entered", "user", "exited", "menu", "wait",
                         "inc", "loaded", "disk", "io", "print", "printed", "unmount", "sync",
                         "unmounted", "halted"}]
  /\ home \in [Threads -> {"none", "load", "user"}]
  /\ reg \in [Threads -> Nat] /\ owes \in [Threads -> 0..MaxNest]
  /\ faults \in [Threads -> 0..MaxFaults] /\ preempted \subseteq Threads
  /\ curthread \in Threads \cup {NULL} /\ child \in Users \cup {NULL}
  /\ ToSet(runqueue) \cup ToSet(waiters) \subseteq Threads
  /\ sem_count \in Nat /\ stats_lock \in {"there", "destroyed"}
  /\ {freed, isargs, quiet, inconsistent} \subseteq BOOLEAN

\* No page fault is counted twice or lost, whatever the timer interrupts: at
\* every moment the sums that vm_stats_print compares differ by exactly the
\* faults on the way (vm_stats_inc, which takes stats_lock, called by vm_fault,
\* by tlb_loadentry and, inside thread_switch, by tlb_invalidate).
SumsAgree ==
  LET tlb == {"TLB_FAULT_WITH_FREE", "TLB_FAULT_WITH_REPLACE"}
      page == {"PAGE_FAULT_DISK", "PAGE_FAULT_ZEROED", "TLB_RELOAD"}
      read == {"ELF_READ", "SWAP_READ"}
      sum(s) == FoldSet(LAMBDA i, n : counters[i] + n, 0, s)
      before(s) == Cardinality({t \in Users : index[t] \in s})
  IN  /\ TypeOK
      /\ counters["TLB_FAULT"] = sum(tlb) + before(tlb \cup page \cup read \cup {"SWAP_WRITE"})
      /\ counters["TLB_FAULT"] = sum(page) + before(page \cup read \cup {"SWAP_WRITE"})
      /\ sum(read) = counters["PAGE_FAULT_DISK"] + before({"PAGE_FAULT_DISK"})

\* When the menu is told to quit and no program is left, the statistics add up
\* and stats_lock, which vm_stats_print destroys, is not used again, although
\* vfs_unmountall sleeps and thread_switch counts (shutdown in main.c).
QuietShutdown == quiet => ~inconsistent /\ ~freed

\* A program finds its arguments: argc counts the words typed, argv[1] and those
\* after it are the words typed, whatever line the menu reads meanwhile (the race
\* of the comment on common_prog), and argv[0] is what vfs_open left of the name.
\* No string reaches into the next, into the pointers below them or out of the
\* stack, pointers are aligned, and sp is a multiple of 8 (runprogramWithArgs).
ArgsLaidOut ==
  entry # NULL =>
    LET str == entry.strings
        pointers == entry.argv..(entry.argv + 4 * (entry.argc + 1) - 1)
        bytes(i) == str[i].from..str[i].to
    IN  /\ entry.argc = Len(typed)
        /\ entry.argv % 4 = 0 /\ entry.sp % 8 = 0 /\ entry.sp <= entry.argv
        /\ \A i \in 1..entry.argc :
             /\ str[i].to - str[i].from = str[i].word.len
             /\ IF i = 1 THEN str[i].word \in vfs_open(typed[i]) ELSE str[i].word = typed[i]
             /\ bytes(i) \cap pointers = {} /\ str[i].to < USERSTACK
             /\ \A k \in 1..entry.argc \ {i} : bytes(i) \cap bytes(k) = {}

\* A page fault is counted to its end: a thread that waits for stats_lock,
\* even asleep in a thread_switch inside another, gets it, unless the machine
\* is stopped first (lock_acquire and wchan_wakeone).
CountReturns ==
  \A t \in Users : index[t] # NULL ~> (index[t] = NULL \/ halted \/ stats_lock = "destroyed")

=============================================================================

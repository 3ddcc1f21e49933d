-------------------------------- MODULE Proc --------------------------------
(***************************************************************************)
(* Processes: the pid table and the wait/exit protocol of                  *)
(* kern/proc/proc.c, the system calls of kern/syscall/proc_syscalls.c and  *)
(* the menu that runs programs.                                            *)
(*                                                                         *)
(* A user process has one thread, which has the name of its proc           *)
(* structure; a name is used again when structure and thread are gone.     *)
(* The semaphore p_sem is its count: a thread in P goes on when it is not  *)
(* zero (module Synch has the sleeping and waking).  When the kernel       *)
(* panics, status records why.                                             *)
(***************************************************************************)
EXTENDS Integers, FiniteSets

CONSTANTS
  Procs,         \* proc structures, kproc among them
  kproc,         \* the kernel process; its thread is the menu
  NULL,
  MAX_PROC,
  Statuses,      \* what programs pass to _exit
  OPT_FORK       \* the configuration option fork

ASSUME ProcAssumption ==
  /\ kproc \in Procs /\ NULL \notin Procs
  /\ NULL \notin [p_pid : Nat, p_numthreads : Nat, p_status : Nat, p_sem : Nat]
  /\ MAX_PROC \in Nat \ {0}
  /\ Statuses \subseteq Int
  /\ OPT_FORK \in BOOLEAN

VARIABLES
  processTable,  \* processTable[i]: the process with pid i, or NULL
  last_i,        \* index of the last allocated pid
  proc,          \* proc[p]: the fields of the structure, or NULL
  th,            \* th[t]: where the thread is, and the process it works on
  children,      \* children[t]: processes t created and has not waited for
  orderly,       \* programs have waited only once and for their own children
  status         \* "running", or why the machine stopped

vars == <<processTable, last_i, proc, th, children, orderly, status>>

Pids == 1 .. MAX_PROC
Users == Procs \ {kproc}

At(pc, p) == [pc |-> pc, on |-> p]
On(t, pc) == status = "running" /\ th[t].pc = pc
Home(t) == At(IF t = kproc THEN "menu" ELSE "user", NULL)

NewProc(i) == [p_pid |-> i, p_numthreads |-> 0, p_status |-> 0, p_sem |-> 0]

\* proc_bootstrap: kproc is made by proc_create like any other process.
Init ==
  /\ processTable = [i \in Pids |-> IF i = 1 THEN kproc ELSE NULL]
  /\ last_i = 1
  /\ proc = [p \in Procs |-> IF p = kproc THEN [NewProc(1) EXCEPT !.p_numthreads = 1]
                             ELSE NULL]
  /\ th = [t \in Procs |-> IF t = kproc THEN Home(t) ELSE At("none", NULL)]
  /\ children = [t \in Procs |-> {}]
  /\ orderly = TRUE
  /\ status = "running"

Panics(why) ==
  /\ status' = why
  /\ UNCHANGED <<processTable, last_i, proc, th, children, orderly>>

-----------------------------------------------------------------------------
\* Creation.

\* The circular search of proc_init_waitpid: from last_i + 1 round to last_i,
\* which it does not look at.
Found == {i \in Pids \ {last_i} : processTable[i] = NULL}
distance(i) == (i - last_i - 1) % MAX_PROC

proc_init_waitpid(p, i) ==
  /\ i \in Found /\ \A j \in Found : distance(i) <= distance(j)
  /\ processTable' = [processTable EXCEPT ![i] = p]
  /\ last_i' = i
  /\ proc' = [proc EXCEPT ![p] = NewProc(i)]

CanCreate(t) == On(t, "menu") \/ (OPT_FORK /\ On(t, "user"))

proc_create_runprogram(t, p) ==
  /\ CanCreate(t)
  /\ proc[p] = NULL /\ th[p].pc = "none"
  /\ \E i \in Pids : proc_init_waitpid(p, i)
  /\ th' = [th EXCEPT ![t] = At("forking", p)]
  /\ UNCHANGED <<children, orderly, status>>

table_full(t) == CanCreate(t) /\ Found = {} /\ Panics("table full")

\* The menu goes on to proc_wait; sys_fork returns to the program.
thread_fork(t) ==
  LET p == th[t].on
  IN  /\ On(t, "forking")
      /\ proc' = [proc EXCEPT ![p].p_numthreads = @ + 1]
      /\ th' = IF t = kproc THEN [th EXCEPT ![p] = At("new", NULL), ![t] = At("wait", p)]
               ELSE [th EXCEPT ![p] = Home(p), ![t] = Home(t)]
      /\ children' = IF t = kproc THEN children
                     ELSE [children EXCEPT ![t] = @ \cup {p}]
      /\ UNCHANGED <<processTable, last_i, orderly, status>>

-----------------------------------------------------------------------------
\* Destruction.

\* Threads in proc_wait on p.
Waiters(p) == {t \in Procs : th[t].pc \in {"wait", "destroy"} /\ th[t].on = p}

\* proc_destroy as far as p is concerned, t being past its own wait: it fails
\* if p has a thread, or if another thread sleeps on p_sem.
destroyed(t, p) ==
  /\ proc[p].p_numthreads = 0
  /\ Waiters(p) \subseteq {t}
  /\ processTable' = [processTable EXCEPT ![proc[p].p_pid] = NULL]
  /\ proc' = [proc EXCEPT ![p] = NULL]

destroy_panics(t) ==
  /\ status = "running" /\ th[t].pc \in {"forking", "destroy"}
  /\ LET p == th[t].on IN proc[p].p_numthreads # 0 \/ ~(Waiters(p) \subseteq {t})
  /\ Panics("destroyed in use")

\* as_copy, kmalloc or thread_fork fails.
fork_fails(t) ==
  /\ On(t, "forking")
  /\ destroyed(t, th[t].on)
  /\ th' = [th EXCEPT ![t] = Home(t)]
  /\ UNCHANGED <<last_i, children, orderly, status>>

-----------------------------------------------------------------------------
\* A program runs and ends.

runprogram(p) ==
  /\ On(p, "new")
  /\ th' = [th EXCEPT ![p] = Home(p)]
  /\ UNCHANGED <<processTable, last_i, proc, children, orderly, status>>

\* proc_remthread
remthread(p) == proc' = [proc EXCEPT ![p].p_numthreads = @ - 1]

\* The program cannot be loaded: cmd_progthread returns, thread_startup calls
\* thread_exit, and nobody signals p_sem.
runprogram_fails(p) ==
  /\ On(p, "new")
  /\ remthread(p)
  /\ th' = [th EXCEPT ![p] = At("none", NULL)]
  /\ UNCHANGED <<processTable, last_i, children, orderly, status>>

sys__exit_remthreadLate(p, s) ==
  /\ On(p, "user")
  /\ proc' = [proc EXCEPT ![p].p_status = s % 256, ![p].p_sem = @ + 1]
  /\ th' = [th EXCEPT ![p] = At("leaving", NULL)]
  /\ children' = [children EXCEPT ![p] = {}]
  /\ UNCHANGED <<processTable, last_i, orderly, status>>

sys__exit(p, s) ==
  /\ On(p, "user")
  /\ proc' = [proc EXCEPT ![p].p_status = s % 256, ![p].p_numthreads = @ - 1]
  /\ th' = [th EXCEPT ![p] = At("signal", NULL)]
  /\ children' = [children EXCEPT ![p] = {}]
  /\ UNCHANGED <<processTable, last_i, orderly, status>>

proc_signal_end_lost(p) ==
  /\ On(p, "signal")
  /\ th' = [th EXCEPT ![p] = At("leaving", NULL)]
  /\ UNCHANGED <<processTable, last_i, proc, children, orderly, status>>

\* V on p_sem, the last use sys__exit makes of the structure.
proc_signal_end(p) ==
  /\ On(p, "signal")
  /\ proc' = [proc EXCEPT ![p].p_sem = @ + 1]
  /\ th' = [th EXCEPT ![p] = At("leaving", NULL)]
  /\ UNCHANGED <<processTable, last_i, children, orderly, status>>

thread_exit(p) ==
  /\ On(p, "leaving")
  /\ th' = [th EXCEPT ![p] = At("none", NULL)]
  /\ UNCHANGED <<processTable, last_i, proc, children, orderly, status>>

-----------------------------------------------------------------------------
\* Waiting.

\* proc_search_pid and the assertions of proc_wait on what it returns.
proc_search_pid(i) ==
  IF i \notin 0 .. MAX_PROC - 1 THEN "pid out of range"
  ELSE IF i = 0 \/ processTable[i] = NULL THEN "null process"
  ELSE IF processTable[i] = kproc THEN "kernel process"
  ELSE "found"

sys_waitpid(t, i) ==
  /\ On(t, "user")
  /\ proc_search_pid(i) = "found"
  /\ th' = [th EXCEPT ![t] = At("wait", processTable[i])]
  /\ children' = [children EXCEPT ![t] = @ \ {processTable[i]}]
  /\ orderly' = (orderly /\ processTable[i] \in children[t])
  /\ UNCHANGED <<processTable, last_i, proc, status>>

sys_waitpid_panics(t, i) ==
  /\ On(t, "user")
  /\ proc_search_pid(i) # "found"
  /\ Panics(proc_search_pid(i))

\* proc_wait as far as P ...
proc_wait(t) ==
  LET p == th[t].on
  IN  /\ On(t, "wait")
      /\ proc[p].p_sem > 0
      /\ proc' = [proc EXCEPT ![p].p_sem = @ - 1]
      /\ th' = [th EXCEPT ![t].pc = "destroy"]
      /\ UNCHANGED <<processTable, last_i, children, orderly, status>>

\* ... and from there.
proc_destroy_keepsPid(t) ==
  LET p == th[t].on
  IN  /\ On(t, "destroy")
      /\ proc[p].p_numthreads = 0 /\ Waiters(p) \subseteq {t}
      /\ proc' = [proc EXCEPT ![p] = NULL]
      /\ th' = [th EXCEPT ![t] = Home(t)]
      /\ UNCHANGED <<processTable, last_i, children, orderly, status>>

proc_destroy(t) ==
  /\ On(t, "destroy")
  /\ destroyed(t, th[t].on)
  /\ th' = [th EXCEPT ![t] = Home(t)]
  /\ UNCHANGED <<last_i, children, orderly, status>>

\* No thread can run: thread_switch idles.
Blocked(t) ==
  \/ th[t].pc = "none"
  \/ th[t].pc = "wait" /\ proc[th[t].on].p_sem = 0

idle == (\A t \in Procs : Blocked(t)) /\ UNCHANGED vars
halted == status # "running" /\ UNCHANGED vars

-----------------------------------------------------------------------------

kernelStep(t) ==
  \/ thread_fork(t) \/ fork_fails(t) \/ destroy_panics(t)
  \/ runprogram(t) \/ runprogram_fails(t)
  \/ proc_signal_end(t) \/ thread_exit(t)
  \/ proc_wait(t) \/ proc_destroy(t)

Next ==
  \/ \E t \in Procs, p \in Users : proc_create_runprogram(t, p)
  \/ \E t \in Procs : table_full(t) \/ kernelStep(t)
  \/ \E t \in Users, s \in Statuses : sys__exit(t, s)
  \/ \E t \in Users, i \in 0 .. MAX_PROC : sys_waitpid(t, i) \/ sys_waitpid_panics(t, i)
  \/ idle \/ halted

Spec == Init /\ [][Next]_vars

\* Threads in the kernel get on: the timer gives every runnable thread the CPU
\* in turn.
FairSpec == Spec /\ \A t \in Procs : WF_vars(kernelStep(t))

-----------------------------------------------------------------------------
\* Properties.

Running == status = "running"
Exists(p) == proc[p] # NULL

\* The pid table, the structures and the threads' states are in range.
TypeOK ==
  /\ processTable \in [Pids -> Procs \cup {NULL}]
  /\ last_i \in Pids
  /\ \A p \in Procs : Exists(p) => /\ proc[p].p_pid \in Pids
                                   /\ proc[p].p_status \in 0 .. 255
                                   /\ proc[p].p_numthreads \in {0, 1}
                                   /\ proc[p].p_sem \in {0, 1}
  /\ \A t \in Procs : th[t].on \in Procs \cup {NULL}

\* The table and the structures agree: a process is found under its own pid
\* and under no other, however creations, failed forks and destructions
\* interleave, so two processes never share a pid.
PidsMatch ==
  /\ TypeOK
  /\ \A i \in Pids, p \in Procs :
       processTable[i] = p <=> Exists(p) /\ proc[p].p_pid = i

\* A thread that is past its wait, or whose fork may still fail, has the only
\* reference to a process without threads: the assertions in proc_destroy
\* hold.  (With programs that wait otherwise it does not: see README.md.)
OnlyReference ==
  Running /\ orderly => \A t \in Procs : th[t].pc \in {"forking", "destroy"} =>
    LET p == th[t].on IN /\ Exists(p) /\ proc[p].p_numthreads = 0
                         /\ Waiters(p) \subseteq {t}

\* Whoever waits for a process that has called _exit returns from the wait,
\* whichever of the two came first: V is not lost.
WaitReturns ==
  \A t \in Procs :
    /\ th[t].pc = "wait"
    /\ th[th[t].on].pc = "signal" \/ proc[th[t].on].p_sem > 0
    ~> (th[t].pc # "wait" \/ ~Running)

=============================================================================

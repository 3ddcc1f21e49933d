------------------------------- MODULE Synch --------------------------------
(***************************************************************************)
(* Semaphores, locks and condition variables of kern/thread/synch.c over   *)
(* the wait channels and the run queue of kern/thread/thread.c.            *)
(*                                                                         *)
(* One CPU.  A thread that holds a spinlock cannot be interrupted, so what *)
(* it does under one is a single step; between steps the timer may switch  *)
(* to the next thread of the run queue.  The threads use a lock, made of a *)
(* semaphore, with a condition variable, and do transfers to a disk, whose *)
(* end is an interrupt that does V on a second semaphore.                  *)
(***************************************************************************)
EXTENDS Integers, Sequences, FiniteSets, Functions

CONSTANTS
  Threads,
  boot,          \* the thread that exists at the start
  NULL

ASSUME SynchAssumption ==
  boot \in Threads /\ NULL \notin Threads /\ IsFiniteSet(Threads)

VARIABLES
  th,            \* th[t]: where thread t is
  curthread,
  c_isidle,      \* the CPU is in cpu_idle, for want of a thread to run
  c_runqueue,
  c_zombies,     \* exited threads still to be destroyed
  wc_threads,    \* wc_threads[w]: the threads asleep on wait channel w
  sem_count,     \* sem_count[s]: the count of semaphore s
  lk_owner,
  transfers      \* transfers the disk has not finished

cpuVars == <<curthread, c_isidle, c_runqueue, c_zombies>>
vars == <<th, cpuVars, wc_threads, sem_count, lk_owner, transfers>>

Sems == {"lk_sem", "io_sem"}
Wchans == Sems \cup {"cv"}

\* th[t] is "none"; "out", of the lock; "P", in lock_acquire; "own", past P
\* there; "in", with the lock; "io", in P at the end of a transfer.
Init ==
  /\ th = [t \in Threads |-> IF t = boot THEN "out" ELSE "none"]
  /\ curthread = boot /\ c_isidle = FALSE
  /\ c_runqueue = <<>> /\ c_zombies = {}
  /\ wc_threads = [w \in Wchans |-> <<>>]
  /\ sem_count = [s \in Sems |-> IF s = "lk_sem" THEN 1 ELSE 0]
  /\ lk_owner = NULL
  /\ transfers = 0

On(t, pc) == ~c_isidle /\ curthread = t /\ th[t] = pc
Goes(t, pc) == th' = [th EXCEPT ![t] = pc]

-----------------------------------------------------------------------------
\* thread.c

\* thread_switch, the current thread having been put in its place, q being the
\* run queue and z the zombies: the next thread runs and exorcises the zombies.
switchTo(q, z) ==
  IF q = <<>>
  THEN c_isidle' = TRUE /\ c_zombies' = z /\ UNCHANGED <<curthread, c_runqueue>>
  ELSE /\ c_isidle' = FALSE
       /\ curthread' = Head(q) /\ c_runqueue' = Tail(q)
       /\ c_zombies' = {}

\* The timer: hardclock calls thread_yield.
thread_yield ==
  /\ ~c_isidle /\ c_runqueue # <<>>
  /\ switchTo(Append(c_runqueue, curthread), c_zombies)
  /\ UNCHANGED <<th, wc_threads, sem_count, lk_owner, transfers>>

\* cpu_idle returns after an interrupt.
cpu_idle ==
  /\ c_isidle
  /\ switchTo(c_runqueue, c_zombies)
  /\ UNCHANGED <<th, wc_threads, sem_count, lk_owner, transfers>>

thread_fork(t, c) ==
  /\ On(t, "out")
  /\ th[c] = "none" /\ c \notin c_zombies
  /\ Goes(c, "out")
  /\ c_runqueue' = Append(c_runqueue, c)
  /\ UNCHANGED <<curthread, c_isidle, c_zombies, wc_threads, sem_count, lk_owner, transfers>>

thread_exit(t) ==
  /\ On(t, "out")
  /\ Goes(t, "none")
  /\ switchTo(c_runqueue, c_zombies \cup {t})
  /\ UNCHANGED <<wc_threads, sem_count, lk_owner, transfers>>

\* wchan_sleep of the current thread.
wchan_sleep(w, t) == wc_threads' = [wc_threads EXCEPT ![w] = Append(@, t)]

\* wchan_wakeone: the threads it makes runnable (one or none), and the rest.
woken(w) == IF wc_threads[w] = <<>> THEN <<>> ELSE <<Head(wc_threads[w])>>
asleep(w) == IF wc_threads[w] = <<>> THEN <<>> ELSE Tail(wc_threads[w])

-----------------------------------------------------------------------------
\* Semaphores.

\* P: the count is tested again whenever the thread has slept.
P(t, s, pc) ==
  \/ /\ sem_count[s] > 0
     /\ sem_count' = [sem_count EXCEPT ![s] = @ - 1]
     /\ Goes(t, pc)
     /\ UNCHANGED <<cpuVars, wc_threads>>
  \/ /\ sem_count[s] = 0
     /\ wchan_sleep(s, t)
     /\ switchTo(c_runqueue, c_zombies)
     /\ UNCHANGED <<sem_count, th>>

V_noWake(s) ==
  /\ sem_count' = [sem_count EXCEPT ![s] = @ + 1]
  /\ UNCHANGED <<wc_threads, c_runqueue, curthread, c_isidle, c_zombies>>

V(s) ==
  /\ sem_count' = [sem_count EXCEPT ![s] = @ + 1]
  /\ wc_threads' = [wc_threads EXCEPT ![s] = asleep(s)]
  /\ c_runqueue' = c_runqueue \o woken(s)
  /\ UNCHANGED <<curthread, c_isidle, c_zombies>>

-----------------------------------------------------------------------------
\* Locks.

lock_acquire(t) ==
  /\ On(t, "out")
  /\ Goes(t, "P")
  /\ UNCHANGED <<cpuVars, wc_threads, sem_count, lk_owner, transfers>>

lock_P(t) == On(t, "P") /\ P(t, "lk_sem", "own") /\ UNCHANGED <<lk_owner, transfers>>

lock_own(t) ==
  /\ On(t, "own")
  /\ lk_owner = NULL
  /\ lk_owner' = t
  /\ Goes(t, "in")
  /\ UNCHANGED <<cpuVars, wc_threads, sem_count, transfers>>

lock_release_keepsOwner(t) ==
  /\ On(t, "in")
  /\ V("lk_sem")
  /\ Goes(t, "out")
  /\ UNCHANGED <<lk_owner, transfers>>

lock_release(t) ==
  /\ On(t, "in")
  /\ lk_owner' = NULL
  /\ V("lk_sem")
  /\ Goes(t, "out")
  /\ UNCHANGED transfers

-----------------------------------------------------------------------------
\* Condition variables.

cv_wait_keepsLock(t) ==
  /\ On(t, "in")
  /\ wc_threads' = [wc_threads EXCEPT !["cv"] = Append(@, t)]
  /\ switchTo(c_runqueue, c_zombies)
  /\ UNCHANGED <<th, sem_count, lk_owner, transfers>>

\* The lock is released and the thread put to sleep under cv_lock; once awake
\* it acquires the lock again.
cv_wait(t) ==
  /\ On(t, "in")
  /\ lk_owner' = NULL
  /\ sem_count' = [sem_count EXCEPT !["lk_sem"] = @ + 1]
  /\ wc_threads' = [wc_threads EXCEPT !["lk_sem"] = asleep("lk_sem"),
                                      !["cv"] = Append(@, t)]
  /\ switchTo(c_runqueue \o woken("lk_sem"), c_zombies)
  /\ Goes(t, "P")
  /\ UNCHANGED transfers

cv_signal(t) ==
  /\ On(t, "in")
  /\ wc_threads' = [wc_threads EXCEPT !["cv"] = asleep("cv")]
  /\ c_runqueue' = c_runqueue \o woken("cv")
  /\ UNCHANGED <<th, curthread, c_isidle, c_zombies, sem_count, lk_owner, transfers>>

cv_broadcast_keepsAsleep(t) ==
  /\ On(t, "in")
  /\ c_runqueue' = c_runqueue \o wc_threads["cv"]
  /\ UNCHANGED <<th, wc_threads, curthread, c_isidle, c_zombies, sem_count, lk_owner,
                 transfers>>

cv_broadcast(t) ==
  /\ On(t, "in")
  /\ wc_threads' = [wc_threads EXCEPT !["cv"] = <<>>]
  /\ c_runqueue' = c_runqueue \o wc_threads["cv"]
  /\ UNCHANGED <<th, curthread, c_isidle, c_zombies, sem_count, lk_owner, transfers>>

-----------------------------------------------------------------------------
\* Transfers.

startTransfer(t) ==
  /\ On(t, "out")
  /\ transfers' = transfers + 1
  /\ Goes(t, "io")
  /\ UNCHANGED <<cpuVars, wc_threads, sem_count, lk_owner>>

endTransfer(t) == On(t, "io") /\ P(t, "io_sem", "out") /\ UNCHANGED <<lk_owner, transfers>>

\* The disk's interrupt, whatever the CPU is doing, idling included.
interrupt ==
  /\ transfers > 0
  /\ transfers' = transfers - 1
  /\ V("io_sem")
  /\ UNCHANGED <<th, lk_owner>>

-----------------------------------------------------------------------------

Next ==
  \/ thread_yield \/ cpu_idle \/ interrupt
  \/ \E t, c \in Threads : thread_fork(t, c)
  \/ \E t \in Threads :
       \/ thread_exit(t)
       \/ lock_acquire(t) \/ lock_P(t) \/ lock_own(t) \/ lock_release(t)
       \/ cv_wait(t) \/ cv_signal(t) \/ cv_broadcast(t)
       \/ startTransfer(t) \/ endTransfer(t)

Spec == Init /\ [][Next]_vars

\* The timer ticks, the disk answers, and a thread that is given the CPU again
\* and again gets on with what it does in the kernel.  Whoever has the lock
\* releases it in the end, by itself or in cv_wait.
Fairness ==
  /\ WF_vars(thread_yield) /\ WF_vars(cpu_idle) /\ WF_vars(interrupt)
  /\ \A t \in Threads : /\ SF_vars(lock_P(t)) /\ SF_vars(lock_own(t))
                        /\ SF_vars(endTransfer(t))
                        /\ SF_vars(lock_release(t))

FairSpec == Spec /\ Fairness

-----------------------------------------------------------------------------
\* Properties.

\* The queues hold threads, and the counts are natural numbers.
TypeOK ==
  /\ th \in [Threads -> {"none", "out", "P", "own", "in", "io"}]
  /\ curthread \in Threads /\ c_isidle \in BOOLEAN
  /\ c_zombies \subseteq Threads
  /\ Range(c_runqueue) \subseteq Threads
  /\ \A w \in Wchans : Range(wc_threads[w]) \subseteq Threads
  /\ \A s \in Sems : sem_count[s] \in 0 .. Cardinality(Threads)
  /\ lk_owner \in Threads \cup {NULL}
  /\ transfers \in 0 .. Cardinality(Threads)

\* How often thread t occurs: on the CPU, on the run queue, on wait channels.
occurs(t, s) == Cardinality({i \in 1 .. Len(s) : s[i] = t})
places(t) ==
  (IF ~c_isidle /\ curthread = t THEN 1 ELSE 0) + occurs(t, c_runqueue)
    + occurs(t, wc_threads["lk_sem"]) + occurs(t, wc_threads["io_sem"])
    + occurs(t, wc_threads["cv"])

\* A thread is in exactly one place (it has one list node): no wakeup, switch
\* or exit loses a thread or queues it twice, and none is left of one that
\* has exited.
OnePlace == TypeOK /\ \A t \in Threads : places(t) = IF th[t] = "none" THEN 0 ELSE 1

\* Thread t is past P in lock_acquire and not yet at V in lock_release.
holds(t) == th[t] \in {"own", "in"}

\* The semaphore of the lock counts 1 when no thread is between its P and its
\* V and 0 when one is, which is then the owner or about to be: the lock
\* excludes, and the assertion on lk_owner in lock_acquire holds.
LockExcludes ==
  LET holders == {t \in Threads : holds(t)}
  IN  /\ sem_count["lk_sem"] + Cardinality(holders) = 1
      /\ \A t \in Threads : lk_owner = t <=> th[t] = "in"

\* Threads past wchan_sleep, or not yet there, in the P of semaphore s.
awakeInP(s) ==
  {t \in Threads : /\ th[t] = IF s = "lk_sem" THEN "P" ELSE "io"
                   /\ (t = curthread /\ ~c_isidle) \/ t \in Range(c_runqueue)}

\* While threads sleep on a semaphore whose count is not zero, as many threads
\* as the count are awake and will test it: no V is lost, although a woken
\* thread may find that another has taken the count and sleep again.
NoLostWakeup ==
  \A s \in Sems : wc_threads[s] # <<>> => Cardinality(awakeInP(s)) >= sem_count[s]

\* The lock with its condition variable implements module Monitor: its holder
\* is the thread past P in lock_acquire.
lockHolder ==
  IF \E t \in Threads : holds(t) THEN CHOOSE t \in Threads : holds(t) ELSE NULL
cvWaiters == Range(wc_threads["cv"])

M == INSTANCE Monitor WITH holder <- lockHolder, waiting <- cvWaiters

\* Lock and condition variable do what a monitor does: in particular, cv_wait
\* leaves no moment between the release and the sleep in which a signal could
\* be missed.
IsMonitor == M!Spec

\* While threads want the lock, it is given to one of them again and again.
LockHandedOn ==
  (\E t \in Threads : th[t] = "P" /\ t \notin Range(wc_threads["cv"]))
    ~> (\E t \in Threads : th[t] = "own")

=============================================================================

-------------------------------- MODULE Cpus --------------------------------
(***************************************************************************)
(* Several CPUs under kern/thread/thread.c: start-up, a run queue for each *)
(* CPU, idling, interprocessor interrupts, migration and shutdown.         *)
(*                                                                         *)
(* What a CPU does under a run queue's spinlock is one step; CPUs          *)
(* interleave between steps.  An interrupt handler runs with interrupts    *)
(* off on its CPU.  Threads sleep on and wake up one wait channel, besides *)
(* that of cpu_startup_sem.                                                *)
(***************************************************************************)
EXTENDS Integers, Sequences, FiniteSets, SequencesExt

CONSTANTS
  numcpus,
  Threads,       \* the threads that may ever be created
  bootThread     \* bootThread[c]: the thread cpu_create makes for CPU c

CPUs == 0 .. numcpus - 1

ASSUME CpusAssumption ==
  /\ numcpus \in Nat \ {0}
  /\ bootThread \in [CPUs -> Threads]
  /\ \A c, d \in CPUs : c # d => bootThread[c] # bootThread[d]

VARIABLES
  th,            \* th[t]: what thread t is doing
  t_cpu,
  child,         \* child[t]: the thread t has created and not yet made runnable
  c_curthread, c_isidle, c_runqueue, c_zombies, c_ipi_pending,
  at,            \* at[c]: what CPU c is doing
  mig,           \* mig[c]: the counters of thread_consider_migration
  list,          \* list[c]: victims there, or the list of wchan_wakeall
  wc_threads,    \* wc_threads[w]: the threads asleep on wait channel w
  hatched,       \* the count of cpu_startup_sem
  started        \* how many times thread_start_cpus has done P

threadVars == <<th, t_cpu, child>>
cpuVars == <<c_curthread, c_isidle, c_runqueue, c_zombies, c_ipi_pending, at>>
startVars == <<hatched, started>>
vars == <<threadVars, cpuVars, mig, list, wc_threads, startVars>>

NoMig == [i |-> 0, my_count |-> 0, total_count |-> 0, one_share |-> 0, to_send |-> 0]

\* cpu_create has been called for every CPU; the first runs thread_start_cpus,
\* the others cpu_hatch, past spl0.
Init ==
  /\ th = [t \in Threads |-> IF t = bootThread[0] THEN "start_cpus"
                             ELSE IF t \in Range(bootThread) THEN "hatch" ELSE "none"]
  /\ t_cpu = [t \in Threads |-> IF t \in Range(bootThread)
                                THEN CHOOSE c \in CPUs : bootThread[c] = t ELSE 0]
  /\ child = [t \in Threads |-> t]
  /\ c_curthread = bootThread
  /\ c_isidle = [c \in CPUs |-> FALSE]
  /\ c_runqueue = [c \in CPUs |-> <<>>]
  /\ c_zombies = [c \in CPUs |-> {}]
  /\ c_ipi_pending = [c \in CPUs |-> {}]
  /\ at = [c \in CPUs |-> "run"]
  /\ mig = [c \in CPUs |-> NoMig]
  /\ list = [c \in CPUs |-> <<>>]
  /\ wc_threads = [w \in {"startup", "wc"} |-> <<>>]
  /\ hatched = 0 /\ started = 0

Goes(c, pc) == at' = [at EXCEPT ![c] = pc]

\* Thread t runs on CPU c, interrupts on, about to do pc.
On(c, t, pc) == at[c] = "run" /\ c_curthread[c] = t /\ th[t] = pc

\* Interrupts are on: in a thread, or in cpu_idle.
canInterrupt(c) == at[c] \in {"run", "idle"}

-----------------------------------------------------------------------------
\* thread_switch.

\* The rest of thread_switch on CPU c, the current thread having been put in
\* its place, q being the run queue, z the zombies and p what threads do: the
\* next thread runs and exorcises the zombies, or the CPU idles.
switchTo(c, q, z, p) ==
  IF q = <<>>
  THEN /\ c_isidle' = [c_isidle EXCEPT ![c] = TRUE]
       /\ Goes(c, "idle")
       /\ c_zombies' = [c_zombies EXCEPT ![c] = z]
       /\ th' = p
       /\ c_runqueue' = [c_runqueue EXCEPT ![c] = q]
       /\ UNCHANGED c_curthread
  ELSE /\ c_isidle' = [c_isidle EXCEPT ![c] = FALSE]
       /\ Goes(c, "run")
       /\ c_curthread' = [c_curthread EXCEPT ![c] = Head(q)]
       /\ c_runqueue' = [c_runqueue EXCEPT ![c] = Tail(q)]
       /\ c_zombies' = [c_zombies EXCEPT ![c] = {}]
       /\ th' = [t \in Threads |-> IF t \in z THEN "destroyed" ELSE p[t]]

\* cpu_idle has returned: look at the run queue again.
unidle(c) ==
  /\ at[c] = "unidle"
  /\ switchTo(c, c_runqueue[c], c_zombies[c], th)
  /\ UNCHANGED <<t_cpu, child, c_ipi_pending, mig, list, wc_threads, startVars>>

thread_yield_lifo(c) ==
  /\ at[c] = "yield"
  /\ IF c_isidle[c]
     THEN /\ Goes(c, "unidle")
          /\ UNCHANGED <<th, c_curthread, c_isidle, c_runqueue, c_zombies>>
     ELSE switchTo(c, <<c_curthread[c]>> \o c_runqueue[c], c_zombies[c], th)
  /\ UNCHANGED <<t_cpu, child, c_ipi_pending, mig, list, wc_threads, startVars>>

\* thread_yield at the end of a timer interrupt; in the idle loop it does
\* nothing, and cpu_idle returns.
thread_yield(c) ==
  /\ at[c] = "yield"
  /\ \/ /\ c_isidle[c]
        /\ Goes(c, "unidle")
        /\ UNCHANGED <<th, c_curthread, c_isidle, c_runqueue, c_zombies>>
     \/ /\ ~c_isidle[c] /\ c_runqueue[c] = <<>>
        /\ Goes(c, "run")
        /\ UNCHANGED <<th, c_curthread, c_isidle, c_runqueue, c_zombies>>
     \/ /\ ~c_isidle[c] /\ c_runqueue[c] # <<>>
        /\ switchTo(c, Append(c_runqueue[c], c_curthread[c]), c_zombies[c], th)
  /\ UNCHANGED <<t_cpu, child, c_ipi_pending, mig, list, wc_threads, startVars>>

thread_exit(c, t) ==
  /\ On(c, t, "free") \/ On(c, t, "exit")
  /\ switchTo(c, c_runqueue[c], c_zombies[c] \cup {t}, [th EXCEPT ![t] = "zombie"])
  /\ UNCHANGED <<t_cpu, child, c_ipi_pending, mig, list, wc_threads, startVars>>

-----------------------------------------------------------------------------
\* Making threads runnable.

thread_make_runnable_noIpi(c, t) ==
  /\ c_runqueue' = [c_runqueue EXCEPT ![t_cpu[t]] = Append(@, t)]
  /\ UNCHANGED <<c_ipi_pending, c_curthread, c_isidle, c_zombies>>

\* thread_make_runnable on CPU c, for a thread of any CPU.
thread_make_runnable(c, t) ==
  LET target == t_cpu[t]
  IN  /\ c_runqueue' = [c_runqueue EXCEPT ![target] = Append(@, t)]
      /\ c_ipi_pending' = IF c_isidle[target] /\ target # c
                          THEN [c_ipi_pending EXCEPT ![target] = @ \cup {"UNIDLE"}]
                          ELSE c_ipi_pending
      /\ UNCHANGED <<c_curthread, c_isidle, c_zombies>>

\* thread_fork: the new thread is given the CPU its parent is on ...
thread_fork(c, t, n) ==
  /\ On(c, t, "free")
  /\ th[n] = "none"
  /\ th' = [th EXCEPT ![t] = "forking", ![n] = "free"]
  /\ t_cpu' = [t_cpu EXCEPT ![n] = t_cpu[t]]
  /\ child' = [child EXCEPT ![t] = n]
  /\ UNCHANGED <<cpuVars, mig, list, wc_threads, startVars>>

\* ... and made runnable there, wherever the parent is by now.
thread_fork_end(c, t) ==
  /\ On(c, t, "forking")
  /\ thread_make_runnable(c, child[t])
  /\ th' = [th EXCEPT ![t] = "free"]
  /\ child' = [child EXCEPT ![t] = t]
  /\ UNCHANGED <<t_cpu, at, mig, list, wc_threads, startVars>>

\* The wait channel's spinlock is free: no CPU is in wchan_wakeall.
lkFree == \A c \in CPUs : at[c] # "wakeall"

wchan_sleep(c, t) ==
  /\ On(c, t, "free") /\ lkFree
  /\ wc_threads' = [wc_threads EXCEPT !["wc"] = Append(@, t)]
  /\ switchTo(c, c_runqueue[c], c_zombies[c], th)
  /\ UNCHANGED <<t_cpu, child, c_ipi_pending, mig, list, startVars>>

\* wchan_wakeone, from a thread or from a device's interrupt, after which
\* cpu_idle returns if that is what was interrupted.
wchan_wakeone(c) ==
  /\ canInterrupt(c) /\ lkFree
  /\ wc_threads["wc"] # <<>>
  /\ wc_threads' = [wc_threads EXCEPT !["wc"] = Tail(@)]
  /\ thread_make_runnable(c, Head(wc_threads["wc"]))
  /\ Goes(c, IF at[c] = "idle" THEN "unidle" ELSE "run")
  /\ UNCHANGED <<threadVars, mig, list, startVars>>

\* wchan_wakeall moves the threads to a list of its own ...
wchan_wakeall(c, t) ==
  /\ On(c, t, "free") /\ lkFree
  /\ wc_threads["wc"] # <<>>
  /\ list' = [list EXCEPT ![c] = wc_threads["wc"]]
  /\ wc_threads' = [wc_threads EXCEPT !["wc"] = <<>>]
  /\ Goes(c, "wakeall")
  /\ UNCHANGED <<threadVars, c_curthread, c_isidle, c_runqueue, c_zombies, c_ipi_pending,
                 mig, startVars>>

\* ... and makes them runnable one by one, on the CPUs they slept on.
wchan_wakeall_each(c) ==
  /\ at[c] = "wakeall"
  /\ list' = [list EXCEPT ![c] = Tail(@)]
  /\ thread_make_runnable(c, Head(list[c]))
  /\ Goes(c, IF Len(list[c]) = 1 THEN "run" ELSE "wakeall")
  /\ UNCHANGED <<threadVars, mig, wc_threads, startVars>>

-----------------------------------------------------------------------------
\* Start-up.

\* P(cpu_startup_sem) in thread_start_cpus, once for each secondary CPU.
thread_start_cpus(c, t) ==
  /\ On(c, t, "start_cpus")
  /\ \/ /\ started = numcpus - 1
        /\ th' = [th EXCEPT ![t] = "free"]
        /\ UNCHANGED <<c_curthread, c_isidle, c_runqueue, c_zombies, at, wc_threads, startVars>>
     \/ /\ started < numcpus - 1 /\ hatched > 0
        /\ hatched' = hatched - 1 /\ started' = started + 1
        /\ UNCHANGED <<th, c_curthread, c_isidle, c_runqueue, c_zombies, at, wc_threads>>
     \/ /\ started < numcpus - 1 /\ hatched = 0
        /\ wc_threads' = [wc_threads EXCEPT !["startup"] = Append(@, t)]
        /\ switchTo(c, c_runqueue[c], c_zombies[c], th)
        /\ UNCHANGED startVars
  /\ UNCHANGED <<t_cpu, child, c_ipi_pending, mig, list>>

\* cpu_hatch: V(cpu_startup_sem), then thread_exit.
cpu_hatch(c, t) ==
  /\ On(c, t, "hatch")
  /\ hatched' = hatched + 1
  /\ IF wc_threads["startup"] = <<>>
     THEN UNCHANGED <<c_runqueue, c_ipi_pending, c_curthread, c_isidle, c_zombies, wc_threads>>
     ELSE /\ wc_threads' = [wc_threads EXCEPT !["startup"] = Tail(@)]
          /\ thread_make_runnable(c, Head(wc_threads["startup"]))
  /\ th' = [th EXCEPT ![t] = "exit"]
  /\ UNCHANGED <<t_cpu, child, at, mig, list, started>>

-----------------------------------------------------------------------------
\* The timer, and thread_consider_migration on CPU c.

\* hardclock calls thread_yield, and every few ticks the migration before it.
hardclock(c) ==
  /\ canInterrupt(c)
  /\ \/ Goes(c, "yield") /\ UNCHANGED mig
     \/ Goes(c, "count") /\ mig' = [mig EXCEPT ![c] = NoMig]
  /\ UNCHANGED <<threadVars, c_curthread, c_isidle, c_runqueue, c_zombies, c_ipi_pending,
                 list, wc_threads, startVars>>

DivRoundUp(a, b) == (a + b - 1) \div b

countOne_countsCurrent(m, c, i) ==
  [m EXCEPT !.i = i + 1, !.total_count = @ + Len(c_runqueue[i]),
            !.my_count = IF i = c THEN Len(c_runqueue[i]) + 1 ELSE @]

\* The run queue of CPU i is counted.
countOne(m, c, i) ==
  [m EXCEPT !.i = i + 1, !.total_count = @ + Len(c_runqueue[i]),
            !.my_count = IF i = c THEN Len(c_runqueue[i]) ELSE @]

\* The run queues are counted one after the other.  With a share or less of its
\* own, the CPU has nothing to send.
migrate_count(c) ==
  LET m == countOne(mig[c], c, mig[c].i)
      share == DivRoundUp(m.total_count, numcpus)
  IN  /\ at[c] = "count"
      /\ IF m.i < numcpus
         THEN mig' = [mig EXCEPT ![c] = m] /\ UNCHANGED at
         ELSE IF m.my_count <= share
         THEN mig' = [mig EXCEPT ![c] = NoMig] /\ Goes(c, "yield")
         ELSE /\ mig' = [mig EXCEPT ![c] = [m EXCEPT !.i = 0, !.one_share = share,
                                                    !.to_send = m.my_count - share]]
              /\ Goes(c, "take")
      /\ UNCHANGED <<threadVars, c_curthread, c_isidle, c_runqueue, c_zombies, c_ipi_pending,
                     list, wc_threads, startVars>>

\* The last to_send threads leave CPU c's run queue.
migrate_take(c) ==
  LET q == c_runqueue[c]
      n == Len(q) - mig[c].to_send
  IN  /\ at[c] = "take"
      /\ list' = [list EXCEPT ![c] = SubSeq(q, n + 1, Len(q))]
      /\ c_runqueue' = [c_runqueue EXCEPT ![c] = SubSeq(q, 1, n)]
      /\ Goes(c, "send")
      /\ UNCHANGED <<threadVars, c_curthread, c_isidle, c_zombies, c_ipi_pending,
                     mig, wc_threads, startVars>>

giveOne_anyThread(c, r) ==
  IF Len(r.q) >= mig[c].one_share \/ r.n = 0 THEN r
  ELSE [l |-> Tail(r.l), q |-> Append(r.q, Head(r.l)), n |-> r.n - 1]

\* One turn of the loop that fills another CPU's queue: l are the victims, q
\* that queue, n the number still to send.  The current thread, on a queue
\* because its CPU has not left the idle loop, is skipped.
giveOne(c, r) ==
  IF Len(r.q) >= mig[c].one_share \/ r.n = 0 THEN r
  ELSE IF Head(r.l) = c_curthread[c]
  THEN [r EXCEPT !.l = Append(Tail(@), Head(@)), !.n = @ - 1]
  ELSE [l |-> Tail(r.l), q |-> Append(r.q, Head(r.l)), n |-> r.n - 1]

\* CPU number i is given what it lacks to one_share.
migrate_send(c) ==
  LET i == mig[c].i
      give[k \in 0 .. Len(list[c])] ==
        IF k = 0 THEN [l |-> list[c], q |-> c_runqueue[i], n |-> mig[c].to_send]
        ELSE giveOne(c, give[k - 1])
      r == give[mig[c].to_send]
      given == {r.q[k] : k \in Len(c_runqueue[i]) + 1 .. Len(r.q)}
  IN  /\ at[c] = "send"
      /\ i < numcpus /\ mig[c].to_send > 0
      /\ IF i = c
         THEN /\ mig' = [mig EXCEPT ![c].i = i + 1]
              /\ UNCHANGED <<t_cpu, c_runqueue, c_ipi_pending, list>>
         ELSE /\ mig' = [mig EXCEPT ![c].i = i + 1, ![c].to_send = r.n]
              /\ list' = [list EXCEPT ![c] = r.l]
              /\ c_runqueue' = [c_runqueue EXCEPT ![i] = r.q]
              /\ t_cpu' = [t \in Threads |-> IF t \in given THEN i ELSE t_cpu[t]]
              /\ c_ipi_pending' = IF c_isidle[i] /\ given # {}
                                  THEN [c_ipi_pending EXCEPT ![i] = @ \cup {"UNIDLE"}]
                                  ELSE c_ipi_pending
      /\ UNCHANGED <<th, child, c_curthread, c_isidle, c_zombies, at, wc_threads, startVars>>

migrate_putback_never(c) ==
  /\ at[c] = "send"
  /\ mig[c].i = numcpus \/ mig[c].to_send = 0
  /\ list' = [list EXCEPT ![c] = <<>>]
  /\ mig' = [mig EXCEPT ![c] = NoMig]
  /\ Goes(c, "yield")
  /\ UNCHANGED <<threadVars, c_curthread, c_isidle, c_runqueue, c_zombies, c_ipi_pending,
                 wc_threads, startVars>>

\* What is left of the victims goes back on CPU c's own run queue.
migrate_putback(c) ==
  /\ at[c] = "send"
  /\ mig[c].i = numcpus \/ mig[c].to_send = 0
  /\ c_runqueue' = [c_runqueue EXCEPT ![c] = @ \o list[c]]
  /\ list' = [list EXCEPT ![c] = <<>>]
  /\ mig' = [mig EXCEPT ![c] = NoMig]
  /\ Goes(c, "yield")
  /\ UNCHANGED <<threadVars, c_curthread, c_isidle, c_zombies, c_ipi_pending, wc_threads,
                 startVars>>

-----------------------------------------------------------------------------
\* Interprocessor interrupts and shutdown.

\* ipi_broadcast: every other CPU is sent code.
ipi_broadcast(c, code) ==
  c_ipi_pending' = [d \in CPUs |-> IF d = c THEN c_ipi_pending[d]
                                   ELSE c_ipi_pending[d] \cup {code}]

\* A CPU told to stop halts; one in cpu_idle looks at its run queue again.
interprocessor_interrupt(c) ==
  /\ canInterrupt(c) /\ c_ipi_pending[c] # {}
  /\ IF c_ipi_pending[c] \cap {"PANIC", "OFFLINE"} # {}
     THEN Goes(c, "halted") /\ UNCHANGED c_ipi_pending
     ELSE /\ c_ipi_pending' = [c_ipi_pending EXCEPT ![c] = {}]
          /\ Goes(c, IF at[c] = "idle" THEN "unidle" ELSE "run")
  /\ UNCHANGED <<threadVars, c_curthread, c_isidle, c_runqueue, c_zombies, mig, list,
                 wc_threads, startVars>>

\* thread_shutdown, after which shutdown turns interrupts off for good.
thread_shutdown(c, t) ==
  /\ On(c, t, "free")
  /\ ipi_broadcast(c, "OFFLINE")
  /\ Goes(c, "halted")
  /\ UNCHANGED <<threadVars, c_curthread, c_isidle, c_runqueue, c_zombies, mig, list,
                 wc_threads, startVars>>

\* thread_panic: the runnable threads are dropped, and panic halts the CPU.
thread_panic(c, t) ==
  /\ On(c, t, "free")
  /\ ipi_broadcast(c, "PANIC")
  /\ c_runqueue' = [c_runqueue EXCEPT ![c] = <<>>]
  /\ th' = [u \in Threads |-> IF u \in ToSet(c_runqueue[c]) THEN "dropped" ELSE th[u]]
  /\ Goes(c, "halted")
  /\ UNCHANGED <<t_cpu, child, c_curthread, c_isidle, c_zombies, mig, list,
                 wc_threads, startVars>>

-----------------------------------------------------------------------------

\* What CPU c goes on with, interrupts off.
cpuStep(c) ==
  \/ unidle(c) \/ thread_yield(c) \/ wchan_wakeall_each(c)
  \/ migrate_count(c) \/ migrate_take(c) \/ migrate_send(c) \/ migrate_putback(c)

Next ==
  \E c \in CPUs :
    \/ cpuStep(c) \/ hardclock(c) \/ interprocessor_interrupt(c) \/ wchan_wakeone(c)
    \/ \E t \in Threads :
         \/ thread_start_cpus(c, t) \/ cpu_hatch(c, t) \/ thread_exit(c, t)
         \/ thread_fork_end(c, t) \/ wchan_sleep(c, t) \/ wchan_wakeall(c, t)
         \/ thread_shutdown(c, t) \/ thread_panic(c, t)
         \/ \E n \in Threads : thread_fork(c, t, n)

Spec == Init /\ [][Next]_vars

\* Every CPU gets on with what it does, and has a timer whose interrupt stays
\* pending while interrupts are off and is taken when they are on again.
Fairness == \A c \in CPUs : WF_vars(cpuStep(c)) /\ SF_vars(hardclock(c))

FairSpec == Spec /\ Fairness

-----------------------------------------------------------------------------
\* Properties.

\* Queues and lists hold threads, CPUs have one of the states above.
TypeOK ==
  /\ th \in [Threads -> {"none", "start_cpus", "hatch", "exit", "free", "forking", "zombie",
                         "destroyed", "dropped"}]
  /\ t_cpu \in [Threads -> CPUs] /\ child \in [Threads -> Threads]
  /\ c_curthread \in [CPUs -> Threads] /\ c_isidle \in [CPUs -> BOOLEAN]
  /\ c_zombies \in [CPUs -> SUBSET Threads]
  /\ c_ipi_pending \in [CPUs -> SUBSET {"PANIC", "OFFLINE", "UNIDLE"}]
  /\ at \in [CPUs -> {"run", "idle", "unidle", "yield", "count", "take", "send", "wakeall",
                      "halted"}]
  /\ \A c \in CPUs : ToSet(c_runqueue[c]) \cup ToSet(list[c]) \subseteq Threads
  /\ hatched \in 0 .. numcpus - 1 /\ started \in 0 .. numcpus - 1

occurs(t, s) == Cardinality({i \in 1 .. Len(s) : s[i] = t})

\* Where thread t is, as pairs of a place and how often t is there.
runningOn(t) == {c \in CPUs : c_curthread[c] = t /\ ~c_isidle[c]}
queuedOn(t) == {c \in CPUs : t \in ToSet(c_runqueue[c])}
places(t) ==
  Cardinality(runningOn(t))
    + FoldSet(LAMBDA c, n : n + occurs(t, c_runqueue[c]) + occurs(t, list[c])
                              + (IF t \in c_zombies[c] THEN 1 ELSE 0), 0, CPUs)
    + occurs(t, wc_threads["wc"]) + occurs(t, wc_threads["startup"])
    + Cardinality({u \in Threads \ {t} : child[u] = t})

\* A thread, which has one list node, is in exactly one place: running on one
\* CPU, on one run queue, on a wait channel, on a list that is being worked
\* off, or a zombie, whatever CPUs do to each other's queues at a time.
OnePlace ==
  /\ TypeOK
  /\ \A t \in Threads : places(t) = IF th[t] \in {"none", "destroyed", "dropped"} THEN 0 ELSE 1

\* Two CPUs never use one thread's stack: a thread that runs on a CPU or waits
\* on its run queue is not the thread in whose context another CPU idles or
\* runs, and a thread is queued where its t_cpu says.
OneStack ==
  \A t \in Threads : \A c \in runningOn(t) \cup queuedOn(t) :
    /\ t_cpu[t] = c
    /\ \A d \in CPUs \ {c} : c_curthread[d] # t

\* The thread lists are long enough for what thread_consider_migration takes
\* from them, although it has released the locks it counted under: neither
\* threadlist_remtail nor threadlist_remhead returns NULL.
VictimsThere ==
  \A c \in CPUs :
    /\ at[c] = "take" => mig[c].to_send <= Len(c_runqueue[c])
    /\ at[c] = "send" => mig[c].to_send <= Len(list[c])

\* A CPU that waits in cpu_idle with threads on its run queue has an interrupt
\* pending that will make it look: no thread waits for the next timer tick.
NoWorkIgnored ==
  \A c \in CPUs : at[c] = "idle" /\ c_runqueue[c] # <<>> => c_ipi_pending[c] # {}

\* A runnable thread gets a CPU, whichever queues it is moved between, unless
\* the machine is stopped.
RunnableRuns ==
  \A t \in Threads : queuedOn(t) # {} ~> (runningOn(t) # {} \/ \E c \in CPUs : at[c] = "halted")

=============================================================================

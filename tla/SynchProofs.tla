---------------------------- MODULE SynchProofs -----------------------------
(***************************************************************************)
(* What synch.c and thread.c keep true, for every number of threads: a     *)
(* thread is in one place, the lock excludes, no V is lost; and the lock   *)
(* with its condition variable implements module Monitor.                  *)
(*                                                                         *)
(* The queues are sequences of threads without repetitions, so what the    *)
(* steps do to them is stated as what they do to the sets of threads that  *)
(* are awake and asleep, and the invariant is about those sets.            *)
(***************************************************************************)
EXTENDS Synch, FiniteSetTheorems, SequenceTheorems, TLAPS

\* No thread is twice in queue q: it has one list node.
NoRepeat(q) == \A i, j \in 1 .. Len(q) : q[i] = q[j] => i = j

\* The threads that run or are ready to, and those asleep on w.
Awake == (IF c_isidle THEN {} ELSE {curthread}) \cup Range(c_runqueue)
Asleep(w) == Range(wc_threads[w])

\* Where a thread asleep on w is.
sleepsAt(w) == IF w = "io_sem" THEN "io" ELSE "P"

\* The CPU's part of the state: its thread is not also on its run queue.
CpuOK ==
  /\ curthread \in Threads /\ c_isidle \in BOOLEAN
  /\ c_runqueue \in Seq(Threads) /\ NoRepeat(c_runqueue)
  /\ ~c_isidle => curthread \notin Range(c_runqueue)

WchansOK ==
  /\ wc_threads \in [Wchans -> Seq(Threads)]
  /\ \A w \in Wchans : NoRepeat(wc_threads[w])

Types ==
  /\ th \in [Threads -> {"none", "out", "P", "own", "in", "io"}]
  /\ c_zombies \subseteq Threads
  /\ sem_count \in [Sems -> Nat]
  /\ lk_owner \in Threads \cup {NULL}
  /\ transfers \in Nat

\* Every thread that exists is awake or asleep on one wait channel, in the call
\* that sleeps on that channel.
Placed ==
  /\ \A w \in Wchans : Asleep(w) \cap Awake = {}
  /\ \A v, w \in Wchans : v # w => Asleep(v) \cap Asleep(w) = {}
  /\ \A t \in Threads : th[t] = "none" <=>
       t \notin Awake /\ \A w \in Wchans : t \notin Asleep(w)
  /\ \A w \in Wchans : \A t \in Asleep(w) : th[t] = sleepsAt(w)

\* A transfer that was begun is with the disk, or its V was done and its
\* thread has still to do P.
inTransfer == {t \in Threads : th[t] = "io"}
TransfersCounted == Cardinality(inTransfer) = transfers + sem_count["io_sem"]

\* The inductive invariant.
Inv ==
  /\ CpuOK /\ WchansOK /\ Types /\ Placed
  /\ LockExcludes /\ TransfersCounted /\ NoLostWakeup

-----------------------------------------------------------------------------
\* Queues.

\* An empty queue has no threads.
LEMMA EmptyQueue == Range(<<>>) = {} /\ NoRepeat(<<>>)
  BY DEF Range, NoRepeat

\* A queue of one thread.
LEMMA OneQueue ==
  ASSUME NEW x
  PROVE  Range(<<x>>) = {x} /\ NoRepeat(<<x>>)
  BY DEF Range, NoRepeat

\* The threads in a queue, as a set.
LEMMA QueueSet ==
  ASSUME NEW q \in Seq(Threads)
  PROVE  /\ Range(q) = {q[i] : i \in 1 .. Len(q)}
         /\ Range(q) \subseteq Threads
         /\ q = <<>> <=> Range(q) = {}
<1>1. DOMAIN q = 1 .. Len(q) /\ Len(q) \in Nat
  OBVIOUS
<1>2. Range(q) = {q[i] : i \in 1 .. Len(q)}
  BY <1>1 DEF Range
<1>3. Range(q) \subseteq Threads
  BY <1>2
<1>4. q = <<>> <=> Len(q) = 0
  BY EmptySeq
<1>5. Len(q) = 0 => Range(q) = {}
  BY <1>2
<1>6. Len(q) # 0 => q[1] \in Range(q)
  BY <1>1, <1>2
<1> QED
  BY Zenon, <1>2, <1>3, <1>4, <1>5, <1>6

\* Joining two queues of different threads.
LEMMA JoinQueues ==
  ASSUME NEW q \in Seq(Threads), NEW r \in Seq(Threads),
         NoRepeat(q), NoRepeat(r), Range(q) \cap Range(r) = {}
  PROVE  /\ q \o r \in Seq(Threads)
         /\ Range(q \o r) = Range(q) \cup Range(r)
         /\ NoRepeat(q \o r)
<1>1. /\ q \o r \in Seq(Threads)
      /\ Len(q \o r) = Len(q) + Len(r)
      /\ \A i \in 1 .. Len(q) + Len(r) :
           (q \o r)[i] = IF i <= Len(q) THEN q[i] ELSE r[i - Len(q)]
  BY ConcatProperties
<1>2. Len(q) \in Nat /\ Len(r) \in Nat
  OBVIOUS
<1> DEFINE s == q \o r
<1> HIDE DEF s
<1>3. Range(s) = {s[i] : i \in 1 .. Len(s)}
  BY Zenon, <1>1, QueueSet DEF s
<1>4. \A i \in 1 .. Len(q) : s[i] = q[i] /\ i \in 1 .. Len(s)
  BY <1>1, <1>2 DEF s
<1>5. \A i \in 1 .. Len(r) : s[Len(q) + i] = r[i] /\ Len(q) + i \in 1 .. Len(s)
  BY <1>1, <1>2 DEF s
<1>6. \A i \in 1 .. Len(s) :
        \/ i \in 1 .. Len(q) /\ s[i] = q[i]
        \/ i - Len(q) \in 1 .. Len(r) /\ s[i] = r[i - Len(q)] /\ i \notin 1 .. Len(q)
  BY <1>1, <1>2 DEF s
<1>7. Range(s) \subseteq Range(q) \cup Range(r)
  BY <1>3, <1>6, QueueSet
<1>8. Range(q) \subseteq Range(s)
  BY <1>3, <1>4, QueueSet
<1>9. Range(r) \subseteq Range(s)
  BY <1>3, <1>5, QueueSet
<1>10. NoRepeat(s)
  <2> SUFFICES ASSUME NEW i \in 1 .. Len(s), NEW j \in 1 .. Len(s), s[i] = s[j]
               PROVE  i = j
    BY DEF NoRepeat
  <2>1. \A k \in 1 .. Len(q), l \in 1 .. Len(r) : q[k] # r[l]
    <3> SUFFICES ASSUME NEW k \in 1 .. Len(q), NEW l \in 1 .. Len(r)
                 PROVE  q[k] # r[l]
      OBVIOUS
    <3>1. q[k] \in Range(q) /\ r[l] \in Range(r)
      BY QueueSet
    <3> QED
      BY <3>1
  <2>2. CASE i \in 1 .. Len(q) /\ j \in 1 .. Len(q)
    BY <2>2, <1>4 DEF NoRepeat
  <2>3. CASE i \notin 1 .. Len(q) /\ j \notin 1 .. Len(q)
    <3>1. i - Len(q) \in 1 .. Len(r) /\ j - Len(q) \in 1 .. Len(r)
          /\ r[i - Len(q)] = r[j - Len(q)]
      BY <2>3, <1>6
    <3>2. i - Len(q) = j - Len(q)
      BY Zenon, <3>1 DEF NoRepeat
    <3>3. i \in Int /\ j \in Int
      BY <1>1, <1>2 DEF s
    <3> QED
      BY <3>2, <3>3, <1>2
  <2> QED
    BY <2>1, <2>2, <2>3, <1>6
<1> QED
  BY <1>1, <1>7, <1>8, <1>9, <1>10 DEF s

\* Adding a thread at the end.
LEMMA AppendQueue ==
  ASSUME NEW q \in Seq(Threads), NEW x \in Threads, NoRepeat(q), x \notin Range(q)
  PROVE  /\ Append(q, x) \in Seq(Threads)
         /\ Range(Append(q, x)) = Range(q) \cup {x}
         /\ NoRepeat(Append(q, x))
<1>1. Append(q, x) = q \o <<x>> /\ <<x>> \in Seq(Threads)
  OBVIOUS
<1>2. Range(q) \cap Range(<<x>>) = {} /\ NoRepeat(<<x>>)
  BY OneQueue
<1>3. /\ q \o <<x>> \in Seq(Threads)
      /\ Range(q \o <<x>>) = Range(q) \cup Range(<<x>>)
      /\ NoRepeat(q \o <<x>>)
  BY Zenon, <1>1, <1>2, JoinQueues
<1> QED
  BY <1>1, <1>3, OneQueue

\* Taking the first thread off.
LEMMA HeadOfQueue ==
  ASSUME NEW q \in Seq(Threads), NoRepeat(q), q # <<>>
  PROVE  /\ Head(q) \in Range(q) /\ Head(q) \in Threads
         /\ Tail(q) \in Seq(Threads) /\ NoRepeat(Tail(q))
         /\ Range(Tail(q)) = Range(q) \ {Head(q)}
<1>1. /\ Head(q) = q[1] /\ Head(q) \in Threads
      /\ Tail(q) \in Seq(Threads)
      /\ Len(q) \in Nat /\ Len(q) > 0
      /\ Len(Tail(q)) = Len(q) - 1
      /\ \A i \in 1 .. Len(q) - 1 : Tail(q)[i] = q[i + 1]
  BY HeadTailProperties, EmptySeq
<1> DEFINE r == Tail(q)
<1> HIDE DEF r
<1>2. Range(q) = {q[i] : i \in 1 .. Len(q)} /\ Range(r) = {r[i] : i \in 1 .. Len(q) - 1}
  BY Zenon, <1>1, QueueSet DEF r
<1>3. \A i \in 1 .. Len(q) - 1 : r[i] = q[i + 1] /\ i + 1 \in 1 .. Len(q) /\ i + 1 # 1
  BY <1>1 DEF r
<1>4. \A i \in 1 .. Len(q) : i # 1 => i - 1 \in 1 .. Len(q) - 1 /\ r[i - 1] = q[i]
  BY <1>1, <1>3
<1>5. 1 \in 1 .. Len(q)
  BY <1>1
<1>6. NoRepeat(r)
  <2> SUFFICES ASSUME NEW i \in 1 .. Len(q) - 1, NEW j \in 1 .. Len(q) - 1, r[i] = r[j]
               PROVE  i = j
    BY <1>1 DEF NoRepeat, r
  <2>1. i + 1 = j + 1
    BY <1>3 DEF NoRepeat
  <2> QED
    BY <2>1
<1>7. Range(r) \subseteq Range(q) \ {q[1]}
  BY <1>2, <1>3, <1>5 DEF NoRepeat
<1>8. Range(q) \ {q[1]} \subseteq Range(r)
  BY <1>2, <1>4
<1> QED
  BY <1>1, <1>2, <1>5, <1>6, <1>7, <1>8 DEF r

-----------------------------------------------------------------------------
\* What the operations of thread.c do to the sets of threads.

\* thread_switch: the threads of the queue it is given, the run queue with what
\* was put on it, are the awake ones.
LEMMA SwitchEffect ==
  ASSUME CpuOK, NEW q \in Seq(Threads), NoRepeat(q), NEW z \in SUBSET Threads,
         Range(c_runqueue) \subseteq Range(q), switchTo(q, z)
  PROVE  CpuOK' /\ Awake' = Range(q) /\ c_zombies' \subseteq Threads
<1>1. CASE q = <<>>
  <2>1. /\ c_isidle' = TRUE /\ c_zombies' = z
        /\ curthread' = curthread /\ c_runqueue' = c_runqueue
    BY <1>1 DEF switchTo
  <2>2. c_runqueue = <<>>
    BY <1>1, EmptyQueue, QueueSet DEF CpuOK
  <2> QED
    BY <1>1, <2>1, <2>2 DEF CpuOK, Awake
<1>2. CASE q # <<>>
  <2>1. /\ c_isidle' = FALSE /\ c_zombies' = {}
        /\ curthread' = Head(q) /\ c_runqueue' = Tail(q)
    BY <1>2 DEF switchTo
  <2>2. CpuOK'
    BY Zenon, <1>2, <2>1, HeadOfQueue DEF CpuOK
  <2>3. Awake' = {Head(q)} \cup Range(Tail(q))
    BY <2>1 DEF Awake
  <2> QED
    BY <1>2, <2>1, <2>2, <2>3, HeadOfQueue
<1> QED
  BY <1>1, <1>2

\* Threads put on the run queue join the awake ones.
LEMMA RunqueueEffect ==
  ASSUME CpuOK, NEW r \in Seq(Threads), NoRepeat(r), Range(r) \cap Awake = {},
         c_runqueue' = c_runqueue \o r, UNCHANGED <<curthread, c_isidle>>
  PROVE  CpuOK' /\ Awake' = Awake \cup Range(r)
<1>1. Range(c_runqueue) \cap Range(r) = {}
  BY DEF Awake
<1>2. /\ c_runqueue' \in Seq(Threads) /\ NoRepeat(c_runqueue')
      /\ Range(c_runqueue') = Range(c_runqueue) \cup Range(r)
  BY <1>1, JoinQueues DEF CpuOK
<1>3. ~c_isidle => curthread \in Awake
  BY DEF Awake
<1>4. Awake' = (IF c_isidle THEN {} ELSE {curthread}) \cup Range(c_runqueue')
  BY DEF Awake
<1> QED
  BY <1>2, <1>3, <1>4 DEF CpuOK, Awake

\* wchan_wakeone splits the threads asleep on w into the first and the rest.
LEMMA WakeEffect ==
  ASSUME WchansOK, NEW w \in Wchans
  PROVE  /\ woken(w) \in Seq(Threads) /\ NoRepeat(woken(w))
         /\ asleep(w) \in Seq(Threads) /\ NoRepeat(asleep(w))
         /\ Range(asleep(w)) = Asleep(w) \ Range(woken(w))
         /\ \/ Asleep(w) = {} /\ Range(woken(w)) = {}
            \/ \E h \in Asleep(w) : Range(woken(w)) = {h}
<1> DEFINE q == wc_threads[w]
<1>1. q \in Seq(Threads) /\ NoRepeat(q) /\ Asleep(w) = Range(q)
  BY DEF WchansOK, Asleep
<1>2. CASE q = <<>>
  <2>1. woken(w) = <<>> /\ asleep(w) = <<>>
    BY <1>2 DEF woken, asleep
  <2> QED
    BY <1>1, <1>2, <2>1, EmptyQueue
<1>3. CASE q # <<>>
  <2>1. woken(w) = <<Head(q)>> /\ asleep(w) = Tail(q)
    BY <1>3 DEF woken, asleep
  <2> HIDE DEF q
  <2>2. /\ Head(q) \in Range(q) /\ Head(q) \in Threads
        /\ Tail(q) \in Seq(Threads) /\ NoRepeat(Tail(q))
        /\ Range(Tail(q)) = Range(q) \ {Head(q)}
    BY <1>1, <1>3, HeadOfQueue
  <2>3. Range(<<Head(q)>>) = {Head(q)} /\ NoRepeat(<<Head(q)>>)
        /\ <<Head(q)>> \in Seq(Threads)
    BY <2>2, OneQueue
  <2> QED
    BY <1>1, <2>1, <2>2, <2>3
<1> QED
  BY <1>2, <1>3

\* The awake threads and the sleepers are threads; the awake ones besides the
\* current thread are on the run queue.
LEMMA ThreadSets ==
  ASSUME CpuOK, WchansOK
  PROVE  /\ Awake \subseteq Threads
         /\ \A w \in Wchans : Asleep(w) \subseteq Threads
         /\ \A w \in Wchans : wc_threads[w] = <<>> <=> Asleep(w) = {}
         /\ ~c_isidle => curthread \in Awake /\ Range(c_runqueue) = Awake \ {curthread}
         /\ c_isidle => Range(c_runqueue) = Awake
<1>1. Range(c_runqueue) \subseteq Threads
  BY QueueSet DEF CpuOK
<1>2. \A w \in Wchans : /\ Asleep(w) \subseteq Threads
                        /\ wc_threads[w] = <<>> <=> Asleep(w) = {}
  BY QueueSet DEF WchansOK, Asleep
<1> QED
  BY <1>1, <1>2 DEF CpuOK, Awake

\* The threads in the P of semaphore s, when A are awake and f is where each
\* thread is.
InP(A, f, s) == {t \in A : f[t] = sleepsAt(s)}

\* The awake threads inside P, in terms of the run queue and the CPU.
LEMMA AwakeInP ==
  CpuOK => \A s \in Sems : awakeInP(s) = InP(Awake, th, s)
<1> SUFFICES ASSUME CpuOK, NEW s \in Sems
             PROVE  awakeInP(s) = InP(Awake, th, s)
  OBVIOUS
<1>1. (IF s = "lk_sem" THEN "P" ELSE "io") = sleepsAt(s)
  BY DEF Sems, sleepsAt
<1>2. Range(c_runqueue) \subseteq Threads
  BY QueueSet DEF CpuOK
<1>3. \A t \in Threads : t \in Awake <=> (t = curthread /\ ~c_isidle) \/ t \in Range(c_runqueue)
  BY DEF Awake
<1>4. Awake \subseteq Threads
  BY <1>2 DEF Awake, CpuOK
<1> QED
  BY <1>1, <1>3, <1>4 DEF awakeInP, InP

\* Sets of threads are finite.
LEMMA FiniteThreads ==
  ASSUME NEW S \in SUBSET Threads
  PROVE  /\ IsFiniteSet(S) /\ Cardinality(S) \in Nat
         /\ \A T \in SUBSET S : Cardinality(T) <= Cardinality(S)
         /\ \A t \in Threads \ S : Cardinality(S \cup {t}) = Cardinality(S) + 1
         /\ \A t \in S : Cardinality(S \ {t}) = Cardinality(S) - 1
<1>1. IsFiniteSet(S)
  BY SynchAssumption, FS_Subset
<1> QED
  BY <1>1, FS_CardinalityType, FS_Subset, FS_AddElement, FS_RemoveElement

\* The lock's semaphore and the threads past P: the two cases of LockExcludes.
LEMMA OneHolder ==
  ASSUME NEW f, NEW n \in Nat
  PROVE  n + Cardinality({t \in Threads : f[t] \in {"own", "in"}}) = 1 <=>
           \/ n = 1 /\ \A t \in Threads : f[t] \notin {"own", "in"}
           \/ n = 0 /\ \E t \in Threads : \A u \in Threads :
                                            f[u] \in {"own", "in"} <=> u = t
<1> DEFINE S == {t \in Threads : f[t] \in {"own", "in"}}
<1>1. IsFiniteSet(S) /\ Cardinality(S) \in Nat
  BY FiniteThreads
<1>2. Cardinality(S) = 0 <=> S = {}
  BY <1>1, FS_EmptySet
<1>3. Cardinality(S) = 1 <=> \E t : S = {t}
  BY Zenon, <1>1, FS_Singleton
<1>4. S = {} <=> \A t \in Threads : f[t] \notin {"own", "in"}
  OBVIOUS
<1>5. (\E t : S = {t}) <=> \E t \in Threads : \A u \in Threads :
                                            f[u] \in {"own", "in"} <=> u = t
  <2>1. ASSUME NEW t, S = {t}
        PROVE  t \in Threads /\ \A u \in Threads : f[u] \in {"own", "in"} <=> u = t
    <3>1. \A u : u \in S <=> u = t
      BY <2>1
    <3>2. \A u \in Threads : u \in S <=> f[u] \in {"own", "in"}
      OBVIOUS
    <3>3. t \in S
      BY <2>1
    <3>4. S \subseteq Threads
      OBVIOUS
    <3> HIDE DEF S
    <3> QED
      BY <3>1, <3>2, <3>3, <3>4
  <2>2. ASSUME NEW t \in Threads, \A u \in Threads : f[u] \in {"own", "in"} <=> u = t
        PROVE  S = {t}
    BY <2>2
  <2> HIDE DEF S
  <2> QED
    BY <2>1, <2>2
<1> HIDE DEF S
<1>6. n + Cardinality(S) = 1 <=> (n = 1 /\ Cardinality(S) = 0) \/ (n = 0 /\ Cardinality(S) = 1)
  BY <1>1
<1> QED
  BY <1>2, <1>3, <1>4, <1>5, <1>6 DEF S

\* f[t] is where t is, n the count of the lock's semaphore, o its owner.
LockState(f, n, o) ==
  /\ \/ n = 1 /\ \A t \in Threads : f[t] \notin {"own", "in"}
     \/ n = 0 /\ \E t \in Threads : \A u \in Threads : f[u] \in {"own", "in"} <=> u = t
  /\ \A t \in Threads : o = t <=> f[t] = "in"

\* LockExcludes, as the proofs use it.
LEMMA LockForm == Types => (LockExcludes <=> LockState(th, sem_count["lk_sem"], lk_owner))
<1> SUFFICES ASSUME Types PROVE LockExcludes <=> LockState(th, sem_count["lk_sem"], lk_owner)
  OBVIOUS
<1>1. sem_count["lk_sem"] \in Nat
  BY DEF Types, Sems
<1> QED
  BY <1>1, OneHolder DEF LockExcludes, LockState, holds

\* The two facts above, in the next state.
LEMMA NextForms ==
  /\ Types' => (LockExcludes' <=> LockState(th', sem_count'["lk_sem"], lk_owner'))
  /\ CpuOK' => \A s \in Sems : awakeInP(s)' = InP(Awake', th', s)
<1>1. (Types => (LockExcludes <=> LockState(th, sem_count["lk_sem"], lk_owner)))'
  BY LockForm, PTL
<1>2. (CpuOK => \A s \in Sems : awakeInP(s) = InP(Awake, th, s))'
  BY AwakeInP, PTL
<1> QED
  BY <1>1, <1>2 DEF LockState, InP, Sems, sleepsAt

\* NoLostWakeup for one semaphore, in the next state.
WakesNext(s) == Asleep(s)' # {} => Cardinality(InP(Awake', th', s)) >= sem_count'[s]

\* A step that loses no wakeup of any semaphore keeps NoLostWakeup.
LEMMA WakesAll ==
  ASSUME CpuOK', WchansOK', \A s \in Sems : WakesNext(s)
  PROVE  NoLostWakeup'
<1>1. \A s \in Sems : wc_threads'[s] # <<>> => Asleep(s)' # {}
  BY Zenon, QueueSet DEF WchansOK, Asleep, Sems, Wchans
<1> QED
  BY <1>1, NextForms DEF WakesNext, NoLostWakeup, Sems

\* What Inv says, in the form the steps use.
LEMMA InvForms ==
  ASSUME Inv
  PROVE  /\ CpuOK /\ WchansOK /\ Types /\ Placed
         /\ LockState(th, sem_count["lk_sem"], lk_owner)
         /\ \A s \in Sems : Asleep(s) # {} => Cardinality(InP(Awake, th, s)) >= sem_count[s]
         /\ Awake \subseteq Threads
         /\ \A w \in Wchans : Asleep(w) \subseteq Threads
         /\ \A t \in Threads : t \in Awake => th[t] # "none"
<1>1. CpuOK /\ WchansOK /\ Types /\ Placed
  BY DEF Inv
<1>2. LockState(th, sem_count["lk_sem"], lk_owner)
  BY LockForm DEF Inv
<1>3. \A s \in Sems : Asleep(s) # {} => Cardinality(InP(Awake, th, s)) >= sem_count[s]
  <2>1. \A s \in Sems : Asleep(s) # {} => wc_threads[s] # <<>>
    BY <1>1, ThreadSets DEF Sems, Wchans
  <2> QED
    BY <2>1, AwakeInP DEF Inv, NoLostWakeup
<1>4. \A t \in Threads : t \in Awake => th[t] # "none"
  BY <1>1 DEF Placed
<1> QED
  BY <1>1, <1>2, <1>3, <1>4, ThreadSets

\* A semaphore that the step leaves alone, and from whose P it takes nobody.
LEMMA WakesKept ==
  ASSUME Inv, NEW s \in Sems, Awake' \subseteq Threads,
         InP(Awake, th, s) \subseteq InP(Awake', th', s),
         sem_count'[s] = sem_count[s], Asleep(s)' \subseteq Asleep(s)
  PROVE  WakesNext(s)
<1>1. InP(Awake', th', s) \subseteq Threads
  BY DEF InP
<1>2. /\ Cardinality(InP(Awake', th', s)) \in Nat
      /\ Cardinality(InP(Awake, th, s)) <= Cardinality(InP(Awake', th', s))
      /\ Cardinality(InP(Awake, th, s)) \in Nat
  BY <1>1, FiniteThreads
<1>3. sem_count[s] \in Nat
  BY InvForms DEF Types
<1> QED
  BY <1>2, <1>3, InvForms DEF WakesNext

-----------------------------------------------------------------------------

\* The state in which the first thread runs alone satisfies the invariant.
LEMMA InitInv == Init => Inv
<1> SUFFICES ASSUME Init PROVE Inv
  OBVIOUS
<1>1. CpuOK
  <2>1. curthread \in Threads /\ c_isidle \in BOOLEAN
    BY Zenon, SynchAssumption DEF Init
  <2>2. c_runqueue \in Seq(Threads) /\ NoRepeat(c_runqueue) /\ Range(c_runqueue) = {}
    BY EmptyQueue DEF Init
  <2> QED
    BY <2>1, <2>2 DEF CpuOK
<1>2. WchansOK
  BY EmptyQueue DEF Init, WchansOK
<1>3. Types
  BY DEF Init, Types
<1>4. Awake = {boot} /\ \A w \in Wchans : Asleep(w) = {}
  BY EmptyQueue DEF Init, Awake, Asleep
<1>5. Placed
  BY <1>4, SynchAssumption DEF Init, Placed
<1>6. LockExcludes
  <2>1. LockState(th, sem_count["lk_sem"], lk_owner)
    BY SynchAssumption DEF Init, LockState, Sems
  <2> QED
    BY <1>3, <2>1, LockForm
<1>7. TransfersCounted
  <2>1. inTransfer = {}
    BY DEF Init, inTransfer
  <2>2. transfers = 0 /\ sem_count["io_sem"] = 0
    BY DEF Init, Sems
  <2> QED
    BY <2>1, <2>2, FS_EmptySet DEF TransfersCounted
<1>8. NoLostWakeup
  BY DEF Init, NoLostWakeup, Sems, Wchans
<1> QED
  BY <1>1, <1>2, <1>3, <1>5, <1>6, <1>7, <1>8 DEF Inv

\* Steps that move threads from the condition variable to the run queue, or
\* only give the CPU to another thread.
LEMMA QueueStep ==
  ASSUME Inv, CpuOK', WchansOK', c_zombies' \subseteq Threads,
         UNCHANGED <<th, sem_count, lk_owner, transfers>>,
         NEW R \in SUBSET Asleep("cv"),
         Awake' = Awake \cup R,
         Asleep("cv")' = Asleep("cv") \ R,
         \A s \in Sems : Asleep(s)' = Asleep(s)
  PROVE  Inv'
<1>1. Types' /\ LockExcludes' /\ TransfersCounted'
  BY DEF Inv, Types, LockExcludes, holds, TransfersCounted, inTransfer
<1>2. R \subseteq Threads /\ "cv" \in Wchans /\ "cv" \notin Sems /\ Wchans = Sems \cup {"cv"}
  BY InvForms DEF Wchans, Sems
<1>3. Placed'
  <2>1. \A w \in Wchans : Asleep(w)' = IF w = "cv" THEN Asleep(w) \ R ELSE Asleep(w)
    BY <1>2
  <2>2. \A t \in Threads : th[t] = "none" <=>
          t \notin Awake' /\ \A w \in Wchans : t \notin Asleep(w)'
    BY <1>2, <2>1, InvForms DEF Placed
  <2> QED
    BY <1>2, <2>1, <2>2, InvForms DEF Placed
<1>4. NoLostWakeup'
  <2>1. Awake' \subseteq Threads
    BY <1>2, InvForms
  <2>2. \A s \in Sems : InP(Awake, th, s) \subseteq InP(Awake', th', s)
    BY DEF InP
  <2>3. \A s \in Sems : WakesNext(s)
    BY Zenon, <2>1, <2>2, WakesKept
  <2> QED
    BY <2>3, WakesAll
<1> QED
  BY <1>1, <1>3, <1>4 DEF Inv

\* thread_yield: the timer moves the running thread to the end of the run queue.
LEMMA YieldStep == ASSUME Inv, thread_yield PROVE Inv'
<1> DEFINE q == Append(c_runqueue, curthread)
<1>1. CpuOK /\ WchansOK /\ Types
  BY InvForms
<1>2. /\ ~c_isidle /\ switchTo(q, c_zombies)
      /\ UNCHANGED <<th, wc_threads, sem_count, lk_owner, transfers>>
  BY DEF thread_yield
<1>3. q \in Seq(Threads) /\ NoRepeat(q) /\ Range(q) = Range(c_runqueue) \cup {curthread}
  BY <1>1, <1>2, AppendQueue DEF CpuOK
<1>4. Range(q) = Awake /\ Range(c_runqueue) \subseteq Range(q)
  BY <1>2, <1>3 DEF Awake
<1> HIDE DEF q
<1>5. CpuOK' /\ Awake' = Awake /\ c_zombies' \subseteq Threads
  BY <1>1, <1>2, <1>3, <1>4, SwitchEffect DEF Types
<1>6. WchansOK' /\ \A w \in Wchans : Asleep(w)' = Asleep(w)
  BY <1>1, <1>2 DEF WchansOK, Asleep
<1>7. /\ {} \in SUBSET Asleep("cv") /\ Awake' = Awake \cup {}
      /\ Asleep("cv")' = Asleep("cv") \ {} /\ \A s \in Sems : Asleep(s)' = Asleep(s)
  BY <1>5, <1>6 DEF Wchans
<1> QED
  BY ZenonT(30), <1>2, <1>5, <1>6, <1>7, QueueStep

\* The idle loop of thread_switch finds a thread to run.
LEMMA IdleStep == ASSUME Inv, cpu_idle PROVE Inv'
<1>1. CpuOK /\ WchansOK /\ Types
  BY InvForms
<1>2. /\ c_isidle /\ switchTo(c_runqueue, c_zombies)
      /\ UNCHANGED <<th, wc_threads, sem_count, lk_owner, transfers>>
  BY DEF cpu_idle
<1>3. Range(c_runqueue) = Awake
  BY <1>2 DEF Awake
<1>4. CpuOK' /\ Awake' = Awake /\ c_zombies' \subseteq Threads
  BY <1>1, <1>2, <1>3, SwitchEffect DEF Types, CpuOK
<1>5. WchansOK' /\ \A w \in Wchans : Asleep(w)' = Asleep(w)
  BY <1>1, <1>2 DEF WchansOK, Asleep
<1>6. /\ {} \in SUBSET Asleep("cv") /\ Awake' = Awake \cup {}
      /\ Asleep("cv")' = Asleep("cv") \ {} /\ \A s \in Sems : Asleep(s)' = Asleep(s)
  BY <1>4, <1>5 DEF Wchans
<1> QED
  BY ZenonT(30), <1>2, <1>4, <1>5, <1>6, QueueStep

\* cv_signal wakes the first sleeper, if any.
LEMMA SignalStep == ASSUME Inv, NEW t \in Threads, cv_signal(t) PROVE Inv'
<1> DEFINE r == woken("cv")
<1>1. CpuOK /\ WchansOK /\ Types /\ Placed /\ "cv" \in Wchans
  BY InvForms DEF Wchans
<1>2. /\ wc_threads' = [wc_threads EXCEPT !["cv"] = asleep("cv")]
      /\ c_runqueue' = c_runqueue \o r
      /\ UNCHANGED <<th, curthread, c_isidle, c_zombies, sem_count, lk_owner, transfers>>
  BY DEF cv_signal
<1>3. /\ r \in Seq(Threads) /\ NoRepeat(r) /\ Range(r) \subseteq Asleep("cv")
      /\ asleep("cv") \in Seq(Threads) /\ NoRepeat(asleep("cv"))
      /\ Range(asleep("cv")) = Asleep("cv") \ Range(r)
  BY <1>1, WakeEffect
<1> HIDE DEF r
<1>4. Range(r) \cap Awake = {}
  BY <1>1, <1>3 DEF Placed
<1>5. CpuOK' /\ Awake' = Awake \cup Range(r)
  BY ZenonT(30), <1>1, <1>2, <1>3, <1>4, RunqueueEffect
<1>6. WchansOK'
  BY <1>1, <1>2, <1>3 DEF WchansOK
<1>7. Asleep("cv")' = Asleep("cv") \ Range(r) /\ \A s \in Sems : Asleep(s)' = Asleep(s)
  BY <1>1, <1>2, <1>3 DEF WchansOK, Asleep, Wchans, Sems
<1> QED
  BY ZenonT(30), <1>1, <1>2, <1>3, <1>5, <1>6, <1>7, QueueStep DEF Types

\* cv_broadcast wakes all the sleepers.
LEMMA BroadcastStep == ASSUME Inv, NEW t \in Threads, cv_broadcast(t) PROVE Inv'
<1> DEFINE r == wc_threads["cv"]
<1>1. CpuOK /\ WchansOK /\ Types /\ Placed /\ "cv" \in Wchans
  BY InvForms DEF Wchans
<1>2. /\ wc_threads' = [wc_threads EXCEPT !["cv"] = <<>>]
      /\ c_runqueue' = c_runqueue \o r
      /\ UNCHANGED <<th, curthread, c_isidle, c_zombies, sem_count, lk_owner, transfers>>
  BY DEF cv_broadcast
<1>3. r \in Seq(Threads) /\ NoRepeat(r) /\ Range(r) = Asleep("cv")
  BY <1>1 DEF WchansOK, Asleep
<1>4. Range(r) \cap Awake = {}
  BY <1>1, <1>3 DEF Placed
<1>5. CpuOK' /\ Awake' = Awake \cup Range(r)
  BY ZenonT(30), <1>1, <1>2, <1>3, <1>4, RunqueueEffect
<1>6. WchansOK'
  BY <1>1, <1>2, EmptyQueue DEF WchansOK
<1>7. Asleep("cv")' = Asleep("cv") \ Range(r) /\ \A s \in Sems : Asleep(s)' = Asleep(s)
  BY <1>1, <1>2, <1>3, EmptyQueue DEF WchansOK, Asleep, Wchans, Sems
<1> QED
  BY ZenonT(30), <1>1, <1>2, <1>3, <1>5, <1>6, <1>7, QueueStep DEF Types

-----------------------------------------------------------------------------
\* Steps of the current thread.

\* Where the thread that runs is.
LEMMA OnFacts ==
  ASSUME Inv, NEW t \in Threads, NEW pc, On(t, pc)
  PROVE  /\ ~c_isidle /\ curthread = t /\ th[t] = pc
         /\ t \in Awake /\ Range(c_runqueue) = Awake \ {t}
         /\ \A w \in Wchans : t \notin Asleep(w)
<1>1. ~c_isidle /\ curthread = t /\ th[t] = pc
  BY DEF On
<1>2. t \in Awake /\ Range(c_runqueue) = Awake \ {t}
  BY <1>1, InvForms, ThreadSets
<1> QED
  BY <1>1, <1>2, InvForms DEF Placed

\* What a move of thread t leaves alone.
LEMMA GoesFacts ==
  ASSUME Inv, NEW t \in Threads, NEW pc \in {"none", "out", "P", "own", "in", "io"}, Goes(t, pc)
  PROVE  /\ th' \in [Threads -> {"none", "out", "P", "own", "in", "io"}]
         /\ th'[t] = pc
         /\ \A u \in Threads : u # t => th'[u] = th[u]
  BY InvForms DEF Types, Goes

\* A thread that goes on with the queues as they are.
LEMMA MoveStep ==
  ASSUME Inv, NEW t \in Awake, NEW pc \in {"out", "P", "own", "in", "io"}, Goes(t, pc),
         UNCHANGED <<cpuVars, wc_threads>>,
         Types', LockState(th', sem_count'["lk_sem"], lk_owner'), TransfersCounted',
         \A s \in Sems : WakesNext(s)
  PROVE  Inv'
<1>1. t \in Threads /\ CpuOK /\ WchansOK /\ Placed
  BY InvForms
<1>2. /\ CpuOK' /\ WchansOK' /\ Awake' = Awake
      /\ \A w \in Wchans : Asleep(w)' = Asleep(w)
  BY <1>1 DEF cpuVars, CpuOK, WchansOK, Awake, Asleep
<1>3. th'[t] = pc /\ \A u \in Threads : u # t => th'[u] = th[u]
  BY <1>1, GoesFacts
<1>4. Placed'
  <2>1. \A w \in Wchans : t \notin Asleep(w) /\ Asleep(w) \subseteq Threads
    BY <1>1, InvForms DEF Placed
  <2>2. \A u \in Threads : th'[u] = "none" <=> th[u] = "none"
    BY <1>3, InvForms
  <2>3. \A u \in Threads : th'[u] = "none" <=>
          u \notin Awake' /\ \A w \in Wchans : u \notin Asleep(w)'
    BY <1>1, <1>2, <2>2 DEF Placed
  <2>4. \A w \in Wchans : \A u \in Asleep(w)' : th'[u] = sleepsAt(w)
    BY <1>1, <1>2, <1>3, <2>1 DEF Placed
  <2> QED
    BY <1>1, <1>2, <2>3, <2>4 DEF Placed
<1> QED
  BY <1>2, <1>4, NextForms, WakesAll DEF Inv

\* The semaphores when only thread t moves, not out of the P of s.
LEMMA MoveWakes ==
  ASSUME Inv, NEW t \in Awake, NEW pc \in {"out", "P", "own", "in", "io"}, Goes(t, pc),
         UNCHANGED <<cpuVars, wc_threads>>,
         NEW s \in Sems, th[t] # sleepsAt(s), sem_count'[s] = sem_count[s]
  PROVE  WakesNext(s)
<1>1. t \in Threads /\ Awake' = Awake /\ Asleep(s)' = Asleep(s) /\ Awake \subseteq Threads
  BY InvForms DEF cpuVars, Awake, Asleep
<1>2. InP(Awake, th, s) \subseteq InP(Awake', th', s)
  BY <1>1, GoesFacts DEF InP
<1> QED
  BY <1>1, <1>2, WakesKept

\* inTransfer and its count when thread t moves.
LEMMA MoveTransfers ==
  ASSUME Inv, NEW t \in Threads, NEW pc \in {"none", "out", "P", "own", "in", "io"}, Goes(t, pc)
  PROVE  /\ th[t] # "io" /\ pc # "io" => inTransfer' = inTransfer
         /\ th[t] # "io" /\ pc = "io" =>
              Cardinality(inTransfer') = Cardinality(inTransfer) + 1
         /\ th[t] = "io" /\ pc # "io" =>
              Cardinality(inTransfer') = Cardinality(inTransfer) - 1
         /\ Cardinality(inTransfer) \in Nat
<1>1. th'[t] = pc /\ \A u \in Threads : u # t => th'[u] = th[u]
  BY GoesFacts
<1>2. inTransfer \subseteq Threads
  BY DEF inTransfer
<1>3. th[t] # "io" /\ pc # "io" => inTransfer' = inTransfer
  BY <1>1 DEF inTransfer
<1>4. th[t] # "io" /\ pc = "io" => t \notin inTransfer /\ inTransfer' = inTransfer \cup {t}
  BY <1>1 DEF inTransfer
<1>5. th[t] = "io" /\ pc # "io" => t \in inTransfer /\ inTransfer' = inTransfer \ {t}
  BY <1>1 DEF inTransfer
<1> QED
  BY <1>2, <1>3, <1>4, <1>5, FiniteThreads

\* lock_acquire as far as P.
LEMMA AcquireStep == ASSUME Inv, NEW t \in Threads, lock_acquire(t) PROVE Inv'
<1>1. /\ On(t, "out") /\ Goes(t, "P")
      /\ UNCHANGED <<cpuVars, wc_threads, sem_count, lk_owner, transfers>>
  BY DEF lock_acquire
<1>2. t \in Awake /\ th[t] = "out" /\ th'[t] = "P"
      /\ \A u \in Threads : u # t => th'[u] = th[u]
  BY <1>1, OnFacts, GoesFacts
<1>3. Types'
  BY <1>1, GoesFacts, InvForms DEF Types, cpuVars
<1>4. LockState(th', sem_count'["lk_sem"], lk_owner')
  BY <1>1, <1>2, InvForms DEF LockState
<1>5. TransfersCounted'
  BY <1>1, <1>2, MoveTransfers DEF Inv, TransfersCounted
<1>6. \A s \in Sems : WakesNext(s)
  BY <1>1, <1>2, MoveWakes DEF sleepsAt
<1> QED
  BY <1>1, <1>2, <1>3, <1>4, <1>5, <1>6, MoveStep

\* lock_acquire from P: no thread owns the lock, and t does now.
LEMMA OwnStep == ASSUME Inv, NEW t \in Threads, lock_own(t) PROVE Inv'
<1>1. /\ On(t, "own") /\ Goes(t, "in") /\ lk_owner' = t
      /\ UNCHANGED <<cpuVars, wc_threads, sem_count, transfers>>
  BY DEF lock_own
<1>2. t \in Awake /\ th[t] = "own" /\ th'[t] = "in"
      /\ \A u \in Threads : u # t => th'[u] = th[u]
  BY <1>1, OnFacts, GoesFacts
<1>3. Types'
  BY ZenonT(30), <1>1, GoesFacts, InvForms DEF Types, cpuVars
<1>4. LockState(th', sem_count'["lk_sem"], lk_owner')
  BY <1>1, <1>2, InvForms DEF LockState
<1>5. TransfersCounted'
  BY <1>1, <1>2, MoveTransfers DEF Inv, TransfersCounted
<1>6. \A s \in Sems : WakesNext(s)
  BY <1>1, <1>2, MoveWakes DEF sleepsAt
<1> QED
  BY <1>1, <1>2, <1>3, <1>4, <1>5, <1>6, MoveStep

\* A thread starts a transfer and sleeps until the disk interrupt.
LEMMA TransferStep == ASSUME Inv, NEW t \in Threads, startTransfer(t) PROVE Inv'
<1>1. /\ On(t, "out") /\ Goes(t, "io") /\ transfers' = transfers + 1
      /\ UNCHANGED <<cpuVars, wc_threads, sem_count, lk_owner>>
  BY DEF startTransfer
<1>2. t \in Awake /\ th[t] = "out" /\ th'[t] = "io"
      /\ \A u \in Threads : u # t => th'[u] = th[u]
  BY <1>1, OnFacts, GoesFacts
<1>3. Types'
  BY <1>1, GoesFacts, InvForms DEF Types, cpuVars
<1>4. LockState(th', sem_count'["lk_sem"], lk_owner')
  BY <1>1, <1>2, InvForms DEF LockState
<1>5. TransfersCounted'
  <2>1. Cardinality(inTransfer) = transfers + sem_count["io_sem"]
    BY DEF Inv, TransfersCounted
  <2>2. Cardinality(inTransfer') = Cardinality(inTransfer) + 1
    BY <1>1, <1>2, MoveTransfers
  <2>3. transfers \in Nat /\ sem_count["io_sem"] \in Nat
    BY InvForms DEF Types, Sems
  <2> QED
    BY <1>1, <2>1, <2>2, <2>3 DEF TransfersCounted
<1>6. \A s \in Sems : WakesNext(s)
  BY <1>1, <1>2, MoveWakes DEF sleepsAt
<1> QED
  BY <1>1, <1>2, <1>3, <1>4, <1>5, <1>6, MoveStep

\* P that finds the count positive.
LEMMA TakeWakes ==
  ASSUME Inv, NEW t \in Awake, NEW s \in Sems, th[t] = sleepsAt(s),
         NEW pc \in {"out", "own"}, Goes(t, pc), sem_count[s] > 0,
         sem_count' = [sem_count EXCEPT ![s] = @ - 1],
         UNCHANGED <<cpuVars, wc_threads>>
  PROVE  \A r \in Sems : WakesNext(r)
<1>1. t \in Threads /\ Awake \subseteq Threads /\ sem_count \in [Sems -> Nat]
  BY InvForms DEF Types
<1>2. Awake' = Awake /\ Asleep(s)' = Asleep(s)
  BY DEF cpuVars, Awake, Asleep
<1>3. th'[t] = pc /\ \A u \in Threads : u # t => th'[u] = th[u]
  BY <1>1, GoesFacts
<1>4. WakesNext(s)
  <2>1. t \in InP(Awake, th, s) /\ InP(Awake', th', s) = InP(Awake, th, s) \ {t}
    BY <1>1, <1>2, <1>3 DEF InP, sleepsAt
  <2>2. InP(Awake, th, s) \subseteq Threads
    BY ZenonT(30), <1>1 DEF InP
  <2>3. /\ Cardinality(InP(Awake', th', s)) = Cardinality(InP(Awake, th, s)) - 1
        /\ Cardinality(InP(Awake, th, s)) \in Nat
    BY <2>1, <2>2, FiniteThreads
  <2>4. sem_count'[s] = sem_count[s] - 1 /\ sem_count[s] \in Nat
    BY <1>1
  <2> QED
    BY <1>2, <2>3, <2>4, InvForms DEF WakesNext
<1>5. ASSUME NEW r \in Sems, r # s PROVE WakesNext(r)
  <2>1. th[t] # sleepsAt(r)
    BY <1>5 DEF Sems, sleepsAt
  <2>2. sem_count'[r] = sem_count[r]
    BY <1>1, <1>5
  <2> QED
    BY <2>1, <2>2, MoveWakes
<1> QED
  BY <1>4, <1>5

\* P that finds the count zero: the thread sleeps, and the next one runs.
LEMMA SleepStep ==
  ASSUME Inv, NEW t \in Threads, NEW s \in Sems, On(t, sleepsAt(s)), sem_count[s] = 0,
         wchan_sleep(s, t), switchTo(c_runqueue, c_zombies),
         UNCHANGED <<sem_count, th, lk_owner, transfers>>
  PROVE  Inv'
<1>1. CpuOK /\ WchansOK /\ Types /\ Placed /\ s \in Wchans
  BY InvForms DEF Wchans
<1>2. /\ t \in Awake /\ th[t] = sleepsAt(s) /\ Range(c_runqueue) = Awake \ {t}
      /\ \A w \in Wchans : t \notin Asleep(w)
  BY OnFacts
<1>3. CpuOK' /\ Awake' = Awake \ {t} /\ c_zombies' \subseteq Threads
  BY <1>1, <1>2, SwitchEffect DEF CpuOK, Types
<1>4. /\ Append(wc_threads[s], t) \in Seq(Threads) /\ NoRepeat(Append(wc_threads[s], t))
      /\ Range(Append(wc_threads[s], t)) = Asleep(s) \cup {t}
  BY <1>1, <1>2, AppendQueue DEF WchansOK, Asleep
<1>5. /\ WchansOK' /\ Asleep(s)' = Asleep(s) \cup {t}
      /\ \A w \in Wchans : w # s => Asleep(w)' = Asleep(w)
  BY ZenonT(30), <1>1, <1>4 DEF wchan_sleep, WchansOK, Asleep
<1>6. Types' /\ LockExcludes' /\ TransfersCounted'
  BY <1>1, <1>3 DEF Inv, Types, LockExcludes, holds, TransfersCounted, inTransfer
<1>7. Placed'
  <2>1. \A w \in Wchans : Asleep(w)' \cap Awake' = {}
    BY <1>1, <1>2, <1>3, <1>5 DEF Placed
  <2>2. \A v, w \in Wchans : v # w => Asleep(v)' \cap Asleep(w)' = {}
    BY <1>1, <1>2, <1>5 DEF Placed
  <2>3. ASSUME NEW u \in Threads
        PROVE  th[u] = "none" <=> u \notin Awake' /\ \A w \in Wchans : u \notin Asleep(w)'
    <3>1. CASE u = t
      BY <3>1, <1>1, <1>2, <1>5 DEF sleepsAt
    <3>2. CASE u # t
      <4>1. u \in Awake' <=> u \in Awake
        BY <3>2, <1>3
      <4>2. \A w \in Wchans : u \in Asleep(w)' <=> u \in Asleep(w)
        BY <3>2, <1>5
      <4> QED
        BY <4>1, <4>2, <1>1 DEF Placed
    <3> QED
      BY <3>1, <3>2
  <2>4. \A w \in Wchans : \A u \in Asleep(w)' : th[u] = sleepsAt(w)
    BY <1>1, <1>2, <1>5 DEF Placed
  <2> QED
    BY ZenonT(30), <2>1, <2>2, <2>3, <2>4 DEF Placed
<1>8. NoLostWakeup'
  <2>1. Awake' \subseteq Threads
    BY <1>3, InvForms
  <2>2. WakesNext(s)
    <3>1. Cardinality(InP(Awake', th', s)) \in Nat
      BY <2>1, FiniteThreads DEF InP
    <3> QED
      BY <3>1 DEF WakesNext
  <2>3. ASSUME NEW r \in Sems, r # s PROVE WakesNext(r)
    <3>1. InP(Awake, th, r) \subseteq InP(Awake', th', r)
      BY <1>2, <1>3, <2>3 DEF InP, Sems, sleepsAt
    <3>2. Asleep(r)' = Asleep(r)
      BY <1>5, <2>3 DEF Wchans
    <3> QED
      BY <2>1, <3>1, <3>2, WakesKept
  <2> QED
    BY ZenonT(30), <1>3, <1>5, <2>2, <2>3, WakesAll
<1> QED
  BY <1>3, <1>5, <1>6, <1>7, <1>8 DEF Inv

\* P in lock_acquire.
LEMMA LockPStep == ASSUME Inv, NEW t \in Threads, lock_P(t) PROVE Inv'
<1>1. /\ On(t, "P") /\ P(t, "lk_sem", "own") /\ UNCHANGED <<lk_owner, transfers>>
      /\ "lk_sem" \in Sems /\ sleepsAt("lk_sem") = "P"
  BY DEF lock_P, Sems, sleepsAt
<1>2. CASE /\ sem_count["lk_sem"] > 0
           /\ sem_count' = [sem_count EXCEPT !["lk_sem"] = @ - 1]
           /\ Goes(t, "own")
           /\ UNCHANGED <<cpuVars, wc_threads>>
  <2>1. t \in Awake /\ th[t] = "P" /\ th'[t] = "own"
        /\ \A u \in Threads : u # t => th'[u] = th[u]
    BY <1>1, <1>2, OnFacts, GoesFacts
  <2>2. sem_count \in [Sems -> Nat]
    BY InvForms DEF Types
  <2>3. Types'
    BY <1>1, <1>2, <2>2, GoesFacts, InvForms DEF Types, cpuVars
  <2>4. LockState(th', sem_count'["lk_sem"], lk_owner')
    <3>1. sem_count["lk_sem"] = 1 /\ sem_count'["lk_sem"] = 0
      <4>1. sem_count["lk_sem"] \in Nat /\ sem_count'["lk_sem"] = sem_count["lk_sem"] - 1
        BY Zenon, <1>1, <1>2, <2>2
      <4>2. LockState(th, sem_count["lk_sem"], lk_owner)
        BY Zenon, InvForms
      <4>3. sem_count["lk_sem"] = 0 \/ sem_count["lk_sem"] = 1
        BY Zenon, <4>2 DEF LockState
      <4> QED
        BY SMT, <1>2, <4>1, <4>3
    <3> QED
      BY <1>1, <2>1, <3>1, InvForms DEF LockState
  <2>5. TransfersCounted'
    <3>1. sem_count'["io_sem"] = sem_count["io_sem"]
      BY Zenon, <1>2, <2>2 DEF Sems
    <3> QED
      BY <1>1, <1>2, <2>1, <3>1, MoveTransfers DEF Inv, TransfersCounted
  <2>6. \A s \in Sems : WakesNext(s)
    BY ZenonT(30), <1>1, <1>2, <2>1, TakeWakes
  <2> QED
    BY ZenonT(30), <1>2, <2>1, <2>3, <2>4, <2>5, <2>6, MoveStep
<1>3. CASE /\ sem_count["lk_sem"] = 0
           /\ wchan_sleep("lk_sem", t)
           /\ switchTo(c_runqueue, c_zombies)
           /\ UNCHANGED <<sem_count, th>>
  BY <1>1, <1>3, SleepStep
<1> QED
  BY <1>1, <1>2, <1>3 DEF P

\* P at the end of a transfer.
LEMMA EndTransferStep == ASSUME Inv, NEW t \in Threads, endTransfer(t) PROVE Inv'
<1>1. /\ On(t, "io") /\ P(t, "io_sem", "out") /\ UNCHANGED <<lk_owner, transfers>>
      /\ "io_sem" \in Sems /\ sleepsAt("io_sem") = "io"
  BY DEF endTransfer, Sems, sleepsAt
<1>2. CASE /\ sem_count["io_sem"] > 0
           /\ sem_count' = [sem_count EXCEPT !["io_sem"] = @ - 1]
           /\ Goes(t, "out")
           /\ UNCHANGED <<cpuVars, wc_threads>>
  <2>1. t \in Awake /\ th[t] = "io" /\ th'[t] = "out"
        /\ \A u \in Threads : u # t => th'[u] = th[u]
    BY <1>1, <1>2, OnFacts, GoesFacts
  <2>2. sem_count \in [Sems -> Nat]
    BY InvForms DEF Types
  <2>3. Types'
    BY <1>1, <1>2, <2>2, GoesFacts, InvForms DEF Types, cpuVars
  <2>4. LockState(th', sem_count'["lk_sem"], lk_owner')
    <3>1. sem_count'["lk_sem"] = sem_count["lk_sem"]
      BY <1>2, <2>2 DEF Sems
    <3> QED
      BY Zenon, <1>1, <2>1, <3>1, InvForms DEF LockState
  <2>5. TransfersCounted'
    <3>1. sem_count'["io_sem"] = sem_count["io_sem"] - 1 /\ sem_count["io_sem"] \in Nat
      BY Zenon, <1>1, <1>2, <2>2
    <3>2. Cardinality(inTransfer') = Cardinality(inTransfer) - 1
      BY <1>2, <2>1, MoveTransfers
    <3>3. transfers' = transfers /\ transfers \in Nat
      BY Zenon, <1>1, InvForms DEF Types
    <3> QED
      BY <3>1, <3>2, <3>3 DEF Inv, TransfersCounted
  <2>6. \A s \in Sems : WakesNext(s)
    BY Zenon, <1>1, <1>2, <2>1, TakeWakes
  <2> QED
    BY ZenonT(30), <1>2, <2>1, <2>3, <2>4, <2>5, <2>6, MoveStep
<1>3. CASE /\ sem_count["io_sem"] = 0
           /\ wchan_sleep("io_sem", t)
           /\ switchTo(c_runqueue, c_zombies)
           /\ UNCHANGED <<sem_count, th>>
  BY <1>1, <1>3, SleepStep
<1> QED
  BY <1>1, <1>2, <1>3 DEF P

-----------------------------------------------------------------------------
\* V, and what contains it.

\* The count goes up by one, and the thread that was woken, if one slept, will
\* test it.
LEMMA VWakes ==
  ASSUME Inv, NEW s \in Sems, NEW R,
         (Asleep(s) = {} /\ R = {}) \/ (\E h \in Asleep(s) : R = {h}),
         Asleep(s)' \subseteq Asleep(s), Awake' \subseteq Threads,
         sem_count'[s] = sem_count[s] + 1,
         InP(Awake, th, s) \cup R \subseteq InP(Awake', th', s)
  PROVE  WakesNext(s)
<1>1. CASE Asleep(s) = {}
  BY <1>1 DEF WakesNext
<1>2. ASSUME NEW h \in Asleep(s), R = {h} PROVE WakesNext(s)
  <2> DEFINE A == InP(Awake, th, s)
             B == InP(Awake', th', s)
  <2>1. h \in Threads /\ h \notin Awake
    BY Zenon, InvForms DEF Placed, Wchans
  <2>2. A \subseteq Threads /\ B \subseteq Threads /\ h \in Threads \ A
    BY Zenon, <2>1, InvForms DEF InP
  <2>3. A \cup {h} \subseteq B
    BY <1>2
  <2> HIDE DEF A, B
  <2>4. /\ Cardinality(A) \in Nat /\ Cardinality(B) \in Nat
        /\ Cardinality(A \cup {h}) = Cardinality(A) + 1
        /\ Cardinality(A \cup {h}) <= Cardinality(B)
    BY <2>2, <2>3, FiniteThreads
  <2>5. Cardinality(A) >= sem_count[s] /\ sem_count[s] \in Nat
    BY Zenon, InvForms DEF A, Types
  <2> QED
    BY <2>4, <2>5 DEF WakesNext, B
<1> QED
  BY <1>1, <1>2

\* Threads R leave wait channel w for the run queue.
LEMMA PlacedWake ==
  ASSUME Inv, NEW w \in Wchans, NEW R \in SUBSET Asleep(w),
         Awake' = Awake \cup R, Asleep(w)' = Asleep(w) \ R,
         \A v \in Wchans : v # w => Asleep(v)' = Asleep(v),
         \A u \in Threads : th'[u] = "none" <=> th[u] = "none",
         \A v \in Wchans : \A u \in Asleep(v) : th'[u] = th[u]
  PROVE  Placed'
<1>1. Placed
  BY Zenon, InvForms
<1>2. \A v \in Wchans : Asleep(v)' \cap Awake' = {}
  BY <1>1 DEF Placed
<1>3. \A u, v \in Wchans : u # v => Asleep(u)' \cap Asleep(v)' = {}
  BY <1>1 DEF Placed
<1>4. \A u \in Threads : th'[u] = "none" <=>
        u \notin Awake' /\ \A v \in Wchans : u \notin Asleep(v)'
  BY <1>1 DEF Placed
<1>5. \A v \in Wchans : \A u \in Asleep(v)' : th'[u] = sleepsAt(v)
  BY <1>1 DEF Placed
<1> QED
  BY Zenon, <1>2, <1>3, <1>4, <1>5 DEF Placed

\* V does to the queues what wchan_wakeone does.
LEMMA VEffect ==
  ASSUME Inv, NEW s \in Sems, V(s)
  PROVE  /\ CpuOK' /\ WchansOK' /\ c_zombies' \subseteq Threads
         /\ sem_count' = [sem_count EXCEPT ![s] = @ + 1]
         /\ sem_count' \in [Sems -> Nat]
         /\ Range(woken(s)) \subseteq Asleep(s)
         /\ (Asleep(s) = {} /\ Range(woken(s)) = {})
              \/ (\E h \in Asleep(s) : Range(woken(s)) = {h})
         /\ Awake' = Awake \cup Range(woken(s)) /\ Awake' \subseteq Threads
         /\ Asleep(s)' = Asleep(s) \ Range(woken(s))
         /\ \A w \in Wchans : w # s => Asleep(w)' = Asleep(w)
<1> DEFINE r == woken(s)
<1>1. CpuOK /\ WchansOK /\ Types /\ Placed /\ s \in Wchans
  BY InvForms DEF Wchans
<1>2. /\ wc_threads' = [wc_threads EXCEPT ![s] = asleep(s)]
      /\ c_runqueue' = c_runqueue \o r
      /\ sem_count' = [sem_count EXCEPT ![s] = @ + 1]
      /\ UNCHANGED <<curthread, c_isidle, c_zombies>>
  BY DEF V
<1>3. /\ r \in Seq(Threads) /\ NoRepeat(r) /\ Range(r) \subseteq Asleep(s)
      /\ asleep(s) \in Seq(Threads) /\ NoRepeat(asleep(s))
      /\ Range(asleep(s)) = Asleep(s) \ Range(r)
      /\ (Asleep(s) = {} /\ Range(r) = {}) \/ (\E h \in Asleep(s) : Range(r) = {h})
  BY <1>1, WakeEffect
<1> HIDE DEF r
<1>4. Range(r) \cap Awake = {}
  BY <1>1, <1>3 DEF Placed
<1>5. CpuOK' /\ Awake' = Awake \cup Range(r)
  BY ZenonT(30), <1>1, <1>2, <1>3, <1>4, RunqueueEffect
<1>6. WchansOK' /\ Asleep(s)' = Range(asleep(s))
      /\ \A w \in Wchans : w # s => Asleep(w)' = Asleep(w)
  BY <1>1, <1>2, <1>3 DEF WchansOK, Asleep
<1>7. sem_count' \in [Sems -> Nat]
  BY <1>1, <1>2 DEF Types
<1>8. Awake' \subseteq Threads
  BY ZenonT(30), <1>1, <1>3, <1>5, InvForms
<1> QED
  BY Zenon, <1>1, <1>2, <1>3, <1>5, <1>6, <1>7, <1>8 DEF Types, r

\* lock_release clears lk_owner and calls V.
LEMMA ReleaseStep == ASSUME Inv, NEW t \in Threads, lock_release(t) PROVE Inv'
<1> DEFINE s == "lk_sem"
           R == Range(woken(s))
<1>1. /\ On(t, "in") /\ lk_owner' = NULL /\ V(s) /\ Goes(t, "out")
      /\ transfers' = transfers /\ s \in Sems /\ s \in Wchans
  BY DEF lock_release, Sems, Wchans
<1>2. t \in Awake /\ th[t] = "in" /\ th'[t] = "out"
      /\ \A u \in Threads : u # t => th'[u] = th[u]
  BY <1>1, OnFacts, GoesFacts
<1>3. /\ CpuOK' /\ WchansOK' /\ c_zombies' \subseteq Threads
      /\ sem_count' = [sem_count EXCEPT ![s] = @ + 1] /\ sem_count' \in [Sems -> Nat]
      /\ R \subseteq Asleep(s)
      /\ (Asleep(s) = {} /\ R = {}) \/ (\E h \in Asleep(s) : R = {h})
      /\ Awake' = Awake \cup R /\ Awake' \subseteq Threads
      /\ Asleep(s)' = Asleep(s) \ R
      /\ \A w \in Wchans : w # s => Asleep(w)' = Asleep(w)
  BY <1>1, VEffect
<1>4. sem_count \in [Sems -> Nat]
  BY InvForms DEF Types
<1>5. sem_count'[s] = sem_count[s] + 1 /\ sem_count'["io_sem"] = sem_count["io_sem"]
  BY ZenonT(30), <1>3, <1>4 DEF Sems
<1> HIDE DEF R
<1>6. Types'
  BY ZenonT(30), <1>1, <1>3, GoesFacts, InvForms DEF Types
<1>7. LockState(th', sem_count'["lk_sem"], lk_owner')
  BY <1>1, <1>2, <1>5, InvForms, SynchAssumption DEF LockState
<1>8. TransfersCounted'
  BY Zenon, <1>1, <1>2, <1>5, MoveTransfers DEF Inv, TransfersCounted
<1>9. \A w \in Wchans : t \notin Asleep(w) /\ Asleep(w) \subseteq Threads
  BY <1>2, InvForms DEF Placed
<1>10. \A w \in Wchans : \A u \in Asleep(w) : th'[u] = th[u]
  BY Zenon, <1>2, <1>9
<1>11. Placed'
  BY Zenon, <1>1, <1>2, <1>3, <1>10, PlacedWake
<1>12. WakesNext(s)
  <2>1. \A u \in R : u \in Awake' /\ th'[u] = sleepsAt(s)
    BY <1>1, <1>3, <1>10, InvForms DEF Placed
  <2>2. InP(Awake, th, s) \cup R \subseteq InP(Awake', th', s)
    BY ZenonT(30), <1>2, <1>3, <2>1, InvForms DEF InP, sleepsAt
  <2> QED
    BY Zenon, <1>1, <1>3, <1>5, <2>2, VWakes
<1>13. WakesNext("io_sem")
  <2>1. InP(Awake, th, "io_sem") \subseteq InP(Awake', th', "io_sem")
    BY <1>2, <1>3, InvForms DEF InP, sleepsAt
  <2>2. Asleep("io_sem")' = Asleep("io_sem")
    BY <1>3 DEF Wchans, Sems
  <2> QED
    BY ZenonT(30), <1>3, <1>5, <2>1, <2>2, WakesKept DEF Sems
<1>14. \A r \in Sems : WakesNext(r)
  BY <1>12, <1>13 DEF Sems
<1> QED
  BY ZenonT(30), <1>3, <1>6, <1>7, <1>8, <1>11, <1>14, NextForms, WakesAll DEF Inv

\* The disk's interrupt.
LEMMA InterruptStep == ASSUME Inv, interrupt PROVE Inv'
<1> DEFINE s == "io_sem"
           R == Range(woken(s))
<1>1. /\ transfers > 0 /\ transfers' = transfers - 1 /\ V(s)
      /\ th' = th /\ lk_owner' = lk_owner /\ s \in Sems /\ s \in Wchans
  BY DEF interrupt, Sems, Wchans
<1>2. /\ CpuOK' /\ WchansOK' /\ c_zombies' \subseteq Threads
      /\ sem_count' = [sem_count EXCEPT ![s] = @ + 1] /\ sem_count' \in [Sems -> Nat]
      /\ R \subseteq Asleep(s)
      /\ (Asleep(s) = {} /\ R = {}) \/ (\E h \in Asleep(s) : R = {h})
      /\ Awake' = Awake \cup R /\ Awake' \subseteq Threads
      /\ Asleep(s)' = Asleep(s) \ R
      /\ \A w \in Wchans : w # s => Asleep(w)' = Asleep(w)
  BY <1>1, VEffect
<1>3. sem_count \in [Sems -> Nat] /\ transfers \in Nat
  BY InvForms DEF Types
<1>4. sem_count'[s] = sem_count[s] + 1 /\ sem_count'["lk_sem"] = sem_count["lk_sem"]
  BY <1>2, <1>3 DEF Sems
<1> HIDE DEF R
<1>5. Types'
  BY <1>1, <1>2, <1>3, InvForms DEF Types
<1>6. LockState(th', sem_count'["lk_sem"], lk_owner')
  BY <1>1, <1>4, InvForms
<1>7. TransfersCounted'
  <2>1. inTransfer' = inTransfer
    BY <1>1 DEF inTransfer
  <2>2. sem_count[s] \in Nat
    BY <1>1, <1>3
  <2> QED
    BY <1>1, <1>3, <1>4, <2>1, <2>2 DEF Inv, TransfersCounted
<1>8. Placed'
  BY Zenon, <1>1, <1>2, PlacedWake
<1>9. WakesNext(s)
  <2>1. \A u \in R : u \in Awake' /\ th'[u] = sleepsAt(s)
    BY <1>1, <1>2, InvForms DEF Placed
  <2>2. InP(Awake, th, s) \cup R \subseteq InP(Awake', th', s)
    BY Zenon, <1>1, <1>2, <2>1 DEF InP
  <2> QED
    BY Zenon, <1>1, <1>2, <1>4, <2>2, VWakes
<1>10. WakesNext("lk_sem")
  <2>1. InP(Awake, th, "lk_sem") \subseteq InP(Awake', th', "lk_sem")
    BY <1>1, <1>2 DEF InP
  <2>2. Asleep("lk_sem")' = Asleep("lk_sem")
    BY <1>2 DEF Wchans, Sems
  <2> QED
    BY Zenon, <1>2, <1>4, <2>1, <2>2, WakesKept DEF Sems
<1>11. \A r \in Sems : WakesNext(r)
  BY <1>9, <1>10 DEF Sems
<1> QED
  BY ZenonT(30), <1>2, <1>5, <1>6, <1>7, <1>8, <1>11, NextForms, WakesAll DEF Inv

\* cv_wait: V on the lock's semaphore, and sleep on the condition variable.
LEMMA WaitStep == ASSUME Inv, NEW t \in Threads, cv_wait(t) PROVE Inv'
<1> DEFINE s == "lk_sem"
           r == woken(s)
           R == Range(r)
           q == c_runqueue \o r
<1>1. /\ On(t, "in") /\ lk_owner' = NULL /\ Goes(t, "P") /\ transfers' = transfers
      /\ sem_count' = [sem_count EXCEPT ![s] = @ + 1]
      /\ wc_threads' = [wc_threads EXCEPT ![s] = asleep(s), !["cv"] = Append(@, t)]
      /\ switchTo(q, c_zombies)
      /\ s \in Sems /\ s \in Wchans /\ "cv" \in Wchans /\ s # "cv"
  BY DEF cv_wait, Sems, Wchans
<1>2. CpuOK /\ WchansOK /\ Types /\ Placed
  BY InvForms
<1>3. /\ t \in Awake /\ th[t] = "in" /\ th'[t] = "P" /\ Range(c_runqueue) = Awake \ {t}
      /\ \A u \in Threads : u # t => th'[u] = th[u]
      /\ \A w \in Wchans : t \notin Asleep(w) /\ Asleep(w) \subseteq Threads
  BY ZenonT(30), <1>1, OnFacts, GoesFacts, InvForms
<1>4. /\ r \in Seq(Threads) /\ NoRepeat(r) /\ R \subseteq Asleep(s)
      /\ asleep(s) \in Seq(Threads) /\ NoRepeat(asleep(s))
      /\ Range(asleep(s)) = Asleep(s) \ R
      /\ (Asleep(s) = {} /\ R = {}) \/ (\E h \in Asleep(s) : R = {h})
  BY ZenonT(30), <1>1, <1>2, WakeEffect
<1> HIDE DEF r
<1>5. R \cap Awake = {}
  BY ZenonT(30), <1>1, <1>2, <1>4 DEF Placed
<1>6. /\ q \in Seq(Threads) /\ NoRepeat(q) /\ Range(q) = (Awake \ {t}) \cup R
      /\ Range(c_runqueue) \subseteq Range(q)
  BY ZenonT(30), <1>2, <1>3, <1>4, <1>5, JoinQueues DEF CpuOK
<1> HIDE DEF q
<1>7. CpuOK' /\ Awake' = (Awake \ {t}) \cup R /\ c_zombies' \subseteq Threads
  BY Zenon, <1>1, <1>2, <1>6, SwitchEffect DEF Types
<1>8. /\ Append(wc_threads["cv"], t) \in Seq(Threads)
      /\ NoRepeat(Append(wc_threads["cv"], t))
      /\ Range(Append(wc_threads["cv"], t)) = Asleep("cv") \cup {t}
  BY Zenon, <1>1, <1>2, <1>3, AppendQueue DEF WchansOK, Asleep
<1>9. /\ wc_threads'[s] = asleep(s) /\ wc_threads'["cv"] = Append(wc_threads["cv"], t)
      /\ wc_threads'["io_sem"] = wc_threads["io_sem"]
      /\ wc_threads' \in [Wchans -> Seq(Threads)]
  BY Zenon, <1>1, <1>2, <1>4, <1>8 DEF WchansOK, Wchans, Sems
<1>10. WchansOK'
  BY Zenon, <1>2, <1>4, <1>8, <1>9 DEF WchansOK, Wchans, Sems
<1>11. /\ Asleep(s)' = Asleep(s) \ R /\ Asleep("cv")' = Asleep("cv") \cup {t}
       /\ Asleep("io_sem")' = Asleep("io_sem")
  BY <1>4, <1>8, <1>9 DEF Asleep
<1>12. sem_count \in [Sems -> Nat]
  BY InvForms DEF Types
<1>13. sem_count'[s] = sem_count[s] + 1 /\ sem_count'["io_sem"] = sem_count["io_sem"]
       /\ sem_count' \in [Sems -> Nat]
  BY <1>1, <1>12 DEF Sems
<1> HIDE DEF R
<1>14. Types'
  BY ZenonT(30), <1>1, <1>7, <1>13, GoesFacts, InvForms DEF Types
<1>15. LockState(th', sem_count'["lk_sem"], lk_owner')
  <2>1. LockState(th, sem_count["lk_sem"], lk_owner)
    BY Zenon, InvForms
  <2>2. sem_count["lk_sem"] = 0 /\ \A u \in Threads : u # t => th[u] \notin {"own", "in"}
    BY Zenon, <1>3, <2>1 DEF LockState
  <2>3. sem_count'["lk_sem"] = 1
    BY SMT, <1>13, <2>2
  <2>4. \A u \in Threads : th'[u] \notin {"own", "in"}
    BY Zenon, <1>3, <2>2
  <2>5. NULL \notin Threads
    BY Zenon, SynchAssumption
  <2> QED
    BY Zenon, <1>1, <2>3, <2>4, <2>5 DEF LockState
<1>16. TransfersCounted'
  BY <1>1, <1>3, <1>13, MoveTransfers DEF Inv, TransfersCounted
<1>17. Wchans = {s, "io_sem", "cv"}
  BY DEF Wchans, Sems
<1>18. Placed'
  <2>1. \A w \in Wchans : Asleep(w)' \cap Awake' = {}
    BY <1>2, <1>3, <1>4, <1>7, <1>11, <1>17 DEF Placed
  <2>2. \A v, w \in Wchans : v # w => Asleep(v)' \cap Asleep(w)' = {}
    BY <1>2, <1>3, <1>11, <1>17 DEF Placed
  <2>3. ASSUME NEW u \in Threads
        PROVE  th'[u] = "none" <=> u \notin Awake' /\ \A w \in Wchans : u \notin Asleep(w)'
    <3>1. CASE u = t
      BY ZenonT(30), <3>1, <1>3, <1>11, <1>17
    <3>2. CASE u # t
      <4>1. th'[u] = "none" <=> u \notin Awake /\ \A w \in Wchans : u \notin Asleep(w)
        BY ZenonT(30), <3>2, <1>2, <1>3 DEF Placed
      <4> QED
        BY ZenonT(30), <3>2, <4>1, <1>4, <1>7, <1>11, <1>17
    <3> QED
      BY <3>1, <3>2
  <2>4. \A w \in Wchans : \A u \in Asleep(w) : th'[u] = sleepsAt(w)
    BY <1>2, <1>3 DEF Placed
  <2>5. th'[t] = sleepsAt("cv")
    BY <1>3 DEF sleepsAt
  <2>6. \A w \in Wchans : \A u \in Asleep(w)' : th'[u] = sleepsAt(w)
    BY Zenon, <1>11, <1>17, <2>4, <2>5
  <2> QED
    BY Zenon, <2>1, <2>2, <2>3, <2>6 DEF Placed
<1>19. Awake' \subseteq Threads
  BY Zenon, <1>3, <1>4, <1>7, InvForms, <1>1
<1>20. WakesNext(s)
  <2>1. \A u \in R : u \in Awake' /\ th'[u] = sleepsAt(s)
    BY ZenonT(30), <1>1, <1>2, <1>3, <1>4, <1>7 DEF Placed
  <2>2. InP(Awake, th, s) \cup R \subseteq InP(Awake', th', s)
    BY ZenonT(30), <1>3, <1>7, <2>1, InvForms DEF InP, sleepsAt
  <2> QED
    BY ZenonT(40), <1>1, <1>4, <1>11, <1>13, <1>19, <2>2, VWakes
<1>21. WakesNext("io_sem")
  <2>1. InP(Awake, th, "io_sem") \subseteq InP(Awake', th', "io_sem")
    BY <1>3, <1>7, InvForms DEF InP, sleepsAt
  <2> QED
    BY ZenonT(30), <1>11, <1>13, <1>19, <2>1, WakesKept DEF Sems
<1>22. \A x \in Sems : WakesNext(x)
  BY <1>20, <1>21 DEF Sems
<1> QED
  BY ZenonT(30), <1>7, <1>10, <1>14, <1>15, <1>16, <1>18, <1>22, NextForms, WakesAll DEF Inv

-----------------------------------------------------------------------------
\* Threads begin and end.

\* thread_fork puts a new thread into the run queue.
LEMMA ForkStep == ASSUME Inv, NEW t \in Threads, NEW c \in Threads, thread_fork(t, c) PROVE Inv'
<1>1. /\ On(t, "out") /\ th[c] = "none" /\ Goes(c, "out")
      /\ c_runqueue' = Append(c_runqueue, c)
      /\ UNCHANGED <<curthread, c_isidle, c_zombies, wc_threads, sem_count, lk_owner, transfers>>
  BY DEF thread_fork
<1>2. CpuOK /\ WchansOK /\ Types /\ Placed
  BY InvForms
<1>3. c \notin Awake /\ \A w \in Wchans : c \notin Asleep(w) /\ Asleep(w) \subseteq Threads
  BY ZenonT(30), <1>1, <1>2, InvForms DEF Placed
<1>4. c_runqueue' = c_runqueue \o <<c>> /\ <<c>> \in Seq(Threads)
  BY <1>1, <1>2 DEF CpuOK
<1>5. CpuOK' /\ Awake' = Awake \cup {c}
  <2> DEFINE r == <<c>>
  <2>1. /\ r \in Seq(Threads) /\ NoRepeat(r) /\ Range(r) = {c}
        /\ c_runqueue' = c_runqueue \o r /\ UNCHANGED <<curthread, c_isidle>>
    BY <1>1, <1>4, OneQueue
  <2> HIDE DEF r
  <2>2. Range(r) \cap Awake = {}
    BY <1>3, <2>1
  <2>3. CpuOK' /\ Awake' = Awake \cup Range(r)
    BY <1>2, <2>1, <2>2, RunqueueEffect
  <2> QED
    BY <2>1, <2>3
<1>6. WchansOK' /\ \A w \in Wchans : Asleep(w)' = Asleep(w)
  BY <1>1, <1>2 DEF WchansOK, Asleep
<1>7. th'[c] = "out" /\ \A u \in Threads : u # c => th'[u] = th[u]
  BY <1>1, GoesFacts
<1>8. Types'
  BY ZenonT(30), <1>1, <1>2, GoesFacts DEF Types
<1>9. LockState(th', sem_count'["lk_sem"], lk_owner')
  BY ZenonT(30), <1>1, <1>7, InvForms DEF LockState
<1>10. TransfersCounted'
  BY ZenonT(30), <1>1, MoveTransfers DEF Inv, TransfersCounted
<1>11. Placed'
  <2>1. \A u \in Threads : th'[u] = "none" <=>
          u \notin Awake' /\ \A w \in Wchans : u \notin Asleep(w)'
    <3> SUFFICES ASSUME NEW u \in Threads
                 PROVE  th'[u] = "none" <=>
                          u \notin Awake' /\ \A w \in Wchans : u \notin Asleep(w)'
      BY Zenon
    <3>1. CASE u = c
      BY Zenon, <1>5, <1>7, <3>1
    <3>2. CASE u # c
      <4>1. th[u] = "none" <=> u \notin Awake /\ \A w \in Wchans : u \notin Asleep(w)
        BY Zenon, <1>2 DEF Placed
      <4>2. /\ th'[u] = th[u] /\ (u \in Awake' <=> u \in Awake)
            /\ \A w \in Wchans : u \in Asleep(w)' <=> u \in Asleep(w)
        BY Zenon, <1>5, <1>6, <1>7, <3>2
      <4> QED
        BY Zenon, <4>1, <4>2
    <3> QED
      BY Zenon, <3>1, <3>2
  <2>2. ASSUME NEW w \in Wchans, NEW u \in Asleep(w)'
        PROVE  th'[u] = sleepsAt(w)
    <3>1. u \in Asleep(w) /\ u \in Threads /\ u # c
      BY Zenon, <1>3, <1>6
    <3>2. th[u] = sleepsAt(w)
      BY Zenon, <1>2, <3>1 DEF Placed
    <3> QED
      BY Zenon, <1>7, <3>1, <3>2
  <2>3. ASSUME NEW w \in Wchans
        PROVE  Asleep(w)' \cap Awake' = {}
    <3>1. Asleep(w) \cap Awake = {}
      BY Zenon, <1>2 DEF Placed
    <3> QED
      BY Zenon, <1>3, <1>5, <1>6, <3>1
  <2>4. ASSUME NEW v \in Wchans, NEW w \in Wchans, v # w
        PROVE  Asleep(v)' \cap Asleep(w)' = {}
    <3>1. Asleep(v) \cap Asleep(w) = {}
      BY Zenon, <1>2, <2>4 DEF Placed
    <3> QED
      BY Zenon, <1>6, <3>1
  <2> QED
    BY Zenon, <2>1, <2>2, <2>3, <2>4 DEF Placed
<1>12. \A s \in Sems : WakesNext(s)
  <2>1. Awake' \subseteq Threads
    BY Zenon, <1>5, InvForms
  <2>2. \A s \in Sems : InP(Awake, th, s) \subseteq InP(Awake', th', s)
    BY <1>3, <1>5, <1>7, InvForms DEF InP
  <2>3. \A s \in Sems : Asleep(s)' = Asleep(s) /\ sem_count'[s] = sem_count[s]
    BY <1>1, <1>6 DEF Wchans
  <2> QED
    BY <2>1, <2>2, <2>3, WakesKept
<1> QED
  BY ZenonT(30), <1>5, <1>6, <1>8, <1>9, <1>10, <1>11, <1>12, NextForms, WakesAll DEF Inv

\* thread_exit leaves the CPU for good.
LEMMA ExitStep == ASSUME Inv, NEW t \in Threads, thread_exit(t) PROVE Inv'
<1>1. /\ On(t, "out") /\ Goes(t, "none") /\ switchTo(c_runqueue, c_zombies \cup {t})
      /\ UNCHANGED <<wc_threads, sem_count, lk_owner, transfers>>
  BY DEF thread_exit
<1>2. CpuOK /\ WchansOK /\ Types /\ Placed
  BY InvForms
<1>3. /\ th[t] = "out" /\ t \in Awake /\ Range(c_runqueue) = Awake \ {t}
      /\ \A w \in Wchans : t \notin Asleep(w) /\ Asleep(w) \subseteq Threads
  BY ZenonT(30), <1>1, OnFacts, InvForms
<1>4. CpuOK' /\ Awake' = Awake \ {t} /\ c_zombies' \subseteq Threads
  BY <1>1, <1>2, <1>3, SwitchEffect DEF CpuOK, Types
<1>5. WchansOK' /\ \A w \in Wchans : Asleep(w)' = Asleep(w)
  BY <1>1, <1>2 DEF WchansOK, Asleep
<1>6. th'[t] = "none" /\ \A u \in Threads : u # t => th'[u] = th[u]
  BY <1>1, GoesFacts
<1>7. Types'
  BY ZenonT(30), <1>1, <1>2, <1>4, GoesFacts DEF Types
<1>8. LockState(th', sem_count'["lk_sem"], lk_owner')
  BY ZenonT(30), <1>1, <1>3, <1>6, InvForms DEF LockState
<1>9. TransfersCounted'
  BY Zenon, <1>1, <1>3, MoveTransfers DEF Inv, TransfersCounted
<1>10. Placed'
  <2>1. \A u \in Threads : th'[u] = "none" <=>
          u \notin Awake' /\ \A w \in Wchans : u \notin Asleep(w)'
    <3> SUFFICES ASSUME NEW u \in Threads
                 PROVE  th'[u] = "none" <=>
                          u \notin Awake' /\ \A w \in Wchans : u \notin Asleep(w)'
      BY Zenon
    <3>1. CASE u = t
      BY Zenon, <1>3, <1>4, <1>5, <1>6, <3>1
    <3>2. CASE u # t
      <4>1. th[u] = "none" <=> u \notin Awake /\ \A w \in Wchans : u \notin Asleep(w)
        BY Zenon, <1>2 DEF Placed
      <4>2. /\ th'[u] = th[u] /\ (u \in Awake' <=> u \in Awake)
            /\ \A w \in Wchans : u \in Asleep(w)' <=> u \in Asleep(w)
        BY Zenon, <1>4, <1>5, <1>6, <3>2
      <4> QED
        BY Zenon, <4>1, <4>2
    <3> QED
      BY Zenon, <3>1, <3>2
  <2>2. ASSUME NEW w \in Wchans, NEW u \in Asleep(w)'
        PROVE  th'[u] = sleepsAt(w)
    <3>1. u \in Asleep(w) /\ u \in Threads /\ u # t
      BY Zenon, <1>3, <1>5
    <3>2. th[u] = sleepsAt(w)
      BY Zenon, <1>2, <3>1 DEF Placed
    <3> QED
      BY Zenon, <1>6, <3>1, <3>2
  <2>3. ASSUME NEW w \in Wchans
        PROVE  Asleep(w)' \cap Awake' = {}
    <3>1. Asleep(w) \cap Awake = {}
      BY Zenon, <1>2 DEF Placed
    <3> QED
      BY Zenon, <1>4, <1>5, <3>1
  <2>4. ASSUME NEW v \in Wchans, NEW w \in Wchans, v # w
        PROVE  Asleep(v)' \cap Asleep(w)' = {}
    <3>1. Asleep(v) \cap Asleep(w) = {}
      BY Zenon, <1>2, <2>4 DEF Placed
    <3> QED
      BY Zenon, <1>5, <3>1
  <2> QED
    BY Zenon, <2>1, <2>2, <2>3, <2>4 DEF Placed
<1>11. \A s \in Sems : WakesNext(s)
  <2>1. Awake' \subseteq Threads
    BY Zenon, <1>4, InvForms
  <2>2. \A s \in Sems : InP(Awake, th, s) \subseteq InP(Awake', th', s)
    BY Zenon, <1>3, <1>4, <1>6, InvForms DEF InP, sleepsAt
  <2>3. \A s \in Sems : Asleep(s)' = Asleep(s) /\ sem_count'[s] = sem_count[s]
    BY <1>1, <1>5 DEF Wchans
  <2> QED
    BY Zenon, <2>1, <2>2, <2>3, WakesKept
<1> QED
  BY Zenon, <1>4, <1>5, <1>7, <1>8, <1>9, <1>10, <1>11, NextForms, WakesAll DEF Inv

-----------------------------------------------------------------------------

\* A step that changes nothing keeps the invariant.
LEMMA StutterStep == ASSUME Inv, UNCHANGED vars PROVE Inv'
<1>1. /\ UNCHANGED <<th, curthread, c_isidle, c_runqueue, c_zombies, wc_threads, sem_count,
                     lk_owner, transfers>>
  BY DEF vars, cpuVars
<1>2. CpuOK' /\ WchansOK' /\ Types'
  BY <1>1 DEF Inv, CpuOK, WchansOK, Types
<1>3. Awake' = Awake /\ \A w \in Wchans : Asleep(w)' = Asleep(w)
  BY <1>1 DEF Awake, Asleep
<1>4. /\ {} \in SUBSET Asleep("cv") /\ Awake' = Awake \cup {}
      /\ Asleep("cv")' = Asleep("cv") \ {} /\ \A s \in Sems : Asleep(s)' = Asleep(s)
  BY <1>3 DEF Wchans
<1> QED
  BY Zenon, <1>1, <1>2, <1>4, QueueStep DEF Types

\* Every step keeps the invariant.
LEMMA NextInv == Inv /\ [Next]_vars => Inv'
<1> SUFFICES ASSUME Inv, [Next]_vars PROVE Inv'
  OBVIOUS
<1> QED
  BY Zenon, StutterStep, YieldStep, IdleStep, InterruptStep, ForkStep, ExitStep, AcquireStep,
     LockPStep, OwnStep, ReleaseStep, WaitStep, SignalStep, BroadcastStep, TransferStep,
     EndTransferStep
  DEF Next

\* The invariant holds in every reachable state.
LEMMA SynchInvariant == Spec => []Inv
  BY InitInv, NextInv, PTL DEF Spec

\* A thread occurs in a queue without repetitions once or not at all.
LEMMA OccursOnce ==
  ASSUME NEW q \in Seq(Threads), NoRepeat(q), NEW t
  PROVE  occurs(t, q) = IF t \in Range(q) THEN 1 ELSE 0
<1> DEFINE S == {i \in 1 .. Len(q) : q[i] = t}
<1>1. CASE t \in Range(q)
  <2>1. PICK i \in 1 .. Len(q) : q[i] = t
    BY <1>1, QueueSet
  <2>2. S = {i}
    BY <2>1 DEF NoRepeat
  <2>3. Cardinality({i}) = 1
    BY ZenonT(30), FS_Singleton
  <2> QED
    BY ZenonT(30), <1>1, <2>2, <2>3 DEF occurs
<1>2. CASE t \notin Range(q)
  <2>1. S = {}
    BY <1>2, QueueSet
  <2> QED
    BY <1>2, <2>1, FS_EmptySet DEF occurs
<1> QED
  BY <1>1, <1>2

\* The invariant implies that a thread is in one place.
LEMMA InvOnePlace == Inv => OnePlace
<1> SUFFICES ASSUME Inv PROVE OnePlace
  BY Zenon
<1>1. CpuOK /\ WchansOK /\ Types /\ Placed /\ LockState(th, sem_count["lk_sem"], lk_owner)
  BY ZenonT(30), InvForms
<1>2. TypeOK
  <2> DEFINE n == Cardinality(Threads)
  <2>1. n \in Nat /\ Cardinality(inTransfer) \in Nat /\ Cardinality(inTransfer) <= n
    BY FiniteThreads DEF inTransfer
  <2>2. n >= 1
    <3>1. Cardinality({boot}) = 1 /\ {boot} \subseteq Threads
      BY SynchAssumption, FS_Singleton
    <3> QED
      BY <3>1, FiniteThreads
  <2>3. sem_count["lk_sem"] \in {0, 1}
    BY <1>1 DEF LockState
  <2>4. transfers \in Nat /\ sem_count["io_sem"] \in Nat
    BY <1>1 DEF Types, Sems
  <2>5. transfers + sem_count["io_sem"] <= n
    BY <2>1 DEF Inv, TransfersCounted
  <2> HIDE DEF n
  <2>6. transfers \in 0 .. n /\ \A s \in Sems : sem_count[s] \in 0 .. n
    BY <2>1, <2>2, <2>3, <2>4, <2>5 DEF Sems
  <2>7. Range(c_runqueue) \subseteq Threads /\ \A w \in Wchans : Range(wc_threads[w]) \subseteq Threads
    BY <1>1, QueueSet DEF CpuOK, WchansOK
  <2> QED
    BY ZenonT(30), <1>1, <2>6, <2>7 DEF TypeOK, CpuOK, Types, n
<1>3. ASSUME NEW t \in Threads
      PROVE  places(t) = IF th[t] = "none" THEN 0 ELSE 1
  <2>1. occurs(t, c_runqueue) = IF t \in Range(c_runqueue) THEN 1 ELSE 0
    BY <1>1, OccursOnce DEF CpuOK
  <2>2. \A w \in Wchans : occurs(t, wc_threads[w]) = IF t \in Asleep(w) THEN 1 ELSE 0
    BY Zenon, <1>1, OccursOnce DEF WchansOK, Asleep
  <2>3. Range(c_runqueue) = IF c_isidle THEN Awake ELSE Awake \ {curthread}
    BY ZenonT(30), <1>1, ThreadSets DEF CpuOK
  <2>4. ~c_isidle => curthread \in Awake
    BY <1>1, ThreadSets
  <2>5. Wchans = {"lk_sem", "io_sem", "cv"}
    BY DEF Wchans, Sems
  <2> DEFINE a == IF ~c_isidle /\ curthread = t THEN 1 ELSE 0
             o(w) == IF t \in Asleep(w) THEN 1 ELSE 0
  <2>6. a + occurs(t, c_runqueue) = IF t \in Awake THEN 1 ELSE 0
    BY <2>1, <2>3, <2>4, <1>1 DEF CpuOK
  <2>7. places(t) = (IF t \in Awake THEN 1 ELSE 0) + o("lk_sem") + o("io_sem") + o("cv")
    BY Zenon, <2>2, <2>5, <2>6 DEF places
  <2>8. CASE t \in Awake
    BY <1>1, <2>5, <2>7, <2>8 DEF Placed
  <2>9. CASE t \notin Awake
    BY <1>1, <2>5, <2>7, <2>9 DEF Placed
  <2> QED
    BY <2>8, <2>9
<1> QED
  BY <1>2, <1>3 DEF OnePlace

\* A thread is in one place, on the CPU, the run queue or one wait channel,
\* while it exists, and in none before and after: no wakeup, switch or exit
\* loses a thread or queues it twice.
THEOREM ThreadsInOnePlace == Spec => []OnePlace
  BY SynchInvariant, InvOnePlace, PTL

\* The lock excludes, and lk_owner is the thread that has it.
THEOREM Exclusion == Spec => []LockExcludes
<1>1. Inv => LockExcludes
  BY DEF Inv
<1> QED
  BY <1>1, SynchInvariant, PTL

\* While threads sleep on a semaphore with a count, enough threads are awake to
\* use it up: no V is lost.
THEOREM WakeupsKept == Spec => []NoLostWakeup
<1>1. Inv => NoLostWakeup
  BY DEF Inv
<1> QED
  BY <1>1, SynchInvariant, PTL

-----------------------------------------------------------------------------
\* The lock with its condition variable implements Monitor.

\* The holder when f[t] is where t is.
HolderOf(f) ==
  IF \E t \in Threads : f[t] \in {"own", "in"}
  THEN CHOOSE t \in Threads : f[t] \in {"own", "in"} ELSE NULL

\* The holder of the lock that the mapping to Monitor shows.
LEMMA HolderFacts ==
  ASSUME NEW f
  PROVE  /\ (\A t \in Threads : f[t] \notin {"own", "in"}) => HolderOf(f) = NULL
         /\ \A t \in Threads :
              (\A u \in Threads : f[u] \in {"own", "in"} <=> u = t) => HolderOf(f) = t
<1>1. (\A t \in Threads : f[t] \notin {"own", "in"}) => HolderOf(f) = NULL
  BY DEF HolderOf
<1>2. ASSUME NEW t \in Threads, \A u \in Threads : f[u] \in {"own", "in"} <=> u = t
      PROVE  HolderOf(f) = t
  <2> DEFINE c == CHOOSE u \in Threads : f[u] \in {"own", "in"}
  <2>1. \E u \in Threads : f[u] \in {"own", "in"}
    BY <1>2
  <2>2. c \in Threads /\ f[c] \in {"own", "in"}
    BY <2>1
  <2> HIDE DEF c
  <2>3. c = t
    BY <1>2, <2>2
  <2> QED
    BY <2>1, <2>3 DEF HolderOf, c
<1> QED
  BY <1>1, <1>2

\* The mapping of Synch, before and after a step.
LEMMA LockHolderForm == lockHolder = HolderOf(th) /\ lockHolder' = HolderOf(th')
  BY DEF lockHolder, HolderOf, holds

\* A step in which no thread begins or ceases to hold the lock keeps the holder.
LEMMA HolderKept ==
  ASSUME Inv, \A t \in Threads : th'[t] \in {"own", "in"} <=> th[t] \in {"own", "in"}
  PROVE  lockHolder' = lockHolder
<1>1. LockState(th, sem_count["lk_sem"], lk_owner)
  BY InvForms
<1>2. CASE \A t \in Threads : th[t] \notin {"own", "in"}
  BY <1>2, HolderFacts, LockHolderForm
<1>3. ASSUME NEW t \in Threads, \A u \in Threads : th[u] \in {"own", "in"} <=> u = t
      PROVE  lockHolder' = lockHolder
  BY <1>3, HolderFacts, LockHolderForm
<1> QED
  BY ZenonT(30), <1>1, <1>2, <1>3 DEF LockState

\* A thread that has the lock is the holder.
LEMMA HolderIs ==
  ASSUME Inv, NEW t \in Threads, th[t] \in {"own", "in"}
  PROVE  lockHolder = t /\ \A u \in Threads : th[u] \in {"own", "in"} <=> u = t
<1>1. LockState(th, sem_count["lk_sem"], lk_owner)
  BY InvForms
<1>2. \A u \in Threads : th[u] \in {"own", "in"} <=> u = t
  BY <1>1 DEF LockState
<1> QED
  BY <1>2, HolderFacts, LockHolderForm

\* The initial state maps to an initial state of Monitor.
LEMMA InitMonitor == Init => M!Init
<1> SUFFICES ASSUME Init PROVE lockHolder = NULL /\ cvWaiters = {}
  BY DEF M!Init
<1>1. \A t \in Threads : th[t] \notin {"own", "in"}
  BY DEF Init
<1>2. lockHolder = NULL
  BY <1>1, HolderFacts, LockHolderForm
<1>3. cvWaiters = {}
  BY EmptyQueue DEF Init, cvWaiters, Wchans
<1> QED
  BY <1>2, <1>3

\* Lock operations: P that succeeds is Acquire, V is Release, and the rest of
\* lock_acquire is invisible.
LEMMA LockMonitor ==
  ASSUME Inv, NEW t \in Threads, lock_P(t) \/ lock_own(t) \/ lock_release(t)
  PROVE  M!Next \/ UNCHANGED <<lockHolder, cvWaiters>>
<1>1. CASE lock_own(t)
  <2>1. th[t] = "own" /\ th'[t] = "in" /\ \A u \in Threads : u # t => th'[u] = th[u]
    BY ZenonT(30), <1>1, OnFacts, GoesFacts DEF lock_own
  <2>2. lockHolder' = lockHolder
    BY <2>1, HolderKept
  <2> QED
    BY ZenonT(30), <1>1, <2>2 DEF lock_own, cvWaiters
<1>2. CASE lock_release(t)
  <2>1. th[t] = "in" /\ th'[t] = "out" /\ \A u \in Threads : u # t => th'[u] = th[u]
    BY ZenonT(30), <1>2, OnFacts, GoesFacts DEF lock_release
  <2>2. lockHolder = t /\ \A u \in Threads : th[u] \in {"own", "in"} <=> u = t
    BY ZenonT(30), <2>1, HolderIs
  <2>3. \A u \in Threads : th'[u] \notin {"own", "in"}
    BY <2>1, <2>2
  <2>4. lockHolder' = NULL
    BY ZenonT(30), <2>3, HolderFacts, LockHolderForm
  <2>5. cvWaiters' = cvWaiters
    BY <1>2, InvForms DEF lock_release, V, cvWaiters, WchansOK, Wchans, Sems
  <2>6. M!Release(t)
    BY <2>2, <2>4, <2>5 DEF M!Release
  <2> QED
    BY <2>6 DEF M!Next
<1>3. CASE lock_P(t) /\ sem_count["lk_sem"] > 0
  <2>1. /\ sem_count["lk_sem"] > 0 /\ Goes(t, "own") /\ On(t, "P")
        /\ UNCHANGED <<cpuVars, wc_threads>>
    BY <1>3 DEF lock_P, P
  <2>2. /\ th[t] = "P" /\ th'[t] = "own" /\ \A u \in Threads : u # t => th'[u] = th[u]
        /\ t \notin Asleep("cv")
    BY ZenonT(30), <2>1, OnFacts, GoesFacts DEF Wchans
  <2>3. \A u \in Threads : th[u] \notin {"own", "in"}
    BY <2>1, InvForms DEF LockState
  <2>4. \A u \in Threads : th'[u] \in {"own", "in"} <=> u = t
    BY <2>2, <2>3
  <2>5. lockHolder = NULL /\ lockHolder' = t
    BY ZenonT(30), <2>3, <2>4, HolderFacts, LockHolderForm
  <2>6. cvWaiters' = cvWaiters /\ t \notin cvWaiters
    BY <2>1, <2>2 DEF cvWaiters, Asleep
  <2>7. M!Acquire(t)
    BY <2>5, <2>6 DEF M!Acquire
  <2> QED
    BY <2>7 DEF M!Next
<1>4. CASE lock_P(t) /\ ~(sem_count["lk_sem"] > 0)
  <2>1. th' = th /\ wchan_sleep("lk_sem", t)
    BY <1>4 DEF lock_P, P
  <2>2. lockHolder' = lockHolder
    BY <2>1, HolderKept
  <2>3. cvWaiters' = cvWaiters
    BY <2>1, InvForms DEF wchan_sleep, cvWaiters, WchansOK, Wchans, Sems
  <2> QED
    BY <2>2, <2>3
<1> QED
  BY <1>1, <1>2, <1>3, <1>4

\* Condition variable operations.
LEMMA CvMonitor ==
  ASSUME Inv, NEW t \in Threads, cv_wait(t) \/ cv_signal(t) \/ cv_broadcast(t)
  PROVE  M!Next \/ UNCHANGED <<lockHolder, cvWaiters>>
<1>1. On(t, "in") /\ WchansOK /\ "cv" \in Wchans
  BY Zenon, InvForms DEF cv_wait, cv_signal, cv_broadcast, Wchans
<1>2. th[t] = "in" /\ lockHolder = t /\ \A w \in Wchans : t \notin Asleep(w)
  BY ZenonT(30), <1>1, OnFacts, HolderIs
<1>3. \A u \in Threads : th[u] \in {"own", "in"} <=> u = t
  BY <1>2, HolderIs
<1>4. lockHolder # NULL
  BY <1>2, SynchAssumption
<1>5. CASE cv_wait(t)
  <2>1. /\ Goes(t, "P")
        /\ wc_threads' = [wc_threads EXCEPT !["lk_sem"] = asleep("lk_sem"),
                                            !["cv"] = Append(@, t)]
    BY <1>5 DEF cv_wait
  <2>2. th'[t] = "P" /\ \A u \in Threads : u # t => th'[u] = th[u]
    BY <2>1, GoesFacts
  <2>3. \A u \in Threads : th'[u] \notin {"own", "in"}
    BY <1>3, <2>2
  <2>4. lockHolder' = NULL
    BY <2>3, HolderFacts, LockHolderForm
  <2>5. wc_threads'["cv"] = Append(wc_threads["cv"], t)
    BY <1>1, <2>1 DEF WchansOK, Wchans, Sems
  <2>6. cvWaiters' = cvWaiters \cup {t}
    BY <1>1, <1>2, <2>5, AppendQueue DEF WchansOK, Asleep, cvWaiters
  <2>7. M!Wait(t)
    BY ZenonT(30), <1>2, <2>4, <2>6 DEF M!Wait
  <2> QED
    BY <2>7 DEF M!Next
<1>6. CASE cv_signal(t)
  <2>1. th' = th /\ wc_threads'["cv"] = asleep("cv")
    BY <1>1, <1>6 DEF cv_signal, WchansOK
  <2>2. lockHolder' = lockHolder
    BY ZenonT(30), <2>1, HolderKept
  <2>3. cvWaiters' = Asleep("cv") \ Range(woken("cv")) /\ cvWaiters = Asleep("cv")
    BY <1>1, <2>1, WakeEffect DEF cvWaiters, Asleep
  <2>4. CASE Asleep("cv") = {}
    BY <2>2, <2>3, <2>4
  <2>5. ASSUME NEW h \in Asleep("cv"), Range(woken("cv")) = {h} PROVE M!Next
    <3>1. M!Signal
      BY ZenonT(30), <1>4, <2>2, <2>3, <2>5 DEF M!Signal
    <3> QED
      BY <3>1 DEF M!Next
  <2> QED
    BY ZenonT(30), <1>1, <2>4, <2>5, WakeEffect
<1>7. CASE cv_broadcast(t)
  <2>1. th' = th /\ wc_threads'["cv"] = <<>>
    BY <1>1, <1>7 DEF cv_broadcast, WchansOK
  <2>2. lockHolder' = lockHolder
    BY <2>1, HolderKept
  <2>3. M!Broadcast
    BY ZenonT(30), <1>4, <2>1, <2>2, EmptyQueue DEF M!Broadcast, cvWaiters
  <2> QED
    BY <2>3 DEF M!Next
<1> QED
  BY ZenonT(30), <1>5, <1>6, <1>7

\* What moves no thread into or out of the lock, nor on the condition variable.
LEMMA Invisible ==
  ASSUME Inv, wc_threads'["cv"] = wc_threads["cv"],
         \/ th' = th
         \/ \E t \in Threads, pc \in {"none", "out", "P", "io"} :
              Goes(t, pc) /\ th[t] \notin {"own", "in"}
  PROVE  UNCHANGED <<lockHolder, cvWaiters>>
<1>1. ASSUME NEW t \in Threads, NEW pc \in {"none", "out", "P", "io"},
             Goes(t, pc), th[t] \notin {"own", "in"}
      PROVE  lockHolder' = lockHolder
  <2>1. th'[t] = pc /\ \A u \in Threads : u # t => th'[u] = th[u]
    BY <1>1, GoesFacts
  <2> QED
    BY ZenonT(30), <1>1, <2>1, HolderKept
<1>2. ASSUME th' = th PROVE lockHolder' = lockHolder
  BY Zenon, <1>2, HolderKept
<1> QED
  BY <1>1, <1>2 DEF cvWaiters

\* Every step maps to a step of Monitor or to none.
LEMMA NextMonitor == Inv /\ [Next]_vars => [M!Next]_<<lockHolder, cvWaiters>>
<1> SUFFICES ASSUME Inv, [Next]_vars
             PROVE  M!Next \/ UNCHANGED <<lockHolder, cvWaiters>>
  OBVIOUS
<1>1. WchansOK /\ "cv" \in Wchans /\ "cv" \notin Sems
  BY InvForms DEF Wchans, Sems
<1>2. CASE thread_yield \/ cpu_idle \/ UNCHANGED vars
  BY ZenonT(30), <1>2, Invisible DEF thread_yield, cpu_idle, vars
<1>3. CASE interrupt
  <2>1. wc_threads'["cv"] = wc_threads["cv"] /\ th' = th
    BY <1>1, <1>3 DEF interrupt, V, WchansOK, Sems
  <2> QED
    BY <2>1, Invisible
<1>4. ASSUME NEW t \in Threads, NEW c \in Threads, thread_fork(t, c)
      PROVE  UNCHANGED <<lockHolder, cvWaiters>>
  BY <1>4, Invisible DEF thread_fork
<1>5. ASSUME NEW t \in Threads, thread_exit(t) \/ lock_acquire(t) \/ startTransfer(t)
      PROVE  UNCHANGED <<lockHolder, cvWaiters>>
  <2>1. /\ wc_threads' = wc_threads /\ th[t] \notin {"own", "in"}
        /\ Goes(t, "none") \/ Goes(t, "P") \/ Goes(t, "io")
    BY Zenon, <1>5 DEF thread_exit, lock_acquire, startTransfer, On
  <2> QED
    BY <2>1, Invisible
<1>6. ASSUME NEW t \in Threads, endTransfer(t)
      PROVE  UNCHANGED <<lockHolder, cvWaiters>>
  <2>1. wc_threads'["cv"] = wc_threads["cv"]
    BY <1>1, <1>6 DEF endTransfer, P, wchan_sleep, WchansOK, Sems
  <2>2. th' = th \/ (Goes(t, "out") /\ th[t] \notin {"own", "in"})
    BY <1>6 DEF endTransfer, P, On
  <2> QED
    BY ZenonT(30), <2>1, <2>2, Invisible
<1> QED
  BY ZenonT(30), <1>2, <1>3, <1>4, <1>5, <1>6, LockMonitor, CvMonitor DEF Next

\* The lock of synch.c, made of a semaphore, with its condition variable is a
\* monitor: cv_wait gives the lock up and joins the waiting threads in one
\* step, so no signal falls between the two.
THEOREM ImplementsMonitor == Spec => IsMonitor
  BY InitMonitor, NextMonitor, SynchInvariant, PTL DEF Spec, IsMonitor, M!Spec

=============================================================================

----------------------------- MODULE ProcProofs -----------------------------
(***************************************************************************)
(* What proc.c and proc_syscalls.c keep true, for every size of the pid    *)
(* table and every number of processes: the table and the structures agree,*)
(* and, as long as programs wait once and for their own children, whoever  *)
(* destroys a process has the only reference to it.                        *)
(***************************************************************************)
EXTENDS Proc, TLAPS

PCs == {"none", "menu", "user", "forking", "new", "wait", "destroy", "signal", "leaving"}

\* Where a thread is that its process counts in p_numthreads, where one is that
\* is past its last use of the structure, and where one works on another process.
Counted == {"menu", "user", "forking", "new", "wait", "destroy"}
Gone == {"leaving", "none"}
Working == {"forking", "wait", "destroy"}

Struct == [p_pid : Pids, p_numthreads : {0, 1}, p_status : 0 .. 255, p_sem : {0, 1}]

Types ==
  /\ processTable \in [Pids -> Procs \cup {NULL}]
  /\ last_i \in Pids
  /\ proc \in [Procs -> Struct \cup {NULL}]
  /\ th \in [Procs -> [pc : PCs, on : Procs \cup {NULL}]]
  /\ children \in [Procs -> SUBSET Users]
  /\ orderly \in BOOLEAN

PidsAgree ==
  \A i \in Pids, p \in Procs : processTable[i] = p <=> Exists(p) /\ proc[p].p_pid = i

\* A structure and its thread: the thread is counted until it leaves, V on p_sem
\* comes after that, and the structure outlives both.
Lives ==
  \A p \in Procs :
    /\ p = kproc => Exists(p) /\ th[p].pc \in {"menu", "forking", "wait", "destroy"}
    /\ ~Exists(p) => th[p].pc \in Gone
    /\ Exists(p) => /\ proc[p].p_numthreads = 1 <=> th[p].pc \in Counted
                    /\ proc[p].p_sem = 1 => th[p].pc \in Gone

\* A thread that creates, waits for or destroys a process works on a structure
\* that is there; one whose fork may still fail, or that is past its wait, on
\* one without a thread and whose p_sem is zero.
Works ==
  \A t \in Procs : th[t].pc \in Working =>
    LET p == th[t].on
    IN  /\ p \in Users /\ Exists(p)
        /\ th[t].pc # "wait" => proc[p].p_sem = 0 /\ th[p].pc \in Gone
        /\ th[t].pc = "forking" => th[p].pc = "none"

\* Only one thread at a time may destroy a process.
OneDestroyer ==
  \A t, u \in Procs :
    /\ th[t].pc \in {"forking", "destroy"} /\ th[u].pc \in {"forking", "destroy"}
    /\ th[t].on = th[u].on
    => t = u

\* Thread t creates, waits for or destroys process p, or may still wait for it.
Refers(t, p) == p \in children[t] \/ (th[t].pc \in Working /\ th[t].on = p)

\* As long as programs are orderly a process has one such thread at most, which
\* does not work on a child it may still wait for.
OneReference ==
  orderly => \A t \in Procs, p \in Users :
    /\ Refers(t, p) => Exists(p) /\ \A u \in Procs : Refers(u, p) => u = t
    /\ p \in children[t] => ~(th[t].pc \in Working /\ th[t].on = p)

\* The inductive invariant.
Inv == Types /\ PidsAgree /\ Lives /\ Works /\ OneDestroyer /\ OneReference

-----------------------------------------------------------------------------

\* A structure is not a null pointer.
LEMMA StructFacts ==
  ASSUME NEW r \in Struct
  PROVE  /\ r # NULL
         /\ r.p_pid \in Pids /\ r.p_numthreads \in {0, 1}
         /\ r.p_status \in 0 .. 255 /\ r.p_sem \in {0, 1}
<1>1. Pids \subseteq Nat /\ {0, 1} \subseteq Nat /\ 0 .. 255 \subseteq Nat
  BY ProcAssumption DEF Pids
<1>2. r \in [p_pid : Nat, p_numthreads : Nat, p_status : Nat, p_sem : Nat]
  BY ZenonT(30), <1>1 DEF Struct
<1> QED
  BY <1>2, ProcAssumption DEF Struct

\* One field of a structure changes.
LEMMA FieldFacts ==
  ASSUME NEW r \in Struct, NEW n \in {0, 1}
  PROVE  /\ LET q == [r EXCEPT !.p_numthreads = n]
            IN  q \in Struct /\ q.p_pid = r.p_pid /\ q.p_numthreads = n /\ q.p_sem = r.p_sem
         /\ LET q == [r EXCEPT !.p_sem = n]
            IN  q \in Struct /\ q.p_pid = r.p_pid /\ q.p_numthreads = r.p_numthreads /\ q.p_sem = n
  BY DEF Struct

\* What proc_create fills in.
LEMMA NewProcFacts ==
  ASSUME NEW i \in Pids
  PROVE  /\ NewProc(i) \in Struct /\ NewProc(i).p_pid = i
         /\ NewProc(i).p_numthreads = 0 /\ NewProc(i).p_sem = 0
  BY DEF NewProc, Struct

\* The state of a thread.
LEMMA AtFacts ==
  ASSUME NEW pc \in PCs, NEW p \in Procs \cup {NULL}
  PROVE  /\ At(pc, p) \in [pc : PCs, on : Procs \cup {NULL}]
         /\ At(pc, p).pc = pc /\ At(pc, p).on = p
  BY DEF At

\* Where a thread is between two calls.
LEMMA HomeFacts ==
  ASSUME NEW t \in Procs
  PROVE  /\ Home(t) \in [pc : PCs, on : Procs \cup {NULL}]
         /\ Home(t).pc = (IF t = kproc THEN "menu" ELSE "user")
         /\ Home(t).pc \in Counted /\ Home(t).pc \notin Working
  BY DEF Home, At, PCs, Counted, Working

\* What Inv says, in the form the steps use.
LEMMA InvFacts ==
  ASSUME Inv
  PROVE  /\ Types /\ PidsAgree /\ Lives /\ Works /\ OneDestroyer /\ OneReference
         /\ \A p \in Procs : Exists(p) => proc[p] \in Struct
         /\ \A t \in Procs : th[t].pc \in PCs /\ th[t].on \in Procs \cup {NULL}
         /\ kproc \in Procs /\ NULL \notin Procs /\ Users = Procs \ {kproc}
<1>1. Types /\ PidsAgree /\ Lives /\ Works /\ OneDestroyer /\ OneReference
  BY DEF Inv
<1>2. \A p \in Procs : Exists(p) => proc[p] \in Struct
  BY <1>1 DEF Types, Exists
<1>3. \A t \in Procs : th[t].pc \in PCs /\ th[t].on \in Procs \cup {NULL}
  BY <1>1 DEF Types
<1> QED
  BY <1>1, <1>2, <1>3, ProcAssumption DEF Users

\* The state with the kernel process alone satisfies the invariant.
LEMMA InitInv == Init => Inv
<1> SUFFICES ASSUME Init PROVE Inv
  OBVIOUS
<1>1. 1 \in Pids /\ kproc \in Procs /\ NULL \notin Procs
  BY ProcAssumption DEF Pids
<1> DEFINE r == [NewProc(1) EXCEPT !.p_numthreads = 1]
<1>2. r \in Struct /\ r.p_pid = 1 /\ r.p_numthreads = 1 /\ r.p_sem = 0 /\ r # NULL
  <2>1. r \in Struct /\ r.p_pid = 1 /\ r.p_numthreads = 1 /\ r.p_sem = 0
    BY <1>1 DEF NewProc, Struct
  <2> QED
    BY <2>1, StructFacts
<1>3. /\ proc[kproc] = r
      /\ \A p \in Procs : p # kproc => proc[p] = NULL
  BY <1>1 DEF Init
<1>4. /\ th[kproc] = Home(kproc) /\ th[kproc].pc = "menu"
      /\ \A t \in Procs : t # kproc => th[t] = At("none", NULL) /\ th[t].pc = "none"
  BY <1>1, HomeFacts, AtFacts DEF Init, PCs
<1>5. Types
  <2>1. proc \in [Procs -> Struct \cup {NULL}]
    BY <1>2 DEF Init
  <2>2. th \in [Procs -> [pc : PCs, on : Procs \cup {NULL}]]
    BY HomeFacts, AtFacts DEF Init, PCs
  <2>3. orderly \in BOOLEAN
    BY DEF Init
  <2> QED
    BY Zenon, <1>1, <2>1, <2>2, <2>3 DEF Init, Types
<1> HIDE DEF r
<1>6. PidsAgree
  BY Zenon, <1>1, <1>2, <1>3 DEF Init, PidsAgree, Exists
<1>7. Lives
  BY <1>2, <1>3, <1>4 DEF Lives, Exists, Gone, Counted
<1>8. Works /\ OneDestroyer /\ OneReference
  BY <1>4 DEF Init, Works, OneDestroyer, OneReference, Refers, Working
<1> QED
  BY <1>5, <1>6, <1>7, <1>8 DEF Inv

\* A panic, and steps that change nothing.
LEMMA PanicStep ==
  ASSUME Inv, UNCHANGED <<processTable, last_i, proc, th, children, orderly>>
  PROVE  Inv'
<1>1. Types' /\ PidsAgree'
  BY DEF Inv, Types, PidsAgree, Exists
<1>2. Lives' /\ Works' /\ OneDestroyer'
  BY DEF Inv, Lives, Works, OneDestroyer, Exists
<1>3. OneReference'
  BY DEF Inv, OneReference, Refers, Exists
<1> QED
  BY <1>1, <1>2, <1>3 DEF Inv

-----------------------------------------------------------------------------
\* Steps of one thread.

\* Thread t goes from one state in which it works on no process to another, and
\* structure p, which may be its own, has fields changed that keep Lives.
LEMMA OwnStep ==
  ASSUME Inv, NEW t \in Procs, NEW x \in [pc : PCs, on : Procs \cup {NULL}],
         th' = [th EXCEPT ![t] = x],
         th[t].pc \notin Working, x.pc \notin Working,
         th[t].pc \notin Gone \/ (th[t].pc = "leaving" /\ x.pc = "none"),
         NEW r \in Struct \cup {NULL}, proc' = [proc EXCEPT ![t] = r],
         Exists(t) <=> r # NULL,
         Exists(t) => r.p_pid = proc[t].p_pid,
         t = kproc => x.pc = "menu",
         r = NULL => x.pc \in Gone,
         r # NULL => /\ r.p_numthreads = 1 <=> x.pc \in Counted
                     /\ r.p_sem = 1 => x.pc \in Gone
                     /\ th[t].pc \in Gone => r.p_sem = proc[t].p_sem,
         children' = children \/ children' = [children EXCEPT ![t] = {}],
         UNCHANGED <<processTable, last_i, orderly>>
  PROVE  Inv'
<1>1. Types /\ PidsAgree /\ Lives /\ Works /\ OneDestroyer /\ OneReference
  BY InvFacts
<1>2. th'[t] = x /\ proc'[t] = r
      /\ \A u \in Procs : u # t => th'[u] = th[u] /\ proc'[u] = proc[u]
  BY <1>1 DEF Types
<1>3. Types'
  BY <1>1 DEF Types
<1>4. \A p \in Procs : /\ Exists(p)' <=> Exists(p)
                       /\ Exists(p) => proc'[p].p_pid = proc[p].p_pid
  BY <1>2 DEF Exists
<1>5. PidsAgree'
  BY <1>1, <1>4 DEF PidsAgree
<1>6. Lives'
  BY <1>1, <1>2 DEF Lives, Exists
<1>7. \A u \in Procs : th'[u].pc \in Working => u # t /\ th'[u] = th[u]
  BY <1>2
<1>8. Works'
  <2> SUFFICES ASSUME NEW u \in Procs, th'[u].pc \in Working
               PROVE  LET p == th'[u].on
                      IN  /\ p \in Users /\ proc'[p] # NULL
                          /\ th'[u].pc # "wait" => proc'[p].p_sem = 0 /\ th'[p].pc \in Gone
                          /\ th'[u].pc = "forking" => th'[p].pc = "none"
    BY DEF Works, Exists
  <2> DEFINE p == th[u].on
  <2>1. /\ th'[u] = th[u] /\ p \in Users /\ Exists(p) /\ p \in Procs
        /\ th[u].pc # "wait" => proc[p].p_sem = 0 /\ th[p].pc \in Gone
        /\ th[u].pc = "forking" => th[p].pc = "none"
    BY <1>1, <1>7 DEF Works, Users
  <2>2. proc'[p] # NULL
    BY <2>1, <1>4 DEF Exists
  <2>3. ASSUME th[u].pc # "wait" PROVE proc'[p].p_sem = 0 /\ th'[p].pc \in Gone
    <3>1. CASE p = t
      BY <3>1, <2>1, <2>3, <1>2 DEF Gone, Exists
    <3>2. CASE p # t
      BY <3>2, <2>1, <2>3, <1>2
    <3> QED
      BY <3>1, <3>2
  <2>4. ASSUME th[u].pc = "forking" PROVE th'[p].pc = "none"
    BY <2>1, <2>4, <1>2 DEF Gone
  <2> QED
    BY ZenonT(30), <2>1, <2>2, <2>3, <2>4
<1>9. OneDestroyer'
  BY <1>1, <1>7 DEF OneDestroyer, Working
<1>10. OneReference'
  <2>1. \A u \in Procs : children'[u] \subseteq children[u]
    BY <1>1 DEF Types
  <2>2. \A u \in Procs, p \in Users : Refers(u, p)' => Refers(u, p)
    BY <1>7, <2>1 DEF Refers
  <2> QED
    BY <1>1, <1>4, <1>7, <2>1, <2>2 DEF OneReference, Users
<1> QED
  BY <1>3, <1>5, <1>6, <1>8, <1>9, <1>10 DEF Inv

\* A thread in one of the states of a program that runs or ends is a user's, and
\* its structure is there.
LEMMA UserFacts ==
  ASSUME Inv, NEW t \in Procs, th[t].pc \in {"user", "new", "signal"}
  PROVE  /\ t # kproc /\ Exists(t) /\ proc[t] \in Struct
         /\ proc[t].p_numthreads = (IF th[t].pc = "signal" THEN 0 ELSE 1)
         /\ proc[t].p_sem = 0
<1>1. t # kproc /\ Exists(t)
  BY InvFacts DEF Lives, Gone
<1>2. proc[t] \in Struct
  BY <1>1, InvFacts
<1> QED
  BY <1>1, <1>2, InvFacts, StructFacts DEF Lives, Gone, Counted

\* OwnStep for a thread whose structure is there.
LEMMA LiveStep ==
  ASSUME Inv, NEW t \in Procs, NEW x \in [pc : PCs, on : Procs \cup {NULL}],
         th' = [th EXCEPT ![t] = x],
         th[t].pc \in {"user", "new", "signal"}, x.pc \notin Working,
         NEW r \in Struct, proc' = [proc EXCEPT ![t] = r],
         r.p_pid = proc[t].p_pid,
         r.p_numthreads = 1 <=> x.pc \in Counted,
         r.p_sem = 1 => x.pc \in Gone,
         children' = children \/ children' = [children EXCEPT ![t] = {}],
         UNCHANGED <<processTable, last_i, orderly>>
  PROVE  Inv'
<1>1. t # kproc /\ Exists(t) /\ r # NULL /\ r \in Struct \cup {NULL}
  BY UserFacts, StructFacts
<1>2. th[t].pc \notin Working /\ th[t].pc \notin Gone
  BY DEF Working, Gone
<1> QED
  BY Zenon, <1>1, <1>2, OwnStep

\* The new thread of common_prog enters its program.
LEMMA RunprogramStep == ASSUME Inv, NEW t \in Procs, runprogram(t) PROVE Inv'
<1>1. /\ th[t].pc = "new" /\ th' = [th EXCEPT ![t] = Home(t)]
      /\ UNCHANGED <<processTable, last_i, proc, children, orderly>>
  BY DEF runprogram, On
<1>2. proc' = [proc EXCEPT ![t] = proc[t]]
  BY <1>1, InvFacts DEF Types
<1>3. proc[t] \in Struct /\ proc[t].p_numthreads = 1 /\ proc[t].p_sem = 0
  BY <1>1, UserFacts
<1>4. /\ Home(t) \in [pc : PCs, on : Procs \cup {NULL}]
      /\ Home(t).pc \notin Working
      /\ proc[t].p_numthreads = 1 <=> Home(t).pc \in Counted
      /\ proc[t].p_sem = 1 => Home(t).pc \in Gone
  BY <1>3, HomeFacts
<1>5. th[t].pc \in {"user", "new", "signal"}
  BY <1>1
<1>6. children' = children \/ children' = [children EXCEPT ![t] = {}]
  BY <1>1
<1> QED
  BY Zenon, <1>1, <1>2, <1>3, <1>4, <1>5, <1>6, LiveStep

\* The program could not be loaded: its thread ends without a signal.
LEMMA RunprogramFailsStep == ASSUME Inv, NEW t \in Procs, runprogram_fails(t) PROVE Inv'
<1> DEFINE r == [proc[t] EXCEPT !.p_numthreads = 0]
           x == At("none", NULL)
<1>1. /\ th[t].pc = "new" /\ th' = [th EXCEPT ![t] = x]
      /\ UNCHANGED <<processTable, last_i, children, orderly>>
  BY DEF runprogram_fails, On
<1>2. t # kproc /\ Exists(t) /\ proc[t] \in Struct /\ proc[t].p_numthreads = 1 /\ proc[t].p_sem = 0
  BY <1>1, UserFacts
<1>3. proc' = [proc EXCEPT ![t] = r]
  BY <1>2 DEF runprogram_fails, remthread
<1>4. r \in Struct /\ r.p_pid = proc[t].p_pid /\ r.p_numthreads = 0 /\ r.p_sem = 0
  BY Zenon, <1>2, FieldFacts
<1>5. x \in [pc : PCs, on : Procs \cup {NULL}] /\ x.pc = "none"
  BY AtFacts DEF PCs
<1> HIDE DEF r, x
<1>6. /\ th[t].pc \in {"user", "new", "signal"}
      /\ x.pc \notin Working
      /\ r.p_numthreads = 1 <=> x.pc \in Counted
      /\ r.p_sem = 1 => x.pc \in Gone
  BY <1>1, <1>4, <1>5 DEF Working, Gone, Counted
<1>7. children' = children \/ children' = [children EXCEPT ![t] = {}]
  BY <1>1
<1> QED
  BY Zenon, <1>1, <1>3, <1>4, <1>5, <1>6, <1>7, LiveStep

\* sys__exit stores the status and leaves the process.
LEMMA ExitStep ==
  ASSUME Inv, NEW t \in Users, NEW s \in Statuses, sys__exit(t, s)
  PROVE  Inv'
<1> DEFINE v == s % 256
           r == [proc[t] EXCEPT !.p_status = v, !.p_numthreads = 0]
           x == At("signal", NULL)
<1> HIDE DEF v
<1>1. /\ th[t].pc = "user" /\ th' = [th EXCEPT ![t] = x] /\ t \in Procs
      /\ children' = [children EXCEPT ![t] = {}]
      /\ UNCHANGED <<processTable, last_i, orderly>>
  BY DEF sys__exit, On, Users
<1>2. t # kproc /\ Exists(t) /\ proc[t] \in Struct /\ proc[t].p_numthreads = 1 /\ proc[t].p_sem = 0
  BY <1>1, UserFacts
<1>3. proc' = [proc EXCEPT ![t] = r]
  <2>1. proc' = [proc EXCEPT ![t].p_status = v, ![t].p_numthreads = @ - 1]
    BY DEF sys__exit, v
  <2>2. proc' = [proc EXCEPT ![t] = [proc[t] EXCEPT !.p_status = v,
                                                   !.p_numthreads = proc[t].p_numthreads - 1]]
    BY <2>1, <1>1, <1>2, InvFacts DEF Types, Struct
  <2> QED
    BY <2>2, <1>2
<1>4. v \in 0 .. 255
  BY ProcAssumption DEF v
<1>5. r \in Struct /\ r.p_pid = proc[t].p_pid /\ r.p_numthreads = 0 /\ r.p_sem = 0
  <2> DEFINE q == [proc[t] EXCEPT !.p_status = v]
  <2>1. q \in Struct /\ q.p_pid = proc[t].p_pid /\ q.p_sem = 0
    BY <1>2, <1>4 DEF Struct
  <2>2. r = [q EXCEPT !.p_numthreads = 0]
    OBVIOUS
  <2> HIDE DEF q, r
  <2> QED
    BY Zenon, <2>1, <2>2, FieldFacts
<1>6. x \in [pc : PCs, on : Procs \cup {NULL}] /\ x.pc = "signal"
  BY AtFacts DEF PCs
<1> HIDE DEF r, x
<1>7. /\ th[t].pc \in {"user", "new", "signal"}
      /\ x.pc \notin Working
      /\ r.p_numthreads = 1 <=> x.pc \in Counted
      /\ r.p_sem = 1 => x.pc \in Gone
  BY <1>1, <1>5, <1>6 DEF Working, Gone, Counted
<1>8. children' = children \/ children' = [children EXCEPT ![t] = {}]
  BY <1>1
<1> QED
  BY Zenon, <1>1, <1>3, <1>5, <1>6, <1>7, <1>8, LiveStep

\* proc_signal_end calls V for the waiter.
LEMMA SignalEndStep == ASSUME Inv, NEW t \in Procs, proc_signal_end(t) PROVE Inv'
<1> DEFINE r == [proc[t] EXCEPT !.p_sem = 1]
           x == At("leaving", NULL)
<1>1. /\ th[t].pc = "signal" /\ th' = [th EXCEPT ![t] = x]
      /\ UNCHANGED <<processTable, last_i, children, orderly>>
  BY DEF proc_signal_end, On
<1>2. t # kproc /\ Exists(t) /\ proc[t] \in Struct /\ proc[t].p_numthreads = 0 /\ proc[t].p_sem = 0
  BY <1>1, UserFacts
<1>3. proc' = [proc EXCEPT ![t] = r]
  BY <1>2 DEF proc_signal_end
<1>4. r \in Struct /\ r.p_pid = proc[t].p_pid /\ r.p_numthreads = 0 /\ r.p_sem = 1
  BY Zenon, <1>2, FieldFacts
<1>5. x \in [pc : PCs, on : Procs \cup {NULL}] /\ x.pc = "leaving"
  BY AtFacts DEF PCs
<1> HIDE DEF r, x
<1>6. /\ th[t].pc \in {"user", "new", "signal"}
      /\ x.pc \notin Working
      /\ r.p_numthreads = 1 <=> x.pc \in Counted
      /\ r.p_sem = 1 => x.pc \in Gone
  BY <1>1, <1>4, <1>5 DEF Working, Gone, Counted
<1>7. children' = children \/ children' = [children EXCEPT ![t] = {}]
  BY <1>1
<1> QED
  BY Zenon, <1>1, <1>3, <1>4, <1>5, <1>6, <1>7, LiveStep

\* thread_exit, after the process has been left.
LEMMA ThreadExitStep == ASSUME Inv, NEW t \in Procs, thread_exit(t) PROVE Inv'
<1> DEFINE x == At("none", NULL)
<1>1. /\ th[t].pc = "leaving" /\ th' = [th EXCEPT ![t] = x]
      /\ UNCHANGED <<processTable, last_i, proc, children, orderly>>
  BY DEF thread_exit, On
<1>2. proc' = [proc EXCEPT ![t] = proc[t]] /\ proc[t] \in Struct \cup {NULL}
  BY <1>1, InvFacts DEF Types
<1>3. x \in [pc : PCs, on : Procs \cup {NULL}] /\ x.pc = "none"
  BY AtFacts DEF PCs
<1> HIDE DEF x
<1>4. t # kproc /\ (Exists(t) => proc[t].p_numthreads # 1)
  BY <1>1, InvFacts DEF Lives, Counted
<1> QED
  BY ZenonT(30), <1>1, <1>2, <1>3, <1>4, OwnStep DEF Working, Gone, Counted, Exists

-----------------------------------------------------------------------------
\* Creation.

\* The new process takes a structure and a pid nobody has, so nobody refers to
\* it yet but its creator.
LEMMA CreateStep ==
  ASSUME Inv, NEW t \in Procs, NEW p \in Users, proc_create_runprogram(t, p)
  PROVE  Inv'
<1> DEFINE x == At("forking", p)
<1>1. /\ th[t].pc \in {"menu", "user"} /\ proc[p] = NULL /\ th[p].pc = "none"
      /\ th' = [th EXCEPT ![t] = x]
      /\ UNCHANGED <<children, orderly>>
  BY DEF proc_create_runprogram, CanCreate, On
<1>2. PICK i \in Pids : proc_init_waitpid(p, i)
  BY DEF proc_create_runprogram
<1>3. /\ processTable[i] = NULL
      /\ processTable' = [processTable EXCEPT ![i] = p]
      /\ last_i' = i
      /\ proc' = [proc EXCEPT ![p] = NewProc(i)]
  BY <1>2 DEF proc_init_waitpid, Found
<1>4. /\ Types /\ PidsAgree /\ Lives /\ Works /\ OneDestroyer /\ OneReference
      /\ p \in Procs /\ p # kproc /\ NULL \notin Procs
  BY InvFacts DEF Users
<1>5. x \in [pc : PCs, on : Procs \cup {NULL}] /\ x.pc = "forking" /\ x.on = p
  BY <1>4, AtFacts DEF PCs
<1>6. /\ NewProc(i) \in Struct /\ NewProc(i).p_pid = i /\ NewProc(i) # NULL
      /\ NewProc(i).p_numthreads = 0 /\ NewProc(i).p_sem = 0
  BY NewProcFacts, StructFacts
<1> HIDE DEF x
<1>7. /\ th'[t] = x /\ \A u \in Procs : u # t => th'[u] = th[u]
      /\ proc'[p] = NewProc(i) /\ \A u \in Procs : u # p => proc'[u] = proc[u]
      /\ t # p /\ th'[p] = th[p]
  BY <1>1, <1>3, <1>4 DEF Types
<1>8. Types'
  BY <1>1, <1>3, <1>4, <1>5, <1>6 DEF Types
<1>9. PidsAgree'
  <2> SUFFICES ASSUME NEW j \in Pids, NEW q \in Procs
               PROVE  processTable'[j] = q <=> proc'[q] # NULL /\ proc'[q].p_pid = j
    BY DEF PidsAgree, Exists
  <2>1. processTable'[i] = p /\ \A k \in Pids : k # i => processTable'[k] = processTable[k]
    BY <1>3, <1>4 DEF Types
  <2>2. processTable[j] = q <=> proc[q] # NULL /\ proc[q].p_pid = j
    BY <1>4 DEF PidsAgree, Exists
  <2>3. CASE q = p
    BY <2>1, <2>2, <2>3, <1>1, <1>6, <1>7
  <2>4. CASE q # p
    BY <2>1, <2>2, <2>4, <1>3, <1>4, <1>7
  <2> QED
    BY <2>3, <2>4
<1>10. Lives'
  <2>1. Exists(t)
    BY <1>1, <1>4 DEF Lives, Gone
  <2>2. ASSUME NEW u \in Procs, u # t, u # p
        PROVE  th'[u] = th[u] /\ proc'[u] = proc[u]
    BY <2>2, <1>7
  <2>3. th'[t].pc = "forking" /\ proc'[t] = proc[t]
    BY <1>5, <1>7
  <2>4. "forking" \in Counted /\ th[t].pc \in Counted /\ th[t].pc \notin Gone
    BY <1>1 DEF Counted, Gone
  <2>5. th'[p].pc = "none" /\ "none" \notin Counted /\ "none" \in Gone
    BY <1>1, <1>7 DEF Counted, Gone
  <2> QED
    BY <2>1, <2>2, <2>3, <2>4, <2>5, <1>4, <1>6, <1>7 DEF Lives, Exists
<1>11. \A u \in Procs : th[u].pc \in Working => th[u].on # p
  BY Zenon, <1>1, <1>4 DEF Works, Exists
<1>12. Works'
  <2> SUFFICES ASSUME NEW u \in Procs, th'[u].pc \in Working
               PROVE  LET q == th'[u].on
                      IN  /\ q \in Users /\ proc'[q] # NULL
                          /\ th'[u].pc # "wait" => proc'[q].p_sem = 0 /\ th'[q].pc \in Gone
                          /\ th'[u].pc = "forking" => th'[q].pc = "none"
    BY DEF Works, Exists
  <2>1. CASE u = t
    BY <2>1, <1>1, <1>5, <1>6, <1>7 DEF Gone
  <2>2. CASE u # t
    <3> DEFINE q == th[u].on
    <3>1. /\ th'[u] = th[u] /\ q # p /\ q \in Users /\ q \in Procs /\ proc[q] # NULL
          /\ th[u].pc # "wait" => proc[q].p_sem = 0 /\ th[q].pc \in Gone
          /\ th[u].pc = "forking" => th[q].pc = "none"
      BY Zenon, <2>2, <1>4, <1>7, <1>11 DEF Works, Exists, Users
    <3>2. th[u].pc # "wait" => q # t
      BY <3>1, <1>1 DEF Gone
    <3> QED
      BY ZenonT(30), <3>1, <3>2, <1>7
  <2> QED
    BY <2>1, <2>2
<1>13. OneDestroyer'
  BY <1>4, <1>5, <1>7, <1>11 DEF OneDestroyer, Working
<1>14. OneReference'
  <2> SUFFICES ASSUME orderly
               PROVE  \A u \in Procs, q \in Users :
                        /\ Refers(u, q)' => Exists(q)' /\ \A v \in Procs : Refers(v, q)' => v = u
                        /\ q \in children[u] => ~(th'[u].pc \in Working /\ th'[u].on = q)
    BY <1>1 DEF OneReference
  <2>1. \A u \in Procs : ~Refers(u, p) /\ p \notin children[u]
    BY <1>1, <1>4 DEF OneReference, Exists, Refers
  <2>2. \A u \in Procs, q \in Users : Refers(u, q)' <=> Refers(u, q) \/ (u = t /\ q = p)
    <3>1. th[t].pc \notin Working /\ th'[t].pc \in Working /\ th'[t].on = p
      BY <1>1, <1>5, <1>7 DEF Working
    <3> QED
      BY <3>1, <1>1, <1>7 DEF Refers
  <2>3. \A q \in Users : Exists(q) => Exists(q)'
    BY <1>1, <1>7 DEF Exists, Users
  <2>4. Exists(p)'
    BY <1>6, <1>7 DEF Exists
  <2>5. \A u \in Procs, q \in Users :
          q \in children[u] => ~(th'[u].pc \in Working /\ th'[u].on = q)
    BY <2>1, <1>4, <1>5, <1>7 DEF OneReference
  <2> QED
    BY <2>1, <2>2, <2>3, <2>4, <2>5, <1>4 DEF OneReference
<1> QED
  BY <1>8, <1>9, <1>10, <1>12, <1>13, <1>14 DEF Inv

\* What is known of the process that thread t works on.
LEMMA WorkFacts ==
  ASSUME Inv, NEW t \in Procs, th[t].pc \in Working
  PROVE  LET p == th[t].on
         IN  /\ p \in Procs /\ p \in Users /\ p # kproc /\ proc[p] \in Struct /\ proc[p] # NULL
             /\ th[t].pc # "wait" => /\ p # t /\ proc[p].p_sem = 0 /\ proc[p].p_numthreads = 0
                                     /\ th[p].pc \in Gone
             /\ th[t].pc = "forking" => th[p].pc = "none"
             /\ proc[t] # NULL /\ th[t].pc \in Counted
<1> DEFINE p == th[t].on
<1>1. p \in Users /\ Exists(p) /\ p \in Procs /\ p # kproc
  BY InvFacts DEF Works, Users
<1>2. proc[p] \in Struct /\ proc[p] # NULL
  BY <1>1, InvFacts DEF Exists
<1>3. th[t].pc \in Counted /\ th[t].pc \notin Gone
  BY DEF Working, Counted, Gone
<1>4. proc[t] # NULL
  BY <1>3, InvFacts DEF Lives, Exists
<1>5. th[t].pc = "forking" => th[p].pc = "none"
  BY InvFacts DEF Works
<1>6. ASSUME th[t].pc # "wait"
      PROVE  /\ p # t /\ proc[p].p_sem = 0 /\ proc[p].p_numthreads = 0
             /\ th[p].pc \in Gone
  <2>1. proc[p].p_sem = 0 /\ th[p].pc \in Gone
    BY <1>6, InvFacts DEF Works
  <2>2. th[p].pc \notin Counted
    BY <2>1 DEF Gone, Counted
  <2>3. proc[p].p_numthreads = 0
    BY <1>1, <1>2, <2>2, InvFacts, StructFacts DEF Lives
  <2> QED
    BY <1>3, <2>1, <2>3
<1> QED
  BY <1>1, <1>2, <1>3, <1>4, <1>5, <1>6

\* The new thread is counted, and its creator's reference becomes its wait (the
\* menu) or its child (sys_fork).
LEMMA ForkStep == ASSUME Inv, NEW t \in Procs, thread_fork(t) PROVE Inv'
<1> DEFINE p == th[t].on
           r == [proc[p] EXCEPT !.p_numthreads = 1]
           x == IF t = kproc THEN At("wait", p) ELSE Home(t)
           y == IF t = kproc THEN At("new", NULL) ELSE Home(p)
<1>1. /\ th[t].pc = "forking"
      /\ children' = IF t = kproc THEN children ELSE [children EXCEPT ![t] = @ \cup {p}]
      /\ UNCHANGED <<processTable, last_i, orderly>>
  BY DEF thread_fork, On
<1>2. /\ p \in Procs /\ p \in Users /\ p # kproc /\ proc[p] \in Struct /\ proc[p] # NULL
      /\ p # t /\ proc[p].p_sem = 0 /\ proc[p].p_numthreads = 0 /\ th[p].pc = "none"
      /\ proc[t] # NULL
  BY <1>1, WorkFacts DEF Working
<1>3. Types /\ PidsAgree /\ Lives /\ Works /\ OneDestroyer /\ OneReference
  BY InvFacts
<1>4. proc' = [proc EXCEPT ![p] = r]
  BY <1>2 DEF thread_fork
<1>5. r \in Struct /\ r # NULL /\ r.p_pid = proc[p].p_pid /\ r.p_numthreads = 1 /\ r.p_sem = 0
  BY ZenonT(30), <1>2, FieldFacts, StructFacts
<1>6. /\ x \in [pc : PCs, on : Procs \cup {NULL}] /\ y \in [pc : PCs, on : Procs \cup {NULL}]
      /\ x.pc = (IF t = kproc THEN "wait" ELSE "user")
      /\ t = kproc => x.on = p
      /\ y.pc = (IF t = kproc THEN "new" ELSE "user")
  BY <1>2, AtFacts, HomeFacts DEF PCs
<1>7. th' = [th EXCEPT ![p] = y, ![t] = x]
  BY Zenon DEF thread_fork
<1> HIDE DEF r, x, y
<1>8. /\ th'[t] = x /\ th'[p] = y /\ \A u \in Procs : u # t /\ u # p => th'[u] = th[u]
      /\ proc'[p] = r /\ \A u \in Procs : u # p => proc'[u] = proc[u]
      /\ th' \in [Procs -> [pc : PCs, on : Procs \cup {NULL}]]
  BY <1>2, <1>3, <1>4, <1>6, <1>7 DEF Types
<1> HIDE DEF p
<1>9. Types'
  <2>1. proc' \in [Procs -> Struct \cup {NULL}] /\ children' \in [Procs -> SUBSET Users]
    BY Zenon, <1>1, <1>2, <1>3, <1>4, <1>5 DEF Types
  <2> QED
    BY <1>1, <1>3, <1>8, <2>1 DEF Types
<1>10. \A q \in Procs : /\ proc'[q] # NULL <=> proc[q] # NULL
                        /\ proc[q] # NULL => proc'[q].p_pid = proc[q].p_pid
                        /\ proc[q] # NULL => proc'[q].p_sem = proc[q].p_sem
  BY <1>2, <1>5, <1>8
<1>11. PidsAgree'
  BY <1>1, <1>3, <1>10 DEF PidsAgree, Exists
<1>12. Lives'
  <2>1. /\ x.pc \in Counted /\ x.pc \notin Gone /\ th[t].pc \in Counted /\ y.pc \in Counted
        /\ y.pc \notin Gone /\ x.pc \notin {"forking", "destroy"}
        /\ t = kproc => x.pc \in {"menu", "forking", "wait", "destroy"}
    BY <1>1, <1>6 DEF Counted, Gone
  <2>2. ASSUME NEW u \in Procs, u # t, u # p
        PROVE  th'[u] = th[u] /\ proc'[u] = proc[u]
    BY <2>2, <1>8
  <2>3. proc'[t] = proc[t] /\ (proc[t].p_sem = 1 => th[t].pc \in Gone)
    BY <1>2, <1>3, <1>8 DEF Lives, Exists
  <2>4. th[t].pc \notin Gone
    BY <1>1 DEF Gone
  <2> QED
    BY <2>1, <2>2, <2>3, <2>4, <1>2, <1>3, <1>5, <1>8 DEF Lives, Exists
<1>13. \A u \in Procs : u # t /\ th[u].pc \in {"forking", "destroy"} => th[u].on # p
  BY <1>1, <1>3 DEF OneDestroyer, p
<1>14. th'[p].pc \notin Working
  BY Zenon, <1>6, <1>8 DEF Working
<1>15. Works'
  <2> SUFFICES ASSUME NEW u \in Procs, th'[u].pc \in Working
               PROVE  LET q == th'[u].on
                      IN  /\ q \in Users /\ proc'[q] # NULL
                          /\ th'[u].pc # "wait" => proc'[q].p_sem = 0 /\ th'[q].pc \in Gone
                          /\ th'[u].pc = "forking" => th'[q].pc = "none"
    BY DEF Works, Exists
  <2>1. CASE u = t
    <3>1. t = kproc /\ th'[t].pc = "wait" /\ th'[t].on = p
      BY Zenon, <2>1, <1>6, <1>8 DEF Working
    <3> QED
      BY <2>1, <3>1, <1>2, <1>10
  <2>2. CASE u # t
    <3> DEFINE q == th[u].on
    <3>1. th'[u] = th[u] /\ u # p
      BY <2>2, <1>8, <1>14
    <3>2. /\ q \in Users /\ q \in Procs /\ proc[q] # NULL
          /\ th[u].pc # "wait" => proc[q].p_sem = 0 /\ th[q].pc \in Gone
          /\ th[u].pc = "forking" => th[q].pc = "none"
      BY <3>1, <1>3 DEF Works, Exists, Users
    <3>3. th[u].pc # "wait" => q # p /\ q # t
      BY <2>2, <3>1, <3>2, <1>1, <1>13 DEF Gone, Working
    <3> QED
      BY <3>1, <3>2, <3>3, <1>8, <1>10
  <2> QED
    BY <2>1, <2>2
<1>16. OneDestroyer'
  <2>1. \A u \in Procs : th'[u].pc \in {"forking", "destroy"} => th'[u] = th[u]
    BY Zenon, <1>6, <1>8
  <2> QED
    BY <1>3, <2>1 DEF OneDestroyer
<1>17. OneReference'
  <2> SUFFICES ASSUME orderly
               PROVE  \A u \in Procs, q \in Users :
                        /\ Refers(u, q)' => Exists(q)' /\ \A v \in Procs : Refers(v, q)' => v = u
                        /\ q \in children'[u] => ~(th'[u].pc \in Working /\ th'[u].on = q)
    BY Zenon, <1>1 DEF OneReference
  <2>1. Refers(t, p) /\ p \notin children[t]
    BY <1>1, <1>2, <1>3 DEF OneReference, Refers, Working, p
  <2>2. /\ \A u \in Procs : u # t => children'[u] = children[u]
        /\ children'[t] = IF t = kproc THEN children[t] ELSE children[t] \cup {p}
    BY <1>1, <1>3 DEF Types
  <2>3. /\ th'[t].pc \in Working => t = kproc /\ th'[t].on = p
        /\ \A u \in Procs : u # t => (th'[u].pc \in Working => th'[u] = th[u])
    BY <1>6, <1>8, <1>14 DEF Working
  <2>4. \A u \in Procs, q \in Users : Refers(u, q)' => Refers(u, q)
    <3> SUFFICES ASSUME NEW u \in Procs, NEW q \in Users, Refers(u, q)'
                 PROVE  Refers(u, q)
      OBVIOUS
    <3>1. q \in children'[u] \/ (th'[u].pc \in Working /\ th'[u].on = q)
      BY DEF Refers
    <3>2. CASE u = t
      BY <3>1, <3>2, <2>1, <2>2, <2>3 DEF Refers
    <3>3. CASE u # t
      BY <3>1, <3>3, <2>2, <2>3 DEF Refers
    <3> QED
      BY <3>2, <3>3
  <2>5. \A q \in Users : Exists(q) => Exists(q)'
    BY <1>10 DEF Exists, Users
  <2>6. \A u \in Procs, q \in Users :
          q \in children'[u] => ~(th'[u].pc \in Working /\ th'[u].on = q)
    BY <2>1, <2>2, <2>3, <1>3 DEF OneReference
  <2> QED
    BY <2>4, <2>5, <2>6, <1>3 DEF OneReference
<1> QED
  BY <1>9, <1>11, <1>12, <1>15, <1>16, <1>17 DEF Inv

\* A process is destroyed by the only thread that works on it.
LEMMA DestroyStep ==
  ASSUME Inv, NEW t \in Procs, th[t].pc \in {"forking", "destroy"}, destroyed(t, th[t].on),
         th' = [th EXCEPT ![t] = Home(t)], UNCHANGED <<last_i, children, orderly>>
  PROVE  Inv'
<1> DEFINE p == th[t].on
<1>1. /\ p \in Procs /\ p \in Users /\ p # kproc /\ proc[p] \in Struct /\ proc[p] # NULL
      /\ p # t /\ th[p].pc \in Gone /\ proc[t] # NULL
  BY WorkFacts DEF Working
<1>2. Types /\ PidsAgree /\ Lives /\ Works /\ OneDestroyer /\ OneReference
  BY InvFacts
<1>3. /\ Waiters(p) \subseteq {t}
      /\ processTable' = [processTable EXCEPT ![proc[p].p_pid] = NULL]
      /\ proc' = [proc EXCEPT ![p] = NULL]
  BY DEF destroyed
<1>4. /\ Home(t) \in [pc : PCs, on : Procs \cup {NULL}]
      /\ Home(t).pc = (IF t = kproc THEN "menu" ELSE "user")
  BY HomeFacts
<1>5. proc[p].p_pid \in Pids
  BY ZenonT(30), <1>1, StructFacts
<1>6. /\ th'[t] = Home(t) /\ \A u \in Procs : u # t => th'[u] = th[u]
      /\ proc'[p] = NULL /\ \A u \in Procs : u # p => proc'[u] = proc[u]
      /\ processTable'[proc[p].p_pid] = NULL
      /\ \A i \in Pids : i # proc[p].p_pid => processTable'[i] = processTable[i]
  BY <1>1, <1>2, <1>3, <1>5 DEF Types
<1>7. \A u \in Procs : u # t /\ th[u].pc \in Working => th[u].on # p
  BY ZenonT(30), <1>2, <1>3 DEF Working, Waiters, OneDestroyer
<1>8. Types'
  BY <1>1, <1>2, <1>3, <1>4, <1>5 DEF Types
<1>9. PidsAgree'
  <2> SUFFICES ASSUME NEW i \in Pids, NEW q \in Procs
               PROVE  processTable'[i] = q <=> proc'[q] # NULL /\ proc'[q].p_pid = i
    BY DEF PidsAgree, Exists
  <2>1. processTable[i] = q <=> proc[q] # NULL /\ proc[q].p_pid = i
    BY <1>2 DEF PidsAgree, Exists
  <2>2. processTable[proc[p].p_pid] = p
    BY <1>1, <1>2, <1>5 DEF PidsAgree, Exists
  <2>3. q # NULL
    BY ZenonT(30), ProcAssumption
  <2> QED
    BY <1>6, <2>1, <2>2, <2>3
<1>10. Lives'
  <2>1. Home(t).pc \in Counted /\ th[t].pc \in Counted /\ th[t].pc \notin Gone
    BY ZenonT(30), <1>4 DEF Counted, Gone
  <2>2. proc'[t] = proc[t] /\ (proc[t].p_sem # 1)
    BY <1>1, <1>2, <1>6, <2>1 DEF Lives, Exists
  <2>3. t = kproc => Home(t).pc \in {"menu", "forking", "wait", "destroy"}
    BY Zenon, <1>4
  <2> QED
    BY <1>1, <1>2, <1>6, <2>1, <2>2, <2>3 DEF Lives, Exists
<1>11. \A u \in Procs : th'[u].pc \in Working => u # t /\ th'[u] = th[u] /\ th[u].on # p
  BY Zenon, <1>4, <1>6, <1>7 DEF Working
<1> HIDE DEF p
<1>12. Works'
  <2> SUFFICES ASSUME NEW u \in Procs, th'[u].pc \in Working
               PROVE  LET q == th'[u].on
                      IN  /\ q \in Users /\ proc'[q] # NULL
                          /\ th'[u].pc # "wait" => proc'[q].p_sem = 0 /\ th'[q].pc \in Gone
                          /\ th'[u].pc = "forking" => th'[q].pc = "none"
    BY DEF Works, Exists
  <2> DEFINE q == th[u].on
  <2>1. th'[u] = th[u] /\ q # p
    BY <1>11
  <2>2. /\ q \in Users /\ q \in Procs /\ proc[q] # NULL
        /\ th[u].pc # "wait" => proc[q].p_sem = 0 /\ th[q].pc \in Gone
        /\ th[u].pc = "forking" => th[q].pc = "none"
    BY <2>1, <1>2 DEF Works, Exists, Users
  <2>3. th[q].pc \in Gone => q # t
    BY DEF Gone
  <2>4. th[q].pc = "none" => q # t
    OBVIOUS
  <2> QED
    BY ZenonT(30), <2>1, <2>2, <2>3, <2>4, <1>6
<1>13. OneDestroyer'
  <2>1. \A u \in Procs : th'[u].pc \in {"forking", "destroy"} => th'[u] = th[u]
    BY Zenon, <1>11 DEF Working
  <2> QED
    BY <1>2, <2>1 DEF OneDestroyer
<1>14. OneReference'
  <2> SUFFICES ASSUME orderly
               PROVE  \A u \in Procs, q \in Users :
                        /\ Refers(u, q)' => Exists(q)' /\ \A v \in Procs : Refers(v, q)' => v = u
                        /\ q \in children'[u] => ~(th'[u].pc \in Working /\ th'[u].on = q)
    BY DEF OneReference
  <2>1. Refers(t, p)
    BY DEF Refers, Working, p
  <2>2. \A u \in Procs : p \notin children[u]
    BY <1>1, <1>2, <2>1 DEF OneReference, Refers, Working, p
  <2>3. \A u \in Procs, q \in Users : Refers(u, q)' => Refers(u, q) /\ q # p
    BY <1>11, <2>2 DEF Refers
  <2>4. \A q \in Users : Exists(q) /\ q # p => Exists(q)'
    BY <1>6 DEF Exists, Users
  <2>5. \A u \in Procs, q \in Users :
          q \in children'[u] => ~(th'[u].pc \in Working /\ th'[u].on = q)
    BY <1>11, <1>2 DEF OneReference
  <2> QED
    BY ZenonT(30), <2>3, <2>4, <2>5, <1>2 DEF OneReference
<1> QED
  BY <1>8, <1>9, <1>10, <1>12, <1>13, <1>14 DEF Inv

\* A program waits: for a child of its own, which it waits for no more, or the
\* wait is not orderly.
LEMMA WaitpidStep ==
  ASSUME Inv, NEW t \in Users, NEW i \in 0 .. MAX_PROC, sys_waitpid(t, i)
  PROVE  Inv'
<1> DEFINE p == processTable[i]
<1>1. /\ th[t].pc = "user" /\ th' = [th EXCEPT ![t] = At("wait", p)]
      /\ children' = [children EXCEPT ![t] = @ \ {p}]
      /\ orderly' = (orderly /\ p \in children[t])
      /\ UNCHANGED <<processTable, last_i, proc>>
  BY DEF sys_waitpid, On
<1>2. Types /\ PidsAgree /\ Lives /\ Works /\ OneDestroyer /\ OneReference
  BY InvFacts
<1>3. proc_search_pid(i) = "found"
  BY DEF sys_waitpid
<1>4. i \in Pids /\ p # NULL /\ p # kproc
  BY <1>3, ProcAssumption DEF proc_search_pid, Pids
<1>5. p \in Procs /\ p \in Users /\ proc[p] # NULL /\ t \in Procs /\ t # kproc
  BY <1>2, <1>4 DEF Types, Users, PidsAgree, Exists
<1> HIDE DEF p
<1>6. /\ At("wait", p) \in [pc : PCs, on : Procs \cup {NULL}]
      /\ At("wait", p).pc = "wait" /\ At("wait", p).on = p
  BY <1>5, AtFacts DEF PCs
<1>7. /\ th'[t].pc = "wait" /\ th'[t].on = p /\ \A u \in Procs : u # t => th'[u] = th[u]
      /\ children'[t] = children[t] \ {p}
      /\ \A u \in Procs : u # t => children'[u] = children[u]
  BY <1>1, <1>2, <1>5, <1>6 DEF Types
<1>8. Types'
  <2>1. children' \in [Procs -> SUBSET Users]
    BY <1>1, <1>2, <1>5 DEF Types
  <2>2. orderly' \in BOOLEAN
    BY <1>1
  <2> QED
    BY <1>1, <1>2, <1>5, <1>6, <2>1, <2>2 DEF Types
<1>9. PidsAgree'
  BY Zenon, <1>1, <1>2 DEF PidsAgree, Exists
<1>10. Lives'
  <2>1. th'[t].pc \in Counted /\ th[t].pc \in Counted /\ th[t].pc \notin Gone /\ th'[t].pc \notin Gone
    BY Zenon, <1>1, <1>7 DEF Counted, Gone
  <2> QED
    BY Zenon, <1>1, <1>2, <1>5, <1>7, <2>1 DEF Lives, Exists
<1>11. Works'
  <2> SUFFICES ASSUME NEW u \in Procs, th'[u].pc \in Working
               PROVE  LET q == th'[u].on
                      IN  /\ q \in Users /\ proc'[q] # NULL
                          /\ th'[u].pc # "wait" => proc'[q].p_sem = 0 /\ th'[q].pc \in Gone
                          /\ th'[u].pc = "forking" => th'[q].pc = "none"
    BY Zenon DEF Works, Exists
  <2>1. CASE u = t
    BY ZenonT(30), <2>1, <1>1, <1>5, <1>7
  <2>2. CASE u # t
    <3> DEFINE q == th[u].on
    <3>1. th'[u] = th[u]
      BY ZenonT(30), <2>2, <1>7
    <3>2. /\ q \in Users /\ q \in Procs /\ proc[q] # NULL
          /\ th[u].pc # "wait" => proc[q].p_sem = 0 /\ th[q].pc \in Gone
          /\ th[u].pc = "forking" => th[q].pc = "none"
      BY <3>1, <1>2 DEF Works, Exists, Users
    <3>3. th[q].pc \in Gone => q # t
      BY <1>1 DEF Gone
    <3>4. th[q].pc = "none" => q # t
      BY <1>1
    <3> QED
      BY <3>1, <3>2, <3>3, <3>4, <1>1, <1>7
  <2> QED
    BY Zenon, <2>1, <2>2
<1>12. OneDestroyer'
  <2>1. \A u \in Procs : th'[u].pc \in {"forking", "destroy"} => th'[u] = th[u]
    BY ZenonT(30), <1>7
  <2> QED
    BY <1>2, <2>1 DEF OneDestroyer
<1>13. OneReference'
  <2> SUFFICES ASSUME orderly, p \in children[t]
               PROVE  \A u \in Procs, q \in Users :
                        /\ Refers(u, q)' => Exists(q)' /\ \A v \in Procs : Refers(v, q)' => v = u
                        /\ q \in children'[u] => ~(th'[u].pc \in Working /\ th'[u].on = q)
    BY Zenon, <1>1 DEF OneReference
  <2>1. \A u \in Procs, q \in Users : Refers(u, q)' => Refers(u, q)
    <3> SUFFICES ASSUME NEW u \in Procs, NEW q \in Users, Refers(u, q)'
                 PROVE  Refers(u, q)
      OBVIOUS
    <3>1. q \in children'[u] \/ (th'[u].pc \in Working /\ th'[u].on = q)
      BY DEF Refers
    <3>2. CASE u = t
      BY <3>1, <3>2, <1>7 DEF Refers
    <3>3. CASE u # t
      BY <3>1, <3>3, <1>7 DEF Refers
    <3> QED
      BY <3>2, <3>3
  <2>2. \A q \in Users : Exists(q) => Exists(q)'
    BY <1>1 DEF Exists
  <2>3. \A u \in Procs, q \in Users :
          q \in children'[u] => ~(th'[u].pc \in Working /\ th'[u].on = q)
    BY <1>2, <1>7 DEF OneReference
  <2> QED
    BY <2>1, <2>2, <2>3, <1>2 DEF OneReference
<1> QED
  BY <1>8, <1>9, <1>10, <1>11, <1>12, <1>13 DEF Inv

\* A wait ends once p_sem has been signalled, which takes the signal away: no
\* second thread can get past its wait for the same process.
LEMMA ProcWaitStep == ASSUME Inv, NEW t \in Procs, proc_wait(t) PROVE Inv'
<1> DEFINE p == th[t].on
           r == [proc[p] EXCEPT !.p_sem = 0]
<1>1. /\ th[t].pc = "wait" /\ proc[p].p_sem > 0 /\ th' = [th EXCEPT ![t].pc = "destroy"]
      /\ UNCHANGED <<processTable, last_i, children, orderly>>
  BY DEF proc_wait, On
<1>2. /\ p \in Procs /\ p \in Users /\ p # kproc /\ proc[p] \in Struct /\ proc[p] # NULL
  BY <1>1, WorkFacts DEF Working
<1>3. Types /\ PidsAgree /\ Lives /\ Works /\ OneDestroyer /\ OneReference
  BY InvFacts
<1>4. proc[p].p_sem = 1
  BY <1>1, <1>2, StructFacts
<1>5. proc' = [proc EXCEPT ![p] = r]
  <2>1. proc' = [proc EXCEPT ![p].p_sem = @ - 1]
    BY DEF proc_wait
  <2> QED
    BY <2>1, <1>4
<1>6. /\ r \in Struct /\ r # NULL /\ r.p_pid = proc[p].p_pid /\ r.p_sem = 0
      /\ r.p_numthreads = proc[p].p_numthreads
  BY Zenon, <1>2, FieldFacts, StructFacts
<1>7. th[p].pc \in Gone
  BY <1>2, <1>3, <1>4 DEF Lives, Exists
<1>8. p # t
  BY <1>1, <1>7 DEF Gone
<1> HIDE DEF r
<1>9. /\ th'[t].pc = "destroy" /\ th'[t].on = p /\ \A u \in Procs : u # t => th'[u] = th[u]
      /\ proc'[p] = r /\ \A u \in Procs : u # p => proc'[u] = proc[u]
      /\ th' \in [Procs -> [pc : PCs, on : Procs \cup {NULL}]]
  BY <1>1, <1>2, <1>3, <1>5 DEF Types, PCs
<1>10. \A u \in Procs : u # t /\ th[u].pc \in {"forking", "destroy"} => th[u].on # p
  BY <1>3, <1>4 DEF Works, Working
<1> HIDE DEF p
<1>11. Types'
  BY <1>1, <1>2, <1>3, <1>5, <1>6, <1>9 DEF Types
<1>12. \A q \in Procs : /\ proc'[q] # NULL <=> proc[q] # NULL
                        /\ proc[q] # NULL => /\ proc'[q].p_pid = proc[q].p_pid
                                             /\ proc'[q].p_numthreads = proc[q].p_numthreads
  BY <1>2, <1>6, <1>9
<1>13. PidsAgree'
  BY <1>1, <1>3, <1>12 DEF PidsAgree, Exists
<1>14. Lives'
  <2>1. /\ th'[t].pc \in Counted /\ th[t].pc \in Counted
        /\ th[t].pc \notin Gone /\ th'[t].pc \notin Gone
    BY Zenon, <1>1, <1>9 DEF Counted, Gone
  <2> QED
    BY <1>2, <1>3, <1>6, <1>8, <1>9, <1>12, <2>1 DEF Lives, Exists
<1>15. Works'
  <2> SUFFICES ASSUME NEW u \in Procs, th'[u].pc \in Working
               PROVE  LET q == th'[u].on
                      IN  /\ q \in Users /\ proc'[q] # NULL
                          /\ th'[u].pc # "wait" => proc'[q].p_sem = 0 /\ th'[q].pc \in Gone
                          /\ th'[u].pc = "forking" => th'[q].pc = "none"
    BY DEF Works, Exists
  <2>1. CASE u = t
    BY Zenon, <2>1, <1>2, <1>6, <1>7, <1>8, <1>9
  <2>2. CASE u # t
    <3> DEFINE q == th[u].on
    <3>1. th'[u] = th[u]
      BY Zenon, <2>2, <1>9
    <3>2. /\ q \in Users /\ q \in Procs /\ proc[q] # NULL
          /\ th[u].pc # "wait" => proc[q].p_sem = 0 /\ th[q].pc \in Gone
          /\ th[u].pc = "forking" => th[q].pc = "none"
      BY <3>1, <1>3 DEF Works, Exists, Users
    <3>3. th[q].pc \in Gone => q # t
      BY <1>1 DEF Gone
    <3>4. th[u].pc # "wait" => q # p
      BY <2>2, <3>1, <1>10 DEF Working
    <3>5. th[u].pc = "forking" => th[q].pc \in Gone
      BY <3>2 DEF Gone
    <3> QED
      BY ZenonT(30), <3>1, <3>2, <3>3, <3>4, <3>5, <1>9, <1>12
  <2> QED
    BY <2>1, <2>2
<1>16. OneDestroyer'
  <2>1. \A u \in Procs : u # t /\ th'[u].pc \in {"forking", "destroy"} => th'[u] = th[u] /\ th[u].on # p
    BY <1>9, <1>10
  <2> QED
    BY <1>3, <1>9, <2>1 DEF OneDestroyer
<1>17. OneReference'
  <2>1. \A u \in Procs : /\ th'[u].on = th[u].on
                         /\ th'[u].pc \in Working <=> th[u].pc \in Working
    BY <1>1, <1>9 DEF Working, p
  <2>2. \A u \in Procs, q \in Users : Refers(u, q)' <=> Refers(u, q)
    BY <1>1, <2>1 DEF Refers
  <2>3. \A q \in Users : Exists(q)' <=> Exists(q)
    BY <1>12 DEF Exists, Users
  <2> QED
    BY <1>1, <1>3, <2>1, <2>2, <2>3 DEF OneReference
<1> QED
  BY <1>11, <1>13, <1>14, <1>15, <1>16, <1>17 DEF Inv

-----------------------------------------------------------------------------

\* Every step keeps the invariant.
LEMMA NextInv == Inv /\ [Next]_vars => Inv'
<1> SUFFICES ASSUME Inv, [Next]_vars PROVE Inv'
  OBVIOUS
<1>1. ASSUME NEW t \in Procs, NEW p \in Users, proc_create_runprogram(t, p) PROVE Inv'
  BY <1>1, CreateStep
<1>2. ASSUME NEW t \in Procs, table_full(t) PROVE Inv'
  BY Zenon, <1>2, PanicStep DEF table_full, Panics
<1>3. ASSUME NEW t \in Procs, thread_fork(t) PROVE Inv'
  BY <1>3, ForkStep
<1>4. ASSUME NEW t \in Procs, fork_fails(t) PROVE Inv'
  BY Zenon, <1>4, DestroyStep DEF fork_fails, On
<1>5. ASSUME NEW t \in Procs, destroy_panics(t) PROVE Inv'
  BY Zenon, <1>5, PanicStep DEF destroy_panics, Panics
<1>6. ASSUME NEW t \in Procs, runprogram(t) PROVE Inv'
  BY <1>6, RunprogramStep
<1>7. ASSUME NEW t \in Procs, runprogram_fails(t) PROVE Inv'
  BY <1>7, RunprogramFailsStep
<1>8. ASSUME NEW t \in Procs, proc_signal_end(t) PROVE Inv'
  BY <1>8, SignalEndStep
<1>9. ASSUME NEW t \in Procs, thread_exit(t) PROVE Inv'
  BY <1>9, ThreadExitStep
<1>10. ASSUME NEW t \in Procs, proc_wait(t) PROVE Inv'
  BY <1>10, ProcWaitStep
<1>11. ASSUME NEW t \in Procs, proc_destroy(t) PROVE Inv'
  BY Zenon, <1>11, DestroyStep DEF proc_destroy, On
<1>12. ASSUME NEW t \in Users, NEW s \in Statuses, sys__exit(t, s) PROVE Inv'
  BY <1>12, ExitStep DEF Users
<1>13. ASSUME NEW t \in Users, NEW i \in 0 .. MAX_PROC, sys_waitpid(t, i) PROVE Inv'
  BY <1>13, WaitpidStep
<1>14. ASSUME NEW t \in Users, NEW i \in 0 .. MAX_PROC, sys_waitpid_panics(t, i) PROVE Inv'
  BY <1>14, PanicStep DEF sys_waitpid_panics, Panics
<1>15. ASSUME UNCHANGED vars PROVE Inv'
  BY <1>15, PanicStep DEF vars
<1> QED
  BY <1>1, <1>2, <1>3, <1>4, <1>5, <1>6, <1>7, <1>8, <1>9, <1>10, <1>11, <1>12, <1>13,
     <1>14, <1>15 DEF Next, kernelStep, idle, halted

\* The invariant holds in every reachable state.
LEMMA ProcInvariant == Spec => []Inv
  BY InitInv, NextInv, PTL DEF Spec

\* The pid table and the process structures agree in every reachable state,
\* whatever creations, failed forks, waits and destructions interleave: no pid
\* is shared, no structure is lost and no entry dangles.
THEOREM PidTable == Spec => []PidsMatch
<1>1. Inv => PidsMatch
  <2> SUFFICES ASSUME Inv PROVE PidsMatch
    OBVIOUS
  <2>1. \A p \in Procs : Exists(p) => proc[p] \in Struct
    BY InvFacts DEF Exists
  <2> QED
    BY <2>1, StructFacts, InvFacts DEF PidsMatch, TypeOK, Types, PidsAgree
<1> QED
  BY <1>1, ProcInvariant, PTL

\* As long as programs wait once and for their own children, whoever gets to
\* proc_destroy has the only reference to a process without threads: its
\* assertions hold.
THEOREM DestroyerAlone == Spec => []OnlyReference
<1>1. Inv => OnlyReference
  <2> SUFFICES ASSUME Inv, orderly, NEW t \in Procs, th[t].pc \in {"forking", "destroy"}
               PROVE  /\ Exists(th[t].on) /\ proc[th[t].on].p_numthreads = 0
                      /\ Waiters(th[t].on) \subseteq {t}
    BY DEF OnlyReference
  <2> DEFINE p == th[t].on
  <2>1. p \in Users /\ proc[p] # NULL /\ proc[p].p_numthreads = 0
    BY WorkFacts DEF Working
  <2>2. \A u \in Procs : u \in Waiters(p) => Refers(u, p)
    BY DEF Waiters, Refers, Working
  <2>3. Refers(t, p)
    BY DEF Refers, Working
  <2>4. \A u \in Procs : Refers(u, p) => u = t
    BY <2>1, <2>3, InvFacts DEF OneReference
  <2>5. \A u \in Waiters(p) : u = t
    BY <2>2, <2>4 DEF Waiters
  <2> QED
    BY <2>1, <2>5 DEF Exists
<1> QED
  BY <1>1, ProcInvariant, PTL

=============================================================================

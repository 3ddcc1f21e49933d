------------------------------ MODULE Monitor -------------------------------
(***************************************************************************)
(* What a lock with a condition variable promises: one thread holds the    *)
(* lock; cv_wait gives it up and joins the waiting threads in one step;    *)
(* cv_signal lets one waiting thread go, if there is one, and cv_broadcast *)
(* all of them; only the holder does any of this.                          *)
(***************************************************************************)
CONSTANTS Threads, NULL

VARIABLES
  holder,        \* the thread that has the lock, or NULL
  waiting        \* the threads that wait for the condition

Init == holder = NULL /\ waiting = {}

Acquire(t) ==
  /\ holder = NULL /\ t \notin waiting
  /\ holder' = t
  /\ UNCHANGED waiting

Release(t) ==
  /\ holder = t
  /\ holder' = NULL
  /\ UNCHANGED waiting

Wait(t) ==
  /\ holder = t
  /\ holder' = NULL
  /\ waiting' = waiting \cup {t}

Signal ==
  /\ holder # NULL
  /\ \E t \in waiting : waiting' = waiting \ {t}
  /\ UNCHANGED holder

Broadcast ==
  /\ holder # NULL
  /\ waiting' = {}
  /\ UNCHANGED holder

Next ==
  \/ \E t \in Threads : Acquire(t) \/ Release(t) \/ Wait(t)
  \/ Signal \/ Broadcast

Spec == Init /\ [][Next]_<<holder, waiting>>
=============================================================================

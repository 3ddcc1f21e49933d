--------------------------- MODULE CoremapProofs ----------------------------
(***************************************************************************)
(* The coremap keeps its types and agrees with its callers, whatever the   *)
(* number of frames, address spaces and allocations.                       *)
(*                                                                         *)
(* Each operation of the coremap is first described by its effect on the   *)
(* entries (the lemmas); OwnersMatch is inductive together with TypeOK.    *)
(***************************************************************************)
EXTENDS CoremapClients, TLAPS

\* set_coreentry sets the flags and the owner, and keeps the length.
LEMMA SetCoreentry ==
  ASSUME NEW e \in c_entry, NEW r \in BOOLEAN, NEW as \in AddrSpaces \cup {NULL}
  PROVE  /\ set_coreentry(e, r, as) \in c_entry
         /\ set_coreentry(e, r, as).flags = IF r THEN 3 ELSE 2
         /\ set_coreentry(e, r, as).as = IF r THEN NULL ELSE as
         /\ set_coreentry(e, r, as).allocpages = e.allocpages
<1>1. CASE r
  BY Zenon, <1>1 DEF set_coreentry, c_entry
<1>2. CASE ~r
  BY Zenon, <1>2 DEF set_coreentry, c_entry
<1> QED
  BY Zenon, <1>1, <1>2

\* getPage takes a free frame and changes no other entry.
LEMMA GetPageEffect ==
  ASSUME CoremapTypeOK,
         NEW r \in BOOLEAN, NEW as \in AddrSpaces \cup {NULL}, NEW i \in Frames,
         getPage(r, as, i)
  PROVE  /\ coremap' \in [Frames -> c_entry]
         /\ coremap[i].flags = 0
         /\ coremap'[i].flags = IF r THEN 3 ELSE 2
         /\ coremap'[i].as = IF r THEN NULL ELSE as
         /\ coremap'[i].allocpages = 1
         /\ \A j \in Frames : j # i => coremap'[j] = coremap[j]
<1> DEFINE d == set_coreentry(coremap[i], r, as)
           e == [d EXCEPT !.allocpages = 1]
<1>1. coremap[i] \in c_entry
  BY DEF CoremapTypeOK
<1>2. coremap[i].flags = 0
  BY <1>1 DEF getPage, Available, CUSED, CRES, c_entry
<1>0. d \in c_entry
  BY Zenon, <1>1, SetCoreentry
<1>3. /\ d.flags = IF r THEN 3 ELSE 2
      /\ d.as = IF r THEN NULL ELSE as
  BY Zenon, <1>1, SetCoreentry
<1>4. /\ e \in c_entry
      /\ e.flags = d.flags
      /\ e.as = d.as
      /\ e.allocpages = 1
  <2> HIDE DEF d
  <2> QED
    BY <1>0, CoremapAssumption DEF c_entry
<1>5. coremap' = [coremap EXCEPT ![i] = e]
  BY DEF getPage
<1> HIDE DEF e, d
<1> QED
  BY Zenon, <1>2, <1>3, <1>4, <1>5 DEF CoremapTypeOK

\* getMultiplePages takes a run of free frames and records its length at the
\* first of them.
LEMMA GetMultiplePagesEffect ==
  ASSUME CoremapTypeOK,
         NEW n \in Nat \ {0},
         NEW r \in BOOLEAN, NEW as \in AddrSpaces \cup {NULL}, NEW f \in Frames,
         getMultiplePages(n, r, as, f)
  PROVE  /\ coremap' \in [Frames -> c_entry]
         /\ f + n - 1 \in Frames
         /\ \A j \in f .. f + n - 1 :
              /\ j \in Frames
              /\ coremap[j].flags = 0
              /\ coremap'[j].flags = IF r THEN 3 ELSE 2
              /\ coremap'[j].as = IF r THEN NULL ELSE as
         /\ coremap'[f].allocpages = n
         /\ \A j \in Frames : j \notin f .. f + n - 1 => coremap'[j] = coremap[j]
<1> DEFINE R == f .. f + n - 1
           b(i) == [coremap[i] EXCEPT !.allocpages = IF i = f THEN n ELSE @]
           e(i) == set_coreentry(b(i), r, as)
<1>1. f + n - 1 \in Frames /\ n \in 0 .. coremapSize /\ f \in R
  BY CoremapAssumption DEF getMultiplePages, Fits, Frames
<1>2. \A j \in R : j \in Frames
  BY <1>1, CoremapAssumption DEF Frames
<1>3. \A j \in R : coremap[j] \in c_entry /\ coremap[j].flags = 0
  BY <1>2 DEF CoremapTypeOK, getMultiplePages, Fits, Available, CUSED, CRES, c_entry
<1>4. \A j \in R : /\ b(j) \in c_entry
                   /\ b(f).allocpages = n
  BY <1>1, <1>3 DEF c_entry
<1>5. \A j \in R : /\ e(j) \in c_entry
                   /\ e(j).flags = IF r THEN 3 ELSE 2
                   /\ e(j).as = IF r THEN NULL ELSE as
                   /\ e(j).allocpages = b(j).allocpages
  <2> SUFFICES ASSUME NEW j \in R
               PROVE  /\ e(j) \in c_entry
                      /\ e(j).flags = IF r THEN 3 ELSE 2
                      /\ e(j).as = IF r THEN NULL ELSE as
                      /\ e(j).allocpages = b(j).allocpages
    BY Zenon
  <2>1. b(j) \in c_entry
    BY <1>4
  <2> HIDE DEF b
  <2> QED
    BY ZenonT(30), <2>1, SetCoreentry
<1>6. coremap' = [i \in Frames |-> IF i \notin R THEN coremap[i] ELSE e(i)]
  BY DEF getMultiplePages
<1> HIDE DEF b, e, R
<1>7. \A j \in R : coremap'[j] = e(j)
  BY <1>2, <1>6
<1>8. \A j \in Frames : j \notin R => coremap'[j] = coremap[j]
  BY <1>6
<1>9. coremap' \in [Frames -> c_entry]
  BY Zenon, <1>5, <1>6 DEF CoremapTypeOK
<1>10. coremap'[f].allocpages = n
  BY Zenon, <1>1, <1>4, <1>5, <1>7
<1> QED
  <2>1. \A j \in R : /\ coremap'[j].flags = IF r THEN 3 ELSE 2
                     /\ coremap'[j].as = IF r THEN NULL ELSE as
    BY Zenon, <1>5, <1>7
  <2> QED
    BY Zenon, <1>1, <1>2, <1>3, <1>8, <1>9, <1>10, <2>1 DEF R

\* freepages empties the run recorded at the frame it is given, and leaves the
\* flags, owner and length of every entry outside that run alone.
LEMMA FreepagesEffect ==
  ASSUME CoremapTypeOK, NEW i \in Frames, coremap[i].allocpages > 0, freepages(i)
  PROVE  LET R == i .. i + coremap[i].allocpages - 1
         IN  /\ coremap' \in [Frames -> c_entry]
             /\ \A j \in Frames \cap R : coremap'[j].flags = 0 /\ coremap'[j].as = NULL
             /\ \A j \in Frames : j \notin R => coremap'[j] = coremap[j]
<1> DEFINE R == i .. i + coremap[i].allocpages - 1
           e(j) == IF j = i THEN [coremap[j] EXCEPT !.allocpages = 0] ELSE coremap[j]
<1>1. \A j \in Frames : coremap[j] \in c_entry
  BY DEF CoremapTypeOK
<1>2. \A j \in Frames : e(j) \in c_entry
  BY <1>1, CoremapAssumption DEF c_entry
<1>3. \A j \in Frames : /\ set_empty(e(j)) \in c_entry
                        /\ set_empty(e(j)).flags = 0
                        /\ set_empty(e(j)).as = NULL
  BY Zenon, <1>2 DEF set_empty, c_entry
<1>4. i \in R
  BY <1>1, CoremapAssumption DEF Frames, c_entry
<1>5. \A j \in Frames : j \notin R => e(j) = coremap[j]
  BY <1>4
<1>6. coremap' = [j \in Frames |-> IF j \in R THEN set_empty(e(j)) ELSE e(j)]
  BY DEF freepages
<1> HIDE DEF e
<1> QED
  BY <1>2, <1>3, <1>5, <1>6

\* Whatever frame it is given, freepages keeps the types.
LEMMA FreepagesTypes ==
  ASSUME CoremapTypeOK, NEW i \in Frames, freepages(i)
  PROVE  CoremapTypeOK'
<1> DEFINE e(j) == IF j = i THEN [coremap[j] EXCEPT !.allocpages = 0] ELSE coremap[j]
<1>1. \A j \in Frames : e(j) \in c_entry
  BY CoremapAssumption DEF CoremapTypeOK, c_entry
<1>2. \A j \in Frames : set_empty(e(j)) \in c_entry
  BY Zenon, <1>1 DEF set_empty, c_entry
<1>3. coremap' = [j \in Frames |-> IF j \in i .. i + coremap[i].allocpages - 1
                                   THEN set_empty(e(j)) ELSE e(j)]
  BY DEF freepages
<1> HIDE DEF e
<1>4. coremap' \in [Frames -> c_entry]
  BY <1>1, <1>2, <1>3
<1> QED
  BY <1>4 DEF CoremapTypeOK, freepages

\* freeAs empties the entries that carry as, and no other.
LEMMA FreeAsEffect ==
  ASSUME CoremapTypeOK, NEW as \in AddrSpaces, freeAs(as)
  PROVE  /\ coremap' \in [Frames -> c_entry]
         /\ \A j \in Frames : coremap[j].as = as =>
              coremap'[j].flags = 0 /\ coremap'[j].as = NULL
         /\ \A j \in Frames : coremap[j].as # as => coremap'[j] = coremap[j]
<1>1. \A j \in Frames : /\ set_empty(coremap[j]) \in c_entry
                        /\ set_empty(coremap[j]).flags = 0
                        /\ set_empty(coremap[j]).as = NULL
  BY Zenon DEF CoremapTypeOK, set_empty, c_entry
<1> QED
  BY Zenon, <1>1 DEF CoremapTypeOK, freeAs

-----------------------------------------------------------------------------

\* What getPage and getMultiplePages have in common: the allocation a takes
\* frames that were free and marks them with flags fl.
Takes(a, fl) ==
  /\ a \in Alloc /\ a.n > 0
  /\ a.first + a.n - 1 \in Frames
  /\ coremap' \in [Frames -> c_entry]
  /\ \A j \in FramesOf(a) : /\ j \in Frames
                            /\ coremap[j].flags = 0
                            /\ coremap'[j].flags = fl
                            /\ coremap'[j].as = NULL
  /\ coremap'[a.first].allocpages = a.n
  /\ \A j \in Frames : j \notin FramesOf(a) => coremap'[j] = coremap[j]

\* alloc_kpages and ptAlloc allocate in that way, whatever npages is.
LEMMA AllocTakes ==
  ASSUME CoremapTypeOK,
         NEW n \in Nat \ {0}, NEW r \in BOOLEAN, NEW i \in Frames,
         IF n > 1 THEN getMultiplePages(n, r, NULL, i) ELSE getPage(r, NULL, i)
  PROVE  Takes([first |-> i, n |-> n], IF r THEN 3 ELSE 2)
<1> DEFINE a == [first |-> i, n |-> n]
<1>1. CASE n > 1
  <2>1. getMultiplePages(n, r, NULL, i)
    BY <1>1
  <2>2. i + n - 1 \in Frames
    BY <2>1, GetMultiplePagesEffect
  <2>3. a \in Alloc
    BY <2>2, CoremapAssumption DEF Alloc, Frames
  <2> QED
    BY <2>1, <2>2, <2>3, GetMultiplePagesEffect DEF Takes, FramesOf
<1>2. CASE n = 1
  <2>1. getPage(r, NULL, i)
    BY <1>2
  <2>2. a \in Alloc /\ FramesOf(a) = {i}
    BY <1>2, CoremapAssumption DEF Alloc, FramesOf, Frames
  <2> QED
    BY <1>2, <2>1, <2>2, GetPageEffect, CoremapAssumption DEF Takes, Frames
<1> QED
  BY <1>1, <1>2

\* An allocation that has frames is not empty.
LEMMA FramesOfAlloc ==
  ASSUME NEW a \in Alloc, NEW j \in FramesOf(a)
  PROVE  a.n > 0
BY CoremapAssumption DEF FramesOf, Alloc, Frames

\* A free frame belongs to nobody.
LEMMA FreeFrameUnowned ==
  ASSUME TypeOK, OwnersMatch, ~coremap_lock, NEW j \in Frames, coremap[j].flags = 0
  PROVE  /\ \A h \in Handles : j \notin FramesOf(kmem[h])
         /\ \A as \in AddrSpaces : j \notin FramesOf(ptmem[as]) /\ j \notin upages[as]
<1>1. \A h \in Handles : kmem[h] \in Alloc
  BY DEF TypeOK
<1>2. \A as \in AddrSpaces : ptmem[as] \in Alloc
  BY Zenon DEF TypeOK
<1>3. \A h \in Handles : j \in FramesOf(kmem[h]) => kmem[h].n > 0
  BY <1>1, FramesOfAlloc
<1>4. \A as \in AddrSpaces : j \in FramesOf(ptmem[as]) => ptmem[as].n > 0
  BY Zenon, <1>2, FramesOfAlloc
<1> QED
  BY <1>3, <1>4 DEF OwnersMatch, Recorded

-----------------------------------------------------------------------------

\* Every step keeps the types.
LEMMA TypeStep == TypeOK /\ [Next]_vars => TypeOK'
<1> SUFFICES ASSUME TypeOK, [Next]_vars
             PROVE  TypeOK'
  OBVIOUS
<1> USE CoremapAssumption
<1>a. CoremapTypeOK
  BY DEF TypeOK
<1>b. NoAlloc \in Alloc
  BY DEF NoAlloc, Alloc, Frames
<1>c. ASSUME NEW i \in Frames, getPage_full(i)
      PROVE  CoremapTypeOK' /\ [first |-> i, n |-> 1] \in Alloc
  BY <1>a, <1>c DEF getPage_full, CoremapTypeOK, Alloc, Frames
<1>d. ASSUME NEW a, NEW fl, Takes(a, fl), UNCHANGED <<next_svic, coremap_lock>>
      PROVE  CoremapTypeOK' /\ a \in Alloc
  BY <1>a, <1>d DEF Takes, CoremapTypeOK
<1>e. ASSUME NEW n \in 1 .. MaxRun, NEW r \in BOOLEAN, NEW i \in Frames,
             IF n > 1 THEN getMultiplePages(n, r, NULL, i)
             ELSE getPage(r, NULL, i) \/ getPage_full(i)
      PROVE  CoremapTypeOK' /\ [first |-> i, n |-> n] \in Alloc
  <2>0. n \in Nat \ {0}
    BY ClientsAssumption
  <2>1. CASE n = 1 /\ getPage_full(i)
    BY <2>1, <1>c
  <2>2. CASE IF n > 1 THEN getMultiplePages(n, r, NULL, i) ELSE getPage(r, NULL, i)
    <3>1. Takes([first |-> i, n |-> n], IF r THEN 3 ELSE 2)
      BY <1>a, <2>0, <2>2, AllocTakes
    <3>2. UNCHANGED <<next_svic, coremap_lock>>
      BY <2>2 DEF getMultiplePages, getPage
    <3> QED
      BY <3>1, <3>2, <1>d
  <2> QED
    BY <1>e, <2>0, <2>1, <2>2
<1>1. ASSUME NEW h \in Handles, NEW n \in 1 .. MaxRun, alloc_kpages(h, n)
      PROVE  TypeOK'
  <2>1. CASE Stop
    BY <2>1 DEF TypeOK, Stop, CoremapTypeOK
  <2>2. ASSUME NEW i \in Frames,
               IF n > 1 THEN getMultiplePages(n, FALSE, NULL, i)
               ELSE getPage(FALSE, NULL, i) \/ getPage_full(i),
               kmem' = [kmem EXCEPT ![h] = [first |-> i, n |-> n]],
               UNCHANGED <<ptmem, upages, stopped>>
        PROVE  TypeOK'
    <3>1. CoremapTypeOK' /\ [first |-> i, n |-> n] \in Alloc
      BY Zenon, <2>2, <1>e
    <3> QED
      BY <2>2, <3>1 DEF TypeOK
  <2> QED
    BY Zenon, <1>1, <2>1, <2>2 DEF alloc_kpages
<1>2. ASSUME NEW h \in Handles, free_kpages(h)
      PROVE  TypeOK'
  <2>1. kmem[h] \in Alloc /\ kmem[h].first \in Frames
    BY DEF TypeOK, Alloc
  <2>2. freepages(kmem[h].first)
    BY <1>2 DEF free_kpages
  <2>3. CoremapTypeOK'
    BY <1>a, <2>1, <2>2, FreepagesTypes
  <2> QED
    BY <1>2, <2>3, <1>b DEF TypeOK, free_kpages
<1>3. ASSUME NEW as \in AddrSpaces, NEW n \in 1 .. MaxRun, ptAlloc(as, n)
      PROVE  TypeOK'
  <2>1. CASE Stop
    BY <2>1 DEF TypeOK, Stop, CoremapTypeOK
  <2>2. ASSUME NEW i \in Frames,
               IF n > 1 THEN getMultiplePages(n, TRUE, NULL, i)
               ELSE getPage(TRUE, NULL, i) \/ getPage_full(i),
               ptmem' = [ptmem EXCEPT ![as] = [first |-> i, n |-> n]],
               UNCHANGED <<kmem, upages, stopped>>
        PROVE  TypeOK'
    <3>1. CoremapTypeOK' /\ [first |-> i, n |-> n] \in Alloc
      BY Zenon, <2>2, <1>e
    <3> QED
      BY Zenon, <2>2, <3>1 DEF TypeOK
  <2> QED
    BY Zenon, <1>3, <2>1, <2>2 DEF ptAlloc
<1>4. ASSUME NEW as \in AddrSpaces, userPage(as)
      PROVE  TypeOK'
  <2>1. CASE Stop
    BY <2>1 DEF TypeOK, Stop, CoremapTypeOK
  <2>2. ASSUME NEW i \in Frames, getPage(FALSE, as, i),
               upages' = [upages EXCEPT ![as] = @ \cup {i}],
               UNCHANGED <<kmem, ptmem, stopped>>
        PROVE  TypeOK'
    <3>1. coremap' \in [Frames -> c_entry]
      BY Zenon, <1>a, <2>2, GetPageEffect
    <3>2. UNCHANGED <<next_svic, coremap_lock>>
      BY <2>2 DEF getPage
    <3> QED
      BY Zenon, <2>2, <3>1, <3>2 DEF TypeOK, CoremapTypeOK
  <2>3. ASSUME NEW i \in Frames, swapvictim(as, i),
               UNCHANGED <<kmem, ptmem, upages, stopped>>
        PROVE  TypeOK'
    <3>1. (i + 1) % coremapSize \in Frames
      BY DEF Frames
    <3> QED
      BY <2>3, <3>1 DEF TypeOK, CoremapTypeOK, swapvictim
  <2> QED
    BY Zenon, <1>4, <2>1, <2>2, <2>3 DEF userPage
<1>5. ASSUME NEW as \in AddrSpaces, as_destroy_pt(as)
      PROVE  TypeOK'
  <2>1. ptmem[as] \in Alloc /\ ptmem[as].first \in Frames
    BY Zenon DEF TypeOK, Alloc
  <2>2. freepages(ptmem[as].first)
    BY <1>5 DEF as_destroy_pt
  <2>3. CoremapTypeOK'
    BY Zenon, <1>a, <2>1, <2>2, FreepagesTypes
  <2> QED
    BY Zenon, <1>5, <2>3, <1>b DEF TypeOK, as_destroy_pt
<1>6. ASSUME NEW as \in AddrSpaces, as_destroy_pages(as)
      PROVE  TypeOK'
  <2>1. freeAs(as)
    BY <1>6 DEF as_destroy_pages
  <2>2. CoremapTypeOK'
    BY Zenon, <1>a, <2>1, FreeAsEffect DEF freeAs, CoremapTypeOK
  <2> QED
    BY Zenon, <1>6, <2>2 DEF TypeOK, as_destroy_pages
<1>7. CASE spinlockDeadlock
  BY <1>7 DEF TypeOK, spinlockDeadlock, Stop, CoremapTypeOK
<1>8. CASE UNCHANGED vars
  BY <1>8 DEF TypeOK, vars, CoremapTypeOK
<1> QED
  BY <1>1, <1>2, <1>3, <1>4, <1>5, <1>6, <1>7, <1>8 DEF Next, halted

\* TypeOK is an invariant of the coremap and its callers: every entry keeps
\* its type and swapvictim's index stays a frame number.
THEOREM CoremapTypes == Spec => []TypeOK
<1>1. Init => TypeOK
  <2> SUFFICES ASSUME Init
               PROVE  TypeOK
    OBVIOUS
  <2> USE CoremapAssumption
  <2>1. [flags |-> 0, as |-> NULL, allocpages |-> 0] \in c_entry
    BY DEF c_entry
  <2>2. CoremapTypeOK
    <3>1. coremap \in [Frames -> c_entry]
      BY <2>1 DEF Init, coremap_init
    <3>2. next_svic \in Frames
      BY DEF Init, coremap_init, Frames
    <3> QED
      BY Zenon, <3>1, <3>2 DEF Init, coremap_init, CoremapTypeOK
  <2>3. NoAlloc \in Alloc
    BY DEF NoAlloc, Alloc, Frames
  <2> QED
    BY Zenon, <2>2, <2>3 DEF Init, TypeOK
<1> QED
  BY <1>1, TypeStep, PTL DEF Spec

-----------------------------------------------------------------------------

\* A step that keeps the entries of an allocation keeps it recorded.
LEMMA RecordedKept ==
  ASSUME NEW c, NEW d, NEW a \in Alloc, NEW f, Recorded(c, a, f),
         \A j \in FramesOf(a) : d[j] = c[j]
  PROVE  Recorded(d, a, f)
<1> SUFFICES ASSUME a.n > 0
             PROVE  /\ a.first + a.n - 1 \in Frames
                    /\ d[a.first].allocpages = a.n
                    /\ \A i \in FramesOf(a) : d[i].flags = f /\ d[i].as = NULL
  BY DEF Recorded
<1>1. a.first \in FramesOf(a)
  BY CoremapAssumption DEF Alloc, Frames, FramesOf
<1> QED
  BY <1>1 DEF Recorded

\* The frames of a recorded allocation are marked.
LEMMA RecordedFrames ==
  ASSUME NEW a \in Alloc, NEW f \in {2, 3}, Recorded(coremap, a, f), NEW j \in FramesOf(a)
  PROVE  j \in Frames /\ coremap[j].flags = f /\ coremap[j].as = NULL
<1>1. a.n > 0
  BY FramesOfAlloc
<1>2. a.first + a.n - 1 \in Frames
  BY <1>1 DEF Recorded
<1>3. j \in Frames
  BY <1>2, CoremapAssumption DEF Alloc, Frames, FramesOf
<1> QED
  BY <1>1, <1>3 DEF Recorded

\* alloc_kpages: free frames become an allocation of the kernel's.
LEMMA KernelAllocation ==
  ASSUME TypeOK, OwnersMatch, ~coremap_lock,
         NEW h \in Handles, kmem[h].n = 0,
         NEW a, Takes(a, 2),
         kmem' = [kmem EXCEPT ![h] = a], UNCHANGED <<ptmem, upages>>
  PROVE  OwnersMatch'
<1>0. /\ \A g \in Handles : kmem[g] \in Alloc /\ kmem'[g] = IF g = h THEN a ELSE kmem[g]
      /\ \A as \in AddrSpaces : ptmem[as] \in Alloc /\ ptmem'[as] = ptmem[as]
      /\ \A as \in AddrSpaces : upages[as] \subseteq Frames /\ upages'[as] = upages[as]
  BY DEF TypeOK
<1>1. \A j \in FramesOf(a) :
        /\ \A g \in Handles : j \notin FramesOf(kmem[g])
        /\ \A as \in AddrSpaces : j \notin FramesOf(ptmem[as]) /\ j \notin upages[as]
  BY FreeFrameUnowned DEF Takes
<1>2. \A j \in Frames : j \notin FramesOf(a) => coremap'[j] = coremap[j]
  BY DEF Takes
<1>3. ASSUME NEW g \in Handles, g # h
      PROVE  Recorded(coremap', kmem'[g], 2)
  <2>1. Recorded(coremap, kmem[g], 2)
    BY DEF OwnersMatch
  <2>2. \A j \in FramesOf(kmem[g]) : coremap'[j] = coremap[j]
    BY <1>0, <1>1, <1>2, <2>1, RecordedFrames
  <2>3. kmem'[g] = kmem[g] /\ kmem[g] \in Alloc
    BY <1>0, <1>3
  <2> QED
    BY <2>1, <2>2, <2>3, RecordedKept
<1>4. Recorded(coremap', kmem'[h], 2)
  BY <1>0 DEF Takes, Recorded, FramesOf, Frames
<1>5. ASSUME NEW as \in AddrSpaces
      PROVE  Recorded(coremap', ptmem'[as], 3)
  <2>1. Recorded(coremap, ptmem[as], 3)
    BY Zenon DEF OwnersMatch
  <2>2. \A j \in FramesOf(ptmem[as]) : coremap'[j] = coremap[j]
    BY Zenon, <1>0, <1>1, <1>2, <2>1, RecordedFrames
  <2>3. ptmem'[as] = ptmem[as] /\ ptmem[as] \in Alloc
    BY Zenon, <1>0
  <2> QED
    BY ZenonT(30), <2>1, <2>2, <2>3, RecordedKept
<1>6. \A h1, h2 \in Handles : h1 # h2 => Disjoint(kmem[h1], kmem[h2])'
  BY <1>0, <1>1 DEF OwnersMatch, Disjoint, FramesOf
<1>7. \A a1, a2 \in AddrSpaces : a1 # a2 => Disjoint(ptmem[a1], ptmem[a2])'
  BY <1>0 DEF OwnersMatch, Disjoint, FramesOf
<1>8. ASSUME NEW as \in AddrSpaces, NEW i \in upages'[as]
      PROVE  coremap'[i].flags = 2 /\ coremap'[i].as = as
  <2>1. i \in upages[as] /\ i \in Frames
    BY Zenon, <1>0, <1>8
  <2>2. coremap'[i] = coremap[i]
    BY Zenon, <1>1, <1>2, <2>1
  <2> QED
    BY ZenonT(30), <2>1, <2>2 DEF OwnersMatch
<1>9. ASSUME NEW i \in Frames, coremap'[i].flags # 0
      PROVE  \/ \E g \in Handles : i \in FramesOf(kmem'[g])
             \/ \E as \in AddrSpaces : i \in FramesOf(ptmem'[as]) \cup upages'[as]
  <2>1. CASE i \in FramesOf(a)
    BY <1>0, <2>1
  <2>2. CASE i \notin FramesOf(a)
    <3>1. i \notin FramesOf(kmem[h])
      BY <1>0, FramesOfAlloc
    <3> QED
      BY <1>0, <1>2, <1>9, <2>2, <3>1 DEF OwnersMatch
  <2> QED
    BY <2>1, <2>2
<1> QED
  BY <1>3, <1>4, <1>5, <1>6, <1>7, <1>8, <1>9 DEF OwnersMatch, FramesOf, Frames

\* ptAlloc: free frames become a page table.
LEMMA PageTableAllocation ==
  ASSUME TypeOK, OwnersMatch, ~coremap_lock,
         NEW o \in AddrSpaces, ptmem[o].n = 0,
         NEW a, Takes(a, 3),
         ptmem' = [ptmem EXCEPT ![o] = a], UNCHANGED <<kmem, upages>>
  PROVE  OwnersMatch'
<1>0. /\ \A g \in Handles : kmem[g] \in Alloc /\ kmem'[g] = kmem[g]
      /\ \A as \in AddrSpaces : /\ ptmem[as] \in Alloc
                                /\ ptmem'[as] = IF as = o THEN a ELSE ptmem[as]
      /\ \A as \in AddrSpaces : upages[as] \subseteq Frames /\ upages'[as] = upages[as]
  BY DEF TypeOK
<1>1. \A j \in FramesOf(a) :
        /\ \A g \in Handles : j \notin FramesOf(kmem[g])
        /\ \A as \in AddrSpaces : j \notin FramesOf(ptmem[as]) /\ j \notin upages[as]
  BY FreeFrameUnowned DEF Takes
<1>2. \A j \in Frames : j \notin FramesOf(a) => coremap'[j] = coremap[j]
  BY DEF Takes
<1>3. ASSUME NEW g \in Handles
      PROVE  Recorded(coremap', kmem'[g], 2)
  <2>1. Recorded(coremap, kmem[g], 2)
    BY DEF OwnersMatch
  <2>2. \A j \in FramesOf(kmem[g]) : coremap'[j] = coremap[j]
    BY <1>0, <1>1, <1>2, <2>1, RecordedFrames
  <2>3. kmem'[g] = kmem[g] /\ kmem[g] \in Alloc
    BY <1>0
  <2> QED
    BY ZenonT(30), <2>1, <2>2, <2>3, RecordedKept
<1>4. Recorded(coremap', ptmem'[o], 3)
  BY <1>0 DEF Takes, Recorded, FramesOf, Frames
<1>5. ASSUME NEW as \in AddrSpaces, as # o
      PROVE  Recorded(coremap', ptmem'[as], 3)
  <2>1. Recorded(coremap, ptmem[as], 3)
    BY Zenon DEF OwnersMatch
  <2>2. \A j \in FramesOf(ptmem[as]) : coremap'[j] = coremap[j]
    BY Zenon, <1>0, <1>1, <1>2, <2>1, RecordedFrames
  <2>3. ptmem'[as] = ptmem[as] /\ ptmem[as] \in Alloc
    BY Zenon, <1>0, <1>5
  <2> QED
    BY ZenonT(30), <2>1, <2>2, <2>3, RecordedKept
<1>6. \A h1, h2 \in Handles : h1 # h2 => Disjoint(kmem[h1], kmem[h2])'
  BY <1>0 DEF OwnersMatch, Disjoint, FramesOf
<1>7. \A a1, a2 \in AddrSpaces : a1 # a2 => Disjoint(ptmem[a1], ptmem[a2])'
  BY <1>0, <1>1 DEF OwnersMatch, Disjoint, FramesOf
<1>8. ASSUME NEW as \in AddrSpaces, NEW i \in upages'[as]
      PROVE  coremap'[i].flags = 2 /\ coremap'[i].as = as
  <2>1. i \in upages[as] /\ i \in Frames
    BY Zenon, <1>0, <1>8
  <2>2. coremap'[i] = coremap[i]
    BY Zenon, <1>1, <1>2, <2>1
  <2> QED
    BY ZenonT(30), <2>1, <2>2 DEF OwnersMatch
<1>9. ASSUME NEW i \in Frames, coremap'[i].flags # 0
      PROVE  \/ \E g \in Handles : i \in FramesOf(kmem'[g])
             \/ \E as \in AddrSpaces : i \in FramesOf(ptmem'[as]) \cup upages'[as]
  <2>1. CASE i \in FramesOf(a)
    BY <1>0, <2>1
  <2>2. CASE i \notin FramesOf(a)
    <3>1. i \notin FramesOf(ptmem[o])
      BY <1>0, FramesOfAlloc
    <3> QED
      BY <1>0, <1>2, <1>9, <2>2, <3>1 DEF OwnersMatch
  <2> QED
    BY <2>1, <2>2
<1> QED
  BY <1>3, <1>4, <1>5, <1>6, <1>7, <1>8, <1>9 DEF OwnersMatch, FramesOf, Frames

\* An allocation that is recorded is the run freepages empties, so freepages
\* frees its frames and touches no other.
LEMMA FreesAllocation ==
  ASSUME CoremapTypeOK, NEW a \in Alloc, NEW f \in {2, 3}, Recorded(coremap, a, f), a.n > 0,
         freepages(a.first)
  PROVE  /\ \A j \in FramesOf(a) : coremap'[j].flags = 0
         /\ \A j \in Frames : j \notin FramesOf(a) => coremap'[j] = coremap[j]
<1>1. a.first \in Frames /\ coremap[a.first].allocpages = a.n
  BY DEF Alloc, Recorded
<1>2. FramesOf(a) = a.first .. a.first + coremap[a.first].allocpages - 1
  BY <1>1 DEF FramesOf
<1>3. \A j \in FramesOf(a) : j \in Frames
  BY RecordedFrames
<1>4. coremap[a.first].allocpages > 0
  BY <1>1
<1> QED
  BY <1>1, <1>2, <1>3, <1>4, FreepagesEffect

\* free_kpages: the frames of one allocation of the kernel's become free.
LEMMA KernelFree ==
  ASSUME TypeOK, OwnersMatch, ~coremap_lock,
         NEW h \in Handles, kmem[h].n > 0, freepages(kmem[h].first),
         kmem' = [kmem EXCEPT ![h] = NoAlloc], UNCHANGED <<ptmem, upages>>
  PROVE  OwnersMatch'
<1> DEFINE a == kmem[h]
<1>0. /\ \A g \in Handles : kmem[g] \in Alloc /\ kmem'[g] = IF g = h THEN NoAlloc ELSE kmem[g]
      /\ \A as \in AddrSpaces : ptmem[as] \in Alloc /\ ptmem'[as] = ptmem[as]
      /\ \A as \in AddrSpaces : upages[as] \subseteq Frames /\ upages'[as] = upages[as]
  BY DEF TypeOK
<1>R. /\ \A g \in Handles : Recorded(coremap, kmem[g], 2)
      /\ \A as \in AddrSpaces : Recorded(coremap, ptmem[as], 3)
  BY DEF OwnersMatch
<1>2. /\ \A j \in FramesOf(a) : coremap'[j].flags = 0
      /\ \A j \in Frames : j \notin FramesOf(a) => coremap'[j] = coremap[j]
  BY <1>0, <1>R, FreesAllocation DEF TypeOK
<1>M. \A j \in FramesOf(a) : coremap[j].flags = 2 /\ coremap[j].as = NULL
  BY <1>0, <1>R, RecordedFrames
<1>N. FramesOf(NoAlloc) = {} /\ NoAlloc.n = 0
  BY DEF FramesOf, NoAlloc
<1> HIDE DEF a
<1>3. ASSUME NEW g \in Handles, g # h
      PROVE  Recorded(coremap', kmem'[g], 2)
  <2>1. Disjoint(kmem[g], a)
    BY <1>3 DEF OwnersMatch, a
  <2>2. \A j \in FramesOf(kmem[g]) : coremap'[j] = coremap[j]
    BY <1>0, <1>R, <1>2, <2>1, RecordedFrames DEF Disjoint
  <2>3. kmem'[g] = kmem[g] /\ kmem[g] \in Alloc
    BY <1>0, <1>3
  <2> QED
    BY <1>R, <2>2, <2>3, RecordedKept
<1>4. Recorded(coremap', kmem'[h], 2)
  BY <1>0, <1>N DEF Recorded
<1>5. ASSUME NEW as \in AddrSpaces
      PROVE  Recorded(coremap', ptmem'[as], 3)
  <2>1. \A j \in FramesOf(ptmem[as]) : j \in Frames /\ coremap[j].flags = 3
    BY ZenonT(30), <1>0, <1>R, RecordedFrames
  <2>2. ASSUME NEW j \in FramesOf(ptmem[as]), j \in FramesOf(a)
        PROVE  FALSE
    <3>1. coremap[j].flags = 2
      BY <1>M, <2>2
    <3>2. coremap[j].flags = 3
      BY Zenon, <2>1
    <3> QED
      BY <3>1, <3>2
  <2>3. \A j \in FramesOf(ptmem[as]) : coremap'[j] = coremap[j]
    BY Zenon, <1>2, <2>1, <2>2
  <2>4. ptmem'[as] = ptmem[as] /\ ptmem[as] \in Alloc
    BY Zenon, <1>0
  <2> QED
    BY Zenon, <1>R, <2>3, <2>4, RecordedKept
<1>6. \A h1, h2 \in Handles : h1 # h2 => Disjoint(kmem[h1], kmem[h2])'
  BY <1>0, <1>N DEF OwnersMatch, Disjoint, FramesOf
<1>7. \A a1, a2 \in AddrSpaces : a1 # a2 => Disjoint(ptmem[a1], ptmem[a2])'
  BY <1>0 DEF OwnersMatch, Disjoint, FramesOf
<1>8. ASSUME NEW as \in AddrSpaces, NEW i \in upages'[as]
      PROVE  coremap'[i].flags = 2 /\ coremap'[i].as = as
  <2>1. i \in upages[as] /\ i \in Frames
    BY Zenon, <1>0, <1>8
  <2>2. coremap[i].flags = 2 /\ coremap[i].as = as
    BY Zenon, <2>1 DEF OwnersMatch
  <2>3. i \notin FramesOf(a)
    BY Zenon, <1>M, <2>2, CoremapAssumption
  <2> QED
    BY Zenon, <1>2, <2>1, <2>2, <2>3
<1>9. ASSUME NEW i \in Frames, coremap'[i].flags # 0
      PROVE  \/ \E g \in Handles : i \in FramesOf(kmem'[g])
             \/ \E as \in AddrSpaces : i \in FramesOf(ptmem'[as]) \cup upages'[as]
  <2>1. i \notin FramesOf(a)
    BY <1>2, <1>9
  <2>2. coremap[i].flags # 0
    BY ZenonT(30), <1>2, <1>9, <2>1
  <2> QED
    BY <1>0, <2>1, <2>2 DEF OwnersMatch, a
<1> QED
  BY <1>3, <1>4, <1>5, <1>6, <1>7, <1>8, <1>9 DEF OwnersMatch, FramesOf, Frames

\* as_destroy, first half: the frames of one page table become free.
LEMMA PageTableFree ==
  ASSUME TypeOK, OwnersMatch, ~coremap_lock,
         NEW o \in AddrSpaces, ptmem[o].n > 0, freepages(ptmem[o].first),
         ptmem' = [ptmem EXCEPT ![o] = NoAlloc], UNCHANGED <<kmem, upages>>
  PROVE  OwnersMatch'
<1> DEFINE a == ptmem[o]
<1>0. /\ \A g \in Handles : kmem[g] \in Alloc /\ kmem'[g] = kmem[g]
      /\ \A as \in AddrSpaces : /\ ptmem[as] \in Alloc
                                /\ ptmem'[as] = IF as = o THEN NoAlloc ELSE ptmem[as]
      /\ \A as \in AddrSpaces : upages[as] \subseteq Frames /\ upages'[as] = upages[as]
  BY DEF TypeOK
<1>R. /\ \A g \in Handles : Recorded(coremap, kmem[g], 2)
      /\ \A as \in AddrSpaces : Recorded(coremap, ptmem[as], 3)
  BY DEF OwnersMatch
<1>2. /\ \A j \in FramesOf(a) : coremap'[j].flags = 0
      /\ \A j \in Frames : j \notin FramesOf(a) => coremap'[j] = coremap[j]
  BY <1>0, <1>R, FreesAllocation DEF TypeOK
<1>M. \A j \in FramesOf(a) : coremap[j].flags = 3
  BY <1>0, <1>R, RecordedFrames
<1>N. FramesOf(NoAlloc) = {} /\ NoAlloc.n = 0
  BY DEF FramesOf, NoAlloc
<1> HIDE DEF a
<1>3. ASSUME NEW g \in Handles
      PROVE  Recorded(coremap', kmem'[g], 2)
  <2>1. \A j \in FramesOf(kmem[g]) : j \in Frames /\ coremap[j].flags = 2
    BY <1>0, <1>R, RecordedFrames
  <2>2. ASSUME NEW j \in FramesOf(kmem[g]), j \in FramesOf(a)
        PROVE  FALSE
    <3>1. coremap[j].flags = 3
      BY <1>M, <2>2
    <3>2. coremap[j].flags = 2
      BY <2>1
    <3> QED
      BY <3>1, <3>2
  <2>3. \A j \in FramesOf(kmem[g]) : coremap'[j] = coremap[j]
    BY <1>2, <2>1, <2>2
  <2>4. kmem'[g] = kmem[g] /\ kmem[g] \in Alloc
    BY <1>0
  <2> QED
    BY <1>R, <2>3, <2>4, RecordedKept
<1>4. Recorded(coremap', ptmem'[o], 3)
  BY <1>0, <1>N DEF Recorded
<1>5. ASSUME NEW as \in AddrSpaces, as # o
      PROVE  Recorded(coremap', ptmem'[as], 3)
  <2>1. Disjoint(ptmem[as], a)
    BY Zenon, <1>5 DEF OwnersMatch, a
  <2>2. \A j \in FramesOf(ptmem[as]) : coremap'[j] = coremap[j]
    BY Zenon, <1>0, <1>R, <1>2, <2>1, RecordedFrames DEF Disjoint
  <2>3. ptmem'[as] = ptmem[as] /\ ptmem[as] \in Alloc
    BY Zenon, <1>0, <1>5
  <2> QED
    BY ZenonT(30), <1>R, <2>2, <2>3, RecordedKept
<1>6. \A h1, h2 \in Handles : h1 # h2 => Disjoint(kmem[h1], kmem[h2])'
  BY <1>0 DEF OwnersMatch, Disjoint, FramesOf
<1>7. \A a1, a2 \in AddrSpaces : a1 # a2 => Disjoint(ptmem[a1], ptmem[a2])'
  BY <1>0, <1>N DEF OwnersMatch, Disjoint, FramesOf
<1>8. ASSUME NEW as \in AddrSpaces, NEW i \in upages'[as]
      PROVE  coremap'[i].flags = 2 /\ coremap'[i].as = as
  <2>1. i \in upages[as] /\ i \in Frames
    BY Zenon, <1>0, <1>8
  <2>2. coremap[i].flags = 2 /\ coremap[i].as = as
    BY Zenon, <2>1 DEF OwnersMatch
  <2>3. i \notin FramesOf(a)
    BY <1>M, <2>2
  <2> QED
    BY Zenon, <1>2, <2>1, <2>2, <2>3
<1>9. ASSUME NEW i \in Frames, coremap'[i].flags # 0
      PROVE  \/ \E g \in Handles : i \in FramesOf(kmem'[g])
             \/ \E as \in AddrSpaces : i \in FramesOf(ptmem'[as]) \cup upages'[as]
  <2>1. i \notin FramesOf(a)
    BY <1>2, <1>9
  <2>2. coremap[i].flags # 0
    BY <1>2, <1>9, <2>1
  <2> QED
    BY <1>0, <2>1, <2>2 DEF OwnersMatch, a
<1> QED
  BY <1>3, <1>4, <1>5, <1>6, <1>7, <1>8, <1>9 DEF OwnersMatch, FramesOf, Frames

\* A step on user pages, which are neither the kernel's nor a page table's,
\* keeps every allocation recorded.
LEMMA AllocationsKept ==
  ASSUME TypeOK, OwnersMatch, ~coremap_lock, UNCHANGED <<kmem, ptmem>>,
         NEW S, \A j \in Frames : j \notin S => coremap'[j] = coremap[j],
         \A j \in S : coremap[j].flags = 0 \/ coremap[j].as # NULL
  PROVE  /\ \A g \in Handles : Recorded(coremap', kmem'[g], 2)
         /\ \A as \in AddrSpaces : Recorded(coremap', ptmem'[as], 3)
<1>1. ASSUME NEW a \in Alloc, NEW f \in {2, 3}, Recorded(coremap, a, f)
      PROVE  Recorded(coremap', a, f)
  <2>1. \A j \in FramesOf(a) : j \in Frames /\ coremap[j].flags = f /\ coremap[j].as = NULL
    BY <1>1, RecordedFrames
  <2>2. \A j \in FramesOf(a) : coremap'[j] = coremap[j]
    BY <1>1, <2>1
  <2> QED
    BY <1>1, <2>2, RecordedKept
<1>2. ASSUME NEW g \in Handles
      PROVE  Recorded(coremap', kmem'[g], 2)
  <2>1. Recorded(coremap, kmem[g], 2) /\ kmem[g] \in Alloc
    BY DEF OwnersMatch, TypeOK
  <2> QED
    BY <1>1, <2>1
<1>3. ASSUME NEW as \in AddrSpaces
      PROVE  Recorded(coremap', ptmem'[as], 3)
  <2>1. Recorded(coremap, ptmem[as], 3) /\ ptmem[as] \in Alloc
    BY Zenon DEF OwnersMatch, TypeOK
  <2> QED
    BY Zenon, <1>1, <2>1
<1> QED
  BY <1>2, <1>3

\* vm_fault, as_copy: a free frame becomes a user page.
LEMMA UserPageTaken ==
  ASSUME TypeOK, OwnersMatch, ~coremap_lock,
         NEW o \in AddrSpaces, NEW k \in Frames, getPage(FALSE, o, k),
         upages' = [upages EXCEPT ![o] = @ \cup {k}], UNCHANGED <<kmem, ptmem>>
  PROVE  OwnersMatch'
<1>1. /\ coremap[k].flags = 0
      /\ coremap'[k].flags = 2 /\ coremap'[k].as = o
      /\ \A j \in Frames : j # k => coremap'[j] = coremap[j]
  BY ZenonT(30), GetPageEffect DEF TypeOK
<1>2. /\ \A g \in Handles : Recorded(coremap', kmem'[g], 2)
      /\ \A as \in AddrSpaces : Recorded(coremap', ptmem'[as], 3)
  <2> DEFINE S == {k}
  <2>1. /\ \A j \in Frames : j \notin S => coremap'[j] = coremap[j]
        /\ \A j \in S : coremap[j].flags = 0 \/ coremap[j].as # NULL
    BY <1>1
  <2> HIDE DEF S
  <2> QED
    BY <2>1, AllocationsKept
<1>3. /\ \A h1, h2 \in Handles : h1 # h2 => Disjoint(kmem[h1], kmem[h2])'
      /\ \A a1, a2 \in AddrSpaces : a1 # a2 => Disjoint(ptmem[a1], ptmem[a2])'
  BY DEF OwnersMatch, Disjoint, FramesOf
<1>4. ASSUME NEW as \in AddrSpaces, NEW i \in upages'[as]
      PROVE  coremap'[i].flags = 2 /\ coremap'[i].as = as
  <2>1. \A b \in AddrSpaces : k \notin upages[b]
    BY <1>1, FreeFrameUnowned
  <2>2. CASE i = k
    <3>1. as = o
      BY Zenon, <1>4, <2>1, <2>2 DEF TypeOK
    <3> QED
      BY <1>1, <2>2, <3>1
  <2>3. CASE i # k
    <3>1. i \in upages[as] /\ i \in Frames
      BY Zenon, <1>4, <2>3 DEF TypeOK
    <3>2. coremap'[i] = coremap[i]
      BY <1>1, <2>3, <3>1
    <3> QED
      BY ZenonT(30), <3>1, <3>2 DEF OwnersMatch
  <2> QED
    BY Zenon, <2>2, <2>3
<1>5. ASSUME NEW i \in Frames, coremap'[i].flags # 0
      PROVE  \/ \E g \in Handles : i \in FramesOf(kmem'[g])
             \/ \E as \in AddrSpaces : i \in FramesOf(ptmem'[as]) \cup upages'[as]
  <2>1. upages'[o] = upages[o] \cup {k} /\ \A b \in AddrSpaces : upages[b] \subseteq upages'[b]
    BY DEF TypeOK
  <2>2. CASE i = k
    BY <2>1, <2>2
  <2>3. CASE i # k
    BY <1>1, <1>5, <2>1, <2>3 DEF OwnersMatch
  <2> QED
    BY <2>2, <2>3
<1> QED
  BY <1>2, <1>3, <1>4, <1>5 DEF OwnersMatch, FramesOf, Frames

\* as_destroy, second half: freeAs frees exactly the user pages of as.
LEMMA UserPagesFreed ==
  ASSUME TypeOK, OwnersMatch, ~coremap_lock,
         NEW o \in AddrSpaces, freeAs(o),
         upages' = [upages EXCEPT ![o] = {}], UNCHANGED <<kmem, ptmem>>
  PROVE  OwnersMatch'
<1> DEFINE S == {j \in Frames : coremap[j].as = o}
<1>1. /\ \A j \in S : coremap'[j].flags = 0
      /\ \A j \in Frames : j \notin S => coremap'[j] = coremap[j]
  BY FreeAsEffect DEF TypeOK
<1>2. /\ \A g \in Handles : Recorded(coremap', kmem'[g], 2)
      /\ \A as \in AddrSpaces : Recorded(coremap', ptmem'[as], 3)
  <2>1. \A j \in S : coremap[j].flags = 0 \/ coremap[j].as # NULL
    BY CoremapAssumption
  <2> HIDE DEF S
  <2> QED
    BY <1>1, <2>1, AllocationsKept
<1>3. /\ \A h1, h2 \in Handles : h1 # h2 => Disjoint(kmem[h1], kmem[h2])'
      /\ \A a1, a2 \in AddrSpaces : a1 # a2 => Disjoint(ptmem[a1], ptmem[a2])'
  BY DEF OwnersMatch, Disjoint, FramesOf
<1>4. ASSUME NEW as \in AddrSpaces, NEW i \in upages'[as]
      PROVE  coremap'[i].flags = 2 /\ coremap'[i].as = as
  <2>1. as # o /\ i \in upages[as] /\ i \in Frames
    BY Zenon, <1>4 DEF TypeOK
  <2>2. coremap[i].flags = 2 /\ coremap[i].as = as
    BY Zenon, <2>1 DEF OwnersMatch
  <2> QED
    BY Zenon, <1>1, <2>1, <2>2
<1>5. ASSUME NEW i \in Frames, coremap'[i].flags # 0
      PROVE  \/ \E g \in Handles : i \in FramesOf(kmem'[g])
             \/ \E as \in AddrSpaces : i \in FramesOf(ptmem'[as]) \cup upages'[as]
  <2>1. i \notin S /\ coremap[i].flags # 0
    BY <1>1, <1>5
  <2>2. i \notin upages[o]
    BY <2>1 DEF OwnersMatch
  <2>3. \A b \in AddrSpaces : b # o => upages'[b] = upages[b]
    BY DEF TypeOK
  <2> HIDE DEF S
  <2> QED
    BY <2>1, <2>2, <2>3 DEF OwnersMatch
<1> QED
  BY <1>2, <1>3, <1>4, <1>5 DEF OwnersMatch, FramesOf, Frames

-----------------------------------------------------------------------------

\* OwnersMatch is inductive together with TypeOK.  The actions that leave the
\* spinlock held make it hold trivially; the others were treated above.
LEMMA OwnersStep == TypeOK /\ OwnersMatch /\ [Next]_vars => OwnersMatch'
<1> SUFFICES ASSUME TypeOK, OwnersMatch, [Next]_vars
             PROVE  OwnersMatch'
  BY Zenon
<1>s. ASSUME UNCHANGED <<coremap, coremap_lock, kmem, ptmem, upages>>
      PROVE  OwnersMatch'
  BY <1>s DEF OwnersMatch, Recorded, Disjoint, FramesOf
<1>f. ASSUME NEW i \in Frames, getPage_full(i)
      PROVE  OwnersMatch'
  BY <1>f DEF getPage_full, OwnersMatch
<1>1. ASSUME NEW h \in Handles, NEW n \in 1 .. MaxRun, alloc_kpages(h, n)
      PROVE  OwnersMatch'
  <2>1. CASE Stop
    BY <1>s, <2>1 DEF Stop
  <2>2. ASSUME NEW i \in Frames,
               IF n > 1 THEN getMultiplePages(n, FALSE, NULL, i)
               ELSE getPage(FALSE, NULL, i) \/ getPage_full(i),
               kmem' = [kmem EXCEPT ![h] = [first |-> i, n |-> n]],
               UNCHANGED <<ptmem, upages, stopped>>
        PROVE  OwnersMatch'
    <3>0. n \in Nat \ {0}
      BY ClientsAssumption
    <3>1. CASE getPage_full(i)
      BY <3>1, <1>f
    <3>2. CASE IF n > 1 THEN getMultiplePages(n, FALSE, NULL, i) ELSE getPage(FALSE, NULL, i)
      <4>1. Takes([first |-> i, n |-> n], 2)
        BY Zenon, <3>0, <3>2, AllocTakes DEF TypeOK
      <4>2. ~coremap_lock
        BY Zenon, <3>2 DEF getMultiplePages, getPage
      <4>3. kmem[h].n = 0
        BY <1>1 DEF alloc_kpages
      <4> QED
        BY Zenon, <2>2, <4>1, <4>2, <4>3, KernelAllocation
    <3> QED
      BY Zenon, <2>2, <3>1, <3>2
  <2> QED
    BY Zenon, <1>1, <2>1, <2>2 DEF alloc_kpages
<1>2. ASSUME NEW h \in Handles, free_kpages(h)
      PROVE  OwnersMatch'
  BY Zenon, <1>2, KernelFree DEF free_kpages, freepages
<1>3. ASSUME NEW as \in AddrSpaces, NEW n \in 1 .. MaxRun, ptAlloc(as, n)
      PROVE  OwnersMatch'
  <2>1. CASE Stop
    BY <1>s, <2>1 DEF Stop
  <2>2. ASSUME NEW i \in Frames,
               IF n > 1 THEN getMultiplePages(n, TRUE, NULL, i)
               ELSE getPage(TRUE, NULL, i) \/ getPage_full(i),
               ptmem' = [ptmem EXCEPT ![as] = [first |-> i, n |-> n]],
               UNCHANGED <<kmem, upages, stopped>>
        PROVE  OwnersMatch'
    <3>0. n \in Nat \ {0}
      BY ClientsAssumption
    <3>1. CASE getPage_full(i)
      BY <3>1, <1>f
    <3>2. CASE IF n > 1 THEN getMultiplePages(n, TRUE, NULL, i) ELSE getPage(TRUE, NULL, i)
      <4>1. Takes([first |-> i, n |-> n], 3)
        BY Zenon, <3>0, <3>2, AllocTakes DEF TypeOK
      <4>2. ~coremap_lock
        BY ZenonT(30), <3>2 DEF getMultiplePages, getPage
      <4>3. ptmem[as].n = 0
        BY <1>3 DEF ptAlloc
      <4> QED
        BY Zenon, <2>2, <4>1, <4>2, <4>3, PageTableAllocation
    <3> QED
      BY Zenon, <2>2, <3>1, <3>2
  <2> QED
    BY Zenon, <1>3, <2>1, <2>2 DEF ptAlloc
<1>4. ASSUME NEW as \in AddrSpaces, userPage(as)
      PROVE  OwnersMatch'
  <2>1. CASE Stop
    BY <1>s, <2>1 DEF Stop
  <2>2. ASSUME NEW i \in Frames, getPage(FALSE, as, i),
               upages' = [upages EXCEPT ![as] = @ \cup {i}],
               UNCHANGED <<kmem, ptmem, stopped>>
        PROVE  OwnersMatch'
    BY Zenon, <2>2, UserPageTaken DEF getPage
  <2>3. ASSUME NEW i \in Frames, swapvictim(as, i),
               UNCHANGED <<kmem, ptmem, upages, stopped>>
        PROVE  OwnersMatch'
    BY <1>s, <2>3 DEF swapvictim
  <2> QED
    BY Zenon, <1>4, <2>1, <2>2, <2>3 DEF userPage
<1>5. ASSUME NEW as \in AddrSpaces, as_destroy_pt(as)
      PROVE  OwnersMatch'
  BY Zenon, <1>5, PageTableFree DEF as_destroy_pt, freepages
<1>6. ASSUME NEW as \in AddrSpaces, as_destroy_pages(as)
      PROVE  OwnersMatch'
  BY Zenon, <1>6, UserPagesFreed DEF as_destroy_pages, freeAs
<1>7. CASE spinlockDeadlock
  BY <1>s, <1>7 DEF spinlockDeadlock, Stop
<1>8. CASE UNCHANGED vars
  BY <1>s, <1>8 DEF vars
<1> QED
  BY <1>1, <1>2, <1>3, <1>4, <1>5, <1>6, <1>7, <1>8 DEF Next, halted

\* For every number of frames, address spaces and allocations: until getPage
\* returns with the spinlock held, no frame is given to two callers, freepages
\* and freeAs give back exactly what was given, and no frame is lost.
THEOREM CoremapOwners == Spec => []OwnersMatch
<1>1. Init => OwnersMatch
  BY CoremapAssumption DEF Init, coremap_init, OwnersMatch, Recorded, Disjoint,
                           FramesOf, NoAlloc
<1> QED
  BY <1>1, CoremapTypes, OwnersStep, PTL DEF Spec

=============================================================================

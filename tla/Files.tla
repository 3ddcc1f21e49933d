------------------------------- MODULE Files --------------------------------
(***************************************************************************)
(* The file system calls of kern/syscall/file_syscalls.c (options file and *)
(* fork), with the dispatch in kern/arch/mips/syscall/syscall.c that turns *)
(* what they return into the registers v0 and a3, and what sys_fork and    *)
(* sys__exit do to open files.                                             *)
(*                                                                         *)
(* No lock protects systemFileTable, the kernel is preemptible and the VFS *)
(* sleeps: a step is one access to the table, or several that no step of   *)
(* another process can come between with effect (the three stores that     *)
(* fill an entry: who finds vn set leaves the entry alone).                *)
(* view is what a program concludes from its calls, v0 and a3.             *)
(***************************************************************************)
EXTENDS Integers, FiniteSets

CONSTANTS
  Procs,              \* processes
  Names,              \* files
  OPEN_MAX,
  STDERR_FILENO,
  SYSTEM_OPEN_MAX,
  MaxOffset,          \* bytes a file is read or written up to
  MaxOpens,           \* times a file may be open at once
  NULL

ASSUME FilesAssumption ==
  /\ STDERR_FILENO \in Nat /\ OPEN_MAX > STDERR_FILENO + 1 /\ SYSTEM_OPEN_MAX > 0
  /\ NULL \notin Names \cup Nat

VARIABLES
  systemFileTable,    \* entries [vn, offset, countRef]
  fileTable,          \* fileTable[p][fd]: index of an entry, or NULL
  opens,              \* opens[f]: vfs_opens less vfs_closes of file f
  pc,                 \* pc[p]: "none", "user", or the call p is in
  call,               \* call[p]: the locals of that call
  view,               \* view[p][fd]: [vn, offset] as p was told, or NULL; kept until p is misled
  misled,             \* processes that lost files in a fork, or were told of bytes for an error
  raced               \* an entry was claimed that was in use

vars == <<systemFileTable, fileTable, opens, pc, call, view, misled, raced>>

Fds == (STDERR_FILENO + 1)..(OPEN_MAX - 1)   \* descriptors sys_open hands out
Entries == 0..(SYSTEM_OPEN_MAX - 1)
NoFiles == [fd \in Fds |-> NULL]
UINT_MAX == 3                                \* countRef is unsigned and wraps

Init ==
  /\ systemFileTable = [i \in Entries |-> [vn |-> NULL, offset |-> 0, countRef |-> 0]]
  /\ fileTable = [p \in Procs |-> NoFiles]
  /\ opens = [f \in Names |-> 0]
  /\ pc = [p \in Procs |-> "none"]
  /\ call = [p \in Procs |-> NULL]
  /\ view = [p \in Procs |-> NoFiles]
  /\ misled = {} /\ raced = FALSE

-----------------------------------------------------------------------------
\* syscall: err is what goes to v0 with a3 = 1; otherwise retval does, with
\* a3 = 0, and then the program learns told.
syscall(p, err, told) ==
  /\ pc' = [pc EXCEPT ![p] = "user"] /\ call' = [call EXCEPT ![p] = NULL]
  /\ view' = IF err = 0 /\ p \notin misled THEN [view EXCEPT ![p] = told] ELSE view

ENOENT == 1
ENFILE == 2
EMFILE == 3
ENOSYS == 4

Mislead(p) == view' = [view EXCEPT ![p] = NoFiles] /\ misled' = misled \cup {p}

-----------------------------------------------------------------------------
\* sys_open: the file is opened,
sys_open(p, f) ==
  /\ pc[p] = "user"
  /\ \/ /\ opens[f] < MaxOpens
        /\ opens' = [opens EXCEPT ![f] = @ + 1]
        /\ pc' = [pc EXCEPT ![p] = "search"]
        /\ call' = [call EXCEPT ![p] = [v |-> f, i |-> 0]]
        /\ UNCHANGED view
     \/ syscall(p, ENOENT, NoFiles) /\ UNCHANGED opens
  /\ UNCHANGED <<systemFileTable, fileTable, misled, raced>>

\* the entries are tested one after the other,
sys_open_search(p) ==
  /\ pc[p] = "search"
  /\ LET i == call[p].i IN
     \/ /\ i = SYSTEM_OPEN_MAX
        /\ opens' = [opens EXCEPT ![call[p].v] = @ - 1]
        /\ syscall(p, ENFILE, NoFiles)
     \/ /\ i # SYSTEM_OPEN_MAX
        /\ IF systemFileTable[i].vn = NULL
           THEN pc' = [pc EXCEPT ![p] = "claim"] /\ UNCHANGED call
           ELSE call' = [call EXCEPT ![p].i = i + 1] /\ UNCHANGED pc
        /\ UNCHANGED <<opens, view>>
  /\ UNCHANGED <<systemFileTable, fileTable, misled, raced>>

\* and the one found empty is filled.  With no descriptor left the file is
\* closed again, and the entry stays as it is.
newEntry_keepsOffset(i, v) == [systemFileTable[i] EXCEPT !.vn = v, !.countRef = 1]

newEntry_noRef(i, v) == [systemFileTable[i] EXCEPT !.vn = v, !.offset = 0]

newEntry(i, v) == [vn |-> v, offset |-> 0, countRef |-> 1]

sys_open_claim(p) ==
  /\ pc[p] = "claim"
  /\ LET i == call[p].i
         v == call[p].v
         free == {fd \in Fds : fileTable[p][fd] = NULL}
     IN  /\ raced' = (raced \/ systemFileTable[i].vn # NULL)
         /\ systemFileTable' = [systemFileTable EXCEPT ![i] = newEntry(i, v)]
         /\ IF free # {}
            THEN LET fd == CHOOSE x \in free : \A y \in free : x <= y
                 IN  /\ fileTable' = [fileTable EXCEPT ![p][fd] = i]
                     /\ syscall(p, 0, [view[p] EXCEPT ![fd] = [vn |-> v, offset |-> 0]])
                     /\ UNCHANGED opens
            ELSE /\ opens' = [opens EXCEPT ![v] = @ - 1]
                 /\ syscall(p, EMFILE, NoFiles)
                 /\ UNCHANGED fileTable
  /\ UNCHANGED misled

-----------------------------------------------------------------------------
\* sys_close: the descriptor is given up,
decr(n) == IF n = 0 THEN UINT_MAX ELSE n - 1

sys_close(p, fd) ==
  /\ pc[p] = "user"
  /\ LET i == fileTable[p][fd] IN
     \/ i = NULL /\ syscall(p, ENOENT, NoFiles) /\ UNCHANGED fileTable
     \/ /\ i # NULL
        /\ fileTable' = [fileTable EXCEPT ![p][fd] = NULL]
        /\ pc' = [pc EXCEPT ![p] = "close"]
        /\ call' = [call EXCEPT ![p] = [fd |-> fd, of |-> i, vn |-> NULL]]
        /\ UNCHANGED view
  /\ UNCHANGED <<systemFileTable, opens, misled, raced>>

Closed(p) == [view[p] EXCEPT ![call[p].fd] = NULL]

\* the entry has one reference less,
sys_close_count(p) ==
  /\ pc[p] = "close"
  /\ LET i == call[p].of
         n == decr(systemFileTable[i].countRef)
     IN  /\ systemFileTable' = [systemFileTable EXCEPT ![i].countRef = n]
         /\ IF n > 0 THEN syscall(p, 0, Closed(p))
            ELSE pc' = [pc EXCEPT ![p] = "last"] /\ UNCHANGED <<call, view>>
  /\ UNCHANGED <<fileTable, opens, misled, raced>>

\* without any it is made empty,
sys_close_last(p) ==
  /\ pc[p] = "last"
  /\ LET i == call[p].of
         vn == systemFileTable[i].vn
     IN  /\ systemFileTable' = [systemFileTable EXCEPT ![i].vn = NULL]
         /\ IF vn = NULL THEN syscall(p, ENOENT, NoFiles)
            ELSE /\ pc' = [pc EXCEPT ![p] = "vfs_close"]
                 /\ call' = [call EXCEPT ![p].vn = vn]
                 /\ UNCHANGED view
  /\ UNCHANGED <<fileTable, opens, misled, raced>>

\* and the file is closed.
vfs_close(p) ==
  /\ pc[p] = "vfs_close"
  /\ opens' = [opens EXCEPT ![call[p].vn] = @ - 1]
  /\ syscall(p, 0, Closed(p))
  /\ UNCHANGED <<systemFileTable, fileTable, misled, raced>>

\* file_read and file_write, from sys_read and sys_write, up to VOP_READ or
\* VOP_WRITE, and from there on.  An error of these is returned as the number it
\* is, greater than 0, which syscall takes for a number of bytes.
file_io(p, fd) ==
  /\ pc[p] = "user"
  /\ LET i == fileTable[p][fd]
         usable == IF i = NULL THEN FALSE ELSE systemFileTable[i].vn # NULL
     IN
     \/ ~usable /\ syscall(p, ENOSYS, NoFiles)
     \/ /\ usable
        /\ pc' = [pc EXCEPT ![p] = "vop"]
        /\ call' = [call EXCEPT ![p] = [fd |-> fd, of |-> i, uio_offset |-> systemFileTable[i].offset]]
        /\ UNCHANGED view
  /\ UNCHANGED <<systemFileTable, fileTable, opens, misled, raced>>

file_io_done(p) ==
  /\ pc[p] = "vop"
  /\ LET c == call[p] IN
     \/ \E n \in 0..(MaxOffset - c.uio_offset) :
          /\ systemFileTable' = [systemFileTable EXCEPT ![c.of].offset = c.uio_offset + n]
          /\ syscall(p, 0, IF view[p][c.fd] = NULL THEN view[p]
                           ELSE [view[p] EXCEPT ![c.fd].offset = @ + n])
          /\ UNCHANGED misled
     \/ /\ Mislead(p)
        /\ pc' = [pc EXCEPT ![p] = "user"] /\ call' = [call EXCEPT ![p] = NULL]
        /\ UNCHANGED systemFileTable
  /\ UNCHANGED <<fileTable, opens, raced>>

-----------------------------------------------------------------------------
\* Processes.

\* proc_create_runprogram, for the menu.
proc_create(p) ==
  /\ pc[p] = "none"
  /\ pc' = [pc EXCEPT ![p] = "user"]
  /\ UNCHANGED <<systemFileTable, fileTable, opens, call, view, misled, raced>>

\* proc_file_table_copy(psrc, pdest).
proc_file_table_copy(psrc, pdest) ==
  LET refs(i) == Cardinality({fd \in Fds : fileTable[psrc][fd] = i})
  IN  /\ fileTable' = [fileTable EXCEPT ![pdest] = fileTable[psrc]]
      /\ systemFileTable' = [i \in Entries |->
           [systemFileTable[i] EXCEPT !.countRef = (@ + refs(i)) % (UINT_MAX + 1)]]

\* sys_fork passes the new process, whose table is empty, as the source.  It
\* may fail afterwards, and then the new process is destroyed.
sys_fork(p, newp) ==
  /\ pc[p] = "user" /\ pc[newp] = "none"
  /\ proc_file_table_copy(newp, p)
  /\ pc' \in {[pc EXCEPT ![newp] = "user"], pc}
  /\ IF fileTable[p] = NoFiles THEN UNCHANGED <<view, misled>> ELSE Mislead(p)
  /\ UNCHANGED <<opens, call, raced>>

\* sys__exit closes nothing.
sys__exit(p) ==
  /\ pc[p] = "user"
  /\ pc' = [pc EXCEPT ![p] = "none"]
  /\ fileTable' = [fileTable EXCEPT ![p] = NoFiles]
  /\ view' = [view EXCEPT ![p] = NoFiles] /\ misled' = misled \ {p}
  /\ UNCHANGED <<systemFileTable, opens, call, raced>>

Next ==
  \E p \in Procs :
    \/ \E f \in Names : sys_open(p, f)
    \/ sys_open_search(p) \/ sys_open_claim(p)
    \/ \E fd \in Fds : sys_close(p, fd) \/ file_io(p, fd)
    \/ sys_close_count(p) \/ sys_close_last(p) \/ vfs_close(p)
    \/ file_io_done(p)
    \/ proc_create(p) \/ sys__exit(p)
    \/ \E newp \in Procs : sys_fork(p, newp)

Spec == Init /\ [][Next]_vars

-----------------------------------------------------------------------------
(* Properties. *)

TypeOK ==
  /\ systemFileTable \in [Entries -> [vn : Names \cup {NULL}, offset : 0..MaxOffset,
                                      countRef : 0..UINT_MAX]]
  /\ fileTable \in [Procs -> [Fds -> Entries \cup {NULL}]]
  /\ opens \in [Names -> Int]
  /\ pc \in [Procs -> {"none", "user", "search", "claim", "close", "last", "vfs_close",
                     "vop"}]
  /\ misled \subseteq Procs /\ raced \in BOOLEAN

\* Unless two calls of sys_open claimed the same entry: an entry that
\* descriptors refer to counts them, with the calls of sys_close that have still
\* to count theirs; its file is open, and it is open once for each such entry,
\* each call about to make one and each about to close it.  So no call closes a
\* file that another still uses, and no entry is filled while a descriptor has
\* it (sys_open, sys_close, sys_fork, sys__exit).
DescriptorsOpen ==
  LET refs(i) == {d \in Procs \X Fds : \/ fileTable[d[1]][d[2]] = i
                                        \/ /\ pc[d[1]] = "close"
                                           /\ call[d[1]].fd = d[2] /\ call[d[1]].of = i}
      used == {i \in Entries : refs(i) # {}}
      closing(f) == {p \in Procs : \/ pc[p] = "last" /\ systemFileTable[call[p].of].vn = f
                                   \/ pc[p] = "vfs_close" /\ call[p].vn = f}
      opening(f) == {p \in Procs : pc[p] \in {"search", "claim"} /\ call[p].v = f}
  IN  /\ TypeOK
      /\ ~raced =>
           /\ \A i \in used : /\ systemFileTable[i].countRef = Cardinality(refs(i))
                              /\ systemFileTable[i].vn # NULL
           /\ \A f \in Names :
                opens[f] >= Cardinality({i \in used : systemFileTable[i].vn = f})
                              + Cardinality(opening(f)) + Cardinality(closing(f))

\* What v0 and a3 tell a program of its files is so: the descriptors it may use
\* are those it was given and did not close, each for the file it opened and at
\* the offset its reads and writes have reached.  Not so for a process that
\* forked with files open or that an error in the file system was reported to,
\* nor after two calls of sys_open claimed the same entry.
ProgramView ==
  \A p \in Procs \ misled : \A fd \in Fds :
    ~raced /\ pc[p] \in {"user", "none"} =>
      view[p][fd] = IF fileTable[p][fd] = NULL THEN NULL
                    ELSE [vn |-> systemFileTable[fileTable[p][fd]].vn,
                          offset |-> systemFileTable[fileTable[p][fd]].offset]
=============================================================================

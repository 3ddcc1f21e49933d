# A TLA+ model of the Paging project for OS/161

The repository adds demand paging with swapping to the OS/161 teaching kernel.
These modules model its memory system, its processes, threads and
synchronisation primitives, its file system calls, and the menu that starts
programs and stops the machine; they are checked with TLC on small instances.
The memory system, the process table and the synchronisation primitives are also
proved correct, with TLAPS, for every size of the machine and every number of
processes. Paths below are relative to `src/os161/os161-base-2.0.2/kern/` unless
they start with `src/`.

The configuration modelled is the shipped one (`conf/PAGING`, `sys161.conf`):
options `paging`, `synch`, `waitpid` and `args` on, options `fork` and `file`
off, one CPU. `fork` is also checked switched on, through the constant
`OPT_FORK`; `Files` models the code of option `file`, and `Cpus` the code for
several CPUs, which the shipped kernel contains but does not use.

## 1. Inventory

| Part | Source | State | Operations |
|---|---|---|---|
| Coremap | `vm/coremap.c` | one `c_entry` per frame, `coremap_lock`, the static index of `swapvictim` | `getPage`, `getMultiplePages`, `swapvictim`, `freepages`, `freeAs`, `ptAlloc` |
| Swap file | `vm/swapfile.c` | bitmap `swapMap`, counter `used`, `swap_lock`, the disk | `swap_out`, `swap_in`, `clear_swap`, `getAvailableSwap`, `close_swapfile` |
| TLB | `vm/vm_tlb.c` | the registers, `tlb_full`, the round robin index | `tlb_loadentry`, `tlb_invalidate`, `tlb_invalidate_vaddr` |
| Address spaces, faults | `vm/addrspace.c`, `include/segment.h` | segment list, page table | `vm_fault`, `as_define_region`, `as_prepare_load`, `as_copy`, `as_destroy`, `as_activate`, `alloc_kpages`, `free_kpages` |
| Page table lookups | `vm/pt.c` | none of its own | `getPageVtoP` and three functions nobody calls |
| Loader | `syscall/loadelf.c`, `syscall/runprogram.c` | none of its own | `load_elf`, `load_elf_ondemand`, `load_segment`, `runprogram` |
| Processes | `proc/proc.c`, `syscall/proc_syscalls.c` | `processTable`, `struct proc` | `proc_create`, `proc_destroy`, `proc_wait`, `proc_signal_end`, `sys__exit`, `sys_waitpid`, `sys_fork` |
| Synchronisation | `thread/synch.c` | semaphore counts, `lk_owner`, wait channels | `P`, `V`, `lock_*`, `cv_*` |
| Threads | `thread/thread.c` | per CPU: run queue, current thread, zombies, pending interrupts | `thread_switch`, `thread_fork`, `thread_exit`, `wchan_*`, `thread_consider_migration`, `ipi_*`, `cpu_hatch`, `thread_shutdown` |
| Menu | `main/menu.c` | none | `menu_execute`, `cmd_dispatch`, `common_prog`, `cmd_progthread`, `cmd_quit` |
| Statistics | `vm/vmstats.c` | counters and their lock | `vm_stats_inc`, `vm_stats_print` |
| File calls | `syscall/file_syscalls.c`, `arch/mips/syscall/syscall.c` | system file table, a file table per process (option `file`) | `sys_open`, `sys_close`, `sys_read`, `sys_write`, `proc_file_table_copy` |
| Boot, shutdown | `main/main.c` | none | `boot`, `sys_reboot`, `shutdown` |

How they interact. A TLB miss enters `vm_fault`. It finds the segment and the
page table entry, asks the coremap for a frame, fills the frame from the
executable, from the swap file or with zeroes, and loads the TLB. When no frame
is free, `getPage` takes one from another page of the *same* process, writes it
to the swap file unless it is read-only, and clears its TLB entry. The swap file
and the disk are used under a sleep lock, so a fault may sleep several times,
and every switch back to a process flushes the TLB. `_exit` wakes the waiter,
whose `proc_destroy` calls `as_destroy`; the kernel stack is freed later, by
whichever thread runs next.

What makes it hard:

- a fault gives up the spinlock, and the CPU, between choosing a victim,
  writing it and reusing its frame;
- three records of one fact must agree: page table, coremap and TLB for frames,
  page table, bitmap and counter for slots;
- `as_destroy` gives memory back in three critical sections while others
  allocate;
- frame lengths are recorded in the first entry of a run only, and survive a
  free;
- the waiter destroys a structure its exiting owner has just used;
- CPUs count, empty and fill each other's run queues under locks they release in
  between, while a CPU may idle in the context of a thread that has been woken;
- statistics are counted inside `thread_switch`, where taking their lock may mean
  another `thread_switch`, and shutdown destroys that lock before it is done;
- the system file table has reference counts, reused entries and no lock;
- the arithmetic at the edges of pages, of the file and of the pid table.

`PROJECT.json` lists these hazards at the lines where they bite.

## 2. Modules

| Module | Models | Extends |
|---|---|---|
| `Coremap` | the operations of `coremap.c` | |
| `CoremapClients` | `Coremap` with its callers, which record what they were given | `Coremap` |
| `CoremapProofs` | theorems about `CoremapClients` | `CoremapClients`, `TLAPS` |
| `Swapfile` | the operations of `swapfile.c` | |
| `SwapClients` | `Swapfile` with threads that own pages | `Swapfile` |
| `Tlb` | the operations of `vm_tlb.c` | |
| `TlbClients` | `Tlb` with page tables and context switches | `Tlb` |
| `Elf` | from program headers to the bytes in memory | |
| `SwapTlbProofs` | theorems about `SwapClients` and `TlbClients` | these, `TLAPS` |
| `PagingState` | the state of the composition | `Coremap`, `Swapfile`, `Tlb` |
| `Paging` | the composition: faults, address spaces, processes, scheduler | `PagingState` |
| `VirtualMemory` | abstract: what paging promises to a program | |
| `PagingInv` | the inductive invariant of `Paging` | `PagingState` |
| `PagingLemmas` | lemmas that several actions need | `Paging`, `PagingInv`, `TLAPS` |
| `PagingFaults` | one lemma per step of a fault, an eviction, `as_copy` | `PagingLemmas` |
| `PagingLife` | one lemma per step of start, fork, switch, exit, `as_destroy` | `PagingLemmas` |
| `PagingProofs` | theorems about `Paging` | `PagingFaults`, `PagingLife` |
| `Proc` | pid table and the wait/exit protocol | |
| `ProcProofs` | theorems about `Proc` | `Proc`, `TLAPS` |
| `Synch` | semaphores, locks, condition variables, the run queue | |
| `Monitor` | abstract: what a lock with a condition variable promises | |
| `SynchProofs` | theorems about `Synch` | `Synch`, `TLAPS` |
| `Cpus` | several CPUs: start-up, run queues, migration, interprocessor interrupts | |
| `VmStats` | the counters, the page faults and context switches that count into them | |
| `Menu` | the composition of menu, programs and their arguments, shutdown, statistics | `VmStats` |
| `Files` | the file system calls, their dispatch, file tables through fork and exit | |
| `MC*` | instances for TLC | one of the above |

The operations of a component are action fragments without callers, so that
`Paging` and the client modules use the same definitions. Operators named
`<operation>_<fault>` (`freepages_firstOnly`, `thread_switch_noFlush`, ...) are
deliberately wrong variants: each is a plausible mistake that some property must
detect when it replaces the operation, and no specification uses them.

### Coremap, CoremapClients

A frame number stands for its physical address. `flags` is what the macros of
`coremap.h` read from the low bits of `vaddr`: 0 free, 2 used, 3 reserved. Each
operation is atomic, as it runs under `coremap_lock` with interrupts off.
`coremap_lock` is TRUE exactly when `getPage` returned without releasing it
(memory full, no address space), after which `spinlockDeadlock` stops the kernel.
`getMultiplePages` takes the lowest run (`Fits`); the loop of the code, with its
moving `first`, is `firstAt` and `scanStops`, and the property `ScanIsFirstFit`
relates the two. The clients are `alloc_kpages`, `free_kpages`, `ptAlloc`,
`userPage` (the `getPages` of `vm_fault` and `as_copy`) and the two halves of
`as_destroy`.

### Swapfile, SwapClients

`swap_out` and `swap_in` sleep in the disk driver with `swap_lock` held, so each
has a `_start` and an `_end`. `used` keeps its 16 bits and `swapFileSize` its
unit, bytes. `swap_in_fail` is the early return on a failed read: the lock stays
held and the slot marked. `swap_out_fail` is the failed assertion on a failed
write. The clients write, swap out, swap in, drop and create pages; a failed
assertion sets `panicked`, which ends the behaviour. `close_swapfile`, called first
in shutdown, waits for a transfer and ends it too.

### Tlb, TlbClients

The flag `tlb_full` is never cleared, as in the code. The registers and
`tlb_probe` are the processor's. The clients are the miss path of `vm_fault` in its
steps (the miss, an eviction in `getPage`, the page brought in, the load), with
`faulting` the page each process is in a fault on, `as_activate` and `as_destroy`.
A thread may sleep between any two of the steps, and others load the TLB
meanwhile.

### Elf

Addresses, sizes and offsets are in bytes; the byte at offset k of the file is
the number k, a byte nobody wrote is `Stale`. The actions are one turn of
`load_elf`'s loop, its failure, `as_prepare_load`, and `vm_fault` for any page of
the user address space. A page whose read fails is mapped unread (`failed`).

### Paging

A process, its thread and its address space share a name. `th[t]` says where
thread t is in the kernel; `th[t].as` is the address space it works on (its own
in a fault, the child's in `as_copy`, the dead one's in `proc_wait`). A page
fault is `vm_fault`, then `getPage_free` or `getPage_victim` and `evict` or
`swap_out` and `swapped_out`, then `load_elf_ondemand` or `swap_in` and
`swapped_in`. A fork is `sys_fork`, the same frame search for each page, `copy_page`
or `copy_swapped`, and `thread_fork`. An exit is `sys__exit`, `thread_exit`, and
in the waiter `proc_wait`, `as_destroy_slot`, `as_destroy_pt`,
`as_destroy_frames`; `exorcise` frees the stack. `thread_switch` includes
`as_activate`. The contents of a page are one value: `"elf"`, `"zero"` or what the
program wrote.

Where the kernel panics, hangs, or goes on with memory it does not own, `status`
says why and the behaviour ends; section 5 lists these cases. Programs wait at
most once for a process and not for each other in a circle; other waits are
`Proc`'s subject.

### Proc

A thread has the name of its process. `p_sem` is its count. `th[t].on` is the
process that t creates, waits for or destroys. `orderly` is a ghost variable: TRUE
while programs have waited only once, and for their own children. Programs may
call `waitpid` with any pid from 0 to `MAX_PROC`. The file table (option `file`) is
in `Files`.

### Synch

One lock with one condition variable, and a semaphore a disk interrupt signals,
over the run queue and wait channels. What runs under a spinlock is one step. The
timer (`thread_yield`) may strike between any two steps. `wchan_wakeone` takes the
first sleeper, and `switchTo` is the tail of `thread_switch`.

### Cpus

`at[c]` is what CPU c does: `"run"` its current thread with interrupts on,
`"idle"` in `cpu_idle`, or a point inside an interrupt handler or a function that
runs with interrupts off. One step is what happens under one run queue's
spinlock, so `thread_consider_migration` is a step for each queue it counts
(`migrate_count`), one that takes the victims, one for each CPU that is given
some, and `migrate_putback`. `thread_fork` is two steps: the choice of the CPU and
the insertion, between which the parent may have moved. A CPU that idles keeps
`c_curthread`, as in the code. An interrupt makes `cpu_idle` return (`unidle`).
Threads sleep on one wait channel, woken by other threads or by a device on any
CPU. The initial state is that after `cpu_create` for every CPU.

### VmStats, Menu

One CPU. `counters[i]++` is a load and a store; the timer (`hardclock`) may take
the CPU between any two steps. `vm_stats_inc` takes the lock unless the thread
is in an interrupt (`checkcanLock`). What a page fault counts, and in which order,
is `counts`: which of the alternatives it takes is a free choice here and
`Paging`'s subject. `thread_switch` ends with `as_activate`, which flushes the TLB
and counts that: without the lock if the timer took the CPU from this thread,
with it otherwise, and if the lock is taken the thread sleeps again, inside
`thread_switch`, and owes one more count (`owes`). Interrupts are off there, so
that is one step.

`Menu` adds `menu_execute` and `cmd_dispatch` with their refusals, `common_prog`,
`runprogramWithArgs` up to the program's first instruction, `sys_fork`,
`sys__exit`, and shutdown in its order: statistics, destruction of their lock,
`vfs_unmountall`, which sleeps, `thread_shutdown`. A program may call `reboot` too.
A word of a command line is its name and its length. `args` are the words in the
menu's buffer, which the next line overwrites and from which the thread of a
program reads its arguments; `typed` is a ghost variable, what was typed for each
program. Opening the executable may destroy the buffer's copy of the name (external
`vfs_open`). `layout` is where `copyoutstr` and `copyout` put the strings and the
pointers, each string an interval of addresses. `quiet` is a ghost variable: no
program was left when shutdown began.

### Files

`systemFileTable` and the `fileTable` of each process are as in the code; `opens`
counts `vfs_open` less `vfs_close` of each file. `sys_open` is a step for
`vfs_open`, one for each entry it tests, and one that claims the entry and the
descriptor; reads and writes sleep in the VFS between taking the offset and
storing it. `sys_close` is a step that empties the descriptor, one that counts down,
one that forgets the file and `vfs_close`, as the timer may come between any two. `syscall` turns results into v0 and a3. `view[p]` is what the program
concludes from these: which descriptors it has, for which file, at which offset.
Two ghost variables mark where the code's flaws take effect: `misled` are the
processes that lost their table in `sys_fork` or were told of bytes for an error,
`raced` says that two calls of `sys_open` claimed one entry.

## 3. Runs

Sizes are distinct states. A run that finds no violation explores its whole state
space.

| Run | Instance | Checks |
|---|---|---|
| `coremap` | 4 frames, 2 kernel allocations, 2 address spaces, runs of 1 to 4 frames; 14,848 | `TypeOK`, `OwnersMatch`, `ScanIsFirstFit` |
| `swap` | 2 slots, 3 pages of 2 threads, failed reads and writes; 37,984 | `UsedCountsSlots`, `SwappedPagesSafe`, `NoSlotLost`, `LockGivenBack` |
| `tlb` | 2 entries, 3 pages, 2 frames, 2 address spaces; 69,597 | `NoDuplicates`, `Coherent` |
| `elf` | pages of 4 bytes, every memory size up to two pages and a byte and every file size up to it, aligned or not, failed reads; 243,024 | `FaultFindsPage`, `FileBytesLoaded` |
| `paging` | shipped configuration: a process at a time, 4 frames, 2 slots, 1 TLB entry, a page each of text, data and bss, read and write errors; 394,123 | `OneHolderPerFrame`, `OneHolderPerSlot`, `IsVirtualMemory`, `FaultServed`, `ExitReaped` |
| `paging_tight` | fork on, 2 processes of which one is created again, 5 frames, a page each of text and stack; 1,360,156 | `OneHolderPerFrame`, `OneHolderPerSlot`, `TlbCoherent`, `SleepNeedsTransfer`, `IsVirtualMemory` |
| `proc` | 3 user processes, 4 pids, status 300; 454,327 | `PidsMatch`, `OnlyReference`, `WaitReturns` |
| `synch` | 3 threads; 2,028 | `OnePlace`, `LockExcludes`, `NoLostWakeup`, `IsMonitor`, `LockHandedOn` |
| `cpus` | 2 CPUs, 4 threads; 103,623 | `OnePlace`, `OneStack`, `VictimsThere`, `NoWorkIgnored`, `RunnableRuns` |
| `files` | 2 processes, 2 files, 2 descriptors each, 3 entries, files of a byte; 2,724,179 | `DescriptorsOpen`, `ProgramView` |
| `menu` | the menu and 2 program threads, a page fault each, 17 command lines; 111,014 | `SumsAgree`, `QuietShutdown`, `ArgsLaidOut`, `CountReturns` |
| `elf_zero_fill` | as `elf` | `RestZeroFilled`: violated |

Each module's type invariant is `coremap`'s `TypeOK`, and elsewhere a conjunct of
the first property of the run.

What they show.

- **coremap.** Whatever order kernel memory, page tables and user pages are
  allocated and freed in, no frame has two owners, `freepages` gives back exactly
  the frames of its allocation although old lengths stay in the table, and the
  one-pass loop of `getMultiplePages` finds the first run that fits.
- **swap.** Slots are neither shared nor lost, a page comes back as it was
  written, `used` agrees with the bitmap between transfers, and the lock is given
  back, all except after a failed read or write.
- **tlb.** No page has two entries although `tlb_loadentry` does not probe and the
  fault may have slept since the miss, and no entry outlives an eviction or a context
  switch. It is the flush in `as_activate`, on the way back from every sleep, that
  makes it so: without it for a thread that resumes (`as_activate_resumes`), the page
  number it faulted on may have another process's entry by the time it loads.
- **elf.** The segment walk, the count of pages before a segment and the layout
  of the page table agree for every mapped address; bytes of page-aligned segments
  and of first pages come from the right place in the file, unless the read failed.
- **paging, paging_tight.** Frames and slots have one holder each
  through faults, evictions, forks and exits; the TLB is coherent; `Paging`
  implements `VirtualMemory`, that is, paging is invisible to programs. A fault
  meets a taken `swap_lock` under the spinlock only while another process is in a
  transfer, which takes fork; that without fork it never does, for any number of
  processes, is theorem `PagingSpinlock`. In the shipped configuration every fault is
  served and every exited program reaped, or the machine stops for one of the reasons
  of section 5.
- **proc.** A process is found under its own pid only; `proc_destroy`'s assertions
  hold when programs wait once and for their own children; a `V` is not lost.
- **synch.** A thread is in one queue at a time, the lock excludes, no wakeup is
  lost, the code implements `Monitor`, and the lock goes on to a thread that wants
  it.
- **cpus.** A thread is in one list and on one CPU's stack whatever CPUs do to each
  other's queues, migration never takes from an empty list although it counted
  under locks it released, a CPU never idles over a run queue without an interrupt
  on its way, and a runnable thread gets a CPU. The comment in
  `thread_consider_migration` asks what happens if it migrates the current thread:
  without that test (`giveOne_anyThread`) two CPUs use one stack.
- **files.** A descriptor's entry is counted and open, so that no process closes or
  reuses what another still has; what a program is told is so. Both hold up to the
  flaws of section 5, from which they show the rest of the code to be independent.
- **menu.** Whatever the timer interrupts, the counters differ from the sums that
  `vm_stats_print` compares by exactly the faults on the way; at a shutdown with no
  program left the sums agree and the lock is not used once freed. A program finds
  the arguments typed for it, although they are read from the menu's buffer by
  another thread, because the menu waits before it reads the next line (not so in
  `common_prog_noWait`); the strings do not overlap, the pointers are right and the
  stack pointer is aligned. Of the program's name only the length is claimed not to
  grow. A thread asleep on the lock inside `thread_switch` is not forgotten.

### Bounds

- *Four frames*: a run of two or three has frames before it, after it, and on
  both sides; memory fills; a length left over from a longer allocation lies
  inside and outside later ones.
- *Two slots, three pages*: the swap file fills, and a slot is used again by
  another page of another thread.
- *Two TLB entries, three pages*: the TLB fills, and both the search and the round
  robin index are used. `Paging` has one entry, which makes replacement the rule.
- *Frames in Paging*: `paging` has three pages, a page table and a stack in four
  frames and up to two heap pages, so evictions, discarded text and full memory all
  occur. A process needs a kernel stack, a page table and a frame for its pages:
  with five frames two processes compete for the last one.
- `MaxKPages` bounds the kernel heap and `MaxCreated` the processes created in all;
  in `paging_tight` the third one reuses a name, a stack and a page table's frame,
  and a process with a page in the swap file forks.
- *Four pids*: the table fills, pids wrap round, and the last one is handed out.
- *Status 300* does not fit the byte that `sys__exit` keeps.
- *Two CPUs, four threads*: the CPUs' first threads and two that are forked. With
  so few threads a migration takes one victim; the other CPU may be idle, busy or
  itself migrating. Lists of several victims are not reached.
- *Menu*: the name has up to 3 characters and two arguments 2 to 4 and 3 or 4, so that
  strings end on both sides of a multiple of 4; lines have a word too many, too few,
  or none. The boot line has one command. A thread
  is used for one program. `MaxFaults` bounds a thread's page faults, and `MaxNest`
  the flushes a thread is recorded to owe, more of which make no difference to one
  lock with three threads. `USERSTACK` only has to leave room for the arguments.
- *Files*: two descriptors and three entries for two processes: either table may
  fill first. `MaxOffset` bounds a file, `MaxOpens` how often it is open at once,
  and `UINT_MAX` is 3, so that a count below zero would wrap and be seen. States in
  which `raced` holds are not explored further.

Symmetry is used for interchangeable address spaces and pages in the runs without
liveness properties, and for processes and for files in `files`. `elf`, `cpus` and
`menu` are checked without deadlock detection: a program that failed to load, a
panic, or the end of shutdown ends the behaviour.

### Fairness

- `SwapClients`: weak fairness of the ends of transfers: the disk answers.
- `Paging`: weak fairness of a switch to each runnable thread, as the timer
  interrupts user code and a sleeping thread calls `thread_switch`; strong
  fairness of each thread's kernel steps, as a time slice is far longer than a
  step, so that a thread which is given the CPU again and again gets on. Nothing
  is assumed of user programs: they may loop, and need not exit.
- `Proc`: weak fairness of each thread's kernel steps, for the same reason; none
  of `_exit`, `fork` or `waitpid`.
- `Synch`: weak fairness of the timer, the idle loop and the disk interrupt;
  strong fairness of a thread's steps inside `lock_acquire` and at the end of a
  transfer, and of `lock_release`: whoever has a lock gives it back. Nothing
  obliges a thread to signal the condition variable.
- `Cpus`: weak fairness of what a CPU does with interrupts off; strong fairness of
  each CPU's timer, whose interrupt stays pending while interrupts are off. Nothing
  is assumed of threads: they may loop.
- `Menu`: weak fairness of the disk and of the switch to the next runnable thread;
  strong fairness of the timer, and of a thread's steps inside `vm_stats_inc` and
  shutdown, which are far shorter than a time slice. None of programs or of the
  person at the menu.

## 4. Proofs

A run checks a small instance; the theorems below hold for every value of the
constants that satisfies the named assumptions. All proofs are checked by TLAPS.

| Theorem | Module | States |
|---|---|---|
| `CoremapTypes`, `CoremapOwners` | `CoremapProofs` | `[]TypeOK`, `[]OwnersMatch`: the coremap agrees with its callers |
| `TlbNoDuplicates`, `TlbCoherence` | `SwapTlbProofs` | `[]NoDuplicates`, `[]Coherent` of `TlbClients` |
| `UsedCount`, `SwappedPages`, `SlotsKept` | `SwapTlbProofs` | `[]UsedCountsSlots`, `[]SwappedPagesSafe`, `[]NoSlotLost` of `SwapClients` |
| `ThreadsInOnePlace`, `Exclusion`, `WakeupsKept` | `SynchProofs` | `[]OnePlace`, `[]LockExcludes`, `[]NoLostWakeup` |
| `ImplementsMonitor` | `SynchProofs` | the lock and the condition variable implement `Monitor` |
| `PidTable`, `DestroyerAlone` | `ProcProofs` | `[]PidsMatch`, `[]OnlyReference` |
| `PagingFrames` | `PagingProofs` | `[]OneHolderPerFrame`: a used frame has one holder, a free one none |
| `PagingSlots` | `PagingProofs` | `[]OneHolderPerSlot`: bitmap, page tables and counter agree |
| `PagingTlb` | `PagingProofs` | `[]TlbCoherent`: no stale TLB entry |
| `PagingSpinlock` | `PagingProofs` | `[]SleepNeedsTransfer`: `getPage` sleeps under the spinlock only with fork on and during another process's transfer |
| `PagingRefines` | `PagingProofs` | `Paging` implements `VirtualMemory` |

### Assumptions

Each is named in the module that declares the constants, and TLC evaluates it in
every run of that module.

- `CoremapAssumption`, `ClientsAssumption`: there is a frame, NULL is not an address
  space, the longest request is a natural number. The machine has more memory than
  the kernel image and the coremap take up; `coremap_init` does not test it.
- `SwapfileAssumption`, `OwnerAssumption`: there is a slot, a page has a size, "no
  owner" of the lock is not a thread, every page of `SwapClients` has an owner.
- `Tlb`: at least one entry.
- `Synch`: the threads are a finite set (a wakeup is counted with `Cardinality`), and
  NULL is none of them.
- `ProcAssumption`: the kernel process is a process, NULL is neither a process nor a
  structure, the table has an entry, exit codes are integers.
- `PagingAssumption`: the threads are the processes' and the menu's; NULL is no
  number and no memory; the pages are numbered from 1 and of one kind each; a slot
  number is smaller than the first physical page number, because the kernel image
  lies below it (page table entries keep both in one field); the frames are the
  physical pages from `firstpaddr` on. Nothing is assumed of the sets of processes
  and pages but this: they may be infinite.

### The components

*Coremap.* `OwnersMatch` is inductive together with `TypeOK`, because it says
three things at once: each allocation is recorded at its first frame with its
length and its flags (`Recorded`), allocations of one kind are disjoint (of
different kinds they are by their flags), and every marked frame is owned. The last
is needed for the frees: `freepages` clears as many frames as the first entry
says, and nothing else may be among them. One lemma per operation says what it does
to each entry (`GetPageEffect`, `GetMultiplePagesEffect`, `FreepagesEffect`,
`FreeAsEffect`), one per client action that it keeps the agreement.

*TLB.* `TlbInv` is both properties and `MissHolds`: `tlb_invalidate_vaddr` clears
one entry, and leaves no stale one only if there are no duplicates; and a load makes
no duplicate only because the page that a process is in a fault on has no entry
whenever that process runs, however often others ran since the miss (`MissHolds`).

*Swap file.* `Inv` adds `TransfersLocked`, what is true between the two halves of
a transfer: its thread owns the lock, the slot being written is marked but nobody's,
a page on its way in is still in the swap file. `used` is related to the marked
slots less the one being written, as it is incremented after the transfer.

*Synch.* `Inv` says where every thread is (`CpuOK`, `WchansOK`, `Placed`), that the
disk's transfers and the threads waiting for them are as many (`TransfersCounted`),
and the properties. `NoLostWakeup` is kept since every `V` either moves a sleeper to
the run queue or finds none. For the refinement each step is shown to be a step of
`Monitor` on the thread in the lock and the set asleep on the condition variable,
or to leave both.

*Proc.* `Inv` relates the table and the structures (`PidsAgree`), a structure and
its thread (`Lives`), a thread and the process it works on (`Works`), and says that
a process has one destroyer and, while programs are orderly, one thread that
refers to it (`OneReference`).

### Paging

`PagingInv` defines the inductive invariant, `Inv /\ CountOK`, in layers. Each
rests on those before it:

1. `Types`. Stronger than the properties': a page table entry is one of `NoPage`,
   `Resident(f)`, `Swapped(s)`.
2. `Roles`: who works on which address space. A thread works on its own address
   space in a fault, a child's, which nobody runs in yet, in `as_copy`, and a dead
   one's in `as_destroy`; no two others work on the same one (`OneWorker`); there
   are a page table, a stack and pages exactly at the times between their creation
   and their end. Every interleaving question is settled here: it is why a fault
   finds its page as it left it after it slept.
3. `FramesOK`: the flags and the owner the coremap has for each holder's frame
   (`FrameTags`), that holders of one kind do not share one (`FrameOnce`; of
   different kinds they cannot, by the flags), that a used frame has a holder
   (`FrameKept`), and that a victim chosen before a sleep is still a page of its
   address space after it (`VictimThere`).
4. `SlotsOK`: the lock is held exactly during transfers, a slot is one page's, and
   the marked slots, but for the one being written, are those of pages that
   `as_destroy` is not past.
5. `TlbOK`: no duplicates, and `TlbCoherent`.
6. `ContentsOK`: text pages hold what the executable does and are never in the swap
   file (so that discarding them loses nothing), and `as_copy` has copied the pages
   it is past.

`CountOK` (`used` is the number of those slots as an unsigned short) is apart
because it alone counts: each action is shown to add one slot, take one, or leave
them (`Counts`), and one lemma (`CountFollows`) does the arithmetic.

`PagingLemmas` has what several actions need: what the operations of the coremap,
the TLB and the swap file do, and what keeps a layer when a step leaves its part of
the state alone. `PagingFaults` has one lemma for each step of `vm_fault`, `getPage`
and `as_copy`; `PagingLife` has one for each step in the life of a process and of
kernel memory: `common_prog`, `runprogram`, `sys_fork`, `thread_fork`, `sys__exit`,
`thread_exit`, `thread_switch`, `exorcise`, `proc_wait`, the three parts of
`as_destroy`, `alloc_kpages`, `free_kpages`. Each concludes `StepOK`: the step keeps
`Inv`, counts the slots right, and does to the memories of the processes one of the
things that `VirtualMemory` allows (`MemoryStep`). `PagingProofs` combines them:

- `NextStep` splits `Next` into its actions, `NextInv` and `PagingInvariant` follow;
- `PagingFrames`: `HolderTags` and `HolderOnce` turn the layers 2 and 3 into the set
  of holders having one element;
- `PagingSlots`: the pages in the swap file and the marked slots are in bijection
  (`SlotCount`);
- `PagingSpinlock`: the only step to that status is taken by a process in a fault
  that finds the lock taken, and by `LockHeld` and `Alone` the owner is another
  process, in a transfer, which there is not without fork; nothing moves afterwards
  (`StoppedStays`);
- `PagingRefines`: `MemoryStep` is turned into the actions of `VirtualMemory`
  (`VirtualActions`, `VirtualStep`). Evictions, reads, switches and the steps of
  `as_destroy` are stutters; the child's memory appears in one step when
  `thread_fork` makes it runnable, which `CopiedSoFar` justifies.

TLC checked `Inv /\ CountOK` on the instances of `paging` and `paging_tight` before
it was proved.

### Only model-checked

- The liveness properties (`LockGivenBack`, `FaultServed`, `ExitReaped`,
  `WaitReturns`, `LockHandedOn`, `RunnableRuns`, `CountReturns`): the prover has no
  rules for fairness here.
- `ScanIsFirstFit` needs induction over the recursive function `firstAt`, and
  `ArgsLaidOut` and `FileBytesLoaded` over the words of a line and over bytes;
  induction over data is beyond this prover.
- `Cpus`, `Files`, `Elf` and `Menu` have no theorems: their safety properties
  (`OnePlace`, `OneStack`, `VictimsThere`, `NoWorkIgnored`; `DescriptorsOpen`,
  `ProgramView`; `FaultFindsPage`; `SumsAgree`, `QuietShutdown`) are checked on their instances only.

## 5. Where code and comments part

One run ends in a counterexample to what a comment of the repository says:
`elf_zero_fill`: memory beyond the file part of a segment is not zeroed
(`syscall/loadelf.c:297` and 301).

The other places where the code stops or departs from its comments are in the
model, as outcomes that TLC reaches; the properties above hold up to them.

| Code | Behaviour | In the model |
|---|---|---|
| `vm/coremap.c:117` | a single page for the kernel when memory is full is answered with frame 0, which has an owner, and with the spinlock held | `getPage_full`, `spinlockDeadlock`; `OwnersMatch` is about the time before |
| `main/menu.c:103` | a program that cannot be loaded ends without the signal for which the menu waits | `cmd_progthread_fails`, `runprogram_fails` |
| `vm/coremap.c:123` | the search for a victim does not end when the process owns no frame | `victimLoopForever`, status `"victim loop"` |
| `vm/coremap.c:120` | the sleep lock is asked for under the spinlock; with fork on it may be taken | status `"slept with spinlock"`; `SleepNeedsTransfer` says when |
| `vm/swapfile.c:130` | bytes less pages: positive although no slot is free | `swap_out_nospace`, status `"swap file full"` |
| `vm/swapfile.c:68`, `vm/addrspace.c:525` | a failed read keeps the lock, and `vm_fault` maps the page all the same | `swap_in_fail`; `read_fails`, status `"read error"` |
| `vm/swapfile.c:111` | a failed write of a page is a failed assertion | `swap_out_fail`, `outFails`; `write_fails`, status `"write error"` |
| `syscall/loadelf.c:110` | a failed read of a page from the executable is returned to `vm_fault`, which maps the page all the same | `failed` in `Elf`, `read_fails` |
| `vm/addrspace.c:91` | the name given to `as_create` is the menu's own (`main/menu.c:96` makes no copy with option `args`), `vfs_open` may destroy it (`main/menu.c:68`), and it is used after: as `argv[0]` and as `progname` | `vfs_open` in `Menu`; `ArgsLaidOut` is about the other words |
| `vm/vm_tlb.c:20` | once full, the TLB's invalid entries are not looked for | `tlb_loadentry` |
| `vm/addrspace.c:510` | a write to text does arrive as `VM_FAULT_READONLY`, and panics | status `"readonly"` |
| `vm/addrspace.c:175` | `as_copy` of a swapped page uses the slot number of the new, unset entry | `copy_swapped`, `garbled` |
| `vm/pt.c:67` | `free_kpages` panics in the context of a process | status `"free_kpages"` |
| `syscall/loadelf.c:300` | in a segment that starts inside a page, later pages are read from a wrong offset | excluded by `Plain` in `FileBytesLoaded` |
| `proc/proc.c:78` | the last pid is handed out but not accepted | `sys_waitpid_panics` |
| `proc/proc.c:101` | the search for a pid skips the last one allocated, so it may panic with one free | `table_full` |
| `proc/proc.c:284` | the kernel process is registered, as pid 1 | `Init` of `Proc` |
| `proc/proc.c:452` | a second waiter sleeps on a semaphore that the first destroys | `destroy_panics`; excluded by `orderly` in `OnlyReference` |
| `vm/vmstats.c:73` | shutdown destroys the lock of the statistics; programs that are left go on using it | `UseFreedLock`, `freed`; `QuietShutdown` is about shutdowns without programs |
| `syscall/proc_syscalls.c:105` | the file table is copied from the new process to its parent, which loses its descriptors | `sys_fork` of `Files`, `misled` |
| `syscall/proc_syscalls.c:31` | `_exit` closes no files | `sys__exit` of `Files`; an inequality in `DescriptorsOpen` |
| `syscall/file_syscalls.c:191` | an entry is tested and claimed without a lock | `sys_open_claim`, `raced` |
| `syscall/file_syscalls.c:129`, 163 | an error of the file system is reported as a number of bytes | `file_io_done`, `misled` |
| `syscall/file_syscalls.c:211` | with no descriptor left the file is closed and the entry stays | `sys_open_claim` |

## 6. Not modelled

- The order of the calls in `boot`: the state they leave is the initial state of the
  modules.
- `getPageV`, `getPageP` and `getPagePtoV` of `pt.c`, which nobody calls, and
  `vm_tlbshootdown` with `ipi_tlbshootdown`, which nobody calls and which panics.
- Decoding a trap frame, and `sys_getpid` and `sys___time`, which change nothing.
- Reads and writes of the console: they keep no state in this tree.
- Descriptors outside the file table: a descriptor of exactly `OPEN_MAX` passes the
  test in `syscall/file_syscalls.c:227` and reads what lies behind the table, which
  the code does not determine.
- `as->pt_lock`: only the thread of the address space, or the one that destroys it,
  takes it.
- The kernel heap above `alloc_kpages`, the file system and the disk driver are not
  in this tree; they appear as allocations of pages, as calls that may fail, and as
  transfers that end.
- Menu commands that print, dump the heap or run the kernel's tests.
- Paging on several CPUs: `vm_fault` assumes one (there is no shootdown), and so does
  the model; `Cpus` is about threads only.

## 7. Plan

Done: all modules of section 2, the runs of section 3, the proofs of section 4.
Next would be proofs about the remaining components: `DescriptorsOpen` of `Files`,
whose invariant has to say what every call in progress owns; `OnePlace` and
`OneStack` of `Cpus`, where it has to follow the threads a migration has in hand;
`FaultFindsPage` of `Elf`.

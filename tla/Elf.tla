-------------------------------- MODULE Elf ---------------------------------
(***************************************************************************)
(* How a program becomes an address space: load_elf turns the program      *)
(* headers into the segment list, as_prepare_load lays out the page table, *)
(* and every first touch of a page goes through vm_fault, which finds the  *)
(* page and has load_elf_ondemand read its bytes from the file             *)
(* (kern/syscall/loadelf.c, kern/vm/addrspace.c).                          *)
(*                                                                         *)
(* Addresses and sizes are the code's, in bytes, with a small PAGE_SIZE.   *)
(* The byte at offset k of the file is the number k, so that a property    *)
(* can say which byte of the file a byte of memory came from.              *)
(***************************************************************************)
EXTENDS Integers, Sequences, FiniteSetsExt

CONSTANTS
  PAGE_SIZE,
  USERSTACK,    \* one past the last address of the stack
  STACKPAGES,
  Programs      \* executables: [phdrs: a sequence of headers, length: bytes]

ASSUME PageSizeAssumption == PAGE_SIZE \in Nat \ {0}

VARIABLES
  program,      \* the executable being run
  next,         \* load_elf: the index of the next program header
  as_segment,   \* the list of segments, the stack last once it is defined
  pt,           \* the page table: vaddr, in_mem, the bytes of the page, and
                \* whether the read of its file part failed
  pc,           \* "load_elf", "user", "failed" or "panic"
  faultaddress  \* the page address of the last fault

vars == <<program, next, as_segment, pt, pc, faultaddress>>

Zero == -1
\* What the frame's last owner left in a byte nobody wrote since.
Stale == -2

Bytes == 0 .. PAGE_SIZE - 1

pageOf(a) == a - (a % PAGE_SIZE)

least(m, n) == IF m < n THEN m ELSE n

Init ==
  /\ program \in Programs
  /\ next = 1
  /\ as_segment = <<>>
  /\ pt = <<>>
  /\ pc = "load_elf"
  /\ faultaddress = 0

-----------------------------------------------------------------------------
(* load_elf and as_prepare_load *)

\* The rounding forgets that the segment starts inside its first page.
as_define_region_lengthOnly(vaddr, memsz, filesz, off) ==
  LET size == pageOf(memsz + PAGE_SIZE - 1) IN
  [start |-> pageOf(vaddr), size |-> size, filesize |-> filesz,
   npages |-> size \div PAGE_SIZE, offset |-> off,
   initoffset |-> vaddr % PAGE_SIZE]

as_define_region(vaddr, memsz, filesz, off) ==
  LET size == pageOf(memsz + (vaddr % PAGE_SIZE) + PAGE_SIZE - 1) IN
  [start |-> pageOf(vaddr), size |-> size, filesize |-> filesz,
   npages |-> size \div PAGE_SIZE, offset |-> off,
   initoffset |-> vaddr % PAGE_SIZE]

phdr == program.phdrs[next]

\* One turn of the loop over the program headers.
load_elf ==
  /\ pc = "load_elf"
  /\ next <= Len(program.phdrs)
  /\ phdr.p_type # "other"
  /\ as_segment' =
       IF phdr.p_type = "PT_LOAD"
       THEN Append(as_segment,
                   as_define_region(phdr.p_vaddr, phdr.p_memsz,
                                    phdr.p_filesz, phdr.p_offset))
       ELSE as_segment
  /\ next' = next + 1
  /\ UNCHANGED <<program, pt, pc, faultaddress>>

\* A header that cannot be read, is of an unknown type, or finds no memory
\* for its segment; also a file without the right magic, when next is 1.
load_elf_fails ==
  /\ pc = "load_elf"
  /\ pc' = "failed"
  /\ UNCHANGED <<program, next, as_segment, pt, faultaddress>>

pagesBefore(segs, s) ==
  MapThenSumSet(LAMBDA r : segs[r].npages, 1 .. s - 1)

\* The segment whose pages hold entry j of the page table.
segmentOfEntry(segs, j) ==
  CHOOSE s \in DOMAIN segs :
    /\ pagesBefore(segs, s) < j
    /\ j <= pagesBefore(segs, s + 1)

as_prepare_load ==
  /\ pc = "load_elf"
  /\ next > Len(program.phdrs)
  /\ LET size == STACKPAGES * PAGE_SIZE
         segs == Append(as_segment,
                        as_define_region(USERSTACK - size, size, size, 0))
         vaddr(j) == LET s == segmentOfEntry(segs, j) IN
           segs[s].start + (j - 1 - pagesBefore(segs, s)) * PAGE_SIZE
     IN /\ as_segment' = segs
        /\ pt' = [j \in 1 .. pagesBefore(segs, Len(segs) + 1) |->
                    [vaddr |-> vaddr(j), in_mem |-> FALSE, failed |-> FALSE,
                     page |-> [k \in Bytes |-> Stale]]]
  /\ pc' = "user"
  /\ UNCHANGED <<program, next, faultaddress>>

-----------------------------------------------------------------------------
(* vm_fault *)

\* The first segment whose successor starts above the address, or the last.
segmentOf(vaddr) ==
  Min({s \in DOMAIN as_segment :
         \/ s = Len(as_segment)
         \/ vaddr < as_segment[s + 1].start})

entriesOf(s) ==
  pagesBefore(as_segment, s) + 1 .. pagesBefore(as_segment, s + 1)

\* VOP_READ of size bytes at off into the page from byte at on. A read past
\* the end of the file is short; vm_fault overwrites the ENOEXEC it causes.
load_segment(off, at, memsize, filesize) ==
  [k \in Bytes |->
     IF /\ k \in at .. at + least(filesize, memsize) - 1
        /\ off + (k - at) < program.length
     THEN off + (k - at)
     ELSE Stale]

\* The pages after the first one are read from the segment's first bytes.
load_elf_ondemand_fromStart(seg, vaddr) ==
  LET amt      == vaddr - seg.start
      filesize == IF seg.filesize < amt THEN 0
                  ELSE least(PAGE_SIZE, seg.filesize - amt)
      memsize  == least(PAGE_SIZE, seg.size - amt)
  IN IF amt = 0
     THEN load_segment(seg.offset, seg.initoffset,
                       memsize - seg.initoffset, memsize - seg.initoffset)
     ELSE load_segment(seg.offset, 0, memsize, filesize)

load_elf_ondemand(seg, vaddr) ==
  LET amt      == vaddr - seg.start
      filesize == IF seg.filesize < amt THEN 0
                  ELSE least(PAGE_SIZE, seg.filesize - amt)
      memsize  == least(PAGE_SIZE, seg.size - amt)
  IN IF amt = 0
     THEN load_segment(seg.offset, seg.initoffset,
                       memsize - seg.initoffset, memsize - seg.initoffset)
     ELSE load_segment(seg.offset + amt, 0, memsize, filesize)

\* The page is loaded at its first touch; a later fault reloads the TLB only.
\* When VOP_READ fails the page is mapped all the same, unread.
vm_fault(vaddr) ==
  LET s   == segmentOf(vaddr)
      hit == {j \in entriesOf(s) : pt[j].vaddr = vaddr}
  IN /\ pc = "user"
     /\ faultaddress' = vaddr
     /\ \/ /\ hit = {}
           /\ pc' = "panic"
           /\ UNCHANGED pt
        \/ /\ hit # {}
           /\ pt[Min(hit)].in_mem
           /\ UNCHANGED <<pt, pc>>
        \/ /\ hit # {}
           /\ ~ pt[Min(hit)].in_mem
           /\ pt' = [pt EXCEPT ![Min(hit)] =
                [@ EXCEPT !.in_mem = TRUE,
                          !.page = IF s < Len(as_segment)
                                   THEN load_elf_ondemand(as_segment[s], vaddr)
                                   ELSE [k \in Bytes |-> Zero]]]
           /\ UNCHANGED pc
        \/ /\ hit # {} /\ s < Len(as_segment)
           /\ ~ pt[Min(hit)].in_mem
           /\ pt' = [pt EXCEPT ![Min(hit)].in_mem = TRUE, ![Min(hit)].failed = TRUE]
           /\ UNCHANGED pc
     /\ UNCHANGED <<program, next, as_segment>>

UserPages == {pageOf(a) : a \in 0 .. USERSTACK - 1}

Next ==
  \/ load_elf
  \/ load_elf_fails
  \/ as_prepare_load
  \/ \E vaddr \in UserPages : vm_fault(vaddr)

Spec == Init /\ [][Next]_vars

-----------------------------------------------------------------------------
(* What the headers of the executable ask for. *)

Headers ==
  {program.phdrs[i] : i \in
     {i \in DOMAIN program.phdrs : program.phdrs[i].p_type = "PT_LOAD"}}

InStack(a) == a \in USERSTACK - STACKPAGES * PAGE_SIZE .. USERSTACK - 1

InMemory(h, a) == a \in h.p_vaddr .. h.p_vaddr + h.p_memsz - 1

InFile(h, a) == a \in h.p_vaddr .. h.p_vaddr + h.p_filesz - 1

\* The bytes of memory that have been loaded: their address and value.
Loaded ==
  {[addr |-> pt[j].vaddr + k, byte |-> pt[j].page[k]] :
     j \in {j \in DOMAIN pt : pt[j].in_mem /\ ~ pt[j].failed}, k \in Bytes}

\* Whether the program is laid out so that load_elf_ondemand's arithmetic
\* is right for the byte: it is in the first page of its segment, or the
\* segment starts on a page boundary.
Plain(h, a) ==
  \/ h.p_vaddr % PAGE_SIZE = 0
  \/ pageOf(a) = pageOf(h.p_vaddr)

-----------------------------------------------------------------------------
(* Properties *)

\* Every segment as_define_region makes covers whole pages, as many as npages
\* says, and the page table of as_prepare_load has an entry for each of them.
TypeOK ==
  /\ program \in Programs
  /\ next \in 1 .. Len(program.phdrs) + 1
  /\ \A s \in DOMAIN as_segment :
       as_segment[s].size = as_segment[s].npages * PAGE_SIZE
  /\ pc \in {"load_elf", "user", "failed", "panic"}
  /\ \A j \in DOMAIN pt :
       /\ pt[j].vaddr \in UserPages
       /\ {pt[j].in_mem, pt[j].failed} \subseteq BOOLEAN
       /\ \A k \in Bytes : pt[j].page[k] \in {Zero, Stale} \cup Nat
  /\ faultaddress \in UserPages

\* The types, and: vm_fault's search ("pt with addr 0x%x not initialized!") panics only for an
\* address outside the pages of the program and the stack: for every address
\* a program header covers, the walk over the segments, the count of the pages
\* before them and the layout of the page table agree on one entry.
FaultFindsPage ==
  /\ TypeOK
  /\ pc = "panic" =>
       \A a \in faultaddress .. faultaddress + PAGE_SIZE - 1 :
         ~ InStack(a) /\ \A h \in Headers : ~ InMemory(h, a)

\* The bytes load_elf_ondemand reads are those the program header places at
\* the address, for segments that start on a page boundary and for the first
\* page of the others; a page of the stack starts zeroed.  Not for a page whose
\* read failed, which vm_fault does not tell the program.
FileBytesLoaded ==
  \A b \in Loaded :
    /\ \A h \in Headers :
         InFile(h, b.addr) /\ Plain(h, b.addr) =>
           b.byte = h.p_offset + (b.addr - h.p_vaddr)
    /\ InStack(b.addr) => b.byte = Zero

\* loadelf.c, on load_segment: "FILESIZE may be less than MEMSIZE; if so the
\* remaining portion of the in-memory segment should be zero-filled."
RestZeroFilled ==
  \A b \in Loaded : \A h \in Headers :
    InMemory(h, b.addr) /\ ~ InFile(h, b.addr) => b.byte = Zero

=============================================================================

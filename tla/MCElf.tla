------------------------------- MODULE MCElf --------------------------------
EXTENDS Elf

\* A code segment that may start inside a page, with every memory and file
\* size up to two pages and a byte, and a data segment after it. Offsets are
\* congruent to addresses, as linkers make them.
Code(init, memsz, filesz) ==
  [p_type |-> "PT_LOAD", p_vaddr |-> PAGE_SIZE + init, p_memsz |-> memsz,
   p_filesz |-> filesz, p_offset |-> PAGE_SIZE + init]

Data(init, filesz) ==
  [p_type |-> "PT_LOAD", p_vaddr |-> 5 * PAGE_SIZE + init,
   p_memsz |-> PAGE_SIZE, p_filesz |-> filesz,
   p_offset |-> 4 * PAGE_SIZE + init]

Skipped ==
  [p_type |-> "PT_NULL", p_vaddr |-> 0, p_memsz |-> 0, p_filesz |-> 0,
   p_offset |-> 0]

MCPrograms ==
  {[phdrs |-> <<Skipped, Code(i, m, f), Data(j, PAGE_SIZE - 1)>>,
    length |-> 4 * PAGE_SIZE + j + PAGE_SIZE - 1] :
     i \in {0, PAGE_SIZE - 1}, j \in {0, 1},
     m \in 1 .. 2 * PAGE_SIZE + 1, f \in 0 .. 2 * PAGE_SIZE + 1}

SizedPrograms ==
  {p \in MCPrograms : p.phdrs[2].p_filesz <= p.phdrs[2].p_memsz}

=============================================================================

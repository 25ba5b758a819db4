---------------------------- MODULE ProgramPages ----------------------------
(***************************************************************************)
(* ProcessMemory with the page directories: what process_map_memory,       *)
(* process_malloc, process_free (src/task/process.c), task_init and        *)
(* copy_string_from_task (src/task/task.c) write into the directory of a   *)
(* program.  A block is the address of a page; the heap gives the lowest   *)
(* blocks that hold a request (module Heap), or none.                      *)
(***************************************************************************)
EXTENDS ProcessMemory, Paging

CONSTANTS ProgramFiles,   \* the program files by name: records as below
          ProgramAddress, \* SIMPOS_PROGRAM_VIRTUAL_ADDRESS
          StackTop,       \* SIMPOS_PROGRAM_VIRTUAL_STACK_ADDRESS_START
          StackSize,      \* SIMPOS_USER_PROGRAM_STACK_SIZE
          AllocationSize  \* what process_malloc is asked for

SegmentType == [p_vaddr : Nat, p_offset : Nat, p_memsz : Nat, writeable : BOOLEAN]

\* A file is [elf, size, segments].  A segment lies inside its file's pages, at the
\* same place of a page in the file and in memory (ALIGN(4096) in the linker scripts).
ASSUME ProgramPagesAssumption ==
  /\ Block \subseteq {b \in PageAddress \ {0} : b + 2 * PageSize <= MemorySize}
  /\ {ProgramAddress, StackTop, StackSize} \subseteq PageAddress
  /\ AllocationSize \in 1..PageSize
  /\ \A name \in DOMAIN ProgramFiles :
       LET file == ProgramFiles[name]
       IN /\ file.size \in Nat /\ DOMAIN file.segments \subseteq Nat
          /\ \A i \in DOMAIN file.segments :
               LET s == file.segments[i]
               IN /\ s \in SegmentType
                  /\ s.p_vaddr % PageSize = s.p_offset % PageSize
                  /\ s.p_offset + s.p_memsz <= paging_align_address(file.size)

VARIABLES directory, \* process->task->page_directory
          program    \* what was loaded: [name, memory, stack]

allvars == <<vars, directory, program>>

ReadOnly == {"present", "all"}

\* Of a process that does not run.
NoDirectory == paging_new_4gb({})
NoProgram == [name |-> NULL, memory |-> 0, stack |-> 0]

PagesInit ==
  /\ Init
  /\ directory = [p \in Program |-> NoDirectory]
  /\ program = [p \in Program |-> NoProgram]

------------------------------------------------------------------------------
(* The heap *)

\* The blocks of an allocation of size bytes at a.
Run(a, size) == {b \in PageAddress : a <= b /\ b < a + size}

Fits(taken, size) == {a \in Block : Run(a, size) \subseteq Block \ taken}

\* Where the heap puts it, if anywhere.
FirstFit(taken, size) == {a \in Fits(taken, size) : \A b \in Fits(taken, size) : a <= b}

------------------------------------------------------------------------------
(* process_map_memory *)

elf_phdr_phys_address(memory, s) == memory + s.p_offset

SegmentEnd_FromPage(memory, s) ==
  paging_align_address(paging_align_to_lower_page(elf_phdr_phys_address(memory, s)) + s.p_memsz)

SegmentEnd(memory, s) == paging_align_address(elf_phdr_phys_address(memory, s) + s.p_memsz)

MapSegment(dir, s, memory) ==
  paging_map_to(dir, paging_align_to_lower_page(s.p_vaddr),
                paging_align_to_lower_page(elf_phdr_phys_address(memory, s)),
                SegmentEnd(memory, s),
                IF s.writeable THEN Flag ELSE ReadOnly)

\* A page of memory is one that MapSegment sets.
Covers(s, memory, page) ==
  LET first == paging_align_to_lower_page(s.p_vaddr)
      pages == SegmentEnd(memory, s) - paging_align_to_lower_page(elf_phdr_phys_address(memory, s))
  IN first <= page /\ page < first + pages

\* Where the linker scripts of src/programs and config.h put programs: the stack below
\* the program, the program below the heap, sections that start a page of their own.
ASSUME LayoutAssumption ==
  /\ StackSize <= StackTop
  /\ \A b \in Block : StackTop <= b
  /\ \A name \in DOMAIN ProgramFiles :
       LET file == ProgramFiles[name]
       IN IF file.elf
          THEN \A i \in DOMAIN file.segments :
                 LET s == file.segments[i]
                 IN /\ s.p_vaddr + s.p_memsz + PageSize <= MemorySize
                    /\ \A memory \in Block, page \in PageAddress :
                         Covers(s, memory, page) =>
                           /\ StackTop <= page /\ page \notin Block
                           /\ \A m \in DOMAIN file.segments \ {i} :
                                ~Covers(file.segments[m], memory, page)
          ELSE /\ StackTop <= ProgramAddress
               /\ ProgramAddress + file.size + PageSize <= MemorySize
               /\ Run(ProgramAddress, file.size) \cap Block = {}

\* The loop over the program headers, at once: every header is mapped, whatever its
\* type, and a page is left as the last header that covers it maps it.
process_map_elf(dir, segments, memory) ==
  [i \in Index |-> [j \in Index |->
     LET Last(k) == /\ Covers(segments[k], memory, PageAt(i, j))
                    /\ \A m \in DOMAIN segments :
                         m > k => ~Covers(segments[m], memory, PageAt(i, j))
     IN IF \E k \in DOMAIN segments : Last(k)
        THEN LET k == CHOOSE k \in DOMAIN segments : Last(k)
             IN MapSegment(dir, segments[k], memory)[i][j]
        ELSE dir[i][j]]]

process_map_binary(dir, file, memory) ==
  paging_map_to(dir, ProgramAddress, memory, paging_align_address(memory + file.size), Flag)

process_map_memory(dir, file, memory, stack) ==
  LET mapped == IF file.elf THEN process_map_elf(dir, file.segments, memory)
                ELSE process_map_binary(dir, file, memory)
  IN paging_map_to(mapped, StackTop - StackSize, stack,
                   paging_align_address(stack + StackSize), Flag)

\* The pages a program file asks to write, and the stack's.
Writes(file, memory, stack) ==
  Run(stack, StackSize) \cup
  {b \in Run(memory, file.size) :
     file.elf => \E i \in DOMAIN file.segments :
       LET s == file.segments[i]
       IN s.writeable /\ b < memory + s.p_offset + s.p_memsz
                      /\ b + PageSize > memory + s.p_offset}

\* process_load_for_slot: the file, the stack, and task_init's directory, which maps
\* all memory to itself, to be read.
LoadProgram(p) ==
  \E name \in DOMAIN ProgramFiles :
  \E memory \in FirstFit(used, ProgramFiles[name].size) :
  \E stack \in FirstFit(used \cup Run(memory, ProgramFiles[name].size), StackSize) :
    LET file == ProgramFiles[name]
    IN /\ Load(p, Run(memory, file.size) \cup Run(stack, StackSize), Writes(file, memory, stack))
       /\ program' = [program EXCEPT ![p] = [name |-> name, memory |-> memory, stack |-> stack]]
       /\ directory' = [directory EXCEPT ![p] =
            process_map_memory(paging_new_4gb(ReadOnly), file, memory, stack)]

------------------------------------------------------------------------------
(* The other operations *)

MapAllocation(dir, b, flags) ==
  paging_map_to(dir, b, b, paging_align_address(b + AllocationSize), flags)

Malloc(p) ==
  /\ \E b \in FirstFit(used, AllocationSize) :
       /\ process_malloc(p, b)
       /\ directory' = [directory EXCEPT ![p] = MapAllocation(@, b, Flag)]
  /\ UNCHANGED program

MallocFails(p) == process_malloc_fails(p) /\ UNCHANGED <<directory, program>>

Free(p) == \E b \in Block \cup {NULL} :
  /\ process_free(p, b)
  /\ directory' = [directory EXCEPT ![p] = IF b # NULL /\ IsAllocation(p, b)
                                           THEN MapAllocation(@, b, {}) ELSE @]
  /\ UNCHANGED program

CopiedThrough_KeepsEntry(dir, tmp) == paging_map(dir, tmp, tmp, Flag)

\* The buffer's page is the program's while the string is copied into it, and then
\* what it was before.
CopiedThrough(dir, tmp) ==
  LET old_entry == paging_get(dir, tmp)
  IN paging_set(paging_map(dir, tmp, tmp, Flag), tmp, old_entry)

CopyString(p) ==
  /\ \E tmp \in FirstFit(used, AllocationSize) :
       /\ copy_string_from_task(p, tmp)
       /\ directory' = [directory EXCEPT ![p] = CopiedThrough(@, tmp)]
  /\ UNCHANGED program

End(p) ==
  /\ process_terminate(p)
  /\ directory' = [directory EXCEPT ![p] = NoDirectory]
  /\ program' = [program EXCEPT ![p] = NoProgram]

PagesNext == \E p \in Program :
  LoadProgram(p) \/ Malloc(p) \/ MallocFails(p) \/ Free(p) \/ CopyString(p) \/ End(p)

PagesSpec == PagesInit /\ [][PagesNext]_allvars

------------------------------------------------------------------------------
(* Correctness *)

\* task.c:212 "map entire 4gb read only address space to itself": the directory of a
\* program lets it write the pages of its writable segments, its stack and what
\* process_malloc gave it, and nothing else, after any mapping, unmapping and copy of
\* a string.
DirectoryGrants == \A p \in Program : Grants(directory[p]) = writable[p]

\* The byte of physical memory a program reaches at an address.
Reaches(p, virt, phys) ==
  /\ "present" \in paging_get(directory[p], paging_align_to_lower_page(virt)).flags
  /\ paging_get_physical_address(directory[p], virt) = phys

\* process_map_elf, process_map_binary: as long as a program runs, each byte of a
\* segment is the byte of the file the program header puts there, over the ends of
\* pages and next to segments of the same page; the stack lies below StackTop.
SegmentsAreMapped == \A p \in alive :
  LET file == ProgramFiles[program[p].name]
      memory == program[p].memory
  IN /\ IF file.elf
        THEN \A i \in DOMAIN file.segments :
               LET s == file.segments[i]
               IN \A k \in 0..(s.p_memsz-1) : Reaches(p, s.p_vaddr + k, memory + s.p_offset + k)
        ELSE \A k \in 0..(file.size-1) : Reaches(p, ProgramAddress + k, memory + k)
     /\ \A k \in 1..StackSize :
          Reaches(p, StackTop - k, program[p].stack + StackSize - k)

\* system call 7 translates the pointer to the arguments it is given
\* (task_virtual_address_to_physical) and follows their next pointers untranslated:
\* both find what the program wrote, because a program sees the memory it holds at
\* the addresses the kernel sees it.
HeldIsIdentity == \A b \in held : \A k \in 0..(AllocationSize-1) :
  Reaches(gotBy[b], b + k, b + k)

==============================================================================

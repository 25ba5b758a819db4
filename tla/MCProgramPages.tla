--------------------------- MODULE MCProgramPages ---------------------------
(***************************************************************************)
(* Sixteen pages of four bytes: the kernel's page, the stack, three pages  *)
(* for a program and six blocks of heap.  One file is an ELF file whose    *)
(* segments share a page of the file, one of them over two pages, with an  *)
(* empty header as the linker writes it for the stack; one is a binary.    *)
(***************************************************************************)
EXTENDS ProgramPages, SequencesExt

CONSTANT HeapBlocks

Heap == {20 + 4 * i : i \in 0..(HeapBlocks-1)}

Segment(vaddr, offset, memsz, writeable) ==
  [p_vaddr |-> vaddr, p_offset |-> offset, p_memsz |-> memsz, writeable |-> writeable]

Files == [name \in {"elf", "binary"} |->
  IF name = "elf"
  THEN [elf |-> TRUE, size |-> 7,
        segments |-> <<Segment(8, 0, 3, FALSE), Segment(15, 3, 4, TRUE), Segment(0, 0, 0, TRUE)>>]
  ELSE [elf |-> FALSE, size |-> 3, segments |-> <<>>]]

\* The programs are alike.
Symmetry == Permutations(Program)

\* paging_map_range as the loop it is in paging.c, page by page.
RECURSIVE MapLoop(_, _, _, _, _)
MapLoop(dir, virt, phys, count, flags) ==
  IF count = 0 THEN dir
  ELSE MapLoop(paging_map(dir, virt, phys, flags), (virt + PageSize) % MemorySize,
               (phys + PageSize) % MemorySize, count - 1, flags)

ASSUME RangeIsTheLoop ==
  LET dir == paging_new_4gb(ReadOnly)
  IN \A virt, phys \in PageAddress : \A count \in 0..4 :
       paging_map_range(dir, virt, phys, count, Flag) = MapLoop(dir, virt, phys, count, Flag)

\* process_map_elf as the loop over the headers.
ASSUME HeadersAreTheLoop ==
  \A memory \in Block : \A segments \in {Files["elf"].segments, Reverse(Files["elf"].segments)} :
    LET dir == paging_new_4gb(ReadOnly)
    IN process_map_elf(dir, segments, memory) =
         FoldLeft(LAMBDA d, s : MapSegment(d, s, memory), dir, segments)

==============================================================================

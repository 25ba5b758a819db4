# SimpOS in TLA+

SimpOS is a small 32-bit x86 kernel with user programs: one address space per
program, a block heap, a FAT16 volume read through a disk stream, a keyboard, a
text terminal, and ten system calls. This directory holds TLA+ models
of its kernel, the TLC configurations that check them, and TLAPS proofs.

Paths are relative to the repository; in the inventory, to its `src/`.

## 1. How the kernel runs, and what that means for the models

*There is no preemption.* The kernel registers no timer interrupt
(`src/src/idt/idt.c`); a task keeps the CPU until it makes a system call that
switches (6, 7 or 9), faults, or is ended. The gates are interrupt gates
(type `0xEE`), so interrupts are off while a handler runs: a system call or an
interrupt is one atomic step with respect to the other tasks and to the
keyboard. The models use that: an operation is one action, except where the
loops inside it are themselves the subject (`HeapLoops`, `Fat16`).

What interleaves is therefore the order of whole calls: of several programs, of
keyboard interrupts between any two of them, of allocations and releases, and of
failures half way through a call whose error path must undo what was done.

Kernel memory is reused: a structure that was freed keeps its content until
`kzalloc` hands its address out again. Where a stale pointer could matter,
structures live at addresses (`ProcAddr`, `TaskAddr`, `Block`) and a free leaves
the content alone.

## 2. Inventory

| component | source | state | operations | hard part | correct means |
|---|---|---|---|---|---|
| kernel heap | `memory/heap/*` | a table of entries (TAKEN, IS_FIRST, HAS_NEXT) | malloc, free | flags that survive any order of calls; a scan that ends without a fit | disjoint allocations, exact frees, no free run overlooked |
| processes and tasks | `task/process.c`, `task/task.c`, `isr80h/process.c` | process table, current process, doubly linked task list, current task | start (calls 6, 7), exit (9), exception, boot | two records of who runs; a start that fails at any stage; removal while current | table and list agree; the CPU only goes to live tasks; a waiting program runs again |
| keyboard | `keyboard/*.c`, `isr80h/io.c` | a ring buffer per process, caps lock | interrupt, push, pop | interrupts between all other steps; counters reduced lazily | a key reaches the program it was typed for, in order, once |
| memory of programs | `task/process.c`, `isr80h/heap.c`, `task/task.c`, `memory/paging/paging.c` | allocation slots, page directories | malloc, free, copy a string from a task, load, terminate | stale mappings; stale pointers passed to free | isolation; what is held is kept; nothing leaks |
| disk stream and FAT16 | `disk/*.c`, `fs/fat/fat16.c` | stream position, the table's chain, directories | resolve, open, seek, read, close | reads that cross sectors and clusters, counts that skip deleted entries | a path opens what it means; a read delivers the file's bytes; loops end |
| paging | `memory/paging/paging.c` | directories and tables | get/set/map | ranges, alignment, entries replaced and put back | a segment's bytes are where its header says; no right is left over |
| descriptors and VFS | `fs/file.c` | descriptor table | fopen, fread, fseek, fstat, fclose | error path of fopen, the last index | every open descriptor can be used and closed |
| path parser | `fs/pparser.c` | — | parse | malformed paths, memory that runs out between parts | the file on the path, never one beside it |
| ELF loader | `loader/formats/elf_loader.c` | the loaded image | load, close | segments beyond the file, leaks on error | the mapped range holds the segments; every way out gives back what it took |
| terminal | `terminal/terminal.c` | cursor, cells | write, backspace | wrap at the margins, no scrolling | the screen shows the line |
| user library, shell | `../programs/stdlib`, `../programs/shell` | line buffer, `strtok`'s pointer | readline, parse_command, system | backspace on an empty line, a pointer that outlives its line | the words of the line are the arguments |
| dispatch | `idt/*`, `isr80h/isr80h.c`, `task/task.asm` | saved registers, loaded directory, handler tables | enter, dispatch, leave | two ways out of the kernel, handlers that change the current task | a program goes on where it stopped, as itself |
| boot, GDT, TSS, port I/O | assembly, `gdt/*`, `io/*` | processor registers | set-up | — | straight-line code |

Interactions: the system calls (`isr80h`) call process, task, keyboard, heap and
file functions for the *running task*; the keyboard interrupt works for the
*current process*; `process.c` keeps both in step. Every component allocates
from the kernel heap. Loading a program reads files through VFS, FAT16 and the
disk stream, then maps its pages.

`PROJECT.json` lists the hazards of this code line by line, with the properties
that watch each of them.

## 3. The modules

### Kernel heap

* `HeapTable` — an entry as a set of flag bits, and what each of the three loops
  of `heap.c` computes on a table: `heap_get_start_block` (lowest fit, *or the
  run at the table's end when there is none*), `heap_mark_blocks_taken`,
  `heap_mark_blocks_free`, and the rounding of sizes in 32-bit arithmetic.
* `Heap` — `heap_malloc`, `heap_free` as single steps over the table. `live` is a
  history variable: the allocations handed out. An allocation may reach past the
  table's end, as in the code; the model has no blocks there.
* `HeapLoops` — the same functions one loop iteration at a time, with the
  locals of the C functions (`i`, `block_count`, `starting_block`, `entry`) as
  variables. `table` and `live` change when a call returns.
* `AbstractAllocator` — what clients rely on: disjoint intervals, handed out and
  taken back whole. `Heap!Abstract` maps the table to it by the chains that
  begin at the entries flagged IS_FIRST, without the history variable.
* `HeapProofs`, `HeapLoopsProofs` — the theorems about `Heap` and `HeapLoops`
  (section 6).

### Processes and tasks

`Processes` has the process table (`processes`), `current_process`, the task
list (`list`: head, tail, current and the nodes at their addresses), the
addresses in use, and what the kernel is doing. `Boot`/`BootFails` is
`kernel_main`; `Start` is calls 6 and 7 when all goes well; each way a start
fails is an action: `StartRefused` (no slot, no memory), `StartLoadFails` (no
such file, bad ELF, no stack), `StartTaskFails` (`task_new` out of memory),
`StartMapFails` (error path through `process_free_process`),
`StartWithoutArguments` (call 7 after the load). `Exit` is call 9 and every
exception: `process_terminate` then `task_next`, in the order the code has.
`Faults` says which failures a run includes. `kernel = "undefined"` stands for
what follows the use of a bad pointer; it is not followed further.
`parent` is a history variable.

`Context` puts the processor around these steps: the frame of registers a program
runs with (which program, and the point it has reached), `task->registers`, and the
directory that is loaded. An interrupt or a call saves the frame in the current
task, or does not when the interrupt has no callback; it leaves the kernel either
by the frame on the kernel's stack (`iret`) or by what is saved of the task that was
switched to (`task_return`), each after the steps that the handler takes. That a
call is one step stays true: the kernel's directory is loaded while it runs.
`reached` is a history variable, `Points` bounds the points told apart.
`ProcessesProofs` holds the theorems of both modules.

### Keyboard

`Keyboard` is the buffer and the scancode translation as values; `Console`
composes it with `Processes`: interrupts and `getkey` interleave with every
process step, and a process structure is cleared when it is allocated.
`KeyQueues` is the abstract promise — a queue per program, typed into for the
program that has the CPU — and `ImplementsKeyQueues` the refinement. The 1024-byte
buffer is `BufferSize`, the 32-bit counters wrap at `CounterLimit`; `TypeAhead`
bounds how far the user types ahead of the program. `ConsoleProofs` holds the
theorems.

### Memory of programs

`ProcessMemory` reduces the kernel heap to the set of used blocks (what `Heap`
guarantees is what it assumes: a block handed out was in use by nobody) and a
page to a block. It has the allocation slots, the pages each program may
write, the image, and the history of who got a block. `process_free` is given
*every* block: pointers held, given back already, or never got.
`ProcessMemoryProofs` holds its theorems.

`Paging` is `paging.c` as arithmetic: a directory is its tables' entries, each a
page and a set of flags; the index of an address, the two alignments (the upper one
wraps at the end of the 32 bits), `paging_map_range` written down at once instead
of page by page, and the translation of an address. `ProgramPages` extends both:
the same operations, each with what it writes into the program's directory
(`process_map_elf`, `process_map_binary`, the stack, `process_malloc`,
`process_free`, the entry that `copy_string_from_task` replaces and puts back), and
with a heap that gives the lowest blocks that hold a request. `MCProgramPages` checks in two
assumptions that the forms without a loop are what the loops of the code compute.
`ProcessMemory` is thereby the abstract specification of `ProgramPages`: it says
which pages a program may write, `DirectoryGrants` that its directory says the
same. `ProgramPagesProofs` holds the theorems of both.

### The shell, the screen and the path

`Terminal` maps a terminal (a cursor of two 16-bit numbers, the cells written) to
the terminal after `terminal_writechar`, with the backspace that writes a blank
and steps back over it. `CommandLine` is `strtok` with the pointer it keeps
between calls, and `simpos_parse_command`; `PathParser` is `pathparser_parse` with every
allocation in it that may fail. `Shell` composes them with `Loader`: it reads a key
at a time as `simpos_terminal_readline` does, echoes it, runs the line, and the
kernel loads what the first word names. The programs loaded before share the
screen with it and end at any time. `ShellProofs` holds the theorems about the
screen, the command line and the path, and about `Loader`.

### Files and the loaders

`Loader` follows `process_load_data` through `elf_load`, `process_load_binary`,
`fopen`, `fstat`, `fread`, `fclose` and the FAT16 functions below them, one call
per action and one action or disjunct per way out. What matters is what each way
out gives back, so the heap is reduced to how many structures of each kind are in
use. Where the code uses a pointer that is none (an error value closed, a null
result written through, a directory freed twice) `kernel` names the cause and the
behaviour ends. Its file is any file in `close_error`, and the one on the typed path
in `Shell`.

### Disk stream and FAT16

`DiskStream` is one call of `diskstreamer_read`, including the recursive call
with a whole sector taken off the total; a byte is represented by its position
on the disk. `Fat16` resolves a volume (the count and the read of its root
directory), opens a path part by part (`fat16_get_directory_entry`: the names of
the entries put together from name and extension, compared with `istrncmp`;
directories counted and read through the stream), seeks, and reads a file cluster
by cluster, one sector or one cluster per step. The
entries of a directory that a read delivers are those at the positions it
delivered: what a short count or a stream that moved leaves out is not found. What
volumes may be (`VolumesAssumption`) and how their entries are named
(`NamesAssumption`: a name filled up with spaces, a point, an extension) is said
without the functions of `fat16.c`. `Fat16Proofs` holds the theorems.

## 4. The runs

Runs that pass:

| run | bounds | what it shows |
|---|---|---|
| `heap_loops` | 6 blocks of 4 bytes, sizes of 1, 2, 3 and 5 blocks, aligned or not | The loops do what `Heap` does in one step (`LoopsImplementHeap`), which is the abstract allocator (`ImplementsAllocator`); `LoopsInv` says what each loop has established at each iteration. Six blocks leave room for holes of each size, requests no hole fits, and runs past the end. Every call returns. |
| `processes` | 3 slots, 3 structures each, mapping failures, interrupts and other calls at any time, points of a program not told apart | List and table stay complete and agree; the CPU goes back to the starter; a starter that waits runs again. |
| `process_faults` | 2 slots, every failure, interrupts and other calls at any time, 2 points per program, symmetry over addresses | The CPU is only given to live tasks, a program goes on where it stopped with its own registers and directory, and the kernel panics only when the table is empty, whatever failed before. One structure more than there are slots lets leaked and reused addresses occur. |
| `console` | 2 processes, buffer of 2, counters that wrap at 4, 2 keys unread | Keys are routed and ordered as `KeyQueues` says, over wrap-around of ring and counters and reuse of process structures. |
| `process_memory` | 2 programs (alike: symmetry), 16 pages of 4 bytes in 4 tables, 6 heap blocks, 2 slots, an ELF file of 3 headers and a binary | Isolation, kept memory and exact slots under frees of every block and NULL; the directories grant just the pages a program may write; every byte of every segment and of the stack is where the file says; held memory has one address for both sides. Two ELF programs fill the six blocks; two binaries leave two for allocations, lost ones and the kernel's, so that loads and allocations also find no room. A page of four bytes lets segments begin inside a page, end inside one, share one and span two. |
| `fat16` | sectors of 8 bytes, clusters of 2 sectors, a file of three clusters out of order, directories with deleted entries at every place, 21 volumes, 8 paths, 13 sizes, reads after reads and seeks | A path opens the entry it means in either case, or none; a read from the start of a cluster delivers the file's bytes, any read fails only past the file's last cluster; every call returns. |
| `shell` | screen of 4 by 4, lines of up to 4 characters of 3, 1 program of a kind in memory, 3 leaked structures of a kind, every failure of memory and disk | What is shown behind the prompt is the line that runs; its words are the arguments; the file opened is on the path the first word names; whichever way a load ends, its file is closed, nothing is freed twice and the programs' memory is all that stays; every load ends. Four columns make lines wrap; two descriptors are one more than a load may hold. |

Runs that find a violation; each counterexample is a behaviour of the code that
contradicts what the repository says of itself (quoted in `PROJECT.json`):

| run | property | behaviour |
|---|---|---|
| `heap_space` | `SpaceReserved` | With no fit, `heap_get_start_block` returns the run at the table's end; the allocation covers blocks past the heap. |
| `stale_prev` | `PrevIsPredecessor` | `task_list_remove` does not set `next->prev`. With four processes, one that ends in the middle of the list leaves its successor's `prev` on freed memory. With up to three processes and nothing but mapping failures the program that ends is always the list's tail: removal makes the head current and `task_next` then picks the second. |
| `process_leak` | `NothingLeaks` | `process_find_free_allocation_index` always answers 1; the second allocation replaces the record of the first, which outlives the program. |
| `fat16_full_sector` | `CountReturns` | A read that ends exactly at a sector's end calls itself with a negative total and moves the stream back: sixteen directory entries or more are counted for ever. |
| `close_error` | `CloseGetsPrivateData` | A name that is no file: `fopen` passes the error value of `fat16_open` to `fat16_close`, which reads through it. |

Bounds that are a restriction, not only a size. These are behaviours the passing
runs do *not* claim:

* `CurrentAgrees` and `ImplementsKeyQueues` hold for two processes.
  With three, `process_switch_to_any` (lowest slot) and `task_next` (next in the
  list) can choose differently, and keys go to another program than the one that
  reads them.
* `NothingBehindNull` holds while the user leaves at most `BufferSize` keys
  unread; beyond, `keyboard_push` overwrites unread keys.
* `ListComplete`, `PrevIsPredecessor` and `ParentResumes` are claimed up to three
  processes; `stale_prev` shows the first step of what happens with four.
* `RunsLiveTask`, `RunsItsOwn` and `PanicOnlyWhenEmpty` are claimed for two processes: with
  memory failures a program can end while another one is behind it in the list.
* `NothingOrphaned` is claimed for mapping failures. A program file that cannot
  be loaded leaves its process structure allocated (`process.c:390`).
* `shell` allows for three losses the code has: the parsed path of every file
  opened, `elf_load`'s structure when `fopen` fails, and what is behind an
  undefined step; `LeakLimit` is where counting them stops. `EchoShowsLine`
  speaks of lines in which nothing is erased at the left margin or on an empty
  line and nobody else prints (`clean`): each of the three makes screen and line
  differ. Another program prints at most once in a line. The shell is followed to
  the last row of the screen (`OnScreen`), because there is no scrolling; the 16-bit row is
  thereby far from its end. `ParsesTheLine` speaks of lines after which `strtok` began anew: one that
  ran out of memory leaves its pointer to the next.
* `process_memory` has allocations of up to one page and a heap that
  refuses what it cannot hold (`heap_space` shows that `heap.c` may not), and
  program files whose segments lie inside the pages of the file, at the same
  place of a page in both (`ProgramPagesAssumption`): `p_memsz` beyond them maps
  blocks of others. A load that fails half way is in `Processes` and `Loader`.
  `process_inject_arguments` is a sequence of `Malloc` steps.
* `fat16` has directories shorter than a sector. A read that begins inside a
  cluster and crosses its end delivers other bytes than the file's, and a deleted entry hides
  files behind it; both are steps of the model, and the properties say when. No path has "..":
  its entry in a directory below the root names cluster 0. `PositionLimit`
  bounds how far a file is read and sought.

`CHECK_DEADLOCK` is on everywhere: a panicked or undefined kernel stutters
explicitly (`Stopped`).

## 5. Fairness

* `HeapLoops`: `WF(Step)` — the processor executes the call it is in. Callers
  need not call.
* `Fat16`: `WF(Work)` — same; opens, seeks and reads are optional.
* `Shell`: weak fairness of the kernel's steps of system call 7 and of the shell's
  return from it: the call runs with interrupts off until it returns or starts
  the program. Keys need not come, and programs need not end.
* `Context!ContextFairSpec`: `WF(Boot)`, and for each program that another one
  started, strong fairness of its end. `main` of such a program returns to
  `_start` (`src/programs/stdlib/src/start.asm`), which calls exit, so a program
  that gets the CPU again and again ends: that is an assumption on programs, and
  only on started ones; the shell loops for ever. Interrupts may come for ever
  between its steps. Nothing is assumed of who gets the CPU: that follows from the
  list. `StarterRunsAgain` is the claim that
  follows; a kernel that always switched to the head of the list breaks it.

Safety runs use no fairness.

## 6. What is proved

`tlapm` checks the following for every value of the constants that satisfies the
named assumptions. The inductive invariant of each module was checked by TLC before
it was proved; the runs check its conjuncts.

### Kernel heap

`HeapProofs`, for any number of blocks, block size, word size divisible by the
block size, under `SoundRequests` (no request rounds to zero blocks: none is 0 or within a
block of 2^32; loading an empty file is the one caller that breaks this):

* `HeapInvariant`: `Spec => []IInv`, where `IInv` is the type invariant,
  `Disjoint`, `TableMatchesLive` and `NonEmpty`. `Disjoint` alone is not
  inductive: that a first fit meets no live allocation needs each of its blocks
  to be flagged TAKEN, and that a free leaves the others alone needs the flags
  to be exactly what marking wrote (`Marked`), with the last block inside the
  table unchained. For an allocation that runs past the table the walk ends with
  the table (`OverrunHasLastBlock`, `ChainIsAllocation`); two such allocations
  cannot coexist, because the trailing run starts behind the last used block.
* `AllocationsDisjoint`, `TableIsExact` — its conjuncts.
* `FreeClearsItsOwn`, `FirstFitIsFound` — action properties, from the invariant.
* `HeapImplementsAllocator` — refinement of `AbstractAllocator`: the chains read
  off the table are the live allocations (`ChainsAreAllocations`), each an
  interval (`AllocationIsInterval`); a malloc adds one, a free removes one.

`HeapLoopsProofs`, with no assumption on the requests:

* `LoopsInvariant`: at each iteration the scan's counter is the length of the free
  run that ends before `i` and no earlier run was long enough (`Scanned`); the
  table with the entries marked so far, and the entry carried to the next one, is
  the table marking will leave (`Marking`); a free has cleared the chain up to `i`
  (`Freeing`).
* `LoopsAreHeap`: each iteration stutters in `Heap` but the last, which is its step.
* `LoopsImplementAllocator`: with `HeapProofs`, under `SoundRequests`.

### Processes, context and keyboard

`ProcessesProofs`, for any addresses. Two results hold for any number of slots and
any failures *as long as the CPU is only given to live tasks*:

* `TableMatchesList` (`TableInv`: types, `SlotsMatchTasks`, a task is its process's,
  the current process is in the table) and, with mapping failures only, `NoneOrphaned`;
* `ProgramsKeepRegisters`: `RunsItsOwn`. A program that waits has its frame in its own task
  because a call saves before anything can switch.

That the CPU is only given to live tasks depends on the shape of the list, and the
code keeps it only so far (section 4): the hypotheses below are where it does,
and the violation runs show what is beyond them.

* At most two slots, whatever fails (`PairInv`: the list is one task or two, the
  first's `prev` and the only one's `next` possibly stale): `TwoSlotsRunLive`
  (`RunsLiveTask`, `PanicOnlyWhenEmpty`), `TwoSlotsRunTheirOwn`.
* At most three slots, and the kernel heap never exhausted (`StackInv`: up to three tasks, each
  started by the one before it, the last one running): `ThreeSlotsKeepTheList`
  (`TypeOK`, `ListComplete`, `PrevIsPredecessor`, `SlotsMatchTasks`),
  `ThreeSlotsRunLive`, `ThreeSlotsOrphanNone`, `ThreeSlotsRunTheirOwn` and the action
  property `ThreeSlotsResumeParents`. With two slots also `TwoSlotsAgree` (`CurrentAgrees`).
* `ContextImplementsProcesses`: the processor's steps are `Processes` steps or stutters.

`ConsoleProofs`, for a user who types no further ahead than the buffer is long, and
not as far as the counters count (`RoomToType`; the buffer has 1024 cells, its counters 32 bits):

* `BuffersInvariant`, `NullEndsInput`: in every buffer the written cells come before
  the null ones, in the order of the ring and across wraps of the counters
  (`Ordered`, by position from the head: `CellsInOrder`, `PushAppends`, `PopTakesFirst`).
* `AgreementKeepsQueues`, `TwoSlotsKeepQueues`: `KeyQueues` is implemented, step by
  step, while table and list agree on who runs; with two slots they do.
  `ConsoleImplementsProcesses` carries the theorems on processes over.

### Memory of programs and paging

`ProcessMemoryProofs`, for any sets of programs and blocks and at least two slots:

* `ProcessMemoryInvariant`: `Spec => []IInv`. `Isolated` needs `TrackedIsOwn`
  (a free kills only the caller's pages), and both need `ImageIsOwn` (a program
  that is not alive maps and tracks nothing; the image is not a slot), so the
  five go together.
* `TypeCorrect`, `ProgramsIsolated`, `HeldMemoryIsKept`, `SlotsAreOwn`.

`ProgramPagesProofs`, on page directories, for every number of entries and size of pages: an address has one
entry and an entry one page (`EntryHasPage`, `PageHasEntry`, from the uniqueness of
quotient and remainder); reading after writing an entry (`GetAfterSet`); a page
mapped to what it had and restored leaves the directory unchanged
(`MapAndRestore`); what a mapped range reads back (`RangeRead`, `MapToRead`); and
`SegmentBytes`: after `paging_map_to` of a range cut down to a page at its start
and up at its end, each byte of the range has the physical address at the same
distance.

and on the operations, for any programs, files and sizes under
`ProgramPagesAssumption`:

* `PagesImplementMemory`: `PagesSpec => Spec` of `ProcessMemory`. Each operation
  on directories is its operation on sets of pages, so the theorems above
  hold of the detailed specification too.
* `PagesInvariant`, `HeldSeenByKernel`: a program's directory is one, and each page
  it holds is mapped to itself. Inductive with `IInv` of `ProcessMemory`: a
  free or a copied string touches one page, which is another one or is put back
  (`HeldIsKept`, `TrackedIsOwn`), and a load finds nothing held by its program.

and, under `LayoutAssumption`, which is where the linker scripts and `config.h` put
things (sections are aligned to 4096 and linked from 0x400000, the stack ends at
0x3FF000, the heap begins at 0x01000000): no page has two headers, and the stack,
the image and the heap's blocks have different pages:

* `ImageInvariant`: what a directory says of every page is what the load wrote
  there (`Placed`), every block of the heap leads to itself (`HeapIsIdentity`), and
  `DirectoryGrants`. They go together: a free must find the entry it clears granting
  its own page and no other.
* `GrantsExactly` (`DirectoryGrants`), `SegmentsStayMapped` (`SegmentsAreMapped`).

### Shell, loader and screen

`ShellProofs`, for any files, sets of characters and size of the screen up to 2^16:

* `LoaderInvariant`: at each place of a load, `inUse` is what the programs in memory
  hold plus what the locals of the calls under way hold (`HoldsFile`,
  `HoldsMemory`, `HoldsResult`). Hence `LoaderTypes`, `LoadsCloseTheirFile`
  (`FilesClosed`), `LoadsAreAccounted` (`ProgramsAccounted`), for `Shell` and, as
  `LoaderKeepsAccount`, for `Loader` alone: `Shell` does not implement `Loader` step
  by step, because the parsed path replaces the file's name at `fopen`.
* `ScreenShowsLine` (`EchoShowsLine`): `EchoInv` says that the cursor is as many
  cells behind the prompt as the line has characters and that those cells show it. In 16-bit
  arithmetic the cursor moves by one position at every write, over the ends of rows
  (`CursorIs`, `WrittenIs`, `BackspaceIs`).
* `LineBecomesItsWords` (`ParsesTheLine`) and `OpensTheNamedFile` (`OpensOnThePath`),
  for lines of any length. `CommandInv` bounds the line and the words by the buffer and
  keeps the buffer a string. The code and the meaning of a line meet in a count: the
  `n`-th word is the one with `n` beginnings of words up to its own (`CountIs`, `WordAt`),
  and as many words have ended as begun wherever none is going on (`WordsBalance`).
  `strtok` stands at such a place after `k` words and cuts off the next (`AtWord`,
  `CutsWord`), `pathparser_get_path_part` likewise up to the first empty part (`AtPart`,
  `CutsPart`). The two loops are functions of the turn; that they exist, and what they have
  after each turn (`CommandIsParsed`, `PathIsParsed`), is shown by a least turn that
  breaks it. `ShellAssumption` says that no key is the character 0: `simpos_getkeyblock`
  waits for another.

### Disk stream and FAT16

`Fat16Proofs`, for any size of sector (at least two items), cluster and root directory
that are multiples as on a disk, any table, volumes, paths, sizes and offsets.
The assumptions say what a volume is: a directory fits the space at its cluster, a
file's chain is laid out in the table, no cluster of it has a number that
`fat16_get_cluster_for_offset` takes for the end of a chain (4080, 4086, 4087: a chain
over one of those is cut off by the code), names are unique in a directory, and no path
contains the byte 0xE5 of deleted entries.

* `FileInvariant` (`FileInv`): a directory's count is behind the first `n` entries, has
  those that were not deleted, and the stream is at the next one (`CountAt`); once
  the stream has wrapped inside a full sector nothing is said of the count, and the loop
  does not end (`fat16_full_sector`). A directory in memory has the first entries of
  the one on the disk (`Loaded`). A read has copied the bytes from its begin to its offset
  (`ReadsFile`), and the stream whole sectors of the cluster it reads (`Running`).
  The pieces: a stream that begins with a sector delivers what was asked for
  (`StreamRuns`), one item is read in one call, the last one of a sector in two
  (`ItemIsRead`); a byte of the disk belongs to one directory (`OnePlace`,
  `ItemIsAt`); `Hops` leads along a chain and to `EIO` behind it (`HopsAlongChain`).
* `ReadsDeliverTheFile` (`ReadsTheFile`), `ReadsFailOnlyPastEnd` (`FailsOnlyPastEnd`).
* `LookupFollowsThePath`, `OpensMeantEntry` (`OpensWhatIsMeant`): the names that the code
  puts together compare as those that are meant (`FullName`, `SameName`); a lookup finds
  the one entry that has the name, unless the count stops before it, which needs an entry in use
  behind a deleted one (`FindsEntry`).

### Model-checked only

Every liveness property, and what rests on ENABLED: out of the prover's reach. Every
invariant and every action property of a passing run is stated by a theorem.

The library's induction theorems take an operator as a parameter, which the provers
here cannot instantiate. An induction over numbers can be written without them, as a
least counterexample (`WFMin` with `NatLessThanWellFounded`); `ProcessesProofs` does so
for the lowest slot, `Fat16Proofs` (`LeastNumber`) for the walk along a chain and the parts
of a path, and `ShellProofs` for the words of a line and the parts of a name, whose
recursive functions are thereby known for every length.

## 7. What is not modelled, and the plan

Not modelled: GDT, TSS, boot code and port I/O (straight-line set-up); single
registers (what a call returns, too); the filling of the interrupt and system call
tables; colours; the
formatting functions of the user library; `elf_process_phdr_pt_load`, whose four
addresses nobody reads; the contents of programs; `fat16_resolve`'s refusal of a
volume that is not FAT16, after which the kernel runs no program; memory that
fails inside a lookup of a nested directory; what `kfree(0)` clears below the
heap's table and what is printed behind the screen's last row.

What is left to prove: statements about single functions that the invariants use only
in part, such as what `strtok` leaves in the buffer between two words, and how many
structures each way out of a failed load leaves allocated.

---------------------------- MODULE ProcessMemory ----------------------------
(***************************************************************************)
(* The memory of programs: process_malloc and process_free                 *)
(* (src/task/process.c, system calls 4 and 5 in src/isr80h/heap.c), the    *)
(* mapping of a program's pages (src/memory/paging/paging.c), the strings  *)
(* the kernel copies out of programs (src/task/task.c) and the release of  *)
(* everything when a program ends.  The kernel heap is reduced to the set  *)
(* of its used blocks; an allocation is one block, which is one page.      *)
(* ProgramPages says what the page directories do to these blocks.         *)
(***************************************************************************)
EXTENDS Integers, FiniteSets

CONSTANTS Program,      \* the processes
          Block,        \* the blocks of the kernel heap
          NULL,
          KERNEL,       \* the owner of the kernel's own blocks
          MaxAllocations \* SIMPOS_MAX_PROGRAM_ALLOCATIONS

ASSUME ProcessMemoryAssumption ==
  /\ NULL \notin Block \cup Program \cup {KERNEL}
  /\ KERNEL \notin Block \cup Program
  /\ MaxAllocations \in Nat /\ MaxAllocations >= 2

VARIABLES alive,        \* the processes that run or wait to
          used,         \* blocks in use in the heap's table
          allocations,  \* process->allocations
          writable,     \* pages a process's directory lets it write
          image,        \* blocks with a process's program and stack
          held,         \* history: blocks a program got and did not give back
          gotBy         \* history: whom a used block was allocated for

vars == <<alive, used, allocations, writable, image, held, gotBy>>

Slot == 0..(MaxAllocations-1)

Init ==
  /\ alive = {} /\ used = {} /\ held = {}
  /\ allocations = [p \in Program |-> [i \in Slot |-> NULL]]
  /\ writable = [p \in Program |-> {}]
  /\ image = [p \in Program |-> {}]
  /\ gotBy = [b \in Block |-> NULL]

kzalloc(blocks, who) ==
  /\ blocks \subseteq Block \ used
  /\ used' = used \cup blocks
  /\ gotBy' = [b \in Block |-> IF b \in blocks THEN who ELSE gotBy[b]]

kfree(blocks) ==
  /\ used' = used \ blocks
  /\ gotBy' = [b \in Block |-> IF b \in blocks THEN NULL ELSE gotBy[b]]

\* process_load_for_slot and process_map_memory: the program's file and its stack
\* are loaded and mapped, some of it for writing.  Its segments lie inside its file
\* (p_memsz does not reach past it).
Load(p, blocks, writes) ==
  /\ p \notin alive /\ writes \subseteq blocks
  /\ kzalloc(blocks, p)
  /\ alive' = alive \cup {p}
  /\ image' = [image EXCEPT ![p] = blocks]
  /\ writable' = [writable EXCEPT ![p] = writes]
  /\ allocations' = [allocations EXCEPT ![p] = [i \in Slot |-> NULL]]
  /\ UNCHANGED held

------------------------------------------------------------------------------
\* The slot used is 1 while any slot is free.
process_find_free_allocation_index(p) == 1

HasFreeSlot(p) == \E i \in Slot : allocations[p][i] = NULL

process_malloc(p, b) ==
  /\ p \in alive /\ HasFreeSlot(p)
  /\ kzalloc({b}, p)
  /\ writable' = [writable EXCEPT ![p] = @ \cup {b}]
  /\ allocations' = [allocations EXCEPT ![p][process_find_free_allocation_index(p)] = b]
  /\ held' = held \cup {b}
  /\ UNCHANGED <<alive, image>>

\* The heap is full, or no slot is free and the block is given back at once: the
\* program gets NULL.
process_malloc_fails(p) ==
  /\ p \in alive
  /\ used = Block \/ ~HasFreeSlot(p)
  /\ UNCHANGED vars

\* process_get_allocation_addr finds the pointer in some slot.
IsAllocation_Unchecked(p, b) == TRUE

IsAllocation(p, b) == \E i \in Slot : allocations[p][i] = b

remove_process_allocation_Skipped(p, b) == allocations
remove_process_allocation_WholeTable(p, b) == [allocations EXCEPT ![p] = NULL]

remove_process_allocation(p, b) ==
  [allocations EXCEPT ![p] = [i \in Slot |-> IF @[i] = b THEN NULL ELSE @[i]]]

\* paging_map_to with no flags takes the page from the program.
Unmapped_Skipped(p, b) == writable
Unmapped(p, b) == [writable EXCEPT ![p] = @ \ {b}]

\* The program gives back a block it holds, or passes a pointer it no longer
\* holds or never held: only an allocation of its own is freed.  NULL is found in an
\* empty slot, whose allocation has no page; kfree of it clears bytes below the
\* heap's table, which are not part of this state.
process_free(p, b) ==
  /\ p \in alive
  /\ IF b # NULL /\ IsAllocation(p, b)
     THEN /\ writable' = Unmapped(p, b)
          /\ allocations' = remove_process_allocation(p, b)
          /\ kfree({b})
     ELSE UNCHANGED <<writable, allocations, used, gotBy>>
  /\ held' = {c \in held : c # b \/ gotBy[c] # p}
  /\ UNCHANGED <<alive, image>>

\* copy_string_from_task maps a buffer into the caller's directory, copies, puts
\* the old entry back, and does not free the buffer.
copy_string_from_task(p, b) ==
  /\ p \in alive
  /\ kzalloc({b}, KERNEL)
  /\ UNCHANGED <<alive, allocations, writable, image, held>>

Tracked(p) == {allocations[p][i] : i \in Slot} \ {NULL}

\* process_terminate: every tracked allocation, the program and its stack, and
\* the page directory are freed.
process_terminate(p) ==
  /\ p \in alive
  /\ alive' = alive \ {p}
  /\ kfree(Tracked(p) \cup image[p])
  /\ writable' = [writable EXCEPT ![p] = {}]
  /\ allocations' = [allocations EXCEPT ![p] = [i \in Slot |-> NULL]]
  /\ image' = [image EXCEPT ![p] = {}]
  /\ held' = {b \in held : gotBy[b] # p}

Next == \E p \in Program :
  \/ \E blocks \in SUBSET Block : \E writes \in SUBSET blocks : Load(p, blocks, writes)
  \/ process_malloc_fails(p)
  \/ \E b \in Block : process_malloc(p, b) \/ copy_string_from_task(p, b)
  \/ \E b \in Block \cup {NULL} : process_free(p, b)
  \/ process_terminate(p)

Spec == Init /\ [][Next]_vars

------------------------------------------------------------------------------
(* Correctness *)

TypeOK ==
  /\ alive \subseteq Program /\ used \subseteq Block /\ held \subseteq Block
  /\ allocations \in [Program -> [Slot -> Block \cup {NULL}]]
  /\ writable \in [Program -> SUBSET Block]
  /\ image \in [Program -> SUBSET Block]
  /\ gotBy \in [Block -> Program \cup {NULL, KERNEL}]

\* A page a program can write is in use and was allocated for that program:
\* memory freed, of the kernel or of another program is out of its reach.
Isolated == \A p \in Program : \A b \in writable[p] : b \in used /\ gotBy[b] = p

\* What a program holds stays allocated and writable until it gives it back,
\* whatever pointers it or others pass to free.
HeldIsKept == \A b \in held :
  /\ b \in used /\ gotBy[b] \in alive
  /\ b \in writable[gotBy[b]]

\* process_terminate frees only what is still the program's own: a slot names a
\* used block of this program, in one slot at most, and never its image.
TrackedIsOwn == \A p \in Program : \A i, j \in Slot :
  LET b == allocations[p][i]
  IN b # NULL =>
       /\ b \in used /\ gotBy[b] = p /\ b \notin image[p]
       /\ allocations[p][j] = b => i = j

\* The image of a process is its own; one that was not started, or that ended, has
\* nothing.
ImageIsOwn == \A p \in Program :
  /\ \A b \in image[p] : b \in used /\ gotBy[b] = p
  /\ p \notin alive => /\ image[p] = {} /\ writable[p] = {}
                      /\ \A i \in Slot : allocations[p][i] = NULL

IInv == TypeOK /\ Isolated /\ TrackedIsOwn /\ ImageIsOwn /\ HeldIsKept

\* process.h:37 "keeps track of allocations to avoid memory leaks": a block stays
\* in use for a program only as long as the program lives.
NothingLeaks == \A b \in used : gotBy[b] \in Program => gotBy[b] \in alive

==============================================================================

-------------------------------- MODULE Heap --------------------------------
(***************************************************************************)
(* The kernel heap: heap_create, heap_malloc and heap_free over the block  *)
(* table (src/memory/heap/heap.c), as kmalloc and kfree drive it           *)
(* (src/memory/heap/kernel_heap.c).  The kernel runs with interrupts off,  *)
(* so a call is one step.                                                  *)
(***************************************************************************)
EXTENDS HeapTable

CONSTANT Requests       \* the sizes the kernel asks for

ASSUME RequestsAssumption == Requests \subseteq 0..(SizeLimit-1)

VARIABLES table,        \* heap_table.entries
          live          \* history: the allocations handed out and not yet freed

vars == <<table, live>>

Allocation == [start : Blocks, blocks : Nat]

\* The blocks an allocation covers; the part past the table's end is memory the
\* heap does not own.
Range(a) == a.start .. (a.start + a.blocks - 1)
InTable(a) == Range(a) \cap Blocks

\* heap_create: every entry of the table is cleared.
Init == table = [k \in Blocks |-> FREE] /\ live = {}

heap_malloc(size) == \E b \in Blocks :
  /\ heap_get_start_block(table, total_blocks(size), b)
  /\ table' = heap_mark_blocks_taken(table, b, total_blocks(size))
  /\ live' = live \cup {[start |-> b, blocks |-> total_blocks(size)]}

\* The pointer is NULL: no state changes.
heap_malloc_fails(size) ==
  /\ \A b \in Blocks : ~heap_get_start_block(table, total_blocks(size), b)
  /\ UNCHANGED vars

\* kfree of a pointer its owner got from kmalloc and has not freed yet.
heap_free(a) ==
  /\ table' = heap_mark_blocks_free(table, a.start)
  /\ live' = live \ {a}

Next == \/ \E size \in Requests : heap_malloc(size) \/ heap_malloc_fails(size)
        \/ \E a \in live : heap_free(a)

Spec == Init /\ [][Next]_vars

------------------------------------------------------------------------------
(* Correctness *)

TypeOK == table \in [Blocks -> Entry] /\ live \subseteq Allocation

\* No two live allocations share a block: a first fit never hands out a block in
\* use, whatever the order of calls, even when the request ran past the table.
Disjoint == \A a, b \in live : a # b => Range(a) \cap Range(b) = {}

\* The entries of a live allocation are exactly those heap_mark_blocks_taken
\* wrote for it, so that heap_free's walk stops at its own last block ...
Marked == \A a \in live : \A k \in InTable(a) :
            table[k] = TakenEntry(a.start, a.blocks, k)

\* ... and an entry in use belongs to a live allocation: no block is lost.
Owned == \A k \in Blocks : table[k] # FREE => \E a \in live : k \in Range(a)

\* The table says exactly which blocks the live allocations hold.
TableMatchesLive == Marked /\ Owned

\* An allocation has at least one block (if the requests are sound).
NonEmpty == \A a \in live : a.blocks > 0

\* Every request asks for a block at least: it is not 0, as it is for an empty
\* file, nor so close to 2^32 that rounding it up wraps to 0.
SoundRequests == \A size \in Requests : total_blocks(size) > 0

IInv == TypeOK /\ Disjoint /\ TableMatchesLive /\ NonEmpty

\* Freeing one allocation makes exactly its blocks free and touches the entries
\* of no other: the walk of heap_mark_blocks_free never runs on.
FreeIsExact == [][\A a \in live \ live' :
                    \A b \in Blocks : table'[b] = IF b \in Range(a) THEN FREE
                                                  ELSE table[b]]_vars

\* An allocation gets the lowest run of free blocks that holds it whenever there
\* is one: memory that is free is never overlooked, and nothing runs past the end
\* while it could fit.
FitIsFound == [][\A a \in live' \ live :
                   \A c \in Blocks : Fits(table, c, a.blocks)
                     => a.start =< c /\ a.start + a.blocks =< Total]_vars

\* The heap promises its clients what AbstractAllocator does: the intervals in
\* use are read off the table alone, a chain from each entry flagged IS_FIRST.
Chains == {Chain(table, b) : b \in {k \in Blocks : IS_FIRST \in table[k]}}

Abstract == INSTANCE AbstractAllocator WITH used <- Chains

ImplementsAllocator == Abstract!Spec

\* heap.c:151 "aligns the value to the upper block size, to reserve enough space
\* for the data": every allocation lies inside the heap and has its own blocks.
SpaceReserved == \A a \in live : a.blocks > 0 /\ Range(a) \subseteq Blocks

==============================================================================

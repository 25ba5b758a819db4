------------------------------ MODULE HeapTable ------------------------------
(***************************************************************************)
(* The kernel heap's block table (src/memory/heap/heap.c) as values: an    *)
(* entry is the set of its flag bits, a table a function from block        *)
(* numbers to entries.  The operators say what the table's three loops     *)
(* compute; HeapLoops runs the three loops one iteration at a time.        *)
(***************************************************************************)
EXTENDS Integers

CONSTANTS Total,      \* heap_table.total, the number of blocks of the heap
          BlockSize,  \* SIMPOS_HEAP_BLOCK_SIZE
          SizeLimit   \* 2^32: sizes are uint32_t and wrap at this value

ASSUME HeapAssumption ==
  /\ Total \in Nat \ {0}
  /\ BlockSize \in Nat \ {0}
  /\ SizeLimit \in Nat \ {0}
  /\ SizeLimit % BlockSize = 0

Blocks == 0..Total-1

TAKEN    == "TAKEN"
IS_FIRST == "IS_FIRST"
HAS_NEXT == "HAS_NEXT"

Entry == SUBSET {TAKEN, IS_FIRST, HAS_NEXT}
FREE  == {}

\* heap_get_entry_type: only the TAKEN bit tells a free entry from a used one.
IsFree(tbl, k) == TAKEN \notin tbl[k]

\* Blocks b .. b+n-1 lie inside the table and are all free.
Fits(tbl, b, n) == b + n =< Total /\ \A k \in b..(b+n-1) : IsFree(tbl, k)

\* b is the first block of the run of free blocks that ends the table.
TrailingRun(tbl, b) ==
  /\ \A k \in b..(Total-1) : IsFree(tbl, k)
  /\ b > 0 => ~IsFree(tbl, b-1)

\* heap_get_start_block returns b for a request of n blocks: the lowest run of
\* n free blocks or, when the scan met none, the trailing run it was counting
\* when the table ended.  A count of 0 is never met: the counter is compared
\* after it was increased.
FirstFit(tbl, n, b) ==
  /\ n > 0
  /\ Fits(tbl, b, n)
  /\ \A c \in 0..(b-1) : ~Fits(tbl, c, n)

NoFit(tbl, n) == n > 0 => \A c \in Blocks : ~Fits(tbl, c, n)

heap_get_start_block(tbl, n, b) ==
  \/ FirstFit(tbl, n, b)
  \/ NoFit(tbl, n) /\ TrailingRun(tbl, b)

\* The entries heap_mark_blocks_taken writes inside the table for the blocks
\* b .. b+n-1: the first is flagged, all but the last have a successor.
TakenEntry(b, n, k) ==
  {TAKEN} \cup (IF k = b THEN {IS_FIRST} ELSE {})
          \cup (IF k = b+n-1 THEN {} ELSE {HAS_NEXT})

heap_mark_blocks_taken(tbl, b, n) ==
  [k \in Blocks |-> IF k \in b..(b+n-1) THEN TakenEntry(b, n, k) ELSE tbl[k]]

\* The blocks heap_mark_blocks_free walks from b: up to and including the first
\* entry without a successor, or the end of the table.
Chain(tbl, b) ==
  {k \in b..(Total-1) : \A j \in b..(k-1) : HAS_NEXT \in tbl[j]}

heap_mark_blocks_free(tbl, b) ==
  [k \in Blocks |-> IF k \in Chain(tbl, b) THEN FREE ELSE tbl[k]]

\* Rounds a size up to whole blocks in 32-bit arithmetic.
heap_align_value_to_upper(val) ==
  IF val % BlockSize = 0 THEN val
  ELSE ((val - (val % BlockSize)) + BlockSize) % SizeLimit

total_blocks(size) == heap_align_value_to_upper(size) \div BlockSize

==============================================================================

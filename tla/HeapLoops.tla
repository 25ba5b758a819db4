------------------------------ MODULE HeapLoops ------------------------------
(***************************************************************************)
(* heap_malloc and heap_free loop iteration by loop iteration:             *)
(* heap_get_start_block's scan, heap_mark_blocks_taken's writes and        *)
(* heap_mark_blocks_free's walk over table->entries.  Heap's variables     *)
(* table and live follow at each return, and the loops are shown to do     *)
(* what Heap does in one step.                                             *)
(***************************************************************************)
EXTENDS Heap

VARIABLES entries,        \* table->entries while a call runs
          pc,             \* the loop that runs, or "idle" between calls
          i,              \* its index
          block_count,    \* heap_get_start_block's counter
          starting_block, \* its result, -1 while there is none; or the block to free
          entry,          \* the entry the next iteration of the marking writes
          n               \* total_blocks of the request, or of what is freed

locals == <<pc, i, block_count, starting_block, entry, n>>
loopVars == <<table, live, entries, locals>>

LoopsInit ==
  /\ Init /\ entries = table
  /\ pc = "idle" /\ i = 0 /\ block_count = 0 /\ starting_block = -1
  /\ entry = FREE /\ n = 0

\* The locals of a call end with it.
Return ==
  /\ pc' = "idle" /\ i' = 0 /\ block_count' = 0 /\ starting_block' = -1
  /\ entry' = FREE /\ n' = 0

CallMalloc(size) ==
  /\ pc = "idle"
  /\ pc' = "scan" /\ n' = total_blocks(size)
  /\ UNCHANGED <<table, live, entries, i, block_count, starting_block, entry>>

CallFree(a) ==
  /\ pc = "idle"
  /\ pc' = "free" /\ i' = a.start /\ starting_block' = a.start /\ n' = a.blocks
  /\ UNCHANGED <<table, live, entries, block_count, entry>>

------------------------------------------------------------------------------
FirstEntry == {TAKEN, IS_FIRST} \cup (IF n > 1 THEN {HAS_NEXT} ELSE {})

ScanUsed_KeepsStart ==
  /\ pc = "scan" /\ i < Total /\ ~IsFree(entries, i)
  /\ block_count' = 0 /\ i' = i + 1
  /\ UNCHANGED <<table, live, entries, pc, starting_block, entry, n>>

ScanUsed_KeepsCount ==
  /\ pc = "scan" /\ i < Total /\ ~IsFree(entries, i)
  /\ starting_block' = -1 /\ i' = i + 1
  /\ UNCHANGED <<table, live, entries, pc, block_count, entry, n>>

\* A used entry starts the count again.
ScanUsed ==
  /\ pc = "scan" /\ i < Total /\ ~IsFree(entries, i)
  /\ block_count' = 0 /\ starting_block' = -1 /\ i' = i + 1
  /\ UNCHANGED <<table, live, entries, pc, entry, n>>

ScanFree_NoBreak ==
  /\ pc = "scan" /\ i < Total /\ IsFree(entries, i)
  /\ starting_block' = IF starting_block = -1 THEN i ELSE starting_block
  /\ block_count' = block_count + 1 /\ i' = i + 1
  /\ UNCHANGED <<table, live, entries, pc, entry, n>>

\* A free entry is counted; the scan breaks off at the count it looks for.
ScanFree ==
  /\ pc = "scan" /\ i < Total /\ IsFree(entries, i)
  /\ starting_block' = IF starting_block = -1 THEN i ELSE starting_block
  /\ block_count' = block_count + 1
  /\ IF block_count + 1 = n
     THEN pc' = "mark" /\ i' = starting_block' /\ entry' = FirstEntry
     ELSE i' = i + 1 /\ UNCHANGED <<pc, entry>>
  /\ UNCHANGED <<table, live, entries, n>>

ScanEnds_Unchecked ==
  /\ pc = "scan" /\ i = Total
  /\ pc' = "mark" /\ i' = starting_block /\ entry' = FirstEntry
  /\ UNCHANGED <<table, live, entries, block_count, starting_block, n>>

\* The table ends: whatever run was being counted is used, if there is one.
ScanEnds ==
  /\ pc = "scan" /\ i = Total /\ starting_block # -1
  /\ pc' = "mark" /\ i' = starting_block /\ entry' = FirstEntry
  /\ UNCHANGED <<table, live, entries, block_count, starting_block, n>>

ScanFails ==
  /\ pc = "scan" /\ i = Total /\ starting_block = -1
  /\ Return
  /\ UNCHANGED <<table, live, entries>>

end_block == starting_block + n - 1

MarkOne_NoStep ==
  /\ pc = "mark" /\ i =< end_block
  /\ entries' = IF i \in Blocks THEN [entries EXCEPT ![i] = entry] ELSE entries
  /\ entry' = {TAKEN} \cup (IF i # end_block - 1 THEN {HAS_NEXT} ELSE {})
  /\ UNCHANGED <<table, live, i, pc, block_count, starting_block, n>>

MarkOne_FlagsLast ==
  /\ pc = "mark" /\ i =< end_block
  /\ entries' = IF i \in Blocks THEN [entries EXCEPT ![i] = entry] ELSE entries
  /\ entry' = {TAKEN, HAS_NEXT}
  /\ i' = i + 1
  /\ UNCHANGED <<table, live, pc, block_count, starting_block, n>>

\* Past the table's end the write lands in memory that is not the table's.
MarkOne ==
  /\ pc = "mark" /\ i =< end_block
  /\ entries' = IF i \in Blocks THEN [entries EXCEPT ![i] = entry] ELSE entries
  /\ entry' = {TAKEN} \cup (IF i # end_block - 1 THEN {HAS_NEXT} ELSE {})
  /\ i' = i + 1
  /\ UNCHANGED <<table, live, pc, block_count, starting_block, n>>

MarkEnds ==
  /\ pc = "mark" /\ i > end_block
  /\ table' = entries
  /\ live' = live \cup {[start |-> starting_block, blocks |-> n]}
  /\ Return
  /\ UNCHANGED entries

FreeReturns ==
  /\ table' = entries'
  /\ live' = live \ {[start |-> starting_block, blocks |-> n]}
  /\ Return

FreeOne_StopsEarly ==
  /\ pc = "free" /\ i < Total
  /\ IF HAS_NEXT \in entries[i]
     THEN /\ entries' = [entries EXCEPT ![i] = FREE]
          /\ i' = i + 1
          /\ UNCHANGED <<table, live, pc, block_count, starting_block, entry, n>>
     ELSE UNCHANGED entries /\ FreeReturns

\* The last block of the allocation has no successor and ends the walk.
FreeOne ==
  /\ pc = "free" /\ i < Total
  /\ entries' = [entries EXCEPT ![i] = FREE]
  /\ IF HAS_NEXT \in entries[i]
     THEN i' = i + 1 /\ UNCHANGED <<table, live, pc, block_count, starting_block, entry, n>>
     ELSE FreeReturns

\* So does the end of the table.
FreeEnds == pc = "free" /\ i >= Total /\ UNCHANGED entries /\ FreeReturns

Step == ScanUsed \/ ScanFree \/ ScanEnds \/ ScanFails \/ MarkOne \/ MarkEnds
        \/ FreeOne \/ FreeEnds

LoopsNext == \/ \E size \in Requests : CallMalloc(size)
             \/ \E a \in live : CallFree(a)
             \/ Step

\* The processor executes a call once it is made.
LoopsSpec == LoopsInit /\ [][LoopsNext]_loopVars /\ WF_loopVars(Step)

------------------------------------------------------------------------------
(* Correctness, beside Heap's properties *)

LoopsTypeOK ==
  /\ TypeOK
  /\ entries \in [Blocks -> Entry] /\ entry \in Entry
  /\ pc \in {"idle", "scan", "mark", "free"}
  /\ i \in Nat /\ n \in Nat
  /\ block_count \in 0..Total /\ starting_block \in -1..(Total-1)
  /\ pc = "idle" => entries = table /\ block_count = 0 /\ starting_block = -1 /\ i = 0

\* The request a call of heap_malloc is about.
Requested == \E size \in Requests : n = total_blocks(size)

\* heap_get_start_block at i: starting_block and block_count are the first block
\* and the length of the run of free blocks that ends before i, and no run that
\* ends there or earlier is long enough.
Scanned == pc = "scan" =>
  /\ Requested /\ entries = table /\ i =< Total
  /\ IF starting_block = -1
     THEN block_count = 0 /\ (i > 0 => ~IsFree(table, i-1))
     ELSE /\ starting_block < i /\ block_count = i - starting_block
          /\ \A k \in starting_block..(i-1) : IsFree(table, k)
          /\ starting_block > 0 => ~IsFree(table, starting_block - 1)
  /\ n > 0 => block_count < n /\ \A c \in Blocks : c + n =< i => ~Fits(table, c, n)

\* heap_mark_blocks_taken at i: the blocks before it have their entries, and the one
\* carried over is its own.
Marking == pc = "mark" =>
  /\ Requested /\ starting_block \in Blocks
  /\ heap_get_start_block(table, n, starting_block)
  /\ i \in starting_block..(starting_block + n)
  /\ entries = [k \in Blocks |-> IF k \in starting_block..(i-1)
                                THEN TakenEntry(starting_block, n, k) ELSE table[k]]
  /\ i =< end_block => entry = TakenEntry(starting_block, n, i)

\* heap_mark_blocks_free at i: it came along the allocation's chain, and the blocks
\* before it are free.
Freeing == pc = "free" =>
  /\ [start |-> starting_block, blocks |-> n] \in live
  /\ i \in starting_block..Total
  /\ \A j \in starting_block..(i-1) : HAS_NEXT \in table[j]
  /\ entries = [k \in Blocks |-> IF k \in starting_block..(i-1) THEN FREE ELSE table[k]]

\* What the three loops have established when they are at i.
LoopsInv == LoopsTypeOK /\ Scanned /\ Marking /\ Freeing

\* The three loops of heap.c together do what Heap says they do: the scan finds
\* the first fit, the entry carried from one iteration of the marking to the next
\* gives each block its flags, and the walk of free stops where it should.
LoopsImplementHeap == Spec

\* heap_malloc, heap_free: every call of the allocator returns, whatever the table holds.
CallsReturn == []<>(pc = "idle")

==============================================================================

--------------------------- MODULE HeapLoopsProofs ---------------------------
(***************************************************************************)
(* Proofs about the loops of heap.c for every number and size of blocks:   *)
(* what each loop has established at each iteration (LoopsInv), and that   *)
(* a call of heap_malloc or heap_free, whatever iterations it takes, is    *)
(* one step of Heap.  No assumption on the requests is needed: the scan of *)
(* a request for 0 blocks takes the trailing run, as Heap says.            *)
(***************************************************************************)
EXTENDS HeapLoops, HeapProofs

------------------------------------------------------------------------------
(* The scan *)

\* One more entry: a run of free blocks that ends with block i, and that the counter
\* is not yet long enough for, is no fit (heap_get_start_block's two ways on).
LEMMA NoFitEndsHere ==
  ASSUME LoopsInv, pc = "scan", i < Total, n > 0,
         ~IsFree(table, i) \/ (starting_block # -1 /\ block_count + 1 # n)
                           \/ (starting_block = -1 /\ n # 1),
         NEW c \in Blocks, c + n =< i + 1
  PROVE  ~Fits(table, c, n)
<1> i \in Nat /\ n \in Nat /\ c \in Nat /\ i \in Blocks
  BY HeapAssumption DEF LoopsInv, LoopsTypeOK, Blocks
<1>1. CASE c + n =< i
  BY <1>1 DEF LoopsInv, Scanned
<1>2. CASE c + n = i + 1
  <2>1. i \in c..(c+n-1)
    BY <1>2
  <2>2. CASE ~IsFree(table, i)
    BY <2>1, <2>2 DEF Fits
  <2>3. CASE starting_block # -1 /\ block_count + 1 # n
    <3>1. starting_block \in Nat /\ starting_block < i /\ block_count = i - starting_block
          /\ block_count < n /\ (starting_block > 0 => ~IsFree(table, starting_block - 1))
      BY <2>3, HeapAssumption DEF LoopsInv, LoopsTypeOK, Scanned
    <3>2. starting_block - 1 \in c..(c+n-1) /\ starting_block > 0
      BY <1>2, <2>3, <3>1
    <3> QED
      BY <3>1, <3>2 DEF Fits
  <2>4. CASE starting_block = -1 /\ n # 1
    <3>1. i > 0 => ~IsFree(table, i-1)
      BY <2>4 DEF LoopsInv, Scanned
    <3>2. i - 1 \in c..(c+n-1) /\ i > 0
      BY <1>2, <2>4
    <3> QED
      BY <3>1, <3>2 DEF Fits
  <2> QED
    BY <2>2, <2>3, <2>4
<1> QED
  BY <1>1, <1>2

\* A used entry starts the count again.
LEMMA ScanUsedPreserves ==
  ASSUME LoopsInv, ScanUsed
  PROVE  LoopsInv'
<1>1. LoopsTypeOK'
  BY HeapAssumption DEF LoopsInv, LoopsTypeOK, TypeOK, ScanUsed
<1>2. i + 1 =< Total /\ i \in Nat /\ ~IsFree(table, i)
  BY HeapAssumption DEF LoopsInv, LoopsTypeOK, Scanned, ScanUsed
<1>3. ASSUME n > 0 PROVE \A c \in Blocks : c + n =< i + 1 => ~Fits(table, c, n)
  BY <1>2, <1>3, NoFitEndsHere DEF ScanUsed
<1>4. Scanned'
  BY <1>2, <1>3, <1>1 DEF LoopsInv, LoopsTypeOK, Scanned, ScanUsed, Requested, Fits, IsFree
<1> QED
  BY <1>1, <1>4 DEF LoopsInv, ScanUsed, Marking, Freeing

\* The first entry to write is the first block's.
LEMMA FirstEntryIsTaken ==
  ASSUME LoopsInv, NEW b \in Blocks, n > 0
  PROVE  FirstEntry = TakenEntry(b, n, b)
<1> n \in Nat /\ b \in Nat
  BY HeapAssumption DEF LoopsInv, LoopsTypeOK, Blocks
<1>1. n > 1 <=> b # b + n - 1
  OBVIOUS
<1> QED
  BY <1>1 DEF FirstEntry, TakenEntry

\* Entering the marking with a block the search may return.
LEMMA MarkingBegins ==
  ASSUME LoopsInv, entries = table, Requested, NEW b \in Blocks,
         heap_get_start_block(table, n, b),
         pc' = "mark", starting_block' = b, i' = b, entry' = FirstEntry,
         UNCHANGED <<table, entries, n>>
  PROVE  Marking'
<1> n \in Nat /\ b \in Nat
  BY HeapAssumption DEF LoopsInv, LoopsTypeOK, Blocks
<1>1. i' =< end_block' => entry' = TakenEntry(b, n, b)
  BY FirstEntryIsTaken DEF end_block
<1>2. entries' = [k \in Blocks |-> IF k \in b..(b-1) THEN TakenEntry(b, n, k) ELSE table'[k]]
  BY DEF LoopsInv, LoopsTypeOK, TypeOK, Blocks
<1>3. heap_get_start_block(table', n', starting_block')
  OBVIOUS
<1>4. Requested' /\ b \in b..(b + n)
  BY DEF Requested
<1> QED
  BY <1>1, <1>2, <1>3, <1>4 DEF Marking

\* A free entry is counted, and ends the scan when the run is long enough: it is then
\* the first fit.
LEMMA ScanFreePreserves ==
  ASSUME LoopsInv, ScanFree
  PROVE  LoopsInv'
<1> DEFINE start == IF starting_block = -1 THEN i ELSE starting_block
<1>1. /\ i \in Blocks /\ n \in Nat /\ i + 1 =< Total /\ start \in Blocks /\ start =< i
      /\ block_count + 1 = i + 1 - start
      /\ \A k \in start..i : IsFree(table, k)
      /\ start > 0 => ~IsFree(table, start - 1)
      /\ n > 0 => block_count + 1 =< n
  BY HeapAssumption DEF LoopsInv, LoopsTypeOK, Scanned, ScanFree, Blocks
<1>2. starting_block' = start /\ block_count' = block_count + 1
  BY DEF ScanFree
<1> HIDE DEF start
<1>3. CASE block_count + 1 = n
  <2>1. n > 0 /\ start + n = i + 1 /\ \A c \in 0..(start-1) : c + n =< i /\ c \in Blocks
    BY <1>1, <1>3, HeapAssumption DEF LoopsInv, LoopsTypeOK, Blocks
  <2>2. FirstFit(table, n, start)
    <3>1. Fits(table, start, n)
      BY <1>1, <2>1, HeapAssumption DEF Fits, Blocks
    <3>2. \A c \in 0..(start-1) : ~Fits(table, c, n)
      BY <2>1 DEF LoopsInv, Scanned, ScanFree
    <3> QED
      BY <2>1, <3>1, <3>2 DEF FirstFit
  <2>3. Marking'
    BY <1>1, <1>2, <1>3, <2>2, MarkingBegins
       DEF ScanFree, LoopsInv, Scanned, heap_get_start_block
  <2>4. LoopsTypeOK'
    BY <1>1, <1>2, <1>3, HeapAssumption
       DEF LoopsInv, LoopsTypeOK, TypeOK, ScanFree, FirstEntry, Entry, Blocks
  <2> QED
    BY <1>3, <2>3, <2>4 DEF LoopsInv, ScanFree, Scanned, Freeing
<1>4. CASE block_count + 1 # n
  <2>1. ASSUME n > 0 PROVE \A c \in Blocks : c + n =< i + 1 => ~Fits(table, c, n)
    <3>1. starting_block = -1 => n # 1
      BY <1>4 DEF LoopsInv, Scanned, ScanFree
    <3> QED
      BY <1>4, <2>1, <3>1, <1>1, NoFitEndsHere DEF ScanFree
  <2>2. LoopsTypeOK'
    BY <1>1, <1>2, <1>4, HeapAssumption
       DEF LoopsInv, LoopsTypeOK, TypeOK, ScanFree, Blocks
  <2>3. Scanned'
    <3>1. pc' = pc /\ i' = i + 1 /\ table' = table /\ entries' = entries /\ n' = n
      BY <1>4 DEF ScanFree
    <3>2. Requested' /\ entries' = table' /\ i' =< Total /\ starting_block' # -1
      BY <1>1, <1>2, <3>1 DEF LoopsInv, Scanned, ScanFree, Requested, Blocks
    <3>3. starting_block' < i' /\ block_count' = i' - starting_block'
      BY <1>1, <1>2, <3>1 DEF Blocks
    <3>4. \A k \in start..(i'-1) : IsFree(table, k)
      BY <1>1, <3>1 DEF Blocks
    <3>5. n > 0 => block_count + 1 < n
      BY <1>1, <1>4, HeapAssumption DEF LoopsInv, LoopsTypeOK
    <3> QED
      BY <1>1, <1>2, <2>1, <3>1, <3>2, <3>3, <3>4, <3>5 DEF Scanned, IsFree, Fits
  <2> QED
    BY <1>4, <2>2, <2>3 DEF LoopsInv, ScanFree, Marking, Freeing
<1> QED
  BY <1>3, <1>4

\* The table ended within a run of free blocks: no run is long enough, and this one is
\* the trailing one.
LEMMA ScanEndsPreserves ==
  ASSUME LoopsInv, ScanEnds
  PROVE  LoopsInv'
<1>1. /\ starting_block \in Blocks /\ i = Total /\ entries = table /\ Requested
      /\ \A k \in starting_block..(Total-1) : IsFree(table, k)
      /\ starting_block > 0 => ~IsFree(table, starting_block - 1)
  BY HeapAssumption DEF LoopsInv, LoopsTypeOK, Scanned, ScanEnds, Blocks
<1>2. NoFit(table, n)
  <2> SUFFICES ASSUME n > 0, NEW c \in Blocks, Fits(table, c, n) PROVE FALSE
    BY DEF NoFit
  <2>1. c + n =< i
    BY <1>1 DEF Fits
  <2> QED
    BY <2>1 DEF LoopsInv, Scanned, ScanEnds
<1>3. Marking'
  BY <1>1, <1>2, MarkingBegins DEF ScanEnds, TrailingRun, heap_get_start_block
<1>4. LoopsTypeOK'
  BY <1>1, HeapAssumption
     DEF LoopsInv, LoopsTypeOK, TypeOK, ScanEnds, FirstEntry, Entry, Blocks
<1> QED
  BY <1>3, <1>4 DEF LoopsInv, ScanEnds, Scanned, Freeing

------------------------------------------------------------------------------
(* The writes *)

\* The entry carried over is the next block's (heap_mark_blocks_taken).
LEMMA MarkOnePreserves ==
  ASSUME LoopsInv, MarkOne
  PROVE  LoopsInv'
<1> DEFINE b == starting_block
<1>1. /\ b \in Blocks /\ b \in Nat /\ n \in Nat /\ i \in Nat /\ b =< i /\ i =< b + n - 1
      /\ entry = TakenEntry(b, n, i) /\ table \in [Blocks -> Entry]
      /\ entries = [k \in Blocks |-> IF k \in b..(i-1) THEN TakenEntry(b, n, k) ELSE table[k]]
  BY HeapAssumption
     DEF LoopsInv, LoopsTypeOK, TypeOK, Marking, MarkOne, end_block, Blocks
<1>2. /\ i' = i + 1 /\ table' = table /\ starting_block' = b /\ n' = n /\ pc' = "mark"
      /\ entries' = IF i \in Blocks THEN [entries EXCEPT ![i] = entry] ELSE entries
  BY DEF MarkOne
<1>3. entry' = TakenEntry(b, n, i + 1)
  <2>1. i + 1 # b /\ (i + 1 = b + n - 1 <=> i = end_block - 1)
    BY <1>1 DEF end_block
  <2>2. entry' = {TAKEN} \cup (IF i # end_block - 1 THEN {HAS_NEXT} ELSE {})
    BY DEF MarkOne
  <2> QED
    BY <2>1, <2>2, Zenon DEF TakenEntry
<1>4. entries' = [k \in Blocks |-> IF k \in b..i THEN TakenEntry(b, n, k) ELSE table[k]]
  <2>1. \A k \in Blocks : k \in b..i <=> k \in b..(i-1) \/ k = i
    BY <1>1 DEF Blocks
  <2>2. i \in b..i /\ i \notin b..(i-1)
    BY <1>1
  <2> HIDE DEF b
  <2> QED
    BY <1>1, <1>2, <2>1, <2>2
<1>5. LoopsTypeOK'
  BY <1>1, HeapAssumption DEF LoopsInv, LoopsTypeOK, TypeOK, MarkOne, Entry
<1>6. Marking'
  <2>1. Requested' /\ starting_block' \in Blocks
        /\ heap_get_start_block(table', n', starting_block')
    BY DEF LoopsInv, Marking, MarkOne, Requested
  <2>2. i' \in b..(b + n) /\ i' - 1 = i
    BY <1>1, <1>2
  <2> HIDE DEF b
  <2> QED
    BY <1>2, <1>3, <1>4, <2>1, <2>2 DEF Marking
<1> QED
  BY <1>5, <1>6 DEF LoopsInv, MarkOne, Scanned, Freeing

\* The walk of a free goes one block along the chain; at the allocation's last block, or
\* the table's end, all of it is clear (heap_mark_blocks_free).
LEMMA FreeWalks ==
  ASSUME LoopsInv, FreeOne \/ FreeEnds
  PROVE  \/ LoopsInv' /\ UNCHANGED vars
         \/ LoopsTypeOK' /\ pc' = "idle" /\ \E a \in live : heap_free(a)
<1> DEFINE b == starting_block
           a == [start |-> b, blocks |-> n]
<1>1. /\ b \in Blocks /\ b \in Nat /\ i \in Nat /\ b =< i /\ i =< Total /\ a \in live
      /\ n \in Nat
      /\ \A j \in b..(i-1) : HAS_NEXT \in table[j]
      /\ entries = [k \in Blocks |-> IF k \in b..(i-1) THEN FREE ELSE table[k]]
      /\ table \in [Blocks -> Entry] /\ live \subseteq Allocation /\ Total \in Nat
  <2>1. pc = "free" /\ a \in live
    BY DEF LoopsInv, Freeing, FreeOne, FreeEnds
  <2>2. b \in Blocks
    BY <2>1 DEF LoopsInv, LoopsTypeOK, TypeOK, Allocation
  <2> QED
    BY <2>1, <2>2, HeapAssumption DEF LoopsInv, LoopsTypeOK, TypeOK, Freeing, Blocks
<1> HIDE DEF b
<1>2. CASE FreeOne
  <2>1. i \in Blocks /\ entries[i] = table[i] /\ i < Total
        /\ entries' = [entries EXCEPT ![i] = FREE]
    BY <1>1, <1>2 DEF FreeOne, Blocks
  <2>2. entries' = [k \in Blocks |-> IF k \in b..i THEN FREE ELSE table[k]]
    <3>1. \A k \in Blocks : k \in b..i <=> k \in b..(i-1) \/ k = i
      BY <1>1 DEF Blocks
    <3> QED
      BY <1>1, <2>1, <3>1
  <2>3. CASE HAS_NEXT \in table[i]
    <3>1. /\ i' = i + 1 /\ table' = table /\ live' = live /\ starting_block' = b /\ n' = n
          /\ pc' = "free" /\ block_count' = block_count /\ entry' = entry
      BY <1>2, <2>1, <2>3 DEF FreeOne, b
    <3>2. LoopsTypeOK'
      BY <1>1, <2>1, <2>2, <3>1, HeapAssumption
         DEF LoopsInv, LoopsTypeOK, TypeOK, Entry, FREE, Blocks
    <3>3. i' - 1 = i /\ i' \in b..Total /\ \A j \in b..i : HAS_NEXT \in table[j]
      BY <1>1, <2>1, <2>3, <3>1
    <3>4. Freeing'
      BY <1>1, <2>2, <3>1, <3>3 DEF Freeing
    <3> QED
      BY <3>1, <3>2, <3>4 DEF LoopsInv, Scanned, Marking, vars
  <2>4. CASE HAS_NEXT \notin table[i]
    <3>1. FreeReturns
      BY <1>2, <2>1, <2>4 DEF FreeOne
    <3>2. Chain(table, b) = b..i
      BY <1>1, <2>1, <2>4 DEF Chain
    <3>3. heap_free(a)
      BY <2>2, <3>1, <3>2 DEF heap_free, heap_mark_blocks_free, FreeReturns, b
    <3>4. LoopsTypeOK'
      BY <1>1, <2>2, <3>1, HeapAssumption
         DEF LoopsTypeOK, TypeOK, FreeReturns, Return, Entry, FREE
    <3> QED
      BY <1>1, <3>1, <3>3, <3>4 DEF FreeReturns, Return
  <2> QED
    BY <2>3, <2>4
<1>3. CASE FreeEnds
  <2>1. i = Total /\ entries' = entries /\ FreeReturns
    BY <1>1, <1>3 DEF FreeEnds
  <2>2. Chain(table, b) = b..(i-1)
    BY <1>1, <2>1 DEF Chain
  <2>3. heap_free(a)
    BY <1>1, <2>1, <2>2 DEF heap_free, heap_mark_blocks_free, FreeReturns, b
  <2>4. LoopsTypeOK'
    BY <1>1, <2>1, HeapAssumption
       DEF LoopsTypeOK, TypeOK, FreeReturns, Return, Entry, FREE
  <2> QED
    BY <1>1, <2>1, <2>3, <2>4 DEF FreeReturns, Return
<1> QED
  BY <1>2, <1>3

\* The marking is done, or nothing was found: the call returns having done what
\* Heap's heap_malloc does, or nothing.
LEMMA MallocReturns ==
  ASSUME LoopsInv, MarkEnds \/ ScanFails
  PROVE  /\ LoopsTypeOK' /\ pc' = "idle"
         /\ UNCHANGED vars \/ \E size \in Requests : heap_malloc(size)
<1>1. CASE MarkEnds
  <2> DEFINE b == starting_block
  <2>1. /\ b \in Blocks /\ b \in Nat /\ n \in Nat /\ i \in b..(b + n) /\ i > b + n - 1
        /\ heap_get_start_block(table, n, b) /\ Requested
        /\ entries = [k \in Blocks |-> IF k \in b..(i-1) THEN TakenEntry(b, n, k) ELSE table[k]]
    BY <1>1, HeapAssumption
       DEF LoopsInv, LoopsTypeOK, Marking, MarkEnds, end_block, Blocks
  <2>2. table' = entries /\ Return /\ entries' = entries
        /\ live' = live \cup {[start |-> b, blocks |-> n]}
    BY <1>1 DEF MarkEnds
  <2> HIDE DEF b
  <2>3. i - 1 = b + n - 1
    BY <2>1
  <2>4. \E size \in Requests : heap_malloc(size)
    <3>1. PICK size \in Requests : n = total_blocks(size)
      BY <2>1 DEF Requested
    <3>2. table' = heap_mark_blocks_taken(table, b, n)
      BY <2>1, <2>2, <2>3 DEF heap_mark_blocks_taken
    <3> QED
      BY <2>1, <2>2, <3>1, <3>2 DEF heap_malloc
  <2>5. [start |-> b, blocks |-> n] \in Allocation
    BY <2>1 DEF Allocation
  <2>6. LoopsTypeOK'
    BY <2>2, <2>5, HeapAssumption DEF LoopsInv, LoopsTypeOK, TypeOK, Return, Entry, FREE
  <2> QED
    BY <2>2, <2>4, <2>6 DEF Return
<1>2. CASE ScanFails
  <2>1. LoopsTypeOK'
    BY <1>2, HeapAssumption
       DEF LoopsInv, LoopsTypeOK, TypeOK, Scanned, ScanFails, Return, Entry, FREE
  <2> QED
    BY <1>2, <2>1 DEF ScanFails, Return, vars
<1> QED
  BY <1>1, <1>2

------------------------------------------------------------------------------
(* The invariant and the refinement *)

\* One iteration, or one call begun: the invariant is kept, and Heap's variables
\* stutter or take one of its steps.
LEMMA LoopsStep ==
  ASSUME LoopsInv, [LoopsNext]_loopVars
  PROVE  LoopsInv' /\ [Next]_vars
<1>1. ASSUME NEW size \in Requests, CallMalloc(size)
      PROVE  LoopsInv' /\ UNCHANGED vars
  <2>1. total_blocks(size) \in Nat
    BY TotalBlocksType
  <2>2. LoopsTypeOK'
    BY <1>1, <2>1, HeapAssumption DEF CallMalloc, LoopsInv, LoopsTypeOK, TypeOK
  <2>3. ASSUME n' > 0 PROVE \A c \in Blocks : ~(c + n' =< 0)
    BY <1>1, <2>1, <2>3 DEF CallMalloc, Blocks
  <2>4. Scanned'
    BY <1>1, <2>3, HeapAssumption
       DEF CallMalloc, LoopsInv, LoopsTypeOK, Scanned, Requested
  <2> QED
    BY <1>1, <2>2, <2>4 DEF CallMalloc, LoopsInv, Marking, Freeing, vars
<1>2. ASSUME NEW a \in live, CallFree(a)
      PROVE  LoopsInv' /\ UNCHANGED vars
  <2>1. a.start \in Blocks /\ a.start \in Nat /\ a.blocks \in Nat /\ a.start =< Total
        /\ a = [start |-> a.start, blocks |-> a.blocks]
    BY HeapAssumption DEF LoopsInv, LoopsTypeOK, TypeOK, Allocation, Blocks
  <2>2. LoopsTypeOK'
    BY <1>2, <2>1, HeapAssumption DEF CallFree, LoopsInv, LoopsTypeOK, TypeOK, Blocks
  <2>3. entries' = [k \in Blocks |-> IF k \in a.start..(a.start - 1) THEN FREE ELSE table'[k]]
    BY <1>2, <2>1 DEF CallFree, LoopsInv, LoopsTypeOK, TypeOK
  <2>4. Freeing'
    BY <1>2, <2>1, <2>3, HeapAssumption DEF CallFree, Freeing
  <2> QED
    BY <1>2, <2>2, <2>4 DEF CallFree, LoopsInv, Scanned, Marking, vars
<1>3. CASE ScanUsed \/ ScanFree \/ ScanEnds \/ MarkOne
  BY <1>3, ScanUsedPreserves, ScanFreePreserves, ScanEndsPreserves, MarkOnePreserves
     DEF ScanUsed, ScanFree, ScanEnds, MarkOne, vars
<1>4. CASE FreeOne \/ FreeEnds
  BY <1>4, FreeWalks DEF LoopsInv, Scanned, Marking, Freeing, Next
<1>5. CASE MarkEnds \/ ScanFails
  BY <1>5, MallocReturns DEF LoopsInv, Scanned, Marking, Freeing, Next
<1>6. CASE UNCHANGED loopVars
  BY <1>6 DEF loopVars, locals, vars, LoopsInv, LoopsTypeOK, TypeOK, Scanned, Marking,
     Freeing, Requested, end_block
<1> QED
  BY <1>1, <1>2, <1>3, <1>4, <1>5, <1>6 DEF LoopsNext, Step, vars

\* heap_get_start_block, heap_mark_blocks_taken and heap_mark_blocks_free at each of
\* their iterations: what the counter, the entry carried over and the walk stand for.
THEOREM LoopsInvariant == LoopsSpec => []LoopsInv
<1>1. LoopsInit => LoopsInv
  BY HeapAssumption
     DEF LoopsInit, Init, LoopsInv, LoopsTypeOK, TypeOK, Scanned, Marking, Freeing, Entry, FREE
<1>2. LoopsInv /\ [LoopsNext]_loopVars => LoopsInv'
  BY LoopsStep
<1> QED
  BY <1>1, <1>2, PTL DEF LoopsSpec

\* heap_malloc and heap_free, iteration by iteration, are the calls of Heap: the
\* lowest run is found, each of its blocks gets its own flags, and a free stops at the
\* allocation's last block, for every table and every request.
THEOREM LoopsAreHeap == LoopsSpec => LoopsImplementHeap
<1>1. LoopsInit => Init
  BY DEF LoopsInit
<1>2. LoopsInv /\ [LoopsNext]_loopVars => [Next]_vars
  BY LoopsStep
<1> QED
  BY <1>1, <1>2, LoopsInvariant, PTL DEF LoopsSpec, LoopsImplementHeap, Spec

\* What was proved of one-step calls is therefore true of the loops: heap.c hands out
\* intervals that are unused and takes back exactly one.
THEOREM LoopsImplementAllocator ==
  ASSUME SoundRequests
  PROVE  LoopsSpec => ImplementsAllocator /\ []Disjoint /\ []TableMatchesLive
<1>1. LoopsSpec => Spec
  BY LoopsAreHeap DEF LoopsImplementHeap
<1> QED
  BY <1>1, HeapImplementsAllocator, AllocationsDisjoint, TableIsExact, PTL

==============================================================================

------------------------------ MODULE HeapProofs ------------------------------
(***************************************************************************)
(* Proofs about the kernel heap for every number and size of blocks: the   *)
(* inductive invariant IInv and what follows from it.                      *)
(***************************************************************************)
EXTENDS Heap, TLAPS

\* Rounding up yields a size, so an allocation is a whole number of blocks
\* (heap_align_value_to_upper, heap_malloc).
LEMMA TotalBlocksType ==
  ASSUME NEW size \in Requests
  PROVE  total_blocks(size) \in Nat
<1>1. size \in Nat
  BY RequestsAssumption, HeapAssumption
<1>2. \A v \in Nat : v % BlockSize \in Nat /\ v % BlockSize =< v
  BY HeapAssumption, Z3
<1>3. heap_align_value_to_upper(size) \in Nat
  BY <1>1, <1>2, HeapAssumption, Z3 DEF heap_align_value_to_upper
<1> QED
  BY <1>3, HeapAssumption, Z3 DEF total_blocks

\* Whatever way heap_get_start_block finds its block, the part of the table the
\* allocation will cover is free.
LEMMA StartBlockIsFree ==
  ASSUME TypeOK, NEW nb \in Nat, nb > 0, NEW b \in Blocks,
         heap_get_start_block(table, nb, b)
  PROVE  \A k \in (b .. (b + nb - 1)) \cap Blocks : TAKEN \notin table[k]
<1>1. CASE FirstFit(table, nb, b)
  BY <1>1, HeapAssumption DEF FirstFit, Fits, IsFree, Blocks
<1>2. CASE TrailingRun(table, b)
  BY <1>2, HeapAssumption DEF TrailingRun, IsFree, Blocks
<1> QED
  BY <1>1, <1>2 DEF heap_get_start_block

\* An allocation that runs past the table's end begins in the table's last free
\* run: the last block of the table is its own.
LEMMA OverrunHasLastBlock ==
  ASSUME NEW a \in Allocation, NEW k \in Range(a), k >= Total
  PROVE  Total - 1 \in Range(a) /\ Total - 1 \in Blocks
BY HeapAssumption DEF Allocation, Range, Blocks

\* The walk of heap_mark_blocks_free from a live allocation's first block covers
\* that allocation and ends with it.
LEMMA ChainIsAllocation ==
  ASSUME IInv, NEW a \in live
  PROVE  Chain(table, a.start) = InTable(a)
<1> a \in Allocation /\ a.start \in Blocks /\ a.blocks \in Nat /\ a.blocks > 0
  BY DEF IInv, TypeOK, Allocation, NonEmpty
<1>1. \A k \in InTable(a) : HAS_NEXT \in table[k] <=> k # a.start + a.blocks - 1
  BY DEF IInv, TableMatchesLive, Marked, TakenEntry, TAKEN, IS_FIRST, HAS_NEXT
<1>2. ASSUME NEW k \in InTable(a) PROVE k \in Chain(table, a.start)
  <2>1. k \in a.start .. (Total-1)
    BY <1>2, HeapAssumption DEF InTable, Range, Blocks
  <2>2. \A j \in a.start .. (k-1) : j \in InTable(a) /\ j # a.start + a.blocks - 1
    BY <1>2, HeapAssumption DEF InTable, Range, Blocks
  <2> QED
    BY <2>1, <2>2, <1>1 DEF Chain
<1>3. ASSUME NEW k \in Chain(table, a.start) PROVE k \in InTable(a)
  <2>1. k \in a.start .. (Total-1) /\ \A j \in a.start .. (k-1) : HAS_NEXT \in table[j]
    BY <1>3 DEF Chain
  <2>2. CASE k > a.start + a.blocks - 1
    <3> DEFINE last == a.start + a.blocks - 1
    <3>1. last \in InTable(a) /\ last \in a.start .. (k-1)
      BY <2>1, <2>2, HeapAssumption DEF InTable, Range, Blocks
    <3> QED
      BY <3>1, <2>1, <1>1
  <2> QED
    BY <2>1, <2>2, HeapAssumption DEF InTable, Range, Blocks
<1> QED
  BY <1>2, <1>3

------------------------------------------------------------------------------
(* The inductive invariant *)

\* The blocks heap_get_start_block chooses meet no live allocation, inside the
\* table and past its end.
LEMMA NewIsDisjoint ==
  ASSUME IInv, NEW nb \in Nat, nb > 0, NEW b \in Blocks,
         heap_get_start_block(table, nb, b)
  PROVE  \A a \in live : Range(a) \cap (b .. (b + nb - 1)) = {}
<1> DEFINE new == [start |-> b, blocks |-> nb]
<1>1. new \in Allocation /\ Range(new) = b .. (b + nb - 1)
  BY DEF Allocation, Range
<1>2. \A k \in (b .. (b + nb - 1)) \cap Blocks : TAKEN \notin table[k]
  BY StartBlockIsFree DEF IInv
<1>3. \A a \in live : \A k \in InTable(a) : TAKEN \in table[k]
  BY DEF IInv, TableMatchesLive, Marked, TakenEntry
<1> SUFFICES ASSUME NEW a \in live, NEW k \in Range(a), k \in Range(new)
             PROVE  FALSE
  BY <1>1
<1> a \in Allocation
  BY DEF IInv, TypeOK
<1>4. CASE k >= Total
  <2>1. Total - 1 \in Range(a) /\ Total - 1 \in Blocks
    BY <1>4, OverrunHasLastBlock
  <2>2. Total - 1 \in Range(new)
    BY <1>1, <1>4, OverrunHasLastBlock
  <2> QED
    BY <2>1, <2>2, <1>1, <1>2, <1>3 DEF InTable
<1>5. CASE k < Total
  <2>1. k \in Blocks
    BY <1>5, HeapAssumption DEF Range, Allocation, Blocks
  <2> QED
    BY <2>1, <1>1, <1>2, <1>3 DEF InTable
<1> QED
  BY <1>4, <1>5, HeapAssumption DEF Range, Allocation, Blocks

\* What heap_mark_blocks_taken leaves behind when heap_malloc succeeds.
LEMMA MallocPreservesIInv ==
  ASSUME SoundRequests, IInv, NEW size \in Requests, heap_malloc(size)
  PROVE  IInv'
<1> DEFINE nb == total_blocks(size)
<1>1. nb \in Nat /\ nb > 0
  BY TotalBlocksType DEF SoundRequests
<1> PICK b \in Blocks :
      /\ heap_get_start_block(table, nb, b)
      /\ table' = heap_mark_blocks_taken(table, b, nb)
      /\ live' = live \cup {[start |-> b, blocks |-> nb]}
  BY DEF heap_malloc
<1> DEFINE new == [start |-> b, blocks |-> nb]
<1> HIDE DEF nb
<1>2. new \in Allocation /\ Range(new) = b .. (b + nb - 1)
  BY <1>1 DEF Allocation, Range
<1>3. \A a \in live : Range(a) \cap Range(new) = {}
  BY <1>1, <1>2, NewIsDisjoint
<1>4. TypeOK'
  <2>1. table' \in [Blocks -> Entry]
    BY DEF IInv, TypeOK, heap_mark_blocks_taken, TakenEntry, Entry, TAKEN, IS_FIRST, HAS_NEXT
  <2> QED
    BY <2>1, <1>2 DEF IInv, TypeOK
<1>5. Disjoint'
  BY <1>3 DEF IInv, Disjoint
<1>6. Marked'
  <2> SUFFICES ASSUME NEW a \in live', NEW k \in InTable(a)
               PROVE  table'[k] = TakenEntry(a.start, a.blocks, k)
    BY DEF Marked, InTable, Range
  <2> k \in Blocks
    BY DEF InTable
  <2>1. CASE a = new
    BY <2>1, <1>2 DEF InTable, heap_mark_blocks_taken
  <2>2. CASE a \in live
    <3>1. k \notin b .. (b + nb - 1)
      BY <2>2, <1>2, <1>3 DEF InTable
    <3> QED
      BY <3>1, <2>2 DEF heap_mark_blocks_taken, IInv, TableMatchesLive, Marked
  <2> QED
    BY <2>1, <2>2
<1>7. Owned'
  <2> SUFFICES ASSUME NEW k \in Blocks, table'[k] # FREE
               PROVE  \E a \in live' : k \in Range(a)
    BY DEF Owned, Range
  <2>1. CASE k \in b .. (b + nb - 1)
    BY <2>1, <1>2
  <2>2. CASE k \notin b .. (b + nb - 1)
    BY <2>2 DEF heap_mark_blocks_taken, IInv, TableMatchesLive, Owned
  <2> QED
    BY <2>1, <2>2
<1>8. NonEmpty'
  BY <1>1 DEF IInv, NonEmpty
<1> QED
  BY <1>4, <1>5, <1>6, <1>7, <1>8 DEF IInv, TableMatchesLive

\* What heap_mark_blocks_free leaves behind.
LEMMA FreePreservesIInv ==
  ASSUME IInv, NEW a \in live, heap_free(a)
  PROVE  IInv'
<1>1. table' = [k \in Blocks |-> IF k \in InTable(a) THEN FREE ELSE table[k]]
  BY ChainIsAllocation DEF heap_free, heap_mark_blocks_free
<1>2. live' = live \ {a}
  BY DEF heap_free
<1>3. TypeOK'
  BY <1>1, <1>2 DEF IInv, TypeOK, Entry, FREE
<1>4. Disjoint' /\ NonEmpty'
  BY <1>2 DEF IInv, Disjoint, NonEmpty
<1>5. Marked'
  <2> SUFFICES ASSUME NEW c \in live', NEW k \in InTable(c)
               PROVE  table'[k] = TakenEntry(c.start, c.blocks, k)
    BY DEF Marked, InTable, Range
  <2>1. k \in Blocks /\ k \notin InTable(a)
    BY <1>2 DEF IInv, Disjoint, InTable
  <2> QED
    BY <2>1, <1>1, <1>2 DEF IInv, TableMatchesLive, Marked
<1>6. Owned'
  <2> SUFFICES ASSUME NEW k \in Blocks, table'[k] # FREE
               PROVE  \E c \in live' : k \in Range(c)
    BY DEF Owned, Range
  <2>1. k \notin InTable(a) /\ table[k] # FREE
    BY <1>1
  <2>2. PICK c \in live : k \in Range(c)
    BY <2>1 DEF IInv, TableMatchesLive, Owned
  <2> QED
    BY <2>1, <2>2, <1>2 DEF InTable
<1> QED
  BY <1>3, <1>4, <1>5, <1>6 DEF IInv, TableMatchesLive

\* heap_create establishes the invariant; heap_malloc, whether it succeeds or
\* not, and heap_free preserve it, in every order, for every size of the table.
THEOREM HeapInvariant ==
  ASSUME SoundRequests
  PROVE  Spec => []IInv
<1>1. Init => IInv
  BY DEF Init, IInv, TypeOK, Disjoint, TableMatchesLive, Marked, Owned, NonEmpty, Entry, FREE
<1>2. IInv /\ [Next]_vars => IInv'
  <2> SUFFICES ASSUME IInv, [Next]_vars PROVE IInv'
    OBVIOUS
  <2>1. ASSUME NEW size \in Requests, heap_malloc(size) PROVE IInv'
    BY <2>1, MallocPreservesIInv
  <2>2. ASSUME UNCHANGED vars PROVE IInv'
    BY <2>2 DEF vars, IInv, TypeOK, Disjoint, TableMatchesLive, Marked, Owned,
                NonEmpty, InTable, Range
  <2>3. ASSUME NEW a \in live, heap_free(a) PROVE IInv'
    BY <2>3, FreePreservesIInv
  <2> QED
    BY <2>1, <2>2, <2>3 DEF Next, heap_malloc_fails
<1> QED
  BY <1>1, <1>2, PTL DEF Spec

\* No two live allocations share a block (heap_get_start_block never hands out a
\* block in use).
THEOREM AllocationsDisjoint ==
  ASSUME SoundRequests
  PROVE  Spec => []Disjoint
<1>1. IInv => Disjoint
  BY DEF IInv
<1> QED
  BY <1>1, HeapInvariant, PTL

\* The flags of the table describe the live allocations and nothing else
\* (heap_mark_blocks_taken and heap_mark_blocks_free agree on them).
THEOREM TableIsExact ==
  ASSUME SoundRequests
  PROVE  Spec => []TableMatchesLive
<1>1. IInv => TableMatchesLive
  BY DEF IInv
<1> QED
  BY <1>1, HeapInvariant, PTL

------------------------------------------------------------------------------
(* Action properties *)

\* Freeing an allocation clears its own entries and no other (the walk of
\* heap_mark_blocks_free stops at the allocation's last block).
THEOREM FreeClearsItsOwn ==
  ASSUME SoundRequests
  PROVE  Spec => FreeIsExact
<1> DEFINE Exact == \A a \in live \ live' :
                      \A b \in Blocks : table'[b] = IF b \in Range(a) THEN FREE
                                                    ELSE table[b]
<1>1. IInv /\ [Next]_vars => [Exact]_vars
  <2> SUFFICES ASSUME IInv, Next PROVE Exact
    OBVIOUS
  <2>1. ASSUME NEW size \in Requests, heap_malloc(size) PROVE Exact
    BY <2>1 DEF heap_malloc
  <2>2. ASSUME NEW size \in Requests, heap_malloc_fails(size) PROVE Exact
    BY <2>2 DEF heap_malloc_fails, vars
  <2>3. ASSUME NEW a \in live, heap_free(a) PROVE Exact
    <3>1. table' = [k \in Blocks |-> IF k \in InTable(a) THEN FREE ELSE table[k]]
      BY <2>3, ChainIsAllocation DEF heap_free, heap_mark_blocks_free
    <3>2. live \ live' = {a}
      BY <2>3 DEF heap_free
    <3> QED
      BY <3>1, <3>2 DEF InTable
  <2> QED
    BY <2>1, <2>2, <2>3 DEF Next
<1> QED
  BY <1>1, HeapInvariant, PTL DEF Spec, FreeIsExact

\* An allocation gets the lowest run that holds it (heap_get_start_block), and
\* runs past the end of the table only if no run does.
THEOREM FirstFitIsFound ==
  ASSUME SoundRequests
  PROVE  Spec => FitIsFound
<1> DEFINE Found == \A a \in live' \ live :
                      \A c \in Blocks : Fits(table, c, a.blocks)
                        => a.start =< c /\ a.start + a.blocks =< Total
<1>1. [Next]_vars => [Found]_vars
  <2> SUFFICES ASSUME Next PROVE Found
    OBVIOUS
  <2>1. ASSUME NEW size \in Requests, heap_malloc(size) PROVE Found
    <3> DEFINE nb == total_blocks(size)
    <3>1. nb \in Nat /\ nb > 0
      BY TotalBlocksType DEF SoundRequests
    <3>2. PICK b \in Blocks :
            /\ heap_get_start_block(table, nb, b)
            /\ live' = live \cup {[start |-> b, blocks |-> nb]}
      BY <2>1 DEF heap_malloc
    <3> HIDE DEF nb
    <3>3. SUFFICES ASSUME NEW c \in Blocks, Fits(table, c, nb)
                   PROVE  b =< c /\ b + nb =< Total
      BY <3>2
    <3>4. FirstFit(table, nb, b)
      BY <3>1, <3>2, <3>3 DEF heap_get_start_block, NoFit
    <3>5. b + nb =< Total
      BY <3>4 DEF FirstFit, Fits
    <3>6. b =< c
      BY <3>3, <3>4, HeapAssumption DEF FirstFit, Blocks
    <3> QED
      BY <3>5, <3>6
  <2>2. ASSUME NEW size \in Requests, heap_malloc_fails(size) PROVE Found
    BY <2>2 DEF heap_malloc_fails, vars
  <2>3. ASSUME NEW a \in live, heap_free(a) PROVE Found
    BY <2>3 DEF heap_free
  <2> QED
    BY <2>1, <2>2, <2>3 DEF Next
<1> QED
  BY <1>1, PTL DEF Spec, FitIsFound

------------------------------------------------------------------------------
(* Refinement *)

\* The chains read off the table are the live allocations, cut at its end.
LEMMA ChainsAreAllocations ==
  ASSUME IInv
  PROVE  Chains = {InTable(a) : a \in live}
<1>1. ASSUME NEW k \in Blocks, IS_FIRST \in table[k]
      PROVE  \E a \in live : a.start = k
  <2>1. PICK a \in live : k \in Range(a)
    BY <1>1 DEF IInv, TableMatchesLive, Owned, FREE
  <2>2. table[k] = TakenEntry(a.start, a.blocks, k)
    BY <2>1 DEF IInv, TableMatchesLive, Marked, InTable
  <2> QED
    BY <1>1, <2>2 DEF TakenEntry, TAKEN, IS_FIRST, HAS_NEXT
<1>2. ASSUME NEW a \in live
      PROVE  a.start \in Blocks /\ IS_FIRST \in table[a.start]
  <2>1. a.start \in Blocks /\ a.start \in InTable(a)
    BY HeapAssumption DEF IInv, TypeOK, Allocation, NonEmpty, InTable, Range, Blocks
  <2> QED
    BY <2>1 DEF IInv, TableMatchesLive, Marked, TakenEntry
<1> QED
  BY <1>1, <1>2, ChainIsAllocation DEF Chains

\* A live allocation has a block in the table, and is an interval of it.
LEMMA AllocationIsInterval ==
  ASSUME NEW a \in Allocation, a.blocks > 0
  PROVE  InTable(a) \in Abstract!Intervals /\ a.start \in InTable(a)
<1>1. a.start \in Blocks /\ a.blocks \in Nat
  BY DEF Allocation
<1>2. a.start \in InTable(a)
  BY <1>1, HeapAssumption DEF InTable, Range, Blocks
<1>3. CASE a.start + a.blocks =< Total
  <2>1. InTable(a) = a.start .. (a.start + a.blocks - 1)
    BY <1>1, <1>3, HeapAssumption DEF InTable, Range, Blocks
  <2>2. a.start + a.blocks - 1 \in 0 .. (Total-1)
    BY <1>1, <1>3, HeapAssumption DEF Blocks
  <2> QED
    BY <1>1, <1>2, <2>1, <2>2 DEF Abstract!Intervals, Blocks
<1>4. CASE a.start + a.blocks > Total
  <2>1. InTable(a) = a.start .. (Total-1)
    BY <1>1, <1>4, HeapAssumption DEF InTable, Range, Blocks
  <2>2. Total-1 \in 0 .. (Total-1)
    BY HeapAssumption
  <2> QED
    BY <1>1, <1>2, <2>1, <2>2 DEF Abstract!Intervals, Blocks
<1> QED
  BY <1>1, <1>3, <1>4, HeapAssumption DEF Blocks

\* kmalloc and kfree over heap.c's table are the allocator AbstractAllocator
\* describes: every call hands out an interval that was unused, takes exactly one
\* back, or changes nothing.
THEOREM HeapImplementsAllocator ==
  ASSUME SoundRequests
  PROVE  Spec => ImplementsAllocator
<1>1. Init => Abstract!Init
  BY DEF Init, Abstract!Init, Chains, FREE
<1>2. IInv /\ IInv' /\ [Next]_vars => [Abstract!Allocate \/ Abstract!Release]_Chains
  <2> SUFFICES ASSUME IInv, IInv', [Next]_vars
               PROVE  Abstract!Allocate \/ Abstract!Release \/ Chains' = Chains
    OBVIOUS
  <2>1. Chains = {InTable(a) : a \in live} /\ Chains' = {InTable(a) : a \in live'}
    <3>1. Chains = {InTable(a) : a \in live}
      BY ChainsAreAllocations
    <3>2. (Chains = {InTable(a) : a \in live})'
      BY ChainsAreAllocations, PTL
    <3> QED
      BY <3>1, <3>2 DEF InTable, Range
  <2>2. ASSUME NEW size \in Requests, heap_malloc(size)
        PROVE  Abstract!Allocate
    <3> DEFINE nb == total_blocks(size)
    <3>1. nb \in Nat /\ nb > 0
      BY TotalBlocksType DEF SoundRequests
    <3>2. PICK b \in Blocks :
            /\ heap_get_start_block(table, nb, b)
            /\ live' = live \cup {[start |-> b, blocks |-> nb]}
      BY <2>2 DEF heap_malloc
    <3> DEFINE new == [start |-> b, blocks |-> nb]
    <3> HIDE DEF nb
    <3>3. InTable(new) \in Abstract!Intervals
      BY <3>1, AllocationIsInterval DEF Allocation
    <3>4. \A a \in live : InTable(a) \cap InTable(new) = {}
      BY <3>1, <3>2, NewIsDisjoint DEF InTable, Range
    <3>5. Chains' = Chains \cup {InTable(new)}
      BY <2>1, <3>2
    <3> HIDE DEF new
    <3> QED
      BY <2>1, <3>3, <3>4, <3>5 DEF Abstract!Allocate
  <2>3. ASSUME NEW a \in live, heap_free(a)
        PROVE  Abstract!Release
    <3>1. live' = live \ {a}
      BY <2>3 DEF heap_free
    <3>2. \A c \in live \ {a} : InTable(c) # InTable(a)
      <4> SUFFICES ASSUME NEW c \in live, c # a PROVE InTable(c) # InTable(a)
        OBVIOUS
      <4>1. a.start \in InTable(a)
        BY AllocationIsInterval DEF IInv, TypeOK, NonEmpty
      <4> QED
        BY <4>1 DEF IInv, Disjoint, InTable
    <3> QED
      BY <2>1, <3>1, <3>2 DEF Abstract!Release
  <2>4. ASSUME UNCHANGED vars PROVE Chains' = Chains
    BY <2>4 DEF vars, Chains, Chain
  <2> QED
    BY <2>2, <2>3, <2>4 DEF Next, heap_malloc_fails
<1> QED
  BY <1>1, <1>2, HeapInvariant, PTL DEF Spec, ImplementsAllocator, Abstract!Spec

==============================================================================

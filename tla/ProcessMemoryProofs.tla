------------------------- MODULE ProcessMemoryProofs -------------------------
(***************************************************************************)
(* Proofs about the memory of programs, for every set of programs and      *)
(* blocks and every number of allocation slots.                            *)
(***************************************************************************)
EXTENDS ProcessMemory, TLAPS

\* A new program starts with its image and nothing else (process_load_for_slot).
LEMMA LoadStep ==
  ASSUME IInv, NEW p \in Program, NEW blocks \in SUBSET Block, NEW writes \in SUBSET blocks,
         Load(p, blocks, writes)
  PROVE  IInv'
<1>1. /\ p \notin alive /\ alive' = alive \cup {p} /\ held' = held
      /\ image' = [image EXCEPT ![p] = blocks]
      /\ writable' = [writable EXCEPT ![p] = writes]
      /\ allocations' = [allocations EXCEPT ![p] = [i \in Slot |-> NULL]]
  BY DEF Load
<1>2. /\ blocks \cap used = {} /\ used' = used \cup blocks
      /\ gotBy' = [b \in Block |-> IF b \in blocks THEN p ELSE gotBy[b]]
  BY DEF Load, kzalloc
<1>3. TypeOK'
  BY <1>1, <1>2 DEF IInv, TypeOK
<1>4. Isolated'
  BY <1>1, <1>2 DEF IInv, TypeOK, Isolated
<1>5. TrackedIsOwn'
  BY <1>1, <1>2 DEF IInv, TypeOK, TrackedIsOwn
<1>6. ImageIsOwn'
  BY <1>1, <1>2, ProcessMemoryAssumption DEF IInv, TypeOK, ImageIsOwn
<1>7. HeldIsKept'
  BY <1>1, <1>2 DEF IInv, TypeOK, HeldIsKept
<1> QED
  BY <1>3, <1>4, <1>5, <1>6, <1>7 DEF IInv

\* The block process_malloc hands out was nobody's.
LEMMA MallocStep ==
  ASSUME IInv, NEW p \in Program, NEW b \in Block, process_malloc(p, b)
  PROVE  IInv'
<1> /\ kzalloc({b}, p)
    /\ writable' = [writable EXCEPT ![p] = @ \cup {b}]
    /\ allocations' = [allocations EXCEPT ![p][process_find_free_allocation_index(p)] = b]
    /\ held' = held \cup {b}
  BY DEF process_malloc
<1>1. p \in alive /\ alive' = alive /\ image' = image
  BY DEF process_malloc
<1>2. b \notin used /\ used' = used \cup {b} /\ gotBy' = [c \in Block |-> IF c \in {b} THEN p ELSE gotBy[c]]
  BY DEF kzalloc
<1>3. /\ 1 \in Slot
      /\ allocations' = [allocations EXCEPT ![p] = [@ EXCEPT ![1] = b]]
  BY ProcessMemoryAssumption DEF Slot, process_find_free_allocation_index
<1>4. TypeOK'
  <2>1. allocations' \in [Program -> [Slot -> Block \cup {NULL}]]
    <3>1. allocations[p] \in [Slot -> Block \cup {NULL}]
      BY DEF IInv, TypeOK
    <3>2. [allocations[p] EXCEPT ![1] = b] \in [Slot -> Block \cup {NULL}]
      BY <3>1
    <3> QED
      BY <1>3, <3>2 DEF IInv, TypeOK
  <2>2. gotBy' \in [Block -> Program \cup {NULL, KERNEL}] /\ used' \subseteq Block
    BY <1>2 DEF IInv, TypeOK
  <2>3. writable' \in [Program -> SUBSET Block]
    BY DEF IInv, TypeOK
  <2> QED
    BY <1>1, <2>1, <2>2, <2>3 DEF IInv, TypeOK
<1>5. Isolated'
  BY <1>1, <1>2 DEF IInv, TypeOK, Isolated
<1>6. TrackedIsOwn'
  BY <1>1, <1>2, <1>3 DEF IInv, TypeOK, TrackedIsOwn, ImageIsOwn
<1>7. ImageIsOwn'
  BY <1>1, <1>2, <1>3 DEF IInv, TypeOK, ImageIsOwn
<1>8. HeldIsKept'
  BY <1>1, <1>2 DEF IInv, TypeOK, HeldIsKept
<1> QED
  BY <1>4, <1>5, <1>6, <1>7, <1>8 DEF IInv

\* process_free gives back an allocation of the caller's own, or nothing.
LEMMA FreeStep ==
  ASSUME IInv, NEW p \in Program, NEW b \in Block \cup {NULL}, process_free(p, b)
  PROVE  IInv'
<1>1. /\ p \in alive /\ alive' = alive /\ image' = image
      /\ held' = {c \in held : c # b \/ gotBy[c] # p}
  BY DEF process_free
<1>2. CASE b # NULL /\ IsAllocation(p, b)
  <2>1. /\ writable' = [writable EXCEPT ![p] = @ \ {b}]
        /\ allocations' = [allocations EXCEPT ![p] =
                             [i \in Slot |-> IF @[i] = b THEN NULL ELSE @[i]]]
        /\ used' = used \ {b}
        /\ gotBy' = [c \in Block |-> IF c \in {b} THEN NULL ELSE gotBy[c]]
    BY <1>2 DEF process_free, Unmapped, remove_process_allocation, kfree
  <2>2. b \in Block /\ b \in used /\ gotBy[b] = p /\ b \notin image[p]
    BY <1>2, ProcessMemoryAssumption DEF IInv, TrackedIsOwn, IsAllocation
  <2>3. TypeOK'
    BY <1>1, <2>1 DEF IInv, TypeOK
  <2>4. Isolated'
    BY <2>1, <2>2 DEF IInv, TypeOK, Isolated
  <2>5. TrackedIsOwn'
    <3> SUFFICES ASSUME NEW q \in Program, NEW i \in Slot, NEW j \in Slot,
                        allocations'[q][i] # NULL
                 PROVE  LET c == allocations'[q][i]
                        IN /\ c \in used' /\ gotBy'[c] = q /\ c \notin image'[q]
                           /\ allocations'[q][j] = c => i = j
      BY DEF TrackedIsOwn
    <3> DEFINE c == allocations'[q][i]
    <3>1. c = allocations[q][i] /\ c # b /\ (allocations'[q][j] = c => allocations[q][j] = c)
      BY <2>1, <2>2, ProcessMemoryAssumption DEF IInv, TypeOK, TrackedIsOwn
    <3>2. c \in Block /\ c \in used /\ gotBy[c] = q /\ c \notin image[q]
      BY <3>1 DEF IInv, TypeOK, TrackedIsOwn
    <3>3. allocations[q][j] = c => i = j
      BY <3>1 DEF IInv, TrackedIsOwn
    <3> QED
      BY <1>1, <2>1, <3>1, <3>2, <3>3
  <2>6. ImageIsOwn'
    BY <1>1, <2>1, <2>2 DEF IInv, TypeOK, ImageIsOwn
  <2>7. HeldIsKept'
    BY <1>1, <2>1, <2>2 DEF IInv, TypeOK, HeldIsKept
  <2> QED
    BY <2>3, <2>4, <2>5, <2>6, <2>7 DEF IInv
<1>3. CASE ~(b # NULL /\ IsAllocation(p, b))
  <2>1. UNCHANGED <<alive, used, allocations, writable, image, gotBy>> /\ held' \subseteq held
    BY <1>1, <1>3 DEF process_free
  <2> QED
    BY <2>1 DEF IInv, TypeOK, Isolated, TrackedIsOwn, ImageIsOwn, HeldIsKept
<1> QED
  BY <1>2, <1>3

\* The buffer copy_string_from_task leaves behind is the kernel's.
LEMMA CopyStep ==
  ASSUME IInv, NEW p \in Program, NEW b \in Block, copy_string_from_task(p, b)
  PROVE  IInv'
<1> kzalloc({b}, KERNEL)
  BY DEF copy_string_from_task
<1>1. b \notin used /\ used' = used \cup {b} /\ gotBy' = [c \in Block |-> IF c \in {b} THEN KERNEL ELSE gotBy[c]]
  BY DEF kzalloc
<1>2. UNCHANGED <<alive, allocations, writable, image, held>>
  BY DEF copy_string_from_task
<1> QED
  BY <1>1, <1>2 DEF IInv, TypeOK, Isolated, TrackedIsOwn, ImageIsOwn, HeldIsKept

\* process_terminate frees blocks of the ended program only.
LEMMA TerminateStep ==
  ASSUME IInv, NEW p \in Program, process_terminate(p)
  PROVE  IInv'
<1> DEFINE freed == Tracked(p) \cup image[p]
<1>1. /\ p \in alive /\ alive' = alive \ {p}
      /\ writable' = [writable EXCEPT ![p] = {}]
      /\ allocations' = [allocations EXCEPT ![p] = [i \in Slot |-> NULL]]
      /\ image' = [image EXCEPT ![p] = {}]
      /\ held' = {b \in held : gotBy[b] # p}
      /\ used' = used \ freed
      /\ gotBy' = [b \in Block |-> IF b \in freed THEN NULL ELSE gotBy[b]]
  BY DEF process_terminate, kfree
<1>2. \A b \in freed : b \in Block /\ gotBy[b] = p
  BY <1>1 DEF IInv, TypeOK, TrackedIsOwn, ImageIsOwn, Tracked
<1> HIDE DEF freed
<1>3. TypeOK'
  BY <1>1 DEF IInv, TypeOK
<1>4. Isolated'
  BY <1>1, <1>2 DEF IInv, TypeOK, Isolated
<1>5. TrackedIsOwn'
  BY <1>1, <1>2 DEF IInv, TypeOK, TrackedIsOwn
<1>6. ImageIsOwn'
  BY <1>1, <1>2 DEF IInv, TypeOK, ImageIsOwn
<1>7. HeldIsKept'
  BY <1>1, <1>2 DEF IInv, TypeOK, HeldIsKept
<1> QED
  BY <1>3, <1>4, <1>5, <1>6, <1>7 DEF IInv

\* Every step of every program preserves the invariant.
THEOREM ProcessMemoryInvariant == Spec => []IInv
<1>1. Init => IInv
  BY DEF Init, IInv, TypeOK, Isolated, TrackedIsOwn, ImageIsOwn, HeldIsKept
<1>2. IInv /\ [Next]_vars => IInv'
  <2> SUFFICES ASSUME IInv, [Next]_vars PROVE IInv'
    OBVIOUS
  <2>1. CASE UNCHANGED vars
    BY <2>1 DEF vars, IInv, TypeOK, Isolated, TrackedIsOwn, ImageIsOwn, HeldIsKept
  <2>2. ASSUME NEW p \in Program, NEW blocks \in SUBSET Block, NEW writes \in SUBSET blocks,
               Load(p, blocks, writes)
        PROVE  IInv'
    BY <2>2, LoadStep
  <2>3. ASSUME NEW p \in Program, NEW b \in Block, process_malloc(p, b) PROVE IInv'
    BY <2>3, MallocStep
  <2>4. ASSUME NEW p \in Program, process_malloc_fails(p) PROVE IInv'
    BY <2>1, <2>4 DEF process_malloc_fails
  <2>5. ASSUME NEW p \in Program, NEW b \in Block \cup {NULL}, process_free(p, b) PROVE IInv'
    BY <2>5, FreeStep
  <2>6. ASSUME NEW p \in Program, NEW b \in Block, copy_string_from_task(p, b) PROVE IInv'
    BY <2>6, CopyStep
  <2>7. ASSUME NEW p \in Program, process_terminate(p) PROVE IInv'
    BY <2>7, TerminateStep
  <2> QED
    BY <2>1, <2>2, <2>3, <2>4, <2>5, <2>6, <2>7 DEF Next
<1> QED
  BY <1>1, <1>2, PTL DEF Spec

\* Whatever programs allocate, free and copy, the slots, pages and blocks have their
\* types (process_malloc, process_free, process_terminate_allocations).
THEOREM TypeCorrect == Spec => []TypeOK
<1>1. IInv => TypeOK
  BY DEF IInv
<1> QED
  BY <1>1, ProcessMemoryInvariant, PTL

\* A program can write only memory that is in use and was allocated for it
\* (process_malloc and process_free keep the page directory in step with the heap).
THEOREM ProgramsIsolated == Spec => []Isolated
<1>1. IInv => Isolated
  BY DEF IInv
<1> QED
  BY <1>1, ProcessMemoryInvariant, PTL

\* Nothing a program holds is freed or unmapped under it (process_free checks the
\* pointer it is given, process_terminate_allocations frees tracked blocks only).
THEOREM HeldMemoryIsKept == Spec => []HeldIsKept
<1>1. IInv => HeldIsKept
  BY DEF IInv
<1> QED
  BY <1>1, ProcessMemoryInvariant, PTL

\* The allocation slots name blocks of their own process, each once
\* (process_find_free_allocation_index, remove_process_allocation).
THEOREM SlotsAreOwn == Spec => []TrackedIsOwn
<1>1. IInv => TrackedIsOwn
  BY DEF IInv
<1> QED
  BY <1>1, ProcessMemoryInvariant, PTL

==============================================================================

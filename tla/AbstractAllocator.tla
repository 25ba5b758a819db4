-------------------------- MODULE AbstractAllocator --------------------------
(***************************************************************************)
(* What an allocator of numbered blocks promises its clients: an           *)
(* allocation hands out an interval of blocks that meets no interval in    *)
(* use, and a release takes exactly one interval back.                     *)
(***************************************************************************)
EXTENDS Integers

CONSTANT Total          \* the blocks are 0 .. Total-1
VARIABLE used           \* the intervals in use, each a set of blocks

Intervals == {lo..hi : lo \in 0..(Total-1), hi \in 0..(Total-1)} \ {{}}

Init == used = {}

Allocate == \E r \in Intervals :
  /\ \A u \in used : r \cap u = {}
  /\ used' = used \cup {r}

Release == \E r \in used : used' = used \ {r}

Spec == Init /\ [][Allocate \/ Release]_used

==============================================================================

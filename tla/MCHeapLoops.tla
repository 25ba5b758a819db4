----------------------------- MODULE MCHeapLoops -----------------------------
(***************************************************************************)
(* Six blocks of four bytes, sizes of five bits.  The sizes ask for one    *)
(* block (also unaligned and full), two, three and five: enough for holes, *)
(* for requests that fit none of them, and for runs past the table's end.  *)
(***************************************************************************)
EXTENDS HeapLoops

MCRequests == {1, 4, 5, 12, 17}

==============================================================================

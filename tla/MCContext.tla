------------------------------ MODULE MCContext ------------------------------
(* Process and task structures are interchangeable. *)
EXTENDS Context, TLC

Symmetry == Permutations(ProcAddr) \cup Permutations(TaskAddr)

==============================================================================

----------------------------- MODULE MCProcesses -----------------------------
(* Process and task structures are interchangeable. *)
EXTENDS Processes, TLC

Symmetry == Permutations(ProcAddr) \cup Permutations(TaskAddr)

==============================================================================

----------------------------- MODULE KeyQueues -----------------------------
(***************************************************************************)
(* What the keyboard promises programs: a key typed while a program has    *)
(* the CPU is queued for that program, which reads its keys in order and   *)
(* starts without any.                                                     *)
(***************************************************************************)
EXTENDS Sequences

CONSTANTS Programs, Keys, None
VARIABLES alive,        \* the programs that have been started and not ended
          reader,       \* the one that has the CPU
          queue         \* what each program has not read yet

vars == <<alive, reader, queue>>

Init == alive = {} /\ reader = None /\ queue = [p \in Programs |-> <<>>]

Type(k) ==
  /\ reader \in alive
  /\ queue' = [queue EXCEPT ![reader] = Append(@, k)]
  /\ UNCHANGED <<alive, reader>>

Read ==
  /\ reader \in alive /\ queue[reader] # <<>>
  /\ queue' = [queue EXCEPT ![reader] = Tail(@)]
  /\ UNCHANGED <<alive, reader>>

\* A program that fails to load never gets the CPU.
Start(p) ==
  /\ p \notin alive
  /\ queue' = [queue EXCEPT ![p] = <<>>]
  /\ \/ alive' = alive \cup {p} /\ reader' = p
     \/ UNCHANGED <<alive, reader>>

End ==
  /\ reader \in alive
  /\ alive' = alive \ {reader}
  /\ IF alive' = {} THEN UNCHANGED reader ELSE reader' \in alive'
  /\ UNCHANGED queue

Next == \/ \E k \in Keys : Type(k)
        \/ Read
        \/ \E p \in Programs : Start(p)
        \/ End

Spec == Init /\ [][Next]_vars

==============================================================================

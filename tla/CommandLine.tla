---------------------------- MODULE CommandLine ----------------------------
(***************************************************************************)
(* simpos_parse_command and strtok of the user library                     *)
(* (programs/stdlib/src): a line becomes the list of its words.  strtok    *)
(* keeps its place in sp between calls, and between commands.              *)
(***************************************************************************)
EXTENDS Integers, Sequences, SequencesExt

NUL == ""      \* the character that ends a string
NULL == -1     \* the pointer 0

Token(t, s, sp) == [token |-> t, s |-> s, sp |-> sp]

\* The next token of the string s at sp, its end marked in s.
NextToken(s, sp) ==
  LET Least(P(_)) == CHOOSE i \in DOMAIN s : P(i) /\ \A j \in DOMAIN s : P(j) => i <= j
      start == Least(LAMBDA i : i >= sp /\ s[i] # " ")
      end == Least(LAMBDA i : i > start /\ s[i] \in {" ", NUL})
  IN IF s[start] = NUL
     THEN Token(<<>>, s, NULL)
     ELSE Token([i \in 1..end - start |-> s[start + i - 1]], [s EXCEPT ![end] = NUL],
                IF s[end] = " " THEN end + 1 ELSE end)

strtok_Restarts(s, sp) == NextToken(s, 0)

\* A string is taken up only when none is being cut.
strtok(s, sp) == NextToken(s, IF sp = NULL THEN 0 ELSE sp)

\* The bytes behind the end of the new string keep what was there.
strncpy(s, line) ==
  [i \in DOMAIN s |-> CASE i < Len(line) -> line[i + 1] [] i = Len(line) -> NUL [] OTHER -> s[i]]

\* The words for which there is memory.  Out of memory the list ends, and strtok is
\* left in the middle of the line.
simpos_parse_command(line, s, sp, memory) ==
  LET parsed[n \in 0..memory] ==
        IF n = 0 THEN [args |-> <<>>, next |-> strtok(strncpy(s, line), sp)]
        ELSE LET last == parsed[n - 1]
             IN IF last.next.token = <<>> THEN last
                ELSE [args |-> Append(last.args, last.next.token),
                      next |-> strtok(last.next.s, last.next.sp)]
  IN parsed[memory]

==============================================================================

----------------------------- MODULE PathParser -----------------------------
(***************************************************************************)
(* pathparser_parse (src/fs/pparser.c): a path "0:/a/b" becomes the list   *)
(* of its parts.  A path is a sequence of characters.                      *)
(***************************************************************************)
EXTENDS Integers, Sequences, FiniteSets

(* What a path means *)

\* The parts of s between separators, without the empty ones, from left to right.
Words(s, separator) ==
  LET inside == {i \in 1..Len(s) : s[i] # separator}
      starts == {i \in inside : i - 1 \notin inside}
      ends == {i \in inside : i + 1 \notin inside}
      nth(n, S) == CHOOSE i \in S : Cardinality({j \in S : j <= i}) = n
  IN [n \in 1..Cardinality(starts) |-> SubSeq(s, nth(n, starts), nth(n, ends))]

\* A name is what its path names up to an empty part.
Named(name) ==
  LET empty == {i \in 1..Len(name) : name[i] = "/" /\ (i = 1 \/ name[i - 1] = "/")}
  IN IF empty = {} THEN Words(name, "/")
     ELSE Words(SubSeq(name, 1, (CHOOSE i \in empty : \A j \in empty : i <= j) - 1), "/")

------------------------------------------------------------------------------
(* pathparser_parse *)

Digit == {"0"}

pathparser_path_valid_format(path) ==
  Len(path) >= 3 /\ path[1] \in Digit /\ path[2] = ":" /\ path[3] = "/"

\* The part that begins at i ends before the next slash or at the end of the path.
pathparser_get_path_part(path, i) ==
  LET ends == {j \in i..Len(path) : path[j] = "/"} \cup {Len(path) + 1}
  IN SubSeq(path, i, (CHOOSE j \in ends : \A k \in ends : j <= k) - 1)

pathparser_parse_SkipsEmpty(path, memory) == Words(SubSeq(path, 4, Len(path)), "/")

\* The list of parts, with memory for so many of them; <<>> when there is no path.
\* An empty part ends the list, and so does one for which there is no memory.
pathparser_parse(path, memory) ==
  LET parsed[n \in 0..memory] ==
        IF n = 0 THEN [parts |-> <<>>, at |-> 4]
        ELSE LET last == parsed[n - 1]
                 part == pathparser_get_path_part(path, last.at)
             IN IF part = <<>> THEN last
                ELSE [parts |-> Append(last.parts, part), at |-> last.at + Len(part) + 1]
  IN IF pathparser_path_valid_format(path) THEN parsed[memory].parts ELSE <<>>

==============================================================================

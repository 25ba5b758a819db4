------------------------------ MODULE Terminal ------------------------------
(***************************************************************************)
(* The text screen (src/terminal/terminal.c): a cursor of two 16-bit       *)
(* numbers and the cells that were written.  The operators map a terminal  *)
(* to the terminal after the call.                                         *)
(***************************************************************************)
EXTENDS Integers, Sequences, SequencesExt

CONSTANTS VGA_WIDTH, VGA_HEIGHT

\* Rows and columns are 16-bit numbers.
ASSUME TerminalAssumption ==
  /\ VGA_WIDTH \in Nat \ {0} /\ VGA_WIDTH < 65536
  /\ VGA_HEIGHT \in Nat \ {0} /\ VGA_HEIGHT < 65536

BS == "BS"     \* 0x08
LF == "LF"     \* newline

uint16(n) == n % 65536

\* The position of the cursor in the video memory.
Cursor(t) == t.row * VGA_WIDTH + t.col

\* cells has the positions written so far.
CellsWith(cells, position, c) ==
  [p \in DOMAIN cells \cup {position} |-> IF p = position THEN c ELSE cells[p]]

\* What is written behind the last row goes to memory that is not shown.
terminal_putchar(t, c) ==
  IF Cursor(t) < VGA_WIDTH * VGA_HEIGHT
  THEN [t EXCEPT !.cells = CellsWith(@, Cursor(t), c)] ELSE t

NewLine(t) == [t EXCEPT !.col = 0, !.row = uint16(@ + 1)]

\* A character that is neither a newline nor a backspace.
Written(t, c) ==
  LET next == [terminal_putchar(t, c) EXCEPT !.col = uint16(@ + 1)]
  IN IF next.col >= VGA_WIDTH THEN NewLine(next) ELSE next

\* The blank is not stepped back over.
terminal_backspace_Once(t) ==
  IF t.row = 0 /\ t.col = 0 THEN t ELSE Written([t EXCEPT !.col = uint16(@ - 1)], " ")

\* The blank that hides the character moves the cursor as any other does: at the
\* left margin to the next row, from where one step back leaves the row.
terminal_backspace(t) ==
  LET back == IF t.col = 0
              THEN [t EXCEPT !.row = uint16(@ - 1), !.col = VGA_WIDTH - 1]
              ELSE [t EXCEPT !.col = @ - 1]
  IN IF t.row = 0 /\ t.col = 0 THEN t
     ELSE [Written(back, " ") EXCEPT !.col = uint16(@ - 1)]

terminal_writechar(t, c) ==
  CASE c = LF -> NewLine(t)
    [] c = BS -> terminal_backspace(t)
    [] OTHER  -> Written(t, c)

print(t, str) == FoldLeft(terminal_writechar, t, str)

\* The cursor after terminal_initialize, on a screen where nothing is written.
terminal_initialize == [row |-> 0, col |-> 0, cells |-> <<>>]

==============================================================================

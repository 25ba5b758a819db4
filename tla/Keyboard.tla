------------------------------ MODULE Keyboard ------------------------------
(***************************************************************************)
(* The keyboard buffer of a process (src/keyboard/keyboard.c) and the      *)
(* translation of scancodes (src/keyboard/classic.c), as values.           *)
(***************************************************************************)
EXTENDS Integers

CONSTANTS BufferSize,     \* sizeof(process->keyboard.buffer)
          CounterLimit    \* 2^32: head and tail are ints taken modulo the unsigned size

ASSUME KeyboardAssumption ==
  /\ BufferSize \in Nat \ {0}
  /\ CounterLimit \in Nat \ {0}
  /\ CounterLimit % BufferSize = 0

Indices == 0..BufferSize-1

\* Characters: a letter in both cases, one that has no case, and the null byte.
Char == {"A", "a", "7"}
NUL == "NUL"

Buffer == [buffer : [Indices -> Char \cup {NUL}],
           head : 0..CounterLimit-1, tail : 0..CounterLimit-1]

\* process_init clears a new process.
EmptyBuffer == [buffer |-> [i \in Indices |-> NUL], head |-> 0, tail |-> 0]

keyboard_get_tail_index(k) == k.tail % BufferSize
head_index(k) == k.head % BufferSize

push_NoWrap(k, c) == [k EXCEPT !.buffer[keyboard_get_tail_index(k)] = c,
                               !.tail = @ + 1]

\* keyboard_push stores at the tail, full or not.
push(k, c) == [k EXCEPT !.buffer[keyboard_get_tail_index(k)] = c,
                        !.tail = (@ + 1) % CounterLimit]

\* keyboard_pop takes the character under the head; a null byte means that there
\* is nothing to pop.
CanPop(k) == k.buffer[head_index(k)] # NUL

pop_KeepsChar(k) == [k EXCEPT !.head = (@ + 1) % CounterLimit]

pop(k) == [k EXCEPT !.buffer[head_index(k)] = NUL,
                    !.head = (@ + 1) % CounterLimit]

\* How many characters wait between head and tail.
Waiting(k) == (k.tail - k.head) % CounterLimit

------------------------------------------------------------------------------
(* Scancodes, by what the driver tells apart *)

Scancodes == {"letter", "digit", "unmapped", "capslock", "past_end", "release"}

\* keyboard_scan_set_one holds upper-case letters, and a null byte for the keys
\* without a character, caps lock among them.  The bound check lets one code pass
\* that is no index of the table: the byte behind it may be anything.
keyboard_scan_set_one(scancode) ==
  CASE scancode = "letter" -> {"A"}
    [] scancode = "digit" -> {"7"}
    [] scancode = "past_end" -> Char \cup {NUL}
    [] OTHER -> {NUL}

\* With caps lock off, letters are turned into lower case.
classic_keyboard_scancode_to_char(scancode, capslock) ==
  {IF ~capslock /\ c = "A" THEN "a" ELSE c : c \in keyboard_scan_set_one(scancode)}

==============================================================================

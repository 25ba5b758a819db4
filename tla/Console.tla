------------------------------- MODULE Console -------------------------------
(***************************************************************************)
(* Keyboard input of the running programs: the keyboard interrupt          *)
(* (src/keyboard/classic.c) stores keys in the buffer of the current       *)
(* process, system call 2 (src/isr80h/io.c) takes them from that of the    *)
(* current task, while programs start and end as in Processes.             *)
(***************************************************************************)
EXTENDS Processes, Keyboard

CONSTANT TypeAhead      \* how many unread keys the user lets pile up

ASSUME ConsoleAssumption == TypeAhead \in Nat

VARIABLES keyboard,     \* process->keyboard, by process structure
          capslock      \* classic_keyboard.capslock_state, TRUE for on

consoleVars == <<vars, keyboard, capslock>>

ConsoleInit ==
  /\ Init
  /\ keyboard = [p \in ProcAddr |-> EmptyBuffer]
  /\ capslock = FALSE

\* The user of the keyboard waits when TypeAhead keys are unread.
MayType == Waiting(keyboard[current_process]) < TypeAhead

keyboard_push(c) ==
  IF c # NUL /\ current_process # NULL
  THEN keyboard' = [keyboard EXCEPT ![current_process] = push(@, c)]
  ELSE UNCHANGED keyboard

\* The code of a key that goes up is ignored.  Caps lock toggles and is then
\* translated like any other key.
classic_keyboard_handle_interrupt(scancode) ==
  /\ kernel = "running" /\ MayType
  /\ IF scancode = "release" THEN UNCHANGED <<keyboard, capslock>>
     ELSE /\ capslock' = (capslock # (scancode = "capslock"))
          /\ \E c \in classic_keyboard_scancode_to_char(scancode, capslock') :
               keyboard_push(c)
  /\ UNCHANGED vars

\* Call 2, getkey, of the running task.  It returns 0 when there is no key.
keyboard_pop ==
  /\ kernel = "running" /\ list.current # NULL
  /\ keyboard' = IF CanPop(keyboard[running])
                 THEN [keyboard EXCEPT ![running] = pop(@)] ELSE keyboard
  /\ UNCHANGED <<vars, capslock>>

ClearNew_Skipped == UNCHANGED keyboard

\* A process structure is cleared when it is allocated.
ClearNew ==
  keyboard' = [p \in ProcAddr |-> IF p \in allocated' \ allocated THEN EmptyBuffer
                                  ELSE keyboard[p]]

ProcessStep == Next /\ ClearNew /\ UNCHANGED capslock

ConsoleNext ==
  \/ \E scancode \in Scancodes : classic_keyboard_handle_interrupt(scancode)
  \/ keyboard_pop
  \/ ProcessStep

ConsoleSpec == ConsoleInit /\ [][ConsoleNext]_consoleVars

------------------------------------------------------------------------------
(* Correctness *)

ConsoleTypeOK == TypeOK /\ keyboard \in [ProcAddr -> Buffer] /\ capslock \in BOOLEAN

\* The position of cell i counted from the head.
Position(k, i) == (i - head_index(k)) % BufferSize

\* keyboard.c:95 "if nothing to pop": the null byte getkey stops at is the end of
\* what was typed.  The characters in a buffer are those between head and tail.
NothingBehindNull == \A p \in ProcAddr : \A i \in Indices :
  LET k == keyboard[p]
  IN k.buffer[i] # NUL <=> Position(k, i) < Waiting(k)

\* The unread characters of a buffer, oldest first.
Unread(k) == [j \in 1..Waiting(k) |-> k.buffer[(k.head + j - 1) % BufferSize]]

\* A key typed while a program runs reaches that program, in order and once,
\* whatever program starts, ends or reuses the memory of another in between.
Queues == INSTANCE KeyQueues WITH
  Programs <- ProcAddr, Keys <- Char, None <- NULL, alive <- InTable,
  reader <- IF list.current = NULL THEN NULL ELSE running,
  queue <- [p \in ProcAddr |-> Unread(keyboard[p])]

ImplementsKeyQueues == Queues!Spec

==============================================================================

------------------------------- MODULE Shell -------------------------------
(***************************************************************************)
(* The shell (programs/shell/src/shell.c) from the key to the program: it  *)
(* reads a line while echoing it (simpos_terminal_readline), cuts it into  *)
(* words, and has the kernel load the file the first word names (system    *)
(* call 7, src/isr80h/process.c, then the Loader).  Programs started       *)
(* before share the screen with it.                                        *)
(***************************************************************************)
EXTENDS Loader, Terminal, PathParser, CommandLine

CONSTANTS Char,   \* the characters typed, with " " and "/"
          MaxLine, \* size of the line buffer
          Disk     \* the paths on the disk, and what kind of file each names

ASSUME ShellAssumption ==
  /\ MaxLine \in Nat \ {0, 1} /\ VGA_WIDTH > 1
  /\ LF \notin Char  \* the keyboard has no such key: Enter is 0x0d
  /\ NUL \notin Char \* simpos_getkeyblock waits for another
  /\ {"missing", "bad_path"} \subseteq Files
  /\ \A path \in DOMAIN Disk : Disk[path] \in Files \ {"missing", "bad_path"}

VARIABLES sh,        \* where the shell is
          out,       \* the line read so far
          terminal,  \* its cells: those written since the prompt
          clean,     \* history: since the prompt only characters of the line were
                     \* written, and only in their row were they erased
          scommand,  \* simpos_parse_command's copy of the line
          sp,        \* strtok's place in it
          args,      \* the words, as passed to the kernel
          parts      \* the parsed path of the file that is opened, or <<>>

line == <<out, terminal, clean>>
words == <<scommand, sp, args>>
shell == <<sh, line, words, parts>>
allvars == <<vars, shell>>

Blank == [i \in 0..MaxLine |-> NUL]

ShellInit ==
  /\ Init
  /\ sh = "prompt" /\ out = <<>> /\ terminal = terminal_initialize /\ clean = TRUE
  /\ scommand = Blank /\ sp = NULL /\ args = <<>> /\ parts = <<>>

------------------------------------------------------------------------------
(* main and simpos_terminal_readline *)

\* What the screen shows is kept while it shows the line that is read.
Forget(t) == [t EXCEPT !.cells = <<>>]

\* Bound: the shell is followed to the last row; there is no scrolling.
OnScreen == terminal.row < VGA_HEIGHT

Prompt ==
  /\ sh = "prompt" /\ OnScreen
  /\ terminal' = print(Forget(terminal), <<">">>)
  /\ out' = <<>> /\ clean' = TRUE
  /\ sh' = "readline"
  /\ UNCHANGED <<vars, words, parts>>

\* The line ends: the shell prints a newline and parses it.
LineEnds ==
  /\ sh' = "parse"
  /\ terminal' = Forget(print(terminal, <<LF>>))
  /\ UNCHANGED <<vars, out, clean, words, parts>>

Enter == sh = "readline" /\ Len(out) < MaxLine - 1 /\ LineEnds

LineFull == sh = "readline" /\ Len(out) = MaxLine - 1 /\ LineEnds

\* The line after a key.  A backspace is only one where there is something to erase.
Stored(key) == IF key = BS /\ out # <<>> THEN Front(out) ELSE Append(out, key)

Type(key) ==
  /\ sh = "readline" /\ Len(out) < MaxLine - 1 /\ OnScreen
  /\ out' = Stored(key)
  /\ clean' = (clean /\ (key = BS => out # <<>> /\ terminal.col # 0))
  /\ LET echoed == terminal_writechar(terminal, key)
     IN terminal' = IF clean' THEN echoed ELSE Forget(echoed)
  /\ UNCHANGED <<vars, sh, words, parts>>

\* Another program prints; that it does so once in a line is a bound.
OtherPrints ==
  /\ sh = "readline" /\ clean /\ OnScreen /\ \E f \in Format : loaded[f] > 0
  /\ terminal' = Forget(terminal_writechar(terminal, "*"))
  /\ clean' = FALSE
  /\ UNCHANGED <<vars, sh, out, words, parts>>

------------------------------------------------------------------------------
(* simpos_system_run and system call 7 *)

\* How much the allocations of a call may get: all they ask for, or less.
Memory(most) == IF "heap" \in Faults THEN 0..most ELSE {most}

\* The copy of the line lies at the same place of the stack for every line.  While
\* strtok has no place in it, what it holds is not looked at.
Parse == \E fit \in Memory(MaxLine) :
  /\ sh = "parse"
  /\ LET parsed == simpos_parse_command(out, scommand, sp, fit)
     IN /\ args' = parsed.args /\ sp' = parsed.next.sp
        /\ scommand' = IF sp' = NULL THEN Blank ELSE parsed.next.s
  /\ sh' = IF args' = <<>> THEN "ran" ELSE "call"
  /\ UNCHANGED <<vars, line, parts>>

FileOf(path) == CASE path = <<>> -> "bad_path"
                  [] path \in DOMAIN Disk -> Disk[path]
                  [] OTHER -> "missing"

\* The path that system call 7 makes of the first word.
path == <<"0", ":", "/">> \o args[1]

Call ==
  /\ sh = "call"
  /\ Load(FileOf(pathparser_parse(path, MaxLine)))
  /\ sh' = "load"
  /\ UNCHANGED <<line, words, parts>>

\* There is no process slot, or no memory for the process.
CallFails ==
  /\ sh = "call" /\ "heap" \in Faults
  /\ sh' = "ran"
  /\ UNCHANGED <<vars, line, words, parts>>

\* fopen begins with the path.  Out of memory the path ends early; without memory
\* for its first part there is none (OpenWithoutPath).
ParsePath ==
  /\ sh = "load" /\ At("fopen") /\ parts = <<>>
  /\ parts' \in {pathparser_parse(path, fit) : fit \in Memory(MaxLine)} \ {<<>>}
  /\ file' = FileOf(parts')
  /\ UNCHANGED <<kernel, pc, loader, result, memory, stale, tables, loaded, sh, line, words>>

Opening == Open \/ OpenFails \/ OpenWithoutMemory

Loading == Stat \/ StatWithoutMemory \/ Read \/ Out \/ OutStale

LoaderStep ==
  /\ sh = "load"
  /\ \/ parts # <<>> /\ Opening
     \/ parts = <<>> /\ OpenWithoutPath
     \/ Loading
  /\ parts' = <<>>
  /\ UNCHANGED <<sh, line, words>>

\* The shell runs on when the load has ended, or when there was nothing to load.
Return ==
  /\ sh = "ran" \/ (sh = "load" /\ At("idle"))
  /\ sh' = "prompt"
  /\ terminal' = print(terminal, <<LF>>)
  /\ args' = <<>>
  /\ UNCHANGED <<vars, out, clean, scommand, sp, parts>>

ProgramEnds == (\E f \in Format : Unload(f)) /\ UNCHANGED shell

\* The screen is full, a bound is reached, or the kernel is not followed further.
ShellStopped ==
  /\ \/ sh = "prompt" /\ ~OnScreen
     \/ sh \in {"call", "load"} /\ Stopped
  /\ UNCHANGED allvars

ShellNext ==
  \/ Prompt \/ Enter \/ LineFull \/ OtherPrints
  \/ \E key \in Char \cup {BS} : Type(key)
  \/ Parse \/ Call \/ CallFails \/ ParsePath \/ LoaderStep \/ Return \/ ProgramEnds \/ ShellStopped

\* System call 7 is not interrupted until it returns or starts the program.
ShellSpec ==
  ShellInit /\ [][ShellNext]_allvars /\ WF_allvars(ParsePath \/ LoaderStep \/ Return)

------------------------------------------------------------------------------
(* Correctness *)

\* shell.c, terminal.c: while the user erases neither at the left margin nor on an
\* empty line, and no other program prints, what stands behind the prompt is the line
\* that will be run, and the cursor is right behind it: over the end of a row and for
\* any order of characters and backspaces.
EchoShowsLine ==
  sh = "readline" /\ clean =>
    LET typed == Cursor(terminal) - Len(out)
    IN /\ typed % VGA_WIDTH = 1
       /\ terminal.col < VGA_WIDTH
       /\ \A i \in 0..Len(out) :
            typed + i - 1 < VGA_WIDTH * VGA_HEIGHT =>
              terminal.cells[typed + i - 1] = (<<">">> \o out)[i + 1]

\* simpos_parse_command: unless an earlier line ran out of memory, the arguments are
\* the words of the line just read, from the first on, and all of them unless this
\* one does.
ParsesTheLine ==
  [][sh = "parse" /\ sh' # "parse" /\ sp = NULL =>
       /\ IsPrefix(args', Words(out, " "))
       /\ sp' = NULL => args' = Words(out, " ")]_allvars

\* command7_invoke_system_command, pathparser_parse: the file that is opened is the
\* one the first word names, or, out of memory, a directory on the way to it: never
\* one beside the path, whatever slashes the word has.
OpensOnThePath ==
  parts # <<>> =>
    /\ IsPrefix(parts, Named(args[1]))
    /\ "heap" \notin Faults => parts = Named(args[1])

\* process_load_data, elf_load: every load ends, with a program or an error, unless a
\* pointer is used that is none; the file is not tried for ever.
LoadEnds == sh = "load" ~> (sh = "prompt" \/ kernel # "running")

==============================================================================

------------------------------- MODULE Context -------------------------------
(***************************************************************************)
(* What the processor runs: the handlers of interrupts and system calls    *)
(* (src/idt/idt.c, idt.asm), the registers saved in the task structures    *)
(* and loaded from them (src/task/task.c, task.asm), and the page          *)
(* directory of the processor, around the steps of Processes.              *)
(*                                                                         *)
(* The registers of a program are a frame: the program, and the point it   *)
(* has reached.  A task's directory is named by the task, with which it is *)
(* allocated and freed.                                                    *)
(***************************************************************************)
EXTENDS Processes

CONSTANT Points      \* bound: points of a program that are told apart, 0..Points-1

ASSUME ContextAssumption == Points \in Nat \ {0}

VARIABLES registers, \* task->registers
          cpu,       \* in user mode: its directory and its frame
          reached    \* history: the point each program has reached

contextVars == <<vars, registers, cpu, reached>>

Frame == [program : ProcAddr \cup {NULL}, point : 0..(Points-1)]

Entry(p) == [program |-> p, point |-> 0]

\* NULL is the kernel's directory.
InKernel == [directory |-> NULL, frame |-> Entry(NULL)]

ContextInit ==
  /\ Init
  /\ registers = [t \in TaskAddr |-> Entry(NULL)]
  /\ cpu = InKernel
  /\ reached = [p \in ProcAddr |-> 0]

------------------------------------------------------------------------------
(* Saving and loading *)

task_current_save_state_Never == registers

task_current_save_state == [registers EXCEPT ![list.current] = cpu.frame]

\* task_init: the tasks made in this step begin at their entry.
WithNew(saved) ==
  [t \in TaskAddr |-> IF t \in allocated' \ allocated
                      THEN Entry(list'.node[t].process) ELSE saved[t]]

\* task_switch and task_return: the current task goes on with what is saved of it.
task_return == cpu' = [directory |-> list'.current, frame |-> registers'[list'.current]]

\* task_page, and the frame on the kernel's stack is popped.
iret == cpu' = [directory |-> list'.current, frame |-> cpu.frame]

\* A program that is started begins at its entry; one that ended is nowhere.
Begins == reached' = [p \in ProcAddr |-> IF p \in allocated' \cap allocated THEN reached[p] ELSE 0]

------------------------------------------------------------------------------
(* Steps *)

\* kernel_main, to task_run_first_ever_task.
BootStep ==
  /\ Boot \/ BootFails
  /\ registers' = WithNew(registers)
  /\ Begins
  /\ IF kernel' = "running" THEN task_return ELSE UNCHANGED cpu

\* The program runs.
Execute ==
  /\ kernel = "running"
  /\ cpu' = [cpu EXCEPT !.frame.point = (@ + 1) % Points]
  /\ reached' = [reached EXCEPT ![cpu.frame.program] = (@ + 1) % Points]
  /\ UNCHANGED <<vars, registers>>

\* interrupt_handler: only an interrupt with a callback (the keyboard's) saves the
\* registers.
interrupt_handler ==
  /\ kernel = "running"
  /\ registers' \in {registers, task_current_save_state}
  /\ UNCHANGED <<vars, reached>>
  /\ iret

\* isr80h_handler, for the calls that start or end no program and those there are
\* not: what they do to keys, text and memory is in other modules.
OtherCall ==
  /\ kernel = "running"
  /\ registers' = task_current_save_state
  /\ UNCHANGED <<vars, reached>>
  /\ iret

\* Calls 6 and 7 that start a program, call 9 and exceptions: the handler does not
\* return to the frame it was entered with.
Switches ==
  /\ Start \/ Exit
  /\ registers' = WithNew(task_current_save_state)
  /\ Begins
  /\ IF kernel' = "running" THEN task_return ELSE cpu' = InKernel

\* Calls 6 and 7 that fail return to their caller with the error.
CallReturns ==
  /\ \/ StartWithoutArguments \/ StartRefused
     \/ StartLoadFails \/ StartTaskFails \/ StartMapFails
  /\ registers' = WithNew(task_current_save_state)
  /\ Begins
  /\ IF kernel' = "running" THEN iret ELSE cpu' = InKernel

ContextStopped == Stopped /\ UNCHANGED contextVars

ContextNext ==
  \/ BootStep \/ Execute \/ interrupt_handler \/ OtherCall
  \/ Switches \/ CallReturns \/ ContextStopped

ContextSpec == ContextInit /\ [][ContextNext]_contextVars

\* The fairness of Processes: interrupts and the other calls take nobody's turn.
ContextFairSpec == ContextSpec /\ WF_vars(Boot) /\ ProgramsEnd

------------------------------------------------------------------------------
(* Correctness *)

\* task.h:31 "for storing registers of the task when its not running": the processor
\* runs the current task's program, in that task's page directory, where it stopped;
\* every program that waits has the point where it stopped in its own task.  No call
\* that fails half way, and no program that ends or reuses the structures of another,
\* resumes a program with the memory or the registers of another one.
RunsItsOwn ==
  kernel = "running" =>
    /\ cpu.directory = list.current /\ list.current \in LiveTasks
    /\ cpu.frame = [program |-> running, point |-> reached[running]]
    /\ \A t \in LiveTasks \ {list.current} :
         LET p == list.node[t].process
         IN registers[t] = [program |-> p, point |-> reached[p]]

==============================================================================

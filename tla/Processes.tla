------------------------------ MODULE Processes ------------------------------
(***************************************************************************)
(* Processes and tasks: the process table (src/task/process.c), the task   *)
(* list and the choice of who runs (src/task/task.c), driven by system     *)
(* calls 6, 7 and 9 (src/isr80h/process.c), by exceptions                  *)
(* (src/idt/idt.c) and by the boot (src/kernel.c).  There is no timer: a   *)
(* task keeps the CPU until it starts a program, exits or faults, and the  *)
(* kernel runs each call with interrupts off.                              *)
(*                                                                         *)
(* Memory is modelled where it matters: structures live at addresses, a    *)
(* freed structure keeps its last content until its address is used again. *)
(***************************************************************************)
EXTENDS Integers, FiniteSets

CONSTANTS MaxProcesses, \* SIMPOS_MAX_PROCESSES
          ProcAddr,     \* addresses kzalloc gives to process structures
          TaskAddr,     \* and to task structures
          NULL,
          Faults        \* what may go wrong: "file", "heap", "map"

ASSUME ProcessesAssumption ==
  /\ MaxProcesses \in Nat \ {0}
  /\ NULL \notin ProcAddr \cup TaskAddr
  /\ ProcAddr \cap TaskAddr = {}
  /\ Faults \subseteq {"file", "heap", "map"}

VARIABLES processes,       \* the process table
          current_process, \* who the process table says is current
          process,         \* content of the process structures: id and task
          list,            \* task_head, task_tail, current_task and the nodes
          allocated,       \* the addresses in use
          kernel,          \* "boot", "running", "panicked" or "undefined"
          parent           \* history: which process started a process

vars == <<processes, current_process, process, list, allocated, kernel, parent>>

Slots == 0..(MaxProcesses-1)

Process == [id : Slots, task : TaskAddr \cup {NULL}]
Node == [next : TaskAddr \cup {NULL}, prev : TaskAddr \cup {NULL},
         process : ProcAddr \cup {NULL}]
List == [head : TaskAddr \cup {NULL}, tail : TaskAddr \cup {NULL},
         current : TaskAddr \cup {NULL}, node : [TaskAddr -> Node]]

Init ==
  /\ processes = [s \in Slots |-> NULL]
  /\ current_process = NULL
  /\ process = [p \in ProcAddr |-> [id |-> 0, task |-> NULL]]
  /\ list = [head |-> NULL, tail |-> NULL, current |-> NULL,
             node |-> [t \in TaskAddr |-> [next |-> NULL, prev |-> NULL, process |-> NULL]]]
  /\ allocated = {}
  /\ kernel = "boot"
  /\ parent = [p \in ProcAddr |-> NULL]

------------------------------------------------------------------------------
(* The task list *)

\* task_current()->process
running == list.node[list.current].process

task_get_next_AlwaysHead(l) == l.head

task_get_next(l) ==
  IF l.node[l.current].next = NULL THEN l.head ELSE l.node[l.current].next

task_new_NoPrev(l, t, p) ==
  LET fresh == [next |-> NULL, prev |-> NULL, process |-> p]
  IN IF l.head = NULL
     THEN [head |-> t, tail |-> t, current |-> t,
           node |-> [l.node EXCEPT ![t] = fresh]]
     ELSE [l EXCEPT !.tail = t,
                    !.node = [l.node EXCEPT ![t] = fresh, ![l.tail].next = t]]

\* The list part of task_new: append at the tail.
task_new(l, t, p) ==
  LET fresh == [next |-> NULL, prev |-> IF l.head = NULL THEN NULL ELSE l.tail,
                process |-> p]
  IN IF l.head = NULL
     THEN [head |-> t, tail |-> t, current |-> t,
           node |-> [l.node EXCEPT ![t] = fresh]]
     ELSE [l EXCEPT !.tail = t,
                    !.node = [l.node EXCEPT ![t] = fresh, ![l.tail].next = t]]

task_list_remove_KeepsTail(l, t) ==
  LET node == IF l.node[t].prev = NULL THEN l.node
              ELSE [l.node EXCEPT ![l.node[t].prev].next = l.node[t].next]
      m == [l EXCEPT !.node = node, !.head = IF t = @ THEN node[t].next ELSE @]
  IN IF t = l.current THEN [m EXCEPT !.current = task_get_next(m)] ELSE m

\* The node after the removed one keeps its prev.
task_list_remove(l, t) ==
  LET node == IF l.node[t].prev = NULL THEN l.node
              ELSE [l.node EXCEPT ![l.node[t].prev].next = l.node[t].next]
      m == [l EXCEPT !.node = node,
                     !.head = IF t = @ THEN node[t].next ELSE @,
                     !.tail = IF t = @ THEN node[t].prev ELSE @]
  IN IF t = l.current THEN [m EXCEPT !.current = task_get_next(m)] ELSE m

task_switch(l, t) == [l EXCEPT !.current = t]

------------------------------------------------------------------------------
(* Starting a program: process_load_switch *)

FreeSlots == {s \in Slots : processes[s] = NULL}
process_get_free_slot == CHOOSE s \in FreeSlots : \A r \in FreeSlots : s =< r

NewProcess_IdFromOne(p, t) == [id |-> process_get_free_slot + 1, task |-> t]

NewProcess(p, t) == [id |-> process_get_free_slot, task |-> t]

\* The caller exists: every start but the first is a system call of the running
\* task.
Caller == IF kernel = "boot" THEN NULL ELSE running

\* process_load_for_slot puts a new process with a new task in the table.
process_load(p, t) ==
  /\ FreeSlots # {}
  /\ p \in ProcAddr \ allocated /\ t \in TaskAddr \ allocated
  /\ process' = [process EXCEPT ![p] = NewProcess(p, t)]
  /\ processes' = [processes EXCEPT ![process_get_free_slot] = p]
  /\ allocated' = allocated \cup {p, t}
  /\ parent' = [parent EXCEPT ![p] = Caller]

Start_KeepsCurrent == \E p \in ProcAddr, t \in TaskAddr :
  /\ kernel = "running"
  /\ process_load(p, t)
  /\ list' = task_switch(task_new(list, t, p), t)
  /\ UNCHANGED <<current_process, kernel>>

\* System calls 6 and 7: load the program, make it current, run its task.
Start == \E p \in ProcAddr, t \in TaskAddr :
  /\ kernel = "running"
  /\ process_load(p, t)
  /\ current_process' = p
  /\ list' = task_switch(task_new(list, t, p), t)
  /\ UNCHANGED kernel

\* Call 7 loads the program and makes it current, then runs out of memory for
\* the arguments: the caller gets the error and keeps running.
StartWithoutArguments == \E p \in ProcAddr, t \in TaskAddr :
  /\ kernel = "running" /\ "heap" \in Faults
  /\ process_load(p, t)
  /\ current_process' = p
  /\ list' = task_new(list, t, p)
  /\ UNCHANGED kernel

\* No slot is free, or no memory for the process structure.
StartRefused ==
  /\ kernel = "running"
  /\ FreeSlots = {} \/ "heap" \in Faults
  /\ UNCHANGED vars

\* The program's file cannot be loaded, or there is no memory for its stack: the
\* error path frees the process structure only once it has a task.  (What fopen does
\* with the error of a missing file, Loader!OpenFails, is not followed here.)
StartLoadFails == \E p \in ProcAddr \ allocated :
  /\ kernel = "running" /\ FreeSlots # {}
  /\ Faults \cap {"file", "heap"} # {}
  /\ process' = [process EXCEPT ![p] = [id |-> 0, task |-> NULL]]
  /\ allocated' = allocated \cup {p}
  /\ UNCHANGED <<processes, current_process, list, kernel, parent>>

\* task_new has no memory: it frees a null task and returns an error pointer that
\* process_load_for_slot takes for a task.
StartTaskFails ==
  /\ kernel = "running" /\ FreeSlots # {} /\ "heap" \in Faults
  /\ kernel' = "undefined"
  /\ UNCHANGED <<processes, current_process, process, list, allocated, parent>>

StartMapFails_KeepsTask == \E p \in ProcAddr \ allocated, t \in TaskAddr \ allocated :
  /\ kernel = "running" /\ FreeSlots # {} /\ "map" \in Faults
  /\ process' = [process EXCEPT ![p] = NewProcess(p, NULL)]
  /\ list' = task_new(list, t, p)
  /\ UNCHANGED <<processes, current_process, allocated, kernel, parent>>

StartMapFails_NoFree == \E p \in ProcAddr \ allocated, t \in TaskAddr \ allocated :
  /\ kernel = "running" /\ FreeSlots # {} /\ "map" \in Faults
  /\ process' = [process EXCEPT ![p] = NewProcess(p, NULL)]
  /\ list' = task_list_remove(task_new(list, t, p), t)
  /\ allocated' = allocated \cup {p}
  /\ UNCHANGED <<processes, current_process, kernel, parent>>

\* The program's memory cannot be mapped: process_free_process takes the task off
\* the list again and frees both structures.
StartMapFails == \E p \in ProcAddr \ allocated, t \in TaskAddr \ allocated :
  /\ kernel = "running" /\ FreeSlots # {} /\ "map" \in Faults
  /\ process' = [process EXCEPT ![p] = NewProcess(p, NULL)]
  /\ list' = task_list_remove(task_new(list, t, p), t)
  /\ UNCHANGED <<processes, current_process, allocated, kernel, parent>>

\* kernel_main loads the shell and runs it, or panics.
Boot == \E p \in ProcAddr, t \in TaskAddr :
  /\ kernel = "boot"
  /\ process_load(p, t)
  /\ current_process' = p
  /\ list' = task_switch(task_new(list, t, p), t)
  /\ kernel' = "running"

BootFails ==
  /\ kernel = "boot" /\ Faults \cap {"file", "map"} # {}
  /\ kernel' = "panicked"
  /\ UNCHANGED <<processes, current_process, process, list, allocated, parent>>

------------------------------------------------------------------------------
(* Ending one: process_terminate, then task_next *)

Unlinked_Skipped(p) == processes

\* process_unlink, the table part: the slot the structure's id names is cleared.
Unlinked(p) == [processes EXCEPT ![process[p].id] = NULL]

\* process_switch_to_any: the process in the lowest slot.
process_switch_to_any(slots) ==
  slots[CHOOSE s \in Slots : slots[s] # NULL /\ \A r \in 0..(s-1) : slots[r] = NULL]

NoneLeft_FromSlotOne(slots) == \A s \in Slots \ {0} : slots[s] = NULL

NoneLeft(slots) == \A s \in Slots : slots[s] = NULL

\* process_free_process, the list part: a structure freed before has no task.
ListWithout(p) ==
  IF process[p].task = NULL THEN list ELSE task_list_remove(list, process[p].task)

\* process_unlink finds no process to switch to and panics.
TerminateLast(p) ==
  /\ current_process = p /\ NoneLeft(Unlinked(p))
  /\ processes' = Unlinked(p)
  /\ kernel' = "panicked"
  /\ UNCHANGED <<current_process, process, list, allocated, parent>>

\* The process is freed; task_next follows the list from whoever is current by
\* then.  Without a current task it reads through a null pointer.
TerminateAndSwitch(p) ==
  LET l == ListWithout(p)
  IN /\ current_process # p \/ ~NoneLeft(Unlinked(p))
     /\ processes' = Unlinked(p)
     /\ current_process' = IF current_process = p
                           THEN process_switch_to_any(Unlinked(p)) ELSE current_process
     /\ process' = [process EXCEPT ![p].task = NULL]
     /\ allocated' = allocated \ {p, process[p].task}
     /\ UNCHANGED parent
     /\ kernel' = IF l.current = NULL THEN "undefined"
                  ELSE IF task_get_next(l) = NULL THEN "panicked" ELSE kernel
     /\ list' = IF kernel' = kernel THEN task_switch(l, task_get_next(l)) ELSE l

Terminate(p) ==
  /\ kernel = "running" /\ running = p
  /\ TerminateLast(p) \/ TerminateAndSwitch(p)

\* System call 9, and any exception (idt_handle_exception), end the running
\* program with the same two calls.
Exit == \E p \in ProcAddr : Terminate(p)

\* kernel_panic loops forever; an undefined kernel is not followed further.
Stopped == kernel \in {"panicked", "undefined"} /\ UNCHANGED vars

Next == \/ Boot \/ BootFails
        \/ Start \/ StartWithoutArguments \/ StartRefused
        \/ StartLoadFails \/ StartTaskFails \/ StartMapFails
        \/ Exit \/ Stopped

\* Every program that another one started ends if it keeps getting the CPU: main
\* returns to start.asm, which calls exit.  The first process need not.
ProgramsEnd == \A p \in ProcAddr : SF_vars(parent[p] # NULL /\ Terminate(p))

Spec == Init /\ [][Next]_vars

------------------------------------------------------------------------------
(* Correctness *)

TypeOK ==
  /\ processes \in [Slots -> ProcAddr \cup {NULL}]
  /\ current_process \in ProcAddr \cup {NULL}
  /\ process \in [ProcAddr -> Process]
  /\ list \in List
  /\ allocated \subseteq ProcAddr \cup TaskAddr
  /\ kernel \in {"boot", "running", "panicked", "undefined"}
  /\ parent \in [ProcAddr -> ProcAddr \cup {NULL}]

LiveTasks == allocated \cap TaskAddr
InTable == {p \in ProcAddr : \E s \in Slots : processes[s] = p}

\* The k-th task met from task_head along next.
Walk[k \in 0..MaxProcesses] ==
  IF k = 0 THEN list.head
  ELSE IF Walk[k-1] = NULL THEN NULL ELSE list.node[Walk[k-1]].next

\* task.h:35 "the next task in the linked list": from the head, next visits every
\* live task once and no freed one, and stops at the tail.
ListComplete ==
  /\ {Walk[k] : k \in 0..MaxProcesses} \ {NULL} = LiveTasks
  /\ Walk[Cardinality(LiveTasks)] = NULL
  /\ LiveTasks # {} => Walk[Cardinality(LiveTasks) - 1] = list.tail

\* task.h:37 "previous taks in the linked list": prev is the task whose next is
\* this one, and NULL at the head.
PrevIsPredecessor == \A t \in LiveTasks :
  LET prev == list.node[t].prev
  IN IF t = list.head THEN prev = NULL
     ELSE prev \in LiveTasks /\ list.node[prev].next = t

\* The process table and the task list describe the same processes: a slot holds
\* an allocated process of that id with a live task of its own, and every live
\* task belongs to a process of the table.
SlotsMatchTasks ==
  kernel \in {"boot", "running"} =>
  /\ \A s \in Slots : processes[s] # NULL =>
       LET p == processes[s]
       IN /\ p \in allocated /\ process[p].id = s
          /\ process[p].task \in LiveTasks
          /\ list.node[process[p].task].process = p
  /\ \A t \in LiveTasks : list.node[t].process \in InTable

\* task_switch: the CPU is never given to a task whose memory was freed, whatever
\* failed while programs were started.
RunsLiveTask ==
  kernel = "running" => list.current \in LiveTasks /\ running \in InTable

\* process_current() is the process of the running task: keyboard_push asks the
\* one, keyboard_pop the other.
CurrentAgrees == kernel = "running" => current_process = running

\* process_switch_to_any and task_next: the kernel gives up only when no process
\* is left.
PanicOnlyWhenEmpty == kernel = "panicked" => InTable = {}

\* System call 9: a program that ends gives the CPU back to the program that
\* started it, although neither task_list_remove nor task_next looks for it.
ParentResumes ==
  [][kernel = "running" /\ kernel' = "running" /\ running \notin InTable'
     => running' = parent[running]]_vars

\* process_load_for_slot and process_free_process: no process structure stays
\* allocated outside the table.
NothingOrphaned == kernel = "running" => allocated \cap ProcAddr = InTable

\* task_get_next: a program waiting for the one it started runs again, if every
\* program that was started ends.
StarterRunsAgain == \A p \in ProcAddr :
  kernel = "running" /\ p \in InTable ~> kernel # "running" \/ running = p \/ p \notin InTable

==============================================================================

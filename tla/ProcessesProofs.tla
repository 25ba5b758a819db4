--------------------------- MODULE ProcessesProofs ---------------------------
(***************************************************************************)
(* Proofs about processes and tasks for any addresses: what the process    *)
(* table, the task list and the registers of the tasks have to do with     *)
(* each other.                                                             *)
(*                                                                         *)
(* That the table matches the list, that no process is orphaned and that   *)
(* the processor runs the current task's own program are proved for any    *)
(* number of slots and any failures, as long as the CPU is only given to   *)
(* live tasks.  That it is only given to live tasks depends on the list,   *)
(* and is proved where the code keeps it: for two slots whatever fails,    *)
(* and for three slots without failures of memory.                         *)
(***************************************************************************)
EXTENDS Context, FiniteSetTheorems, WellFoundedInduction, TLAPS

------------------------------------------------------------------------------
(* What the properties rest on *)

\* The task that process_free_process frees is the one the process runs as.
TaskIsOwn ==
  kernel \in {"boot", "running"} =>
    \A t \in LiveTasks : process[list.node[t].process].task = t

\* process_unlink: the current process is in the table, or another one takes its place.
CurrentListed == kernel = "running" => current_process \in InTable

\* Before the first program there is nothing.
BootIsClean == kernel = "boot" => allocated = {} /\ InTable = {} /\ list.head = NULL

TableInv == TypeOK /\ SlotsMatchTasks /\ TaskIsOwn /\ CurrentListed /\ BootIsClean

Linked(prev, t) == list.node[t].prev = prev /\ (prev # NULL => list.node[prev].next = t)

Started(a, b) == parent[list.node[b].process] = list.node[a].process

\* Up to three programs, each started by the one before it: the newest runs.
Row(tasks, last) ==
  /\ LiveTasks = tasks
  /\ list.tail = last /\ list.node[last].next = NULL
  /\ kernel # "boot" /\ list.current = last

One(a) == Row({a}, a) /\ list.head = a /\ Linked(NULL, a)
Two(a, b) ==
  /\ MaxProcesses >= 2
  /\ a # b /\ Row({a, b}, b) /\ list.head = a
  /\ Linked(NULL, a) /\ Linked(a, b) /\ Started(a, b)
Three(a, b, c) ==
  /\ MaxProcesses >= 3
  /\ a # b /\ a # c /\ b # c /\ Row({a, b, c}, c) /\ list.head = a
  /\ Linked(NULL, a) /\ Linked(a, b) /\ Linked(b, c) /\ Started(a, b) /\ Started(b, c)

\* The list and the history of starts without failures of memory.
StackInv ==
  /\ kernel # "undefined"
  /\ \/ kernel # "running" /\ LiveTasks = {} /\ list.head = NULL
     \/ \E a \in TaskAddr : One(a)
     \/ \E a, b \in TaskAddr : Two(a, b)
     \/ \E a, b, c \in TaskAddr : Three(a, b, c)

\* The list of at most two programs, whatever failed: the first's prev and the only
\* one's next may be left over from tasks that ended.
Alone(a) ==
  /\ LiveTasks = {a} /\ list.head = a /\ list.tail = a /\ list.current = a
  /\ list.node[a].next \in {NULL, a}
Pair(a, b) ==
  /\ a # b /\ LiveTasks = {a, b} /\ list.head = a /\ list.tail = b /\ list.current \in {a, b}
  /\ list.node[a].next = b /\ list.node[b].next = NULL /\ list.node[b].prev = a

PairInv == kernel = "running" =>
  \/ \E a \in TaskAddr : Alone(a)
  \/ \E a, b \in TaskAddr : Pair(a, b)

------------------------------------------------------------------------------
(* The operators *)

\* A set of slots that is not empty has a lowest one (process_get_free_slot and
\* process_switch_to_any search the table from slot 0).
LEMMA LowestSlot ==
  ASSUME NEW S \in SUBSET Slots, S # {}
  PROVE  \E s \in S : \A r \in S : s =< r
<1> DEFINE R == OpToRel(<, Nat)
<1>1. S \subseteq Nat
  BY ProcessesAssumption DEF Slots
<1>2. IsWellFoundedOn(R, Nat)
  BY NatLessThanWellFounded
<1>3. \A x, y \in Nat : x < y => <<x, y>> \in R
  BY DEF OpToRel
<1> HIDE DEF R
<1>4. PICK s \in S : \A r \in S : <<r, s>> \notin R
  BY <1>1, <1>2, WFMin
<1>5. ASSUME NEW r \in S PROVE s =< r
  <2>1. r \in Nat /\ s \in Nat
    BY <1>1
  <2>2. ~(r < s)
    BY <1>3, <1>4, <2>1, Zenon
  <2> QED
    BY <2>1, <2>2
<1> QED
  BY <1>5

\* The slot a new process gets is free (process_get_free_slot).
LEMMA FreeSlotIsFree ==
  ASSUME FreeSlots # {}
  PROVE  process_get_free_slot \in Slots /\ processes[process_get_free_slot] = NULL
<1>1. \E s \in FreeSlots : \A r \in FreeSlots : s =< r
  BY LowestSlot DEF FreeSlots
<1> QED
  BY <1>1 DEF process_get_free_slot, FreeSlots

\* A process of the table is found if there is one (process_switch_to_any).
LEMMA AnyIsListed ==
  ASSUME NEW slots \in [Slots -> ProcAddr \cup {NULL}], ~NoneLeft(slots)
  PROVE  \E s \in Slots : slots[s] # NULL /\ process_switch_to_any(slots) = slots[s]
<1> DEFINE Used == {s \in Slots : slots[s] # NULL}
<1>1. PICK s \in Used : \A r \in Used : s =< r
  <2>1. Used # {}
    BY DEF NoneLeft
  <2> QED
    BY <2>1, LowestSlot
<1>2. \A r \in 0..(s-1) : slots[r] = NULL
  BY <1>1, ProcessesAssumption DEF Slots
<1> QED
  BY <1>1, <1>2 DEF process_switch_to_any

\* Appending a task to a list that is not empty (task_new).
LEMMA NewAppends ==
  ASSUME NEW l \in List, l.head # NULL, l.tail # NULL,
         NEW t \in TaskAddr, t # l.tail, NEW p \in ProcAddr
  PROVE  LET m == task_new(l, t, p) IN
         /\ m \in List /\ m.head = l.head /\ m.tail = t /\ m.current = l.current
         /\ m.node[t] = [next |-> NULL, prev |-> l.tail, process |-> p]
         /\ m.node[l.tail] = [l.node[l.tail] EXCEPT !.next = t]
         /\ \A u \in TaskAddr \ {t, l.tail} : m.node[u] = l.node[u]
<1> DEFINE fresh == [next |-> NULL, prev |-> l.tail, process |-> p]
           node == [l.node EXCEPT ![t] = fresh, ![l.tail].next = t]
           m == [l EXCEPT !.tail = t, !.node = node]
<1>1. task_new(l, t, p) = m
  BY DEF task_new
<1>2. l.tail \in TaskAddr /\ l.node \in [TaskAddr -> Node] /\ fresh \in Node
  BY DEF List, Node
<1>3. node \in [TaskAddr -> Node]
  BY <1>2 DEF Node
<1>4. /\ node[t] = fresh /\ node[l.tail] = [l.node[l.tail] EXCEPT !.next = t]
      /\ \A u \in TaskAddr \ {t, l.tail} : node[u] = l.node[u]
  BY <1>2
<1> HIDE DEF node, fresh
<1>5. m \in List /\ m.head = l.head /\ m.tail = t /\ m.current = l.current /\ m.node = node
  BY <1>3 DEF List
<1> QED
  BY <1>1, <1>4, <1>5 DEF fresh

\* The first task is the whole list (task_new).
LEMMA NewStarts ==
  ASSUME NEW l \in List, l.head = NULL, NEW t \in TaskAddr, NEW p \in ProcAddr
  PROVE  LET m == task_new(l, t, p) IN
         /\ m \in List /\ m.head = t /\ m.tail = t /\ m.current = t
         /\ m.node[t] = [next |-> NULL, prev |-> NULL, process |-> p]
         /\ \A u \in TaskAddr \ {t} : m.node[u] = l.node[u]
<1> DEFINE fresh == [next |-> NULL, prev |-> NULL, process |-> p]
           node == [l.node EXCEPT ![t] = fresh]
<1>1. task_new(l, t, p) = [head |-> t, tail |-> t, current |-> t, node |-> node]
  BY DEF task_new
<1>2. node \in [TaskAddr -> Node] /\ node[t] = fresh /\ \A u \in TaskAddr \ {t} : node[u] = l.node[u]
  BY DEF List, Node
<1> HIDE DEF node
<1> QED
  BY <1>1, <1>2 DEF List

\* m is l without t: only the next of the task that t calls its predecessor changes.
Unlinks(l, t, m) ==
  /\ m \in List
  /\ \A u \in TaskAddr :
       /\ m.node[u].process = l.node[u].process /\ m.node[u].prev = l.node[u].prev
       /\ m.node[u].next = IF u = l.node[t].prev THEN l.node[t].next ELSE l.node[u].next
  /\ m.head = IF t = l.head THEN m.node[t].next ELSE l.head
  /\ m.tail = IF t = l.tail THEN l.node[t].prev ELSE l.tail
  /\ t # l.current => m.current = l.current
  /\ t = l.current => m.current = IF m.node[t].next = NULL THEN m.head ELSE m.node[t].next

\* Taking a task off the list (task_list_remove).
LEMMA RemoveUnlinks ==
  ASSUME NEW l \in List, NEW t \in TaskAddr
  PROVE  Unlinks(l, t, task_list_remove(l, t))
<1> DEFINE node == IF l.node[t].prev = NULL THEN l.node
                   ELSE [l.node EXCEPT ![l.node[t].prev].next = l.node[t].next]
           head == IF t = l.head THEN node[t].next ELSE l.head
           tail == IF t = l.tail THEN node[t].prev ELSE l.tail
           r == [l EXCEPT !.node = node, !.head = head, !.tail = tail]
<1>1. l.node \in [TaskAddr -> Node] /\ l.node[t] \in Node /\ l.node[t].prev \in TaskAddr \cup {NULL}
  BY DEF List, Node
<1>2. /\ node \in [TaskAddr -> Node]
      /\ \A u \in TaskAddr :
           /\ node[u].process = l.node[u].process /\ node[u].prev = l.node[u].prev
           /\ node[u].next = IF u = l.node[t].prev THEN l.node[t].next ELSE l.node[u].next
  BY <1>1, ProcessesAssumption DEF Node
<1> HIDE DEF node
<1>3. /\ r \in List /\ r.node = node /\ r.head = head /\ r.tail = tail /\ r.current = l.current
  BY <1>2 DEF List, Node
<1>4. task_list_remove(l, t) = IF t = l.current THEN [r EXCEPT !.current = task_get_next(r)] ELSE r
  BY DEF task_list_remove, node
<1> HIDE DEF r
<1>5. CASE t = l.current
  <2>1. task_get_next(r) = IF node[t].next = NULL THEN head ELSE node[t].next
    BY <1>3, <1>5 DEF task_get_next
  <2>2. task_get_next(r) \in TaskAddr \cup {NULL}
    BY <2>1, <1>2, <1>3 DEF List, Node
  <2> DEFINE m == [r EXCEPT !.current = task_get_next(r)]
  <2>3. m \in List /\ m.node = node /\ m.head = head /\ m.tail = tail
        /\ m.current = task_get_next(r)
    BY <1>3, <2>2 DEF List
  <2> QED
    BY <1>2, <1>4, <1>5, <2>1, <2>3 DEF Unlinks
<1>6. CASE t # l.current
  BY <1>2, <1>3, <1>4, <1>6 DEF Unlinks
<1> QED
  BY <1>5, <1>6

\* Whatever the list looks like, a new task is a node of its process and no other node
\* changes hands (task_new).
LEMMA NewIsOwn ==
  ASSUME NEW l \in List, NEW t \in TaskAddr, NEW p \in ProcAddr
  PROVE  LET m == task_new(l, t, p) IN
         /\ m \in List /\ m.node[t].process = p
         /\ \A u \in TaskAddr \ {t} : m.node[u].process = l.node[u].process
<1> DEFINE fresh == [next |-> NULL, prev |-> IF l.head = NULL THEN NULL ELSE l.tail, process |-> p]
           one == [l.node EXCEPT ![t] = fresh]
           node == [one EXCEPT ![l.tail].next = t]
<1>1. l.node \in [TaskAddr -> Node] /\ fresh \in Node
  BY DEF List, Node
<1>2. one \in [TaskAddr -> Node] /\ one[t].process = p
      /\ \A u \in TaskAddr \ {t} : one[u].process = l.node[u].process
  BY <1>1
<1> HIDE DEF one
<1>3. node \in [TaskAddr -> Node] /\ node[t].process = p
      /\ \A u \in TaskAddr \ {t} : node[u].process = l.node[u].process
  BY <1>2 DEF Node
<1>4. task_new(l, t, p) =
        IF l.head = NULL THEN [head |-> t, tail |-> t, current |-> t, node |-> one]
        ELSE [l EXCEPT !.tail = t, !.node = node]
  BY DEF task_new, one
<1> HIDE DEF node
<1>5. CASE l.head = NULL
  BY <1>2, <1>4, <1>5 DEF List
<1>6. CASE l.head # NULL
  <2> DEFINE m == [l EXCEPT !.tail = t, !.node = node]
  <2>1. m \in List /\ m.node = node
    BY <1>3 DEF List
  <2> QED
    BY <1>3, <1>4, <1>6, <2>1
<1> QED
  BY <1>5, <1>6

------------------------------------------------------------------------------
(* The table and the list *)

\* The running process is in the slot its structure names, with the current task as
\* its own.
LEMMA RunningIsListed ==
  ASSUME TableInv, RunsLiveTask, kernel = "running"
  PROVE  /\ list.current \in LiveTasks /\ running \in ProcAddr /\ running \in InTable
         /\ running \in allocated /\ process[running].task = list.current
         /\ process[running].id \in Slots /\ processes[process[running].id] = running
<1>1. list.current \in LiveTasks /\ running \in InTable
  BY DEF RunsLiveTask
<1>2. PICK s \in Slots : processes[s] = running
  BY <1>1 DEF InTable
<1>3. processes[s] # NULL
  BY <1>1, <1>2, ProcessesAssumption DEF InTable
<1>4. process[running].id = s /\ running \in allocated
  BY <1>2, <1>3 DEF TableInv, SlotsMatchTasks
<1>5. process[running].task = list.current
  BY <1>1 DEF TableInv, TaskIsOwn, running
<1> QED
  BY <1>1, <1>2, <1>4, <1>5 DEF InTable

\* What process_load_for_slot does to the table and the structures.
LEMMA LoadEffect ==
  ASSUME TypeOK, NEW p \in ProcAddr, NEW t \in TaskAddr, process_load(p, t)
  PROVE  /\ p \notin allocated /\ t \notin allocated /\ allocated' = allocated \cup {p, t}
         /\ \E s \in Slots : /\ processes[s] = NULL
                             /\ processes' = [processes EXCEPT ![s] = p]
                             /\ process' = [process EXCEPT ![p] = [id |-> s, task |-> t]]
BY FreeSlotIsFree DEF process_load, NewProcess

\* A program that is started gets a slot, and a task that is its own.
LEMMA LoadKeepsTable ==
  ASSUME TableInv, RunsLiveTask, kernel \in {"boot", "running"},
         NEW p \in ProcAddr, NEW t \in TaskAddr, process_load(p, t),
         list' \in List, list'.node[t].process = p,
         \A u \in TaskAddr \ {t} : list'.node[u].process = list.node[u].process,
         current_process' = p, kernel' = "running"
  PROVE  TableInv'
<1>1. PICK s \in Slots : /\ processes[s] = NULL
                         /\ processes' = [processes EXCEPT ![s] = p]
                         /\ process' = [process EXCEPT ![p] = [id |-> s, task |-> t]]
  BY LoadEffect DEF TableInv
<1>2. p \notin allocated /\ t \notin allocated /\ allocated' = allocated \cup {p, t}
  BY LoadEffect DEF TableInv
<1>3. LiveTasks' = LiveTasks \cup {t} /\ t \notin LiveTasks /\ p # t /\ p # NULL
  BY <1>2, ProcessesAssumption DEF LiveTasks
<1>4. processes \in [Slots -> ProcAddr \cup {NULL}] /\ process \in [ProcAddr -> Process]
  BY DEF TableInv, TypeOK
<1>5. InTable' = InTable \cup {p}
  <2>1. processes'[s] = p /\ \A r \in Slots \ {s} : processes'[r] = processes[r]
    BY <1>1, <1>4
  <2>2. processes[s] \notin ProcAddr
    BY <1>1, ProcessesAssumption
  <2> QED
    BY <2>1, <2>2 DEF InTable
<1>6. TypeOK'
  <2>1. process' \in [ProcAddr -> Process]
    BY <1>1, <1>4 DEF Process
  <2>2. parent' \in [ProcAddr -> ProcAddr \cup {NULL}]
    <3>1. Caller \in ProcAddr \cup {NULL}
      BY RunningIsListed DEF Caller
    <3> QED
      BY <3>1 DEF process_load, TableInv, TypeOK
  <2> QED
    BY <1>1, <1>2, <1>4, <2>1, <2>2 DEF TableInv, TypeOK
<1>7. \A q \in InTable : q # p /\ process'[q] = process[q]
  BY <1>1, <1>2, <1>3, <1>4, ProcessesAssumption DEF InTable, TableInv, SlotsMatchTasks
<1>8. \A u \in LiveTasks : u # t /\ u \in TaskAddr /\ list.node[u].process \in InTable
  BY <1>3 DEF TableInv, SlotsMatchTasks, LiveTasks
<1>9. SlotsMatchTasks'
  <2>1. ASSUME NEW r \in Slots, processes'[r] # NULL
        PROVE  LET q == processes'[r]
               IN /\ q \in allocated' /\ process'[q].id = r
                  /\ process'[q].task \in LiveTasks'
                  /\ list'.node[process'[q].task].process = q
    <3>1. CASE r = s
      BY <1>1, <1>2, <1>3, <1>4, <3>1
    <3>2. CASE r # s
      <4>1. processes'[r] = processes[r] /\ processes[r] \in InTable
        BY <1>1, <1>4, <2>1, <3>2 DEF InTable
      <4>2. /\ processes[r] \in allocated /\ process[processes[r]].id = r
            /\ process[processes[r]].task \in LiveTasks
            /\ list.node[process[processes[r]].task].process = processes[r]
        BY <2>1, <4>1 DEF TableInv, SlotsMatchTasks
      <4> QED
        BY <1>2, <1>3, <1>7, <1>8, <4>1, <4>2
    <3> QED
      BY <3>1, <3>2
  <2>2. \A u \in LiveTasks' : list'.node[u].process \in InTable'
    BY <1>3, <1>5, <1>8
  <2> QED
    BY <2>1, <2>2 DEF SlotsMatchTasks
<1>10. TaskIsOwn'
  BY <1>1, <1>3, <1>4, <1>7, <1>8 DEF TaskIsOwn, TableInv
<1> QED
  BY <1>5, <1>6, <1>9, <1>10 DEF TableInv, CurrentListed, BootIsClean

\* A start that fails before the table is written leaves a structure that no slot
\* names, and a list with the tasks it had.
LEMMA FailureKeepsTable ==
  ASSUME TableInv, kernel = "running", kernel' = "running",
         NEW p \in ProcAddr \ allocated, NEW r \in Process,
         process' = [process EXCEPT ![p] = r],
         allocated' \in {allocated, allocated \cup {p}},
         list' \in List, \A u \in LiveTasks : list'.node[u].process = list.node[u].process,
         UNCHANGED <<processes, current_process, parent>>
  PROVE  TableInv'
<1>1. LiveTasks' = LiveTasks /\ InTable' = InTable
  BY ProcessesAssumption DEF LiveTasks, InTable
<1>2. \A q \in InTable : q # p /\ process'[q] = process[q]
  BY ProcessesAssumption DEF TableInv, TypeOK, InTable, SlotsMatchTasks
<1>3. TypeOK'
  BY DEF TableInv, TypeOK
<1>4. \A s \in Slots : processes[s] # NULL => processes[s] \in InTable
  BY DEF TableInv, TypeOK, InTable
<1>5. SlotsMatchTasks'
  BY <1>1, <1>2, <1>4 DEF TableInv, SlotsMatchTasks
<1>6. TaskIsOwn'
  BY <1>1, <1>2 DEF TableInv, TaskIsOwn, SlotsMatchTasks
<1> QED
  BY <1>1, <1>3, <1>5, <1>6 DEF TableInv, CurrentListed, BootIsClean

\* The end of a program clears its slot and frees its own task, the current one
\* (process_unlink, process_free_process).
LEMMA TerminateKeepsTable ==
  ASSUME TableInv, RunsLiveTask, NEW p \in ProcAddr, Terminate(p)
  PROVE  TableInv'
<1>1. /\ kernel = "running" /\ p = running /\ list.current \in LiveTasks /\ p \in InTable
      /\ p \in allocated /\ process[p].task = list.current
      /\ process[p].id \in Slots /\ processes[process[p].id] = p
  BY RunningIsListed DEF Terminate
<1> DEFINE slot == process[p].id
           t == list.current
<1>2. /\ processes \in [Slots -> ProcAddr \cup {NULL}] /\ process \in [ProcAddr -> Process]
      /\ list \in List /\ t \in TaskAddr /\ t # NULL /\ t # p
  BY <1>1, ProcessesAssumption DEF TableInv, TypeOK, LiveTasks
<1>3. /\ Unlinked(p) \in [Slots -> ProcAddr \cup {NULL}]
      /\ Unlinked(p)[slot] = NULL /\ \A s \in Slots \ {slot} : Unlinked(p)[s] = processes[s]
  BY <1>1, <1>2 DEF Unlinked
<1>4. CASE TerminateLast(p)
  BY <1>2, <1>3, <1>4 DEF TerminateLast, TableInv, TypeOK, SlotsMatchTasks, TaskIsOwn,
     CurrentListed, BootIsClean
<1>5. CASE TerminateAndSwitch(p)
  <2> DEFINE l == ListWithout(p)
  <2>1. /\ l \in List /\ \A u \in TaskAddr : l.node[u].process = list.node[u].process
    BY <1>1, <1>2, RemoveUnlinks DEF ListWithout, Unlinks
  <2>2. /\ processes' = Unlinked(p)
        /\ process' = [process EXCEPT ![p].task = NULL]
        /\ allocated' = allocated \ {p, t}
        /\ current_process' = IF current_process = p THEN process_switch_to_any(Unlinked(p))
                              ELSE current_process
        /\ current_process # p \/ ~NoneLeft(Unlinked(p))
        /\ parent' = parent
    BY <1>1, <1>5 DEF TerminateAndSwitch
  <2>3. /\ kernel' \in {"running", "panicked", "undefined"}
        /\ list' \in List /\ list'.node = l.node
    <3>1. /\ kernel' = IF l.current = NULL THEN "undefined"
                       ELSE IF task_get_next(l) = NULL THEN "panicked" ELSE kernel
          /\ list' = IF kernel' = kernel THEN task_switch(l, task_get_next(l)) ELSE l
      BY <1>5 DEF TerminateAndSwitch
    <3> HIDE DEF l
    <3>2. CASE kernel' = kernel
      <4>1. l.current \in TaskAddr
        BY <1>1, <2>1, <3>1, <3>2 DEF List
      <4>2. task_get_next(l) \in TaskAddr \cup {NULL}
        BY <2>1, <4>1 DEF task_get_next, List, Node
      <4> QED
        BY <1>1, <2>1, <3>1, <3>2, <4>2 DEF task_switch, List
    <3>3. CASE kernel' # kernel
      BY <2>1, <3>1, <3>3
    <3> QED
      BY <3>2, <3>3
  <2> HIDE DEF l
  <2>4. LiveTasks' = LiveTasks \ {t} /\ \A u \in LiveTasks : list'.node[u].process = list.node[u].process
    BY <2>1, <2>2, <2>3, <1>2, ProcessesAssumption DEF LiveTasks
  <2>5. InTable' = InTable \ {p}
    <3>1. \A s \in Slots : processes[s] = p => s = slot
      BY <1>1, <1>2, ProcessesAssumption DEF TableInv, SlotsMatchTasks
    <3> QED
      BY <1>1, <1>3, <2>2, <3>1, ProcessesAssumption DEF InTable
  <2>6. /\ process' \in [ProcAddr -> Process]
        /\ \A q \in ProcAddr : q # p => process'[q] = process[q]
    BY <1>2, <2>2 DEF Process
  <2>7. current_process' \in InTable'
    <3>1. CASE current_process = p
      <4>1. PICK s \in Slots : /\ Unlinked(p)[s] # NULL
                               /\ process_switch_to_any(Unlinked(p)) = Unlinked(p)[s]
        BY <1>3, <2>2, <3>1, AnyIsListed
      <4> QED
        BY <1>3, <2>2, <3>1, <4>1 DEF InTable
    <3>2. CASE current_process # p
      BY <1>1, <2>2, <2>5, <3>2 DEF TableInv, CurrentListed
    <3> QED
      BY <3>1, <3>2
  <2>8. TypeOK'
    BY <1>3, <2>2, <2>3, <2>6, <2>7 DEF TableInv, TypeOK, InTable
  <2>9. SlotsMatchTasks'
    <3>1. ASSUME NEW s \in Slots, processes'[s] # NULL
          PROVE  LET q == processes'[s]
                 IN /\ q \in allocated' /\ process'[q].id = s
                    /\ process'[q].task \in LiveTasks'
                    /\ list'.node[process'[q].task].process = q
      <4> DEFINE q == processes[s]
      <4>1. s # slot /\ processes'[s] = q /\ q \in ProcAddr
        BY <1>2, <1>3, <2>2, <3>1
      <4>2. q \in allocated /\ process[q].id = s /\ process[q].task \in LiveTasks
            /\ list.node[process[q].task].process = q
        BY <1>1, <3>1, <4>1 DEF TableInv, SlotsMatchTasks
      <4>3. q # p /\ q # t /\ process[q].task # t
        BY <1>1, <1>2, <4>1, <4>2, ProcessesAssumption DEF running
      <4> QED
        BY <2>2, <2>4, <2>6, <4>1, <4>2, <4>3
    <3>2. ASSUME NEW u \in LiveTasks' PROVE list'.node[u].process \in InTable'
      <4>1. u \in LiveTasks /\ u # t
        BY <2>4
      <4>2. list.node[u].process \in InTable /\ list.node[u].process # p
        BY <1>1, <4>1 DEF TableInv, SlotsMatchTasks, TaskIsOwn
      <4> QED
        BY <2>4, <2>5, <4>1, <4>2
    <3> QED
      BY <3>1, <3>2 DEF SlotsMatchTasks
  <2>10. TaskIsOwn'
    <3> SUFFICES ASSUME NEW u \in LiveTasks'
                 PROVE  process'[list'.node[u].process].task = u
      BY DEF TaskIsOwn
    <3>1. u \in LiveTasks /\ u # t
      BY <2>4
    <3>2. process[list.node[u].process].task = u /\ list.node[u].process \in ProcAddr
      BY <1>1, <3>1 DEF TableInv, SlotsMatchTasks, TaskIsOwn, InTable
    <3> QED
      BY <1>1, <2>4, <2>6, <3>1, <3>2
  <2> QED
    BY <2>3, <2>7, <2>8, <2>9, <2>10 DEF TableInv, CurrentListed, BootIsClean
<1> QED
  BY <1>4, <1>5 DEF Terminate

\* Every step keeps the table, while the CPU is only given to live tasks.
LEMMA TableStep ==
  ASSUME TableInv, RunsLiveTask, [Next]_vars
  PROVE  TableInv'
<1> list \in List
  BY DEF TableInv, TypeOK
<1>1. CASE Boot \/ Start
  <2>1. PICK p \in ProcAddr, t \in TaskAddr :
          /\ process_load(p, t) /\ current_process' = p
          /\ list' = task_switch(task_new(list, t, p), t)
          /\ kernel \in {"boot", "running"} /\ kernel' = "running"
    BY <1>1 DEF Boot, Start
  <2> DEFINE m == task_new(list, t, p)
  <2>2. /\ m \in List /\ m.node[t].process = p
        /\ \A u \in TaskAddr \ {t} : m.node[u].process = list.node[u].process
    BY NewIsOwn
  <2> HIDE DEF m
  <2>3. list' \in List /\ list'.node = m.node
    BY <2>1, <2>2 DEF m, task_switch, List
  <2> QED
    BY <2>1, <2>2, <2>3, LoadKeepsTable
<1>2. CASE StartWithoutArguments
  <2>1. PICK p \in ProcAddr, t \in TaskAddr :
          /\ process_load(p, t) /\ current_process' = p /\ list' = task_new(list, t, p)
          /\ kernel = "running" /\ kernel' = "running"
    BY <1>2 DEF StartWithoutArguments
  <2>2. /\ list' \in List /\ list'.node[t].process = p
        /\ \A u \in TaskAddr \ {t} : list'.node[u].process = list.node[u].process
    BY <2>1, NewIsOwn
  <2> QED
    BY <2>1, <2>2, LoadKeepsTable
<1>3. CASE StartLoadFails
  <2>1. PICK p \in ProcAddr \ allocated :
          /\ kernel = "running"
          /\ process' = [process EXCEPT ![p] = [id |-> 0, task |-> NULL]]
          /\ allocated' = allocated \cup {p}
          /\ UNCHANGED <<processes, current_process, list, kernel, parent>>
    BY <1>3 DEF StartLoadFails
  <2>2. [id |-> 0, task |-> NULL] \in Process
    BY ProcessesAssumption DEF Process, Slots
  <2> QED
    BY <2>1, <2>2, FailureKeepsTable
<1>4. CASE StartMapFails
  <2>1. PICK p \in ProcAddr \ allocated, t \in TaskAddr \ allocated :
          /\ kernel = "running" /\ FreeSlots # {}
          /\ process' = [process EXCEPT ![p] = NewProcess(p, NULL)]
          /\ list' = task_list_remove(task_new(list, t, p), t)
          /\ UNCHANGED <<processes, current_process, allocated, kernel, parent>>
    BY <1>4 DEF StartMapFails
  <2>2. NewProcess(p, NULL) \in Process
    BY <2>1, FreeSlotIsFree DEF NewProcess, Process
  <2> DEFINE m == task_new(list, t, p)
  <2>3. /\ m \in List
        /\ \A u \in TaskAddr \ {t} : m.node[u].process = list.node[u].process
    BY NewIsOwn
  <2>4. /\ list' \in List
        /\ \A u \in TaskAddr : list'.node[u].process = m.node[u].process
    BY <2>1, <2>3, RemoveUnlinks DEF Unlinks
  <2>5. \A u \in LiveTasks : list'.node[u].process = list.node[u].process
    BY <2>3, <2>4 DEF LiveTasks
  <2> QED
    BY <2>1, <2>2, <2>4, <2>5, FailureKeepsTable
<1>5. CASE BootFails \/ StartTaskFails
  BY <1>5 DEF BootFails, StartTaskFails, TableInv, TypeOK, SlotsMatchTasks, TaskIsOwn,
     CurrentListed, BootIsClean, LiveTasks, InTable
<1>6. CASE Exit
  BY <1>6, TerminateKeepsTable DEF Exit
<1>7. CASE UNCHANGED vars
  BY <1>7 DEF vars, TableInv, TypeOK, SlotsMatchTasks, TaskIsOwn, CurrentListed, BootIsClean,
     LiveTasks, InTable
<1> QED
  BY <1>1, <1>2, <1>3, <1>4, <1>5, <1>6, <1>7 DEF Next, StartRefused, Stopped

\* The empty table matches the empty list.
LEMMA TableBegins == Init => TableInv
BY ProcessesAssumption
   DEF Init, TableInv, TypeOK, SlotsMatchTasks, TaskIsOwn, CurrentListed, BootIsClean,
       LiveTasks, InTable, Process, List, Node, Slots

\* The process table and the task list describe the same processes, for any number of
\* slots and whatever fails while programs are started, for as long as the CPU is only
\* given to live tasks (process_load_for_slot, process_unlink, process_free_process).
THEOREM TableMatchesList ==
  Spec /\ []RunsLiveTask => []TypeOK /\ []SlotsMatchTasks
<1>1. TableInv /\ RunsLiveTask /\ [Next]_vars => TableInv'
  BY TableStep
<1>2. TableInv => TypeOK /\ SlotsMatchTasks
  BY DEF TableInv
<1> QED
  BY <1>1, <1>2, TableBegins, PTL DEF Spec

\* No process structure is left outside the table when only mappings fail: the failed
\* start takes back what it took (process_free_process), and a program's end frees it.
THEOREM NoneOrphaned ==
  ASSUME Faults \subseteq {"map"}
  PROVE  Spec /\ []RunsLiveTask => []NothingOrphaned
<1>1. Init => NothingOrphaned
  BY DEF Init, NothingOrphaned
<1>2. ASSUME NothingOrphaned, TableInv, RunsLiveTask, [Next]_vars PROVE NothingOrphaned'
  <2> SUFFICES ASSUME kernel' = "running"
               PROVE  allocated' \cap ProcAddr = InTable'
    BY DEF NothingOrphaned
  <2>1. CASE Boot \/ Start \/ StartWithoutArguments
    <3>1. PICK p \in ProcAddr, t \in TaskAddr :
            process_load(p, t) /\ kernel \in {"boot", "running"}
      BY <2>1 DEF Boot, Start, StartWithoutArguments
    <3>2. allocated \cap ProcAddr = InTable
      BY <1>2, <3>1 DEF TableInv, BootIsClean, NothingOrphaned
    <3>3. PICK s \in Slots : processes[s] = NULL /\ processes' = [processes EXCEPT ![s] = p]
      BY <1>2, <3>1, LoadEffect DEF TableInv
    <3>4. allocated' = allocated \cup {p, t} /\ t \notin ProcAddr
      BY <1>2, <3>1, LoadEffect, ProcessesAssumption DEF TableInv
    <3>5. InTable' = InTable \cup {p}
      <4>1. processes \in [Slots -> ProcAddr \cup {NULL}]
        BY <1>2 DEF TableInv, TypeOK
      <4>2. processes'[s] = p /\ \A r \in Slots \ {s} : processes'[r] = processes[r]
        BY <3>3, <4>1
      <4> QED
        BY <3>3, <4>2, ProcessesAssumption DEF InTable
    <3> QED
      BY <3>2, <3>4, <3>5
  <2>2. CASE Exit
    <3>1. PICK p \in ProcAddr : Terminate(p)
      BY <2>2 DEF Exit
    <3> USE <1>2, <3>1
    <3>2. kernel = "running" /\ p = running
      BY DEF Terminate
    <3>3. /\ process[p].task \in TaskAddr /\ p \in ProcAddr
          /\ process[p].id \in Slots /\ processes[process[p].id] = p
      BY <3>2, RunningIsListed DEF LiveTasks
    <3>4. processes' = Unlinked(p) /\ allocated' = allocated \ {p, process[p].task}
      BY <2>2 DEF Terminate, TerminateLast, TerminateAndSwitch
    <3>5. InTable' = InTable \ {p}
      <4>1. processes \in [Slots -> ProcAddr \cup {NULL}]
        BY DEF TableInv, TypeOK
      <4>2. \A s \in Slots : processes[s] = p => s = process[p].id
        BY <3>2, <3>3, ProcessesAssumption DEF TableInv, SlotsMatchTasks
      <4> QED
        BY <3>3, <3>4, <4>1, <4>2, ProcessesAssumption DEF InTable, Unlinked
    <3> QED
      BY <3>2, <3>3, <3>4, <3>5, ProcessesAssumption DEF NothingOrphaned
  <2>3. CASE StartMapFails
    BY <1>2, <2>3 DEF StartMapFails, NothingOrphaned, InTable
  <2>4. CASE UNCHANGED vars
    BY <1>2, <2>4 DEF vars, NothingOrphaned, InTable
  <2> QED
    BY <1>2, <2>1, <2>2, <2>3, <2>4
       DEF Next, StartRefused, Stopped, BootFails, StartTaskFails, StartLoadFails
<1>3. NothingOrphaned /\ TableInv /\ RunsLiveTask /\ [Next]_vars => NothingOrphaned' /\ TableInv'
  BY <1>2, TableStep
<1> QED
  BY <1>1, <1>3, TableBegins, PTL DEF Spec

------------------------------------------------------------------------------
(* The registers *)

\* There is a list to append to while programs run.
HasHead == kernel = "running" => list.head # NULL

ContextTypeOK ==
  /\ registers \in [TaskAddr -> Frame]
  /\ cpu \in [directory : TaskAddr \cup {NULL}, frame : Frame]
  /\ reached \in [ProcAddr -> 0..(Points-1)]

\* The processor takes steps of the processes or leaves them alone.
LEMMA ContextIsProcesses == ContextNext => [Next]_vars
BY DEF ContextNext, BootStep, Execute, interrupt_handler, OtherCall, Switches, CallReturns,
       ContextStopped, Stopped, Next

\* The steps of Context behave as those of Processes.
THEOREM ContextImplementsProcesses == ContextSpec => Spec
<1>1. ContextInit => Init
  BY DEF ContextInit
<1>2. [ContextNext]_contextVars => [Next]_vars
  BY ContextIsProcesses DEF contextVars, vars
<1> QED
  BY <1>1, <1>2, PTL DEF ContextSpec, Spec

\* A live task's process is in the table and allocated, and is no other live task's.
LEMMA TaskOwnsProcess ==
  ASSUME TableInv, kernel \in {"boot", "running"}, NEW t \in LiveTasks
  PROVE  /\ t \in TaskAddr /\ list.node[t].process \in ProcAddr
         /\ list.node[t].process \in allocated
         /\ \A u \in LiveTasks : u # t => list.node[u].process # list.node[t].process
<1>1. list.node[t].process \in InTable
  BY DEF TableInv, SlotsMatchTasks
<1>2. list.node[t].process \in allocated
  BY <1>1, ProcessesAssumption DEF InTable, TableInv, SlotsMatchTasks
<1>3. \A u \in LiveTasks : process[list.node[u].process].task = u
  BY DEF TableInv, TaskIsOwn
<1> QED
  BY <1>1, <1>2, <1>3 DEF InTable, LiveTasks

\* A task that was live and still is has the point its program has reached: the
\* current one's registers were saved on entry (task_current_save_state), the others
\* waited.
LEMMA WaitersKeepTheirs ==
  ASSUME TableInv, RunsLiveTask, RunsItsOwn, ContextTypeOK, kernel = "running",
         registers' = WithNew(task_current_save_state), Begins,
         NEW u \in LiveTasks, u \in allocated',
         list'.node[u].process = list.node[u].process,
         list.node[u].process \in allocated'
  PROVE  registers'[u] = [program |-> list'.node[u].process,
                          point |-> reached'[list'.node[u].process]]
<1>1. /\ u \in TaskAddr /\ u \in allocated /\ list.node[u].process \in ProcAddr
      /\ list.node[u].process \in allocated
  BY TaskOwnsProcess DEF LiveTasks
<1>2. registers'[u] = task_current_save_state[u]
  BY <1>1 DEF WithNew
<1>3. task_current_save_state[u] = IF u = list.current THEN cpu.frame ELSE registers[u]
  BY <1>1 DEF task_current_save_state, ContextTypeOK
<1>4. task_current_save_state[u] = [program |-> list.node[u].process,
                                    point |-> reached[list.node[u].process]]
  BY <1>3 DEF RunsItsOwn, running
<1>5. reached'[list.node[u].process] = reached[list.node[u].process]
  BY <1>1 DEF Begins
<1> QED
  BY <1>2, <1>4, <1>5

\* Steps that leave the processes alone: the program runs, or an interrupt or a call
\* returns to it.
LEMMA RunsItsOwnBetweenCalls ==
  ASSUME TableInv, RunsLiveTask, RunsItsOwn, ContextTypeOK,
         Execute \/ interrupt_handler \/ OtherCall
  PROVE  RunsItsOwn' /\ ContextTypeOK'
<1> DEFINE t == list.current
<1>1. /\ kernel = "running" /\ t \in LiveTasks /\ t \in TaskAddr
      /\ running \in ProcAddr /\ list \in List
      /\ cpu.directory = t /\ cpu.frame = [program |-> running, point |-> reached[running]]
      /\ \A u \in LiveTasks \ {t} :
           registers[u] = [program |-> list.node[u].process,
                           point |-> reached[list.node[u].process]]
  BY RunningIsListed DEF Execute, interrupt_handler, OtherCall, RunsItsOwn, TableInv, TypeOK,
     LiveTasks
<1>2. UNCHANGED vars /\ LiveTasks' = LiveTasks /\ running' = running
  BY DEF Execute, interrupt_handler, OtherCall, vars, LiveTasks, running
<1>3. \A u \in LiveTasks \ {t} : /\ list.node[u].process # running
                                 /\ list.node[u].process \in ProcAddr
  BY <1>1, TaskOwnsProcess DEF running
<1>4. CASE Execute
  <2>1. /\ cpu' = [cpu EXCEPT !.frame.point = (@ + 1) % Points]
        /\ reached' = [reached EXCEPT ![running] = (@ + 1) % Points]
        /\ registers' = registers
    BY <1>1, <1>4 DEF Execute
  <2>2. reached[running] \in 0..(Points-1) /\ (reached[running] + 1) % Points \in 0..(Points-1)
    BY <1>1, ContextAssumption DEF ContextTypeOK
  <2>3. /\ reached'[running] = (reached[running] + 1) % Points
        /\ \A q \in ProcAddr : q # running => reached'[q] = reached[q]
        /\ reached' \in [ProcAddr -> 0..(Points-1)]
    BY <1>1, <2>1, <2>2 DEF ContextTypeOK
  <2>4. /\ cpu'.directory = t
        /\ cpu'.frame = [program |-> running, point |-> (reached[running] + 1) % Points]
        /\ cpu' \in [directory : TaskAddr \cup {NULL}, frame : Frame]
    BY <1>1, <2>1, <2>2 DEF ContextTypeOK, Frame
  <2>5. ContextTypeOK'
    BY <2>1, <2>3, <2>4 DEF ContextTypeOK
  <2>6. RunsItsOwn'
    BY <1>1, <1>2, <1>3, <2>1, <2>3, <2>4 DEF RunsItsOwn, vars
  <2> QED
    BY <2>5, <2>6
<1>5. CASE interrupt_handler \/ OtherCall
  <2>1. /\ registers' \in {registers, task_current_save_state} /\ reached' = reached
        /\ cpu' = [directory |-> t, frame |-> cpu.frame]
    BY <1>2, <1>5 DEF interrupt_handler, OtherCall, iret, vars
  <2>2. /\ registers' \in [TaskAddr -> Frame]
        /\ \A u \in TaskAddr : u # t => registers'[u] = registers[u]
    BY <1>1, <2>1 DEF task_current_save_state, ContextTypeOK
  <2>3. ContextTypeOK'
    BY <1>1, <2>1, <2>2 DEF ContextTypeOK
  <2>4. RunsItsOwn'
    BY <1>1, <1>2, <2>1, <2>2 DEF RunsItsOwn, vars, LiveTasks
  <2> QED
    BY <2>3, <2>4
<1> QED
  BY <1>4, <1>5

\* Types after a step of the processes.
LEMMA ContextTypes ==
  ASSUME TypeOK, TypeOK', RunsLiveTask', ContextTypeOK, Begins,
         NEW saved \in [TaskAddr -> Frame], registers' = WithNew(saved),
         \/ kernel' = "running" /\ task_return
         \/ kernel' = "running" /\ iret
         \/ cpu' \in {cpu, InKernel}
  PROVE  ContextTypeOK'
<1>1. 0 \in 0..(Points-1)
  BY ContextAssumption
<1>2. \A t \in TaskAddr : Entry(list'.node[t].process) \in Frame
  BY <1>1 DEF TypeOK, List, Node, Entry, Frame
<1>3. registers' \in [TaskAddr -> Frame]
  BY <1>2 DEF WithNew
<1>4. reached' \in [ProcAddr -> 0..(Points-1)]
  BY <1>1 DEF Begins, ContextTypeOK
<1>5. kernel' = "running" => list'.current \in TaskAddr
  BY DEF RunsLiveTask, LiveTasks
<1>6. InKernel \in [directory : TaskAddr \cup {NULL}, frame : Frame]
  BY <1>1 DEF InKernel, Entry, Frame
<1> QED
  BY <1>3, <1>4, <1>5, <1>6 DEF ContextTypeOK, task_return, iret

\* Steps of the processes: whoever gets the CPU goes on where it stopped, or begins.
LEMMA RunsItsOwnAfterCalls ==
  ASSUME TableInv, TableInv', RunsLiveTask, RunsLiveTask', HasHead, RunsItsOwn, ContextTypeOK,
         BootStep \/ Switches \/ CallReturns
  PROVE  RunsItsOwn' /\ ContextTypeOK'
<1> list \in List /\ list' \in List /\ cpu \in [directory : TaskAddr \cup {NULL}, frame : Frame]
  BY DEF TableInv, TypeOK, ContextTypeOK
<1>1. ContextTypeOK'
  <2>1. registers \in [TaskAddr -> Frame] /\ task_current_save_state \in [TaskAddr -> Frame]
    BY DEF ContextTypeOK, task_current_save_state
  <2> QED
    BY <2>1, ContextTypes DEF TableInv, BootStep, Switches, CallReturns
<1>2. ASSUME kernel' = "running", NEW u \in LiveTasks'
      PROVE  /\ u \in TaskAddr /\ u \in allocated' /\ list'.node[u].process \in ProcAddr
             /\ list'.node[u].process \in allocated'
  <2>1. list'.node[u].process \in InTable'
    BY <1>2 DEF TableInv, SlotsMatchTasks
  <2>2. PICK s \in Slots : processes'[s] = list'.node[u].process
    BY <2>1 DEF InTable
  <2>3. list'.node[u].process \in ProcAddr /\ processes'[s] # NULL
    BY <2>1, <2>2, ProcessesAssumption DEF InTable
  <2> QED
    BY <1>2, <2>2, <2>3 DEF TableInv, SlotsMatchTasks, LiveTasks
<1>3. ASSUME kernel = "running", kernel' = "running",
             registers' = WithNew(task_current_save_state), Begins,
             NEW u \in LiveTasks', u \in LiveTasks, list'.node[u].process = list.node[u].process
      PROVE  registers'[u] = [program |-> list'.node[u].process,
                              point |-> reached'[list'.node[u].process]]
  BY <1>2, <1>3, WaitersKeepTheirs
<1>4. ASSUME kernel' = "running", NEW t \in TaskAddr, NEW p \in ProcAddr,
             p \notin allocated, t \notin allocated, allocated' = allocated \cup {p, t},
             NEW saved, registers' = WithNew(saved), Begins, list'.node[t].process = p
      PROVE  registers'[t] = [program |-> list'.node[t].process,
                              point |-> reached'[list'.node[t].process]]
  BY <1>4 DEF WithNew, Begins, Entry
<1>5. CASE BootStep /\ kernel' = "running"
  <2>1. PICK p \in ProcAddr, t \in TaskAddr :
          /\ kernel = "boot" /\ process_load(p, t)
          /\ list' = task_switch(task_new(list, t, p), t)
    BY <1>5 DEF BootStep, Boot, BootFails
  <2> DEFINE m == task_new(list, t, p)
  <2>2. m \in List /\ m.node[t].process = p
    BY NewIsOwn
  <2> HIDE DEF m
  <2>3. list'.current = t /\ list'.node[t].process = p
    BY <2>1, <2>2 DEF m, task_switch, List
  <2>4. p \notin allocated /\ t \notin allocated /\ allocated' = allocated \cup {p, t}
    BY <2>1, LoadEffect DEF TableInv
  <2>5. LiveTasks' = {t}
    BY <2>1, <2>4, ProcessesAssumption DEF TableInv, BootIsClean, LiveTasks
  <2>6. registers'[t] = [program |-> p, point |-> reached'[p]]
    BY <1>4, <1>5, <2>3, <2>4 DEF BootStep
  <2> QED
    BY <1>1, <1>5, <2>3, <2>5, <2>6 DEF BootStep, task_return, RunsItsOwn, running
<1>6. CASE Start /\ Switches
  <2>1. PICK p \in ProcAddr, t \in TaskAddr :
          /\ kernel = "running" /\ process_load(p, t) /\ kernel' = "running"
          /\ list' = task_switch(task_new(list, t, p), t)
    BY <1>6 DEF Start
  <2> DEFINE m == task_new(list, t, p)
  <2>2. m \in List /\ m.node[t].process = p
        /\ \A u \in TaskAddr \ {t} : m.node[u].process = list.node[u].process
    BY NewIsOwn
  <2> HIDE DEF m
  <2>3. list'.current = t /\ list'.node = m.node
    BY <2>1, <2>2 DEF m, task_switch, List
  <2>4. p \notin allocated /\ t \notin allocated /\ allocated' = allocated \cup {p, t}
    BY <2>1, LoadEffect DEF TableInv
  <2>5. LiveTasks' = LiveTasks \cup {t} /\ LiveTasks \subseteq TaskAddr /\ t \notin LiveTasks
    BY <2>4, ProcessesAssumption DEF LiveTasks
  <2>6. registers' = WithNew(task_current_save_state) /\ Begins /\ task_return
    BY <1>6, <2>1 DEF Switches
  <2>7. registers'[t] = [program |-> list'.node[t].process,
                         point |-> reached'[list'.node[t].process]]
    BY <1>4, <2>1, <2>2, <2>3, <2>4, <2>6
  <2>8. \A u \in LiveTasks : registers'[u] = [program |-> list'.node[u].process,
                                              point |-> reached'[list'.node[u].process]]
    BY <1>3, <2>1, <2>2, <2>3, <2>5, <2>6
  <2> QED
    BY <1>1, <2>3, <2>5, <2>6, <2>7, <2>8 DEF task_return, RunsItsOwn, running
<1>7. CASE Exit /\ Switches /\ kernel' = "running"
  <2>1. PICK p \in ProcAddr : Terminate(p)
    BY <1>7 DEF Exit
  <2>2. kernel = "running" /\ p = running /\ TerminateAndSwitch(p)
    BY <1>7, <2>1 DEF Terminate, TerminateLast
  <2>3. process[p].task = list.current /\ list.current \in LiveTasks /\ list.current \in TaskAddr
    BY <2>2, RunningIsListed DEF LiveTasks
  <2> DEFINE l == ListWithout(p)
  <2>4. l \in List /\ \A u \in TaskAddr : l.node[u].process = list.node[u].process
    BY <2>3, RemoveUnlinks DEF ListWithout, Unlinks
  <2>5. list'.node = l.node
    BY <2>2, <2>4 DEF TerminateAndSwitch, task_switch, List
  <2>6. LiveTasks' \subseteq LiveTasks
    BY <2>2 DEF TerminateAndSwitch, LiveTasks
  <2> HIDE DEF l
  <2>7. registers' = WithNew(task_current_save_state) /\ Begins /\ task_return
    BY <1>7 DEF Switches
  <2>8. \A u \in LiveTasks' : registers'[u] = [program |-> list'.node[u].process,
                                               point |-> reached'[list'.node[u].process]]
    BY <1>3, <1>7, <2>2, <2>4, <2>5, <2>6, <2>7 DEF LiveTasks
  <2>9. list'.current \in LiveTasks'
    BY <1>7 DEF RunsLiveTask
  <2> QED
    BY <1>1, <2>7, <2>8, <2>9 DEF task_return, RunsItsOwn, running
<1>8. CASE CallReturns /\ kernel' = "running"
  <2>1. /\ kernel = "running" /\ registers' = WithNew(task_current_save_state) /\ Begins /\ iret
    BY <1>8 DEF CallReturns, StartWithoutArguments, StartRefused, StartLoadFails,
       StartTaskFails, StartMapFails
  <2>2. /\ list.current \in LiveTasks /\ list.current \in TaskAddr
        /\ cpu.frame = [program |-> running, point |-> reached[running]]
    BY <2>1, RunningIsListed DEF RunsItsOwn, LiveTasks
  <2>3. /\ list'.current = list.current
        /\ \A u \in LiveTasks : list'.node[u].process = list.node[u].process
        /\ \A u \in LiveTasks' \ LiveTasks :
             registers'[u] = [program |-> list'.node[u].process,
                              point |-> reached'[list'.node[u].process]]
    <3>1. CASE StartWithoutArguments
      <4>1. PICK p \in ProcAddr, t \in TaskAddr :
              process_load(p, t) /\ list' = task_new(list, t, p)
        BY <3>1 DEF StartWithoutArguments
      <4>2. p \notin allocated /\ t \notin allocated /\ allocated' = allocated \cup {p, t}
        BY <4>1, LoadEffect DEF TableInv
      <4>3. /\ list'.node[t].process = p
            /\ \A u \in TaskAddr \ {t} : list'.node[u].process = list.node[u].process
        BY <4>1, NewIsOwn
      <4>4. list'.current = list.current
        BY <2>1, <4>1 DEF HasHead, task_new, List
      <4>5. LiveTasks' = LiveTasks \cup {t} /\ LiveTasks \subseteq TaskAddr /\ t \notin LiveTasks
        BY <4>2, ProcessesAssumption DEF LiveTasks
      <4>6. registers'[t] = [program |-> list'.node[t].process,
                             point |-> reached'[list'.node[t].process]]
        BY <1>4, <1>8, <2>1, <4>2, <4>3
      <4> QED
        BY <4>3, <4>4, <4>5, <4>6
    <3>2. CASE StartMapFails
      <4>1. PICK p \in ProcAddr, t \in TaskAddr :
              /\ t \notin allocated /\ allocated' = allocated
              /\ list' = task_list_remove(task_new(list, t, p), t)
        BY <3>2 DEF StartMapFails
      <4> DEFINE m == task_new(list, t, p)
      <4>2. /\ m \in List
            /\ \A u \in TaskAddr \ {t} : m.node[u].process = list.node[u].process
        BY NewIsOwn
      <4>3. /\ m.current = list.current /\ t # list.current /\ t \notin LiveTasks
            /\ list' = task_list_remove(m, t)
        BY <2>1, <2>2, <4>1 DEF HasHead, task_new, List, LiveTasks
      <4> HIDE DEF m
      <4>4. list'.current = m.current /\ \A u \in TaskAddr : list'.node[u].process = m.node[u].process
        <5>1. Unlinks(m, t, list')
          BY <4>2, <4>3, RemoveUnlinks
        <5> QED
          BY <4>3, <5>1 DEF Unlinks
      <4>5. LiveTasks' = LiveTasks /\ LiveTasks \subseteq TaskAddr
        BY <4>1 DEF LiveTasks
      <4> QED
        BY <4>2, <4>3, <4>4, <4>5
    <3>3. CASE StartLoadFails \/ StartRefused
      BY <3>3, ProcessesAssumption DEF StartLoadFails, StartRefused, vars, LiveTasks
    <3> QED
      BY <1>8, <3>1, <3>2, <3>3 DEF CallReturns, StartTaskFails
  <2>4. \A u \in LiveTasks' \cap LiveTasks :
          registers'[u] = [program |-> list'.node[u].process,
                           point |-> reached'[list'.node[u].process]]
    BY <1>3, <1>8, <2>1, <2>3
  <2>5. list'.current \in LiveTasks'
    BY <1>8 DEF RunsLiveTask
  <2>6. reached'[running] = reached[running] /\ list'.node[list.current].process = running
    <3>1. running \in allocated /\ running \in ProcAddr
      BY <2>1, RunningIsListed
    <3>2. list'.node[list.current].process = running
      BY <2>2, <2>3 DEF running
    <3>3. running \in allocated'
      BY <1>2, <1>8, <2>3, <2>5, <3>2
    <3> QED
      BY <2>1, <3>1, <3>2, <3>3 DEF Begins
  <2> QED
    BY <1>1, <2>1, <2>2, <2>3, <2>4, <2>5, <2>6 DEF iret, RunsItsOwn, running
<1>9. CASE kernel' # "running"
  BY <1>1, <1>9 DEF RunsItsOwn
<1> QED
  BY <1>5, <1>6, <1>7, <1>8, <1>9 DEF Switches

\* The processor runs the current task's program where it stopped, and every program
\* that waits has its registers in its own task, for any number of slots and points and
\* whatever fails, for as long as the CPU is only given to live tasks and there is a
\* list to append to (interrupt_handler, isr80h_handler, task_switch, task_return).
THEOREM ProgramsKeepRegisters ==
  ContextSpec /\ []RunsLiveTask /\ []HasHead => []RunsItsOwn
<1> DEFINE Inv == TableInv /\ RunsItsOwn /\ ContextTypeOK
<1>1. ContextInit => Inv
  <2> SUFFICES ASSUME ContextInit PROVE Inv
    OBVIOUS
  <2>1. TableInv
    BY TableBegins DEF ContextInit
  <2>2. ContextTypeOK
    BY ContextAssumption DEF ContextInit, ContextTypeOK, InKernel, Entry, Frame
  <2> QED
    BY <2>1, <2>2 DEF ContextInit, Init, RunsItsOwn
<1>2. Inv /\ RunsLiveTask /\ RunsLiveTask' /\ HasHead /\ [ContextNext]_contextVars => Inv'
  <2> SUFFICES ASSUME Inv, RunsLiveTask, RunsLiveTask', HasHead, [ContextNext]_contextVars
               PROVE  Inv'
    OBVIOUS
  <2>1. TableInv'
    BY TableStep, ContextIsProcesses DEF contextVars, vars
  <2>2. CASE BootStep \/ Switches \/ CallReturns
    BY <2>1, <2>2, RunsItsOwnAfterCalls
  <2>3. CASE Execute \/ interrupt_handler \/ OtherCall
    BY <2>1, <2>3, RunsItsOwnBetweenCalls
  <2>4. CASE UNCHANGED contextVars
    BY <2>1, <2>4 DEF contextVars, vars, RunsItsOwn, ContextTypeOK, LiveTasks, running
  <2> QED
    BY <2>2, <2>3, <2>4 DEF ContextNext, ContextStopped
<1>3. Inv => RunsItsOwn
  OBVIOUS
<1> QED
  BY <1>1, <1>2, <1>3, PTL DEF ContextSpec

------------------------------------------------------------------------------
(* Two slots, whatever fails *)

\* Each live task has a slot, and different tasks have different ones.
LEMMA TaskHasSlot ==
  ASSUME TableInv, kernel \in {"boot", "running"}, NEW t \in LiveTasks
  PROVE  \E s \in Slots : /\ processes[s] = list.node[t].process
                          /\ processes[s] # NULL
                          /\ \A u \in LiveTasks : u # t => processes[s] # list.node[u].process
<1>1. list.node[t].process \in InTable
  BY DEF TableInv, SlotsMatchTasks
<1>2. \A u \in LiveTasks : u # t => list.node[u].process # list.node[t].process
  BY TaskOwnsProcess
<1> QED
  BY <1>1, <1>2, ProcessesAssumption DEF InTable

\* The processes of the table are those of the live tasks.
LEMMA TableIsTasks ==
  ASSUME TableInv, kernel \in {"boot", "running"}
  PROVE  InTable = {list.node[t].process : t \in LiveTasks}
<1>1. ASSUME NEW q \in InTable PROVE \E t \in LiveTasks : list.node[t].process = q
  BY <1>1, ProcessesAssumption DEF InTable, TableInv, SlotsMatchTasks
<1>2. \A t \in LiveTasks : list.node[t].process \in InTable
  BY DEF TableInv, SlotsMatchTasks
<1> QED
  BY <1>1, <1>2

\* A program that is the only one leaves nobody to switch to (process_unlink panics).
LEMMA OnlyOneIsLast ==
  ASSUME TableInv, RunsLiveTask, NEW p \in ProcAddr, Terminate(p),
         NEW a, LiveTasks = {a}
  PROVE  TerminateLast(p)
<1>1. /\ kernel = "running" /\ p = running /\ list.current = a
      /\ process[p].id \in Slots /\ processes[process[p].id] = p
  BY RunningIsListed DEF Terminate
<1>2. InTable = {p}
  BY <1>1, TableIsTasks DEF running
<1>3. current_process = p
  BY <1>1, <1>2 DEF TableInv, CurrentListed
<1>4. processes \in [Slots -> ProcAddr \cup {NULL}]
  BY DEF TableInv, TypeOK
<1>5. ASSUME NEW s \in Slots PROVE Unlinked(p)[s] = NULL
  <2>1. CASE s = process[p].id
    BY <1>4, <2>1 DEF Unlinked
  <2>2. CASE s # process[p].id
    <3>1. Unlinked(p)[s] = processes[s]
      BY <1>4, <2>2 DEF Unlinked
    <3>2. processes[s] # p
      BY <1>1, <2>2, ProcessesAssumption DEF TableInv, SlotsMatchTasks
    <3>3. processes[s] \notin ProcAddr
      BY <1>2, <3>2 DEF InTable
    <3> QED
      BY <1>4, <3>1, <3>3
  <2> QED
    BY <2>1, <2>2
<1> QED
  BY <1>3, <1>5 DEF Terminate, TerminateAndSwitch, NoneLeft

\* What the end of a program leaves when another one goes on: the list without its
\* task, and without its current task the one after the head.
LEMMA TerminateEffect ==
  ASSUME TableInv, RunsLiveTask, NEW p \in ProcAddr, kernel = "running", running = p,
         TerminateAndSwitch(p)
  PROVE  LET t == list.current
             l == task_list_remove(list, t)
         IN /\ l \in List /\ t \in TaskAddr /\ ListWithout(p) = l
            /\ LiveTasks' = LiveTasks \ {t}
            /\ l.current # NULL /\ task_get_next(l) # NULL =>
                 kernel' = "running" /\ list' = [l EXCEPT !.current = task_get_next(l)]
<1>1. process[p].task = list.current /\ list.current \in TaskAddr /\ list \in List
      /\ list.current # NULL
  BY RunningIsListed, ProcessesAssumption DEF LiveTasks, TableInv, TypeOK
<1>2. ListWithout(p) = task_list_remove(list, list.current)
  BY <1>1 DEF ListWithout
<1>3. task_list_remove(list, list.current) \in List
  BY <1>1, RemoveUnlinks DEF Unlinks
<1>4. LiveTasks' = LiveTasks \ {list.current}
  BY <1>1, ProcessesAssumption DEF LiveTasks, TerminateAndSwitch
<1> QED
  BY <1>1, <1>2, <1>3, <1>4 DEF TerminateAndSwitch, task_switch

\* The panic of process_unlink finds the table empty.
LEMMA LastIsEmpty ==
  ASSUME NEW p \in ProcAddr, TerminateLast(p), TypeOK
  PROVE  InTable' = {}
BY ProcessesAssumption DEF TerminateLast, NoneLeft, InTable

\* The shapes of the list mean that the CPU is given to a live task.
LEMMA PairRunsLive ==
  ASSUME TableInv, PairInv
  PROVE  RunsLiveTask /\ HasHead
<1> SUFFICES ASSUME kernel = "running"
             PROVE  list.current \in LiveTasks /\ running \in InTable /\ list.head # NULL
  BY DEF RunsLiveTask, HasHead
<1>1. list.current \in LiveTasks /\ list.head # NULL
  BY ProcessesAssumption DEF PairInv, Alone, Pair
<1>2. running \in InTable
  BY <1>1 DEF TableInv, SlotsMatchTasks, running
<1> QED
  BY <1>1, <1>2

\* A free slot means that no two programs run, if there are two slots.
LEMMA RoomMeansAlone ==
  ASSUME TableInv, PairInv, MaxProcesses =< 2, kernel = "running", FreeSlots # {}
  PROVE  \E a \in TaskAddr : Alone(a)
<1> SUFFICES ASSUME NEW a \in TaskAddr, NEW b \in TaskAddr, Pair(a, b) PROVE FALSE
  BY DEF PairInv
<1>1. a \in LiveTasks /\ b \in LiveTasks /\ a # b
  BY DEF Pair
<1>2. PICK r \in Slots : processes[r] # NULL /\ processes[r] = list.node[a].process
                         /\ processes[r] # list.node[b].process
  BY <1>1, TaskHasSlot
<1>3. PICK s \in Slots : processes[s] # NULL /\ processes[s] = list.node[b].process
  BY <1>1, TaskHasSlot
<1>4. PICK f \in Slots : processes[f] = NULL
  BY DEF FreeSlots
<1>5. r # s /\ r # f /\ s # f
  BY <1>2, <1>3, <1>4
<1> QED
  BY <1>5, ProcessesAssumption DEF Slots

\* With two slots, the program that ends is the last one, or the other one goes on
\* (task_list_remove, task_get_next).
LEMMA PairExit ==
  ASSUME TableInv, PairInv, NEW p \in ProcAddr, Terminate(p)
  PROVE  \/ TerminateLast(p)
         \/ kernel' = "running" /\ \E a \in TaskAddr : Alone(a)'
<1> RunsLiveTask /\ list \in List
  BY PairRunsLive DEF TableInv, TypeOK
<1>1. Terminate(p)
  OBVIOUS
<1> SUFFICES ASSUME ~TerminateLast(p)
             PROVE  kernel' = "running" /\ \E a \in TaskAddr : Alone(a)'
  OBVIOUS
<1>2. kernel = "running" /\ running = p /\ TerminateAndSwitch(p)
  BY DEF Terminate
<1>3. PICK a \in TaskAddr, b \in TaskAddr : Pair(a, b)
  <2>1. ~ \E a \in TaskAddr : Alone(a)
    BY <1>1, OnlyOneIsLast DEF Alone
  <2> QED
    BY <1>2, <2>1 DEF PairInv
<1> DEFINE t == list.current
           l == task_list_remove(list, t)
<1>4. /\ l \in List /\ LiveTasks' = LiveTasks \ {t} /\ t \in {a, b}
      /\ l.current # NULL /\ task_get_next(l) # NULL =>
           kernel' = "running" /\ list' = [l EXCEPT !.current = task_get_next(l)]
  BY <1>2, <1>3, TerminateEffect DEF Pair
<1>5. Unlinks(list, t, l)
  BY <1>3, <1>4, RemoveUnlinks
<1>6. a # NULL /\ b # NULL
  BY ProcessesAssumption
<1> HIDE DEF l, t
<1>7. CASE t = a
  <2>1. /\ l.node[a].next = b /\ l.node[b].next \in {NULL, b}
        /\ l.head = b /\ l.tail = b /\ l.current = b
    BY <1>3, <1>5, <1>6, <1>7 DEF Pair, Unlinks, t
  <2>2. task_get_next(l) = b
    BY <2>1 DEF task_get_next
  <2>3. list' = [l EXCEPT !.current = b] /\ LiveTasks' = {b}
    BY <1>3, <1>4, <1>6, <1>7, <2>1, <2>2 DEF Pair
  <2>4. Alone(b)'
    BY <1>4, <2>1, <2>3 DEF Alone, List
  <2> QED
    BY <1>4, <2>1, <2>2, <1>6, <2>4
<1>8. CASE t = b
  <2>1. /\ l.node[a].next = NULL /\ l.node[b].next = NULL
        /\ l.head = a /\ l.tail = a /\ l.current = a
    BY <1>3, <1>5, <1>6, <1>8 DEF Pair, Unlinks, t
  <2>2. task_get_next(l) = a
    BY <2>1 DEF task_get_next
  <2>3. list' = [l EXCEPT !.current = a] /\ LiveTasks' = {a}
    BY <1>3, <1>4, <1>6, <1>8, <2>1, <2>2 DEF Pair
  <2>4. Alone(a)'
    BY <1>4, <2>1, <2>3 DEF Alone, List
  <2> QED
    BY <1>4, <2>1, <2>2, <1>6, <2>4
<1> QED
  BY <1>4, <1>7, <1>8

\* Two slots: every step keeps the list's shape.
LEMMA PairStep ==
  ASSUME TableInv, PairInv, MaxProcesses =< 2, [Next]_vars
  PROVE  PairInv'
<1> RunsLiveTask /\ list \in List
  BY PairRunsLive DEF TableInv, TypeOK
<1> SUFFICES ASSUME kernel' = "running"
             PROVE  \/ \E a \in TaskAddr : Alone(a)'
                    \/ \E a, b \in TaskAddr : Pair(a, b)'
  BY DEF PairInv
<1>1. CASE Boot
  <2>1. PICK p \in ProcAddr, t \in TaskAddr :
          kernel = "boot" /\ process_load(p, t) /\ list' = task_switch(task_new(list, t, p), t)
    BY <1>1 DEF Boot
  <2> DEFINE m == task_new(list, t, p)
  <2>2. /\ m \in List /\ m.head = t /\ m.tail = t /\ m.current = t
        /\ m.node[t] = [next |-> NULL, prev |-> NULL, process |-> p]
    BY <2>1, NewStarts DEF TableInv, BootIsClean
  <2>3. list' = [m EXCEPT !.current = t]
    BY <2>1 DEF task_switch
  <2>4. LiveTasks' = {t}
    BY <2>1, LoadEffect, ProcessesAssumption DEF TableInv, BootIsClean, LiveTasks
  <2> HIDE DEF m
  <2>5. Alone(t)'
    BY <2>2, <2>3, <2>4 DEF Alone, List
  <2> QED
    BY <2>5
<1> DEFINE Appended(a, m, t, p) ==
      /\ Alone(a) /\ a # t /\ m \in List /\ m.head = a /\ m.tail = t /\ m.current = a
      /\ m.node[t] = [next |-> NULL, prev |-> a, process |-> p] /\ m.node[a].next = t
<1> HIDE DEF Appended
<1>2. ASSUME kernel = "running", NEW p \in ProcAddr, NEW t \in TaskAddr, t \notin allocated,
             FreeSlots # {}
      PROVE  \E a \in TaskAddr : Appended(a, task_new(list, t, p), t, p)
  <2>1. PICK a \in TaskAddr : Alone(a)
    BY <1>2, RoomMeansAlone
  <2>2. a # t /\ list.head = a /\ list.tail = a /\ list.current = a /\ a # NULL
    BY <1>2, <2>1, ProcessesAssumption DEF Alone, LiveTasks
  <2> DEFINE m == task_new(list, t, p)
  <2>3. /\ m \in List /\ m.head = list.head /\ m.tail = t /\ m.current = list.current
        /\ m.node[t] = [next |-> NULL, prev |-> list.tail, process |-> p]
        /\ m.node[list.tail] = [list.node[list.tail] EXCEPT !.next = t]
    BY <2>2, NewAppends
  <2>4. m.node[a].next = t
    BY <2>2, <2>3 DEF List, Node
  <2> HIDE DEF m
  <2> QED
    BY <2>1, <2>2, <2>3, <2>4 DEF m, Appended
<1>3. CASE Start \/ StartWithoutArguments
  <2>1. PICK p \in ProcAddr, t \in TaskAddr :
          /\ kernel = "running" /\ process_load(p, t)
          /\ list' \in {task_switch(task_new(list, t, p), t), task_new(list, t, p)}
    BY <1>3 DEF Start, StartWithoutArguments
  <2>2. t \notin allocated /\ FreeSlots # {} /\ LiveTasks' = LiveTasks \cup {t}
    BY <2>1, ProcessesAssumption DEF process_load, LiveTasks
  <2> DEFINE m == task_new(list, t, p)
  <2>3. PICK a \in TaskAddr : Appended(a, m, t, p)
    BY <1>2, <2>1, <2>2
  <2>4. list' \in {[m EXCEPT !.current = t], m}
    BY <2>1 DEF task_switch
  <2> HIDE DEF m
  <2>5. /\ list'.head = a /\ list'.tail = t /\ list'.current \in {a, t} /\ list'.node = m.node
    BY <2>3, <2>4 DEF List, Appended
  <2>6. Pair(a, t)'
    BY <2>2, <2>3, <2>5 DEF Pair, Alone, Appended
  <2> QED
    BY <2>6
<1>4. CASE StartMapFails
  <2>1. PICK p \in ProcAddr, t \in TaskAddr :
          /\ kernel = "running" /\ FreeSlots # {} /\ t \notin allocated
          /\ list' = task_list_remove(task_new(list, t, p), t) /\ allocated' = allocated
    BY <1>4 DEF StartMapFails
  <2> DEFINE m == task_new(list, t, p)
  <2>2. PICK a \in TaskAddr : Appended(a, m, t, p)
    BY <1>2, <2>1
  <2> HIDE DEF m
  <2>3. Unlinks(m, t, list')
    BY <2>1, <2>2, RemoveUnlinks DEF m, Appended
  <2>4. Alone(a)'
    BY <2>1, <2>2, <2>3 DEF Unlinks, Alone, LiveTasks, Appended
  <2> QED
    BY <2>4
<1>5. CASE Exit
  BY <1>5, PairExit DEF Exit, TerminateLast
<1>6. CASE StartLoadFails \/ UNCHANGED vars
  <2>1. UNCHANGED <<list, kernel>> /\ LiveTasks' = LiveTasks
    BY <1>6, ProcessesAssumption DEF StartLoadFails, vars, LiveTasks
  <2> QED
    BY <2>1 DEF PairInv, Alone, Pair
<1> QED
  BY <1>1, <1>3, <1>4, <1>5, <1>6
     DEF Next, BootFails, StartTaskFails, StartRefused, Stopped

\* With two slots the kernel panics only when the table is empty.
LEMMA PairPanics ==
  ASSUME TableInv, PairInv, PanicOnlyWhenEmpty, [Next]_vars
  PROVE  PanicOnlyWhenEmpty'
<1> SUFFICES ASSUME kernel' = "panicked" PROVE InTable' = {}
  BY DEF PanicOnlyWhenEmpty
<1>1. CASE Exit
  BY <1>1, PairExit, LastIsEmpty DEF Exit, TableInv
<1>2. CASE BootFails \/ UNCHANGED vars
  BY <1>2 DEF BootFails, vars, TableInv, BootIsClean, InTable, PanicOnlyWhenEmpty
<1> QED
  BY <1>1, <1>2
     DEF Next, Boot, Start, StartWithoutArguments, StartRefused, StartLoadFails,
         StartTaskFails, StartMapFails, Stopped

\* What is invariant with two slots.
LEMMA PairInvariant ==
  ASSUME MaxProcesses =< 2
  PROVE  Spec => [](TableInv /\ PairInv /\ PanicOnlyWhenEmpty /\ RunsLiveTask /\ HasHead)
<1> DEFINE Inv == TableInv /\ PairInv /\ PanicOnlyWhenEmpty
<1>1. Init => Inv
  BY TableBegins DEF Init, PairInv, PanicOnlyWhenEmpty
<1>2. Inv /\ [Next]_vars => Inv'
  BY TableStep, PairStep, PairPanics, PairRunsLive
<1>3. Inv => RunsLiveTask /\ HasHead
  BY PairRunsLive
<1> QED
  BY <1>1, <1>2, <1>3, PTL DEF Spec

\* With two slots, whatever fails while programs are started and whichever of them
\* ends, the CPU is only given to live tasks and the kernel panics only when no process
\* is left (task_new, task_list_remove, task_next, process_unlink).
THEOREM TwoSlotsRunLive ==
  ASSUME MaxProcesses =< 2
  PROVE  Spec => []RunsLiveTask /\ []PanicOnlyWhenEmpty
BY PairInvariant, PTL

\* With two slots a program therefore goes on with its own registers and in its own
\* directory after every interrupt, call, failure and end of another one.
THEOREM TwoSlotsRunTheirOwn ==
  ASSUME MaxProcesses =< 2
  PROVE  ContextSpec => []RunsItsOwn
BY PairInvariant, ProgramsKeepRegisters, ContextImplementsProcesses, PTL

------------------------------------------------------------------------------
(* Three slots, without failures of memory: the list is a stack *)

\* The shapes of the list mean that its last task runs.
LEMMA StackRunsLive ==
  ASSUME TableInv, StackInv
  PROVE  RunsLiveTask /\ HasHead
<1> SUFFICES ASSUME kernel = "running"
             PROVE  list.current \in LiveTasks /\ running \in InTable /\ list.head # NULL
  BY DEF RunsLiveTask, HasHead
<1>1. list.current \in LiveTasks /\ list.head # NULL
  BY ProcessesAssumption DEF StackInv, One, Two, Three, Row
<1>2. running \in InTable
  BY <1>1 DEF TableInv, SlotsMatchTasks, running
<1> QED
  BY <1>1, <1>2

\* A free slot beside one live task means two slots at least, beside two means three.
LEMMA RoomMeansSlots ==
  ASSUME TableInv, kernel = "running", FreeSlots # {}
  PROVE  /\ \A a \in LiveTasks : MaxProcesses >= 2
         /\ \A a, b \in LiveTasks : a # b => MaxProcesses >= 3
         /\ \A a, b, c \in LiveTasks : a # b /\ a # c /\ b # c => MaxProcesses >= 4
<1>1. PICK f \in Slots : processes[f] = NULL
  BY DEF FreeSlots
<1> DEFINE Has(t, s) == /\ processes[s] = list.node[t].process /\ processes[s] # NULL
                        /\ \A u \in LiveTasks : u # t => processes[s] # list.node[u].process
<1>2. \A t \in LiveTasks : \E s \in Slots : Has(t, s)
  BY TaskHasSlot
<1>3. \A t, u \in LiveTasks : \A s, r \in Slots : Has(t, s) /\ Has(u, r) /\ t # u => r # s
  OBVIOUS
<1>4. \A t \in LiveTasks : \A s \in Slots : Has(t, s) => s # f
  BY <1>1
<1> HIDE DEF Has
<1>5. ASSUME NEW a \in LiveTasks PROVE MaxProcesses >= 2
  <2>1. PICK r \in Slots : Has(a, r)
    BY <1>2
  <2>2. r # f
    BY <1>4, <2>1
  <2> QED
    BY <2>2, ProcessesAssumption DEF Slots
<1>6. ASSUME NEW a \in LiveTasks, NEW b \in LiveTasks, a # b PROVE MaxProcesses >= 3
  <2>1. PICK r \in Slots : Has(a, r)
    BY <1>2
  <2>2. PICK s \in Slots : Has(b, s)
    BY <1>2
  <2>3. r # f /\ s # f /\ r # s
    BY <1>3, <1>4, <1>6, <2>1, <2>2
  <2> QED
    BY <2>3, ProcessesAssumption DEF Slots
<1>7. ASSUME NEW a \in LiveTasks, NEW b \in LiveTasks, NEW c \in LiveTasks,
             a # b, a # c, b # c
      PROVE  MaxProcesses >= 4
  <2>1. PICK r \in Slots : Has(a, r)
    BY <1>2
  <2>2. PICK s \in Slots : Has(b, s)
    BY <1>2
  <2>3. PICK q \in Slots : Has(c, q)
    BY <1>2
  <2>4. r # f /\ s # f /\ q # f /\ r # s /\ r # q /\ s # q
    BY <1>3, <1>4, <1>7, <2>1, <2>2, <2>3
  <2> QED
    BY <2>4, ProcessesAssumption DEF Slots
<1> QED
  BY <1>5, <1>6, <1>7

\* m is l with t, the task of p, behind its tail.
Appends(l, t, p, m) ==
  /\ m \in List /\ m.head = l.head /\ m.tail = t /\ m.current = l.current
  /\ m.node[t] = [next |-> NULL, prev |-> l.tail, process |-> p]
  /\ \A u \in TaskAddr \ {t} :
       /\ m.node[u].prev = l.node[u].prev /\ m.node[u].process = l.node[u].process
       /\ m.node[u].next = IF u = l.tail THEN t ELSE l.node[u].next

\* task_new while programs run.
LEMMA StackAppends ==
  ASSUME TableInv, StackInv, kernel = "running", NEW p \in ProcAddr, NEW t \in TaskAddr,
         t \notin allocated
  PROVE  Appends(list, t, p, task_new(list, t, p))
<1>1. list \in List /\ list.head # NULL /\ list.tail # NULL /\ t # list.tail
  BY ProcessesAssumption
     DEF TableInv, TypeOK, StackInv, One, Two, Three, Row, LiveTasks
<1>2. \A u \in TaskAddr : list.node[u] \in Node
  BY <1>1 DEF List
<1> DEFINE m == task_new(list, t, p)
<1>3. /\ m \in List /\ m.head = list.head /\ m.tail = t /\ m.current = list.current
      /\ m.node[t] = [next |-> NULL, prev |-> list.tail, process |-> p]
      /\ m.node[list.tail] = [list.node[list.tail] EXCEPT !.next = t]
      /\ \A u \in TaskAddr \ {t, list.tail} : m.node[u] = list.node[u]
  BY <1>1, NewAppends
<1> HIDE DEF m
<1>4. \A u \in TaskAddr \ {t} :
        /\ m.node[u].prev = list.node[u].prev /\ m.node[u].process = list.node[u].process
        /\ m.node[u].next = IF u = list.tail THEN t ELSE list.node[u].next
  BY <1>2, <1>3 DEF Node
<1> QED
  BY <1>3, <1>4 DEF Appends, m

\* A step that leaves the live tasks and their links alone leaves the stack alone.
LEMMA StackSame ==
  ASSUME TableInv, StackInv, LiveTasks' = LiveTasks, parent' = parent,
         list'.head = list.head, list'.tail = list.tail, list'.current = list.current,
         \A u \in LiveTasks : /\ list'.node[u].next = list.node[u].next
                              /\ list'.node[u].prev = list.node[u].prev
                              /\ list'.node[u].process = list.node[u].process,
         kernel' = kernel \/ kernel' = "panicked"
  PROVE  StackInv'
<1>1. CASE kernel # "running" /\ LiveTasks = {} /\ list.head = NULL
  BY <1>1 DEF StackInv
<1>2. ASSUME NEW a \in TaskAddr, One(a) PROVE One(a)'
  <2>1. a \in LiveTasks
    BY <1>2 DEF One, Row
  <2> QED
    BY <1>2, <2>1 DEF One, Row, Linked
<1>3. ASSUME NEW a \in TaskAddr, NEW b \in TaskAddr, Two(a, b) PROVE Two(a, b)'
  <2>1. a \in LiveTasks /\ b \in LiveTasks
    BY <1>3 DEF Two, Row
  <2> QED
    BY <1>3, <2>1 DEF Two, Row, Linked, Started
<1>4. ASSUME NEW a \in TaskAddr, NEW b \in TaskAddr, NEW c \in TaskAddr, Three(a, b, c)
      PROVE  Three(a, b, c)'
  <2>1. a \in LiveTasks /\ b \in LiveTasks /\ c \in LiveTasks
    BY <1>4 DEF Three, Row
  <2> QED
    BY <1>4, <2>1 DEF Three, Row, Linked, Started
<1>5. kernel' # "undefined"
  BY DEF StackInv
<1> QED
  BY <1>1, <1>2, <1>3, <1>4, <1>5 DEF StackInv

\* A start pushes the new task on the stack; the program below started it.
LEMMA StackStart ==
  ASSUME TableInv, StackInv, MaxProcesses =< 3, kernel = "running", kernel' = "running",
         NEW p \in ProcAddr, NEW t \in TaskAddr, process_load(p, t),
         list' = task_switch(task_new(list, t, p), t)
  PROVE  StackInv'
<1> RunsLiveTask
  BY StackRunsLive
<1>1. /\ p \notin allocated /\ t \notin allocated /\ FreeSlots # {}
      /\ LiveTasks' = LiveTasks \cup {t} /\ t \notin LiveTasks
  BY LoadEffect, ProcessesAssumption DEF TableInv, process_load, LiveTasks
<1>2. Appends(list, t, p, task_new(list, t, p))
  BY <1>1, StackAppends
<1>3. /\ list'.head = list.head /\ list'.tail = t /\ list'.current = t
      /\ list'.node[t] = [next |-> NULL, prev |-> list.tail, process |-> p]
      /\ \A u \in LiveTasks :
           /\ list'.node[u].prev = list.node[u].prev
           /\ list'.node[u].process = list.node[u].process
           /\ list'.node[u].next = IF u = list.tail THEN t ELSE list.node[u].next
  BY <1>1, <1>2 DEF Appends, task_switch, List, LiveTasks
<1>4. /\ parent'[p] = running
      /\ \A u \in LiveTasks : parent'[list.node[u].process] = parent[list.node[u].process]
  <2>1. \A u \in LiveTasks : list.node[u].process \in ProcAddr /\ list.node[u].process # p
    BY <1>1, TaskOwnsProcess
  <2> QED
    BY <2>1 DEF process_load, Caller, TableInv, TypeOK
<1>5. ASSUME NEW a \in TaskAddr, One(a) PROVE Two(a, t)'
  <2>1. a \in LiveTasks /\ list.tail = a /\ list.current = a /\ MaxProcesses >= 2
    BY <1>1, <1>5, RoomMeansSlots DEF One, Row
  <2>2. Row({a, t}, t)'
    BY <1>1, <1>3, <1>5 DEF One, Row
  <2>3. Linked(NULL, a)' /\ Linked(a, t)'
    BY <1>3, <1>5, <2>1 DEF One, Linked
  <2>4. Started(a, t)'
    BY <1>3, <1>4, <2>1 DEF Started, running
  <2> QED
    BY <1>1, <1>3, <1>5, <2>1, <2>2, <2>3, <2>4 DEF One, Two
<1>6. ASSUME NEW a \in TaskAddr, NEW b \in TaskAddr, Two(a, b) PROVE Three(a, b, t)'
  <2>1. /\ a \in LiveTasks /\ b \in LiveTasks /\ a # b /\ a # t /\ b # t
        /\ list.tail = b /\ list.current = b
    BY <1>1, <1>6 DEF Two, Row
  <2>2. MaxProcesses >= 3
    BY <1>1, <2>1, RoomMeansSlots
  <2>3. Row({a, b, t}, t)'
    BY <1>1, <1>3, <1>6 DEF Two, Row
  <2>4. Linked(NULL, a)' /\ Linked(a, b)' /\ Linked(b, t)'
    BY <1>3, <1>6, <2>1 DEF Two, Linked
  <2>5. Started(a, b)'
    BY <1>3, <1>4, <1>6, <2>1 DEF Two, Started
  <2>6. Started(b, t)'
    BY <1>3, <1>4, <2>1 DEF Started, running
  <2> QED
    BY <1>3, <1>6, <2>1, <2>2, <2>3, <2>4, <2>5, <2>6 DEF Two, Three
<1>7. ASSUME NEW a \in TaskAddr, NEW b \in TaskAddr, NEW c \in TaskAddr, Three(a, b, c)
      PROVE  FALSE
  <2>1. a \in LiveTasks /\ b \in LiveTasks /\ c \in LiveTasks /\ a # b /\ a # c /\ b # c
    BY <1>7 DEF Three, Row
  <2>2. MaxProcesses >= 4
    BY <1>1, <2>1, RoomMeansSlots
  <2> QED
    BY <2>2, ProcessesAssumption
<1> QED
  BY <1>5, <1>6, <1>7 DEF StackInv

\* The program that ends is the last of the list: it is the last one, or the one that
\* started it goes on, although task_list_remove first makes the head current.
LEMMA StackExit ==
  ASSUME TableInv, StackInv, NEW p \in ProcAddr, Terminate(p)
  PROVE  \/ TerminateLast(p)
         \/ /\ kernel' = "running" /\ StackInv'
            /\ running' = parent[running]
<1> RunsLiveTask /\ list \in List
  BY StackRunsLive DEF TableInv, TypeOK
<1>1. Terminate(p)
  OBVIOUS
<1> SUFFICES ASSUME ~TerminateLast(p)
             PROVE  kernel' = "running" /\ StackInv' /\ running' = parent[running]
  OBVIOUS
<1>2. kernel = "running" /\ running = p /\ TerminateAndSwitch(p)
  BY DEF Terminate
<1>3. ~ \E a \in TaskAddr : One(a)
  BY <1>1, OnlyOneIsLast DEF One, Row
<1>4. parent' = parent
  BY <1>2 DEF TerminateAndSwitch
<1> DEFINE t == list.current
           l == task_list_remove(list, t)
<1>5. /\ l \in List /\ t \in TaskAddr /\ LiveTasks' = LiveTasks \ {t}
      /\ l.current # NULL /\ task_get_next(l) # NULL =>
           kernel' = "running" /\ list' = [l EXCEPT !.current = task_get_next(l)]
  BY <1>2, TerminateEffect
<1>6. Unlinks(list, t, l)
  BY <1>5, RemoveUnlinks
<1>7. t = list.current
  OBVIOUS
<1> HIDE DEF l, t
<1>8. ASSUME NEW a \in TaskAddr, NEW b \in TaskAddr, Two(a, b)
      PROVE  kernel' = "running" /\ StackInv' /\ running' = parent[running]
  <2>1. /\ t = b /\ a # b /\ a # NULL /\ b # NULL /\ LiveTasks = {a, b}
        /\ list.head = a /\ list.tail = b /\ list.node[b].next = NULL
        /\ list.node[a].prev = NULL /\ list.node[b].prev = a /\ list.node[a].next = b
    BY <1>7, <1>8, ProcessesAssumption DEF Two, Row, Linked
  <2>2. /\ l.node[a].next = NULL /\ l.node[b].next = NULL /\ l.node[a].prev = NULL
        /\ l.head = a /\ l.tail = a /\ l.current = a
        /\ l.node[a].process = list.node[a].process
    BY <1>6, <1>7, <2>1 DEF Unlinks
  <2>3. task_get_next(l) = a
    BY <2>2 DEF task_get_next
  <2>4. kernel' = "running" /\ list' = [l EXCEPT !.current = a] /\ LiveTasks' = {a}
    BY <1>5, <2>1, <2>2, <2>3
  <2>5. One(a)'
    BY <1>5, <2>2, <2>4 DEF One, Row, Linked, List
  <2>6. running' = parent[running]
    BY <1>5, <1>7, <1>8, <2>1, <2>2, <2>4 DEF Two, Started, running, List
  <2> QED
    BY <2>4, <2>5, <2>6 DEF StackInv
<1>9. ASSUME NEW a \in TaskAddr, NEW b \in TaskAddr, NEW c \in TaskAddr, Three(a, b, c)
      PROVE  kernel' = "running" /\ StackInv' /\ running' = parent[running]
  <2>1. /\ t = c /\ a # b /\ a # c /\ b # c /\ a # NULL /\ b # NULL /\ c # NULL
        /\ LiveTasks = {a, b, c}
        /\ list.head = a /\ list.tail = c /\ list.node[c].next = NULL
        /\ list.node[a].prev = NULL /\ list.node[b].prev = a /\ list.node[c].prev = b
        /\ list.node[a].next = b /\ list.node[b].next = c
    BY <1>7, <1>9, ProcessesAssumption DEF Three, Row, Linked
  <2>2. /\ l.node[a].next = b /\ l.node[b].next = NULL /\ l.node[c].next = NULL
        /\ l.node[a].prev = NULL /\ l.node[b].prev = a
        /\ l.head = a /\ l.tail = b /\ l.current = a
        /\ l.node[a].process = list.node[a].process /\ l.node[b].process = list.node[b].process
    BY <1>6, <1>7, <2>1 DEF Unlinks
  <2>3. task_get_next(l) = b
    BY <2>1, <2>2 DEF task_get_next
  <2>4. kernel' = "running" /\ list' = [l EXCEPT !.current = b] /\ LiveTasks' = {a, b}
    BY <1>5, <2>1, <2>2, <2>3
  <2>5. /\ list'.node = l.node /\ list'.head = a /\ list'.tail = b /\ list'.current = b
    BY <1>5, <2>2, <2>4 DEF List
  <2>6. MaxProcesses >= 2
    BY <1>9, ProcessesAssumption DEF Three
  <2>7. Row({a, b}, b)'
    BY <2>2, <2>4, <2>5 DEF Row
  <2>8. Linked(NULL, a)' /\ Linked(a, b)'
    BY <2>1, <2>2, <2>5 DEF Linked
  <2>9. Started(a, b)'
    BY <1>4, <1>9, <2>2, <2>5 DEF Three, Started
  <2>10. Two(a, b)'
    BY <2>1, <2>5, <2>6, <2>7, <2>8, <2>9 DEF Two
  <2>11. running' = parent[running]
    BY <1>7, <1>9, <2>1, <2>2, <2>5 DEF Three, Started, running
  <2> QED
    BY <2>4, <2>10, <2>11 DEF StackInv
<1> QED
  BY <1>2, <1>3, <1>8, <1>9 DEF StackInv

\* Three slots without failures of memory: every step keeps the stack.
LEMMA StackStep ==
  ASSUME TableInv, StackInv, MaxProcesses =< 3, "heap" \notin Faults, [Next]_vars
  PROVE  StackInv'
<1> RunsLiveTask /\ list \in List
  BY StackRunsLive DEF TableInv, TypeOK
<1>1. CASE Boot
  <2>1. PICK p \in ProcAddr, t \in TaskAddr :
          kernel = "boot" /\ process_load(p, t) /\ list' = task_switch(task_new(list, t, p), t)
          /\ kernel' = "running"
    BY <1>1 DEF Boot
  <2> DEFINE m == task_new(list, t, p)
  <2>2. /\ m \in List /\ m.head = t /\ m.tail = t /\ m.current = t
        /\ m.node[t] = [next |-> NULL, prev |-> NULL, process |-> p]
    BY <2>1, NewStarts DEF TableInv, BootIsClean
  <2>3. list' = [m EXCEPT !.current = t]
    BY <2>1 DEF task_switch
  <2>4. LiveTasks' = {t}
    BY <2>1, LoadEffect, ProcessesAssumption DEF TableInv, BootIsClean, LiveTasks
  <2> HIDE DEF m
  <2>5. One(t)'
    BY <2>1, <2>2, <2>3, <2>4 DEF One, Row, Linked, List
  <2> QED
    BY <2>1, <2>5 DEF StackInv
<1>2. CASE Start
  BY <1>2, StackStart DEF Start
<1>3. CASE StartMapFails
  <2>1. PICK p \in ProcAddr, t \in TaskAddr :
          /\ kernel = "running" /\ t \notin allocated
          /\ list' = task_list_remove(task_new(list, t, p), t)
          /\ UNCHANGED <<allocated, kernel, parent>>
    BY <1>3 DEF StartMapFails
  <2> DEFINE m == task_new(list, t, p)
  <2>2. Appends(list, t, p, m)
    BY <2>1, StackAppends
  <2>3. Unlinks(m, t, list')
    BY <2>1, <2>2, RemoveUnlinks DEF Appends
  <2> HIDE DEF m
  <2>4. /\ LiveTasks' = LiveTasks /\ LiveTasks \subseteq TaskAddr /\ t \notin LiveTasks
        /\ list.head \in LiveTasks /\ list.tail \in LiveTasks /\ list.current \in LiveTasks
        /\ list.node[list.tail].next = NULL
    BY <2>1 DEF LiveTasks, StackInv, One, Two, Three, Row
  <2>5. /\ list'.head = list.head /\ list'.tail = list.tail /\ list'.current = list.current
        /\ \A u \in LiveTasks : /\ list'.node[u].next = list.node[u].next
                                /\ list'.node[u].prev = list.node[u].prev
                                /\ list'.node[u].process = list.node[u].process
    BY <2>2, <2>3, <2>4 DEF Appends, Unlinks
  <2> QED
    BY <2>1, <2>4, <2>5, StackSame
<1>4. CASE Exit
  <2>1. PICK p \in ProcAddr : Terminate(p)
    BY <1>4 DEF Exit
  <2>2. CASE TerminateLast(p)
    BY <2>2, StackSame DEF TerminateLast, LiveTasks
  <2> QED
    BY <2>1, <2>2, StackExit
<1>5. CASE StartLoadFails
  BY <1>5, StackSame, ProcessesAssumption DEF StartLoadFails, LiveTasks
<1>6. CASE BootFails \/ UNCHANGED vars
  BY <1>6, StackSame DEF BootFails, vars, LiveTasks
<1> QED
  BY <1>1, <1>2, <1>3, <1>4, <1>5, <1>6
     DEF Next, StartWithoutArguments, StartTaskFails, StartRefused, Stopped

\* With three slots the kernel panics only when the table is empty.
LEMMA StackPanics ==
  ASSUME TableInv, StackInv, PanicOnlyWhenEmpty, [Next]_vars
  PROVE  PanicOnlyWhenEmpty'
<1> SUFFICES ASSUME kernel' = "panicked" PROVE InTable' = {}
  BY DEF PanicOnlyWhenEmpty
<1>1. CASE Exit
  BY <1>1, StackExit, LastIsEmpty DEF Exit, TableInv
<1>2. CASE BootFails \/ UNCHANGED vars
  BY <1>2 DEF BootFails, vars, TableInv, BootIsClean, InTable, PanicOnlyWhenEmpty
<1> QED
  BY <1>1, <1>2
     DEF Next, Boot, Start, StartWithoutArguments, StartRefused, StartLoadFails,
         StartTaskFails, StartMapFails, Stopped

\* What is invariant with three slots.
LEMMA StackInvariant ==
  ASSUME MaxProcesses =< 3, "heap" \notin Faults
  PROVE  Spec => [](TableInv /\ StackInv /\ PanicOnlyWhenEmpty /\ RunsLiveTask /\ HasHead)
<1> DEFINE Inv == TableInv /\ StackInv /\ PanicOnlyWhenEmpty
<1>1. Init => Inv
  BY TableBegins DEF Init, StackInv, PanicOnlyWhenEmpty, LiveTasks
<1>2. Inv /\ [Next]_vars => Inv'
  BY TableStep, StackStep, StackPanics, StackRunsLive
<1>3. Inv => RunsLiveTask /\ HasHead
  BY StackRunsLive
<1> QED
  BY <1>1, <1>2, <1>3, PTL DEF Spec

\* The walk along a list whose nodes are a, b and c, or the first of them.
LEMMA WalkVisits ==
  ASSUME MaxProcesses =< 3, NEW a, NEW b, NEW c, list.head = a,
         b = IF a = NULL THEN NULL ELSE list.node[a].next,
         c = IF b = NULL THEN NULL ELSE list.node[b].next,
         c # NULL => list.node[c].next = NULL
  PROVE  Walk = [k \in 0..MaxProcesses |->
                   IF k = 0 THEN a ELSE IF k = 1 THEN b ELSE IF k = 2 THEN c ELSE NULL]
<1> DEFINE Step(f, k) == IF k = 0 THEN list.head
                         ELSE IF f[k-1] = NULL THEN NULL ELSE list.node[f[k-1]].next
           IsWalk(f) == f = [k \in 0..MaxProcesses |-> Step(f, k)]
           w == [k \in 0..MaxProcesses |->
                   IF k = 0 THEN a ELSE IF k = 1 THEN b ELSE IF k = 2 THEN c ELSE NULL]
<1>1. Walk = CHOOSE f : IsWalk(f)
  BY DEF Walk
<1>2. \A k \in 0..MaxProcesses : k \in {0, 1, 2, 3} /\ (k # 0 => k-1 \in 0..MaxProcesses)
  BY ProcessesAssumption
<1>3. \A k \in 0..MaxProcesses : w[k] = Step(w, k)
  <2> SUFFICES ASSUME NEW k \in 0..MaxProcesses PROVE w[k] = Step(w, k)
    OBVIOUS
  <2>1. CASE k = 0
    BY <2>1
  <2>2. CASE k = 1
    BY <1>2, <2>2
  <2>3. CASE k = 2
    BY <1>2, <2>3
  <2>4. CASE k = 3
    BY <1>2, <2>4
  <2> QED
    BY <1>2, <2>1, <2>2, <2>3, <2>4
<1>4. IsWalk(w)
  BY <1>3
<1>5. IsWalk(Walk)
  <2> HIDE DEF IsWalk, w
  <2> QED
    BY <1>1, <1>4, Zenon
<1>6. Walk = [k \in 0..MaxProcesses |-> Step(Walk, k)]
  BY <1>5
<1> HIDE DEF w
<1>7. \A k \in 0..MaxProcesses : Walk[k] = Step(Walk, k)
  BY <1>6
<1>8. ASSUME NEW k \in 0..MaxProcesses PROVE Walk[k] = w[k]
  <2>1. /\ 0 \in 0..MaxProcesses /\ Walk[0] = w[0]
        /\ 1 \in 0..MaxProcesses => Walk[1] = w[1]
    BY <1>3, <1>7, ProcessesAssumption
  <2>2. 2 \in 0..MaxProcesses => 1 \in 0..MaxProcesses /\ Walk[2] = w[2]
    BY <1>3, <1>7, <2>1, ProcessesAssumption
  <2>3. 3 \in 0..MaxProcesses => 2 \in 0..MaxProcesses /\ Walk[3] = w[3]
    BY <1>3, <1>7, <2>2, ProcessesAssumption
  <2> QED
    BY <1>2, <2>1, <2>2, <2>3
<1> QED
  BY <1>6, <1>8 DEF w

\* The number of tasks in each shape of the list.
LEMMA CardinalityOfThree ==
  /\ Cardinality({}) = 0
  /\ \A a : Cardinality({a}) = 1
  /\ \A a, b : a # b => Cardinality({a, b}) = 2
  /\ \A a, b, c : a # b /\ a # c /\ b # c => Cardinality({a, b, c}) = 3
<1>1. \A a : IsFiniteSet({a}) /\ Cardinality({a}) = 1
  BY FS_Singleton
<1>2. \A a, b : a # b => IsFiniteSet({a, b}) /\ Cardinality({a, b}) = 2
  <2> SUFFICES ASSUME NEW a, NEW b, a # b
               PROVE  IsFiniteSet({a, b}) /\ Cardinality({a, b}) = 2
    OBVIOUS
  <2>1. IsFiniteSet({a} \cup {b}) /\ Cardinality({a} \cup {b}) = 1 + 1
    <3>1. /\ IsFiniteSet({a} \cup {b})
          /\ Cardinality({a} \cup {b}) =
               IF b \in {a} THEN Cardinality({a}) ELSE Cardinality({a}) + 1
      BY <1>1, FS_AddElement, Zenon
    <3>2. b \notin {a} /\ Cardinality({a}) = 1
      BY <1>1
    <3> QED
      BY <3>1, <3>2
  <2>2. {a, b} = {a} \cup {b}
    OBVIOUS
  <2> QED
    BY <2>1, <2>2
<1>3. \A a, b, c : a # b /\ a # c /\ b # c => Cardinality({a, b, c}) = 3
  <2> SUFFICES ASSUME NEW a, NEW b, NEW c, a # b, a # c, b # c
               PROVE  Cardinality({a, b, c}) = 3
    OBVIOUS
  <2>1. Cardinality({a, b} \cup {c}) = 2 + 1
    <3>1. c \notin {a, b} /\ IsFiniteSet({a, b}) /\ Cardinality({a, b}) = 2
      BY <1>2
    <3> QED
      BY <3>1, FS_AddElement, Zenon
  <2>2. {a, b, c} = {a, b} \cup {c}
    OBVIOUS
  <2> QED
    BY <2>1, <2>2
<1>4. Cardinality({}) = 0
  BY FS_EmptySet
<1> QED
  BY <1>1, <1>2, <1>3, <1>4

\* The shapes of the list are complete: the walk meets every live task once.
LEMMA StackComplete ==
  ASSUME StackInv, MaxProcesses =< 3
  PROVE  ListComplete
<1> MaxProcesses \in Nat \ {0} /\ NULL \notin TaskAddr
  BY ProcessesAssumption
<1>1. CASE LiveTasks = {} /\ list.head = NULL
  <2>1. \A k \in 0..MaxProcesses : Walk[k] = NULL
    BY <1>1, WalkVisits
  <2> QED
    BY <1>1, <2>1, CardinalityOfThree DEF ListComplete
<1>2. ASSUME NEW a \in TaskAddr, One(a) PROVE ListComplete
  <2>1. /\ LiveTasks = {a} /\ list.tail = a /\ Cardinality(LiveTasks) = 1
        /\ list.head = a /\ list.node[a].next = NULL
    BY <1>2, CardinalityOfThree DEF One, Row
  <2>2. Walk = [k \in 0..MaxProcesses |->
                  IF k = 0 THEN a ELSE IF k = 1 THEN NULL ELSE IF k = 2 THEN NULL ELSE NULL]
    BY <2>1, WalkVisits
  <2>3. Walk[0] = a /\ Walk[1] = NULL /\ \A k \in 0..MaxProcesses : Walk[k] \in {a, NULL}
    BY <2>2
  <2> QED
    BY <2>1, <2>3 DEF ListComplete
<1>3. ASSUME NEW a \in TaskAddr, NEW b \in TaskAddr, Two(a, b) PROVE ListComplete
  <2>1. /\ LiveTasks = {a, b} /\ list.tail = b /\ Cardinality(LiveTasks) = 2
        /\ list.head = a /\ list.node[a].next = b /\ list.node[b].next = NULL
    BY <1>3, CardinalityOfThree DEF Two, Row, Linked
  <2>2. Walk = [k \in 0..MaxProcesses |->
                  IF k = 0 THEN a ELSE IF k = 1 THEN b ELSE IF k = 2 THEN NULL ELSE NULL]
    BY <2>1, WalkVisits
  <2>3. /\ Walk[0] = a /\ Walk[1] = b /\ Walk[2] = NULL
        /\ \A k \in 0..MaxProcesses : Walk[k] \in {a, b, NULL}
    BY <1>3, <2>2 DEF Two
  <2>4. 0 \in 0..MaxProcesses /\ 1 \in 0..MaxProcesses
    OBVIOUS
  <2> QED
    BY <2>1, <2>3, <2>4 DEF ListComplete
<1>4. ASSUME NEW a \in TaskAddr, NEW b \in TaskAddr, NEW c \in TaskAddr, Three(a, b, c)
      PROVE  ListComplete
  <2>1. /\ LiveTasks = {a, b, c} /\ list.tail = c /\ Cardinality(LiveTasks) = 3
        /\ list.head = a /\ list.node[a].next = b /\ list.node[b].next = c
        /\ list.node[c].next = NULL
    <3>1. LiveTasks = {a, b, c} /\ a # b /\ a # c /\ b # c
      BY <1>4 DEF Three, Row
    <3>2. Cardinality({a, b, c}) = 3
      BY <3>1, CardinalityOfThree, Zenon
    <3> QED
      BY <1>4, <3>1, <3>2 DEF Three, Row, Linked
  <2>2. Walk = [k \in 0..MaxProcesses |->
                  IF k = 0 THEN a ELSE IF k = 1 THEN b ELSE IF k = 2 THEN c ELSE NULL]
    BY <2>1, WalkVisits
  <2>3. /\ Walk[0] = a /\ Walk[1] = b /\ Walk[2] = c /\ Walk[3] = NULL
        /\ \A k \in 0..MaxProcesses : Walk[k] \in {a, b, c, NULL}
    BY <1>4, <2>2 DEF Three
  <2>4. 0 \in 0..MaxProcesses /\ 1 \in 0..MaxProcesses /\ 2 \in 0..MaxProcesses
    BY <1>4 DEF Three
  <2> QED
    BY <2>1, <2>3, <2>4 DEF ListComplete
<1> QED
  BY <1>1, <1>2, <1>3, <1>4 DEF StackInv

\* In each shape of the list prev is the task before.
LEMMA StackPredecessors ==
  ASSUME StackInv
  PROVE  PrevIsPredecessor
<1>1. \A a \in TaskAddr : One(a) => PrevIsPredecessor
  BY DEF One, Row, Linked, PrevIsPredecessor
<1>2. \A a, b \in TaskAddr : Two(a, b) => PrevIsPredecessor
  BY ProcessesAssumption DEF Two, Row, Linked, PrevIsPredecessor
<1>3. \A a, b, c \in TaskAddr : Three(a, b, c) => PrevIsPredecessor
  BY ProcessesAssumption DEF Three, Row, Linked, PrevIsPredecessor
<1>4. LiveTasks = {} => PrevIsPredecessor
  BY DEF PrevIsPredecessor
<1> QED
  BY <1>1, <1>2, <1>3, <1>4 DEF StackInv

\* With three slots and memory for every program the task list holds exactly the live
\* tasks, from task_head to task_tail along next and back along prev, and the slots of
\* the table match it (task_new, task_list_remove, process_load_for_slot,
\* process_terminate).
THEOREM ThreeSlotsKeepTheList ==
  ASSUME MaxProcesses =< 3, "heap" \notin Faults
  PROVE  Spec => []TypeOK /\ []ListComplete /\ []PrevIsPredecessor /\ []SlotsMatchTasks
<1>1. TableInv /\ StackInv =>
        TypeOK /\ ListComplete /\ PrevIsPredecessor /\ SlotsMatchTasks
  BY StackComplete, StackPredecessors DEF TableInv
<1> QED
  BY <1>1, StackInvariant, PTL

\* So the CPU is only given to live tasks and the kernel panics only when no process
\* is left (task_next, process_switch_to_any).
THEOREM ThreeSlotsRunLive ==
  ASSUME MaxProcesses =< 3, "heap" \notin Faults
  PROVE  Spec => []RunsLiveTask /\ []PanicOnlyWhenEmpty
BY StackInvariant, PTL

\* And no process structure is left behind when a program's memory cannot be mapped
\* (process_load_for_slot, process_free_process).
THEOREM ThreeSlotsOrphanNone ==
  ASSUME MaxProcesses =< 3, Faults \subseteq {"map"}
  PROVE  Spec => []NothingOrphaned
<1>1. "heap" \notin Faults
  OBVIOUS
<1> QED
  BY <1>1, StackInvariant, NoneOrphaned, PTL

\* And a program goes on with its own registers and in its own directory.
THEOREM ThreeSlotsRunTheirOwn ==
  ASSUME MaxProcesses =< 3, "heap" \notin Faults
  PROVE  ContextSpec => []RunsItsOwn
BY StackInvariant, ProgramsKeepRegisters, ContextImplementsProcesses, PTL

\* A step in which the running program leaves the table is its end, and gives the CPU
\* to the program that started it.
LEMMA StepResumesParent ==
  ASSUME TableInv, StackInv, [Next]_vars,
         kernel = "running", kernel' = "running", running \notin InTable'
  PROVE  running' = parent[running]
<1>1. running \in InTable
  BY StackRunsLive DEF RunsLiveTask
<1>2. \A p \in ProcAddr, t \in TaskAddr : process_load(p, t) => InTable \subseteq InTable'
  <2> SUFFICES ASSUME NEW p \in ProcAddr, NEW t \in TaskAddr, process_load(p, t),
                      NEW s \in Slots, processes[s] # NULL
               PROVE  processes'[s] = processes[s]
    BY ProcessesAssumption DEF InTable
  <2>1. processes[process_get_free_slot] = NULL
    BY FreeSlotIsFree DEF process_load
  <2> QED
    BY <2>1 DEF process_load, TableInv, TypeOK
<1>3. CASE Exit
  BY <1>3, StackExit DEF Exit, TerminateLast
<1> QED
  BY <1>1, <1>2, <1>3
     DEF Next, Boot, BootFails, Start, StartWithoutArguments, StartRefused, StartLoadFails,
         StartTaskFails, StartMapFails, Stopped, vars, InTable

\* With three slots and memory for every program, the end of a program gives the CPU
\* back to the program that started it (task_list_remove, task_next).
THEOREM ThreeSlotsResumeParents ==
  ASSUME MaxProcesses =< 3, "heap" \notin Faults
  PROVE  Spec => ParentResumes
<1>1. TableInv /\ StackInv /\ [Next]_vars =>
        [kernel = "running" /\ kernel' = "running" /\ running \notin InTable'
           => running' = parent[running]]_vars
  BY StepResumesParent
<1> QED
  BY <1>1, StackInvariant, PTL DEF Spec, ParentResumes

------------------------------------------------------------------------------
(* Two slots, without failures of memory: both notions of "current" agree *)

\* A start runs the process it made current.
LEMMA StartAgrees ==
  ASSUME TableInv, NEW p \in ProcAddr, NEW t \in TaskAddr, current_process' = p,
         list' = task_switch(task_new(list, t, p), t)
  PROVE  CurrentAgrees'
<1> DEFINE m == task_new(list, t, p)
<1>1. m \in List /\ m.node[t].process = p
  BY NewIsOwn DEF TableInv, TypeOK
<1>2. list' = [m EXCEPT !.current = t]
  BY DEF task_switch
<1> HIDE DEF m
<1>3. list'.node = m.node /\ list'.current = t
  BY <1>1, <1>2 DEF List
<1> QED
  BY <1>1, <1>3 DEF CurrentAgrees, running

\* A step that keeps the current process and task keeps their agreement.
LEMMA SameAgrees ==
  ASSUME TableInv, RunsLiveTask, CurrentAgrees, current_process' = current_process,
         kernel = "running", list'.current = list.current,
         \A u \in LiveTasks : list'.node[u].process = list.node[u].process
  PROVE  CurrentAgrees'
<1>1. list'.node[list.current].process = running
  BY DEF RunsLiveTask, running
<1> QED
  BY <1>1 DEF CurrentAgrees, running

\* With two slots every step keeps the agreement: an end leaves one process, the only
\* one either of the two can be.
LEMMA CurrentStep ==
  ASSUME TableInv, TableInv', StackInv, StackInv', CurrentAgrees, MaxProcesses =< 2,
         "heap" \notin Faults, [Next]_vars
  PROVE  CurrentAgrees'
<1> RunsLiveTask /\ list \in List
  BY StackRunsLive DEF TableInv, TypeOK
<1>1. CASE Boot \/ Start
  BY <1>1, StartAgrees DEF Boot, Start
<1>2. CASE StartMapFails
  <2>1. PICK p \in ProcAddr, t \in TaskAddr :
          /\ kernel = "running" /\ t \notin allocated
          /\ list' = task_list_remove(task_new(list, t, p), t)
          /\ current_process' = current_process
    BY <1>2 DEF StartMapFails
  <2> DEFINE m == task_new(list, t, p)
  <2>2. Appends(list, t, p, m)
    BY <2>1, StackAppends
  <2>3. Unlinks(m, t, list')
    BY <2>1, <2>2, RemoveUnlinks DEF Appends
  <2> HIDE DEF m
  <2>4. /\ LiveTasks \subseteq TaskAddr /\ t \notin LiveTasks /\ list.current \in LiveTasks
    BY <2>1 DEF LiveTasks, RunsLiveTask
  <2>5. list'.current = list.current
        /\ \A u \in LiveTasks : list'.node[u].process = list.node[u].process
    BY <2>2, <2>3, <2>4 DEF Appends, Unlinks
  <2> QED
    BY <2>1, <2>5, SameAgrees
<1>3. ASSUME NEW p \in ProcAddr, Terminate(p) PROVE CurrentAgrees'
  <2> SUFFICES ASSUME kernel' = "running" PROVE current_process' = running'
    BY DEF CurrentAgrees
  <2>1. kernel = "running" /\ running = p /\ TerminateAndSwitch(p)
    BY <1>3 DEF Terminate, TerminateLast
  <2>2. LiveTasks' = LiveTasks \ {list.current}
    BY <2>1, TerminateEffect
  <2>3. \A x, y, z \in TaskAddr : ~Three(x, y, z) /\ ~Three(x, y, z)'
    BY ProcessesAssumption DEF Three
  <2>4. \A x, y \in TaskAddr : ~Two(x, y)'
    BY <2>1, <2>2, <2>3 DEF StackInv, One, Two, Row
  <2>5. PICK a \in TaskAddr : One(a)'
    BY <2>3, <2>4 DEF StackInv
  <2>6. LiveTasks' = {a} /\ list'.current = a
    BY <2>5 DEF One, Row
  <2>7. current_process' \in InTable'
    BY DEF TableInv, CurrentListed
  <2>8. list'.node[a].process = current_process'
    BY <2>6, <2>7, ProcessesAssumption DEF InTable, TableInv, SlotsMatchTasks
  <2> QED
    BY <2>6, <2>8 DEF running
<1>4. CASE StartLoadFails \/ BootFails \/ UNCHANGED vars
  BY <1>4 DEF StartLoadFails, BootFails, vars, CurrentAgrees, running
<1> QED
  BY <1>1, <1>2, <1>3, <1>4
     DEF Next, Exit, StartWithoutArguments, StartTaskFails, StartRefused, Stopped

\* With two slots and memory for every program, process_current() is the process of the
\* running task: keyboard_push and keyboard_pop mean the same process.
THEOREM TwoSlotsAgree ==
  ASSUME MaxProcesses =< 2, "heap" \notin Faults
  PROVE  Spec => []CurrentAgrees
<1>1. MaxProcesses =< 3
  BY ProcessesAssumption
<1>2. Init => CurrentAgrees
  BY DEF Init, CurrentAgrees
<1>3. TableInv /\ TableInv' /\ StackInv /\ StackInv' /\ CurrentAgrees /\ [Next]_vars
        => CurrentAgrees'
  BY CurrentStep
<1> QED
  BY <1>1, <1>2, <1>3, StackInvariant, PTL DEF Spec

==============================================================================

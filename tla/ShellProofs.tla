---------------------------- MODULE ShellProofs ----------------------------
(***************************************************************************)
(* Theorems about loading a program's file (Loader) and about the shell    *)
(* that has it loaded (Shell): what is open and allocated at every point   *)
(* of a load, what the screen shows while a line is typed, the words that  *)
(* a line becomes, and the path of the file that is opened.                *)
(***************************************************************************)
EXTENDS Shell, SequenceTheorems, FiniteSetTheorems, WellFoundedInduction, TLAPS

LEMMA ShellAssumptions ==
  /\ Files \subseteq {"elf", "binary", "directory", "missing", "bad_path"}
  /\ {"missing", "bad_path"} \subseteq Files
  /\ Faults \subseteq {"heap", "read"}
  /\ MaxDescriptors \in Nat /\ MaxDescriptors >= 2
  /\ MaxLoaded \in Nat /\ LeakLimit \in Nat
  BY LoaderAssumption, ShellAssumption

------------------------------------------------------------------------------
(* The loader *)

\* The calls of a load that has its file open.
Opened == {"fstat", "fread", "out"}

\* What an open file holds in the heap; a stale directory was given back.
OpenFile == {"file_descriptor"} \cup Item \cup (IF stale THEN {} ELSE Content)

\* What fopen, and the functions below it, allocate and fclose gives back.
FileKind == Kind \ {"path_root", "elf_file", "program"}

\* The descriptors and the file structures in use are those of the open file.
HoldsFile ==
  IF pc \in Opened
  THEN /\ file_descriptors = {1} /\ fd = 1
       /\ file \in {"elf", "binary", "directory"}
       /\ stale => file = "directory"
       /\ \A k \in FileKind : inUse[k] = IF k \in OpenFile THEN 1 ELSE 0
  ELSE /\ file_descriptors = {}
       /\ \A k \in FileKind : inUse[k] = 0

\* The loader's own memory is that of the programs loaded and of the load.
HoldsMemory ==
  /\ memory => pc \in {"fread", "out"}
  /\ pc = "fread" => memory
  /\ inUse["program"] = loaded["elf"] + loaded["binary"] + (IF memory THEN 1 ELSE 0)
  /\ inUse["elf_file"] >= loaded["elf"] + (IF pc # "idle" /\ loader = "elf" THEN 1 ELSE 0)

\* What a loader returns with: a file was read, or it gives up.
HoldsResult ==
  /\ pc \in {"fopen", "fstat", "fread"} => result = "ok"
  /\ pc = "fopen" => ~stale
  /\ pc = "out" /\ result = "ok" => memory
  /\ pc = "out" /\ result = "EINFORMAT" => memory /\ loader = "elf"
  /\ pc = "out" /\ stale => result = "error" /\ ~memory
  /\ pc = "fread" => ~stale /\ file # "directory"

LoaderInv == LoaderTypeOK /\ HoldsFile /\ HoldsMemory /\ HoldsResult

\* process_load_data: a load begins with elf_load's structure and nothing else.
LEMMA LoadKeeps == ASSUME LoaderInv, NEW f \in Files, Load(f) PROVE LoaderInv'
<1> USE DEF LoaderInv, LoaderTypeOK, Load, At, tables, locals
<1>1. inUse' = [inUse EXCEPT !["elf_file"] = @ + 1]
  <2>1. Begun("elf") = {"elf_file"}
    BY DEF Begun
  <2>2. inUse' = [k \in Kind |-> inUse[k] + (IF k \in {"elf_file"} THEN 1 ELSE 0)]
    BY <2>1 DEF kzalloc
  <2>3. inUse \in [Kind -> Nat]
    OBVIOUS
  <2> HIDE DEF LoaderInv, LoaderTypeOK, Load
  <2>4. DOMAIN inUse' = Kind /\ DOMAIN [inUse EXCEPT !["elf_file"] = @ + 1] = Kind
    BY <2>2, <2>3
  <2>5. \A k \in Kind : inUse'[k] = [inUse EXCEPT !["elf_file"] = @ + 1][k]
    BY <2>2, <2>3
  <2>6. inUse' = [k \in Kind |-> [inUse EXCEPT !["elf_file"] = @ + 1][k]]
    BY <2>2, <2>5
  <2> QED BY <2>3, <2>6
<1>2. LoaderTypeOK'
  <2>1. inUse["elf_file"] + 1 \in Nat
    BY DEF Kind
  <2>2. inUse' \in [Kind -> Nat]
    BY <1>1, <2>1
  <2>3. loader' \in Format
    BY DEF Format
  <2> QED BY <2>2, <2>3
<1>3. HoldsFile'
  BY <1>1 DEF HoldsFile, FileKind, Opened, Kind
<1>4. HoldsMemory'
  BY <1>1 DEF HoldsMemory, Kind, Format
<1>5. HoldsResult'
  BY DEF HoldsResult
<1> QED BY <1>2, <1>3, <1>4, <1>5

\* fopen: the lowest descriptor is the first one, because none is in use; the open
\* file holds its structures, each once.
LEMMA OpenKeeps == ASSUME LoaderInv, Open PROVE LoaderInv'
<1> USE DEF LoaderInv, LoaderTypeOK, Open, At, tables, locals
<1>1. /\ pc = "fopen" /\ pc' = "fstat" /\ file_descriptors = {}
      /\ \A k \in FileKind : inUse[k] = 0
  BY DEF HoldsFile, Opened
<1>2. new_file_descriptor = 1
  <2>1. \A i \in Descriptors : 1..i-1 \subseteq {} => i = 1
    <3> SUFFICES ASSUME NEW i \in Descriptors, i # 1 PROVE 1 \in 1..i-1
      OBVIOUS
    <3> QED BY ShellAssumptions DEF Descriptors
  <2>2. 1 \in Descriptors /\ 1..1-1 \subseteq {}
    BY ShellAssumptions DEF Descriptors
  <2> QED BY <1>1, <2>1, <2>2 DEF new_file_descriptor
<1>3. fd' = 1 /\ file_descriptors' = {1}
  BY <1>1, <1>2
<1>4. \A k \in Kind : inUse'[k] = inUse[k] + (IF k \in OpenFile' \cup Path THEN 1 ELSE 0)
  <2>1. Content' = Content
    BY DEF Content
  <2>2. CASE kzalloc(Path \cup {"file_descriptor"} \cup Item \cup Content) /\ UNCHANGED stale
    <3>1. OpenFile' = {"file_descriptor"} \cup Item \cup Content
      BY <2>1, <2>2 DEF OpenFile, HoldsResult, Item
    <3>2. Path \cup {"file_descriptor"} \cup Item \cup Content = OpenFile' \cup Path
      BY <3>1
    <3> QED BY <2>2, <3>2 DEF kzalloc
  <2>3. CASE kzalloc(Path \cup {"file_descriptor"} \cup Item) /\ stale'
    <3>1. OpenFile' = {"file_descriptor"} \cup Item
      BY <2>3 DEF OpenFile, Item
    <3>2. Path \cup {"file_descriptor"} \cup Item = OpenFile' \cup Path
      BY <3>1
    <3> QED BY <2>3, <3>2 DEF kzalloc
  <2> QED BY <2>2, <2>3
<1>5. inUse' \in [Kind -> Int]
  BY DEF kzalloc
<1>6. \A k \in FileKind : k \notin Path /\ k \in Kind
  BY DEF FileKind, Path
<1>7. LoaderTypeOK'
  <2>1. \A k \in Kind : inUse'[k] \in Nat
    BY <1>4
  <2>2. inUse' \in [Kind -> Nat]
    BY <1>5, <2>1
  <2>3. fd' \in Descriptors \cup {0} /\ file_descriptors' \subseteq Descriptors
    BY <1>3, ShellAssumptions DEF Descriptors
  <2> QED BY <2>2, <2>3
<1>8. HoldsFile'
  <2>1. \A k \in FileKind : inUse'[k] = IF k \in OpenFile' THEN 1 ELSE 0
    <3> SUFFICES ASSUME NEW k \in FileKind PROVE inUse'[k] = IF k \in OpenFile' THEN 1 ELSE 0
      OBVIOUS
    <3>1. inUse'[k] = 0 + (IF k \in OpenFile' \cup Path THEN 1 ELSE 0) /\ k \notin Path
      BY <1>1, <1>4, <1>6
    <3> QED BY <3>1
  <2>2. pc' \in Opened /\ file' \in {"elf", "binary", "directory"}
    BY <1>1 DEF Opened
  <2>3. stale' => file' = "directory"
    BY <1>1 DEF HoldsResult
  <2> HIDE DEF LoaderInv, LoaderTypeOK, Open, At, tables, locals
  <2> QED BY <1>3, <2>1, <2>2, <2>3 DEF HoldsFile
<1>9. inUse'["program"] = inUse["program"] /\ inUse'["elf_file"] = inUse["elf_file"]
  BY <1>4 DEF Kind, OpenFile, Item, Content, Path
<1>10. HoldsMemory'
  BY <1>1, <1>9 DEF HoldsMemory
<1>11. HoldsResult'
  BY <1>1 DEF HoldsResult
<1> QED BY <1>7, <1>8, <1>10, <1>11

\* fopen without a path: elf_load loses its structure, no file is open.
LEMMA OpenWithoutPathKeeps == ASSUME LoaderInv, OpenWithoutPath PROVE LoaderInv'
<1> USE DEF LoaderInv, LoaderTypeOK, OpenWithoutPath, At, tables, locals
<1>1. LoaderTypeOK'
  OBVIOUS
<1>2. HoldsFile'
  BY DEF HoldsFile, Opened
<1>3. HoldsMemory'
  BY DEF HoldsMemory, Kind, Format
<1>4. HoldsResult'
  BY DEF HoldsResult
<1> QED BY <1>1, <1>2, <1>3, <1>4

\* Where an undefined step is taken nothing changes that the load keeps.
LEMMA UndefinedKeeps ==
  ASSUME LoaderInv, NEW how \in {"closed_error", "used_null", "freed_twice"}, Undefined(how)
  PROVE  LoaderInv'
  BY DEF LoaderInv, LoaderTypeOK, HoldsFile, HoldsMemory, HoldsResult, OpenFile, Content, Item,
         Undefined, locals, tables

\* fstat: a directory is refused, for a file the loader gets its memory.
LEMMA StatKeeps == ASSUME LoaderInv, Stat PROVE LoaderInv'
<1> USE DEF LoaderInv, LoaderTypeOK, Stat, At, tables, locals
<1>1. OpenFile' = OpenFile /\ pc \in Opened /\ pc' \in Opened
  BY DEF OpenFile, Content, Opened
<1>2. CASE file = "directory"
  <2>1. LoaderTypeOK'
    BY <1>2
  <2>2. HoldsFile'
    BY <1>1, <1>2 DEF HoldsFile
  <2>3. HoldsMemory'
    BY <1>2 DEF HoldsMemory
  <2>4. HoldsResult'
    BY <1>2 DEF HoldsResult, HoldsMemory
  <2> QED BY <2>1, <2>2, <2>3, <2>4
<1>3. CASE file # "directory"
  <2>1. inUse' = [inUse EXCEPT !["program"] = @ + 1]
    BY <1>3 DEF kzalloc, Kind
  <2>2. LoaderTypeOK'
    BY <1>3, <2>1 DEF Kind
  <2>3. HoldsFile'
    <3>1. \A k \in FileKind : inUse'[k] = inUse[k]
      BY <2>1 DEF FileKind, Kind
    <3> QED BY <1>1, <1>3, <3>1 DEF HoldsFile
  <2>4. HoldsMemory'
    BY <1>3, <2>1 DEF HoldsMemory, Kind, Format
  <2>5. HoldsResult'
    BY <1>1, <1>3 DEF HoldsResult, HoldsFile
  <2> QED BY <2>2, <2>3, <2>4, <2>5
<1> QED BY <1>2, <1>3

\* process_load_binary gives up when there is no memory for the file.
LEMMA StatWithoutMemoryKeeps == ASSUME LoaderInv, StatWithoutMemory PROVE LoaderInv'
<1> USE DEF LoaderInv, LoaderTypeOK, StatWithoutMemory, At, tables, locals
<1>1. CASE loader = "binary"
  <2>1. LoaderTypeOK'
    BY <1>1
  <2>2. HoldsFile'
    BY <1>1 DEF HoldsFile, OpenFile, Content, Item, Opened
  <2>3. HoldsMemory'
    BY <1>1 DEF HoldsMemory
  <2>4. HoldsResult'
    BY <1>1 DEF HoldsResult, HoldsMemory
  <2> QED BY <2>1, <2>2, <2>3, <2>4
<1>2. CASE loader # "binary"
  BY <1>2, UndefinedKeeps
<1> QED BY <1>1, <1>2

\* fread: the file stays open, and only a file that elf_load read is of another format.
LEMMA ReadKeeps == ASSUME LoaderInv, Read PROVE LoaderInv'
<1> USE DEF LoaderInv, LoaderTypeOK, Read, At, tables, locals
<1>1. LoaderTypeOK'
  OBVIOUS
<1>2. HoldsFile'
  BY DEF HoldsFile, OpenFile, Content, Item, Opened
<1>3. HoldsMemory'
  BY DEF HoldsMemory
<1>4. HoldsResult'
  BY DEF HoldsResult, HoldsMemory
<1> QED BY <1>1, <1>2, <1>3, <1>4

\* The loader returns: what it gives back is what the load holds.
LEMMA OutKeeps == ASSUME LoaderInv, Out PROVE LoaderInv'
<1> USE DEF LoaderInv, LoaderTypeOK, Out, At, tables, locals
<1>1. /\ pc = "out" /\ ~stale /\ fd = 1 /\ file_descriptors = {1}
      /\ \A k \in FileKind : inUse[k] = IF k \in OpenFile THEN 1 ELSE 0
  BY DEF HoldsFile, Opened
<1>2. file_get_descriptor(fd) /\ Closed = OpenFile
  BY <1>1, ShellAssumptions DEF file_get_descriptor, Closed, OpenFile
<1>3. file_descriptors' = {} /\ fd' = 0
  BY <1>1, <1>2
<1>4. inUse' = [k \in Kind |-> inUse[k] - (IF k \in OpenFile \cup Released THEN 1 ELSE 0)]
  BY <1>2 DEF kfree, Begun, Fallback
<1>5. FileKind \cap Released = {} /\ FileKind \subseteq Kind
  BY DEF FileKind, Released
<1>6. \A k \in FileKind : inUse'[k] = 0
  <2> SUFFICES ASSUME NEW k \in FileKind PROVE inUse'[k] = 0
    OBVIOUS
  <2>1. inUse'[k] = inUse[k] - (IF k \in OpenFile THEN 1 ELSE 0)
    BY <1>4, <1>5
  <2> QED BY <1>1, <2>1
<1>7. pc' \notin Opened
  BY DEF Opened
<1>8. HoldsFile'
  BY <1>3, <1>6, <1>7 DEF HoldsFile
<1>9. /\ inUse'["program"] = inUse["program"] - (IF "program" \in Released THEN 1 ELSE 0)
      /\ inUse'["elf_file"] = inUse["elf_file"] - (IF "elf_file" \in Released THEN 1 ELSE 0)
      /\ inUse'["path_root"] = inUse["path_root"]
  BY <1>4 DEF Kind, OpenFile, Item, Content, Released
<1>10. /\ "program" \in Released <=> result # "ok" /\ memory
       /\ "elf_file" \in Released <=> result # "ok" /\ loader = "elf"
  BY DEF Released
<1>11. /\ inUse["program"] \in Nat /\ inUse["elf_file"] \in Nat /\ inUse["path_root"] \in Nat
       /\ loaded["elf"] \in Nat /\ loaded["binary"] \in Nat
  BY DEF Kind, Format
<1>12. CASE result = "EINFORMAT"
  <2>1. memory /\ loader = "elf"
    BY <1>1, <1>12 DEF HoldsResult
  <2>2. HoldsMemory'
    BY <1>1, <1>9, <1>10, <1>11, <1>12, <2>1 DEF HoldsMemory, Fallback
  <2>3. HoldsResult'
    BY <1>1, <1>12 DEF HoldsResult
  <2>4. loader' \in Format /\ loaded' \in [Format -> Nat]
    BY <1>12 DEF Fallback, Format
  <2> QED
    <3>1. inUse'["program"] \in Nat /\ inUse'["elf_file"] \in Nat
      BY <1>1, <1>9, <1>10, <1>11, <1>12, <2>1 DEF HoldsMemory
    <3>2. \A k \in Kind : k \in FileKind \/ k \in {"path_root", "elf_file", "program"}
      BY DEF FileKind
    <3>3. \A k \in Kind : inUse'[k] \in Nat
      BY <1>6, <1>9, <1>11, <3>1, <3>2
    <3>4. inUse' \in [Kind -> Nat]
      BY <1>4, <3>3
    <3>5. LoaderTypeOK'
      BY <1>3, <2>4, <3>4, <1>12
    <3> QED BY <1>8, <2>2, <2>3, <3>5
<1>13. CASE result # "EINFORMAT"
  <2>1. /\ pc' = "idle" /\ loader' = loader
        /\ loaded' = [loaded EXCEPT ![loader] = IF result = "ok" THEN @ + 1 ELSE @]
    BY <1>13
  <2>2. loaded' \in [Format -> Nat]
    BY <2>1 DEF Format
  <2>3. result = "ok" => memory
    BY <1>1 DEF HoldsResult
  <2>4. /\ loaded'["elf"] = loaded["elf"] + (IF result = "ok" /\ loader = "elf" THEN 1 ELSE 0)
        /\ loaded'["binary"] = loaded["binary"] + (IF result = "ok" /\ loader = "binary" THEN 1 ELSE 0)
        /\ loader = "elf" \/ loader = "binary"
    BY <1>11, <2>1 DEF Format
  <2>5. HoldsMemory' /\ inUse'["program"] \in Nat /\ inUse'["elf_file"] \in Nat
    <3>1. CASE result = "ok"
      BY <1>1, <1>9, <1>10, <1>11, <1>13, <2>1, <2>3, <2>4, <3>1 DEF HoldsMemory
    <3>2. CASE result # "ok"
      BY <1>1, <1>9, <1>10, <1>11, <1>13, <2>1, <2>4, <3>2 DEF HoldsMemory
    <3> QED BY <3>1, <3>2
  <2>6. HoldsResult'
    BY <2>1 DEF HoldsResult
  <2> QED
    <3>1. \A k \in Kind : k \in FileKind \/ k \in {"path_root", "elf_file", "program"}
      BY DEF FileKind
    <3>2. \A k \in Kind : inUse'[k] \in Nat
      BY <1>6, <1>9, <1>11, <2>5, <3>1
    <3>3. inUse' \in [Kind -> Nat]
      BY <1>4, <3>2
    <3>4. LoaderTypeOK'
      BY <1>3, <2>1, <2>2, <3>3, <1>13
    <3> QED BY <1>8, <2>5, <2>6, <3>4
<1> QED BY <1>12, <1>13

\* process_free_program_data gives back what the loader left to the program.
LEMMA UnloadKeeps == ASSUME LoaderInv, NEW f \in Format, Unload(f) PROVE LoaderInv'
<1> USE DEF LoaderInv, LoaderTypeOK, Unload, At, tables, locals
<1>1. /\ inUse["program"] \in Nat /\ inUse["elf_file"] \in Nat
      /\ loaded["elf"] \in Nat /\ loaded["binary"] \in Nat /\ pc = "idle" /\ pc' = "idle" /\ ~memory
      /\ f = "elf" \/ f = "binary"
  BY DEF Kind, Format, HoldsMemory
<1>2. inUse' = [k \in Kind |-> inUse[k] - (IF k \in process_free_program_data(f) THEN 1 ELSE 0)]
  BY DEF kfree
<1>3. /\ inUse'["program"] = inUse["program"] - 1
      /\ inUse'["elf_file"] = inUse["elf_file"] - (IF f = "elf" THEN 1 ELSE 0)
      /\ \A k \in Kind \ {"program", "elf_file"} : inUse'[k] = inUse[k]
  BY <1>2 DEF Kind, process_free_program_data
<1>4. /\ loaded'["elf"] = loaded["elf"] - (IF f = "elf" THEN 1 ELSE 0)
      /\ loaded'["binary"] = loaded["binary"] - (IF f = "binary" THEN 1 ELSE 0)
      /\ loaded[f] > 0
  BY <1>1 DEF Format
<1>5. HoldsMemory' /\ inUse'["program"] \in Nat /\ inUse'["elf_file"] \in Nat
  BY <1>1, <1>3, <1>4 DEF HoldsMemory
<1>6. HoldsFile'
  BY <1>1, <1>3 DEF HoldsFile, FileKind, Opened
<1>7. HoldsResult'
  BY <1>1 DEF HoldsResult
<1>8. LoaderTypeOK'
  <2>1. \A k \in Kind : inUse'[k] \in Nat
    BY <1>3, <1>5
  <2>2. inUse' \in [Kind -> Nat]
    BY <1>2, <2>1
  <2>3. loaded' \in [Format -> Nat]
    BY <1>1, <1>4
  <2> QED BY <2>2, <2>3
<1> QED BY <1>5, <1>6, <1>7, <1>8

\* Nothing is open and nothing is allocated before the first load.
LEMMA LoaderStarts == Init => LoaderInv
<1> SUFFICES ASSUME Init PROVE LoaderInv
  OBVIOUS
<1> USE DEF Init
<1>1. inUse \in [Kind -> Nat] /\ loaded \in [Format -> Nat]
  OBVIOUS
<1>2. LoaderTypeOK
  BY <1>1 DEF LoaderTypeOK, Format
<1>3. HoldsFile
  BY DEF HoldsFile, Opened, FileKind
<1>4. HoldsMemory
  BY DEF HoldsMemory, Kind, Format
<1>5. HoldsResult
  BY DEF HoldsResult
<1> QED BY <1>2, <1>3, <1>4, <1>5 DEF LoaderInv

\* Every step of the loader keeps the account of what it holds.
LEMMA LoaderStepsKeep == ASSUME LoaderInv, [Next]_vars PROVE LoaderInv'
<1>1. CASE UNCHANGED vars
  BY <1>1 DEF LoaderInv, LoaderTypeOK, HoldsFile, HoldsMemory, HoldsResult, OpenFile, Content,
              Item, vars, locals, tables
<1>2. CASE OpenFails \/ OpenWithoutMemory \/ OutStale
  BY <1>2, UndefinedKeeps DEF OpenFails, OpenWithoutMemory, OutStale
<1> QED BY <1>1, <1>2, LoadKeeps, OpenKeeps, OpenWithoutPathKeeps, StatKeeps,
           StatWithoutMemoryKeeps, ReadKeeps, OutKeeps, UnloadKeeps DEF Next, Stopped

\* elf_load, process_load_binary: what FilesClosed and ProgramsAccounted say of the
\* kernel between two loads is what the load's own account comes to when it has ended.
LEMMA LoaderInvGives == LoaderInv => LoaderTypeOK /\ FilesClosed /\ ProgramsAccounted
  BY DEF LoaderInv, HoldsFile, HoldsMemory, FilesClosed, ProgramsAccounted, Opened, FileKind,
         LoaderTypeOK, Kind, Format

------------------------------------------------------------------------------
(* The shell *)

\* fopen looks its path up when nothing is open: the file it finds is one that a
\* name can stand for.
LEMMA ParsePathKeeps == ASSUME LoaderInv, ParsePath PROVE LoaderInv'
<1>1. file' \in Files
  BY ShellAssumption DEF ParsePath, FileOf
<1>2. pc = "fopen" /\ pc' = "fopen"
  BY DEF ParsePath, At
<1> QED BY <1>1, <1>2 DEF LoaderInv, LoaderTypeOK, HoldsFile, HoldsMemory, HoldsResult, Opened,
                      ParsePath, tables, At

\* The shell's steps are steps of the loader, of fopen's lookup, or none of the kernel.
LEMMA ShellStepsKeep == ASSUME LoaderInv, [ShellNext]_allvars PROVE LoaderInv'
<1>1. CASE ParsePath
  BY <1>1, ParsePathKeeps
<1>2. CASE Call
  <2>1. FileOf(pathparser_parse(path, MaxLine)) \in Files
    BY ShellAssumption DEF FileOf
  <2> QED BY <1>2, <2>1, LoadKeeps DEF Call
<1>3. CASE LoaderStep
  BY <1>3, LoaderStepsKeep DEF LoaderStep, Opening, Loading, Next
<1>4. CASE ProgramEnds
  BY <1>4, LoaderStepsKeep DEF ProgramEnds, Next
<1>5. CASE UNCHANGED vars
  BY <1>5, LoaderStepsKeep
<1>6. CASE ~ParsePath /\ ~Call /\ ~LoaderStep /\ ~ProgramEnds
  BY <1>5, <1>6 DEF ShellNext, Prompt, Enter, LineFull, LineEnds, OtherPrints, Type, Parse,
                    CallFails, Return, ShellStopped, allvars
<1> QED BY <1>1, <1>2, <1>3, <1>4, <1>6

\* What a load holds at each of its calls, for any files, failures and any order of
\* lines, loads and ends of programs.
THEOREM LoaderInvariant == ShellSpec => []LoaderInv
<1>1. ShellInit => LoaderInv
  BY LoaderStarts DEF ShellInit
<1>2. LoaderInv /\ [ShellNext]_allvars => LoaderInv'
  BY ShellStepsKeep
<1> QED BY <1>1, <1>2, PTL DEF ShellSpec

\* The types, and that no structure is given back more often than it was allocated.
THEOREM LoaderTypes == ShellSpec => []LoaderTypeOK
  BY LoaderInvariant, LoaderInvGives, PTL

\* elf_load, process_load_binary, fopen, fclose: whichever way a load ends, the file
\* it opened is closed and nothing of it stays in the heap or the descriptor table.
THEOREM LoadsCloseTheirFile == ShellSpec => []FilesClosed
  BY LoaderInvariant, LoaderInvGives, PTL

\* process_load_data, process_free_program_data: the memory of files in use is that of
\* the programs loaded, one each.
THEOREM LoadsAreAccounted == ShellSpec => []ProgramsAccounted
  BY LoaderInvariant, LoaderInvGives, PTL

\* The same of the loader by itself, with any file at any load.
THEOREM LoaderKeepsAccount == Spec => [](FilesClosed /\ ProgramsAccounted)
<1>1. LoaderInv /\ [Next]_vars => LoaderInv'
  BY LoaderStepsKeep
<1> QED BY <1>1, LoaderStarts, LoaderInvGives, PTL DEF Spec

------------------------------------------------------------------------------
(* The screen *)

LEMMA ScreenAssumptions ==
  /\ VGA_WIDTH \in Nat /\ VGA_WIDTH >= 2 /\ VGA_WIDTH <= 65535
  /\ VGA_HEIGHT \in Nat /\ VGA_HEIGHT >= 1 /\ VGA_HEIGHT <= 65535
  /\ MaxLine \in Nat /\ MaxLine >= 2 /\ LF \notin Char
  BY TerminalAssumption, ShellAssumption

\* The numbers of 16 bits.
Word == {n \in Nat : n < 65536}

\* A number below 2^16 is kept as it is.
LEMMA Kept16 == \A n \in Word : uint16(n) = n
  BY DEF uint16, Word

LEMMA Is16 == \A n \in Int : uint16(n) \in Word
  BY DEF uint16, Word

\* Rows follow each other, and a row on the screen ends on it.
LEMMA Rows ==
  /\ \A r, w \in Nat : (r + 1) * w = r * w + w
  /\ \A r, w, h \in Nat : r < h => r * w + w <= h * w
  /\ \A r, w \in Nat : r * w \in Nat
<1>1. \A r, w \in Nat : (r + 1) * w = r * w + w /\ r * w \in Nat
  OBVIOUS
<1>2. ASSUME NEW r \in Nat, NEW w \in Nat, NEW h \in Nat, r < h PROVE r * w + w <= h * w
  <2>1. PICK d \in Nat : h = (r + 1) + d
    <3>1. h - (r + 1) \in Nat /\ h = (r + 1) + (h - (r + 1))
      BY <1>2
    <3> QED BY <3>1
  <2>2. ((r + 1) + d) * w = (r + 1) * w + d * w /\ d * w \in Nat /\ (r + 1) * w = r * w + w
    OBVIOUS
  <2>3. r * w \in Nat
    OBVIOUS
  <2> QED BY <2>1, <2>2, <2>3
<1> QED BY <1>1, <1>2

\* The second cell of a row.
LEMMA SecondCell == \A r, w \in Nat : w > 1 => (r * w + 1) % w = 1
<1> SUFFICES ASSUME NEW r \in Nat, NEW w \in Nat, w > 1 PROVE (r * w + 1) % w = 1
  OBVIOUS
<1> DEFINE a == r * w + 1
           q == a \div w
<1>1. a \in Int /\ r * w = w * r
  OBVIOUS
<1> HIDE DEF a
<1>2. q \in Int /\ a % w \in 0..(w-1) /\ a = w * q + (a % w)
  BY <1>1
<1> HIDE DEF q
<1>3. w * (q - r) = 1 - (a % w)
  <2>1. w * (q - r) = w * q - w * r
    BY <1>2
  <2>2. w * q \in Int /\ w * r \in Int
    BY <1>2
  <2> QED BY <1>1, <1>2, <2>1, <2>2 DEF a
<1>4. ~(q - r >= 1)
  <2> SUFFICES ASSUME q - r >= 1 PROVE FALSE
    OBVIOUS
  <2>1. w * (q - r) >= w
    BY <1>2
  <2> QED BY <1>2, <1>3, <2>1
<1>5. ~(r - q >= 1)
  <2> SUFFICES ASSUME r - q >= 1 PROVE FALSE
    OBVIOUS
  <2>1. w * (r - q) >= w
    BY <1>2
  <2>2. w * (r - q) = -(w * (q - r))
    BY <1>2
  <2> QED BY <1>2, <1>3, <2>1, <2>2
<1>6. q - r = 0 /\ w * 0 = 0
  BY <1>2, <1>4, <1>5
<1> QED BY <1>2, <1>3, <1>6 DEF a

\* A string of one character is printed by one call of terminal_writechar.
LEMMA PrintOne == \A t, c : print(t, <<c>>) = terminal_writechar(t, c)
<1> SUFFICES ASSUME NEW t, NEW c PROVE print(t, <<c>>) = terminal_writechar(t, c)
  OBVIOUS
<1> DEFINE iter == CHOOSE f : f = [s \in SUBSET {1} |->
                     IF s = {} THEN t
                     ELSE terminal_writechar(f[s \ {Max(s)}], <<c>>[Max(s)])]
           w == [s \in SUBSET {1} |-> IF s = {} THEN t ELSE terminal_writechar(t, c)]
<1>1. DOMAIN <<c>> = {1} /\ <<c>>[1] = c
  OBVIOUS
<1>2. print(t, <<c>>) = iter[{1}]
  BY <1>1, Zenon DEF print, FoldLeft, MapThenFoldSet
<1>3. Max({1}) = 1
  BY DEF Max
<1>4. w = [s \in SUBSET {1} |->
             IF s = {} THEN t ELSE terminal_writechar(w[s \ {Max(s)}], <<c>>[Max(s)])]
  <2>1. \A s \in SUBSET {1} : s = {} \/ s = {1}
    OBVIOUS
  <2>2. w[{}] = t /\ {1} \ {1} = {}
    OBVIOUS
  <2> DEFINE v == [s \in SUBSET {1} |->
                     IF s = {} THEN t ELSE terminal_writechar(w[s \ {Max(s)}], <<c>>[Max(s)])]
  <2>3. w[{1}] = terminal_writechar(t, c) /\ v[{}] = t
    OBVIOUS
  <2>4. v[{1}] = terminal_writechar(w[{1} \ {Max({1})}], <<c>>[Max({1})])
    <3> HIDE DEF w
    <3> QED OBVIOUS
  <2>5. v[{1}] = terminal_writechar(t, c)
    <3> HIDE DEF v, w
    <3> QED BY <1>1, <1>3, <2>2, <2>4
  <2>6. w = [s \in SUBSET {1} |-> w[s]] /\ v = [s \in SUBSET {1} |-> v[s]]
    OBVIOUS
  <2> HIDE DEF w, v
  <2>7. \A s \in SUBSET {1} : w[s] = v[s]
    BY <2>1, <2>2, <2>3, <2>5
  <2>8. w = v
    BY <2>6, <2>7
  <2> QED BY <2>8 DEF v
<1>5. iter = [s \in SUBSET {1} |->
                IF s = {} THEN t ELSE terminal_writechar(iter[s \ {Max(s)}], <<c>>[Max(s)])]
  <2> HIDE DEF w
  <2> QED BY <1>4
<1>6. iter[{}] = t /\ iter[{1}] = terminal_writechar(iter[{1} \ {1}], c)
  <2> HIDE DEF iter
  <2> QED BY <1>1, <1>3, <1>5
<1>7. {1} \ {1} = {}
  OBVIOUS
<1> QED BY <1>2, <1>6, <1>7

\* A terminal is a cursor of two 16-bit numbers and cells.
IsTerminal(t) ==
  /\ DOMAIN t = {"row", "col", "cells"}
  /\ t.row \in Word /\ t.col \in Word

\* A new line begins at the left margin.
LEMMA NewLineIs ==
  ASSUME NEW t, IsTerminal(t)
  PROVE  /\ IsTerminal(NewLine(t))
         /\ NewLine(t).row = uint16(t.row + 1)
         /\ NewLine(t).col = 0
         /\ NewLine(t).cells = t.cells
<1>1. uint16(t.row + 1) \in Word /\ 0 \in Word
  BY Is16 DEF IsTerminal, Word
<1> QED BY <1>1 DEF NewLine, IsTerminal

\* Setting the column moves the cursor within its row.
LEMMA ColumnIs ==
  ASSUME NEW t, IsTerminal(t), NEW k \in Word
  PROVE  /\ IsTerminal([t EXCEPT !.col = k])
         /\ [t EXCEPT !.col = k].row = t.row
         /\ [t EXCEPT !.col = k].col = k
         /\ [t EXCEPT !.col = k].cells = t.cells
  BY DEF IsTerminal

\* A cell is written where the cursor is, when that is on the screen.
LEMMA PutIs ==
  ASSUME NEW t, IsTerminal(t), NEW c
  PROVE  /\ IsTerminal(terminal_putchar(t, c))
         /\ terminal_putchar(t, c).row = t.row
         /\ terminal_putchar(t, c).col = t.col
         /\ Cursor(t) < VGA_WIDTH * VGA_HEIGHT =>
              terminal_putchar(t, c).cells = CellsWith(t.cells, Cursor(t), c)
<1> DEFINE z == CellsWith(t.cells, Cursor(t), c)
<1>1. terminal_putchar(t, c) = IF Cursor(t) < VGA_WIDTH * VGA_HEIGHT
                               THEN [t EXCEPT !.cells = z] ELSE t
  BY DEF terminal_putchar
<1> HIDE DEF z
<1>2. /\ IsTerminal([t EXCEPT !.cells = z])
      /\ [t EXCEPT !.cells = z].row = t.row
      /\ [t EXCEPT !.cells = z].col = t.col
      /\ [t EXCEPT !.cells = z].cells = z
  BY DEF IsTerminal
<1>3. CASE Cursor(t) < VGA_WIDTH * VGA_HEIGHT
  <2>1. terminal_putchar(t, c) = [t EXCEPT !.cells = z]
    BY <1>1, <1>3
  <2> QED BY <1>2, <2>1 DEF z
<1>4. CASE ~(Cursor(t) < VGA_WIDTH * VGA_HEIGHT)
  <2>1. terminal_putchar(t, c) = t
    BY <1>1, <1>4
  <2> QED BY <1>4, <2>1
<1> QED BY <1>3, <1>4

\* A character is put and the column goes on by one, behind the last one to a new line.
LEMMA WrittenIs ==
  ASSUME NEW t, IsTerminal(t), NEW c
  PROVE  LET next == [terminal_putchar(t, c) EXCEPT !.col = uint16(t.col + 1)]
         IN /\ IsTerminal(next)
            /\ next.row = t.row /\ next.col = uint16(t.col + 1)
            /\ next.cells = terminal_putchar(t, c).cells
            /\ Written(t, c) = IF next.col >= VGA_WIDTH THEN NewLine(next) ELSE next
            /\ IsTerminal(Written(t, c))
<1> DEFINE put == terminal_putchar(t, c)
           next == [put EXCEPT !.col = uint16(t.col + 1)]
<1>1. IsTerminal(put) /\ put.row = t.row /\ put.col = t.col
  BY PutIs
<1>2. Written(t, c) = IF next.col >= VGA_WIDTH THEN NewLine(next) ELSE next
  BY <1>1 DEF Written
<1>3. uint16(t.col + 1) \in Word
  BY Is16 DEF IsTerminal, Word
<1> HIDE DEF put
<1>4. /\ IsTerminal(next) /\ next.row = put.row /\ next.col = uint16(t.col + 1)
      /\ next.cells = put.cells
  BY <1>1, <1>3, ColumnIs
<1> HIDE DEF next
<1>5. IsTerminal(Written(t, c))
  BY <1>2, <1>4, NewLineIs
<1> QED BY <1>1, <1>2, <1>4, <1>5 DEF next, put

\* Where a backspace steps back to, before it writes the blank.
Back(t) == IF t.col = 0
           THEN [t EXCEPT !.row = uint16(@ - 1), !.col = VGA_WIDTH - 1]
           ELSE [t EXCEPT !.col = @ - 1]

LEMMA BackIs ==
  ASSUME NEW t, IsTerminal(t)
  PROVE  /\ IsTerminal(Back(t)) /\ Back(t).cells = t.cells
         /\ t.col # 0 => Back(t).row = t.row /\ Back(t).col = t.col - 1
<1>1. uint16(t.row - 1) \in Word /\ VGA_WIDTH - 1 \in Word
  BY Is16, ScreenAssumptions DEF IsTerminal, Word
<1>2. CASE t.col = 0
  BY <1>1, <1>2 DEF Back, IsTerminal
<1>3. CASE t.col # 0
  <2>1. t.col - 1 \in Word
    BY <1>3 DEF IsTerminal, Word
  <2>2. Back(t) = [t EXCEPT !.col = t.col - 1]
    BY <1>3 DEF Back
  <2> QED BY <1>3, <2>1, <2>2, ColumnIs
<1> QED BY <1>2, <1>3

\* terminal_backspace: the blank is written there, and the cursor steps back over it.
LEMMA BackspaceIs ==
  ASSUME NEW t, IsTerminal(t), ~(t.row = 0 /\ t.col = 0)
  PROVE  LET blank == Written(Back(t), " ")
         IN /\ IsTerminal(terminal_backspace(t))
            /\ terminal_backspace(t).row = blank.row
            /\ terminal_backspace(t).col = uint16(blank.col - 1)
            /\ terminal_backspace(t).cells = blank.cells
<1> DEFINE blank == Written(Back(t), " ")
<1>1. IsTerminal(blank)
  BY BackIs, WrittenIs
<1>2. terminal_backspace(t) = [blank EXCEPT !.col = uint16(blank.col - 1)]
  BY DEF terminal_backspace, Back
<1> HIDE DEF blank
<1>3. uint16(blank.col - 1) \in Word
  BY <1>1, Is16 DEF IsTerminal, Word
<1>4. /\ IsTerminal(terminal_backspace(t))
      /\ terminal_backspace(t).row = blank.row
      /\ terminal_backspace(t).col = uint16(blank.col - 1)
      /\ terminal_backspace(t).cells = blank.cells
  BY <1>1, <1>2, <1>3, ColumnIs
<1> QED BY <1>4 DEF blank

\* Every call of terminal_writechar leaves a terminal, wherever the cursor was.
LEMMA WritecharIs ==
  ASSUME NEW t, IsTerminal(t), NEW c
  PROVE  IsTerminal(terminal_writechar(t, c))
<1>1. CASE c = LF
  <2>1. terminal_writechar(t, c) = NewLine(t)
    BY <1>1 DEF terminal_writechar, LF, BS
  <2> QED BY <2>1, NewLineIs
<1>2. CASE c = BS
  <2>1. terminal_writechar(t, c) = terminal_backspace(t)
    BY <1>2 DEF terminal_writechar, BS, LF
  <2>2. CASE t.row = 0 /\ t.col = 0
    BY <2>1, <2>2 DEF terminal_backspace
  <2>3. CASE ~(t.row = 0 /\ t.col = 0)
    BY <2>1, <2>3, BackspaceIs
  <2> QED BY <2>2, <2>3
<1>3. CASE c # BS /\ c # LF
  <2>1. terminal_writechar(t, c) = Written(t, c)
    BY <1>3 DEF terminal_writechar
  <2> QED BY <2>1, WrittenIs
<1> QED BY <1>1, <1>2, <1>3

\* The cursor is in a row of the screen.
InRow(t) == IsTerminal(t) /\ t.row < VGA_HEIGHT /\ t.col < VGA_WIDTH

\* What the position of a cursor in a row comes to.
LEMMA CursorIs ==
  ASSUME NEW t, InRow(t)
  PROVE  /\ t.row \in Nat /\ t.col \in Nat /\ t.row * VGA_WIDTH \in Nat
         /\ Cursor(t) = t.row * VGA_WIDTH + t.col
         /\ Cursor(t) < VGA_WIDTH * VGA_HEIGHT
         /\ (t.row + 1) * VGA_WIDTH = t.row * VGA_WIDTH + VGA_WIDTH
<1> DEFINE r == t.row
<1>1. r \in Nat /\ t.col \in Nat /\ r < VGA_HEIGHT /\ t.col < VGA_WIDTH
  BY DEF InRow, IsTerminal, Word
<1>2. Cursor(t) = r * VGA_WIDTH + t.col
  BY DEF Cursor
<1> HIDE DEF r
<1>3. /\ r * VGA_WIDTH \in Nat /\ r * VGA_WIDTH + VGA_WIDTH <= VGA_HEIGHT * VGA_WIDTH
      /\ (r + 1) * VGA_WIDTH = r * VGA_WIDTH + VGA_WIDTH
  BY <1>1, ScreenAssumptions, Rows
<1>4. VGA_WIDTH * VGA_HEIGHT = VGA_HEIGHT * VGA_WIDTH /\ VGA_HEIGHT * VGA_WIDTH \in Nat
  BY ScreenAssumptions
<1> DEFINE x == r * VGA_WIDTH
           y == VGA_HEIGHT * VGA_WIDTH
<1>5. x \in Nat /\ y \in Nat /\ x + VGA_WIDTH <= y /\ VGA_WIDTH * VGA_HEIGHT = y
  BY <1>3, <1>4
<1> HIDE DEF x, y
<1>6. x + t.col < y
  BY <1>1, <1>5, ScreenAssumptions
<1> QED BY <1>1, <1>2, <1>3, <1>5, <1>6 DEF r, x

\* terminal_writechar on the screen: the character is written at the cursor, and the
\* cursor moves on by one position, over the end of a row too.
LEMMA WrittenInside ==
  ASSUME NEW t, InRow(t), NEW c
  PROVE  /\ Cursor(Written(t, c)) = Cursor(t) + 1
         /\ Written(t, c).col < VGA_WIDTH
         /\ Written(t, c).cells = CellsWith(t.cells, Cursor(t), c)
         /\ t.col + 1 < VGA_WIDTH => /\ Written(t, c).row = t.row
                                     /\ Written(t, c).col = t.col + 1
<1> DEFINE next == [terminal_putchar(t, c) EXCEPT !.col = uint16(t.col + 1)]
           w == Written(t, c)
<1>1. /\ IsTerminal(next) /\ next.row = t.row /\ next.col = uint16(t.col + 1)
      /\ next.cells = terminal_putchar(t, c).cells
      /\ w = IF next.col >= VGA_WIDTH THEN NewLine(next) ELSE next
  BY WrittenIs DEF InRow
<1>2. /\ t.row \in Nat /\ t.col \in Nat /\ t.row * VGA_WIDTH \in Nat
      /\ Cursor(t) = t.row * VGA_WIDTH + t.col
      /\ Cursor(t) < VGA_WIDTH * VGA_HEIGHT
      /\ (t.row + 1) * VGA_WIDTH = t.row * VGA_WIDTH + VGA_WIDTH
      /\ t.row < VGA_HEIGHT /\ t.col < VGA_WIDTH
  BY CursorIs DEF InRow
<1>3. terminal_putchar(t, c).cells = CellsWith(t.cells, Cursor(t), c)
  BY <1>2, PutIs DEF InRow
<1>4. uint16(t.col + 1) = t.col + 1 /\ uint16(t.row + 1) = t.row + 1
  <2>1. t.col + 1 \in Word /\ t.row + 1 \in Word
    BY <1>2, ScreenAssumptions DEF Word
  <2> QED BY <2>1, Kept16
<1> HIDE DEF next, w
<1>5. CASE t.col + 1 >= VGA_WIDTH
  <2>1. w = NewLine(next)
    BY <1>1, <1>4, <1>5
  <2>2. w.row = t.row + 1 /\ w.col = 0 /\ w.cells = CellsWith(t.cells, Cursor(t), c)
    BY <1>1, <1>3, <1>4, <2>1, NewLineIs
  <2>3. t.col + 1 = VGA_WIDTH
    BY <1>2, <1>5, ScreenAssumptions
  <2>4. Cursor(w) = (t.row + 1) * VGA_WIDTH
    <3>1. Cursor(w) = (t.row + 1) * VGA_WIDTH + 0
      BY <2>2 DEF Cursor
    <3> QED BY <1>2, <3>1, ScreenAssumptions
  <2>5. Cursor(w) = Cursor(t) + 1
    BY <1>2, <2>3, <2>4
  <2>6. ~(t.col + 1 < VGA_WIDTH)
    BY <2>3, ScreenAssumptions
  <2> QED BY <2>2, <2>5, <2>6, ScreenAssumptions DEF w
<1>6. CASE t.col + 1 < VGA_WIDTH
  <2>1. w = next
    BY <1>1, <1>2, <1>4, <1>6, ScreenAssumptions
  <2>2. w.row = t.row /\ w.col = t.col + 1 /\ w.cells = CellsWith(t.cells, Cursor(t), c)
    BY <1>1, <1>3, <1>4, <2>1
  <2>3. Cursor(w) = t.row * VGA_WIDTH + (t.col + 1)
    BY <2>2 DEF Cursor
  <2>4. Cursor(w) = Cursor(t) + 1
    BY <1>2, <2>3
  <2> QED BY <1>6, <2>2, <2>4 DEF w
<1> QED BY <1>2, <1>5, <1>6, ScreenAssumptions

\* A backspace away from the left margin writes a blank over the last character and
\* leaves the cursor on it.
LEMMA BackspaceInside ==
  ASSUME NEW t, InRow(t), t.col # 0
  PROVE  /\ Cursor(terminal_backspace(t)) = Cursor(t) - 1
         /\ terminal_backspace(t).col < VGA_WIDTH
         /\ terminal_backspace(t).cells = CellsWith(t.cells, Cursor(t) - 1, " ")
<1> DEFINE back == Back(t)
           blank == Written(back, " ")
           after == terminal_backspace(t)
<1>1. /\ t.row \in Nat /\ t.col \in Nat /\ t.row * VGA_WIDTH \in Nat /\ t.col < VGA_WIDTH
      /\ Cursor(t) = t.row * VGA_WIDTH + t.col
  BY CursorIs DEF InRow
<1>2. IsTerminal(back) /\ back.cells = t.cells /\ back.row = t.row /\ back.col = t.col - 1
  BY BackIs DEF InRow
<1>3. /\ after.row = blank.row /\ after.col = uint16(blank.col - 1)
      /\ after.cells = blank.cells
  BY BackspaceIs DEF InRow
<1> HIDE DEF after
<1>4. InRow(back) /\ back.col + 1 < VGA_WIDTH
  BY <1>1, <1>2, ScreenAssumptions DEF InRow
<1>5. /\ blank.row = back.row /\ blank.col = back.col + 1
      /\ blank.cells = CellsWith(back.cells, Cursor(back), " ")
  BY <1>4, WrittenInside
<1> HIDE DEF back, blank
<1>6. Cursor(back) = Cursor(t) - 1
  <2>1. Cursor(back) = t.row * VGA_WIDTH + (t.col - 1)
    BY <1>2 DEF Cursor
  <2> QED BY <1>1, <2>1
<1>7. after.row = t.row /\ after.col = t.col - 1
  <2>1. t.col - 1 \in Word /\ blank.col - 1 = t.col - 1
    <3>1. blank.col = (t.col - 1) + 1
      BY <1>2, <1>5
    <3>2. t.col - 1 \in Nat /\ t.col - 1 < 65536
      BY <1>1, ScreenAssumptions
    <3>3. blank.col - 1 = t.col - 1
      BY <1>1, <3>1
    <3> QED BY <3>2, <3>3 DEF Word
  <2>2. uint16(blank.col - 1) = t.col - 1
    BY <2>1, Kept16
  <2> QED BY <1>2, <1>3, <1>5, <2>2
<1>8. Cursor(after) = Cursor(t) - 1
  <2>1. Cursor(after) = t.row * VGA_WIDTH + (t.col - 1)
    BY <1>7 DEF Cursor
  <2> QED BY <1>1, <2>1
<1>9. after.col < VGA_WIDTH
  BY <1>1, <1>7, ScreenAssumptions
<1>10. after.cells = CellsWith(t.cells, Cursor(t) - 1, " ")
  BY <1>2, <1>3, <1>5, <1>6
<1> QED BY <1>8, <1>9, <1>10 DEF after

------------------------------------------------------------------------------
(* The line and its echo *)

\* What stands at a position behind the margin: the prompt, then the line.
Shown(i) == IF i = 0 THEN ">" ELSE out[i]

\* Where the line begins on the screen.
Typed == Cursor(terminal) - Len(out)

\* The screen shows the line from a second cell of a row on, and the cursor is behind it.
Echoed ==
  /\ Typed \in Nat /\ Typed >= 1 /\ Typed % VGA_WIDTH = 1
  /\ terminal.col < VGA_WIDTH
  /\ \A i \in 0..Len(out) : /\ Typed + i - 1 \in DOMAIN terminal.cells
                            /\ terminal.cells[Typed + i - 1] = Shown(i)

\* The line holds what was typed; the shell prompts at the left margin.
EchoInv ==
  /\ IsTerminal(terminal)
  /\ clean \in BOOLEAN
  /\ out \in Seq(Char \cup {BS})
  /\ sh = "prompt" => terminal.col = 0
  /\ sh = "readline" /\ clean => Echoed

\* One cell changes.
LEMMA CellsAre ==
  \A z, p, c, y : y = CellsWith(z, p, c) =>
     /\ p \in DOMAIN y /\ y[p] = c
     /\ \A q \in DOMAIN z : q # p => q \in DOMAIN y /\ y[q] = z[q]
  BY DEF CellsWith

\* A character of the line that is typed appears behind it.
LEMMA EchoedCharacter ==
  ASSUME EchoInv, Echoed, NEW key \in Char \cup {BS}, terminal.row < VGA_HEIGHT,
         out' = Append(out, key), terminal' = Written(terminal, key)
  PROVE  Echoed'
<1> DEFINE t == terminal
           n == Len(out)
<1>1. InRow(t)
  BY DEF InRow, EchoInv, Echoed
<1>2. /\ Cursor(t)' = Cursor(t) + 1 /\ t'.col < VGA_WIDTH
      /\ t'.cells = CellsWith(t.cells, Cursor(t), key)
  BY <1>1, WrittenInside DEF Cursor
<1>3. n \in Nat /\ Len(out') = n + 1 /\ out'[n + 1] = key /\ \A i \in 1..n : out'[i] = out[i]
  BY DEF EchoInv
<1>4. Cursor(t) \in Int /\ Typed \in Nat
  BY <1>1, CursorIs DEF Echoed
<1>5. Typed' = Typed /\ Cursor(t) = Typed + n
  BY <1>2, <1>3, <1>4 DEF Typed
<1> DEFINE before == terminal.cells
           after == terminal'.cells
<1>9. after = CellsWith(before, Cursor(t), key)
  BY <1>2
<1> HIDE DEF before, after
<1>6. ASSUME NEW i \in 0..n + 1
      PROVE  Typed + i - 1 \in DOMAIN after /\ after[Typed + i - 1] = Shown(i)'
  <2>1. CASE i = n + 1
    <3>1. Typed + i - 1 = Cursor(t) /\ i # 0
      BY <1>3, <1>4, <1>5, <2>1
    <3>2. Shown(i)' = key
      BY <1>3, <2>1, <3>1 DEF Shown
    <3>3. Cursor(t) \in DOMAIN after /\ after[Cursor(t)] = key
      BY <1>9, CellsAre
    <3> QED BY <3>1, <3>2, <3>3
  <2>2. CASE i # n + 1
    <3>1. i \in 0..n /\ Typed + i - 1 # Cursor(t)
      BY <1>3, <1>4, <1>5, <2>2
    <3>2. Typed + i - 1 \in DOMAIN before /\ before[Typed + i - 1] = Shown(i)
      BY <3>1 DEF Echoed, before
    <3>3. Shown(i)' = Shown(i)
      BY <1>3, <3>1 DEF Shown
    <3>4. \A q \in DOMAIN before : q # Cursor(t) => q \in DOMAIN after /\ after[q] = before[q]
      BY <1>9, CellsAre
    <3> QED BY <3>1, <3>2, <3>3, <3>4
  <2> QED BY <2>1, <2>2
<1>7. Typed % VGA_WIDTH = 1 /\ Typed >= 1
  BY DEF Echoed
<1>8. \A i \in 0..Len(out') :
        /\ Typed' + i - 1 \in DOMAIN terminal'.cells
        /\ terminal'.cells[Typed' + i - 1] = Shown(i)'
  BY <1>3, <1>5, <1>6 DEF after
<1> QED BY <1>2, <1>4, <1>5, <1>7, <1>8 DEF Echoed

\* A backspace within a row takes the last character off line and screen.
LEMMA EchoedBackspace ==
  ASSUME EchoInv, Echoed, terminal.row < VGA_HEIGHT, out # <<>>, terminal.col # 0,
         out' = Front(out), terminal' = terminal_backspace(terminal)
  PROVE  Echoed'
<1> DEFINE t == terminal
           n == Len(out)
<1>1. InRow(t)
  BY DEF InRow, EchoInv, Echoed
<1>2. /\ Cursor(t)' = Cursor(t) - 1 /\ t'.col < VGA_WIDTH
      /\ t'.cells = CellsWith(t.cells, Cursor(t) - 1, " ")
  BY <1>1, BackspaceInside DEF Cursor
<1>3. n \in Nat /\ n >= 1 /\ Len(out') = n - 1 /\ \A i \in 1..n - 1 : out'[i] = out[i]
  <2>1. out \in Seq(Char \cup {BS}) /\ out' = SubSeq(out, 1, Len(out) - 1) /\ out # <<>>
    BY DEF EchoInv, Front
  <2> DEFINE S == Char \cup {BS}
  <2> HIDE DEF S
  <2>2. out \in Seq(S)
    BY <2>1 DEF S
  <2>3. n \in Nat /\ n >= 1
    BY <2>1, <2>2
  <2>4. \A i \in 1..n - 1 : out[i] \in S
    BY <2>2, <2>3
  <2>5. /\ Len(SubSeq(out, 1, n - 1)) = IF 1 <= n - 1 THEN (n - 1) - 1 + 1 ELSE 0
        /\ \A i \in 1..(n - 1) - 1 + 1 : SubSeq(out, 1, n - 1)[i] = out[1 + i - 1]
    BY <2>3, <2>4, SubSeqProperties
  <2>6. Len(SubSeq(out, 1, n - 1)) = n - 1
    BY <2>3, <2>5
  <2>7. \A i \in 1..n - 1 : SubSeq(out, 1, n - 1)[i] = out[i]
    <3>1. \A i \in 1..n - 1 : i \in 1..(n - 1) - 1 + 1 /\ 1 + i - 1 = i
      BY <2>3
    <3> QED BY <2>5, <3>1
  <2> QED BY <2>1, <2>3, <2>6, <2>7
<1>4. Cursor(t) \in Int /\ Typed \in Nat
  BY <1>1, CursorIs DEF Echoed
<1>5. Typed' = Typed /\ Cursor(t) = Typed + n
  <2>1. Typed' = Cursor(t)' - Len(out') /\ Typed = Cursor(t) - n
    BY DEF Typed
  <2>2. Cursor(t)' = Cursor(t) - 1 /\ Len(out') = n - 1 /\ n \in Nat
    BY <1>2, <1>3
  <2> QED BY <1>4, <2>1, <2>2
<1> DEFINE before == terminal.cells
           after == terminal'.cells
<1>9. after = CellsWith(before, Cursor(t) - 1, " ")
  BY <1>2
<1> HIDE DEF before, after
<1>6. ASSUME NEW i \in 0..n - 1
      PROVE  Typed + i - 1 \in DOMAIN after /\ after[Typed + i - 1] = Shown(i)'
  <2>1. i \in 0..n /\ Typed + i - 1 # Cursor(t) - 1
    BY <1>3, <1>4, <1>5
  <2>2. Typed + i - 1 \in DOMAIN before /\ before[Typed + i - 1] = Shown(i)
    BY <2>1 DEF Echoed, before
  <2>3. Shown(i)' = Shown(i)
    BY <1>3 DEF Shown
  <2>4. \A q \in DOMAIN before : q # Cursor(t) - 1 => q \in DOMAIN after /\ after[q] = before[q]
    <3> DEFINE position == Cursor(t) - 1
               blank == " "
    <3>1. after = CellsWith(before, position, blank)
      BY <1>9
    <3> HIDE DEF position, blank
    <3>2. \A q \in DOMAIN before : q # position => q \in DOMAIN after /\ after[q] = before[q]
      BY <3>1, CellsAre
    <3> QED BY <3>2 DEF position
  <2> QED BY <2>1, <2>2, <2>3, <2>4
<1>7. Typed % VGA_WIDTH = 1 /\ Typed >= 1
  BY DEF Echoed
<1>8. \A i \in 0..Len(out') :
        /\ Typed' + i - 1 \in DOMAIN terminal'.cells
        /\ terminal'.cells[Typed' + i - 1] = Shown(i)'
  BY <1>3, <1>5, <1>6 DEF after
<1> QED BY <1>2, <1>4, <1>5, <1>7, <1>8 DEF Echoed

\* The prompt is printed at the left margin of a row.
LEMMA PromptEchoes == ASSUME EchoInv, Prompt PROVE EchoInv'
<1> DEFINE t == Forget(terminal)
<1>1. /\ sh = "prompt" /\ terminal.row < VGA_HEIGHT /\ out' = <<>> /\ clean' = TRUE
      /\ sh' = "readline" /\ terminal' = Written(t, ">")
  <2>1. terminal' = terminal_writechar(t, ">")
    BY PrintOne DEF Prompt
  <2>2. terminal_writechar(t, ">") = Written(t, ">")
    BY DEF terminal_writechar, LF, BS
  <2> QED BY <2>1, <2>2 DEF Prompt, OnScreen
<1>2. IsTerminal(t) /\ t.row = terminal.row /\ t.col = 0 /\ t.cells = <<>>
  <2>1. IsTerminal(terminal) /\ terminal.col = 0
    BY <1>1 DEF EchoInv
  <2> QED BY <2>1 DEF IsTerminal, Forget
<1> HIDE DEF t
<1>3. InRow(t) /\ t.col + 1 < VGA_WIDTH
  BY <1>1, <1>2, ScreenAssumptions DEF InRow
<1>4. /\ IsTerminal(terminal')
      /\ Cursor(Written(t, ">")) = Cursor(t) + 1
      /\ terminal'.cells = CellsWith(t.cells, Cursor(t), ">")
      /\ terminal'.col < VGA_WIDTH
      /\ Cursor(t) = t.row * VGA_WIDTH + t.col /\ t.row * VGA_WIDTH \in Nat /\ t.row \in Nat
  <2>1. IsTerminal(Written(t, ">"))
    BY <1>2, WrittenIs
  <2> QED BY <1>1, <1>2, <1>3, <2>1, WrittenInside, CursorIs
<1>5. Cursor(terminal)' = t.row * VGA_WIDTH + 1 /\ Cursor(t) = t.row * VGA_WIDTH
  <2>1. Cursor(terminal)' = Cursor(Written(t, ">"))
    BY <1>1 DEF Cursor
  <2> QED BY <1>2, <1>4, <2>1
<1>6. Len(out') = 0
  BY <1>1
<1>7. Typed' = t.row * VGA_WIDTH + 1
  BY <1>4, <1>5, <1>6 DEF Typed
<1>8. Typed' \in Nat /\ Typed' >= 1 /\ Typed' % VGA_WIDTH = 1
  BY <1>4, <1>7, SecondCell, ScreenAssumptions
<1>9. ASSUME NEW i \in 0..Len(out')
      PROVE  Typed' + i - 1 \in DOMAIN terminal'.cells /\ terminal'.cells[Typed' + i - 1] = Shown(i)'
  <2>1. i = 0 /\ Typed' + i - 1 = Cursor(t)
    BY <1>4, <1>5, <1>6, <1>7
  <2>2. Shown(i)' = ">"
    BY <2>1 DEF Shown
  <2>3. Cursor(t) \in DOMAIN terminal'.cells /\ terminal'.cells[Cursor(t)] = ">"
    <3> DEFINE after == terminal'.cells
               before == t.cells
    <3>1. after = CellsWith(before, Cursor(t), ">")
      BY <1>4
    <3> HIDE DEF after, before
    <3>2. Cursor(t) \in DOMAIN after /\ after[Cursor(t)] = ">"
      BY <3>1, CellsAre
    <3> QED BY <3>2 DEF after
  <2> QED BY <2>1, <2>2, <2>3
<1>10. Echoed'
  BY <1>4, <1>8, <1>9 DEF Echoed
<1>11. out' \in Seq(Char \cup {BS})
  BY <1>1
<1> QED BY <1>1, <1>4, <1>10, <1>11 DEF EchoInv

\* What is not kept of the screen is only its cells.
LEMMA ForgetIs ==
  ASSUME NEW t, IsTerminal(t)
  PROVE  IsTerminal(Forget(t)) /\ Forget(t).col = t.col
  BY DEF Forget, IsTerminal

\* The line stays one of characters that were typed.
LEMMA StoredIs ==
  ASSUME NEW S, out \in Seq(S), NEW key \in S
  PROVE  Stored(key) \in Seq(S)
<1>1. CASE key = BS /\ out # <<>>
  <2>1. Stored(key) = SubSeq(out, 1, Len(out) - 1)
    BY <1>1 DEF Stored, Front
  <2>2. \A i \in 1..Len(out) - 1 : out[i] \in S
    OBVIOUS
  <2>3. Len(out) - 1 \in Int
    OBVIOUS
  <2> QED BY <2>1, <2>2, <2>3, SubSeqProperties
<1>2. CASE ~(key = BS /\ out # <<>>)
  <2>1. Stored(key) = Append(out, key)
    BY <1>2 DEF Stored
  <2> QED BY <2>1
<1> QED BY <1>1, <1>2

\* simpos_terminal_readline: a key is stored and echoed.
LEMMA TypeEchoes ==
  ASSUME EchoInv, NEW key \in Char \cup {BS}, Type(key)
  PROVE  EchoInv'
<1> DEFINE echoed == terminal_writechar(terminal, key)
<1>1. /\ sh = "readline" /\ sh' = "readline" /\ terminal.row < VGA_HEIGHT
      /\ out' = Stored(key)
      /\ clean' = (clean /\ (key = BS => out # <<>> /\ terminal.col # 0))
      /\ terminal' = IF clean' THEN echoed ELSE Forget(echoed)
  BY DEF Type, OnScreen
<1>2. IsTerminal(echoed)
  BY WritecharIs DEF EchoInv
<1>3. IsTerminal(terminal')
  <2> HIDE DEF echoed
  <2> QED BY <1>1, <1>2, ForgetIs
<1>4. out' \in Seq(Char \cup {BS})
  BY <1>1, StoredIs DEF EchoInv
<1>5. clean' \in BOOLEAN
  BY <1>1
<1>6. ASSUME clean' PROVE Echoed'
  <2>1. clean /\ Echoed /\ (key = BS => out # <<>> /\ terminal.col # 0)
    BY <1>1, <1>6 DEF EchoInv
  <2>2. terminal' = terminal_writechar(terminal, key)
    BY <1>1, <1>6
  <2>3. CASE key = BS
    <3>1. out # <<>> /\ terminal.col # 0 /\ out' = Front(out)
      BY <1>1, <2>1, <2>3 DEF Stored
    <3>2. terminal' = terminal_backspace(terminal)
      BY <2>2, <2>3 DEF terminal_writechar, LF, BS
    <3> QED BY <1>1, <2>1, <3>1, <3>2, EchoedBackspace
  <2>4. CASE key # BS
    <3>1. out' = Append(out, key)
      BY <1>1, <2>4 DEF Stored
    <3>2. key # LF
      BY <2>4, ScreenAssumptions
    <3>3. terminal' = Written(terminal, key)
      BY <2>2, <2>4, <3>2 DEF terminal_writechar
    <3> QED BY <1>1, <2>1, <3>1, <3>3, EchoedCharacter
  <2> QED BY <2>3, <2>4
<1> QED BY <1>1, <1>3, <1>4, <1>5, <1>6 DEF EchoInv

\* Every step of the shell, of the kernel and of the programs beside it.
LEMMA EchoStepsKeep == ASSUME EchoInv, [ShellNext]_allvars PROVE EchoInv'
<1>1. CASE Prompt
  BY <1>1, PromptEchoes
<1>2. CASE \E key \in Char \cup {BS} : Type(key)
  BY <1>2, TypeEchoes
<1>3. CASE Enter \/ LineFull
  <2>1. /\ terminal' = Forget(print(terminal, <<LF>>)) /\ sh' = "parse"
        /\ out' = out /\ clean' = clean
    BY <1>3 DEF Enter, LineFull, LineEnds
  <2>2. IsTerminal(terminal')
    BY <2>1, PrintOne, WritecharIs, ForgetIs DEF EchoInv
  <2> QED BY <2>1, <2>2 DEF EchoInv
<1>4. CASE OtherPrints
  <2>1. /\ terminal' = Forget(terminal_writechar(terminal, "*")) /\ sh' = sh /\ sh = "readline"
        /\ out' = out /\ clean' = FALSE
    BY <1>4 DEF OtherPrints
  <2>2. IsTerminal(terminal')
    BY <2>1, WritecharIs, ForgetIs DEF EchoInv
  <2> QED BY <2>1, <2>2 DEF EchoInv
<1>5. CASE Return
  <2>1. /\ terminal' = print(terminal, <<LF>>) /\ sh' = "prompt" /\ out' = out /\ clean' = clean
    BY <1>5 DEF Return
  <2>2. terminal' = NewLine(terminal)
    BY <2>1, PrintOne DEF terminal_writechar, LF, BS
  <2>3. IsTerminal(terminal') /\ terminal'.col = 0
    BY <2>2, NewLineIs DEF EchoInv
  <2> QED BY <2>1, <2>3 DEF EchoInv
<1>6. ASSUME terminal' = terminal, out' = out, clean' = clean,
             sh' = sh \/ (sh # "readline" /\ sh' \notin {"prompt", "readline"})
      PROVE  EchoInv'
  BY <1>6 DEF EchoInv, Echoed, Typed, Shown, Cursor
<1>7. CASE Parse \/ Call \/ CallFails \/ ParsePath \/ LoaderStep \/ ProgramEnds \/ ShellStopped
           \/ UNCHANGED allvars
  <2>1. terminal' = terminal /\ out' = out /\ clean' = clean
    BY <1>7 DEF Parse, Call, CallFails, ParsePath, LoaderStep, ProgramEnds, ShellStopped,
                allvars, shell, line
  <2>2. sh' = sh \/ (sh # "readline" /\ sh' \notin {"prompt", "readline"})
    BY <1>7 DEF Parse, Call, CallFails, ParsePath, LoaderStep, ProgramEnds, ShellStopped,
                allvars, shell
  <2> QED BY <1>6, <2>1, <2>2
<1> QED BY <1>1, <1>2, <1>3, <1>4, <1>5, <1>7 DEF ShellNext

LEMMA EchoStarts == ShellInit => EchoInv
<1> SUFFICES ASSUME ShellInit PROVE EchoInv
  OBVIOUS
<1>1. IsTerminal(terminal) /\ terminal.col = 0
  BY DEF ShellInit, terminal_initialize, IsTerminal, Word
<1> QED BY <1>1 DEF ShellInit, EchoInv

\* What the invariant says of the screen is what the property says.
LEMMA EchoInvShows == EchoInv => EchoShowsLine
<1> SUFFICES ASSUME EchoInv, sh = "readline", clean
             PROVE  /\ Typed % VGA_WIDTH = 1
                    /\ terminal.col < VGA_WIDTH
                    /\ \A i \in 0..Len(out) : Typed + i - 1 < VGA_WIDTH * VGA_HEIGHT =>
                         terminal.cells[Typed + i - 1] = (<<">">> \o out)[i + 1]
  BY DEF EchoShowsLine, Typed
<1>1. Echoed /\ out \in Seq(Char \cup {BS})
  BY DEF EchoInv
<1>2. ASSUME NEW i \in 0..Len(out) PROVE (<<">">> \o out)[i + 1] = Shown(i)
  <2> DEFINE S == Char \cup {BS, ">"}
  <2>1. out \in Seq(S) /\ <<">">> \in Seq(S) /\ Len(<<">">>) = 1
    BY <1>1
  <2>2. Len(out) \in Nat
    BY <2>1
  <2> HIDE DEF S
  <2>3. CASE i = 0
    BY <2>1, <2>3 DEF Shown
  <2>4. CASE i # 0
    BY <2>1, <2>2, <2>4 DEF Shown
  <2> QED BY <2>3, <2>4
<1> QED BY <1>1, <1>2 DEF Echoed

\* terminal_writechar, terminal_backspace, simpos_terminal_readline: while the user erases
\* neither at the left margin nor on an empty line, and no other program prints, the
\* screen shows the line that will be run, for every size of screen, any characters and
\* any order of them and of backspaces.
THEOREM ScreenShowsLine == ShellSpec => []EchoShowsLine
<1>1. ShellInit => EchoInv
  BY EchoStarts
<1>2. EchoInv /\ [ShellNext]_allvars => EchoInv'
  BY EchoStepsKeep
<1>3. EchoInv => EchoShowsLine
  BY EchoInvShows
<1> QED BY <1>1, <1>2, <1>3, PTL DEF ShellSpec
------------------------------------------------------------------------------
(* Words *)

\* A set of numbers that is not empty has a least one.
LEMMA LeastNumber ==
  ASSUME NEW S, S \subseteq Nat, S # {}
  PROVE  \E x \in S : \A y \in S : x <= y
<1> DEFINE R == {ss \in Nat \X Nat : ss[1] < ss[2]}
<1>1. IsWellFoundedOn(R, Nat)
  BY NatLessThanWellFounded DEF OpToRel
<1>2. PICK x \in S : \A y \in S : ~(<<y, x>> \in R)
  <2> HIDE DEF R
  <2> QED BY <1>1, WFMin
<1>3. ASSUME NEW y \in S PROVE x <= y
  <2>1. ~(y < x)
    BY <1>2
  <2> QED BY <2>1
<1> QED BY <1>3

\* How many numbers of a set there are up to i, and the one that is the n-th.
Count(S, i) == Cardinality({j \in S : j <= i})
Nth(n, S) == CHOOSE i \in S : Cardinality({j \in S : j <= i}) = n

\* Counting goes up by one at each number of the set.
LEMMA CountIs ==
  ASSUME NEW S, S \subseteq Int, IsFiniteSet(S), NEW i \in Int
  PROVE  /\ Count(S, i) \in Nat
         /\ (\A j \in S : j > i) => Count(S, i) = 0
         /\ (\A j \in S : j <= i) => Count(S, i) = Cardinality(S)
         /\ Count(S, i) = Count(S, i - 1) + IF i \in S THEN 1 ELSE 0
         /\ Count(S, i) <= Cardinality(S)
         /\ \A k \in Int : i <= k => Count(S, i) <= Count(S, k)
<1> DEFINE U(k) == {j \in S : j <= k}
<1>0. /\ \A k : U(k) \in SUBSET S
      /\ \A k \in Int : \A j \in S : j \in U(k) <=> j <= k
      /\ \A k : Count(S, k) = Cardinality(U(k))
  BY DEF Count
<1>e. \A X, Y : (\A j : j \in X <=> j \in Y) => X = Y
  OBVIOUS
<1>i. \A j \in S : j \in Int
  OBVIOUS
<1> HIDE DEF U
<1>2. \A k : IsFiniteSet(U(k)) /\ Cardinality(U(k)) <= Cardinality(S)
  BY <1>0, FS_Subset
<1>3. \A k : Count(S, k) \in Nat
  BY <1>0, <1>2, FS_CardinalityType
<1>4. ASSUME \A j \in S : j > i PROVE Count(S, i) = 0
  <2>1. U(i) = {}
    <3> SUFFICES ASSUME NEW j \in U(i) PROVE FALSE
      OBVIOUS
    <3>1. j \in S /\ j \in Int /\ j <= i
      BY <1>0, <1>i
    <3>2. j > i
      BY <3>1, <1>4
    <3> QED BY <3>1, <3>2
  <2> QED BY <2>1, <1>0, FS_EmptySet
<1>5. ASSUME \A j \in S : j <= i PROVE Count(S, i) = Cardinality(S)
  <2>1. \A j : j \in U(i) <=> j \in S
    BY <1>5, <1>0
  <2> QED BY <2>1, <1>0, <1>e
<1>6. Count(S, i) = Count(S, i - 1) + IF i \in S THEN 1 ELSE 0
  <2>1. IsFiniteSet(U(i - 1)) /\ i \notin U(i - 1)
    BY <1>2, <1>0
  <2>2. CASE i \in S
    <3>1. U(i) = U(i - 1) \cup {i}
      <4>1. i - 1 \in Int /\ \A j \in Int : j <= i <=> j <= i - 1 \/ j = i
        OBVIOUS
      <4>2. \A j : j \in U(i) <=> j \in U(i - 1) \cup {i}
        BY <2>2, <4>1, <1>0, <1>i
      <4> QED BY <4>2, <1>e
    <3>2. Cardinality(U(i - 1) \cup {i}) = Cardinality(U(i - 1)) + 1
      BY <2>1, FS_AddElement
    <3> QED BY <2>2, <3>1, <3>2, <1>0
  <2>3. CASE i \notin S
    <3>1. U(i) = U(i - 1)
      <4>1. i - 1 \in Int /\ \A j \in Int : j # i => (j <= i <=> j <= i - 1)
        OBVIOUS
      <4>2. \A j : j \in U(i) <=> j \in U(i - 1)
        BY <2>3, <4>1, <1>0, <1>i
      <4> QED BY <4>2, <1>e
    <3> QED BY <2>3, <3>1, <1>0, <1>3
  <2> QED BY <2>2, <2>3
<1>7. ASSUME NEW k \in Int, i <= k PROVE Count(S, i) <= Count(S, k)
  <2>1. ASSUME NEW j \in U(i) PROVE j \in U(k)
    <3>1. j \in S /\ j \in Int /\ j <= i
      BY <1>0, <1>i
    <3>2. j <= k
      BY <3>1, <1>7
    <3> QED BY <3>1, <3>2, <1>0
  <2>2. U(i) \in SUBSET U(k) /\ IsFiniteSet(U(k))
    BY <2>1, <1>2
  <2> QED BY <2>2, <1>0, FS_Subset
<1> QED BY <1>0, <1>2, <1>3, <1>4, <1>5, <1>6, <1>7

\* The number that has n numbers up to it is the n-th.
LEMMA NthIs ==
  ASSUME NEW S, S \subseteq Int, IsFiniteSet(S), NEW i \in S
  PROVE  Nth(Count(S, i), S) = i /\ Count(S, i) \in 1..Cardinality(S)
<1>1. ASSUME NEW j \in S, NEW k \in S, j < k PROVE Count(S, j) < Count(S, k)
  <2>1. j \in Int /\ k \in Int /\ k - 1 \in Int /\ j <= k - 1
    BY <1>1
  <2>2. Count(S, j) <= Count(S, k - 1) /\ Count(S, k) = Count(S, k - 1) + 1
    BY <2>1, CountIs
  <2>3. Count(S, j) \in Nat /\ Count(S, k - 1) \in Nat
    BY <2>1, CountIs
  <2> QED BY <2>2, <2>3
<1>2. \A j \in S : Count(S, j) = Count(S, i) => j = i
  <2> SUFFICES ASSUME NEW j \in S, j # i PROVE Count(S, j) # Count(S, i)
    OBVIOUS
  <2>1. j \in Int /\ i \in Int
    OBVIOUS
  <2>2. j < i \/ i < j
    BY <2>1
  <2>6. Count(S, j) \in Nat
    BY <2>1, CountIs
  <2>5. Count(S, i) \in Nat
    BY <2>1, CountIs
  <2>3. j < i => Count(S, j) < Count(S, i)
    BY <1>1
  <2>4. i < j => Count(S, i) < Count(S, j)
    BY <1>1
  <2> QED BY <2>2, <2>3, <2>4, <2>5, <2>6
<1>3. i \in Int /\ i - 1 \in Int
  OBVIOUS
<1>4. Count(S, i) \in Nat /\ Count(S, i - 1) \in Nat /\ Count(S, i) = Count(S, i - 1) + 1
      /\ Count(S, i) <= Cardinality(S)
  BY <1>3, CountIs
<1>5. Nth(Count(S, i), S) = CHOOSE j \in S : Count(S, j) = Count(S, i)
  BY DEF Nth, Count
<1>6. Count(S, i) \in 1..Cardinality(S)
  BY <1>4, FS_CardinalityType
<1>7. (CHOOSE j \in S : Count(S, j) = Count(S, i)) = i
  BY <1>2
<1> QED BY <1>5, <1>6, <1>7

\* The characters of s that are no separators, and where the words among them begin and end.
Inside(s, separator) == {i \in 1..Len(s) : s[i] # separator}
Starts(s, separator) == {i \in Inside(s, separator) : i - 1 \notin Inside(s, separator)}
Ends(s, separator) == {i \in Inside(s, separator) : i + 1 \notin Inside(s, separator)}

\* Those places are finitely many, in the string.
LEMMA PlacesAre ==
  ASSUME NEW s, NEW sep, Len(s) \in Nat
  PROVE  LET I == Inside(s, sep)
             A == Starts(s, sep)
             B == Ends(s, sep)
         IN /\ I \subseteq 1..Len(s) /\ I \subseteq Int /\ IsFiniteSet(I)
            /\ A \subseteq I /\ A \subseteq Int /\ IsFiniteSet(A)
            /\ B \subseteq I /\ B \subseteq Int /\ IsFiniteSet(B)
            /\ \A i \in Int : i \in A <=> i \in I /\ i - 1 \notin I
            /\ \A i \in Int : i \in B <=> i \in I /\ i + 1 \notin I
<1>1. /\ Inside(s, sep) \subseteq 1..Len(s)
      /\ Starts(s, sep) \subseteq 1..Len(s) /\ Ends(s, sep) \subseteq 1..Len(s)
      /\ 1..Len(s) \subseteq Int
  BY DEF Inside, Starts, Ends
<1>2. IsFiniteSet(1..Len(s))
  BY FS_Interval
<1>3. IsFiniteSet(Inside(s, sep)) /\ IsFiniteSet(Starts(s, sep)) /\ IsFiniteSet(Ends(s, sep))
  BY <1>1, <1>2, FS_Subset
<1> QED BY <1>1, <1>3 DEF Starts, Ends

\* The words up to i have begun, and all but one of them have ended.
LEMMA WordsBalance ==
  ASSUME NEW s, NEW sep, Len(s) \in Nat, NEW n \in Nat
  PROVE  Count(Starts(s, sep), n) = Count(Ends(s, sep), n)
           + IF n \in Inside(s, sep) /\ n + 1 \in Inside(s, sep) THEN 1 ELSE 0
<1> DEFINE I == Inside(s, sep)
           A == Starts(s, sep)
           B == Ends(s, sep)
           more(i) == IF i \in I /\ i + 1 \in I THEN 1 ELSE 0
           bad == {i \in Nat : Count(A, i) # Count(B, i) + more(i)}
<1>1. /\ I \subseteq 1..Len(s)
      /\ A \subseteq Int /\ IsFiniteSet(A) /\ A \subseteq I
      /\ B \subseteq Int /\ IsFiniteSet(B) /\ B \subseteq I
      /\ \A i \in Int : i \in A <=> i \in I /\ i - 1 \notin I
      /\ \A i \in Int : i \in B <=> i \in I /\ i + 1 \notin I
  BY PlacesAre
<1> HIDE DEF I, A, B
<1>2. ASSUME bad # {} PROVE FALSE
  <2>1. bad \subseteq Nat
    OBVIOUS
  <2> HIDE DEF bad
  <2>2. PICK i \in bad : \A j \in bad : i <= j
    BY <1>2, <2>1, LeastNumber
  <2>3. i \in Nat /\ Count(A, i) # Count(B, i) + more(i)
    BY <2>2 DEF bad
  <2>4. /\ Count(A, i) \in Nat /\ Count(A, i) = Count(A, i - 1) + IF i \in A THEN 1 ELSE 0
        /\ (\A j \in A : j > i) => Count(A, i) = 0
    <3>1. A \subseteq Int /\ IsFiniteSet(A) /\ i \in Int
      BY <1>1, <2>3
    <3> HIDE DEF more
    <3> QED BY ONLY <3>1, CountIs
  <2>5. /\ Count(B, i) \in Nat /\ Count(B, i) = Count(B, i - 1) + IF i \in B THEN 1 ELSE 0
        /\ (\A j \in B : j > i) => Count(B, i) = 0
    <3>1. B \subseteq Int /\ IsFiniteSet(B) /\ i \in Int
      BY <1>1, <2>3
    <3> HIDE DEF more
    <3> QED BY ONLY <3>1, CountIs
  <2>6. CASE i = 0
    <3>1. i \notin I /\ \A j \in I : j > i
      BY <1>1, <2>6
    <3>2. Count(A, i) = 0 /\ Count(B, i) = 0 /\ more(i) = 0
      BY <1>1, <2>4, <2>5, <3>1
    <3> QED BY <2>3, <3>2
  <2>7. CASE i # 0
    <3>1. i - 1 \in Nat /\ ~(i <= i - 1) /\ (i - 1) + 1 = i /\ i \in Int
      BY <2>3, <2>7
    <3>2. Count(A, i - 1) = Count(B, i - 1) + more(i - 1)
      BY <2>2, <3>1 DEF bad
    <3>3. i - 1 \in Int
      BY <3>1
    <3>4. Count(A, i - 1) \in Nat
      BY <1>1, <3>3, CountIs
    <3>5. Count(B, i - 1) \in Nat
      BY <1>1, <3>3, CountIs
    <3>6. (i \in A <=> i \in I /\ i - 1 \notin I) /\ (i \in B <=> i \in I /\ i + 1 \notin I)
      BY <1>1, <3>1
    <3> QED BY <2>3, <2>4, <2>5, <3>1, <3>2, <3>4, <3>5, <3>6
  <2> QED BY <2>6, <2>7
<1>3. n \notin bad
  BY <1>2
<1> QED BY <1>3 DEF I, A, B

\* The characters from a to b are a word: its number is that of the beginnings up to a.
LEMMA WordAt ==
  ASSUME NEW s, NEW sep, Len(s) \in Nat, NEW a \in 1..Len(s), NEW b \in a..Len(s),
         a - 1 \notin Inside(s, sep), b + 1 \notin Inside(s, sep), a..b \subseteq Inside(s, sep)
  PROVE  LET n == Count(Starts(s, sep), a)
         IN /\ n \in 1..Len(Words(s, sep))
            /\ Words(s, sep)[n] = SubSeq(s, a, b)
            /\ Count(Starts(s, sep), b) = n
<1> DEFINE I == Inside(s, sep)
           A == Starts(s, sep)
           B == Ends(s, sep)
           n == Count(A, a)
<1>0. Words(s, sep) = [k \in 1..Cardinality(A) |-> SubSeq(s, Nth(k, A), Nth(k, B))]
  BY DEF Words, Nth, Starts, Ends, Inside
<1>1. /\ A \subseteq Int /\ IsFiniteSet(A) /\ A \subseteq I
      /\ B \subseteq Int /\ IsFiniteSet(B) /\ B \subseteq I
      /\ \A i \in Int : i \in A <=> i \in I /\ i - 1 \notin I
      /\ \A i \in Int : i \in B <=> i \in I /\ i + 1 \notin I
  BY PlacesAre
<1>2. a \in Int /\ b \in Int /\ b \in Nat /\ a <= b /\ a \in I /\ b \in I
  OBVIOUS
<1>3. a \in A /\ b \in B
  BY <1>1, <1>2
<1>4. Count(A, b) = n
  <2>1. \A j \in A : j <= b <=> j <= a
    <3> SUFFICES ASSUME NEW j \in A, j <= b, ~(j <= a) PROVE FALSE
      BY <1>1, <1>2
    <3>1. j \in Int /\ j - 1 \in a..b /\ j - 1 \notin I
      BY <1>1, <1>2
    <3> QED BY <3>1
  <2>2. {j \in A : j <= b} = {j \in A : j <= a}
    BY <2>1
  <2> QED BY <2>2 DEF Count
<1>5. Count(B, b) = Count(A, b)
  <2>1. Count(A, b) = Count(B, b) + IF b \in I /\ b + 1 \in I THEN 1 ELSE 0
    BY <1>2, WordsBalance
  <2>2. Count(B, b) \in Nat
    BY <1>1, <1>2, CountIs
  <2> QED BY <2>1, <2>2
<1>6. Nth(n, A) = a /\ n \in 1..Cardinality(A)
  BY <1>1, <1>3, NthIs
<1>7. Nth(n, B) = b
  BY <1>1, <1>3, <1>4, <1>5, NthIs
<1>8. Len(Words(s, sep)) = Cardinality(A)
  <2>1. Cardinality(A) \in Nat
    BY <1>1, FS_CardinalityType
  <2> HIDE DEF A, B
  <2> QED BY <1>0, <2>1
<1> HIDE DEF A, B, n
<1>9. Words(s, sep)[n] = SubSeq(s, a, b)
  BY <1>0, <1>6, <1>7
<1> QED BY <1>4, <1>6, <1>8, <1>9 DEF A, n

\* Behind the character p the next word begins that has not begun, if there is one.
ReadsOn(s, separator, p) ==
  LET n == Count(Starts(s, separator), p)
      inside == Inside(s, separator)
      all == Words(s, separator)
  IN /\ n \in 0..Len(all)
     /\ (\A i \in inside : i <= p) => n = Len(all)
     /\ \A a \in 1..Len(s) : \A b \in a..Len(s) :
          /\ a > p /\ a..b \subseteq inside /\ b + 1 \notin inside
          /\ \A i \in p+1..a-1 : i \notin inside
          => /\ n + 1 \in 1..Len(all)
             /\ all[n + 1] = SubSeq(s, a, b)
             /\ Count(Starts(s, separator), b) = n + 1
             /\ Count(Starts(s, separator), b + 1) = n + 1

\* A reader that has passed p characters, and is in no word that goes on, finds it.
LEMMA NextWord ==
  ASSUME NEW s, NEW sep, Len(s) \in Nat, NEW p \in Nat,
         p \in Inside(s, sep) => p = Len(s)
  PROVE  ReadsOn(s, sep, p)
<1> DEFINE I == Inside(s, sep)
           A == Starts(s, sep)
           n == Count(A, p)
<1>0. Len(Words(s, sep)) = Cardinality(A)
  <2>1. Words(s, sep) = [k \in 1..Cardinality(A) |-> SubSeq(s, Nth(k, A), Nth(k, Ends(s, sep)))]
    BY DEF Words, Nth, Starts, Ends, Inside
  <2>2. Cardinality(A) \in Nat
    BY PlacesAre, FS_CardinalityType
  <2> HIDE DEF A
  <2> QED BY <2>1, <2>2
<1>1. /\ A \subseteq Int /\ IsFiniteSet(A) /\ A \subseteq I /\ I \subseteq 1..Len(s)
      /\ \A i \in Int : i \in A <=> i \in I /\ i - 1 \notin I
  BY PlacesAre
<1>2. p \in Int /\ n \in Nat /\ n <= Cardinality(A) /\ Cardinality(A) \in Nat
  <2>1. p \in Int
    OBVIOUS
  <2> QED BY <1>1, <2>1, CountIs, FS_CardinalityType
<1>3. ASSUME \A i \in I : i <= p PROVE n = Cardinality(A)
  <2>1. \A j \in A : j <= p
    BY <1>1, <1>3
  <2> QED BY <1>1, <1>2, <2>1, CountIs
<1>4. ASSUME NEW a \in 1..Len(s), NEW b \in a..Len(s),
             a > p, a..b \subseteq I, b + 1 \notin I, \A i \in p+1..a-1 : i \notin I
      PROVE  /\ n + 1 \in 1..Len(Words(s, sep))
             /\ Words(s, sep)[n + 1] = SubSeq(s, a, b)
             /\ Count(A, b) = n + 1 /\ Count(A, b + 1) = n + 1
  <2>1. a \in Int /\ b \in Int /\ a \in I /\ a - 1 \in Int /\ b + 1 \in Int
    BY <1>4
  <2>2. a - 1 \notin I
    <3>1. a - 1 = p => a - 1 \notin I
      BY <2>1, <1>1
    <3>2. a - 1 # p => a - 1 \in p+1..a-1
      BY <1>4, <1>2
    <3> QED BY <1>4, <3>1, <3>2
  <2>3. Count(A, a - 1) = n
    <3>1. \A j \in A : j <= a - 1 <=> j <= p
      <4> SUFFICES ASSUME NEW j \in A, j <= a - 1, ~(j <= p) PROVE FALSE
        BY <1>1, <1>2, <1>4
      <4>1. j \in I /\ j \in p+1..a-1
        BY <1>1, <1>2
      <4> QED BY <4>1, <1>4
    <3>2. {j \in A : j <= a - 1} = {j \in A : j <= p}
      BY <3>1
    <3> QED BY <3>2 DEF Count
  <2>4. Count(A, a) = n + 1
    <3>1. a \in A
      BY <1>1, <2>1, <2>2
    <3>2. Count(A, a) = Count(A, a - 1) + IF a \in A THEN 1 ELSE 0
      BY ONLY <1>1, <2>1, CountIs
    <3> QED BY <2>3, <3>1, <3>2
  <2>5. /\ Count(A, a) \in 1..Len(Words(s, sep)) /\ Words(s, sep)[Count(A, a)] = SubSeq(s, a, b)
        /\ Count(A, b) = Count(A, a)
    BY <1>4, <2>2, WordAt
  <2>6. Count(A, b + 1) = Count(A, b)
    <3>1. b + 1 \notin A /\ (b + 1) - 1 = b
      BY <1>1, <1>4, <2>1
    <3>2. Count(A, b + 1) = Count(A, (b + 1) - 1) + IF b + 1 \in A THEN 1 ELSE 0
      BY ONLY <1>1, <2>1, CountIs
    <3>3. Count(A, b) \in Nat
      BY ONLY <1>1, <2>1, CountIs
    <3> QED BY <3>1, <3>2, <3>3
  <2> QED BY <2>4, <2>5, <2>6
<1> QED
  <2> HIDE DEF n, A, I
  <2>1. n \in 0..Len(Words(s, sep))
    BY <1>0, <1>2
  <2> QED BY <1>0, <1>2, <1>3, <1>4, <2>1 DEF ReadsOn, A, n, I

------------------------------------------------------------------------------
(* strtok and simpos_parse_command *)

Space == " "

\* The word of s from start up to end is cut off.
CutOff(s, start, end) ==
  Token([i \in 1..end - start |-> s[start + i - 1]], [s EXCEPT ![end] = NUL],
        IF s[end] = Space THEN end + 1 ELSE end)

\* The first character of s from p on that is no space is at start.
FoundAt(s, p, M, start) ==
  /\ s[start] # Space /\ \A i \in p..start-1 : s[i] = Space
  /\ s[start] = NUL => NextToken(s, p) = Token(<<>>, s, NULL)
  /\ s[start] # NUL =>
       \E end \in start+1..M :
         /\ s[end] \in {Space, NUL} /\ \A i \in start..end-1 : s[i] \notin {Space, NUL}
         /\ NextToken(s, p) = CutOff(s, start, end)

\* strtok passes the spaces and cuts the word behind them off, or finds the end of the string.
LEMMA NextTokenIs ==
  ASSUME NEW M \in Nat, NEW C, NEW s \in [0..M -> C], s[M] = NUL, NEW p \in 0..M
  PROVE  \E start \in p..M : FoundAt(s, p, M, start)
<1>0. NUL # Space
  BY Zenon DEF NUL, Space
<1>1. /\ \A i \in Int : i \in DOMAIN s <=> 0 <= i /\ i <= M
      /\ \A i \in DOMAIN s : i \in Nat /\ i <= M
      /\ M \in DOMAIN s /\ p \in Nat /\ p <= M
  OBVIOUS
<1> DEFINE Begins(i) == i >= p /\ s[i] # Space
           x == CHOOSE i \in DOMAIN s : Begins(i) /\ \A j \in DOMAIN s : Begins(j) => i <= j
           Cuts(i) == i > x /\ s[i] \in {Space, NUL}
           y == CHOOSE i \in DOMAIN s : Cuts(i) /\ \A j \in DOMAIN s : Cuts(j) => i <= j
<1>3. NextToken(s, p) =
        IF s[x] = NUL THEN Token(<<>>, s, NULL)
        ELSE CutOff(s, x, y)
  BY DEF NextToken, CutOff, Space
<1>2. x \in p..M /\ s[x] # Space /\ \A i \in p..x-1 : s[i] = Space
  <2> DEFINE S == {i \in DOMAIN s : Begins(i)}
  <2> HIDE DEF x, y
  <2>1. M \in S /\ S \subseteq Nat
    BY <1>0, <1>1
  <2>2. PICK z \in S : \A j \in S : z <= j
    <3> HIDE DEF S
    <3> QED BY <2>1, LeastNumber
  <2>3. z \in DOMAIN s /\ Begins(z) /\ \A j \in DOMAIN s : Begins(j) => z <= j
    BY <2>2
  <2>4. x \in DOMAIN s /\ Begins(x) /\ \A j \in DOMAIN s : Begins(j) => x <= j
    <3> HIDE DEF Begins
    <3> QED BY <2>3 DEF x
  <2>5. x \in p..M
    BY <1>1, <2>4
  <2>6. ASSUME NEW i \in p..x-1 PROVE s[i] = Space
    <3>1. i \in DOMAIN s /\ i >= p /\ ~(x <= i)
      BY <1>1, <2>5
    <3> QED BY <2>4, <3>1
  <2> QED BY <2>4, <2>5, <2>6
<1> HIDE DEF x
<1>4. ASSUME s[x] # NUL
      PROVE  y \in x+1..M /\ s[y] \in {Space, NUL} /\ \A i \in x..y-1 : s[i] \notin {Space, NUL}
  <2> DEFINE T == {i \in DOMAIN s : Cuts(i)}
  <2> HIDE DEF y
  <2>0. x \in Nat /\ x <= M
    BY <1>1, <1>2
  <2>7. M > x
    <3>1. x # M
      BY <1>4
    <3> QED BY <1>1, <2>0, <3>1
  <2>1. M \in T /\ T \subseteq Nat
    BY <1>1, <2>7
  <2>2. PICK z \in T : \A j \in T : z <= j
    <3> HIDE DEF T
    <3> QED BY <2>1, LeastNumber
  <2>3. z \in DOMAIN s /\ Cuts(z) /\ \A j \in DOMAIN s : Cuts(j) => z <= j
    BY <2>2
  <2>4. y \in DOMAIN s /\ Cuts(y) /\ \A j \in DOMAIN s : Cuts(j) => y <= j
    <3> HIDE DEF Cuts
    <3> QED BY <2>3 DEF y
  <2>5. y \in x+1..M /\ y \in Nat
    BY <1>1, <2>0, <2>4
  <2>6. ASSUME NEW i \in x..y-1 PROVE s[i] \notin {Space, NUL}
    <3>1. i \in DOMAIN s /\ (i = x \/ i > x) /\ ~(y <= i)
      BY <1>1, <2>0, <2>5
    <3> QED BY <2>4, <3>1, <1>2, <1>4
  <2> QED BY <2>4, <2>5, <2>6
<1> HIDE DEF y
<1> QED BY <1>2, <1>3, <1>4 DEF FoundAt

\* The characters of a line, and a string in the buffer of the command.
LineChar == Char \cup {BS}
InBuffer(s) == s \in [0..MaxLine -> LineChar \cup {NUL}] /\ s[MaxLine] = NUL

\* From its character q on, the string s is the line.
Holds(s, l, q) == \A i \in q..Len(l) : s[i] = IF i = Len(l) THEN NUL ELSE l[i + 1]

\* No character of a line ends a string.
LEMMA NoNull == NUL \notin LineChar
<1>1. NUL # BS
  BY Zenon DEF NUL, BS
<1> QED BY <1>1, ShellAssumption DEF LineChar

\* strncpy: the buffer holds the line, whatever it held before.
LEMMA CopyHolds ==
  ASSUME NEW s, InBuffer(s), NEW l \in Seq(LineChar), Len(l) <= MaxLine
  PROVE  InBuffer(strncpy(s, l)) /\ Holds(strncpy(s, l), l, 0)
<1> DEFINE C == LineChar \cup {NUL}
           t == [i \in 0..MaxLine |-> IF i < Len(l) THEN l[i + 1] ELSE IF i = Len(l) THEN NUL ELSE s[i]]
<1>1. s \in [0..MaxLine -> C] /\ s[MaxLine] = NUL /\ MaxLine \in Nat /\ Len(l) \in Nat
  BY ScreenAssumptions DEF InBuffer
<1>2. strncpy(s, l) = t
  <2>1. DOMAIN s = 0..MaxLine
    BY <1>1
  <2>2. strncpy(s, l) = [i \in 0..MaxLine |-> CASE i < Len(l) -> l[i+1] [] i = Len(l) -> NUL [] OTHER -> s[i]]
    BY <2>1 DEF strncpy
  <2>3. \A i \in 0..MaxLine : (CASE i < Len(l) -> l[i+1] [] i = Len(l) -> NUL [] OTHER -> s[i])
                              = IF i < Len(l) THEN l[i + 1] ELSE IF i = Len(l) THEN NUL ELSE s[i]
    <3> TAKE i \in 0..MaxLine
    <3>1. i < Len(l) => i # Len(l)
      BY <1>1
    <3> QED BY <3>1, Zenon
  <2> QED BY <2>2, <2>3
<1>3. \A i \in 0..MaxLine : t[i] \in C
  <2> TAKE i \in 0..MaxLine
  <2>1. CASE i < Len(l)
    <3>1. i + 1 \in 1..Len(l)
      BY <1>1, <2>1
    <3>2. l[i + 1] \in LineChar
      BY <3>1
    <3> QED BY <2>1, <3>2
  <2>2. CASE ~(i < Len(l))
    BY <1>1, <2>2
  <2> QED BY <2>1, <2>2
<1>4. t[MaxLine] = NUL
  BY <1>1
<1>5. \A i \in 0..Len(l) : t[i] = IF i = Len(l) THEN NUL ELSE l[i + 1]
  <2> TAKE i \in 0..Len(l)
  <2>1. i \in 0..MaxLine /\ (i # Len(l) => i < Len(l))
    BY <1>1
  <2> QED BY <1>1, <2>1
<1>6. t \in [0..MaxLine -> C]
  <2>1. t = [i \in 0..MaxLine |-> t[i]]
    OBVIOUS
  <2> HIDE DEF t
  <2> QED BY <1>3, <2>1
<1> HIDE DEF t
<1> QED BY <1>2, <1>4, <1>5, <1>6 DEF InBuffer, Holds

\* strtok keeps the buffer, and a place in it unless it has found no word.
LEMMA StrtokKeeps ==
  ASSUME NEW s, InBuffer(s), NEW p \in 0..MaxLine \cup {NULL}
  PROVE  LET t == strtok(s, p)
         IN /\ t.token \in Seq(LineChar) /\ Len(t.token) <= MaxLine
            /\ InBuffer(t.s) /\ t.sp \in 0..MaxLine \cup {NULL}
<1> DEFINE q == IF p = NULL THEN 0 ELSE p
           C == LineChar \cup {NUL}
<1>1. MaxLine \in Nat /\ q \in 0..MaxLine /\ s \in [0..MaxLine -> C] /\ s[MaxLine] = NUL
  BY ScreenAssumptions DEF InBuffer
<1>2. strtok(s, p) = NextToken(s, q)
  BY DEF strtok
<1> HIDE DEF q, C
<1>3. PICK start \in q..MaxLine : FoundAt(s, q, MaxLine, start)
  BY <1>1, NextTokenIs
<1>4. CASE s[start] = NUL
  <2>1. NextToken(s, q) = Token(<<>>, s, NULL)
    BY <1>3, <1>4 DEF FoundAt
  <2> QED BY <1>1, <1>2, <2>1 DEF Token
<1>5. CASE s[start] # NUL
  <2>1. PICK end \in start+1..MaxLine :
          /\ s[end] \in {Space, NUL} /\ \A i \in start..end-1 : s[i] \notin {Space, NUL}
          /\ NextToken(s, q) = CutOff(s, start, end)
    BY <1>3, <1>5 DEF FoundAt
  <2> DEFINE token == [i \in 1..end - start |-> s[start + i - 1]]
             at == IF s[end] = Space THEN end + 1 ELSE end
  <2>2. start \in Nat /\ end \in Nat /\ start < end /\ end <= MaxLine /\ end - start \in Nat
    BY <1>1
  <2>3. \A i \in 1..end - start : s[start + i - 1] \in LineChar
    <3> TAKE i \in 1..end - start
    <3>1. start + i - 1 \in start..end-1 /\ start + i - 1 \in 0..MaxLine
      BY <1>1, <2>2
    <3>2. s[start + i - 1] \in C /\ s[start + i - 1] # NUL
      BY <1>1, <2>1, <3>1
    <3> QED BY <3>2 DEF C
  <2>4. token \in Seq(LineChar) /\ Len(token) = end - start
    BY <2>2, <2>3
  <2>5. at \in 0..MaxLine
    <3>1. CASE s[end] = Space
      <4>1. end # MaxLine
        <5>1. NUL # Space
          BY Zenon DEF NUL, Space
        <5> QED BY <1>1, <3>1, <5>1
      <4> QED BY <2>2, <4>1, <1>1
    <3>2. CASE s[end] # Space
      BY <2>2, <3>2, <1>1
    <3> QED BY <3>1, <3>2
  <2>6. [s EXCEPT ![end] = NUL] \in [0..MaxLine -> C] /\ [s EXCEPT ![end] = NUL][MaxLine] = NUL
    BY <1>1, <2>2 DEF C
  <2> HIDE DEF token, at
  <2>7. strtok(s, p) = [token |-> token, s |-> [s EXCEPT ![end] = NUL], sp |-> at]
    BY <1>2, <2>1 DEF CutOff, Token, token, at
  <2>8. Len(token) <= MaxLine
    BY <2>2, <2>4, <1>1
  <2> QED BY <2>4, <2>5, <2>6, <2>7, <2>8 DEF InBuffer, C
<1> QED BY <1>4, <1>5

\* The next call of strtok finds the next word, if its place in the line is in none.
AtWord(s, l, k, q) ==
  /\ Holds(s, l, q) /\ k = Count(Starts(l, Space), q)
  /\ q \in 0..Len(l) /\ (q \in Inside(l, Space) => q = Len(l))

\* strtok cuts off the next word of the line, or finds that it has none.
LEMMA CutsWord ==
  ASSUME NEW s, InBuffer(s), NEW l \in Seq(LineChar), Len(l) <= MaxLine, NEW k, NEW q, AtWord(s, l, k, q)
  PROVE  LET t == NextToken(s, q)
         IN /\ k \in 0..Len(Words(l, Space))
            /\ t.token = <<>> => t.sp = NULL /\ k = Len(Words(l, Space))
            /\ t.token # <<>> => /\ k + 1 \in 1..Len(Words(l, Space))
                                 /\ t.token = Words(l, Space)[k + 1]
                                 /\ AtWord(t.s, l, k + 1, t.sp)
<1> DEFINE I == Inside(l, Space)
           A == Starts(l, Space)
           W == Words(l, Space)
           C == LineChar \cup {NUL}
           n == Len(l)
<1>1. /\ MaxLine \in Nat /\ s \in [0..MaxLine -> C] /\ s[MaxLine] = NUL
      /\ n \in Nat /\ n <= MaxLine /\ q \in 0..n /\ (q \in I => q = n)
      /\ q \in 0..MaxLine /\ q \in Nat
      /\ NUL # Space
  <2>1. NUL # Space
    BY Zenon DEF NUL, Space
  <2> QED BY <2>1, ScreenAssumptions DEF InBuffer, AtWord
<1>2. /\ s[n] = NUL
      /\ \A i \in q+1..n : s[i - 1] = l[i] /\ s[i - 1] # NUL
  <2>1. \A i \in q..n : s[i] = IF i = n THEN NUL ELSE l[i + 1]
    BY DEF AtWord, Holds
  <2>2. s[n] = NUL
    BY <1>1, <2>1
  <2>3. ASSUME NEW i \in q+1..n PROVE s[i - 1] = l[i] /\ s[i - 1] # NUL
    <3>1. i - 1 \in q..n /\ i - 1 # n /\ (i - 1) + 1 = i /\ i \in 1..n
      BY <1>1
    <3>2. s[i - 1] = l[i]
      BY <2>1, <3>1
    <3> QED BY <3>1, <3>2, NoNull
  <2> QED BY <2>2, <2>3
<1>3. \A i \in Int : i \in I <=> i \in 1..n /\ l[i] # Space
  BY DEF Inside
<1>4. PICK x \in q..MaxLine : FoundAt(s, q, MaxLine, x)
  BY <1>1, NextTokenIs
<1>5. s[x] # Space /\ \A i \in q..x-1 : s[i] = Space
  BY <1>4 DEF FoundAt
<1>6. x \in q..n
  <2>1. ~(x > n)
    <3> SUFFICES ASSUME x > n PROVE FALSE
      OBVIOUS
    <3>1. n \in q..x-1
      BY <1>1
    <3> QED BY <1>1, <1>2, <1>5, <3>1
  <2> QED BY <1>1, <2>1
<1>7. /\ k \in 0..Len(W)
      /\ (\A i \in I : i <= q) => k = Len(W)
      /\ \A a \in 1..n : \A b \in a..n :
           /\ a > q /\ a..b \subseteq I /\ b + 1 \notin I
           /\ \A i \in q+1..a-1 : i \notin I
           => /\ k + 1 \in 1..Len(W) /\ W[k + 1] = SubSeq(l, a, b)
              /\ Count(A, b) = k + 1 /\ Count(A, b + 1) = k + 1
  <2>1. k = Count(A, q)
    BY DEF AtWord
  <2>2. ReadsOn(l, Space, q)
    BY <1>1, NextWord
  <2> QED BY <2>1, <2>2 DEF ReadsOn
<1>8. CASE s[x] = NUL
  <2>1. NextToken(s, q) = Token(<<>>, s, NULL)
    BY <1>4, <1>8 DEF FoundAt
  <2>2. \A i \in I : i <= q
    <3> SUFFICES ASSUME NEW i \in I, ~(i <= q) PROVE FALSE
      OBVIOUS
    <3>1. i \in Int /\ i \in q+1..n /\ l[i] # Space
      BY <1>1, <1>3 DEF Inside
    <3>2. x = n
      <4>1. x # n => x + 1 \in q+1..n /\ (x + 1) - 1 = x
        BY <1>1, <1>6
      <4> QED BY <1>2, <1>8, <4>1
    <3>3. i - 1 \in q..x-1
      BY <1>1, <3>1, <3>2
    <3> QED BY <1>2, <1>5, <3>1, <3>3
  <2> QED BY <1>7, <2>1, <2>2 DEF Token
<1>9. CASE s[x] # NUL
  <2>1. PICK y \in x+1..MaxLine :
          /\ s[y] \in {Space, NUL} /\ \A i \in x..y-1 : s[i] \notin {Space, NUL}
          /\ NextToken(s, q) = CutOff(s, x, y)
    BY <1>4, <1>9 DEF FoundAt
  <2>2. x \in Nat /\ y \in Nat /\ x < y /\ y <= n /\ q <= x
    <3>1. ~(y > n)
      <4> SUFFICES ASSUME y > n PROVE FALSE
        OBVIOUS
      <4>1. n \in x..y-1
        BY <1>1, <1>6
      <4> QED BY <1>2, <2>1, <4>1
    <3> QED BY <1>1, <1>6, <3>1
  <2>3. x + 1 \in 1..n /\ y \in x+1..n /\ x + 1 > q
    BY <1>1, <2>2
  <2>4. x+1..y \subseteq I
    <3> SUFFICES ASSUME NEW i \in x+1..y PROVE i \in I
      OBVIOUS
    <3>1. i \in Int /\ i \in q+1..n /\ i \in 1..n /\ i - 1 \in x..y-1
      BY <1>1, <2>2
    <3> QED BY <1>2, <1>3, <2>1, <3>1
  <2>5. y + 1 \notin I
    <3> SUFFICES ASSUME y + 1 \in I PROVE FALSE
      OBVIOUS
    <3>1. y + 1 \in Int /\ y + 1 \in q+1..n /\ (y + 1) - 1 = y /\ l[y + 1] # Space
      BY <1>1, <1>3, <2>2 DEF Inside
    <3> QED BY <1>2, <2>1, <3>1
  <2>6. \A i \in q+1..(x+1)-1 : i \notin I
    <3> SUFFICES ASSUME NEW i \in q+1..(x+1)-1, i \in I PROVE FALSE
      OBVIOUS
    <3>1. i \in Int /\ i \in q+1..n /\ i - 1 \in q..x-1
      BY <1>1, <2>2
    <3> QED BY <1>2, <1>3, <1>5, <3>1
  <2>7. /\ k + 1 \in 1..Len(W) /\ W[k + 1] = SubSeq(l, x + 1, y)
        /\ Count(A, y) = k + 1 /\ Count(A, y + 1) = k + 1
    <3> HIDE DEF I, A, W
    <3> QED BY <1>7, <2>3, <2>4, <2>5, <2>6
  <2> DEFINE token == [i \in 1..y - x |-> s[x + i - 1]]
             z == [s EXCEPT ![y] = NUL]
             at == IF s[y] = Space THEN y + 1 ELSE y
  <2>8. SubSeq(l, x + 1, y) = token /\ token # <<>>
    <3>1. SubSeq(l, x + 1, y) = [i \in 1..y - x |-> l[x + i]]
      BY <2>2
    <3>2. \A i \in 1..y - x : l[x + i] = s[x + i - 1]
      <4> TAKE i \in 1..y - x
      <4>1. x + i \in q+1..n /\ (x + i) - 1 = x + i - 1
        BY <1>1, <2>2
      <4> QED BY <1>2, <4>1
    <3>3. Len(SubSeq(l, x + 1, y)) = y - x /\ y - x # 0
      BY <2>2
    <3>4. token # <<>>
      BY <3>3
    <3> QED BY <3>1, <3>2, <3>4
  <2>9. AtWord(z, l, k + 1, at)
    <3>1. \A i \in 0..MaxLine : i # y => z[i] = s[i]
      BY <1>1
    <3>2. CASE s[y] = Space
      <4>1. at = y + 1 /\ y + 1 \in 0..n
        BY <1>1, <1>2, <2>2, <3>2
      <4>2. \A i \in y+1..n : i \in q..n /\ i \in 0..MaxLine /\ i # y
        BY <1>1, <2>2
      <4>3. Holds(z, l, y + 1)
        BY <3>1, <4>2 DEF Holds, AtWord
      <4> HIDE DEF z, at
      <4> QED BY <2>5, <2>7, <4>1, <4>3 DEF AtWord
    <3>3. CASE s[y] # Space
      <4>1. s[y] = NUL /\ at = y
        BY <2>1, <3>3
      <4>2. y = n
        <5>1. y # n => y + 1 \in q+1..n /\ (y + 1) - 1 = y
          BY <1>1, <2>2
        <5> QED BY <1>2, <4>1, <5>1
      <4>3. Holds(z, l, y)
        <5>1. z[n] = NUL
          BY <1>1, <4>2
        <5>2. \A i \in y..n : i = n
          BY <4>2, <1>1
        <5> HIDE DEF z
        <5> QED BY <5>1, <5>2 DEF Holds
      <4>4. y \in 0..n
        BY <2>2
      <4> HIDE DEF z, at
      <4> QED BY <2>7, <4>1, <4>2, <4>3, <4>4 DEF AtWord
    <3> QED BY <3>2, <3>3
  <2>10. NextToken(s, q) = [token |-> token, s |-> z, sp |-> at]
    BY <2>1 DEF CutOff, Token
  <2> HIDE DEF token, z, at, W
  <2> QED BY <1>7, <2>7, <2>8, <2>9, <2>10 DEF W
<1> QED BY <1>8, <1>9

\* The loop of simpos_parse_command: a word as often as there is memory.
TakesWords(f, l, s, p, m) ==
  /\ simpos_parse_command(l, s, p, m) = f[m]
  /\ f[0] = [args |-> <<>>, next |-> strtok(strncpy(s, l), p)]
  /\ \A n \in 1..m :
       f[n] = IF f[n - 1].next.token = <<>> THEN f[n - 1]
              ELSE [args |-> Append(f[n - 1].args, f[n - 1].next.token),
                    next |-> strtok(f[n - 1].next.s, f[n - 1].next.sp)]

\* There is such a function: a least turn without one has a turn before it.
LEMMA ParseTakesWords ==
  ASSUME NEW l, NEW s, NEW p, NEW m \in Nat
  PROVE  \E f : TakesWords(f, l, s, p, m)
<1> DEFINE first == [args |-> <<>>, next |-> strtok(strncpy(s, l), p)]
           Then(r) == IF r.next.token = <<>> THEN r
                      ELSE [args |-> Append(r.args, r.next.token), next |-> strtok(r.next.s, r.next.sp)]
           Step(f, n) == IF n = 0 THEN first ELSE Then(f[n - 1])
           Is(f, k) == f = [n \in 0..k |-> Step(f, n)]
           h == CHOOSE f : Is(f, m)
<1>1. simpos_parse_command(l, s, p, m) = h[m]
  BY DEF simpos_parse_command
<1> HIDE DEF first, Then
<1>2. \E f : Is(f, m)
  <2> DEFINE bad == {k \in 0..m : ~\E f : Is(f, k)}
  <2> SUFFICES ASSUME ~\E f : Is(f, m) PROVE FALSE
    OBVIOUS
  <2>1. bad \subseteq Nat /\ bad # {}
    <3> HIDE DEF Is
    <3>1. m \in bad
      OBVIOUS
    <3> QED BY <3>1
  <2> HIDE DEF bad
  <2>2. PICK k \in bad : \A y \in bad : k <= y
    BY <2>1, LeastNumber
  <2>3. k \in 0..m /\ k \in Nat /\ ~\E f : Is(f, k)
    BY <2>2 DEF bad
  <2>4. CASE k = 0
    <3> DEFINE g == [n \in 0..0 |-> first]
    <3>1. Is(g, 0)
      OBVIOUS
    <3> QED BY <2>3, <2>4, <3>1
  <2>5. CASE k # 0
    <3>1. k - 1 \in 0..m /\ k - 1 \notin bad
      BY <2>2, <2>3, <2>5
    <3>2. PICK f : Is(f, k - 1)
      BY <3>1 DEF bad
    <3> DEFINE g == [n \in 0..k |-> IF n = k THEN Step(f, k) ELSE f[n]]
    <3>3. \A n \in 0..k-1 : f[n] = Step(f, n)
      <4>1. f = [n \in 0..k-1 |-> Step(f, n)]
        BY <3>2
      <4> HIDE DEF Step
      <4> QED BY <4>1
    <3>4. \A n \in 0..k : g[n] = Step(g, n)
      <4> SUFFICES ASSUME NEW n \in 0..k PROVE g[n] = Step(g, n)
        OBVIOUS
      <4>1. \A j \in 0..k : g[j] = IF j = k THEN Step(f, k) ELSE f[j]
        OBVIOUS
      <4> HIDE DEF g, Step
      <4>2. n # 0 => n - 1 \in 0..k /\ n - 1 # k /\ g[n - 1] = f[n - 1]
        BY <2>3, <4>1
      <4>3. Step(g, n) = Step(f, n)
        BY <4>2 DEF Step
      <4>4. n # k => n \in 0..k-1
        BY <2>3
      <4> QED BY <3>3, <4>1, <4>3, <4>4
    <3>5. Is(g, k)
      <4>1. g = [n \in 0..k |-> g[n]]
        OBVIOUS
      <4> HIDE DEF g, Step
      <4> QED BY <3>4, <4>1
    <3> QED
      <4> HIDE DEF g, Is
      <4> QED BY <2>3, <3>5
  <2> QED BY <2>4, <2>5
<1>3. Is(h, m)
  <2> HIDE DEF Is
  <2> QED BY <1>2, Zenon
<1> HIDE DEF h
<1>4. \A n \in 0..m : h[n] = Step(h, n)
  <2>1. h = [n \in 0..m |-> Step(h, n)]
    BY <1>3
  <2> HIDE DEF Step
  <2> QED BY <2>1
<1>5. h[0] = first
  BY <1>4
<1>6. \A n \in 1..m : h[n] = Then(h[n - 1])
  BY <1>4
<1>7. TakesWords(h, l, s, p, m)
  BY <1>1, <1>5, <1>6 DEF first, Then, TakesWords
<1> QED BY <1>7

\* What simpos_parse_command has between two calls of strtok.
ParseTypes(r) ==
  /\ r.args \in Seq(Seq(LineChar)) /\ \A i \in 1..Len(r.args) : Len(r.args[i]) <= MaxLine
  /\ r.next.token \in Seq(LineChar) /\ Len(r.next.token) <= MaxLine
  /\ InBuffer(r.next.s) /\ r.next.sp \in 0..MaxLine \cup {NULL}

\* The words so far are the first of the line, and strtok has cut off the next.
ParsesWords(r, l) ==
  LET all == Words(l, Space)
      k == Len(r.args)
  IN /\ k <= Len(all) /\ \A i \in 1..k : r.args[i] = all[i]
     /\ r.next.token = <<>> => r.next.sp = NULL /\ k = Len(all)
     /\ r.next.token # <<>> => /\ k + 1 \in 1..Len(all) /\ r.next.token = all[k + 1]
                               /\ AtWord(r.next.s, l, k + 1, r.next.sp)

\* The words that simpos_parse_command returns; they are those of the line when strtok
\* begins with it.
LEMMA CommandIsParsed ==
  ASSUME NEW l \in Seq(LineChar), Len(l) <= MaxLine, NEW s, InBuffer(s),
         NEW p \in 0..MaxLine \cup {NULL}, NEW m \in Nat
  PROVE  LET r == simpos_parse_command(l, s, p, m)
         IN /\ ParseTypes(r)
            /\ p = NULL => ParsesWords(r, l)
<1>0. PICK f : TakesWords(f, l, s, p, m)
  BY ParseTakesWords
<1>1. /\ simpos_parse_command(l, s, p, m) = f[m]
      /\ f[0] = [args |-> <<>>, next |-> strtok(strncpy(s, l), p)]
      /\ \A n \in 1..m :
           f[n] = IF f[n - 1].next.token = <<>> THEN f[n - 1]
                  ELSE [args |-> Append(f[n - 1].args, f[n - 1].next.token),
                        next |-> strtok(f[n - 1].next.s, f[n - 1].next.sp)]
  BY <1>0 DEF TakesWords
<1> DEFINE Good(r) == ParseTypes(r) /\ (p = NULL => ParsesWords(r, l))
           bad == {n \in 0..m : ~Good(f[n])}
<1>2. Good(f[0])
  <2> DEFINE t == strncpy(s, l)
  <2>1. InBuffer(t) /\ Holds(t, l, 0)
    BY CopyHolds
  <2>2. f[0].args = <<>> /\ f[0].next = strtok(t, p)
    BY <1>1
  <2> HIDE DEF t
  <2>3. ParseTypes(f[0])
    BY <2>1, <2>2, StrtokKeeps DEF ParseTypes
  <2>4. ASSUME p = NULL PROVE ParsesWords(f[0], l)
    <3>1. Len(l) \in Nat /\ 0 \in Int /\ 0 \in 0..Len(l)
      OBVIOUS
    <3>2. Inside(l, Space) \subseteq 1..Len(l) /\ 0 \notin Inside(l, Space)
      BY <3>1, PlacesAre
    <3>3. Count(Starts(l, Space), 0) = 0
      <4> DEFINE A == Starts(l, Space)
      <4>1. A \subseteq Int /\ IsFiniteSet(A) /\ A \subseteq 1..Len(l)
        BY <3>1, PlacesAre
      <4> HIDE DEF A
      <4>2. \A j \in A : j > 0
        BY <4>1
      <4>3. Count(A, 0) = 0
        BY ONLY <3>1, <4>1, <4>2, CountIs
      <4> QED BY <4>3 DEF A
    <3>4. AtWord(t, l, 0, 0)
      BY <2>1, <3>1, <3>2, <3>3 DEF AtWord
    <3>5. f[0].next = NextToken(t, 0)
      BY <2>2, <2>4 DEF strtok
    <3>6. /\ 0 \in 0..Len(Words(l, Space))
          /\ f[0].next.token = <<>> => f[0].next.sp = NULL /\ 0 = Len(Words(l, Space))
          /\ f[0].next.token # <<>> => /\ 0 + 1 \in 1..Len(Words(l, Space))
                                       /\ f[0].next.token = Words(l, Space)[0 + 1]
                                       /\ AtWord(f[0].next.s, l, 0 + 1, f[0].next.sp)
      BY <2>1, <3>4, <3>5, CutsWord
    <3>7. Len(f[0].args) = 0
      BY <2>2
    <3> QED BY <3>6, <3>7 DEF ParsesWords
  <2> QED BY <2>3, <2>4
<1>3. ASSUME NEW n \in 1..m, Good(f[n - 1]) PROVE Good(f[n])
  <2> DEFINE r == f[n - 1]
  <2>1. CASE r.next.token = <<>>
    <3>1. f[n] = r
      BY <1>1, <2>1
    <3> QED BY <3>1, <1>3
  <2>2. CASE r.next.token # <<>>
    <3>0. f[n] = IF r.next.token = <<>> THEN r
                 ELSE [args |-> Append(r.args, r.next.token), next |-> strtok(r.next.s, r.next.sp)]
      BY <1>1
    <3> HIDE DEF r
    <3>1. /\ f[n].args = Append(r.args, r.next.token)
          /\ f[n].next = strtok(r.next.s, r.next.sp)
      BY <2>2, <3>0
    <3>2. ParseTypes(r)
      BY <1>3 DEF r
    <3> DEFINE k == Len(r.args)
               b == Append(r.args, r.next.token)
    <3>3. /\ k \in Nat /\ Len(b) = k + 1 /\ b \in Seq(Seq(LineChar)) /\ b[k + 1] = r.next.token
          /\ \A i \in 1..k : b[i] = r.args[i]
          /\ \A i \in 1..k+1 : i \in 1..k \/ i = k + 1
      BY <3>2 DEF ParseTypes
    <3> HIDE DEF b, k
    <3>4. ParseTypes(f[n])
      <4>1. \A i \in 1..Len(b) : Len(b[i]) <= MaxLine
        BY <3>2, <3>3 DEF ParseTypes, k
      <4>2. f[n].args = b
        BY <3>1 DEF b
      <4> QED BY <3>1, <3>2, <3>3, <4>1, <4>2, StrtokKeeps DEF ParseTypes
    <3>5. ASSUME p = NULL PROVE ParsesWords(f[n], l)
      <4>1. /\ k + 1 \in 1..Len(Words(l, Space)) /\ r.next.token = Words(l, Space)[k + 1]
            /\ AtWord(r.next.s, l, k + 1, r.next.sp) /\ InBuffer(r.next.s)
            /\ \A i \in 1..k : r.args[i] = Words(l, Space)[i]
        BY <1>3, <2>2, <3>2, <3>5 DEF ParsesWords, ParseTypes, r, k
      <4>2. f[n].next = NextToken(r.next.s, r.next.sp)
        <5>1. r.next.sp \in 0..Len(l) /\ NULL = -1
          BY <4>1 DEF AtWord, NULL
        <5>2. r.next.sp # NULL
          BY <5>1
        <5> QED BY <3>1, <5>2 DEF strtok
      <4>3. /\ f[n].next.token = <<>> => f[n].next.sp = NULL /\ k + 1 = Len(Words(l, Space))
            /\ f[n].next.token # <<>> =>
                 /\ (k + 1) + 1 \in 1..Len(Words(l, Space))
                 /\ f[n].next.token = Words(l, Space)[(k + 1) + 1]
                 /\ AtWord(f[n].next.s, l, (k + 1) + 1, f[n].next.sp)
        BY <4>1, <4>2, CutsWord
      <4>4. f[n].args = b
        BY <3>1 DEF b
      <4>5. k + 1 <= Len(Words(l, Space))
        BY <4>1
      <4>6. \A i \in 1..k+1 : b[i] = Words(l, Space)[i]
        BY <3>3, <4>1
      <4> QED BY <3>3, <4>3, <4>4, <4>5, <4>6 DEF ParsesWords
    <3> QED BY <3>4, <3>5
  <2> QED BY <2>1, <2>2
<1> HIDE DEF Good
<1>4. ASSUME bad # {} PROVE FALSE
  <2>1. bad \subseteq Nat
    OBVIOUS
  <2> HIDE DEF bad
  <2>2. PICK n \in bad : \A y \in bad : n <= y
    BY <1>4, <2>1, LeastNumber
  <2>3. n \in 0..m /\ ~Good(f[n])
    BY <2>2 DEF bad
  <2>4. n # 0
    BY <1>2, <2>3
  <2>5. n \in 1..m /\ n - 1 \in 0..m /\ ~(n <= n - 1)
    BY <2>3, <2>4
  <2>6. Good(f[n - 1])
    BY <2>2, <2>5 DEF bad
  <2> QED BY <1>3, <2>3, <2>5, <2>6
<1>5. Good(f[m])
  BY <1>4
<1> QED BY <1>1, <1>5 DEF Good

\* Sequences with the same elements: one of them is a prefix of the other.
LEMMA PrefixIs ==
  ASSUME NEW X, NEW Y, NEW a \in Seq(X), NEW b \in Seq(Y), Len(a) <= Len(b),
         \A i \in 1..Len(a) : a[i] = b[i]
  PROVE  IsPrefix(a, b) /\ (Len(a) = Len(b) => a = b)
<1> DEFINE Z == X \cup Y
<1>1. a \in Seq(Z) /\ b \in Seq(Z) /\ Len(a) \in Nat /\ Len(b) \in Nat
  OBVIOUS
<1> HIDE DEF Z
<1>2. SubSeq(a, 1, Len(a)) = [i \in 1..Len(a) |-> a[i]] /\ SubSeq(b, 1, Len(a)) = [i \in 1..Len(a) |-> b[i]]
  BY <1>1
<1>3. SubSeq(a, 1, Len(a)) = SubSeq(b, 1, Len(a))
  BY <1>2
<1>4. Len(a) = Len(b) => a = b
  BY <1>1
<1> QED BY <1>3, <1>4 DEF IsPrefix

\* The words of a string are a sequence.
LEMMA WordsAre ==
  ASSUME NEW s, NEW sep, Len(s) \in Nat
  PROVE  LET w == Words(s, sep) IN w \in Seq({w[i] : i \in 1..Len(w)})
<1> DEFINE A == Starts(s, sep)
           w == Words(s, sep)
<1>1. w = [k \in 1..Cardinality(A) |-> SubSeq(s, Nth(k, A), Nth(k, Ends(s, sep)))]
  BY DEF Words, Nth, Starts, Ends, Inside
<1>2. Cardinality(A) \in Nat
  BY PlacesAre, FS_CardinalityType
<1> HIDE DEF A
<1> DEFINE n == Cardinality(A)
<1>3. n \in Nat /\ DOMAIN w = 1..n /\ w = [k \in 1..n |-> w[k]]
  <2> DEFINE B == Ends(s, sep)
  <2> HIDE DEF w, B
  <2> QED BY <1>1, <1>2
<1> HIDE DEF w, n
<1>4. w \in Seq({w[i] : i \in 1..n})
  BY <1>3
<1>5. Len(w) = n
  BY <1>3, <1>4
<1> QED BY <1>4, <1>5 DEF w

------------------------------------------------------------------------------
(* pathparser_parse *)

Slash == "/"

\* An empty part of a name begins at i.
EmptyAt(name, i) == name[i] = Slash /\ (i = 1 \/ name[i - 1] = Slash)

\* A name is kept up to its first empty part.
KeptTo(name, n) ==
  /\ n \in 0..Len(name) /\ \A i \in 1..n : ~EmptyAt(name, i)
  /\ n = Len(name) \/ EmptyAt(name, n + 1)

\* What a path names are the words of the part of it that is kept.
LEMMA NamedIs ==
  ASSUME NEW T, NEW name \in Seq(T)
  PROVE  \E n : KeptTo(name, n) /\ Named(name) = Words(SubSeq(name, 1, n), Slash)
<1> DEFINE empty == {i \in 1..Len(name) : EmptyAt(name, i)}
           x == CHOOSE i \in empty : \A j \in empty : i <= j
<1>1. Named(name) = IF empty = {} THEN Words(name, Slash) ELSE Words(SubSeq(name, 1, x - 1), Slash)
  BY DEF Named, EmptyAt, Slash
<1>2. Len(name) \in Nat
  OBVIOUS
<1>3. CASE empty = {}
  <2>1. SubSeq(name, 1, Len(name)) = name
    OBVIOUS
  <2>2. KeptTo(name, Len(name))
    BY <1>2, <1>3 DEF KeptTo
  <2> QED BY <1>1, <1>3, <2>1, <2>2
<1>4. CASE empty # {}
  <2>1. empty \subseteq Nat
    OBVIOUS
  <2>2. PICK z \in empty : \A j \in empty : z <= j
    <3> HIDE DEF empty
    <3> QED BY <1>4, <2>1, LeastNumber
  <2>3. x \in empty /\ \A j \in empty : x <= j
    BY <2>2
  <2> HIDE DEF x
  <2>4. x \in 1..Len(name) /\ EmptyAt(name, x)
    BY <2>3
  <2>5. x - 1 \in 0..Len(name) /\ (x - 1) + 1 = x
    BY <1>2, <2>4
  <2>6. ASSUME NEW i \in 1..x-1, EmptyAt(name, i) PROVE FALSE
    <3>1. i \in empty /\ ~(x <= i)
      BY <1>2, <2>4, <2>6
    <3> QED BY <2>3, <3>1
  <2>7. KeptTo(name, x - 1)
    BY <2>4, <2>5, <2>6 DEF KeptTo
  <2> QED BY <1>1, <1>4, <2>7
<1> QED BY <1>3, <1>4

\* The path that system call 7 makes of a name.
PathOf(name) == <<"0", ":", "/">> \o name

\* System call 7 makes a valid path, the name's characters behind its first three.
LEMMA PathIs ==
  ASSUME NEW T, NEW name \in Seq(T)
  PROVE  /\ Len(PathOf(name)) = Len(name) + 3
         /\ \A i \in 1..Len(name) : PathOf(name)[i + 3] = name[i]
         /\ pathparser_path_valid_format(PathOf(name))
         /\ \E U : PathOf(name) \in Seq(U)
<1> DEFINE C == {"0", ":", "/"}
           a == <<"0", ":", "/">>
           U == C \cup T
<1>1. a \in Seq(C) /\ Len(a) = 3 /\ a[1] = "0" /\ a[2] = ":" /\ a[3] = "/"
  OBVIOUS
<1>2. PathOf(name) = a \o name
  BY DEF PathOf
<1> HIDE DEF C, a
<1>3. a \in Seq(U) /\ name \in Seq(U) /\ Len(name) \in Nat
  BY <1>1
<1> HIDE DEF U
<1>4. /\ a \o name \in Seq(U) /\ Len(a \o name) = 3 + Len(name)
      /\ \A i \in 1..3 + Len(name) : (a \o name)[i] = IF i <= 3 THEN a[i] ELSE name[i - 3]
  <2>1. a \o name \in Seq(U) /\ Len(a \o name) = Len(a) + Len(name)
    BY <1>3, ConcatProperties
  <2>2. \A i \in 1..Len(a) + Len(name) :
          (a \o name)[i] = IF i <= Len(a) THEN a[i] ELSE name[i - Len(a)]
    BY <1>3, ConcatProperties
  <2> QED BY <1>1, <2>1, <2>2
<1>5. /\ (a \o name)[1] = a[1] /\ (a \o name)[2] = a[2] /\ (a \o name)[3] = a[3]
  BY <1>3, <1>4
<1>6. \A i \in 1..Len(name) : (a \o name)[i + 3] = name[i]
  <2> TAKE i \in 1..Len(name)
  <2>1. i + 3 \in 1..3+Len(name) /\ ~(i + 3 <= 3) /\ (i + 3) - 3 = i
    BY <1>3
  <2> QED BY <1>4, <2>1
<1>7. Len(name) + 3 >= 3 /\ 3 + Len(name) = Len(name) + 3
  BY <1>3
<1>8. pathparser_path_valid_format(a \o name)
  <2>1. (a \o name)[1] \in Digit
    BY <1>1, <1>5 DEF Digit
  <2> QED BY <1>1, <1>4, <1>5, <1>7, <2>1 DEF pathparser_path_valid_format
<1> QED BY <1>2, <1>4, <1>6, <1>7, <1>8

\* pathparser_get_path_part: the characters up to the next slash or to the end of the name.
LEMMA PartIs ==
  ASSUME NEW T, NEW name \in Seq(T), NEW p \in 0..Len(name)+1
  PROVE  LET part == pathparser_get_path_part(PathOf(name), p + 4)
         IN /\ p = Len(name) + 1 => part = <<>>
            /\ p <= Len(name) =>
                 \E q \in p..Len(name) :
                   /\ \A i \in p+1..q : name[i] # Slash
                   /\ q = Len(name) \/ name[q + 1] = Slash
                   /\ part = SubSeq(name, p + 1, q)
<1> DEFINE P == PathOf(name)
           n == Len(name)
           ends == {j \in p+4..Len(P) : P[j] = Slash} \cup {Len(P) + 1}
           x == CHOOSE j \in ends : \A k \in ends : j <= k
<1>1. /\ n \in Nat /\ p \in Nat /\ p <= n + 1 /\ Len(P) = n + 3
      /\ \A i \in 1..n : P[i + 3] = name[i]
  BY PathIs
<1>2. pathparser_get_path_part(P, p + 4) = SubSeq(P, p + 4, x - 1)
  BY DEF pathparser_get_path_part, Slash
<1>3. PICK U : P \in Seq(U)
  BY PathIs
<1> HIDE DEF P
<1>4. ends \subseteq Nat /\ Len(P) + 1 \in ends
  BY <1>1
<1>5. PICK z \in ends : \A k \in ends : z <= k
  <2> HIDE DEF ends
  <2> QED BY <1>4, LeastNumber
<1>6. x \in ends /\ \A k \in ends : x <= k
  <2> HIDE DEF ends
  <2> QED BY <1>5
<1> HIDE DEF x
<1>7. x \in Nat /\ x <= n + 4
  BY <1>1, <1>4, <1>6
<1>8. ASSUME p = n + 1 PROVE SubSeq(P, p + 4, x - 1) = <<>>
  <2>1. x - 1 < p + 4 /\ x - 1 \in Int /\ p + 4 \in Int
    BY <1>1, <1>7, <1>8
  <2> QED BY <2>1, SubSeqEmpty
<1>9. ASSUME p <= n
      PROVE  \E q \in p..n : /\ \A i \in p+1..q : name[i] # Slash
                             /\ q = n \/ name[q + 1] = Slash
                             /\ SubSeq(P, p + 4, x - 1) = SubSeq(name, p + 1, q)
  <2> DEFINE q == x - 4
  <2>1. x >= p + 4
    BY <1>1, <1>6, <1>9
  <2>2. q \in p..n /\ q \in Nat /\ x = q + 4
    BY <1>1, <1>7, <2>1
  <2> HIDE DEF q
  <2>3. ASSUME NEW i \in p+1..q, name[i] = Slash PROVE FALSE
    <3>1. i \in 1..n /\ i + 3 \in p+4..Len(P) /\ ~(x <= i + 3)
      BY <1>1, <2>2
    <3>2. i + 3 \in ends
      BY <1>1, <2>3, <3>1
    <3> QED BY <1>6, <3>1, <3>2
  <2>4. ASSUME q # n PROVE name[q + 1] = Slash
    <3>1. x # Len(P) + 1 /\ q + 1 \in 1..n /\ (q + 1) + 3 = x
      BY <1>1, <2>2, <2>4
    <3>2. P[x] = Slash
      BY <1>6, <3>1
    <3>3. P[(q + 1) + 3] = name[q + 1]
      BY <1>1, <3>1
    <3> QED BY <3>1, <3>2, <3>3
  <2>5. SubSeq(P, p + 4, x - 1) = SubSeq(name, p + 1, q)
    <3>1. SubSeq(name, p + 1, q) = [i \in 1..q - p |-> name[p + i]]
      BY <1>1, <2>2
    <3>2. SubSeq(P, p + 4, q + 3) = [i \in 1..q - p |-> P[p + i + 3]]
      <4>1. SubSeq(P, p + 4, q + 3) = [i \in 1..((q + 3) - (p + 4)) + 1 |-> P[(p + 4) + i - 1]]
        <5> DEFINE u == p + 4
                   v == q + 3
        <5>1. u \in Int /\ v \in Int
          BY <1>1, <2>2
        <5> HIDE DEF u, v
        <5>2. SubSeq(P, u, v) = [i \in 1..(v - u) + 1 |-> P[u + i - 1]]
          BY <5>1
        <5> QED BY <5>2 DEF u, v
      <4>2. ((q + 3) - (p + 4)) + 1 = q - p /\ \A i \in 1..q-p : (p + 4) + i - 1 = p + i + 3
        BY <1>1, <2>2
      <4> QED BY <4>1, <4>2
    <3>3. \A i \in 1..q - p : P[p + i + 3] = name[p + i]
      <4> TAKE i \in 1..q - p
      <4>1. p + i \in 1..n
        BY <1>1, <2>2
      <4> QED BY <1>1, <4>1
    <3>4. x - 1 = q + 3
      BY <2>2
    <3> QED BY <3>1, <3>2, <3>3, <3>4
  <2> QED BY <2>2, <2>3, <2>4, <2>5
<1> QED BY <1>2, <1>8, <1>9 DEF P

\* Up to its character p the name has been parsed into k parts; n characters of it are kept.
AtPart(name, n, k, p) ==
  /\ p \in 0..Len(name)+1 /\ (p <= n \/ (p = Len(name) + 1 /\ n = Len(name)))
  /\ p \notin Inside(SubSeq(name, 1, n), Slash) /\ k = Count(Starts(SubSeq(name, 1, n), Slash), p)
  /\ p = 0 \/ p = Len(name) + 1 \/ name[p] = Slash
  /\ k \in Nat /\ 2 * k <= p

\* A part cut off there is the next word of what is kept; there is none behind the last.
CutFrom(name, n, k, p, part) ==
  LET all == Words(SubSeq(name, 1, n), Slash)
  IN /\ k \in 0..Len(all)
     /\ part = <<>> => k = Len(all)
     /\ part # <<>> => /\ k + 1 \in 1..Len(all) /\ part = all[k + 1]
                       /\ AtPart(name, n, k + 1, p + Len(part) + 1)

\* pathparser_get_path_part finds the next word of what is kept, or nothing behind it.
LEMMA CutsPart ==
  ASSUME NEW T, NEW name \in Seq(T), NEW n, KeptTo(name, n), NEW k, NEW p, AtPart(name, n, k, p)
  PROVE  CutFrom(name, n, k, p, pathparser_get_path_part(PathOf(name), p + 4))
<1> DEFINE L == Len(name)
           s == SubSeq(name, 1, n)
           I == Inside(s, Slash)
           A == Starts(s, Slash)
           W == Words(s, Slash)
           part == pathparser_get_path_part(PathOf(name), p + 4)
<1>1. /\ L \in Nat /\ n \in 0..L /\ p \in 0..L+1 /\ p \in Nat /\ n \in Nat
      /\ p <= n \/ (p = L + 1 /\ n = L)
      /\ p = 0 \/ p = L + 1 \/ name[p] = Slash
      /\ k \in Nat /\ 2 * k <= p /\ p \notin I /\ k = Count(A, p)
      /\ \A i \in 1..n : ~(name[i] = Slash /\ (i = 1 \/ name[i - 1] = Slash))
      /\ n # L => name[n + 1] = Slash /\ (n + 1 = 1 \/ name[(n + 1) - 1] = Slash)
  BY DEF AtPart, KeptTo, EmptyAt
<1>2. Len(s) = n /\ \A i \in 1..n : s[i] = name[i]
  BY <1>1
<1> HIDE DEF s
<1>3. \A i \in Int : i \in I <=> i \in 1..n /\ name[i] # Slash
  BY <1>2 DEF Inside
<1>4. I \subseteq 1..n
  BY <1>2 DEF Inside
<1>5. ReadsOn(s, Slash, p)
  BY <1>1, <1>2, NextWord
<1> HIDE DEF I, A, W, part
<1>6. /\ k \in 0..Len(W)
      /\ (\A i \in I : i <= p) => k = Len(W)
      /\ \A a \in 1..n : \A b \in a..n :
           /\ a > p /\ a..b \subseteq I /\ b + 1 \notin I
           /\ \A i \in p+1..a-1 : i \notin I
           => /\ k + 1 \in 1..Len(W) /\ W[k + 1] = SubSeq(s, a, b)
              /\ Count(A, b) = k + 1 /\ Count(A, b + 1) = k + 1
  BY <1>1, <1>2, <1>5 DEF ReadsOn, I, A, W
<1>7. /\ p = L + 1 => part = <<>>
      /\ p <= L => \E q \in p..L : /\ \A i \in p+1..q : name[i] # Slash
                                   /\ q = L \/ name[q + 1] = Slash
                                   /\ part = SubSeq(name, p + 1, q)
  BY <1>1, PartIs DEF part
<1>8. CASE p = L + 1
  <2>1. \A i \in I : i <= p
    BY <1>1, <1>4, <1>8
  <2> QED BY <1>6, <1>7, <1>8, <2>1 DEF s, W, part, CutFrom
<1>9. CASE p # L + 1
  <2>1. PICK q \in p..L : /\ \A i \in p+1..q : name[i] # Slash
                          /\ q = L \/ name[q + 1] = Slash
                          /\ part = SubSeq(name, p + 1, q)
    BY <1>1, <1>7, <1>9
  <2>2. q \in Nat /\ p <= q /\ q <= L /\ p <= n /\ Len(part) = q - p
    BY <1>1, <1>9, <2>1
  <2>3. CASE q = p
    <3>1. part = <<>>
      BY <1>1, <2>1, <2>2, <2>3
    <3>2. n <= p
      <4> SUFFICES ASSUME p < n PROVE FALSE
        BY <1>1
      <4>1. name[p + 1] = Slash /\ p + 1 \in 1..n /\ (p = 0 \/ name[p] = Slash)
        BY <1>1, <1>9, <2>1, <2>2, <2>3
      <4>2. (p + 1) - 1 = p /\ (p = 0 => p + 1 = 1)
        BY <1>1
      <4> QED BY <1>1, <4>1, <4>2
    <3>3. \A i \in I : i <= p
      BY <1>1, <1>4, <3>2
    <3> QED BY <1>6, <3>1, <3>3 DEF s, W, part, CutFrom
  <2>4. CASE q # p
    <3>1. part # <<>> /\ p < q /\ q \in 1..L
      BY <1>1, <2>2, <2>4
    <3>2. q <= n
      <4> SUFFICES ASSUME n < q PROVE FALSE
        BY <1>1, <2>2
      <4>1. n # L /\ n + 1 \in p+1..q
        BY <1>1, <2>2
      <4> QED BY <1>1, <2>1, <4>1
    <3>3. p + 1 \in 1..n /\ q \in p+1..n /\ p + 1 > p
      BY <1>1, <2>2, <3>1, <3>2
    <3>4. p+1..q \subseteq I
      <4> SUFFICES ASSUME NEW i \in p+1..q PROVE i \in I
        OBVIOUS
      <4>1. i \in Int /\ i \in 1..n
        BY <1>1, <2>2, <3>2
      <4> QED BY <1>3, <2>1, <4>1
    <3>5. q + 1 \notin I
      <4> SUFFICES ASSUME q + 1 \in I PROVE FALSE
        OBVIOUS
      <4>1. q + 1 \in Int /\ q + 1 \in 1..n /\ name[q + 1] # Slash
        BY <1>3, <1>4, <2>2
      <4>2. q # L
        BY <1>1, <4>1
      <4> QED BY <2>1, <4>1, <4>2
    <3>6. \A i \in p+1..(p+1)-1 : i \notin I
      BY <1>1
    <3>7. /\ k + 1 \in 1..Len(W) /\ W[k + 1] = SubSeq(s, p + 1, q)
          /\ Count(A, q + 1) = k + 1
      BY <1>6, <3>3, <3>4, <3>5, <3>6
    <3>8. SubSeq(s, p + 1, q) = part
      <4>1. SubSeq(s, p + 1, q) = [i \in 1..q - p |-> s[p + i]]
        BY <1>1, <2>2
      <4>2. SubSeq(name, p + 1, q) = [i \in 1..q - p |-> name[p + i]]
        BY <1>1, <2>2
      <4>3. \A i \in 1..q - p : s[p + i] = name[p + i]
        <5> TAKE i \in 1..q - p
        <5>1. p + i \in 1..n
          BY <1>1, <2>2, <3>2
        <5> QED BY <1>2, <5>1
      <4> QED BY <2>1, <4>1, <4>2, <4>3
    <3>9. q + 1 <= n \/ (q + 1 = L + 1 /\ n = L)
      <4>1. CASE q = L
        BY <1>1, <2>2, <3>2, <4>1
      <4>2. CASE q # L
        <5> SUFFICES ASSUME n = q PROVE FALSE
          BY <1>1, <2>2, <3>2
        <5>1. n # L /\ n + 1 # 1 /\ (n + 1) - 1 = q /\ q \in p+1..q
          BY <1>1, <2>2, <3>1, <4>2
        <5> QED BY <1>1, <2>1, <5>1
      <4> QED BY <4>1, <4>2
    <3>10. AtPart(name, n, k + 1, q + 1)
      <4>1. q + 1 = L + 1 \/ name[q + 1] = Slash
        BY <2>1
      <4>2. q + 1 \in 0..L+1 /\ k + 1 \in Nat /\ 2 * (k + 1) <= q + 1
        BY <1>1, <2>2, <3>1
      <4> QED BY <3>5, <3>7, <3>9, <4>1, <4>2 DEF AtPart, I, A, s
    <3>11. p + Len(part) + 1 = q + 1
      BY <1>1, <2>2
    <3> QED BY <1>6, <3>1, <3>7, <3>8, <3>10, <3>11 DEF s, W, part, CutFrom
  <2> QED BY <2>3, <2>4
<1> QED BY <1>8, <1>9

\* The loop of pathparser_parse: a part as often as there is memory.
TakesParts(f, whole, m) ==
  /\ pathparser_parse(whole, m) = f[m].parts
  /\ f[0] = [parts |-> <<>>, at |-> 4]
  /\ \A n \in 1..m :
       f[n] = LET part == pathparser_get_path_part(whole, f[n - 1].at)
              IN IF part = <<>> THEN f[n - 1]
                 ELSE [parts |-> Append(f[n - 1].parts, part),
                       at |-> f[n - 1].at + Len(part) + 1]

\* There is such a function, by a least turn without one again.
LEMMA PathTakesParts ==
  ASSUME NEW whole, NEW m \in Nat, pathparser_path_valid_format(whole)
  PROVE  \E f : TakesParts(f, whole, m)
<1> DEFINE first == [parts |-> <<>>, at |-> 4]
           Then(r) == LET part == pathparser_get_path_part(whole, r.at)
                      IN IF part = <<>> THEN r
                         ELSE [parts |-> Append(r.parts, part), at |-> r.at + Len(part) + 1]
           Step(f, n) == IF n = 0 THEN first ELSE Then(f[n - 1])
           Is(f, k) == f = [n \in 0..k |-> Step(f, n)]
           h == CHOOSE f : Is(f, m)
<1>1. pathparser_parse(whole, m) = h[m].parts
  BY DEF pathparser_parse
<1> HIDE DEF first, Then
<1>2. \E f : Is(f, m)
  <2> DEFINE bad == {k \in 0..m : ~\E f : Is(f, k)}
  <2> SUFFICES ASSUME ~\E f : Is(f, m) PROVE FALSE
    OBVIOUS
  <2>1. bad \subseteq Nat /\ bad # {}
    <3> HIDE DEF Is
    <3>1. m \in bad
      OBVIOUS
    <3> QED BY <3>1
  <2> HIDE DEF bad
  <2>2. PICK k \in bad : \A y \in bad : k <= y
    BY <2>1, LeastNumber
  <2>3. k \in 0..m /\ k \in Nat /\ ~\E f : Is(f, k)
    BY <2>2 DEF bad
  <2>4. CASE k = 0
    <3> DEFINE g == [n \in 0..0 |-> first]
    <3>1. Is(g, 0)
      OBVIOUS
    <3> QED BY <2>3, <2>4, <3>1
  <2>5. CASE k # 0
    <3>1. k - 1 \in 0..m /\ k - 1 \notin bad
      BY <2>2, <2>3, <2>5
    <3>2. PICK f : Is(f, k - 1)
      BY <3>1 DEF bad
    <3> DEFINE g == [n \in 0..k |-> IF n = k THEN Step(f, k) ELSE f[n]]
    <3>3. \A n \in 0..k-1 : f[n] = Step(f, n)
      <4>1. f = [n \in 0..k-1 |-> Step(f, n)]
        BY <3>2
      <4> HIDE DEF Step
      <4> QED BY <4>1
    <3>4. \A n \in 0..k : g[n] = Step(g, n)
      <4> SUFFICES ASSUME NEW n \in 0..k PROVE g[n] = Step(g, n)
        OBVIOUS
      <4>1. \A j \in 0..k : g[j] = IF j = k THEN Step(f, k) ELSE f[j]
        OBVIOUS
      <4> HIDE DEF g, Step
      <4>2. n # 0 => n - 1 \in 0..k /\ n - 1 # k /\ g[n - 1] = f[n - 1]
        BY <2>3, <4>1
      <4>3. Step(g, n) = Step(f, n)
        BY <4>2 DEF Step
      <4>4. n # k => n \in 0..k-1
        BY <2>3
      <4> QED BY <3>3, <4>1, <4>3, <4>4
    <3>5. Is(g, k)
      <4>1. g = [n \in 0..k |-> g[n]]
        OBVIOUS
      <4> HIDE DEF g, Step
      <4> QED BY <3>4, <4>1
    <3> QED
      <4> HIDE DEF g, Is
      <4> QED BY <2>3, <3>5
  <2> QED BY <2>4, <2>5
<1>3. Is(h, m)
  <2> HIDE DEF Is
  <2> QED BY <1>2, Zenon
<1> HIDE DEF h
<1>4. \A n \in 0..m : h[n] = Step(h, n)
  <2>1. h = [n \in 0..m |-> Step(h, n)]
    BY <1>3
  <2> HIDE DEF Step
  <2> QED BY <2>1
<1>5. h[0] = first
  BY <1>4
<1>6. \A n \in 1..m : h[n] = Then(h[n - 1])
  BY <1>4
<1>7. TakesParts(h, whole, m)
  BY <1>1, <1>5, <1>6 DEF first, Then, TakesParts
<1> QED BY <1>7

\* What pathparser_parse has after j turns: the first parts of the name, as many, or all.
ParsesParts(r, name, n, j) ==
  LET all == Words(SubSeq(name, 1, n), Slash)
      k == Len(r.parts)
  IN /\ r.parts \in Seq({all[i] : i \in 1..Len(all)})
     /\ k <= Len(all) /\ \A i \in 1..k : r.parts[i] = all[i]
     /\ r.at \in Nat /\ AtPart(name, n, k, r.at - 4)
     /\ k = j \/ pathparser_get_path_part(PathOf(name), r.at) = <<>>

\* pathparser_parse: the parts of the name from the first on, and all with memory for them.
LEMMA PathIsParsed ==
  ASSUME NEW T, NEW name \in Seq(T), NEW m \in Nat
  PROVE  /\ IsPrefix(pathparser_parse(PathOf(name), m), Named(name))
         /\ m >= Len(name) => pathparser_parse(PathOf(name), m) = Named(name)
<1>1. PICK n : KeptTo(name, n) /\ Named(name) = Words(SubSeq(name, 1, n), Slash)
  BY NamedIs
<1> DEFINE s == SubSeq(name, 1, n)
           W == Words(s, Slash)
           R == {W[i] : i \in 1..Len(W)}
           part(r) == pathparser_get_path_part(PathOf(name), r.at)
<1>2. n \in 0..Len(name) /\ Len(name) \in Nat /\ Len(s) = n /\ n \in Nat
  <2>1. n \in 0..Len(name) /\ Len(name) \in Nat
    BY <1>1 DEF KeptTo
  <2> QED BY <2>1
<1>3. Len(W) \in Nat /\ W \in Seq(R)
  <2> HIDE DEF s
  <2>1. W \in Seq(R)
    BY <1>2, WordsAre
  <2> HIDE DEF W, R
  <2> QED BY <2>1
<1>0. PICK f : TakesParts(f, PathOf(name), m)
  <2>1. pathparser_path_valid_format(PathOf(name))
    BY PathIs
  <2> QED BY <2>1, PathTakesParts
<1>4. /\ pathparser_parse(PathOf(name), m) = f[m].parts
      /\ f[0] = [parts |-> <<>>, at |-> 4]
      /\ \A j \in 1..m :
           f[j] = LET p == pathparser_get_path_part(PathOf(name), f[j - 1].at)
                  IN IF p = <<>> THEN f[j - 1]
                     ELSE [parts |-> Append(f[j - 1].parts, p), at |-> f[j - 1].at + Len(p) + 1]
  BY <1>0 DEF TakesParts
<1> DEFINE Good(j) == ParsesParts(f[j], name, n, j)
           bad == {j \in 0..m : ~Good(j)}
<1>5. Good(0)
  <2>1. f[0].parts = <<>> /\ Len(f[0].parts) = 0 /\ f[0].at = 4 /\ f[0].parts \in Seq(R)
    BY <1>4
  <2>2. Inside(s, Slash) \subseteq 1..n
    BY <1>2 DEF Inside
  <2>3. Count(Starts(s, Slash), 0) = 0
    <3> DEFINE A == Starts(s, Slash)
    <3>1. A \subseteq Int /\ IsFiniteSet(A) /\ A \subseteq 1..n
      <4> HIDE DEF s
      <4> QED BY <1>2, <2>2, PlacesAre
    <3> HIDE DEF A
    <3>2. 0 \in Int /\ \A j \in A : j > 0
      BY <3>1
    <3>3. Count(A, 0) = 0
      BY ONLY <3>1, <3>2, CountIs
    <3> QED BY <3>3 DEF A
  <2>4. AtPart(name, n, 0, 0)
    <3>1. 0 \notin Inside(s, Slash) /\ 0 \in 0..Len(name)+1 /\ 0 <= n /\ 2 * 0 <= 0 /\ 0 \in Nat
      BY <1>2, <2>2
    <3> HIDE DEF s
    <3> QED BY <2>3, <3>1 DEF AtPart, s
  <2>5. 4 - 4 = 0 /\ 4 \in Nat
    OBVIOUS
  <2>6. 0 <= Len(W) /\ \A i \in 1..0 : f[0].parts[i] = W[i]
    BY <1>3
  <2> QED BY <2>1, <2>4, <2>5, <2>6 DEF ParsesParts
<1>6. ASSUME NEW j \in 1..m, Good(j - 1) PROVE Good(j)
  <2> DEFINE r == f[j - 1]
             k == Len(r.parts)
             b == Append(r.parts, part(r))
  <2>1. f[j] = IF part(r) = <<>> THEN r ELSE [parts |-> b, at |-> r.at + Len(part(r)) + 1]
    BY <1>4
  <2> HIDE DEF r
  <2>2. /\ r.parts \in Seq(R) /\ k <= Len(W) /\ \A i \in 1..k : r.parts[i] = W[i]
        /\ r.at \in Nat /\ AtPart(name, n, k, r.at - 4)
        /\ k = j - 1 \/ part(r) = <<>>
    BY <1>6 DEF ParsesParts, r
  <2>3. CASE part(r) = <<>>
    <3>1. f[j] = r
      BY <2>1, <2>3
    <3> HIDE DEF part, W, R
    <3>2. part(f[j]) = <<>>
      BY <2>3, <3>1
    <3> QED BY <2>2, <3>1, <3>2 DEF ParsesParts, part, W, R
  <2>4. CASE part(r) # <<>>
    <3>1. f[j] = [parts |-> b, at |-> r.at + Len(part(r)) + 1]
      BY <2>1, <2>4
    <3>2. f[j].parts = b /\ f[j].at = r.at + Len(part(r)) + 1
      BY <3>1
    <3>3. (r.at - 4) + 4 = r.at
      BY <2>2
    <3>4. /\ k + 1 \in 1..Len(W) /\ part(r) = W[k + 1]
          /\ AtPart(name, n, k + 1, (r.at - 4) + Len(part(r)) + 1)
      <4> DEFINE p == r.at - 4
      <4>1. AtPart(name, n, k, p) /\ p + 4 = r.at
        BY <2>2, <3>3
      <4> HIDE DEF p, k, W, s
      <4>2. CutFrom(name, n, k, p, pathparser_get_path_part(PathOf(name), p + 4))
        BY <1>1, <4>1, CutsPart
      <4>3. CutFrom(name, n, k, p, part(r))
        BY <4>1, <4>2
      <4> QED BY <2>4, <4>3 DEF CutFrom, W, s, p
    <3>5. k = j - 1 /\ k \in Nat /\ r.parts \in Seq(R)
      BY <2>2, <2>4
    <3>6. Len(part(r)) \in Nat
      <4>1. r.at - 4 \in 0..Len(name)+1
        BY <2>2 DEF AtPart
      <4>2. \E u, v \in Nat : v <= Len(name) /\ part(r) = SubSeq(name, u, v) /\ u >= 1
        <5> DEFINE p == r.at - 4
        <5>1. p \in 0..Len(name)+1 /\ p + 4 = r.at
          BY <3>3, <4>1
        <5> HIDE DEF p
        <5>2. part(r) = pathparser_get_path_part(PathOf(name), p + 4)
          BY <5>1
        <5> HIDE DEF part
        <5>3. p # Len(name) + 1 /\ p <= Len(name)
          BY <1>2, <2>4, <5>1, <5>2, PartIs
        <5>4. PICK q \in p..Len(name) : part(r) = SubSeq(name, p + 1, q)
          BY <5>1, <5>2, <5>3, PartIs
        <5>5. p + 1 \in Nat /\ q \in Nat /\ q <= Len(name) /\ p + 1 >= 1
          BY <1>2, <5>1
        <5> QED BY <5>4, <5>5
      <4> QED BY <4>2, <1>2
    <3> HIDE DEF part, W, R
    <3>7. /\ b \in Seq(R) /\ Len(b) = k + 1 /\ b[k + 1] = part(r)
          /\ \A i \in 1..k : b[i] = r.parts[i]
          /\ \A i \in 1..k+1 : i \in 1..k \/ i = k + 1
      <4>1. part(r) \in R
        BY <3>4 DEF R
      <4> QED BY <3>5, <4>1
    <3> HIDE DEF b, k
    <3>8. \A i \in 1..k+1 : b[i] = W[i]
      BY <2>2, <3>4, <3>7
    <3>9. /\ (r.at - 4) + Len(part(r)) + 1 = (r.at + Len(part(r)) + 1) - 4
          /\ r.at + Len(part(r)) + 1 \in Nat /\ k + 1 = j /\ k + 1 <= Len(W)
      <4> DEFINE d == Len(part(r))
                 a == r.at
      <4>1. d \in Nat /\ a \in Nat /\ k + 1 <= Len(W) /\ k = j - 1
        BY <1>3, <2>2, <3>4, <3>5, <3>6
      <4> HIDE DEF d, a
      <4>2. (a - 4) + d + 1 = (a + d + 1) - 4 /\ a + d + 1 \in Nat /\ k + 1 = j
        BY <4>1
      <4> QED BY <4>1, <4>2 DEF d, a
    <3> QED BY <3>2, <3>4, <3>7, <3>8, <3>9 DEF ParsesParts, W, R
  <2> QED BY <2>3, <2>4
<1> HIDE DEF Good
<1>7. ASSUME bad # {} PROVE FALSE
  <2>1. bad \subseteq Nat
    OBVIOUS
  <2> HIDE DEF bad
  <2>2. PICK j \in bad : \A y \in bad : j <= y
    BY <1>7, <2>1, LeastNumber
  <2>3. j \in 0..m /\ ~Good(j)
    BY <2>2 DEF bad
  <2>4. j # 0
    BY <1>5, <2>3
  <2>5. j \in 1..m /\ j - 1 \in 0..m /\ ~(j <= j - 1)
    BY <2>3, <2>4
  <2>6. Good(j - 1)
    BY <2>2, <2>5 DEF bad
  <2> QED BY <1>6, <2>3, <2>5, <2>6
<1>8. Good(m)
  BY <1>7
<1> DEFINE k == Len(f[m].parts)
<1>9. /\ f[m].parts \in Seq(R) /\ k <= Len(W) /\ \A i \in 1..k : f[m].parts[i] = W[i]
      /\ f[m].at \in Nat /\ AtPart(name, n, k, f[m].at - 4)
      /\ k = m \/ part(f[m]) = <<>>
  BY <1>8 DEF Good, ParsesParts
<1>10. IsPrefix(f[m].parts, W) /\ (k = Len(W) => f[m].parts = W)
  <2> DEFINE a == f[m].parts
  <2>1. a \in Seq(R) /\ Len(a) <= Len(W) /\ \A i \in 1..Len(a) : a[i] = W[i]
    BY <1>9
  <2> HIDE DEF W, R, a
  <2>2. IsPrefix(a, W) /\ (Len(a) = Len(W) => a = W)
    BY <1>3, <2>1, PrefixIs
  <2> QED BY <2>2 DEF a
<1>11. ASSUME m >= Len(name) PROVE k = Len(W)
  <2> DEFINE p == f[m].at - 4
  <2>1. (f[m].at - 4) + 4 = f[m].at
    BY <1>9
  <2>2. part(f[m]) = <<>> => k = Len(W)
    <3>1. AtPart(name, n, k, p) /\ p + 4 = f[m].at
      BY <1>9, <2>1
    <3> HIDE DEF p, k, W, s
    <3>2. CutFrom(name, n, k, p, pathparser_get_path_part(PathOf(name), p + 4))
      BY <1>1, <3>1, CutsPart
    <3>3. CutFrom(name, n, k, p, part(f[m]))
      BY <3>1, <3>2
    <3> QED BY <3>3 DEF CutFrom, W, s
  <2>3. CASE k = m
    <3>1. /\ p \in 0..Len(name)+1 /\ p \in Nat /\ p \notin Inside(s, Slash) /\ k = Count(Starts(s, Slash), p)
          /\ k \in Nat /\ 2 * k <= p
      BY <1>9 DEF AtPart
    <3>2. n <= p
      BY <1>2, <1>11, <2>3, <3>1
    <3>3. Inside(s, Slash) \subseteq 1..n
      BY <1>2 DEF Inside
    <3>4. \A i \in Inside(s, Slash) : i <= p
      BY <1>2, <3>1, <3>2, <3>3
    <3> HIDE DEF s, p
    <3>5. ReadsOn(s, Slash, p)
      BY <1>2, <3>1, NextWord
    <3> QED BY <3>1, <3>4, <3>5 DEF ReadsOn
  <2> QED BY <1>9, <2>2, <2>3
<1> QED BY <1>1, <1>4, <1>10, <1>11

------------------------------------------------------------------------------
(* The command from the line to the file *)

\* The buffer as it begins is the empty string.
LEMMA BlankIs == InBuffer(Blank)
  BY ScreenAssumptions DEF Blank, InBuffer

\* The line fits its buffer, the words that are run fit it too, and a path is parsed
\* while its file is opened.
CommandInv ==
  /\ out \in Seq(LineChar) /\ Len(out) <= MaxLine - 1
  /\ InBuffer(scommand) /\ sp \in 0..MaxLine \cup {NULL}
  /\ args # <<>> => args[1] \in Seq(LineChar) /\ Len(args[1]) <= MaxLine
  /\ sh \in {"call", "load"} => args # <<>>
  /\ parts # <<>> => sh = "load" /\ pc = "fopen"
  /\ OpensOnThePath

\* Memory for the parts or the words of a line is a number.
LEMMA MemoryIs ==
  /\ Memory(MaxLine) \subseteq Nat
  /\ "heap" \notin Faults => Memory(MaxLine) = {MaxLine}
  BY ScreenAssumptions DEF Memory

\* simpos_parse_command, strtok: what is left in the buffer is a string, whatever an
\* earlier line left there.
LEMMA ParseKeepsCommand == ASSUME CommandInv, Parse PROVE CommandInv'
<1>1. PICK fit \in Memory(MaxLine) :
        LET parsed == simpos_parse_command(out, scommand, sp, fit)
        IN /\ args' = parsed.args /\ sp' = parsed.next.sp
           /\ scommand' = IF sp' = NULL THEN Blank ELSE parsed.next.s
  BY DEF Parse
<1> DEFINE r == simpos_parse_command(out, scommand, sp, fit)
<1>2. ParseTypes(r)
  <2>1. fit \in Nat /\ MaxLine \in Nat
    BY MemoryIs, ScreenAssumptions
  <2>2. Len(out) <= MaxLine
    BY <2>1 DEF CommandInv
  <2> QED BY <2>1, <2>2, CommandIsParsed DEF CommandInv
<1>3. args' = r.args /\ sp' = r.next.sp /\ scommand' = IF sp' = NULL THEN Blank ELSE r.next.s
  BY <1>1
<1> HIDE DEF r
<1>4. InBuffer(scommand)' /\ sp' \in 0..MaxLine \cup {NULL}
  <2>1. InBuffer(r.next.s) /\ r.next.sp \in 0..MaxLine \cup {NULL}
    BY <1>2 DEF ParseTypes
  <2>2. InBuffer(scommand')
    BY <1>3, <2>1, BlankIs
  <2> QED BY <1>3, <2>1, <2>2 DEF InBuffer
<1>5. args' # <<>> => args'[1] \in Seq(LineChar) /\ Len(args'[1]) <= MaxLine
  <2> DEFINE a == args'
             S == Seq(LineChar)
  <2>1. a \in Seq(S) /\ \A i \in 1..Len(a) : Len(a[i]) <= MaxLine
    BY <1>2, <1>3 DEF ParseTypes
  <2> HIDE DEF a, S
  <2>2. a # <<>> => 1 \in 1..Len(a) /\ a[1] \in S
    BY <2>1
  <2> QED BY <2>1, <2>2 DEF a, S
<1>6. /\ sh = "parse" /\ sh' = IF args' = <<>> THEN "ran" ELSE "call"
      /\ out' = out /\ parts' = parts
  BY DEF Parse, line
<1>7. parts = <<>>
  BY <1>6 DEF CommandInv
<1> QED BY <1>4, <1>5, <1>6, <1>7 DEF CommandInv, OpensOnThePath

\* fopen, pathparser_parse: the path that is followed is the one the first word names.
LEMMA ParsePathKeepsCommand == ASSUME CommandInv, ParsePath PROVE CommandInv'
<1> DEFINE name == args[1]
<1>1. /\ sh = "load" /\ sh' = sh /\ pc = "fopen" /\ pc' = pc
      /\ out' = out /\ scommand' = scommand /\ sp' = sp /\ args' = args
  BY DEF ParsePath, At, line, words
<1>2. name \in Seq(LineChar) /\ Len(name) <= MaxLine /\ args # <<>>
  BY <1>1 DEF CommandInv
<1>3. PICK fit \in Memory(MaxLine) : parts' = pathparser_parse(path, fit)
  BY DEF ParsePath
<1>4. fit \in Nat /\ ("heap" \notin Faults => fit = MaxLine)
  BY MemoryIs
<1>5. parts' = pathparser_parse(PathOf(name), fit)
  BY <1>3 DEF path, PathOf
<1> HIDE DEF name
<1>6. IsPrefix(parts', Named(name)) /\ (fit >= Len(name) => parts' = Named(name))
  BY <1>2, <1>4, <1>5, PathIsParsed
<1>7. "heap" \notin Faults => parts' = Named(name)
  <2>1. MaxLine >= Len(name)
    BY <1>2, ScreenAssumptions
  <2> QED BY <1>4, <1>6, <2>1
<1>8. OpensOnThePath'
  BY <1>1, <1>6, <1>7 DEF OpensOnThePath, name
<1> QED BY <1>1, <1>2, <1>8 DEF CommandInv, InBuffer

\* simpos_terminal_readline: the line does not outgrow its buffer.
LEMMA TypeKeepsCommand ==
  ASSUME CommandInv, NEW key \in LineChar, Type(key)
  PROVE  CommandInv'
<1>1. /\ out \in Seq(LineChar) /\ Len(out) < MaxLine - 1 /\ out' = Stored(key)
      /\ sh = "readline" /\ sh' = sh /\ pc' = pc
      /\ scommand' = scommand /\ sp' = sp /\ args' = args /\ parts' = parts
  BY DEF Type, CommandInv, vars, words
<1>2. out' \in Seq(LineChar)
  BY <1>1, StoredIs
<1>3. Len(out') <= MaxLine - 1
  <2>1. MaxLine \in Nat /\ Len(out) \in Nat
    BY <1>1, ScreenAssumptions
  <2>2. CASE key = BS /\ out # <<>>
    <3>1. out' = SubSeq(out, 1, Len(out) - 1)
      BY <1>1, <2>2 DEF Stored, Front
    <3>2. \A i \in 1..Len(out) - 1 : out[i] \in LineChar
      BY <1>1
    <3>3. Len(out') <= Len(out)
      BY <1>1, <2>1, <3>1, <3>2, SubSeqProperties
    <3>4. Len(out') \in Nat
      BY <1>2
    <3> QED BY <1>1, <2>1, <3>3, <3>4
  <2>3. CASE ~(key = BS /\ out # <<>>)
    <3>1. out' = Append(out, key)
      BY <1>1, <2>3 DEF Stored
    <3> QED BY <1>1, <2>1, <3>1
  <2> QED BY <2>2, <2>3
<1>4. OpensOnThePath' /\ InBuffer(scommand)'
  BY <1>1 DEF CommandInv, OpensOnThePath, InBuffer
<1> QED BY <1>1, <1>2, <1>3, <1>4 DEF CommandInv

\* The other steps leave the words as they are, or drop them when nothing is opened.
LEMMA CommandStepsKeep == ASSUME CommandInv, [ShellNext]_allvars PROVE CommandInv'
<1>1. CASE Parse
  BY <1>1, ParseKeepsCommand
<1>2. CASE ParsePath
  BY <1>2, ParsePathKeepsCommand
<1>3. CASE \E key \in Char \cup {BS} : Type(key)
  BY <1>3, TypeKeepsCommand DEF LineChar
<1> DEFINE Same == /\ out' = out /\ scommand' = scommand /\ sp' = sp /\ args' = args
<1>4. CASE Prompt
  <2>1. out' = <<>> /\ sh' = "readline" /\ sh = "prompt" /\ pc' = pc
        /\ scommand' = scommand /\ sp' = sp /\ args' = args /\ parts' = parts
    BY <1>4 DEF Prompt, vars, words
  <2>2. out' \in Seq(LineChar) /\ Len(out') = 0
    BY <2>1
  <2>3. Len(out') <= MaxLine - 1
    BY <2>2, ScreenAssumptions
  <2> QED BY <2>1, <2>2, <2>3 DEF CommandInv, OpensOnThePath, InBuffer
<1>5. CASE Return
  <2>1. /\ Same \/ (out' = out /\ scommand' = scommand /\ sp' = sp /\ args' = <<>>)
        /\ parts' = parts /\ sh' = "prompt"
        /\ sh = "ran" \/ (sh = "load" /\ pc = "idle")
    BY <1>5 DEF Return, At
  <2>2. args' = <<>>
    BY <1>5 DEF Return
  <2>3. parts = <<>>
    BY <2>1 DEF CommandInv
  <2> QED BY <2>1, <2>2, <2>3 DEF CommandInv, OpensOnThePath, InBuffer
<1>6. ASSUME Same, parts' = <<>>, sh' \in {"call", "load"} => sh \in {"call", "load"}
      PROVE  CommandInv'
  BY <1>6 DEF CommandInv, OpensOnThePath, InBuffer
<1>7. ASSUME Same, parts' = parts, sh' = sh, pc' = pc PROVE CommandInv'
  BY <1>7 DEF CommandInv, OpensOnThePath, InBuffer
<1>8. CASE Enter \/ LineFull
  <2>1. Same /\ parts' = parts /\ sh = "readline" /\ sh' = "parse"
    BY <1>8 DEF Enter, LineFull, LineEnds, words
  <2>2. parts = <<>>
    BY <2>1 DEF CommandInv
  <2> QED BY <1>6, <2>1, <2>2
<1>9. CASE Call \/ CallFails
  <2>1. Same /\ parts' = parts /\ sh = "call" /\ sh' \in {"load", "ran"}
    BY <1>9 DEF Call, CallFails, line, words
  <2>2. parts = <<>>
    BY <2>1 DEF CommandInv
  <2> QED BY <1>6, <2>1, <2>2
<1>10. CASE LoaderStep
  <2>1. Same /\ parts' = <<>> /\ sh' = sh
    BY <1>10 DEF LoaderStep, line, words
  <2> QED BY <1>6, <2>1
<1>11. CASE ProgramEnds
  <2>1. Same /\ parts' = parts /\ sh' = sh /\ pc' = pc
    BY <1>11 DEF ProgramEnds, Unload, shell, line, words
  <2> QED BY <1>7, <2>1
<1>12. CASE OtherPrints \/ ShellStopped \/ UNCHANGED allvars
  <2>1. Same /\ parts' = parts /\ sh' = sh /\ pc' = pc
    BY <1>12 DEF OtherPrints, ShellStopped, allvars, shell, line, words, vars
  <2> QED BY <1>7, <2>1
<1> QED BY <1>1, <1>2, <1>3, <1>4, <1>5, <1>8, <1>9, <1>10, <1>11, <1>12 DEF ShellNext

\* Before the first line nothing was read or opened.
LEMMA CommandStarts == ShellInit => CommandInv
<1> SUFFICES ASSUME ShellInit PROVE CommandInv
  OBVIOUS
<1>1. out \in Seq(LineChar) /\ Len(out) = 0 /\ scommand = Blank /\ sp = NULL /\ args = <<>>
      /\ parts = <<>> /\ sh = "prompt"
  BY DEF ShellInit
<1> QED BY <1>1, BlankIs, ScreenAssumptions DEF CommandInv, OpensOnThePath

\* simpos_parse_command: the words that one line becomes.
LEMMA LineIsParsed ==
  ASSUME CommandInv, Parse, sp = NULL
  PROVE  IsPrefix(args', Words(out, Space)) /\ (sp' = NULL => args' = Words(out, Space))
<1>1. PICK fit \in Memory(MaxLine) :
        LET parsed == simpos_parse_command(out, scommand, sp, fit)
        IN args' = parsed.args /\ sp' = parsed.next.sp
  BY DEF Parse
<1> DEFINE r == simpos_parse_command(out, scommand, sp, fit)
           W == Words(out, Space)
           R == {W[i] : i \in 1..Len(W)}
<1>2. ParseTypes(r) /\ ParsesWords(r, out)
  <2>1. fit \in Nat /\ MaxLine \in Nat
    BY MemoryIs, ScreenAssumptions
  <2>2. Len(out) <= MaxLine
    BY <2>1 DEF CommandInv
  <2> QED BY <2>1, <2>2, CommandIsParsed DEF CommandInv
<1>3. args' = r.args /\ sp' = r.next.sp
  BY <1>1
<1> HIDE DEF r
<1>4. /\ Len(args') <= Len(W) /\ \A i \in 1..Len(args') : args'[i] = W[i]
      /\ r.next.token = <<>> => Len(args') = Len(W)
      /\ r.next.token # <<>> => AtWord(r.next.s, out, Len(args') + 1, sp')
  BY <1>2, <1>3 DEF ParsesWords
<1>5. sp' = NULL => Len(args') = Len(W)
  <2>1. r.next.token # <<>> => sp' \in Nat
    BY <1>4, ScreenAssumptions DEF AtWord, CommandInv
  <2>2. sp' \in Nat => sp' # NULL
    BY DEF NULL
  <2> QED BY <1>4, <2>1, <2>2
<1> DEFINE a == args'
           S == Seq(LineChar)
<1>6. a \in Seq(S) /\ W \in Seq(R)
  <2>1. Len(out) \in Nat
    BY DEF CommandInv
  <2> QED BY <1>2, <1>3, <2>1, WordsAre DEF ParseTypes
<1>7. Len(a) <= Len(W) /\ \A i \in 1..Len(a) : a[i] = W[i]
  BY <1>4
<1>8. sp' = NULL => Len(a) = Len(W)
  BY <1>5
<1> HIDE DEF a, W, R, S
<1>9. IsPrefix(a, W) /\ (Len(a) = Len(W) => a = W)
  BY <1>6, <1>7, PrefixIs
<1> QED BY <1>8, <1>9 DEF a, W

\* What the shell runs fits its buffers, and what is opened is on the path.
THEOREM CommandInvariant == ShellSpec => []CommandInv
<1>1. CommandInv /\ [ShellNext]_allvars => CommandInv'
  BY CommandStepsKeep
<1> QED BY <1>1, CommandStarts, PTL DEF ShellSpec

\* command7_invoke_system_command, pathparser_parse: for every disk, any characters and
\* any slashes among them, the file that is opened is the one the first word names or,
\* out of memory, a directory on the way to it.
THEOREM OpensTheNamedFile == ShellSpec => []OpensOnThePath
<1>1. CommandInv => OpensOnThePath
  BY DEF CommandInv
<1> QED BY <1>1, CommandInvariant, PTL

\* A step of the shell that takes a line up.
TakesUp == sh = "parse" /\ sh' # "parse" /\ sp = NULL =>
             /\ IsPrefix(args', Words(out, " "))
             /\ sp' = NULL => args' = Words(out, " ")

\* simpos_parse_command, strtok, strncpy: for a line of any length and any characters,
\* and whatever was in the buffer, the arguments are the words of the line from the
\* first on, and all of them unless memory runs out.
THEOREM LineBecomesItsWords == ShellSpec => ParsesTheLine
<1>1. ASSUME CommandInv, [ShellNext]_allvars PROVE TakesUp
  <2> SUFFICES ASSUME sh = "parse", sh' # "parse", sp = NULL PROVE TakesUp
    BY DEF TakesUp
  <2>1. Parse
    BY <1>1 DEF ShellNext, Prompt, Enter, LineFull, LineEnds, OtherPrints, Type, Call, CallFails,
                ParsePath, LoaderStep, ProgramEnds, Return, ShellStopped, allvars, shell
  <2>2. IsPrefix(args', Words(out, Space)) /\ (sp' = NULL => args' = Words(out, Space))
    BY <1>1, <2>1, LineIsParsed
  <2> QED BY <2>2, Zenon DEF TakesUp, Space
<1>2. CommandInv /\ [ShellNext]_allvars => [TakesUp]_allvars
  BY <1>1
<1> QED BY <1>2, CommandInvariant, PTL DEF ShellSpec, ParsesTheLine, TakesUp

==============================================================================

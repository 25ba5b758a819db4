------------------------------- MODULE Loader -------------------------------
(***************************************************************************)
(* Loading a program's file: process_load_data (src/task/process.c) with   *)
(* elf_load (src/loader/formats/elf_loader.c) and process_load_binary over *)
(* fopen, fstat, fread and fclose (src/fs/file.c) and the FAT16 functions  *)
(* below them (src/fs/fat/fat16.c), with every way out of each of them.    *)
(* The heap is reduced to the number of structures of each kind in use.    *)
(***************************************************************************)
EXTENDS Integers

CONSTANTS Files,          \* what a program's name stands for
          Faults,         \* what may go wrong: "heap", "read"
          MaxDescriptors, \* SIMPOS_MAX_FILE_DESCRIPTORS
          MaxLoaded,      \* bound: programs in memory at a time
          LeakLimit       \* bound: structures of a kind that are lost

ASSUME LoaderAssumption ==
  /\ Files \subseteq {"elf", "binary", "directory", "missing", "bad_path"}
  /\ Faults \subseteq {"heap", "read"}
  /\ MaxDescriptors \in Nat \ {0, 1}
  /\ MaxLoaded \in Nat /\ LeakLimit \in Nat

VARIABLES kernel,           \* "running", or what left it undefined
          pc,               \* the call that comes next, "idle" between loads
          loader,           \* the format that is tried
          file,             \* what is being loaded
          result,           \* of the loader so far: "ok", "error", "EINFORMAT"
          memory,           \* whether the loader holds the file's memory
          stale,            \* whether the open directory was freed already
          inUse,            \* structures kzalloc gave and kfree did not get back
          file_descriptors, \* the indices in use, from 1
          fd,               \* the loader's descriptor
          loaded            \* the programs in memory, by format

locals == <<loader, file, result, memory, stale>>
tables == <<inUse, file_descriptors, fd>>
vars == <<kernel, pc, locals, tables, loaded>>

Kind == {"path_root", "fat_file_descriptor", "fat_item", "directory_item",
         "fat_directory", "file_descriptor", "elf_file", "program"}
Format == {"elf", "binary"}
Descriptors == 1..MaxDescriptors

Init ==
  /\ kernel = "running" /\ pc = "idle"
  /\ loader = "elf" /\ file = "elf" /\ result = "ok" /\ memory = FALSE /\ stale = FALSE
  /\ inUse = [k \in Kind |-> 0] /\ file_descriptors = {} /\ fd = 0
  /\ loaded = [f \in Format |-> 0]

kzalloc(kinds) == inUse' = [k \in Kind |-> inUse[k] + (IF k \in kinds THEN 1 ELSE 0)]
kfree(kinds) == inUse' = [k \in Kind |-> inUse[k] - (IF k \in kinds THEN 1 ELSE 0)]

\* A pointer is used that is none; what follows is not followed.
Undefined(how) == kernel' = how /\ UNCHANGED <<pc, locals, tables, loaded>>

At(call) == kernel = "running" /\ pc = call

------------------------------------------------------------------------------
(* process_load_data and fopen *)

\* What a loader allocates before it opens the file.
Begun(format) == IF format = "elf" THEN {"elf_file"} ELSE {}

\* elf_load allocates its structure and opens the file.
Load(f) ==
  /\ At("idle")
  /\ loaded["elf"] + loaded["binary"] < MaxLoaded
  /\ inUse["elf_file"] < LeakLimit
  /\ pc' = "fopen"
  /\ loader' = "elf" /\ file' = f /\ result' = "ok" /\ memory' = FALSE /\ stale' = FALSE
  /\ kzalloc(Begun("elf"))
  /\ UNCHANGED <<kernel, file_descriptors, fd, loaded>>

\* What fat16_open holds for an open file, or for a directory; a directory whose
\* items could not be read was freed, and is used all the same.
Item == {"fat_file_descriptor", "fat_item"}
Content == IF file = "directory" THEN {"directory_item", "fat_directory"}
           ELSE {"directory_item"}

new_file_descriptor ==
  CHOOSE i \in Descriptors : i \notin file_descriptors /\ 1..i-1 \subseteq file_descriptors

\* The parsed path is not given back; how many are lost is told apart to the bound.
Path == IF inUse["path_root"] < LeakLimit THEN {"path_root"} ELSE {}

\* The file is found.  The descriptor table is
\* not full: one load runs at a time.
Open ==
  /\ At("fopen") /\ file \in {"elf", "binary", "directory"}
  /\ fd' = new_file_descriptor /\ file_descriptors' = file_descriptors \cup {fd'}
  /\ \/ /\ kzalloc(Path \cup {"file_descriptor"} \cup Item \cup Content)
        /\ UNCHANGED stale
     \/ /\ file = "directory" /\ "read" \in Faults
        /\ kzalloc(Path \cup {"file_descriptor"} \cup Item)
        /\ stale' = TRUE
  /\ pc' = "fstat"
  /\ UNCHANGED <<kernel, loader, file, result, memory, loaded>>

\* There is no path, or no memory to parse it: fopen returns 0.  elf_load returns
\* at once, without freeing its structure.
OpenWithoutPath ==
  /\ At("fopen") /\ (file = "bad_path" \/ "heap" \in Faults)
  /\ pc' = "idle" /\ result' = "error"
  /\ UNCHANGED <<kernel, loader, file, memory, stale, tables, loaded>>

\* fat16_open returns an error: no such file, or no memory for its structures.
\* fopen's error path gives the error to fat16_close.
OpenFails ==
  /\ At("fopen") /\ file # "bad_path"
  /\ file = "missing" \/ "heap" \in Faults
  /\ Undefined("closed_error")

\* The results of elf_file_new and of the kzalloc in new_file_descriptor are not
\* looked at.
OpenWithoutMemory ==
  /\ At("fopen") /\ file \in {"elf", "binary", "directory"} /\ "heap" \in Faults
  /\ Undefined("used_null")

------------------------------------------------------------------------------
(* elf_load and process_load_binary after fopen *)

\* fstat refuses a directory; memory for the file is allocated.
Stat ==
  /\ At("fstat")
  /\ IF file = "directory"
     THEN pc' = "out" /\ result' = "error" /\ UNCHANGED <<memory, inUse>>
     ELSE pc' = "fread" /\ memory' = TRUE /\ kzalloc({"program"}) /\ UNCHANGED result
  /\ UNCHANGED <<kernel, loader, file, stale, file_descriptors, fd, loaded>>

\* process_load_binary gives up without memory, elf_load reads to address 0.
StatWithoutMemory ==
  /\ At("fstat") /\ file # "directory" /\ "heap" \in Faults
  /\ IF loader = "binary"
     THEN /\ pc' = "out" /\ result' = "error"
          /\ UNCHANGED <<kernel, loader, file, memory, stale, tables, loaded>>
     ELSE Undefined("used_null")

\* elf_load checks the format of what it has read.
Read ==
  /\ At("fread")
  /\ pc' = "out"
  /\ \/ result' = IF loader = "elf" /\ file # "elf" THEN "EINFORMAT" ELSE "ok"
     \/ "read" \in Faults /\ result' = "error"
  /\ UNCHANGED <<kernel, loader, file, memory, stale, tables, loaded>>

file_get_descriptor_AsIndex(i) == i \in 1..MaxDescriptors-1 /\ i - 1 \in file_descriptors

file_get_descriptor(i) == i \in 1..MaxDescriptors-1 /\ i \in file_descriptors

\* What fclose frees.
Closed == IF file_get_descriptor(fd) THEN {"file_descriptor"} \cup Item \cup Content ELSE {}

Released_Always ==
  (IF loader = "elf" THEN {"elf_file"} ELSE {}) \cup (IF memory THEN {"program"} ELSE {})

Released_KeepsMemory == IF result # "ok" /\ loader = "elf" THEN {"elf_file"} ELSE {}

\* What the loader frees of its own when it does not succeed.
Released == IF result = "ok" THEN {}
            ELSE (IF loader = "elf" THEN {"elf_file"} ELSE {})
                 \cup (IF memory THEN {"program"} ELSE {})

Fallback_Same == loader

\* The format that is tried after ELF.
Fallback == "binary"

\* The loader returns.  A file that is no ELF file is loaded as a binary.
Out ==
  /\ At("out") /\ ~stale
  /\ kfree((Closed \cup Released) \ (IF result = "EINFORMAT" THEN Begun(Fallback) ELSE {}))
  /\ file_descriptors' = file_descriptors \ (IF file_get_descriptor(fd) THEN {fd} ELSE {})
  /\ fd' = 0 /\ memory' = FALSE
  /\ IF result = "EINFORMAT"
     THEN pc' = "fopen" /\ loader' = Fallback /\ result' = "ok" /\ UNCHANGED loaded
     ELSE /\ pc' = "idle"
          /\ loaded' = [loaded EXCEPT ![loader] = IF result = "ok" THEN @ + 1 ELSE @]
          /\ UNCHANGED <<loader, result>>
  /\ UNCHANGED <<kernel, file, stale>>

\* The directory is freed by fclose once more.
OutStale == At("out") /\ stale /\ Undefined("freed_twice")

\* What a program that ends gives back: elf_close, or its memory alone.
process_free_program_data(f) ==
  IF f = "elf" THEN {"elf_file", "program"} ELSE {"program"}

Unload(f) ==
  /\ At("idle") /\ loaded[f] > 0
  /\ loaded' = [loaded EXCEPT ![f] = @ - 1]
  /\ kfree(process_free_program_data(f))
  /\ UNCHANGED <<kernel, pc, locals, file_descriptors, fd>>

\* The bounds are reached, or the kernel is not followed further.
Stopped ==
  /\ \/ kernel # "running"
     \/ pc = "idle" /\ inUse["elf_file"] >= LeakLimit
  /\ UNCHANGED vars

Next == \/ \E f \in Files : Load(f)
        \/ Open \/ OpenWithoutPath \/ OpenFails \/ OpenWithoutMemory
        \/ Stat \/ StatWithoutMemory \/ Read
        \/ Out \/ OutStale
        \/ \E f \in Format : Unload(f)
        \/ Stopped

Spec == Init /\ [][Next]_vars

------------------------------------------------------------------------------
(* Correctness *)

\* No structure is given back more often than it was allocated.
LoaderTypeOK ==
  /\ kernel \in {"running", "closed_error", "used_null", "freed_twice"}
  /\ pc \in {"idle", "fopen", "fstat", "fread", "out"}
  /\ loader \in Format /\ file \in Files \cup {"elf"}
  /\ result \in {"ok", "error", "EINFORMAT"} /\ memory \in BOOLEAN /\ stale \in BOOLEAN
  /\ inUse \in [Kind -> Nat]
  /\ file_descriptors \subseteq Descriptors /\ fd \in Descriptors \cup {0}
  /\ loaded \in [Format -> Nat]

\* elf_load, process_load_binary: whichever way a load ends, the file it opened is
\* closed and nothing of it stays in the heap or in the descriptor table.
FilesClosed ==
  pc = "idle" =>
    /\ file_descriptors = {}
    /\ \A k \in Kind \ {"path_root", "elf_file", "program"} : inUse[k] = 0

\* process_load_data, process_free_program_data: the memory of files is that of the
\* programs loaded, one each; a program loaded as ELF has its elf_file.
ProgramsAccounted ==
  pc = "idle" =>
    /\ inUse["program"] = loaded["elf"] + loaded["binary"]
    /\ inUse["elf_file"] >= loaded["elf"]

\* fat16.c:567 "closes the fat16 file by releasing the private data": fat16_close
\* is only called with what fat16_open returned for an open file.
CloseGetsPrivateData == kernel # "closed_error"

==============================================================================

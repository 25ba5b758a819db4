CONSTANTS
  Files = {"elf", "binary", "directory", "missing", "bad_path"}
  Faults = {"heap", "read"}
  MaxDescriptors = 2
  MaxLoaded = 1
  LeakLimit = 3
  VGA_WIDTH = 4
  VGA_HEIGHT = 4
  Char = {"a", "/", " "}
  MaxLine = 5
  Disk <- MCDisk
SPECIFICATION ShellSpec
INVARIANTS LoaderTypeOK FilesClosed ProgramsAccounted EchoShowsLine 
PROPERTIES  LoadEnds

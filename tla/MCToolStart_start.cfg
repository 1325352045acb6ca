CONSTANTS
  Name <- Names
  Dashed = {"-"}
  Unreachable = {"a/b"}
  Node = {"file 1", "file 2", "directory"}
  Directories = {"directory"}
  Worlds <- AllWorlds
SPECIFICATION Spec
INVARIANTS WorksIfAcceptable RefusedLeavesNothing WritesWhereItDoesNotRead ReadsRegularFiles
CHECK_DEADLOCK FALSE

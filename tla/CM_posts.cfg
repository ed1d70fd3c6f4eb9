SPECIFICATION Spec
CONSTANTS
  Msgs = {"p1", "p2", "p3"}
  Codes = {"a", "b", "c", "d"}
  Body <- ThreePosts
  Patterned = {"a", "b", "d"}
  Lowercase = {"d"}
  Labelled = {}
  Text <- Texts
  Old = {}
  MaxAttempts = 4
  Threshold = 2
  OpenFor = 1
  Faults = {"ids", "llm", "schema", "write", "writeack", "send", "crash"}
  MaxFaults = 2
INVARIANTS CompilationAccounted OkIsStored AnnouncedOnce OpensAfterFailuresInARow
CHECK_DEADLOCK FALSE

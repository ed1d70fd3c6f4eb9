SPECIFICATION Spec
CONSTANTS
  a1 = a1
  a2 = a2
  a3 = a3
  a4 = a4
  t1 = t1
  t2 = t2
  Score <- Scores
  Rank <- RankOf
  Low <- LowConfidence
  Assignments <- Three
  Agency <- Distinct
  PageSize = 3
  Threads <- TwoThreads
  Faults = {"start", "read", "write", "writeack", "crash"}
  MaxFaults = 1
  MaxUpdates = 1
  MaxCloses = 1
INVARIANTS OneRepresentative CountIsListed
SYMMETRY Symmetry
CHECK_DEADLOCK FALSE

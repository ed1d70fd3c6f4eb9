SPECIFICATION Spec
CONSTANTS
  a1 = a1
  a2 = a2
  a3 = a3
  a4 = a4
  t1 = t1
  t2 = t2
  Score <- Scores
  Rank <- RankOf
  Low <- LowConfidence
  Assignments <- Four
  Agency <- Mixed
  PageSize = 2
  Threads <- OneThread
  Faults = {"start", "read"}
  MaxFaults = 2
  MaxUpdates = 0
  MaxCloses = 0
INVARIANTS ListIsMembership Represented
PROPERTIES GroupIsKept
CHECK_DEADLOCK FALSE

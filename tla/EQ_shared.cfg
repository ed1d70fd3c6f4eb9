SPECIFICATION FairSpec
CONSTANTS
  m1 = m1
  m2 = m2
  w1 = w1
  w2 = w2
  code1 = code1
  code2 = code2
  Msgs <- TwoMsgs
  Ids <- OneId
  ExtId <- Repost
  Coded <- TwoMsgs
  Titled <- None
  Noise <- None
  Ageing <- None
  Workers <- TwoWorkers
  MaxAttempts = 4
  BatchSize = 2
  Faults = {"lookup","write","llm","announceack","mark","crash"}
  Persistent = {"lookup","write","llm"}
  MaxFaults = 2
  MaxEdits = 0
  MaxReplays = 0
INVARIANTS AnnouncedOnce NoDoubleProcessing
PROPERTIES LedgerSpec SettledStays Drained AnnouncedInTheEnd
CHECK_DEADLOCK FALSE

SPECIFICATION Spec
CONSTANTS
  m1 = m1
  m2 = m2
  w1 = w1
  w2 = w2
  code1 = code1
  code2 = code2
  Msgs <- OneMsg
  Ids <- OneId
  ExtId <- Alone
  Coded <- None
  Titled <- None
  Noise <- FirstEdit
  Ageing <- OneMsg
  Workers <- TwoWorkers
  MaxAttempts = 3
  BatchSize = 1
  Faults = {"enqueue","load","llm","agency","lookup","write","writeack","announce","announceack","mark","markack","crash","overrun"}
  Persistent = {}
  MaxFaults = 3
  MaxEdits = 2
  MaxReplays = 1
SYMMETRY Symmetry
INVARIANTS OkMeansStored AnnouncedPerRow
CHECK_DEADLOCK FALSE

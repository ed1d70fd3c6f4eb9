SPECIFICATION Spec
CONSTANTS
  a1 = a1
  a2 = a2
  i1 = i1
  w1 = w1
  w2 = w2
  Assignments <- TwoAgencies
  Ids <- OneId
  ExtId <- SameCode
  Workers <- TwoWorkers
  NumChats = 2
  MaxTries = 2
  Faults = {"table", "open", "lost", "refused", "record", "mark", "crash"}
  MaxTroubles = 2
INVARIANTS SyncSettles
PROPERTIES DeletesOnlyClosed
SYMMETRY Symmetry
CHECK_DEADLOCK FALSE

SPECIFICATION FairSpec
CONSTANTS
  Channels <- TwoChannels
  ChanOf <- MostlyOne
  MaxMsgs = 4
  Kinds = {"enqueue", "reprocess", "edits", "window"}
  PageSize = 2
  EditLimit = 1
  WindowSize = 2
  MaxTries = 2
  Lookback = 0
  MaxTime = 2
  MaxChanges = 2
  MaxRuns <- EditsTwice
  Faults = {"query", "rpc", "store", "fetch", "killed"}
  MaxFaults = 1
INVARIANTS ScanMissesOnlyShifted GivenIsEnqueued EditsAreQueued WindowsCover
PROPERTIES ScanEnds
CHECK_DEADLOCK FALSE

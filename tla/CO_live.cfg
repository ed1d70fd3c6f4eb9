SPECIFICATION FairSpec
CONSTANTS
  c1 = c1
  c2 = c2
  Channels <- OneChannel
  MaxMsgs = 2
  MaxTime = 2
  Lag = 0
  Overlap = 1
  Chunk = 1
  Lookback = 2
  LowWatermark = 0
  MaxTries = 2
  BatchSize = 1
  Editable = {1}
  Deletable = {2}
  Faults = {"cursor", "connect", "fetch", "store", "storeack", "enqueue", "delete", "crash"}
  MaxFaults = 1
  MaxText = 2
INVARIANTS CatchupCovers StoredIsEnqueued EditsReachTheStore
PROPERTIES CatchupEnds
CHECK_DEADLOCK FALSE

SPECIFICATION Spec
CONSTANTS
  p1 = p1
  p2 = p2
  p3 = p3
  p4 = p4
  v0 = v0
  v1 = v1
  v2 = v2
  A = A
  B = B
  w1 = w1
  w2 = w2
  Rows <- ThreeRows
  Telegram <- Channels
  Offers <- Api
  Polls <- Answered
  Poller = poller
  Postals = {A, B}
  Workers <- TwoWorkers
  MaxTime = 4
  BumpMin = 2
  Green = 0
  Yellow = 1
  Orange = 2
  Red = 3
  Expire = 3
  ExpireAction = "expired"
  ExpireAge = 1
  Limit = 1
  MaxOps = 3
  Readers = {"none", "anonymous", "user", "nearest"}
  Distance <- Near
  PageSize = 2
  Ttl = 1
  MaxLoads = 3
  MaxOpsReading = 1
  Listed <- ThreeListed
INVARIANTS ScoreCoversRow TierMatchesAge ListedOnce OnlyStaleFailureLosesTop
PROPERTIES SourceOnlyAdvances ReopenNeedsWord
CHECK_DEADLOCK FALSE

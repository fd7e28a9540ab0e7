SPECIFICATION FairSpec
CONSTANTS
  NoNode = NoNode
  NoKey = NoKey
  Malformed = Malformed
  NoOp = NoOp
  NoPod = NoPod
  k1 = k1
  Keys = {k1}
  Pods = {p1}
  Writers = {w1, w2}
  Unlockers = {}
  Paths <- MCPaths
  Values <- MCValues
  Requests <- OneRequest
  MaxRetries = 2
  MaxTouched = 3
  InitSecrets <- EmptySecrets
INVARIANTS ConflictMeansProgress DefiniteFailure
PROPERTIES EveryWriteReturns
CHECK_DEADLOCK FALSE

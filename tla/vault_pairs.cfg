SPECIFICATION Spec
CONSTANTS
  NoNode = NoNode
  NoKey = NoKey
  Malformed = Malformed
  NoOp = NoOp
  NoPod = NoPod
  k1 = k1
  Keys = {k1}
  Pods = {p1, p2}
  Writers = {w1, w2}
  Unlockers = {}
  Paths <- MCPaths
  Values <- MCValues
  Requests <- RaceRequests
  MaxRetries = 2
  MaxTouched = 0
  InitSecrets <- AbsentSecret
SYMMETRY PodSymmetry
INVARIANTS TypeOK WellFormedVault
PROPERTIES StoreSpec
CHECK_DEADLOCK FALSE

SPECIFICATION Spec
CONSTANTS
  NoNode = NoNode
  NoKey = NoKey
  Malformed = Malformed
  NoOp = NoOp
  NoPod = NoPod
  k1 = k1
  Keys = {k1, k2}
  Pods = {p1, p2}
  Writers = {w1}
  Unlockers = {}
  Paths <- MCPaths
  Values <- MCValues
  Requests <- OneRequest
  MaxRetries = 2
  MaxTouched = 0
  InitSecrets <- EmptySecrets
PROPERTIES UnlockedKeyOpensVault
CHECK_DEADLOCK FALSE

SPECIFICATION Spec
CONSTANTS
  NoNode = NoNode
  NoKey = NoKey
  Malformed = Malformed
  NoOp = NoOp
  NoPod = NoPod
  k1 = k1
  Keys = {k1, k2}
  Pods = {p1}
  Writers = {w1, w2}
  Unlockers = {u1, u2}
  Paths <- MCPaths
  Values <- MCValues
  Requests <- OneRequest
  MaxRetries = 2
  MaxTouched = 0
  InitSecrets <- FreshSecrets
SYMMETRY KeySymmetry
INVARIANTS WrongKeyIsOlder
PROPERTIES KeyNeverChanges IdentityWriteOnce
CHECK_DEADLOCK FALSE

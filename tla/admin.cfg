SPECIFICATION Spec
CONSTANTS
  NoNode = NoNode
  NoEntry = NoEntry
  Bad = Bad
  NoFile = NoFile
  Unreadable = Unreadable
  NoKey = NoKey
  NoToken = NoToken
  NoAsk = NoAsk
  NoAnswer = NoAnswer
  NoRights = NoRights
  NoLogin = NoLogin
  NoOp = NoOp
  NoPage = NoPage
  Users <- MCUsers
  Subjects = {}
  Requests = {r1, r2}
  Deployments <- MCDeployments
  Claims <- MCClaims
  Policies <- MCPolicies
  Paths <- MCPaths
  TTL = 1
  MaxDelay = 1
  MaxTime = 3
  MaxChanges = 1
SYMMETRY Symmetry
INVARIANTS RevokedTokenExpires CacheVouched WriteAuthorized ViewAuthorized ViewNavigable AdminOnly
PROPERTY GrantedIsNotRefused
CHECK_DEADLOCK FALSE

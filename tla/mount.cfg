SPECIFICATION Spec
CONSTANTS
  NoNode = NoNode
  NoEntry = NoEntry
  Bad = Bad
  Junk = Junk
  NoPermMgr = NoPermMgr
  NoTree = NoTree
  Users = {}
  Subjects <- MCSubjects
  Mounts = {m1}
  Requested <- MCRequested
  Accounts <- MCAccounts
  VaultTrees <- MCTrees
  Policies <- MCPolicies
  MaxChanges = 3
INVARIANTS MountAuthorized MountSnapshot MountComplete
PROPERTY GrantedIsServed
CHECK_DEADLOCK FALSE

SPECIFICATION Spec
CONSTANTS
  NoFile = NoFile
  Unreadable = Unreadable
  NoKey = NoKey
  NoSecrets = NoSecrets
  NoError = NoError
  NoCode = NoCode
  Killed = Killed
  MadeUp = MadeUp
  Processes <- MCProcesses
  Mounts = {m1, m2}
INVARIANTS KeyFromRightSource MountsDrain
PROPERTIES FailureIsReported InterruptEnds
CHECK_DEADLOCK FALSE

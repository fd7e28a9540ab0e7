SPECIFICATION Spec
CONSTANTS
  NoNode = NoNode
  NoEntry = NoEntry
  Bad = Bad
  Garbage = Garbage
  Users <- MCUsers
  Subjects <- MCSubjects
  Contents <- MCContents
  MaxEdits = 2
  QuietStart = TRUE
  MayVanish = TRUE
PROPERTIES Converges
CHECK_DEADLOCK FALSE

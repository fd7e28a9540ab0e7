SPECIFICATION Spec
CONSTANTS
  NoNode = NoNode
  NoEntry = NoEntry
  Bad = Bad
  Garbage = Garbage
  Users <- MCUsers
  Subjects <- MCSubjects
  Contents <- MCContents
  MaxEdits = 2
  QuietStart = TRUE
  MayVanish = FALSE
INVARIANTS AdminsFollowFile
CHECK_DEADLOCK FALSE

SPECIFICATION Spec
CONSTANTS
  NoNode = NoNode
  NoEntry = NoEntry
  Bad = Bad
  Garbage = Garbage
  Users <- MCUsers
  Subjects <- MCSubjects
  Contents <- MCContents
  MaxEdits = 3
  QuietStart = FALSE
  MayVanish = TRUE
INVARIANTS RevokedIsGone NothingForgotten
PROPERTIES ConvergesWhenWatched ReportedIsLoaded
CHECK_DEADLOCK FALSE

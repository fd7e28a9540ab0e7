SPECIFICATION Spec
CONSTANTS
  Callers = {c1, c2}
  Nobody = Nobody
  ka = ka
  kb = kb
  Kids <- MCKids
  Docs <- MCDocs
  NoKid = NoKid
  NoKeys = NoKeys
  Broken = Broken
  Refresh = 1
  Timeout = 1
  MaxTime = 3
  MaxRotations = 2
PROPERTIES FreshKey WithdrawnStaysOut RotationIsSeen EveryLookupEnds
CHECK_DEADLOCK FALSE

SPECIFICATION FairSpec
CONSTANTS
  None = None
  NoFile = NoFile
  Torn = Torn
  Worlds <- MixedWorld
  MaxEdits = 5
  MaxFaults = 0
  MaxBreaks = 0
PROPERTIES JsonEventsWait
CHECK_DEADLOCK FALSE

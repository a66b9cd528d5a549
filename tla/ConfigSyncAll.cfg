SPECIFICATION FairSpec
CONSTANTS
  None = None
  NoFile = NoFile
  Torn = Torn
  Worlds <- PassWorlds
  MaxEdits = 5
  MaxFaults = 2
  MaxBreaks = 2
INVARIANTS TypeOK SurvivesCrash CatchesUp UploadsArrive
PROPERTIES TsNeverBack Settles
CHECK_DEADLOCK FALSE

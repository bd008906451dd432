SPECIFICATION FairSpec
CONSTANTS
  Scenes <- FileScenes
  Block = 3
  MaxRestarts = 2
  MaxStops = 2
INVARIANTS
  
  CheckpointNotAhead
PROPERTIES
  StopFreesReader
CHECK_DEADLOCK FALSE

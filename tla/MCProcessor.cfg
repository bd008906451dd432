SPECIFICATION FairSpec
CONSTANTS
  t1 = t1
  t2 = t2
  i1 = i1
  i2 = i2
  i3 = i3
  i4 = i4
  NoId = NoId
  Thread = {t1}
  Id = {i1, i2, i3, i4}
  HasInput = FALSE
  HasMulti = FALSE
  Doomed = {i2}
  NFilter = 2
  Copy = {1}
  Accepts <- CopyAccepts
  ToEngine = {2}
  Cap <- CopyCap
  EngineQueue = TRUE
  MAX_RESOURCES = 2
  Burst = 1

  
  
PROPERTIES
  StopReturns
CHECK_DEADLOCK FALSE

SPECIFICATION Spec
CONSTANTS
  t1 = t1
  t2 = t2
  i1 = i1
  i2 = i2
  i3 = i3
  i4 = i4
  NoId = NoId
  Thread = {t1, t2}
  Id = {i1, i2, i3, i4}
  HasInput = TRUE
  HasMulti = TRUE
  Doomed = {}
  NFilter = 1
  Copy = {}
  Accepts <- AllAccepts
  ToEngine = {1}
  Cap <- NoCap
  EngineQueue = TRUE
  MAX_RESOURCES = 2
  Burst = 1
SYMMETRY Symmetric
INVARIANTS
  ResourcesExact
  NotOverloaded
CHECK_DEADLOCK FALSE

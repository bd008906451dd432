SPECIFICATION Spec
CONSTANTS
  c1 = c1
  c2 = c2
  i1 = i1
  i2 = i2
  i3 = i3
  NoId = NoId
  NoOne = NoOne
  Stopper = Stopper
  Caller = {c1, c2}
  Modes = {{}}
  Id = {i1, i2, i3}
  Owner <- TwoOwners
  MaxStops = 1
INVARIANTS
  RolesExact
  OnePlace
  OnlyMine
  SleeperLacksResult

SPECIFICATION Spec
CONSTANTS
  w1 = w1
  w2 = w2
  r1 = r1
  r2 = r2
  i1 = i1
  i2 = i2
  i3 = i3
  NoItem = NoItem
  Writers = {w1, w2}
  Readers = {r1, r2}
  Item = {i1, i3}
  Size <- TwoSizes
  Prio <- TwoPrio
  MaxItems <- TwoMaxItems
  MaxSize <- TwoMaxSize
  MaxStops = 1
SYMMETRY Symmetry
INVARIANTS
  OneOwner
  ItemsWithinLimit
  SizeWithinLimit
  CountersAgree
  NoReaderAsleepOverItems
  NoWriterAsleepOverSpace
  StoppedIsQuiet
PROPERTIES
  ImplementsChannel

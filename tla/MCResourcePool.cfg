SPECIFICATION FairSpec
CONSTANTS
  t1 = t1
  t2 = t2
  n = n
  p = p
  i1 = i1
  i2 = i2
  i3 = i3
  r1 = r1
  r2 = r2
  r3 = r3
  r4 = r4
  r5 = r5
  r6 = r6
  NoOne = NoOne
  Thread = {t1, t2}
  Native = {n}
  PerlType = {p}
  Interp = {i1, i2, i3}
  Res = {r1, r2, r3, r4, r5, r6}
  Scenes <- MCScenes
INVARIANTS
  
  HeldOnce

  
CHECK_DEADLOCK FALSE

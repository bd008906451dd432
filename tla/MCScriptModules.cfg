SPECIFICATION FairSpec
CONSTANTS
  p1 = p1
  p2 = p2
  q1 = q1
  q2 = q2
  w1 = w1
  w2 = w2
  r1 = r1
  r2 = r2
  r3 = r3
  c = c
  NoOne = NoOne
  Thread = {w1, w2, c}
  Perl = {p1, p2}
  Python = {q1, q2}
  Resource = {r1, r2, r3}
  Unbound = {r2}
  Scenes <- MCScenes
INVARIANTS
  ResourcesOwned
  ScriptGuarded

  
CHECK_DEADLOCK FALSE

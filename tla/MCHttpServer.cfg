SPECIFICATION FairSpec
CONSTANTS
  c1 = c1
  c2 = c2
  t1 = t1
  t2 = t2
  Client = {c1, c2}
  Thread = {t1, t2}
  Fd = {1, 2, 3, 4}
  Scenes <- HttpScenes
INVARIANTS
  DescriptorsApart
  RequestsWhole

  
CHECK_DEADLOCK FALSE

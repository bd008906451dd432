SPECIFICATION FairSpec
CONSTANTS
  t1 = t1
  t2 = t2
  t3 = t3
  t4 = t4
  src = src
  snk = snk
  svc = svc
  e1 = e1
  e2 = e2
  Sink = Sink
  Answer = Answer
  Thread = {t1, t2, t3, t4}
  Proc = {src, snk, svc}
  Engine = {e1, e2}
  ProcOf <- CallProcOf
  EngineOf <- CallEngineOf
  Source = {src}
  Entry = {svc}
  Succ <- CallSucc
  Callee <- CallCallee
  Feed = 2
INVARIANTS
  CountersExact
  FinishedMeansDone
PROPERTIES
  FinishIsFound
CHECK_DEADLOCK FALSE

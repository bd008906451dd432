SPECIFICATION FairSpec
CONSTANTS
  t1 = t1
  t2 = t2
  rc = rc
  rp = rp
  rq = rq
  i1 = i1
  module = module
  NoContext = NoContext
  NoOne = NoOne
  NoAttr = NoAttr
  Thread = {t1, t2}
  Compiled = {rc}
  Perl = {rp, rq}
  User <- Users
  Interp = {i1}
  PerlOf <- OneInterp
  Home <- Homes
  Attr = {"u", "l", "h", "ip"}
  Tables <- MCTables
  Shape <- MCShape
  Kind <- MCKind
  Position = {0}
  Key = {"h"}
  Method <- MCMethod
  NARROW = 2
  WIDE = 3
  MaxLeaks = 1
INVARIANTS
  ReadYourWrites
  InterpreterGuarded
PROPERTIES
  CallsReturn
CHECK_DEADLOCK FALSE

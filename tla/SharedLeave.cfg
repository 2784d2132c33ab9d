SPECIFICATION Spec
CONSTANTS
  t1 = t1  t2 = t2  old = old  fox = fox  dog = dog  git = git
  None = None
  Conn = {1, 2}
  ReadOnly = {}
  MaxConns = 3
  CompactMin = 4
  Growth = 4
  Tab = {t1, t2}
  First = {old}
  Plans <- LeavingPlans
  Stale = FALSE
  Torn = FALSE
CHECK_DEADLOCK FALSE
INVARIANTS SavedInFile

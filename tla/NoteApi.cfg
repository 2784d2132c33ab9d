SPECIFICATION FairSpec
CONSTANTS
  p1 = p1  p2 = p2  g = g  m = m  d = d
  o1 = o1  o2 = o2
  None = None
  Proc = {p1, p2}
  Key = {g, m, d}
  Note = {g, m, d}
  Obj = {o1, o2}
  First = {g, m}
  Kinds <- TheKinds
  Git = TRUE
  Piece = {0, 1, 2, 3}
  MaxRequests <- TheMax
CHECK_DEADLOCK FALSE
INVARIANTS TypeOK LockTableRight ToldInOrder
PROPERTIES ImplementsVersions RequestsEnd

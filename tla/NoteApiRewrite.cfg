SPECIFICATION Spec
CONSTANTS
  p1 = p1  p2 = p2  g = g  m = m  d = d
  o1 = o1  o2 = o2
  None = None
  Proc = {p1, p2}
  Key = {m}
  Note = {m}
  Obj = {o1, o2}
  First = {m}
  Kinds <- RewriteKinds
  Git = TRUE
  Piece = {0, 1, 2, 3}
  MaxRequests <- RewriteMax
CHECK_DEADLOCK FALSE
PROPERTY RewriteKeepsText

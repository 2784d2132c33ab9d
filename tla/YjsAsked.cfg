SPECIFICATION Spec
CONSTANTS
  c1 = c1  c2 = c2  v = v  n1 = n1  u1 = u1  u2 = u2
  None = None
  Conn = {c1, c2, v}
  ReadOnly = {v}
  Note = {n1}
  User = {u1, u2}
  UserOf <- TheUserOf
  Item = {1, 2, 3}
  Sizes = {1}
  MaxConns = 2
  CompactMin = 1
  Growth = 1
  MaxLog = 3
  MaxTotal = 3
  MaxUser = 2
  MaxSeq <- TheMaxSeq
CHECK_DEADLOCK FALSE
INVARIANT AskedOfSaver

\* Every request, two writers that take turns, and every fault under which the queue keeps its order.
CONSTANTS
  n1 = n1
  n2 = n2
  w1 = w1
  w2 = w2
  s1 = s1
  s2 = s2
  Note = {n1, n2}
  Root = Root
  None = None
  Linked = {}
  System = {}
  Cap = 9
  Session = {s1}
  Writer = {w1, w2}
  Free = Free
  Requests = {"write", "patch", "append", "mkdir", "remove", "removeAll", "rename"}
  MarkOf = {FALSE}
  Count = 2
  MaxRequests = 2
  Fault = {"crash", "queue", "del", "trim", "get", "publish", "enqueue"}
  MaxFaults = 1

SPECIFICATION FairSpec
INVARIANTS
  TypeOK
  PrefixApplied
PROPERTIES
  ImplementsLog
  EventuallyApplied
  LeaderReturns

\* The bounds on requests and faults stop the system in the end.
CHECK_DEADLOCK FALSE

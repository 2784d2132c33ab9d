\* What replicas serve and extend, where no rename, cap or system note is involved.
CONSTANTS
  n1 = n1
  n2 = n2
  w1 = w1
  w2 = w2
  s1 = s1
  s2 = s2
  Note = {n1}
  Root = Root
  None = None
  Linked = {}
  System = {}
  Cap = 9
  Session = {s1}
  Writer = {w1}
  Free = Free
  Requests = {"write", "patch", "append", "mkdir", "remove", "removeAll"}
  MarkOf = {TRUE, FALSE}
  Count = 64
  MaxRequests = 4
  Fault = {"crash", "queue", "del", "renew", "expire", "trim"}
  MaxFaults = 1

SPECIFICATION Spec
INVARIANTS
  DrainedAgree
  ExtendsLatest

\* The bounds on requests and faults stop the system in the end.
CHECK_DEADLOCK FALSE

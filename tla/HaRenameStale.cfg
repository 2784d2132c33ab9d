\* A rename puts an older body back over a newer write.
CONSTANTS
  n1 = n1
  n2 = n2
  w1 = w1
  w2 = w2
  s1 = s1
  s2 = s2
  Note = {n1, n2}
  Root = Root
  None = None
  Linked = {}
  System = {}
  Cap = 9
  Session = {s1}
  Writer = {w1}
  Free = Free
  Requests = {"write", "rename"}
  MarkOf = {FALSE}
  Count = 64
  MaxRequests = 3
  Fault = {}
  MaxFaults = 0

SPECIFICATION Spec
INVARIANTS
  DrainedAgree

\* The bounds on requests and faults stop the system in the end.
CHECK_DEADLOCK FALSE

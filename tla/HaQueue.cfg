\* Two writers that may both run, and every fault of the queue.
CONSTANTS
  n1 = n1
  n2 = n2
  w1 = w1
  w2 = w2
  s1 = s1
  s2 = s2
  Note = {n1}
  Root = Root
  None = None
  Linked = {}
  System = {}
  Cap = 9
  Session = {s1}
  Writer = {w1, w2}
  Free = Free
  Requests = {"write"}
  MarkOf = {FALSE}
  Count = 64
  MaxRequests = 2
  Fault = {"expire", "crash", "ack", "apply", "renew", "del", "trim"}
  MaxFaults = 3

SPECIFICATION Spec
SYMMETRY WriterSymmetry
INVARIANTS
  QueueKept

\* The bounds on requests and faults stop the system in the end.
CHECK_DEADLOCK FALSE

\* As MCPtraceAttach: does an exiting thread get retried until the deadline?
CONSTANTS
  m = m
  t1 = t1
  t2 = t2
  Main = m
  HasInitPid = TRUE
  Tids <- MCTids
SPECIFICATION Spec
INVARIANT
  RetriesUntilDeadline

\* The main thread and two more thread ids, alive, exiting, spawning or not
\* yet created when SandboxMeHere() is called.
CONSTANTS
  m = m
  t1 = t1
  t2 = t2
  Main = m
  HasInitPid = TRUE
  Tids <- MCTids
SPECIFICATION Spec
INVARIANTS
  AttachTypeOK
  AllThreadsTraced
PROPERTIES
  AttachTerminates

\* A sandbox already past its execve whose main thread and one more thread
\* read, clone, abort, exit and hit the policy's kill; exit statuses are
\* collected with stack traces on exit and all stack traces are logged.
CONSTANTS
  m = m
  t1 = t1
  t2 = t2
  Main = m
  Threads <- MCThreads1
  Syscalls <- MCSyscallsThreads
  KilledSyscalls = {}
  ExitCodes = {1}
  PreExecve = FALSE
  LeaderExit = FALSE
  CollectStacktraceOnExit = TRUE
  LogAllStackTraces = TRUE
  NetworkProxy = FALSE
  WallTimeLimit = TRUE
  MaxLimitChanges = 0
  ExternalCalls = {}
  StackDumpPossible = TRUE
SPECIFICATION Spec
INVARIANTS
  ResultJustified
  InspectionTracksSyscall
  
PROPERTIES
  Termination

\* A pre-execve sandbox that exits before its execve, with stack traces collected on exit.
CONSTANTS
  m = m
  t1 = t1
  t2 = t2
  Main = m
  Threads <- MCNoThreads
  Syscalls <- MCSyscallsThreads
  KilledSyscalls = {}
  ExitCodes = {1}
  PreExecve = TRUE
  LeaderExit = FALSE
  CollectStacktraceOnExit = TRUE
  LogAllStackTraces = FALSE
  NetworkProxy = FALSE
  WallTimeLimit = TRUE
  MaxLimitChanges = 0
  ExternalCalls = {}
  StackDumpPossible = TRUE
SPECIFICATION Spec
INVARIANT
  ResultJustified

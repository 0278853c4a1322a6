\* A pre-execve sandbox, single-threaded, issuing every traced syscall; the
\* caller may Kill() and DumpStack(), the wall-time limit may be changed once,
\* and a network proxy may report a violation.
CONSTANTS
  m = m
  t1 = t1
  t2 = t2
  Main = m
  Threads <- MCNoThreads
  Syscalls <- MCSyscallsAll
  KilledSyscalls <- MCKilledSyscalls
  ExitCodes = {1}
  PreExecve = TRUE
  LeaderExit = FALSE
  CollectStacktraceOnExit = FALSE
  LogAllStackTraces = FALSE
  NetworkProxy = TRUE
  WallTimeLimit = TRUE
  MaxLimitChanges = 1
  ExternalCalls = {"Kill", "DumpStack"}
  StackDumpPossible = TRUE
SPECIFICATION Spec
INVARIANTS
  TypeOK
  ResultJustified
  SyscallAuthorized
  InspectionTracksSyscall
PROPERTIES
  Termination
  DumpStackServed

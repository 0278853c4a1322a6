\* The main thread may call exit() and leave its zombie to the other thread,
\* which may still clone, abort, exit_group or be killed by the policy; the
\* caller may Kill() the sandbox, hitting a group whose leader is a zombie.
CONSTANTS
  m = m
  t1 = t1
  t2 = t2
  Main = m
  Threads <- MCThreads1
  Syscalls <- MCSyscallsThreads
  KilledSyscalls = {}
  ExitCodes = {1}
  PreExecve = FALSE
  LeaderExit = TRUE
  CollectStacktraceOnExit = FALSE
  LogAllStackTraces = TRUE
  NetworkProxy = FALSE
  WallTimeLimit = TRUE
  MaxLimitChanges = 0
  ExternalCalls = {"Kill"}
  StackDumpPossible = TRUE
SPECIFICATION Spec
INVARIANTS
  ResultJustified
  InspectionTracksSyscall
PROPERTIES
  Termination

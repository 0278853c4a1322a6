\* The policy kills one thread (SECCOMP_RET_KILL_THREAD) while another is
\* alive: the other thread's exit_group() can land between
\* PTRACE_GETEVENTMSG and Regs::Fetch() of the killed thread's exit event.
CONSTANTS
  m = m
  t1 = t1
  t2 = t2
  Main = m
  Threads <- MCThreads1
  Syscalls <- MCSyscallsThreads
  KilledSyscalls <- MCKilledSyscalls
  ExitCodes = {1}
  PreExecve = FALSE
  LeaderExit = FALSE
  CollectStacktraceOnExit = FALSE
  LogAllStackTraces = FALSE
  NetworkProxy = FALSE
  WallTimeLimit = TRUE
  MaxLimitChanges = 0
  ExternalCalls = {}
  StackDumpPossible = TRUE
SPECIFICATION Spec
INVARIANT
  ResultJustified

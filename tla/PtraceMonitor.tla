---------------------------- MODULE PtraceMonitor ----------------------------
(***************************************************************************)
(* sandbox2::PtraceMonitor (src/sandboxed_api/sandbox2/monitor_ptrace.cc): *)
(* the monitor thread's Run() loop and the ptrace-stop handlers it         *)
(* dispatches to, composed with the kernel / sandboxee environment         *)
(* (PtraceKernel), the PidWaiter, and the threads that call Kill(),        *)
(* DumpStack() and set_walltime_limit() (MonitorBase, modelled from        *)
(* spec.md because that code is not in the repository).                   *)
(***************************************************************************)
EXTENDS PidWaiter

CONSTANTS
  CollectStacktraceOnExit,  \* policy_->collect_stacktrace_on_exit_
  LogAllStackTraces,        \* --sandbox2_log_all_stack_traces
  NetworkProxy,             \* network_proxy_server_ != nullptr
  WallTimeLimit,            \* executor's wall_time_limit() != 0
  MaxLimitChanges,          \* bound on set_walltime_limit() calls
  ExternalCalls,            \* which of Kill() and DumpStack() callers use
  StackDumpPossible         \* libunwind_sbox_for_pid_ == 0 and the policy has a namespace

ASSUME CollectStacktraceOnExit \in BOOLEAN /\ LogAllStackTraces \in BOOLEAN
ASSUME NetworkProxy \in BOOLEAN /\ WallTimeLimit \in BOOLEAN
ASSUME MaxLimitChanges \in Nat
ASSUME ExternalCalls \subseteq {"Kill", "DumpStack"} /\ StackDumpPossible \in BOOLEAN

(* Result::StatusEnum and the reason codes the monitor uses (result.h).   *)
ResultStatuses == {"UNSET", "OK", "SETUP_ERROR", "VIOLATION", "SIGNALED",
                   "TIMEOUT", "EXTERNAL_KILL", "INTERNAL_ERROR"}
FAILED_PTRACE     == 2
FAILED_MONITOR    == 5
FAILED_FETCH      == 8
FAILED_INSPECT    == 10
FAILED_CHILD      == 11
VIOLATION_NETWORK == 268435456   \* 0x10000000, not a syscall number
NoSyscall         == -2          \* no entry in syscalls_in_progress_

VARIABLES
  mpc,              \* where the monitor thread is in Run()
  result,           \* result_: final_status and reason_code
  timedOut,         \* timed_out_
  externalKill,     \* external_kill_
  networkViolation, \* network_violation_
  shouldDumpStack,  \* should_dump_stack_
  waitForExecve,    \* wait_for_execve_
  sandboxeeExited,  \* Run()'s local sandboxee_exited
  inProgress,       \* syscalls_in_progress_: pid -> syscall number
  fetching,         \* a handler waiting on Regs::Fetch(): pid, event, event_msg
  killFlag,         \* external_kill_request_flag_ (clear = a request)
  dumpFlag,         \* dump_stack_request_flag_ (clear = a request)
  proxyViolation,   \* network_proxy_server_->violation_occurred_
  deadline,         \* deadline_millis_: "none", "armed" or "expired"
  limitChanges,     \* number of set_walltime_limit() calls so far
  killRequested,    \* ghost: Kill() has been called
  expiredEver,      \* ghost: the wall-time deadline has passed
  denied            \* ghost: syscall numbers Notify answered kDeny for

monitorVars == <<mpc, result, timedOut, externalKill, networkViolation,
                 shouldDumpStack, waitForExecve, sandboxeeExited, inProgress,
                 fetching>>
externalVars == <<killFlag, dumpFlag, proxyViolation, deadline, limitChanges,
                  killRequested, expiredEver, denied>>
vars == <<kernelVars, verdict, waiterVars, monitorVars, externalVars>>

Phases == {"setup", "head", "wait", "serve", "fetch", "shutdown", "sd_serve", "done"}

(* The handlers that go on to Regs::Fetch() after PTRACE_GETEVENTMSG. *)
FetchEvents == {"seccomp", "sysexit", "exit"}
NoFetch == [pid |-> Main, ev |-> "none", msg |-> 0]

TypeOK ==
  /\ KernelTypeOK
  /\ WaiterTypeOK
  /\ mpc \in Phases
  /\ result \in [status : ResultStatuses, reason : Int]
  /\ {timedOut, externalKill, networkViolation, shouldDumpStack, waitForExecve,
      sandboxeeExited, killFlag, dumpFlag, proxyViolation, killRequested,
      expiredEver} \subseteq BOOLEAN
  /\ inProgress \in [Tasks -> {NoSyscall, NR_read, NR_clone, NR_execve, NR_execveat}]
  /\ fetching \in [pid : Tasks, ev : FetchEvents \cup {"none"}, msg : Nat]
  /\ deadline \in {"none", "armed", "expired"}
  /\ limitChanges \in 0..MaxLimitChanges
  /\ denied \subseteq {NR_read, NR_clone, NR_execve, NR_execveat}

Init ==
  /\ KernelInit
  /\ WaiterInit
  /\ mpc = "setup"
  /\ result = [status |-> "UNSET", reason |-> 0]
  /\ timedOut = FALSE /\ externalKill = FALSE /\ networkViolation = FALSE
  /\ shouldDumpStack = FALSE
  /\ waitForExecve = PreExecve
  /\ sandboxeeExited = FALSE
  /\ inProgress = [t \in Tasks |-> NoSyscall]
  /\ fetching = NoFetch
  /\ killFlag = TRUE /\ dumpFlag = TRUE
  /\ proxyViolation = FALSE
  /\ deadline = IF WallTimeLimit THEN "armed" ELSE "none"
  /\ limitChanges = 0
  /\ killRequested = FALSE /\ expiredEver = FALSE /\ denied = {}

-----------------------------------------------------------------------------
(* MonitorBase::SetExitStatusCode: only the first final status sticks.    *)
SetExitStatusCode(status, reason) ==
  result' = IF result.status = "UNSET"
            THEN [status |-> status, reason |-> reason]
            ELSE result

IsActivelyMonitoring == ~waitForExecve

PtraceEvent(s) == (s \div 65536) % 256   \* __WPTRACEEVENT

(* Mutation: a kill for the deadline is reported as a plain signal.      *)
SignaledResultNoTimeout(s) ==
  CASE networkViolation -> [status |-> "VIOLATION", reason |-> VIOLATION_NETWORK]
    [] externalKill     -> [status |-> "EXTERNAL_KILL", reason |-> 0]
    [] OTHER            -> [status |-> "SIGNALED", reason |-> WTERMSIG(s)]

(* Run(), main PID terminated with a signal: the monitor's own flags      *)
(* decide what the kill is attributed to.                                 *)
SignaledResult(s) ==
  CASE networkViolation -> [status |-> "VIOLATION", reason |-> VIOLATION_NETWORK]
    [] externalKill     -> [status |-> "EXTERNAL_KILL", reason |-> 0]
    [] timedOut         -> [status |-> "TIMEOUT", reason |-> 0]
    [] OTHER            -> [status |-> "SIGNALED", reason |-> WTERMSIG(s)]

(* EventPtraceExit, main PID: the same chain, with a normal exit in it.  *)
ExitEventResult(msg) ==
  CASE networkViolation -> [status |-> "VIOLATION", reason |-> VIOLATION_NETWORK]
    [] externalKill     -> [status |-> "EXTERNAL_KILL", reason |-> 0]
    [] timedOut         -> [status |-> "TIMEOUT", reason |-> 0]
    [] WIFEXITED(msg)   -> [status |-> "OK", reason |-> WEXITSTATUS(msg)]
    [] OTHER            -> [status |-> "SIGNALED", reason |-> WTERMSIG(msg)]

SetResult(r) == SetExitStatusCode(r.status, r.reason)

(* The handler for the front entry <<t, s>> of the PidWaiter: Wait()      *)
(* pops it.                                                               *)
Serving(t, s) ==
  /\ mpc = "serve"
  /\ statuses # <<>> /\ statuses[1] = <<t, s>>
  /\ statuses' = Tail(statuses)
  /\ UNCHANGED lastErrno

(* PTRACE_GETEVENTMSG, and Regs::Fetch() after it, succeed only on a task  *)
(* in a ptrace-stop; otherwise they fail with ESRCH (NotFound).           *)
EventMsgOk(t) == ks[t] = "stopped"

(* The ptrace requests that resume a tracee (file-local helpers).         *)
ContinueProcess(t, sig) == Resume(t, sig, FALSE)
CompleteSyscall(t)      == Resume(t, 0, TRUE)
StopProcess(t)          == UNCHANGED kernelVars   \* PTRACE_LISTEN

(* StateProcessStopped: a pending DumpStack() is served at the first      *)
(* event-stop of the main PID after PTRACE_GETEVENTMSG succeeded, when a  *)
(* stack trace can be taken at all; a failed unwind is only logged.       *)
StackDumped(t) ==
  shouldDumpStack' = IF t = Main /\ StackDumpPossible THEN FALSE ELSE shouldDumpStack

(* A handler returns to the loop, or waits on Regs::Fetch() first. *)
Returned == mpc' = "head" /\ UNCHANGED fetching
FetchRegs(t, ev, msg) == mpc' = "fetch" /\ fetching' = [pid |-> t, ev |-> ev, msg |-> msg]

-----------------------------------------------------------------------------
(***************************************************************************)
(* Set-up: InitSetupSignals(), InitPtraceAttach(), then the setup         *)
(* notification.  The attach protocol itself is PtraceAttach.tla.         *)
(***************************************************************************)
SetupDone ==
  /\ mpc = "setup"
  /\ mpc' = "head"
  /\ UNCHANGED <<kernelVars, verdict, waiterVars, result, timedOut, externalKill,
                 networkViolation, shouldDumpStack, waitForExecve, sandboxeeExited,
                 inProgress, externalVars, fetching>>

SetupFailed ==
  /\ mpc = "setup"
  /\ SetExitStatusCode("SETUP_ERROR", FAILED_PTRACE)
  /\ mpc' = "done"
  /\ UNCHANGED <<kernelVars, verdict, waiterVars, timedOut, externalKill,
                 networkViolation, shouldDumpStack, waitForExecve, sandboxeeExited,
                 inProgress, externalVars, fetching>>

(***************************************************************************)
(* Head of the while loop: the wall-time deadline, a DumpStack() request *)
(* (PTRACE_INTERRUPT), a Kill() request and a network violation, each     *)
(* test-and-set, each ending in kill(main_pid, SIGKILL) but the dump.     *)
(***************************************************************************)
(* Mutation: the expired deadline sets timed_out_ but kills nothing.    *)
LoopHeadNoDeadlineKill ==
  /\ mpc = "head"
  /\ result.status = "UNSET"
  /\ LET expired == deadline # "none" /\ deadline = "expired"
         dump    == ~dumpFlag
         kill    == ~killFlag
         net     == NetworkProxy /\ proxyViolation /\ ~networkViolation
     IN /\ timedOut' = (timedOut \/ expired)
        /\ shouldDumpStack' = (shouldDumpStack \/ dump)
        /\ externalKill' = (externalKill \/ kill)
        /\ networkViolation' = (networkViolation \/ net)
        /\ killFlag' = TRUE
        /\ dumpFlag' = TRUE
        /\ IF kill \/ net THEN KillGroup
           ELSE IF dump THEN Interrupt(Main)
           ELSE UNCHANGED kernelVars
  /\ mpc' = "wait"
  /\ UNCHANGED <<verdict, waiterVars, result, waitForExecve, sandboxeeExited,
                 inProgress, proxyViolation, deadline, limitChanges,
                 killRequested, expiredEver, denied, fetching>>

(* Mutation: the dump request is recorded but the main PID not interrupted. *)
LoopHeadNoInterrupt ==
  /\ mpc = "head"
  /\ result.status = "UNSET"
  /\ LET expired == deadline # "none" /\ deadline = "expired"
         dump    == ~dumpFlag
         kill    == ~killFlag
         net     == NetworkProxy /\ proxyViolation /\ ~networkViolation
     IN /\ timedOut' = (timedOut \/ expired)
        /\ shouldDumpStack' = (shouldDumpStack \/ dump)
        /\ externalKill' = (externalKill \/ kill)
        /\ networkViolation' = (networkViolation \/ net)
        /\ killFlag' = TRUE
        /\ dumpFlag' = TRUE
        /\ IF expired \/ kill \/ net THEN KillGroup ELSE UNCHANGED kernelVars
  /\ mpc' = "wait"
  /\ UNCHANGED <<verdict, waiterVars, result, waitForExecve, sandboxeeExited,
                 inProgress, proxyViolation, deadline, limitChanges,
                 killRequested, expiredEver, denied, fetching>>

LoopHead ==
  /\ mpc = "head"
  /\ result.status = "UNSET"
  /\ LET expired == deadline # "none" /\ deadline = "expired"
         dump    == ~dumpFlag
         kill    == ~killFlag
         net     == NetworkProxy /\ proxyViolation /\ ~networkViolation
     IN /\ timedOut' = (timedOut \/ expired)
        /\ shouldDumpStack' = (shouldDumpStack \/ dump)
        /\ externalKill' = (externalKill \/ kill)
        /\ networkViolation' = (networkViolation \/ net)
        /\ killFlag' = TRUE
        /\ dumpFlag' = TRUE
        /\ IF expired \/ kill \/ net THEN KillGroup
           ELSE IF dump THEN Interrupt(Main)
           ELSE UNCHANGED kernelVars
  /\ mpc' = "wait"
  /\ UNCHANGED <<verdict, waiterVars, result, waitForExecve, sandboxeeExited,
                 inProgress, proxyViolation, deadline, limitChanges,
                 killRequested, expiredEver, denied, fetching>>

(* Wait(): refill the PidWaiter when it has nothing buffered.            *)
WaitRefill ==
  /\ mpc \in {"wait", "shutdown"}
  /\ IF NeedsRefill THEN RefillStatuses ELSE UNCHANGED <<kernelVars, waiterVars>>
  /\ mpc' = IF mpc = "wait" THEN "serve" ELSE "sd_serve"
  /\ UNCHANGED <<verdict, result, timedOut, externalKill, networkViolation,
                 shouldDumpStack, waitForExecve, sandboxeeExited, inProgress,
                 externalVars, fetching>>

(* Wait() returned 0 (sigtimedwait for SIGCHLD, loop) or -1 (ECHILD:      *)
(* FAILED_CHILD).                                                         *)
WaitNothing ==
  /\ mpc = "serve"
  /\ statuses = <<>>
  /\ lastErrno' = 0
  /\ IF lastErrno = ECHILD THEN SetExitStatusCode("INTERNAL_ERROR", FAILED_CHILD)
                           ELSE UNCHANGED result
  /\ mpc' = "head"
  /\ UNCHANGED <<kernelVars, verdict, statuses, timedOut, externalKill,
                 networkViolation, shouldDumpStack, waitForExecve,
                 sandboxeeExited, inProgress, externalVars, fetching>>

(* The loop ends once a final status is set; unless the main PID was     *)
(* reaped, kill it (not when logging stack traces) and drain.            *)
LogStackTraces == result.status # "OK" /\ LogAllStackTraces

LoopExit ==
  /\ mpc = "head"
  /\ result.status # "UNSET"
  /\ IF sandboxeeExited
     THEN mpc' = "done" /\ UNCHANGED kernelVars
     ELSE /\ mpc' = "shutdown"
          /\ IF LogStackTraces THEN UNCHANGED kernelVars ELSE KillGroup
  /\ UNCHANGED <<verdict, waiterVars, result, timedOut, externalKill,
                 networkViolation, shouldDumpStack, waitForExecve,
                 sandboxeeExited, inProgress, externalVars, fetching>>

-----------------------------------------------------------------------------
ViolationSkipWithErrno(t, kind) ==
  /\ SetExitStatusCode("VIOLATION", regsNr[t])
  /\ regsNr' = [regsNr EXCEPT ![t] = -38]
  /\ verdict' = [verdict EXCEPT ![t] = kind]
  /\ UNCHANGED <<ks, stopStatus, eventMsg, waited, exitStatus, sysTrace, execed,
                 afterExec, selfSignals, exitCodes, kOffenses, trapPending>>

ActionProcessSyscallViolation(t, kind) ==
  /\ SetExitStatusCode("VIOLATION", regsNr[t])
  /\ regsNr' = [regsNr EXCEPT ![t] = NR_skip]   \* SkipSyscallReturnValue
  /\ verdict' = [verdict EXCEPT ![t] = kind]
  /\ UNCHANGED <<ks, stopStatus, eventMsg, waited, exitStatus, sysTrace, execed,
                 afterExec, selfSignals, exitCodes, kOffenses, trapPending>>

(* Before the sandboxing is enabled the first execveat is let through.   *)
AllowBeforeExecve(t) ==
  /\ verdict' = [verdict EXCEPT ![t] = "early"]
  /\ ContinueProcess(t, 0)
  /\ UNCHANGED <<result, inProgress, denied>>

(* Otherwise Notify::EventSyscallTrace answers kAllow, kInspectAfterReturn *)
(* or anything else (a violation).  The permit-all and log-file overrides  *)
(* behave as a kAllow answer.                                             *)
NotifySyscallTrace(t) ==
  \E answer \in {"allow", "inspect", "deny"} :
    CASE answer = "allow" ->
           /\ verdict' = [verdict EXCEPT ![t] = "allow"]
           /\ ContinueProcess(t, 0)
           /\ UNCHANGED <<result, inProgress, denied>>
      [] answer = "inspect" ->
           /\ inProgress' = [inProgress EXCEPT ![t] = regsNr[t]]
           /\ verdict' = [verdict EXCEPT ![t] = "inspect"]
           /\ CompleteSyscall(t)
           /\ UNCHANGED <<result, denied>>
      [] OTHER ->
           /\ ActionProcessSyscallViolation(t, "deny")
           /\ denied' = denied \cup {regsNr[t]}
           /\ UNCHANGED inProgress

(* Mutation: the pre-execve exemption without its IsActivelyMonitoring() test. *)
ActionProcessSyscallAnyExecveat(t) ==
  IF regsNr[t] = NR_execveat THEN AllowBeforeExecve(t) ELSE NotifySyscallTrace(t)

ActionProcessSyscall(t) ==
  IF regsNr[t] = NR_execveat /\ ~IsActivelyMonitoring
  THEN AllowBeforeExecve(t)
  ELSE NotifySyscallTrace(t)

(* SECCOMP_RET_DATA outside [kUnknown, kMax] is taken for an exit status; *)
(* otherwise the handler goes on to Regs::Fetch().                        *)
EventPtraceSeccomp(t, msg) ==
  /\ IF msg < ArchUnknown \/ msg > ArchMax THEN Returned ELSE FetchRegs(t, "seccomp", msg)
  /\ UNCHANGED <<kernelVars, verdict, result, inProgress, denied>>

(* The rest of EventPtraceSeccomp, on the fetched registers. *)
SeccompFetched(t, msg) ==
  IF msg # ArchHost
  THEN ActionProcessSyscallViolation(t, "arch") /\ UNCHANGED <<inProgress, denied>>
  ELSE ActionProcessSyscall(t)

EventSyscallExit(t) ==
  /\ IF inProgress[t] = NoSyscall
     THEN SetExitStatusCode("INTERNAL_ERROR", FAILED_INSPECT) /\ Returned
     ELSE FetchRegs(t, "sysexit", 0) /\ UNCHANGED result
  /\ UNCHANGED <<kernelVars, verdict, inProgress, denied>>

(* The rest of EventSyscallExit: EventSyscallReturn, erase, continue. *)
SyscallExitFetched(t) ==
  /\ inProgress' = [inProgress EXCEPT ![t] = NoSyscall]
  /\ ContinueProcess(t, 0)
  /\ UNCHANGED <<verdict, result, denied>>

(* Mutation: the pending entry is checked but not erased.                 *)
EventPtraceNewProcessKeepsEntry(t) ==
  /\ IF inProgress[t] \notin {NoSyscall, NR_clone}
     THEN SetExitStatusCode("INTERNAL_ERROR", FAILED_INSPECT) /\ UNCHANGED kernelVars
     ELSE ContinueProcess(t, 0) /\ UNCHANGED result
  /\ UNCHANGED <<verdict, denied, inProgress>>

(* PTRACE_EVENT_CLONE: a successful clone has no syscall-exit-stop.       *)
EventPtraceNewProcess(t) ==
  /\ IF inProgress[t] \notin {NoSyscall, NR_clone}
     THEN /\ SetExitStatusCode("INTERNAL_ERROR", FAILED_INSPECT)
          /\ UNCHANGED <<kernelVars, inProgress>>
     ELSE /\ inProgress' = [inProgress EXCEPT ![t] = NoSyscall]
          /\ ContinueProcess(t, 0)
          /\ UNCHANGED result
  /\ UNCHANGED <<verdict, denied>>

(* Mutation: the pending execve entry is never erased.                    *)
EventPtraceExecKeepsEntry(t) ==
  /\ waitForExecve' = FALSE
  /\ ContinueProcess(t, 0)
  /\ UNCHANGED <<result, inProgress, verdict, denied>>

(* PTRACE_EVENT_EXEC: the first one turns the sandboxing on.              *)
EventPtraceExec(t) ==
  /\ IF ~IsActivelyMonitoring
     THEN /\ waitForExecve' = FALSE
          /\ ContinueProcess(t, 0)
          /\ UNCHANGED <<result, inProgress>>
     ELSE /\ UNCHANGED waitForExecve
          /\ IF inProgress[t] \notin {NoSyscall, NR_execve, NR_execveat}
             THEN /\ SetExitStatusCode("INTERNAL_ERROR", FAILED_INSPECT)
                  /\ UNCHANGED <<kernelVars, inProgress>>
             ELSE /\ inProgress' = [inProgress EXCEPT ![t] = NoSyscall]
                  /\ ContinueProcess(t, 0)
                  /\ UNCHANGED result
  /\ UNCHANGED <<verdict, denied>>

(* PTRACE_EVENT_EXIT, msg being the exit status.  The entry is erased;   *)
(* a plain exit (of a thread, or without stack collection) is let go; the *)
(* registers are fetched for a SIGSYS death, the main PID, or when every  *)
(* stack trace is logged; any other task is let go unfetched.             *)
IsSeccompKill(msg) == WIFSIGNALED(msg) /\ WTERMSIG(msg) = SIGSYS

EventPtraceExit(t, msg) ==
  /\ inProgress' = [inProgress EXCEPT ![t] = NoSyscall]
  /\ IF \/ WIFEXITED(msg) /\ (~CollectStacktraceOnExit \/ t # Main)
        \/ ~(IsSeccompKill(msg) \/ t = Main \/ LogAllStackTraces)
     THEN ContinueProcess(t, 0) /\ Returned
     ELSE FetchRegs(t, "exit", msg) /\ UNCHANGED kernelVars
  /\ UNCHANGED <<verdict, result, denied>>

(* The rest of EventPtraceExit: a death by SIGSYS is the policy's kill, a *)
(* violation, and the task is left in its exit stop; the main PID's end   *)
(* decides the result.                                                    *)
ExitFetched(t, msg) ==
  /\ CASE IsSeccompKill(msg) ->
            ActionProcessSyscallViolation(t, "deny")
       [] t = Main ->
            SetResult(ExitEventResult(msg)) /\ ContinueProcess(t, 0) /\ UNCHANGED verdict
       [] OTHER ->
            ContinueProcess(t, 0) /\ UNCHANGED <<verdict, result>>
  /\ UNCHANGED <<inProgress, denied>>

(* PTRACE_EVENT_STOP: a real group-stop is held with PTRACE_LISTEN, the   *)
(* SIGTRAP stops of PTRACE_INTERRUPT and of new threads are resumed.      *)
StopSignals == {19, 20, 21, 22}   \* SIGSTOP, SIGTSTP, SIGTTIN, SIGTTOU
EventPtraceStop(t, stopsig) ==
  /\ IF stopsig \in StopSignals THEN StopProcess(t) ELSE ContinueProcess(t, 0)
  /\ UNCHANGED <<verdict, result, inProgress, denied>>
-----------------------------------------------------------------------------
(***************************************************************************)
(* One waitpid() status served by the loop body of Run().                 *)
(***************************************************************************)
\* Everything a served status leaves alone.
ServeFrame ==
  UNCHANGED <<timedOut, externalKill, networkViolation, killFlag, dumpFlag,
              proxyViolation, deadline, limitChanges, killRequested, expiredEver>>

(* Mutation: an exit before the execve is reported as OK.                 *)
HandleExitedAlwaysOk(t, s) ==
  /\ Serving(t, s) /\ WIFEXITED(s)
  /\ IF t = Main
     THEN SetExitStatusCode("OK", WEXITSTATUS(s)) /\ sandboxeeExited' = TRUE
     ELSE UNCHANGED <<result, sandboxeeExited>>
  /\ mpc' = "head"
  /\ UNCHANGED <<kernelVars, verdict, shouldDumpStack, waitForExecve, inProgress,
                 denied>>
  /\ ServeFrame /\ UNCHANGED fetching

(* WIFEXITED: only the main PID's exit ends the sandbox. *)
HandleExited(t, s) ==
  /\ Serving(t, s) /\ WIFEXITED(s)
  /\ IF t = Main
     THEN /\ IF IsActivelyMonitoring THEN SetExitStatusCode("OK", WEXITSTATUS(s))
             ELSE SetExitStatusCode("SETUP_ERROR", FAILED_MONITOR)
          /\ sandboxeeExited' = TRUE
     ELSE UNCHANGED <<result, sandboxeeExited>>
  /\ mpc' = "head"
  /\ UNCHANGED <<kernelVars, verdict, shouldDumpStack, waitForExecve, inProgress,
                 denied>>
  /\ ServeFrame /\ UNCHANGED fetching

HandleSignaled(t, s) ==
  /\ Serving(t, s) /\ WIFSIGNALED(s)
  /\ IF t = Main
     THEN SetResult(SignaledResult(s)) /\ sandboxeeExited' = TRUE
     ELSE UNCHANGED <<result, sandboxeeExited>>
  /\ mpc' = "head"
  /\ UNCHANGED <<kernelVars, verdict, shouldDumpStack, waitForExecve, inProgress,
                 denied>>
  /\ ServeFrame /\ UNCHANGED fetching

(* StateProcessStopped: a signal-delivery-stop is passed on to the task. *)
IsSignalDelivery(s) == PtraceEvent(s) = 0 /\ WSTOPSIG(s) # SyscallExitSig

HandleSignalDelivery(t, s) ==
  /\ Serving(t, s) /\ WIFSTOPPED(s) /\ IsSignalDelivery(s)
  /\ ContinueProcess(t, WSTOPSIG(s))
  /\ mpc' = "head"
  /\ UNCHANGED <<verdict, result, shouldDumpStack, waitForExecve, sandboxeeExited,
                 inProgress, denied>>
  /\ ServeFrame /\ UNCHANGED fetching

(* PTRACE_GETEVENTMSG fails with ESRCH: the task was killed since.        *)
HandleEventMsgFailed(t, s) ==
  /\ Serving(t, s) /\ WIFSTOPPED(s) /\ ~IsSignalDelivery(s)
  /\ ~EventMsgOk(t)
  /\ mpc' = "head"
  /\ UNCHANGED <<kernelVars, verdict, result, shouldDumpStack, waitForExecve,
                 sandboxeeExited, inProgress, denied>>
  /\ ServeFrame /\ UNCHANGED fetching

(* An event-stop whose PTRACE_GETEVENTMSG succeeded (after which a        *)
(* pending stack dump of the main PID is served), dispatched on the       *)
(* status waitpid() returned and the event message read now.             *)
HandleEvent(t, s) ==
  /\ Serving(t, s) /\ WIFSTOPPED(s) /\ ~IsSignalDelivery(s)
  /\ EventMsgOk(t)
  /\ StackDumped(t)
  /\ CASE WSTOPSIG(s) = SyscallExitSig ->
            EventSyscallExit(t) /\ UNCHANGED waitForExecve
       [] PtraceEvent(s) = PTRACE_EVENT_CLONE ->
            EventPtraceNewProcess(t) /\ Returned /\ UNCHANGED waitForExecve
       [] PtraceEvent(s) = PTRACE_EVENT_EXEC ->
            EventPtraceExec(t) /\ Returned
       [] PtraceEvent(s) = PTRACE_EVENT_EXIT ->
            EventPtraceExit(t, eventMsg[t]) /\ UNCHANGED waitForExecve
       [] PtraceEvent(s) = PTRACE_EVENT_STOP ->
            EventPtraceStop(t, WSTOPSIG(s)) /\ Returned /\ UNCHANGED waitForExecve
       [] PtraceEvent(s) = PTRACE_EVENT_SECCOMP ->
            EventPtraceSeccomp(t, eventMsg[t]) /\ UNCHANGED waitForExecve
  /\ UNCHANGED sandboxeeExited
  /\ ServeFrame

(***************************************************************************)
(* Regs::Fetch() (PTRACE_GETREGSET), a separate step: between it and      *)
(* PTRACE_GETEVENTMSG the sandboxee runs on.  A task leaves a ptrace-stop *)
(* the monitor holds only by SIGKILL (another thread's exit_group() or     *)
(* fatal signal); the fetch then fails with NotFound.                     *)
(***************************************************************************)
RegsFetched ==
  /\ mpc = "fetch" /\ ks[fetching.pid] = "stopped"
  /\ LET t == fetching.pid IN
     CASE fetching.ev = "seccomp" -> SeccompFetched(t, fetching.msg)
       [] fetching.ev = "sysexit" -> SyscallExitFetched(t)
       [] OTHER                   -> ExitFetched(t, fetching.msg)
  /\ mpc' = "head" /\ fetching' = NoFetch
  /\ UNCHANGED <<waiterVars, shouldDumpStack, waitForExecve, sandboxeeExited>>
  /\ ServeFrame

(* Mutation: NotFound is taken for a FAILED_FETCH in every handler.      *)
RegsNotFoundAsError ==
  /\ mpc = "fetch" /\ ks[fetching.pid] # "stopped"
  /\ SetExitStatusCode("INTERNAL_ERROR", FAILED_FETCH)
  /\ mpc' = "head" /\ fetching' = NoFetch
  /\ UNCHANGED <<kernelVars, verdict, waiterVars, shouldDumpStack, waitForExecve,
                 sandboxeeExited, inProgress, denied>>
  /\ ServeFrame

(* EventPtraceSeccomp and EventSyscallExit ignore NotFound ("process is   *)
(* killed in the meanwhile"); EventPtraceExit reports FAILED_FETCH.       *)
RegsNotFound ==
  /\ mpc = "fetch" /\ ks[fetching.pid] # "stopped"
  /\ IF fetching.ev = "exit" THEN SetExitStatusCode("INTERNAL_ERROR", FAILED_FETCH)
                             ELSE UNCHANGED result
  /\ mpc' = "head" /\ fetching' = NoFetch
  /\ UNCHANGED <<kernelVars, verdict, waiterVars, shouldDumpStack, waitForExecve,
                 sandboxeeExited, inProgress, denied>>
  /\ ServeFrame

-----------------------------------------------------------------------------
(***************************************************************************)
(* After the loop (sandboxee_exited false): drain until the main PID is   *)
(* reaped, -1 is returned, or the graceful-exit deadline passes.          *)
(***************************************************************************)
SdFrame ==
  UNCHANGED <<verdict, result, timedOut, externalKill, networkViolation,
              shouldDumpStack, waitForExecve, sandboxeeExited, inProgress,
              fetching, externalVars>>

SdTimeout ==
  /\ mpc = "shutdown"
  /\ mpc' = "done"
  /\ UNCHANGED <<kernelVars, waiterVars>>
  /\ SdFrame

SdNothing ==
  /\ mpc = "sd_serve"
  /\ statuses = <<>>
  /\ IF lastErrno # 0
     THEN lastErrno' = 0 /\ mpc' = "done"        \* -1: break
     ELSE UNCHANGED lastErrno /\ mpc' = "shutdown" \* 0: sigtimedwait
  /\ UNCHANGED <<kernelVars, statuses>>
  /\ SdFrame

SdMainDied(t, s) ==
  /\ mpc = "sd_serve"
  /\ statuses # <<>> /\ statuses[1] = <<t, s>>
  /\ ~LogStackTraces /\ t = Main /\ (WIFSIGNALED(s) \/ WIFEXITED(s))
  /\ statuses' = Tail(statuses)
  /\ mpc' = "done"
  /\ UNCHANGED <<kernelVars, lastErrno>>
  /\ SdFrame

SdOther(t, s) ==
  /\ mpc = "sd_serve"
  /\ statuses # <<>> /\ statuses[1] = <<t, s>>
  /\ ~(~LogStackTraces /\ t = Main /\ (WIFSIGNALED(s) \/ WIFEXITED(s)))
  /\ statuses' = Tail(statuses)
  /\ IF WIFSTOPPED(s) /\ PtraceEvent(s) = PTRACE_EVENT_EXIT
     THEN ContinueProcess(t, 0)
     ELSE IF LogStackTraces THEN UNCHANGED kernelVars ELSE KillGroup
  /\ mpc' = "shutdown"
  /\ UNCHANGED lastErrno
  /\ SdFrame

Done ==
  /\ mpc = "done"
  /\ UNCHANGED vars
-----------------------------------------------------------------------------
(***************************************************************************)
(* The other threads of the process: Sandbox2::Kill(), DumpStack() and    *)
(* set_walltime_limit() (MonitorBase), the clock, and the network proxy   *)
(* thread that flags a network violation.                                 *)
(***************************************************************************)
ExternalFrame ==
  UNCHANGED <<kernelVars, verdict, waiterVars, monitorVars>>

Kill ==
  /\ "Kill" \in ExternalCalls /\ mpc # "done" /\ killFlag
  /\ killFlag' = FALSE /\ killRequested' = TRUE
  /\ UNCHANGED <<dumpFlag, proxyViolation, deadline, limitChanges, expiredEver, denied>>
  /\ ExternalFrame

DumpStack ==
  /\ "DumpStack" \in ExternalCalls /\ mpc # "done" /\ dumpFlag
  /\ dumpFlag' = FALSE
  /\ UNCHANGED <<killFlag, proxyViolation, deadline, limitChanges, killRequested,
                 expiredEver, denied>>
  /\ ExternalFrame

(* set_walltime_limit(d): a new deadline in the future, or none for 0.    *)
SetWallTimeLimit ==
  /\ mpc # "done" /\ limitChanges < MaxLimitChanges
  /\ \E d \in {"armed", "none"} : deadline' = d
  /\ limitChanges' = limitChanges + 1
  /\ UNCHANGED <<killFlag, dumpFlag, proxyViolation, killRequested, expiredEver, denied>>
  /\ ExternalFrame

Clock ==
  /\ deadline = "armed"
  /\ deadline' = "expired" /\ expiredEver' = TRUE
  /\ UNCHANGED <<killFlag, dumpFlag, proxyViolation, limitChanges, killRequested, denied>>
  /\ ExternalFrame

ProxyViolation ==
  /\ NetworkProxy /\ mpc \notin {"setup", "done"} /\ ~proxyViolation
  /\ proxyViolation' = TRUE
  /\ UNCHANGED <<killFlag, dumpFlag, deadline, limitChanges, killRequested,
                 expiredEver, denied>>
  /\ ExternalFrame

-----------------------------------------------------------------------------
Serve(H(_, _)) == statuses # <<>> /\ H(statuses[1][1], statuses[1][2])

MonitorStep ==
  \/ SetupDone \/ SetupFailed
  \/ LoopHead \/ WaitRefill \/ WaitNothing \/ LoopExit
  \/ Serve(HandleExited) \/ Serve(HandleSignaled) \/ Serve(HandleSignalDelivery)
  \/ Serve(HandleEventMsgFailed) \/ Serve(HandleEvent)
  \/ RegsFetched \/ RegsNotFound
  \/ SdNothing \/ Serve(SdMainDied) \/ Serve(SdOther)

ExternalStep == Kill \/ DumpStack \/ SetWallTimeLimit \/ Clock \/ ProxyViolation

(* The sandboxee runs once attached, until the monitor has finished.     *)
SandboxeeActive == mpc \notin {"setup", "done"}

TaskStep ==
  /\ SandboxeeActive
  /\ SandboxeeStep
  /\ UNCHANGED <<waiterVars, monitorVars, externalVars>>

DyingTaskStep ==
  /\ SandboxeeActive
  /\ KernelStep
  /\ UNCHANGED <<waiterVars, monitorVars, externalVars>>

Next ==
  \/ MonitorStep
  \/ SdTimeout
  \/ ExternalStep
  \/ TaskStep
  \/ DyingTaskStep
  \/ Done

(* The monitor thread keeps running, the wall-time deadline passes, and a *)
(* SIGKILLed task finishes dying.  The graceful-exit deadline is checked  *)
(* at the top of every shutdown iteration: it passes while the loop keeps *)
(* coming back to the check, hence strong fairness.  The sandboxee itself *)
(* is not assumed to make progress.                                       *)
Spec ==
  /\ Init /\ [][Next]_vars
  /\ WF_vars(MonitorStep)
  /\ SF_vars(SdTimeout)
  /\ WF_vars(Clock)
  /\ WF_vars(DyingTaskStep)
-----------------------------------------------------------------------------
(***************************************************************************)
(* Properties.                                                             *)
(***************************************************************************)

(* The final status Run() reports is the truth about the sandboxee: OK    *)
(* carries a code the sandboxee passed to exit_group() (and, for a        *)
(* pre-execve sandbox, only after its execve); SIGNALED a signal it sent  *)
(* itself, never the SIGSYS of a policy kill; VIOLATION follows a syscall *)
(* the kernel saw offend the policy, one Notify denied, or the proxy's    *)
(* report; TIMEOUT and EXTERNAL_KILL a deadline that passed and a Kill()  *)
(* call; FAILED_MONITOR a sandboxee that never reached its execve; and no *)
(* internal error.  This is about the whole chain of handlers fed by the  *)
(* PidWaiter: a stale status or a late event can make one of them judge   *)
(* the wrong thing.                                                       *)
Offenses ==
  kOffenses \cup denied \cup (IF proxyViolation THEN {VIOLATION_NETWORK} ELSE {})

ResultJustified ==
  LET r == result IN
  CASE r.status = "UNSET" -> TRUE
    [] r.status = "OK" -> r.reason \in {WEXITSTATUS(ExitedStatus(c)) : c \in exitCodes}
                          /\ (PreExecve => execed)
    [] r.status = "SIGNALED" -> r.reason \in selfSignals \ {SIGSYS}
    [] r.status = "VIOLATION" -> Offenses # {}
    [] r.status = "TIMEOUT" -> expiredEver
    [] r.status = "EXTERNAL_KILL" -> killRequested
    [] r.status = "SETUP_ERROR" ->
         r.reason = FAILED_PTRACE \/ (r.reason = FAILED_MONITOR /\ PreExecve /\ ~execed)
    [] OTHER -> FALSE

SyscallAuthorized ==
  \A t \in Tasks :
    ks[t] = "insys" /\ regsNr[t] # NR_skip =>
      \/ verdict[t] \in {"allow", "inspect"}
      \/ verdict[t] = "early" /\ regsNr[t] = NR_execveat /\ ~afterExec[t]

(* syscalls_in_progress_ holds an entry for a live task only while that   *)
(* task is inside the syscall the monitor asked to inspect: every         *)
(* syscall-exit-stop, clone event and exec event consumes it before the   *)
(* task can issue the next syscall.                                       *)
InspectionTracksSyscall ==
  \A t \in Tasks :
    inProgress[t] # NoSyscall /\ ks[t] \in {"running", "insys", "stopped"} =>
      /\ ks[t] # "running"
      /\ inProgress[t] = regsNr[t]
      /\ verdict[t] = "inspect"

(* A DumpStack() request the loop head has taken is served: the main PID  *)
(* is interrupted, and whether it was running, blocked in a syscall or     *)
(* sitting in a stop the PidWaiter has not handed out yet, one of its      *)
(* event-stops reaches StateProcessStopped and the stack is dumped, unless *)
(* the monitor finishes first.  About PTRACE_INTERRUPT at the loop head    *)
(* and the main-PID test in StateProcessStopped (spec.md, loop step 2).   *)
DumpStackServed == shouldDumpStack ~> (~shouldDumpStack \/ mpc = "done")

(* Once a wall-time limit stays set, or Kill() is called, the monitor     *)
(* thread finishes Run() (and Join() can return).                         *)
Termination ==
  (<>[](deadline # "none") \/ <>killRequested) => <>(mpc = "done")
=============================================================================

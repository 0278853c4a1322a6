---------------------------- MODULE PtraceKernel ----------------------------
(***************************************************************************)
(* The environment of sandbox2's PtraceMonitor: the Linux ptrace / wait    *)
(* semantics for one traced thread group, and the steps the sandboxee      *)
(* takes on its own.  Nothing here is code of the repository; it is what  *)
(* the monitor's handlers (monitor_ptrace.cc) react to.                    *)
(*                                                                         *)
(* A task (thread id) is in one of these kernel states:                    *)
(*   absent   - not created yet (a slot a clone() may fill)                *)
(*   running  - executing sandboxee code                                   *)
(*   insys    - executing a traced syscall the monitor resumed             *)
(*   stopped  - in a ptrace-stop; stopStatus is what waitpid() reports,    *)
(*              eventMsg what PTRACE_GETEVENTMSG returns                   *)
(*   dying    - hit by SIGKILL (exit_group, fatal signal, kill()); every   *)
(*              ptrace request on it now fails with ESRCH                  *)
(*   zombie   - dead, exitStatus not yet collected by waitpid()            *)
(*   reaped   - collected; gone                                            *)
(***************************************************************************)
EXTENDS Integers, FiniteSets, Sequences

CONSTANTS
  Main,         \* the main PID (thread-group leader) the monitor cares about
  Threads,      \* the other thread ids of the group
  ExitCodes,    \* exit codes the sandboxee may pass to exit_group()
  PreExecve,    \* Executor::enable_sandboxing_pre_execve_
  Syscalls,     \* <<nr, arch>> pairs the sandboxee's code issues
  KilledSyscalls, \* numbers the BPF policy answers with SECCOMP_RET_KILL
  LeaderExit    \* the group leader may call exit() before the other threads

ASSUME Main \notin Threads
ASSUME ExitCodes \subseteq 0..255 /\ ExitCodes # {}
ASSUME PreExecve \in BOOLEAN /\ LeaderExit \in BOOLEAN

Tasks == {Main} \cup Threads

(* Linux values (x86_64). *)
SIGTRAP == 5
SIGABRT == 6
SIGKILL == 9
SIGUSR1 == 10
SIGSYS  == 31
PTRACE_EVENT_CLONE   == 3
PTRACE_EVENT_EXEC    == 4
PTRACE_EVENT_EXIT    == 6
PTRACE_EVENT_SECCOMP == 7
PTRACE_EVENT_STOP    == 128
NR_read     == 0
NR_clone    == 56
NR_execve   == 59
NR_ptrace   == 101   \* a syscall the BPF policy kills with SIGSYS
NR_execveat == 322
NR_skip     == -1    \* the number Regs::SkipSyscallReturnValue writes
ECHILD      == 10

(* sapi::cpu::Architecture: kUnknown = 0, kX8664 = 1, kX86 = 2, ... kMax.  *)
ArchUnknown == 0
ArchHost    == 1
ArchOther   == 2
ArchMax     == 5

ASSUME KilledSyscalls \subseteq {NR_ptrace}
ASSUME Syscalls \subseteq {NR_read, NR_clone, NR_execve, NR_execveat} \X {ArchHost, ArchOther}

(* waitpid() status words, encoded as the kernel encodes them. *)
ExitedStatus(code)      == code * 256
SignaledStatus(sig)     == sig
StoppedStatus(sig, ev)  == 127 + sig * 256 + ev * 65536
WIFEXITED(s)   == s % 128 = 0
WEXITSTATUS(s) == (s \div 256) % 256
WIFSIGNALED(s) == s % 128 \notin {0, 127}
WTERMSIG(s)    == s % 128
WIFSTOPPED(s)  == s % 256 = 127
WSTOPSIG(s)    == (s \div 256) % 256
SyscallExitSig == SIGTRAP + 128    \* SIGTRAP | 0x80 under PTRACE_O_TRACESYSGOOD

KStates == {"absent", "running", "insys", "stopped", "dying", "zombie", "reaped"}
Verdicts == {"none", "allow", "inspect", "early", "deny", "arch"}

VARIABLES
  ks,           \* kernel state of each task
  stopStatus,   \* waitpid() status of the current ptrace-stop
  eventMsg,     \* PTRACE_GETEVENTMSG value of the current ptrace-stop
  regsNr,       \* syscall number in the task's registers (orig_rax)
  waited,       \* the current stop has already been collected by waitpid()
  exitStatus,   \* status the task dies / died with
  sysTrace,     \* resumed with PTRACE_SYSCALL: a syscall-exit-stop follows
  execed,       \* the sandboxee has completed an execve
  afterExec,    \* the current syscall was issued after the first execve
  verdict,      \* ghost: the monitor's decision on the task's current syscall
  selfSignals,  \* ghost: fatal signals the sandboxee delivered to itself
  exitCodes,    \* ghost: codes passed to exit_group() or the leader's exit()
  kOffenses,    \* ghost: syscall numbers the kernel saw offend the policy
  trapPending   \* tasks PTRACE_INTERRUPT has left a trap pending in (JOBCTL_TRAP_STOP)

kernelVars == <<ks, stopStatus, eventMsg, regsNr, waited, exitStatus, sysTrace,
                execed, afterExec, selfSignals, exitCodes, kOffenses, trapPending>>

Live(t)       == ks[t] \in {"running", "insys", "stopped", "dying"}
Gone(t)       == ks[t] \in {"absent", "reaped"}
InExitStop(t) == ks[t] = "stopped" /\ stopStatus[t] \div 65536 = PTRACE_EVENT_EXIT
(* Not yet hit by the group's death: SIGKILL would still change its status. *)
Running(t)    == ks[t] \in {"running", "insys"} \/ (ks[t] = "stopped" /\ ~InExitStop(t))

KernelTypeOK ==
  /\ ks \in [Tasks -> KStates]
  /\ stopStatus \in [Tasks -> Nat]
  /\ eventMsg \in [Tasks -> Nat]
  /\ regsNr \in [Tasks -> {NR_skip, NR_read, NR_clone, NR_execve, NR_ptrace, NR_execveat}]
  /\ waited \in [Tasks -> BOOLEAN]
  /\ exitStatus \in [Tasks -> Nat]
  /\ sysTrace \in [Tasks -> BOOLEAN]
  /\ execed \in BOOLEAN
  /\ afterExec \in [Tasks -> BOOLEAN]
  /\ verdict \in [Tasks -> Verdicts]
  /\ selfSignals \subseteq {SIGABRT, SIGSYS}
  /\ exitCodes \subseteq ExitCodes
  /\ kOffenses \subseteq {NR_read, NR_clone, NR_execve, NR_ptrace, NR_execveat}
  /\ trapPending \subseteq Tasks

KernelInit ==
  /\ ks \in {f \in [Tasks -> {"running", "absent"}] :
               f[Main] = "running" /\ (PreExecve => \A t \in Threads : f[t] = "absent")}
  /\ stopStatus = [t \in Tasks |-> 0]
  /\ eventMsg = [t \in Tasks |-> 0]
  /\ regsNr = [t \in Tasks |-> NR_read]
  /\ waited = [t \in Tasks |-> FALSE]
  /\ exitStatus = [t \in Tasks |-> 0]
  /\ sysTrace = [t \in Tasks |-> FALSE]
  /\ execed = ~PreExecve
  /\ afterExec = [t \in Tasks |-> ~PreExecve]
  /\ verdict = [t \in Tasks |-> "none"]
  /\ selfSignals = {}
  /\ exitCodes = {}
  /\ kOffenses = {}
  /\ trapPending = {}

(***************************************************************************)
(* SIGKILL to the tasks in S (kill(), exit_group() zapping the other      *)
(* threads, a fatal signal, execve() de-threading): a task parked in its   *)
(* PTRACE_EVENT_EXIT stop is woken and finishes dying with the status it   *)
(* already had; any other live task starts dying with `status`.  A leader  *)
(* that already called exit() is a zombie whose reported status becomes    *)
(* the group's (signal->group_exit_code) if the group was still alive.     *)
(***************************************************************************)
ZapKs(S) ==
  [u \in Tasks |-> IF u \in S /\ ks[u] \in {"running", "insys", "stopped"}
                   THEN IF InExitStop(u) THEN "zombie" ELSE "dying"
                   ELSE ks[u]]
ZapStatus(S, status) ==
  [u \in Tasks |-> IF \/ u \in S /\ Running(u)
                      \/ u = Main /\ ks[u] = "zombie" /\ \E v \in S : Running(v)
                   THEN status ELSE exitStatus[u]]
ZapWaited(S) ==
  [u \in Tasks |-> IF u \in S /\ ks[u] \in {"running", "insys", "stopped"}
                   THEN FALSE ELSE waited[u]]

(* kill(main_pid, SIGKILL): the whole thread group. *)
KillGroup ==
  /\ ks' = ZapKs(Tasks)
  /\ exitStatus' = ZapStatus(Tasks, SignaledStatus(SIGKILL))
  /\ waited' = ZapWaited(Tasks)
  /\ UNCHANGED <<stopStatus, eventMsg, regsNr, sysTrace, execed, afterExec,
                 selfSignals, exitCodes, kOffenses, trapPending>>

(* Task t enters a ptrace-stop, replacing whatever it reported before. *)
StopAt(t, status, msg) ==
  /\ ks' = [ks EXCEPT ![t] = "stopped"]
  /\ stopStatus' = [stopStatus EXCEPT ![t] = status]
  /\ eventMsg' = [eventMsg EXCEPT ![t] = msg]
  /\ waited' = [waited EXCEPT ![t] = FALSE]

(* The whole group dies with `status`, t itself stopping at its exit event. *)
GroupExit(t, status) ==
  LET others == Tasks \ {t} IN
  /\ ks' = [ZapKs(others) EXCEPT ![t] = "stopped"]
  /\ stopStatus' = [stopStatus EXCEPT ![t] = StoppedStatus(SIGTRAP, PTRACE_EVENT_EXIT)]
  /\ eventMsg' = [eventMsg EXCEPT ![t] = status]
  /\ exitStatus' = [ZapStatus(Tasks, status) EXCEPT ![t] = status]
  /\ waited' = [ZapWaited(others) EXCEPT ![t] = FALSE]

(* Leaving a ptrace-stop: what waitpid() and PTRACE_GETEVENTMSG reported  *)
(* for it can no longer be read, so it is cleared.                        *)
Unstop(t) ==
  /\ stopStatus' = [stopStatus EXCEPT ![t] = 0]
  /\ eventMsg' = [eventMsg EXCEPT ![t] = 0]

(* Task t heads back to user code: a trap PTRACE_INTERRUPT left pending   *)
(* is taken first, as a PTRACE_EVENT_STOP.                                *)
ReturnToUser(t) ==
  IF t \in trapPending
  THEN /\ StopAt(t, StoppedStatus(SIGTRAP, PTRACE_EVENT_STOP), 0)
       /\ trapPending' = trapPending \ {t}
  ELSE /\ ks' = [ks EXCEPT ![t] = "running"]
       /\ Unstop(t)
       /\ UNCHANGED <<waited, trapPending>>

(***************************************************************************)
(* Resuming a stopped tracee (PTRACE_CONT with signal sig, or             *)
(* PTRACE_SYSCALL when traceExit).  A request on a task that is not in a  *)
(* ptrace-stop fails with ESRCH and changes nothing.                      *)
(***************************************************************************)
Resume(t, sig, traceExit) ==
  IF ks[t] # "stopped" THEN UNCHANGED kernelVars
  ELSE LET ev == stopStatus[t] \div 65536
           signalStop == ev = 0 /\ WSTOPSIG(stopStatus[t]) # SyscallExitSig
       IN CASE ev = PTRACE_EVENT_SECCOMP ->
                 /\ ks' = [ks EXCEPT ![t] = "insys"]
                 /\ sysTrace' = [sysTrace EXCEPT ![t] = traceExit]
                 /\ Unstop(t)
                 /\ UNCHANGED <<regsNr, waited, exitStatus,
                                execed, afterExec, selfSignals, exitCodes, kOffenses, trapPending>>
            [] ev = PTRACE_EVENT_EXIT ->
                 /\ ks' = [ks EXCEPT ![t] = "zombie"]
                 /\ waited' = [waited EXCEPT ![t] = FALSE]
                 /\ Unstop(t)
                 /\ UNCHANGED <<regsNr, exitStatus, sysTrace,
                                execed, afterExec, selfSignals, exitCodes, kOffenses, trapPending>>
            [] signalStop /\ sig = SIGABRT ->
                 \* the default action of SIGABRT kills the thread group
                 /\ GroupExit(t, SignaledStatus(SIGABRT))
                 /\ selfSignals' = selfSignals \cup {SIGABRT}
                 /\ UNCHANGED <<regsNr, sysTrace, execed, afterExec, exitCodes, kOffenses, trapPending>>
            [] OTHER ->
                 /\ sysTrace' = [sysTrace EXCEPT ![t] = FALSE]
                 /\ ReturnToUser(t)
                 /\ UNCHANGED <<regsNr, exitStatus,
                                execed, afterExec, selfSignals, exitCodes, kOffenses>>

(* PTRACE_INTERRUPT: a running task enters a PTRACE_EVENT_STOP at once; a  *)
(* task in a ptrace-stop or in a syscall gets the trap pending, taken     *)
(* when it next heads for user code; a dying or dead task never traps.    *)
Interrupt(t) ==
  /\ CASE ks[t] = "running" ->
            StopAt(t, StoppedStatus(SIGTRAP, PTRACE_EVENT_STOP), 0) /\ UNCHANGED trapPending
       [] ks[t] \in {"stopped", "insys"} ->
            trapPending' = trapPending \cup {t} /\ UNCHANGED <<ks, stopStatus, eventMsg, waited>>
       [] OTHER ->
            UNCHANGED <<ks, stopStatus, eventMsg, waited, trapPending>>
  /\ UNCHANGED <<regsNr, exitStatus, sysTrace, execed, afterExec,
                 selfSignals, exitCodes, kOffenses>>

(***************************************************************************)
(* waitpid(): which tasks have a status to report.  A dead group leader is *)
(* not reported while other threads of its group are still unreaped.      *)
(***************************************************************************)
Reportable(t) ==
  \/ ks[t] = "stopped" /\ ~waited[t]
  \/ ks[t] = "zombie" /\ (t = Main => \A u \in Threads : Gone(u))
StatusOf(t) == IF ks[t] = "stopped" THEN stopStatus[t] ELSE exitStatus[t]

(* The kernel side of collecting the statuses of the tasks in S. *)
Collect(S) ==
  /\ ks' = [u \in Tasks |-> IF u \in S /\ ks[u] = "zombie" THEN "reaped" ELSE ks[u]]
  /\ waited' = [u \in Tasks |-> IF u \in S THEN TRUE ELSE waited[u]]
  /\ UNCHANGED <<stopStatus, eventMsg, regsNr, exitStatus, sysTrace, execed,
                 afterExec, selfSignals, exitCodes, kOffenses, trapPending>>

-----------------------------------------------------------------------------
(***************************************************************************)
(* Steps of the sandboxee and of the kernel on its behalf.                 *)
(***************************************************************************)

(* Syscalls that reach the monitor through SECCOMP_RET_TRACE.  Before the *)
(* first execve of a pre-execve sandbox only the client's execveat runs.  *)
TracedSyscalls(t) ==
  IF PreExecve /\ ~execed
  THEN {<<NR_execveat, ArchHost>>}
  ELSE Syscalls

(* A task issues a traced syscall and stops in PTRACE_EVENT_SECCOMP with  *)
(* the syscall's architecture in SECCOMP_RET_DATA.                        *)
IssueSyscall(t) ==
  /\ ks[t] = "running"
  /\ \E sc \in TracedSyscalls(t) :
       /\ StopAt(t, StoppedStatus(SIGTRAP, PTRACE_EVENT_SECCOMP), sc[2])
       /\ regsNr' = [regsNr EXCEPT ![t] = sc[1]]
       /\ afterExec' = [afterExec EXCEPT ![t] = execed]
       /\ verdict' = [verdict EXCEPT ![t] = "none"]
       /\ kOffenses' = IF sc[2] # ArchHost THEN kOffenses \cup {sc[1]} ELSE kOffenses
  /\ UNCHANGED <<exitStatus, sysTrace, execed, selfSignals, exitCodes, trapPending>>

(* The BPF policy kills the offender (SECCOMP_RET_KILL, which is         *)
(* SECCOMP_RET_KILL_THREAD): while another thread of the group lives, t   *)
(* alone exits, do_exit(SIGSYS), stopping at its exit event; the last     *)
(* live thread instead takes a fatal SIGSYS, the group's death.           *)
SeccompKill(t) ==
  /\ ks[t] = "running"
  /\ ~(PreExecve /\ ~execed)
  /\ \E nr \in KilledSyscalls :
       /\ regsNr' = [regsNr EXCEPT ![t] = nr]
       /\ kOffenses' = kOffenses \cup {nr}
  /\ IF \E u \in Tasks \ {t} : Live(u)
     THEN /\ StopAt(t, StoppedStatus(SIGTRAP, PTRACE_EVENT_EXIT), SignaledStatus(SIGSYS))
          /\ exitStatus' = [exitStatus EXCEPT ![t] = SignaledStatus(SIGSYS)]
     ELSE GroupExit(t, SignaledStatus(SIGSYS))
  /\ selfSignals' = selfSignals \cup {SIGSYS}
  /\ UNCHANGED <<sysTrace, execed, afterExec, verdict, exitCodes, trapPending>>

(* A resumed syscall returns (a read, or a failed clone/execve): a        *)
(* syscall-exit-stop if the monitor asked for one.                        *)
SyscallReturn(t) ==
  /\ ks[t] = "insys"
  /\ IF sysTrace[t] /\ regsNr[t] # NR_skip
     THEN StopAt(t, StoppedStatus(SyscallExitSig, 0), 0) /\ UNCHANGED trapPending
     ELSE ReturnToUser(t)
  /\ UNCHANGED <<regsNr, exitStatus, sysTrace, execed, afterExec, verdict,
                 selfSignals, exitCodes, kOffenses>>

(* The kernel's side of a pending trap: a task blocked in a syscall is   *)
(* woken and the syscall returns (-ERESTARTSYS, restarted by a later      *)
(* IssueSyscall) through the same exit path.                              *)
SyscallInterrupted(t) ==
  /\ t \in trapPending
  /\ SyscallReturn(t)

(* A clone succeeds: the new thread u starts in a PTRACE_EVENT_STOP (auto- *)
(* attached under PTRACE_SEIZE), the parent stops in PTRACE_EVENT_CLONE.  *)
CloneDone(t) ==
  /\ ks[t] = "insys" /\ regsNr[t] = NR_clone
  /\ \E u \in Threads :
       /\ ks[u] = "absent"
       /\ ks' = [ks EXCEPT ![t] = "stopped", ![u] = "stopped"]
       /\ stopStatus' = [stopStatus EXCEPT ![t] = StoppedStatus(SIGTRAP, PTRACE_EVENT_CLONE),
                                           ![u] = StoppedStatus(SIGTRAP, PTRACE_EVENT_STOP)]
       /\ eventMsg' = [eventMsg EXCEPT ![t] = 0, ![u] = 0]
       /\ waited' = [waited EXCEPT ![t] = FALSE, ![u] = FALSE]
       /\ regsNr' = [regsNr EXCEPT ![u] = NR_read]
       /\ afterExec' = [afterExec EXCEPT ![u] = execed]
       /\ verdict' = [verdict EXCEPT ![u] = "none"]
  /\ UNCHANGED <<exitStatus, sysTrace, execed, selfSignals, exitCodes, kOffenses, trapPending>>

(* execve in the group leader first kills the other threads (de_thread). *)
ExecKillsThreads(t) ==
  /\ ks[t] = "insys" /\ regsNr[t] \in {NR_execve, NR_execveat} /\ t = Main
  /\ \E u \in Threads : ks[u] \in {"running", "insys", "stopped"}
  /\ ks' = ZapKs(Threads)
  /\ exitStatus' = ZapStatus(Threads, SignaledStatus(SIGKILL))
  /\ waited' = ZapWaited(Threads)
  /\ UNCHANGED <<stopStatus, eventMsg, regsNr, sysTrace, execed, afterExec,
                 verdict, selfSignals, exitCodes, kOffenses, trapPending>>

(* ... and completes once they are dead: PTRACE_EVENT_EXEC. *)
ExecDone(t) ==
  /\ ks[t] = "insys" /\ regsNr[t] \in {NR_execve, NR_execveat} /\ t = Main
  /\ \A u \in Threads : ~Live(u)
  /\ StopAt(t, StoppedStatus(SIGTRAP, PTRACE_EVENT_EXEC), 0)
  /\ execed' = TRUE
  /\ UNCHANGED <<regsNr, exitStatus, sysTrace, afterExec, verdict,
                 selfSignals, exitCodes, kOffenses, trapPending>>

(* exit_group(code) from any thread. *)
ExitGroup(t) ==
  /\ ks[t] = "running"
  /\ \E code \in ExitCodes :
       /\ GroupExit(t, ExitedStatus(code))
       /\ exitCodes' = exitCodes \cup {code}
  /\ UNCHANGED <<regsNr, sysTrace, execed, afterExec, verdict, selfSignals, kOffenses, trapPending>>

(* A non-leader thread returns from its start routine: exit(0). *)
ThreadExit(t) ==
  /\ t \in Threads /\ ks[t] = "running"
  /\ StopAt(t, StoppedStatus(SIGTRAP, PTRACE_EVENT_EXIT), ExitedStatus(0))
  /\ exitStatus' = [exitStatus EXCEPT ![t] = ExitedStatus(0)]
  /\ UNCHANGED <<regsNr, sysTrace, execed, afterExec, verdict,
                 selfSignals, exitCodes, kOffenses, trapPending>>

(* The group leader calls exit(code) while other threads may go on: it    *)
(* stops at PTRACE_EVENT_EXIT with its own status; resumed, it stays an   *)
(* unreported zombie until the other threads are gone.                    *)
LeaderThreadExit(t) ==
  /\ LeaderExit /\ t = Main /\ ks[t] = "running"
  /\ \E code \in ExitCodes :
       /\ StopAt(t, StoppedStatus(SIGTRAP, PTRACE_EVENT_EXIT), ExitedStatus(code))
       /\ exitStatus' = [exitStatus EXCEPT ![t] = ExitedStatus(code)]
       /\ exitCodes' = exitCodes \cup {code}
  /\ UNCHANGED <<regsNr, sysTrace, execed, afterExec, verdict, selfSignals, kOffenses, trapPending>>

(* A signal is sent to t (raise(SIGABRT) from abort(), or a handled      *)
(* SIGUSR1): signal-delivery-stop.                                        *)
RaiseSignal(t) ==
  /\ ks[t] = "running"
  /\ \E sig \in {SIGABRT, SIGUSR1} : StopAt(t, StoppedStatus(sig, 0), 0)
  /\ UNCHANGED <<regsNr, exitStatus, sysTrace, execed, afterExec, verdict,
                 selfSignals, exitCodes, kOffenses, trapPending>>

(* A task hit by SIGKILL finishes dying; whether it still stops at        *)
(* PTRACE_EVENT_EXIT first is up to the kernel (ptrace(2), BUGS).         *)
DyingStep(t) ==
  /\ ks[t] = "dying"
  /\ \/ StopAt(t, StoppedStatus(SIGTRAP, PTRACE_EVENT_EXIT), exitStatus[t])
     \/ /\ ks' = [ks EXCEPT ![t] = "zombie"]
        /\ waited' = [waited EXCEPT ![t] = FALSE]
        /\ UNCHANGED <<stopStatus, eventMsg>>
  /\ UNCHANGED <<regsNr, exitStatus, sysTrace, execed, afterExec, verdict,
                 selfSignals, exitCodes, kOffenses, trapPending>>

SandboxeeStep ==
  \E t \in Tasks :
    \/ IssueSyscall(t)
    \/ SeccompKill(t)
    \/ SyscallReturn(t)
    \/ CloneDone(t)
    \/ ExecKillsThreads(t)
    \/ ExecDone(t)
    \/ ExitGroup(t)
    \/ ThreadExit(t)
    \/ LeaderThreadExit(t)
    \/ RaiseSignal(t)

KernelStep == \E t \in Tasks : DyingStep(t) \/ SyscallInterrupted(t)
=============================================================================

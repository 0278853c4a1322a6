---------------------------- MODULE PtraceAttach ----------------------------
(***************************************************************************)
(* PtraceMonitor::InitPtraceAttach (monitor_ptrace.cc): PTRACE_SEIZE every *)
(* thread listed in /proc/<main>/task, retrying the ones that answer EPERM *)
(* (a thread in the middle of exiting) until a 2 s deadline, then re-list  *)
(* the threads and insist that exactly the attached ones are there.  The  *)
(* sandboxee's other threads keep running meanwhile: they may spawn new    *)
(* threads and exit.                                                       *)
(***************************************************************************)
EXTENDS FiniteSets

CONSTANTS
  Main,       \* the main PID
  Tids,       \* the other thread ids that exist or may be created
  HasInitPid  \* process_.init_pid > 0: a PID-namespace init to seize first

ASSUME Main \notin Tids /\ HasInitPid \in BOOLEAN

AllTids == {Main} \cup Tids

(* A thread id is unused, a live thread, a thread in the middle of exiting *)
(* (PTRACE_SEIZE fails with EPERM), or a dead one (ESRCH).                 *)
ThreadStates == {"none", "alive", "exiting", "dead"}

VARIABLES
  apc,          \* where InitPtraceAttach is
  tasks,        \* tasks: the ids still to be seized
  pending,      \* the ids of `tasks` the current for-loop pass has not tried
  tasksLeft,    \* tasks_left: ids that answered EPERM in this pass
  attached,     \* tasks_attached
  expired,      \* absl::Now() >= deadline (2 s after the first listing)
  tstate,       \* the kernel: state of each thread id
  traced,       \* the kernel: ids the monitor is the tracer of
  initAlive,    \* the kernel: the init process has not exited
  failReason    \* ghost: why InitPtraceAttach returned false

vars == <<apc, tasks, pending, tasksLeft, attached, expired, tstate, traced,
          initAlive, failReason>>

Live(t) == tstate[t] \in {"alive", "exiting"}
Listed  == {t \in AllTids : Live(t)}    \* sanitizer::GetListOfTasks

AttachTypeOK ==
  /\ apc \in {"init", "list", "seize", "relist", "notify", "ok", "failed"}
  /\ tasks \subseteq AllTids /\ pending \subseteq tasks
  /\ tasksLeft \subseteq AllTids /\ attached \subseteq AllTids
  /\ expired \in BOOLEAN
  /\ tstate \in [AllTids -> ThreadStates]
  /\ traced \subseteq AllTids
  /\ initAlive \in BOOLEAN
  /\ failReason \in {"none", "init", "list", "timeout", "new_threads", "comms"}

(* SandboxMeHere() was called with the main thread alive (it is blocked   *)
(* in it) and any number of other threads, some perhaps already exiting.  *)
AttachInit ==
  /\ apc = "init"
  /\ tasks = {} /\ pending = {} /\ tasksLeft = {} /\ attached = {}
  /\ expired = FALSE
  /\ tstate \in {f \in [AllTids -> ThreadStates] : f[Main] = "alive"}
  /\ traced = {}
  /\ initAlive \in BOOLEAN
  /\ failReason = "none"

Fail(reason) == apc' = "failed" /\ failReason' = reason

-----------------------------------------------------------------------------
(* PTRACE_SEIZE of the namespace's init process, if there is one: it     *)
(* fails (ESRCH) once init has exited.                                    *)
SeizeInit ==
  /\ apc = "init"
  /\ IF HasInitPid /\ ~initAlive THEN Fail("init") ELSE apc' = "list" /\ UNCHANGED failReason
  /\ UNCHANGED <<tasks, pending, tasksLeft, attached, expired, tstate, traced, initAlive>>

(* GetListOfTasks() reads /proc/<main>/task and may fail; the main PID    *)
(* must be in its own list.                                               *)
ListFailed ==
  /\ apc = "list"
  /\ Fail("list")
  /\ UNCHANGED <<tasks, pending, tasksLeft, attached, expired, tstate, traced, initAlive>>

(* Mutation: the listing is walked but not kept in `tasks`.               *)
ListTasksNotKept ==
  /\ apc = "list"
  /\ pending' = Listed
  /\ apc' = "seize"
  /\ UNCHANGED <<tasks, tasksLeft, attached, expired, tstate, traced, failReason, initAlive>>

(* The first GetListOfTasks() succeeds: without the main PID in it the    *)
(* attach fails, otherwise every listed task is to be seized.             *)
ListTasks ==
  /\ apc = "list"
  /\ IF Main \notin Listed
     THEN Fail("list") /\ UNCHANGED <<tasks, pending>>
     ELSE tasks' = Listed /\ pending' = Listed /\ apc' = "seize" /\ UNCHANGED failReason
  /\ UNCHANGED <<tasksLeft, attached, expired, tstate, traced, initAlive>>

(* One PTRACE_SEIZE of the for-loop, in the hash set's order.  A thread   *)
(* the monitor already traces answers EPERM as well.                      *)
Seize(t) ==
  /\ apc = "seize" /\ t \in pending
  /\ pending' = pending \ {t}
  /\ CASE tstate[t] = "alive" /\ t \notin traced ->
            attached' = attached \cup {t} /\ traced' = traced \cup {t}
            /\ UNCHANGED tasksLeft
       [] Live(t) ->                         \* EPERM: try again
            tasksLeft' = tasksLeft \cup {t} /\ UNCHANGED <<attached, traced>>
       [] OTHER ->                           \* ESRCH: skip the exited task
            UNCHANGED <<tasksLeft, attached, traced>>
  /\ UNCHANGED <<apc, tasks, expired, tstate, failReason, initAlive>>

(* After a pass: give up when the deadline is reached, otherwise back off *)
(* and try the EPERM tasks again.                                         *)
TimedOut == ~expired    \* `if (absl::Now() < deadline)`

(* Mutation: the next pass retries every task, not only the EPERM ones.   *)
EndPassRetryAll ==
  /\ apc = "seize" /\ pending = {}
  /\ IF tasksLeft # {} /\ TimedOut
     THEN Fail("timeout") /\ UNCHANGED <<tasks, pending, tasksLeft>>
     ELSE /\ pending' = tasks /\ tasksLeft' = {}
          /\ apc' = IF tasksLeft = {} THEN "relist" ELSE "seize"
          /\ UNCHANGED <<tasks, failReason>>
  /\ UNCHANGED <<attached, expired, tstate, traced, initAlive>>

EndPass ==
  /\ apc = "seize" /\ pending = {}
  /\ IF tasksLeft # {} /\ TimedOut
     THEN Fail("timeout") /\ UNCHANGED <<tasks, pending, tasksLeft>>
     ELSE /\ tasks' = tasksLeft /\ pending' = tasksLeft /\ tasksLeft' = {}
          /\ apc' = IF tasksLeft = {} THEN "relist" ELSE "seize"
          /\ UNCHANGED failReason
  /\ UNCHANGED <<attached, expired, tstate, traced, initAlive>>

(* The second GetListOfTasks(): it may fail, and a thread spawned or gone *)
(* since makes the lists differ.                                          *)
(* Mutation: the second listing is not compared with the attached set.    *)
RelistUnchecked ==
  /\ apc = "relist"
  /\ apc' = "notify"
  /\ UNCHANGED <<tasks, pending, tasksLeft, attached, expired, tstate, traced, failReason, initAlive>>

Relist ==
  /\ apc = "relist"
  /\ \/ Fail("list")
     \/ IF attached # Listed THEN Fail("new_threads") ELSE apc' = "notify" /\ UNCHANGED failReason
  /\ UNCHANGED <<tasks, pending, tasksLeft, attached, expired, tstate, traced, initAlive>>

(* Comms::SendUint32(kSandbox2ClientDone) into the buffered socketpair;   *)
(* it fails only when the sandboxee's end is closed.                      *)
SendClientDone ==
  /\ apc = "notify"
  /\ \/ apc' = "ok" /\ UNCHANGED failReason
     \/ Fail("comms")
  /\ UNCHANGED <<tasks, pending, tasksLeft, attached, expired, tstate, traced, initAlive>>

-----------------------------------------------------------------------------
(* The sandboxee's threads other than the blocked main thread.            *)

(* clone(): a traced parent's child is traced too (PTRACE_O_TRACECLONE). *)
Spawn(p, c) ==
  /\ apc \notin {"ok", "failed"}
  /\ p # Main /\ tstate[p] = "alive" /\ tstate[c] = "none"
  /\ tstate' = [tstate EXCEPT ![c] = "alive"]
  /\ traced' = IF p \in traced THEN traced \cup {c} ELSE traced
  /\ UNCHANGED <<apc, tasks, pending, tasksLeft, attached, expired, failReason, initAlive>>

StartExit(t) ==
  /\ apc \notin {"ok", "failed"}
  /\ t # Main /\ tstate[t] = "alive"
  /\ tstate' = [tstate EXCEPT ![t] = "exiting"]
  /\ UNCHANGED <<apc, tasks, pending, tasksLeft, attached, expired, traced, failReason, initAlive>>

FinishExit(t) ==
  /\ tstate[t] = "exiting"
  /\ tstate' = [tstate EXCEPT ![t] = "dead"]
  /\ traced' = traced \ {t}
  /\ UNCHANGED <<apc, tasks, pending, tasksLeft, attached, expired, failReason, initAlive>>

Clock ==
  /\ apc \notin {"init", "list", "ok", "failed"} /\ ~expired
  /\ expired' = TRUE
  /\ UNCHANGED <<apc, tasks, pending, tasksLeft, attached, tstate, traced, failReason, initAlive>>

Finished == apc \in {"ok", "failed"} /\ UNCHANGED vars

AttachStep ==
  \/ SeizeInit \/ ListFailed \/ ListTasks \/ (\E t \in AllTids : Seize(t)) \/ EndPass \/ Relist \/ SendClientDone

Next ==
  \/ AttachStep
  \/ \E p, c \in AllTids : Spawn(p, c)
  \/ \E t \in AllTids : StartExit(t) \/ FinishExit(t)
  \/ Clock
  \/ Finished

(* The monitor thread runs, the deadline passes, and an exiting thread    *)
(* finishes exiting; live threads need not exit.                          *)
Spec ==
  /\ AttachInit /\ [][Next]_vars
  /\ WF_vars(AttachStep) /\ WF_vars(Clock)
  /\ \A t \in AllTids : WF_vars(FinishExit(t))

-----------------------------------------------------------------------------
(* When InitPtraceAttach reports success every thread of the sandboxee   *)
(* is traced by the monitor: none was missed by the seize loop, none      *)
(* appeared behind its back.  About the retry loop and the re-listing.    *)
AllThreadsTraced ==
  apc \in {"notify", "ok"} => \A t \in AllTids : tstate[t] = "alive" => t \in traced

(* EPERM is retried until the 2 s deadline (spec.md, section 7): a        *)
(* thread in the middle of exiting never makes the attach fail before the *)
(* deadline.  About the deadline test after a pass.                       *)
RetriesUntilDeadline ==
  failReason = "timeout" => expired

(* InitPtraceAttach returns: the retry loop ends once every exiting      *)
(* thread has exited or the deadline has passed.                          *)
AttachTerminates == <>(apc \in {"ok", "failed"})
=============================================================================

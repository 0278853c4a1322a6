----------------------------- MODULE PidWaiter -----------------------------
(***************************************************************************)
(* PidWaiter (monitor_ptrace.cc, anonymous namespace): a starvation-free  *)
(* front end to waitpid().  RefillStatuses drains every ready child into  *)
(* a FIFO, polling the priority PID (the main PID) first; Wait() hands    *)
(* the FIFO out one entry per call and refills only when it is empty.     *)
(***************************************************************************)
EXTENDS PtraceKernel, SequencesExt

VARIABLES
  statuses,   \* statuses_: the drained <<pid, status>> pairs, served FIFO
  lastErrno   \* last_errno_: errno of the waitpid() that ended the drain

waiterVars == <<statuses, lastErrno>>

WaiterTypeOK ==
  /\ statuses \in Seq(Tasks \X Nat)
  /\ lastErrno \in {0, ECHILD}

WaiterInit ==
  /\ statuses = <<>>
  /\ lastErrno = 0

(* Wait() refills only when nothing is buffered and no error is pending. *)
NeedsRefill == statuses = <<>> /\ lastErrno = 0

(***************************************************************************)
(* RefillStatuses(): waitpid(priority_pid) first; -1 ends the drain with  *)
(* its errno.  Otherwise waitpid(-1) until it returns 0 (children left,   *)
(* none ready) or -1/ECHILD (no children left).  The kernel hands the     *)
(* ready children to waitpid(-1) in an order of its choosing.             *)
(***************************************************************************)
RefillStatuses ==
  IF Gone(Main)
  THEN /\ statuses' = <<>>
       /\ lastErrno' = ECHILD
       /\ UNCHANGED kernelVars
  ELSE LET first  == IF Reportable(Main) THEN <<Main>> ELSE <<>>
           others == {t \in Threads : Reportable(t)}
       IN \E order \in SetToSeqs(others) :
            LET drained == first \o order
                reaped  == {drained[i] : i \in DOMAIN drained}
                left    == {t \in Tasks : ~Gone(t) /\ ~(t \in reaped /\ ks[t] = "zombie")}
            IN /\ statuses' = [i \in DOMAIN drained |-> <<drained[i], StatusOf(drained[i])>>]
               /\ lastErrno' = IF left = {} THEN ECHILD ELSE 0
               /\ Collect(reaped)
=============================================================================

----------------------------- MODULE StackTrace -----------------------------
(***************************************************************************)
(* The unwinder helper and the monitor side that talks to it over Comms.  *)
(* RunLibUnwindAndSymbolizer(comms) (unwind.cc) receives UnwindSetup and  *)
(* the memory FD, unwinds (the Unwinder module), loads the symbol table   *)
(* and names every frame, then sends a status and, if it is OK, the       *)
(* UnwindResult.  The monitor side, MonitorBase::GetStackTrace, is not    *)
(* under src/ and is taken from spec.md (sections 4.D and 6, the Comms     *)
(* sub-protocol): send the setup and the FD, receive the status, then the *)
(* trace.  Comms is a socket pair: ordered and reliable, but any send may *)
(* fail, and a receive fails once the queue is empty and the peer has     *)
(* returned.                                                              *)
(***************************************************************************)
EXTENDS Unwinder, SymbolLookup

CONSTANTS
  Tables    \* the tables LoadSymbolsMap(pid) may build (Symbolizer: how)

NoTable == <<>>
Err == [ok |-> FALSE, trace |-> <<>>]

VARIABLES
  hpc,       \* the helper: "recv_setup", "recv_fd", "unwind", "symbolize",
             \*   "send_status", "send_result" or "returned"
  cpc,       \* the monitor side: "send_setup", "send_fd", "recv_status",
             \*   "recv_result" or "done"
  toHelper,  \* Comms messages in flight to the helper
  toClient,  \* Comms messages in flight to the monitor
  symtab,    \* addr_to_symbol of SymbolizeStacktrace, once loaded
  result,    \* the StatusOr of RunLibUnwindAndSymbolizer(pid, max_frames)
  answer     \* what the monitor side obtains

commsVars == <<hpc, cpc, toHelper, toClient, symtab, result, answer>>
allVars == <<vars, commsVars>>

StackTraceInit ==
  /\ UnwinderInit
  /\ hpc = "recv_setup" /\ cpc = "send_setup"
  /\ toHelper = <<>> /\ toClient = <<>>
  /\ symtab = NoTable /\ result = Err /\ answer = Err

-----------------------------------------------------------------------------
(* The helper.  A receive blocks until a message arrives or the monitor  *)
(* side has given up; a failed Comms call makes the helper return false. *)
HelperRecv(msg, next) ==
  /\ \/ /\ toHelper # <<>> /\ Head(toHelper) = msg
        /\ toHelper' = Tail(toHelper) /\ hpc' = next
     \/ toHelper = <<>> /\ cpc = "done" /\ hpc' = "returned" /\ UNCHANGED toHelper
  /\ UNCHANGED <<vars, cpc, toClient, symtab, result, answer>>

RecvSetup == hpc = "recv_setup" /\ HelperRecv("setup", "recv_fd")

(* RecvFD, then EnablePtraceEmulationWithUserRegs (no state of the model). *)
RecvFd == hpc = "recv_fd" /\ HelperRecv("fd", "unwind")

(* RunLibUnwind(pid, max_frames), one step of the Unwinder at a time. *)
Unwinding ==
  /\ hpc = "unwind"
  /\ StartUnwind \/ UnwindFrame \/ LoopEnd \/ FpFrame \/ FpEnd
  /\ UNCHANGED commsVars

(* SAPI_ASSIGN_OR_RETURN on RunLibUnwind: an error is the helper's result. *)
Unwound ==
  /\ hpc = "unwind" /\ upc \in {"done", "failed"}
  /\ IF upc = "failed" THEN hpc' = "send_status" ELSE hpc' = "symbolize"
  /\ UNCHANGED <<vars, cpc, toHelper, toClient, symtab, result, answer>>

(* SymbolizeStacktrace: LoadSymbolsMap may fail, and the whole trace with *)
(* it; otherwise every ip is looked up in the table.                      *)
Symbolize ==
  /\ hpc = "symbolize"
  /\ \/ UNCHANGED <<symtab, result>>
     \/ \E tbl \in Tables :
          /\ symtab' = tbl
          /\ result' = [ok |-> TRUE, trace |-> SymbolizeStacktrace(tbl, ips)]
  /\ hpc' = "send_status"
  /\ UNCHANGED <<vars, cpc, toHelper, toClient, answer>>

(* comms->SendStatus; an error status ends the helper with true. *)
SendStatus ==
  /\ hpc = "send_status"
  /\ \/ /\ cpc # "done"
        /\ toClient' = Append(toClient, [kind |-> "status", ok |-> result.ok])
        /\ hpc' = IF result.ok THEN "send_result" ELSE "returned"
     \/ hpc' = "returned" /\ UNCHANGED toClient
  /\ UNCHANGED <<vars, cpc, toHelper, symtab, result, answer>>

(* comms->SendProtoBuf(UnwindResult{stacktrace}). *)
SendResult ==
  /\ hpc = "send_result"
  /\ \/ /\ cpc # "done"
        /\ toClient' = Append(toClient, [kind |-> "result", trace |-> result.trace])
     \/ UNCHANGED toClient
  /\ hpc' = "returned"
  /\ UNCHANGED <<vars, cpc, toHelper, symtab, result, answer>>

-----------------------------------------------------------------------------
(* The monitor side (spec.md).  It gives up, with an error, at the first *)
(* Comms call that fails.                                                 *)
ClientSend(msg, next) ==
  /\ \/ hpc # "returned" /\ toHelper' = Append(toHelper, msg) /\ cpc' = next
     \/ cpc' = "done" /\ UNCHANGED toHelper
  /\ UNCHANGED <<vars, hpc, toClient, symtab, result, answer>>

SendSetup == cpc = "send_setup" /\ ClientSend("setup", "send_fd")
SendFd    == cpc = "send_fd" /\ ClientSend("fd", "recv_status")

ClientRecvFailed ==
  /\ cpc \in {"recv_status", "recv_result"}
  /\ toClient = <<>> /\ hpc = "returned"
  /\ cpc' = "done"
  /\ UNCHANGED <<vars, hpc, toHelper, toClient, symtab, result, answer>>

RecvStatus ==
  /\ cpc = "recv_status" /\ toClient # <<>>
  /\ toClient' = Tail(toClient)
  /\ cpc' = IF Head(toClient).ok THEN "recv_result" ELSE "done"
  /\ UNCHANGED <<vars, hpc, toHelper, symtab, result, answer>>

RecvResult ==
  /\ cpc = "recv_result" /\ toClient # <<>>
  /\ toClient' = Tail(toClient)
  /\ answer' = [ok |-> TRUE, trace |-> Head(toClient).trace]
  /\ cpc' = "done"
  /\ UNCHANGED <<vars, hpc, toHelper, symtab, result>>

Ended == hpc = "returned" /\ cpc = "done" /\ UNCHANGED allVars

StackTraceNext ==
  \/ RecvSetup \/ RecvFd \/ Unwinding \/ Unwound \/ Symbolize
  \/ SendStatus \/ SendResult
  \/ SendSetup \/ SendFd \/ ClientRecvFailed \/ RecvStatus \/ RecvResult
  \/ Ended

StackTraceSpec ==
  StackTraceInit /\ [][StackTraceNext]_allVars /\ WF_allVars(StackTraceNext)

-----------------------------------------------------------------------------
(* End to end: when the sandboxee's frame-pointer chain is intact, a     *)
(* trace the monitor obtains names, frame by frame, the innermost frames *)
(* of the real stack, looked up in the table the helper loaded: nothing  *)
(* lost, repeated or invented between libunwind, the frame-pointer       *)
(* fallback, the symbolization and the Comms exchange.  About the        *)
(* fallback's start and kIPOffset in UnwindUsingFramePointer, and the    *)
(* status-then-result order of the helper.                               *)
TraceIsPrefix ==
  answer.ok /\ mem = IntactMem =>
    \E n \in 0..Depth :
      answer.trace = SymbolizeStacktrace(symtab, SubSeq(TrueIps, 1, n))
=============================================================================

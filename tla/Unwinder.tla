------------------------------ MODULE Unwinder ------------------------------
(***************************************************************************)
(* RunLibUnwind and UnwindUsingFramePointer (unwind.cc): walk the stack   *)
(* of a stopped task with libunwind, and when libunwind stops early fall  *)
(* back to following the saved frame pointers in the task's memory, all   *)
(* within max_frames.  The task's memory is the sandboxee's: its frame-   *)
(* pointer chain may be intact or corrupted.                              *)
(*                                                                         *)
(* Memory is a row of words.  Frame k (1 = innermost) of a stack Depth    *)
(* frames deep keeps its record at word Rec(k): the caller's frame pointer *)
(* there, the return address (the caller's ip) in the word after it.      *)
(***************************************************************************)
EXTENDS Integers, SequencesExt

CONSTANTS
  Depth,            \* frames on the true stack
  MaxFramesBound    \* max_frames ranges over 0..MaxFramesBound

ASSUME Depth \in Nat \ {0} /\ MaxFramesBound \in Nat

Words == 1..2 * (Depth - 1)
Rec(k) == 2 * k - 1
Ip(k) == 100 + k
JunkIp == 99
Failed == -1     \* a PTRACE_PEEKDATA that sets errno

(* The frame-pointer register of frame k; the outermost frame's is 0.    *)
FpReg(k) == IF k < Depth THEN Rec(k) ELSE 0

TrueIps == [k \in 1..Depth |-> Ip(k)]

(* The frame records of an intact chain. *)
IntactMem ==
  [w \in Words |-> IF w % 2 = 1 THEN FpReg((w + 1) \div 2 + 1) ELSE Ip(w \div 2 + 1)]

(* The sandboxee may overwrite one word: a saved frame pointer made 0, a  *)
(* pointer back into the stack (a cycle) or to unmapped memory; or a     *)
(* return address made junk.                                              *)
MemImages ==
  {IntactMem} \cup
  {[IntactMem EXCEPT ![w] = v] : w \in Words,
                                  v \in {0, Rec(1), 2 * Depth + 1, JunkIp}}

VARIABLES
  upc,         \* "init", "frame", "fp", "done" or "failed"
  maxFrames,   \* max_frames
  mem,         \* the task's memory
  ips,         \* ips of RunLibUnwind
  i,           \* loop counter of RunLibUnwind
  cursor,      \* the frame libunwind's cursor is at
  fpCur,       \* fp of UnwindUsingFramePointer
  fpJ,         \* its loop counter
  fpBudget,    \* its max_frames argument
  fpIps        \* its ips

vars == <<upc, maxFrames, mem, ips, i, cursor, fpCur, fpJ, fpBudget, fpIps>>

UnwinderTypeOK ==
  /\ upc \in {"init", "frame", "fp", "done", "failed"}
  /\ maxFrames \in 0..MaxFramesBound
  /\ i \in 0..MaxFramesBound
  /\ cursor \in 1..Depth
  /\ ips \in Seq(Nat) /\ fpIps \in Seq(Nat)

UnwinderInit ==
  /\ upc = "init"
  /\ maxFrames \in 0..MaxFramesBound
  /\ mem \in MemImages
  /\ ips = <<>> /\ i = 0 /\ cursor = 1
  /\ fpCur = 0 /\ fpJ = 0 /\ fpBudget = 0 /\ fpIps = <<>>

-----------------------------------------------------------------------------
(* ReadMemory: PTRACE_PEEKDATA of one word. *)
ReadMemory(a) == IF a \in Words THEN mem[a] ELSE Failed

(* Mutation: the ppc64 offset of the saved return address on x86-64.     *)
kIPOffsetPpc64 == 2

(* kIPOffset: words between a frame record and its return address.        *)
kIPOffset == 1

(* unw_create_addr_space, _UPT_create and unw_init_remote may each fail. *)
StartUnwind ==
  /\ upc = "init"
  /\ \/ upc' = "frame"
     \/ upc' = "failed"
  /\ UNCHANGED <<maxFrames, mem, ips, i, cursor, fpCur, fpJ, fpBudget, fpIps>>

MoreFrames == i < maxFrames

(* Mutation: the fallback is given the whole max_frames again.            *)
FallbackBudgetFull(n) == maxFrames

(* max_frames - ips.size(): what is left for the frame-pointer walk.      *)
FallbackBudget(n) == maxFrames - n

(* One iteration of RunLibUnwind's loop: read IP (a failure ends the      *)
(* walk), read FP (a failure leaves it 0), keep the ip, then unw_step.   *)
(* unw_step() > 0 moves to the caller; <= 0 (the end, or an error) falls *)
(* back to the frame pointers if FP is known.                             *)
UnwindFrame ==
  /\ upc = "frame" /\ MoreFrames
  /\ \/ upc' = "done" /\ UNCHANGED <<ips, i, cursor, fpCur, fpJ, fpBudget, fpIps>>
     \/ \E fpRead \in BOOLEAN, stepped \in IF cursor < Depth THEN BOOLEAN ELSE {FALSE} :
          LET fp == IF fpRead THEN FpReg(cursor) ELSE 0
              ips2 == Append(ips, Ip(cursor))
          IN /\ ips' = ips2
             /\ IF stepped
                THEN cursor' = cursor + 1 /\ i' = i + 1
                     /\ UNCHANGED <<upc, fpCur, fpJ, fpBudget, fpIps>>
                ELSE /\ upc' = IF fp # 0 THEN "fp" ELSE "done"
                     /\ fpCur' = fp /\ fpJ' = 0 /\ fpIps' = <<>>
                     /\ fpBudget' = FallbackBudget(Len(ips2))
                     /\ UNCHANGED <<i, cursor>>
  /\ UNCHANGED <<maxFrames, mem>>

LoopEnd ==
  /\ upc = "frame" /\ ~MoreFrames
  /\ upc' = "done"
  /\ UNCHANGED <<maxFrames, mem, ips, i, cursor, fpCur, fpJ, fpBudget, fpIps>>

(* Mutation: the errno of PTRACE_PEEKDATA is not looked at; its -1 is   *)
(* taken as the word read.                                                *)
FpFrameIgnoringErrno ==
  /\ upc = "fp" /\ fpCur # 0 /\ fpJ < fpBudget
  /\ fpIps' = Append(fpIps, ReadMemory(fpCur + kIPOffset))
  /\ fpCur' = ReadMemory(fpCur) /\ fpJ' = fpJ + 1
  /\ UNCHANGED <<upc, maxFrames, mem, ips, i, cursor, fpBudget>>

(* One iteration of UnwindUsingFramePointer: the return address, then    *)
(* the caller's frame pointer; a failed read fails the whole walk, and    *)
(* RunLibUnwind keeps what libunwind found.                               *)
FpFrame ==
  /\ upc = "fp" /\ fpCur # 0 /\ fpJ < fpBudget
  /\ LET ip   == ReadMemory(fpCur + kIPOffset)
         next == ReadMemory(fpCur)
     IN IF ip = Failed \/ next = Failed
        THEN upc' = "done" /\ UNCHANGED <<fpCur, fpJ, fpIps>>
        ELSE /\ fpIps' = Append(fpIps, ip) /\ fpCur' = next /\ fpJ' = fpJ + 1
             /\ UNCHANGED upc
  /\ UNCHANGED <<maxFrames, mem, ips, i, cursor, fpBudget>>

(* The walk ends: its ips are appended to libunwind's. *)
FpEnd ==
  /\ upc = "fp" /\ ~(fpCur # 0 /\ fpJ < fpBudget)
  /\ ips' = ips \o fpIps
  /\ upc' = "done"
  /\ UNCHANGED <<maxFrames, mem, i, cursor, fpCur, fpJ, fpBudget, fpIps>>


-----------------------------------------------------------------------------
(* The trace never exceeds max_frames (spec.md: max_frames = 0 gives an   *)
(* empty trace), however libunwind and the frame-pointer fallback share   *)
(* the budget and however corrupt the frame-pointer chain is.  About the  *)
(* loop bounds and the fallback's budget max_frames - ips.size().          *)
FramesWithinBudget == upc = "done" => Len(ips) <= maxFrames
=============================================================================

---------------------------- MODULE MCPtraceAttach ----------------------------
(* Model-checking instance of PtraceAttach: thread ids are model values.  *)
EXTENDS PtraceAttach

CONSTANTS m, t1, t2

MCTids == {t1, t2}
=============================================================================

--------------------------- MODULE MCPtraceMonitor ---------------------------
(* Model-checking instance of PtraceMonitor: task ids are model values,  *)
(* and each run picks the sandboxee's syscall repertoire.                *)
EXTENDS PtraceMonitor

CONSTANTS m, t1, t2

MCNoThreads == {}
MCThreads1  == {t1}

(* Every traced syscall: a read, also from the 32-bit ABI, a clone, and  *)
(* both execs.                                                            *)
MCSyscallsAll ==
  {<<NR_read, ArchHost>>, <<NR_read, ArchOther>>, <<NR_clone, ArchHost>>,
   <<NR_execve, ArchHost>>, <<NR_execveat, ArchHost>>}

(* A multi-threaded sandboxee: reads and thread creation.                *)
(* The default policy kills a sandboxee that calls ptrace. *)
MCKilledSyscalls == {NR_ptrace}

MCSyscallsThreads == {<<NR_read, ArchHost>>, <<NR_clone, ArchHost>>}
=============================================================================

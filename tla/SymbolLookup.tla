---------------------------- MODULE SymbolLookup ----------------------------
(***************************************************************************)
(* The values of the address-to-symbol table (unwind.cc) and the lookups  *)
(* over it: GetSymbolAt, SymbolizeStacktrace, and the floor lookup spec.md *)
(* describes.  Shared by the table's builder (Symbolizer) and the         *)
(* unwinder helper that names a stack (StackTrace).                        *)
(***************************************************************************)
EXTENDS Integers, FiniteSetsExt

(* The values of the table: "" (the region-end sentinel), "map:<path>"   *)
(* with the page offset, or an ELF symbol name.                           *)
Sentinel == [kind |-> "", id |-> "", pgoff |-> 0]
MapName(e) == [kind |-> "map", id |-> e.path, pgoff |-> e.pgoff]
SymName(n) == [kind |-> "sym", id |-> n, pgoff |-> 0]

(* The strings GetSymbolAt returns: "" , a demangled name, or name+0xOFF. *)
NoSymbol == [sym |-> Sentinel, off |-> 0]
Exact(v) == [sym |-> v, off |-> 0]
Offset(v, d) == [sym |-> v, off |-> d]

(* GetSymbolAt: lower_bound(addr) is the least key >= addr; the code      *)
(* answers only when it is neither end() nor begin().                     *)
GetSymbolAt(tbl, addr) ==
  LET keys == DOMAIN tbl
      geq  == {k \in keys : k >= addr}
  IN IF geq = {} \/ Min(geq) = Min(keys) THEN NoSymbol
     ELSE LET next == Min(geq)
              prev == Max({k \in keys : k < addr})
          IN IF next = addr THEN Exact(tbl[next])
             ELSE IF tbl[prev] # Sentinel THEN Offset(tbl[prev], addr - prev)
             ELSE NoSymbol

(* SymbolizeStacktrace: every instruction pointer of the trace, looked up; *)
(* the line "symbol(0xIP)" is the pair of the answer and the ip.          *)
SymbolizeStacktrace(tbl, ips) ==
  [k \in DOMAIN ips |-> [symbol |-> GetSymbolAt(tbl, ips[k]), ip |-> ips[k]]]
=============================================================================

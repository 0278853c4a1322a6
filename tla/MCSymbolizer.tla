---------------------------- MODULE MCSymbolizer ----------------------------
(* Symbolizer over five addresses, one file mapped once or twice, and a   *)
(* symbol table of at most two symbols, one of them an ARM mapping symbol. *)
EXTENDS Symbolizer

CONSTANTS p1, f, x

MCPaths == {p1}
MCSymNames == {f, x}
MCMappingSymbols == {x}

(* The four ways LoadSymbolsMap uses or skips an entry, one skip each.   *)
MCKinds ==
  { [exec |-> TRUE,  inode |-> 1, path |-> p1, deleted |-> FALSE],
    [exec |-> FALSE, inode |-> 1, path |-> p1, deleted |-> FALSE],
    [exec |-> TRUE,  inode |-> 0, path |-> "", deleted |-> FALSE],
    [exec |-> TRUE,  inode |-> 1, path |-> p1, deleted |-> TRUE] }

MCEntries ==
  { [start |-> s, end |-> t, pgoff |-> o, exec |-> k.exec, inode |-> k.inode,
     path |-> k.path, deleted |-> k.deleted] :
      s \in Addrs, t \in Addrs, o \in {0, 1}, k \in MCKinds } \cap
  { e \in [start : Addrs, end : Addrs, pgoff : {0, 1}, exec : BOOLEAN,
           inode : {0, 1}, path : {p1, ""}, deleted : BOOLEAN] : e.start < e.end }

MCSymbols == [name : MCSymNames, address : 0..MaxAddr - 1]

MCFileInfos ==
  [pie : BOOLEAN, elfOk : BOOLEAN,
   syms : {S \in SUBSET MCSymbols : Cardinality(S) <= 2}]
=============================================================================

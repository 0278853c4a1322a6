----------------------------- MODULE Symbolizer -----------------------------
(***************************************************************************)
(* LoadSymbolsMap, GetSymbolAt and SymbolizeStacktrace (unwind.cc): the   *)
(* address-to-symbol table built from /proc/<pid>/maps and the ELF symbol *)
(* tables of the mapped files, and the lookup that names a stack address. *)
(* The for-loops of LoadSymbolsMap are steps of a state machine; the      *)
(* lookup is an operator, checked against a floor lookup.                 *)
(***************************************************************************)
EXTENDS Integers, Sequences, FiniteSetsExt, TLC, SymbolLookup

CONSTANTS
  MaxAddr,          \* addresses are 0..MaxAddr
  Paths,            \* file paths (model values)
  SymNames,         \* ELF symbol names (model values)
  MappingSymbols,   \* the names starting with $x, $d, $t, $a or $v
  HostIsArm,        \* sapi::host_cpu::IsArm64() || IsArm()
  Entries,          \* the MapsEntry records /proc/<pid>/maps may list
  FileInfos         \* what ElfFile::ParseFromFile may make of a file

ASSUME MappingSymbols \subseteq SymNames

Addrs == 0..MaxAddr

VARIABLES
  spc,       \* where the loading is: "maps", "entry", "symbols", "done", "failed"
  maps,      \* the parsed /proc/<pid>/maps (sorted, disjoint)
  files,     \* the ELF files, by path
  i,         \* index of the maps entry being processed
  pending,   \* the symbols of elf->symbols() not yet processed
  table      \* addr_to_symbol: a function on the addresses it holds

vars == <<spc, maps, files, i, pending, table>>

(* /proc/<pid>/maps lists disjoint regions in increasing address order. *)
SortedDisjoint(s) == \A k \in 1..Len(s) - 1 : s[k].end <= s[k + 1].start

SymbolizerTypeOK ==
  /\ spc \in {"maps", "entry", "symbols", "done", "failed"}
  /\ i \in 1..Len(maps) + 1
  /\ pending \subseteq [name : SymNames, address : Addrs]
  /\ DOMAIN table \subseteq Addrs

SymbolizerInit ==
  /\ spc = "maps"
  /\ \E n \in 1..2 : \E s \in [1..n -> Entries] : SortedDisjoint(s) /\ maps = s
  /\ files \in [Paths -> FileInfos]
  /\ i = 1
  /\ pending = {}
  /\ table = <<>>

Store(addr, v) == table' = (addr :> v) @@ table

-----------------------------------------------------------------------------
(* GetContents / ParseProcMaps: either fails, and so does the load.      *)
ReadMaps ==
  /\ spc = "maps"
  /\ \/ spc' = "entry"
     \/ spc' = "failed"
  /\ UNCHANGED <<maps, files, i, pending, table>>

(* Only executable, file-backed, named and not deleted regions are used. *)
Skipped(e) == ~e.exec \/ e.inode = 0 \/ e.path = "" \/ e.deleted

(* One iteration of the loop over the maps entries, up to the symbol loop. *)
LoadEntry ==
  /\ spc = "entry" /\ i <= Len(maps)
  /\ LET e == maps[i] IN
     IF Skipped(e)
     THEN i' = i + 1 /\ UNCHANGED <<spc, pending, table>>
     ELSE /\ table' = (e.end :> Sentinel) @@ (e.start :> MapName(e)) @@ table
          /\ IF files[e.path].elfOk
             THEN spc' = "symbols" /\ pending' = files[e.path].syms /\ UNCHANGED i
             ELSE i' = i + 1 /\ UNCHANGED <<spc, pending>>
  /\ UNCHANGED <<maps, files>>

(* Mutation: the position-independent range test admits the region end.  *)
InRangeToEnd(sym, e, pie) ==
  IF pie THEN sym.address >= e.pgoff /\ sym.address - e.pgoff <= e.end - e.start
         ELSE sym.address >= e.start /\ sym.address < e.end

(* Whether a symbol of the file of maps[i] lies in the mapped range, and  *)
(* where it is put.                                                       *)
InRange(sym, e, pie) ==
  IF pie THEN sym.address >= e.pgoff /\ sym.address - e.pgoff < e.end - e.start
         ELSE sym.address >= e.start /\ sym.address < e.end
(* Mutation: the relocation adds the page offset instead of subtracting.  *)
RelocatedPlusPgoff(sym, e, pie) ==
  IF pie THEN sym.address + e.start + e.pgoff ELSE sym.address

Relocated(sym, e, pie) ==
  IF pie THEN sym.address + e.start - e.pgoff ELSE sym.address

(* One iteration of the loop over elf->symbols(); ELF order is arbitrary. *)
AddSymbol(sym) ==
  /\ spc = "symbols" /\ sym \in pending
  /\ pending' = pending \ {sym}
  /\ LET e == maps[i]
         pie == files[e.path].pie
     IN IF (HostIsArm /\ sym.name \in MappingSymbols) \/ ~InRange(sym, e, pie)
        THEN UNCHANGED table
        ELSE Store(Relocated(sym, e, pie), SymName(sym.name))
  /\ UNCHANGED <<spc, maps, files, i>>

EndSymbols ==
  /\ spc = "symbols" /\ pending = {}
  /\ spc' = "entry" /\ i' = i + 1
  /\ UNCHANGED <<maps, files, pending, table>>

EndEntries ==
  /\ spc = "entry" /\ i = Len(maps) + 1
  /\ spc' = "done"
  /\ UNCHANGED <<maps, files, i, pending, table>>

Finished == spc \in {"done", "failed"} /\ UNCHANGED vars

SymbolizerNext ==
  \/ ReadMaps \/ LoadEntry \/ EndSymbols \/ EndEntries
  \/ \E sym \in pending : AddSymbol(sym)
  \/ Finished

SymbolizerSpec == SymbolizerInit /\ [][SymbolizerNext]_vars /\ WF_vars(SymbolizerNext)
-----------------------------------------------------------------------------
(* The loaded region an address lies in, if any. *)
Loaded(e) == ~Skipped(e)
RegionsOf(addr) == {k \in 1..Len(maps) : Loaded(maps[k]) /\ maps[k].start <= addr
                                         /\ addr < maps[k].end}

(* The names a frame in the region of maps[k] may be given: the region's  *)
(* own map name or a symbol of the file mapped there.                     *)
NamesOf(k) ==
  {MapName(maps[k])} \cup {SymName(sym.name) : sym \in files[maps[k].path].syms}

AllAddrs == [k \in 1..MaxAddr + 1 |-> k - 1]

(* No symbol bleeds across regions (spec.md, SymbolMap): once the table is *)
(* built, every stack address symbolizes to "" or to a name belonging to  *)
(* the loaded region that contains it.  About the region-end sentinels    *)
(* and the relocation range test of LoadSymbolsMap.                       *)
NoSymbolBleed ==
  spc = "done" =>
    LET trace == SymbolizeStacktrace(table, AllAddrs) IN
    \A k \in DOMAIN trace :
      trace[k].symbol # NoSymbol =>
        \E r \in RegionsOf(AllAddrs[k]) : trace[k].symbol.sym \in NamesOf(r)
=============================================================================

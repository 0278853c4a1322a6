\* Addresses 0..4, so that two regions can touch, leave a gap or sit at
\* the ends of the address range; one file, PIE or not, mapped at page
\* offset 0 or 1, with at most two symbols; the host is ARM so that the
\* mapping symbols are dropped.
CONSTANTS
  p1 = p1
  f = f
  x = x
  MaxAddr = 4
  Paths <- MCPaths
  SymNames <- MCSymNames
  MappingSymbols <- MCMappingSymbols
  HostIsArm = TRUE
  Entries <- MCEntries
  FileInfos <- MCFileInfos
SPECIFICATION SymbolizerSpec
INVARIANTS
  SymbolizerTypeOK
  NoSymbolBleed

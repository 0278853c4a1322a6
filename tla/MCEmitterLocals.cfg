CONSTANTS
  Letters <- MCLetters
  Digits = {"0", "1"}
  FileChars <- MCFileChars
  Decls <- MCDecls
  Functions <- MCFunctions
  Options <- MCOptions
  InternalNs = {"base_internal"}
  MaxCalls = 3
SPECIFICATION EmitterSpec
INVARIANT LocalsDistinct

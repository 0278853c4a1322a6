\* A library of four functions and seven type declarations, given to the
\* emitter in up to four calls, headers printed for both option sets.
CONSTANTS
  Letters <- MCLetters
  Digits = {"0", "1"}
  FileChars <- MCFileChars
  Decls <- MCDecls
  Functions <- MCFunctionsDistinct
  Options <- MCOptions
  InternalNs = {"base_internal"}
  MaxCalls = 4
SPECIFICATION EmitterSpec
INVARIANT HeaderWellFormed

\* A stack three frames deep, so that libunwind may stop at the first,
\* the middle or the last frame; max_frames from 0 to 4, below, at and
\* above the depth; every single-word corruption of the frame-pointer
\* chain; any Comms call of either side may fail.
CONSTANTS
  Depth = 3
  MaxFramesBound = 4
  p1 = p1
  f1 = f1
  f2 = f2
  f3 = f3
  Tables <- MCTables
SPECIFICATION StackTraceSpec
INVARIANTS
  UnwinderTypeOK
  FramesWithinBudget
  TraceIsPrefix

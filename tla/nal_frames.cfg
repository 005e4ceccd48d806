SPECIFICATION Spec
CONSTANTS
  Files <- Streams
  MaxRuns = 1
INVARIANT FramesEndAtUnits
CHECK_DEADLOCK FALSE

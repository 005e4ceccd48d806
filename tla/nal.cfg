SPECIFICATION FairSpec
CONSTANTS
  Files <- SmallFiles
  MaxRuns = 2
INVARIANT TypeOK
INVARIANT NeverAhead
INVARIANT FramesWhole
PROPERTY UnitsOfStream
PROPERTY UserMainReturns
CHECK_DEADLOCK FALSE

CONSTANTS
  FileFrames = 3
  Formats <- MC_Formats
  LoopImpls = {3, 4}
  OffsetImpls = {0, 3}
  SampleNum = 1
  SampleDen = 2
  Starts = {0, 1, 3}
  Sizes = {0, 1, 3}
  Dates = {0, 1}
SPECIFICATION Spec
INVARIANT DoubleFetchMatchesReference
CHECK_DEADLOCK FALSE

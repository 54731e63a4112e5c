CONSTANTS
  BLOCK = 4
  WORD = 64
  Counters <- AllCounters
  ClearSizes = {0, 3}
  Sizes = {0, 1, 4, 6, 8, 12, 17, 25}
  Patterns <- AllPatterns
  MaxSubsamples = 2
  Split = "reaching"
  MayFail = FALSE
SPECIFICATION Spec
\* A sample ends.
CHECK_DEADLOCK FALSE
INVARIANTS SampleRight

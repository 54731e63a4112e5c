CONSTANTS
  Threads = {t1, t2}
  Handles = {1, 2}
  Regions = {r1, r2}
  ValidRegions = {r1, r2}
  NULL = NULL
  CarefulPairs <- OrderedPairs
  MaxLent = 2
  MaxRefs = 3
SPECIFICATION FairSpec
\* Opposite copies may block each other, and a crash stops everything.
CHECK_DEADLOCK FALSE
INVARIANTS LockedIsStored NoWriteAfterReturn ExclusiveWork MemoryKept
PROPERTY CallsReturn

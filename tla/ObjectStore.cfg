CONSTANTS
  BlockBits = 2
  BlockCount = 1
  SLOT_INVALID = SLOT_INVALID
  NULL = NULL
  Threads = {t1, t2}
  Uuids = {u1, u2}
  Objects = {o1, o2, o3}
SPECIFICATION FairSpec
\* IInv includes TypeOK, ReleaseCountExact and the rest of the inductive invariant.
INVARIANTS IInv NoUseAfterFree FreedOnce DestroyedEmpty
PROPERTIES RemovedByOwner ShutdownCompletes LifecycleSpec SlotsUsed

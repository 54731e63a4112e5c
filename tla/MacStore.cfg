CONSTANTS
  Threads = {t1, t2}
  Contexts = {c1}
  Evps = {e1, e2}
  MaxChunks = 2
  NULL = NULL
SPECIFICATION FairSpec
INVARIANTS UsedIsStored EvpOwnedOnce NothingHeld
PROPERTIES ContractKept CallsReturn

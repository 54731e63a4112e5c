CONSTANTS
  Threads = {t1, t2}
  Contexts = {c1}
  Algorithms = {"AES_CBC"}
  BLOCK = 2
  KEY_SIZE = 2
  Lengths = {2}
  Keys = {k1}
  ClearKeys = {k1}
  Invalid = TRUE
  Careful = TRUE
  MaxRefs = 3
  NULL = NULL
SPECIFICATION FairSpec
\* When the last context is locked by a call that has returned, and all threads
\* wait for it, nothing moves any more.
CHECK_DEADLOCK FALSE
PROPERTY CallsReturn

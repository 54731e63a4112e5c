CONSTANTS
  Threads = {t1, t2}
  Contexts = {c1}
  Algorithms = {"AES_CBC_PKCS7", "RSA_OAEP"}
  BLOCK = 2
  KEY_SIZE = 2
  Lengths = {2}
  Keys = {k1}
  ClearKeys = {k1}
  Invalid = TRUE
  Careful = FALSE
  MaxRefs = 3
  NULL = NULL
SPECIFICATION Spec
\* A context whose lock was left behind is lost.
CHECK_DEADLOCK FALSE
INVARIANTS ExclusiveUse UsedIsStored

CONSTANTS
  Threads = {t1, t2}
  Contexts = {c1}
  Algorithms = {"AES_CBC", "AES_CBC_PKCS7", "AES_GCM", "RSA_OAEP"}
  BLOCK = 2
  KEY_SIZE = 2
  Lengths = {0, 1, 2}
  Keys = {k1, k2}
  ClearKeys = {k1}
  Invalid = FALSE
  Careful = TRUE
  MaxRefs = 3
  NULL = NULL
SPECIFICATION FairSpec
INVARIANTS NothingHeld OutputFits UseIsVerified UsedIsComplete
PROPERTY CallsReturn

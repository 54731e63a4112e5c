CONSTANTS
  Threads = {t1, t2}
  Handles = {h1, h2, h3}
  me = me
  other = other
  Uuids = {me, other}
  caller_uuid = me
  GivenRights <- AnyRights
  GivenKinds = {"SYM128", "SYM256", "DH", "EC", "RSA"}
  VideoStates <- OneVideoState
  Usages = {}
  MaxTime = 0
  MaxExports = 0
  Careful = TRUE
  NULL = NULL
SPECIFICATION Spec
SYMMETRY Symmetries
INVARIANTS EveryKeyInOneHand

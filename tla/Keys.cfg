CONSTANTS
  Threads = {t1}
  Handles = {h1, h2}
  me = me
  other = other
  Uuids = {me, other}
  caller_uuid = me
  GivenRights <- MCGivenRights
  GivenKinds = {"SYM128"}
  VideoStates <- MCVideoStates
  Usages = {"KEY_ONLY"}
  MaxTime = 1
  MaxExports = 1
  Careful = TRUE
  NULL = NULL
SPECIFICATION Spec
SYMMETRY Symmetries
INVARIANTS OutputProtectionsKept ChildUsagesApply

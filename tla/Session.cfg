CONSTANTS
  Threads = {t1, t2, t3}
  Contexts = {c1, c2, c3}
  NULL = NULL
SPECIFICATION FairSpec
\* The process ends.
CHECK_DEADLOCK FALSE
INVARIANTS OneSession CleanExit ClientOutlivesCommand
PROPERTIES CallsReturn ExitEnds

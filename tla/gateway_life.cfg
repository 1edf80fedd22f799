\* Two requests and two signals, from boot to exit.
SPECIFICATION FairSpec
CONSTANTS
  Requests = {r1, r2}
  Tasks = {t1, t2}
  Faults = TRUE
  Reach <- Either
INVARIANTS
  TypeOK
  OnlyTheAbandonedAreCutOff
  ExitCodesTell
PROPERTIES
  OnlyStreamsHoldUpShutdown
CHECK_DEADLOCK FALSE

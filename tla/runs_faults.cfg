\* Overlapping requests, failing calls, crashes; agents of two workspaces come and go.
SPECIFICATION FairSpec
CONSTANTS
  a1 = a1
  a2 = a2
  w1 = w1
  w2 = w2
  None = None
  Agents = {a1, a2}
  Workspaces = {w1, w2}
  Requests = {r1, r2}
  Keys = {k1}
  HomeOf <- Homes
  Faults = TRUE
INVARIANTS
  TypeOK
  JobsHaveRuns
  KeyedRetryIsInert
  RunsOfWorkspaceAgents
  OrphansComeOfInterruptions
PROPERTIES
  RunsReachTheQueue
\* Every request of the finite supply may have been answered.
CHECK_DEADLOCK FALSE

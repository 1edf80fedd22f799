\* Overlapping decisions with failing calls, crashes and expiry; one tool call asked about twice.
SPECIFICATION FairSpec
CONSTANTS
  a1 = a1
  a2 = a2
  t1 = t1
  t2 = t2
  w1 = w1
  w2 = w2
  None = None
  Approvals = {a1, a2}
  ToolCalls = {t1}
  Workspaces = {w1, w2}
  Requests = {r1, r2}
  Inputs = {i1}
  ToolCallOf <- SharedCall
  WorkspaceOf <- SameHome
  ExpiresAt <- Expiries
  MaxClock = 2
  Overlap = TRUE
  Faults = TRUE
INVARIANTS
  TypeOK
  RowsOfOneReviewer
  ToolCallFollowsApproval
  DecidedInTime
  LateDecisionIsInert
  RecordedMeansBothRows
PROPERTIES
  VerdictReachesToolCall
\* Every request of the finite supply may have been answered.
CHECK_DEADLOCK FALSE

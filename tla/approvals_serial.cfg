\* One decision at a time, with failing calls and crashes.
SPECIFICATION Spec
CONSTANTS
  a1 = a1
  a2 = a2
  t1 = t1
  t2 = t2
  w1 = w1
  w2 = w2
  None = None
  Approvals = {a1, a2}
  ToolCalls = {t1, t2}
  Workspaces = {w1, w2}
  Requests = {r1, r2}
  Inputs = {i1}
  ToolCallOf <- OwnCalls
  WorkspaceOf <- Homes
  ExpiresAt <- Expiries
  MaxClock = 2
  Overlap = FALSE
  Faults = TRUE
INVARIANTS
  RecordedDecisionStands
  ApartOnlyByInterruption
PROPERTIES
  DecidedOnce
  ImplementsProtocol
\* Every request of the finite supply may have been answered.
CHECK_DEADLOCK FALSE

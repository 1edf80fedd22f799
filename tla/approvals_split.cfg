\* Two reviewers decide at once: approval and tool call end up with different verdicts.
SPECIFICATION Spec
CONSTANTS
  a1 = a1
  a2 = a2
  t1 = t1
  t2 = t2
  w1 = w1
  w2 = w2
  None = None
  Approvals = {a1}
  ToolCalls = {t1}
  Workspaces = {w1}
  Requests = {r1, r2}
  Inputs = {i1}
  ToolCallOf <- OneCall
  WorkspaceOf <- OneHome
  ExpiresAt <- OneExpiry
  MaxClock = 1
  Overlap = TRUE
  Faults = FALSE
SYMMETRY Reviewers
INVARIANTS
  RowsAgreeAtRest
\* Every request of the finite supply may have been answered.
CHECK_DEADLOCK FALSE

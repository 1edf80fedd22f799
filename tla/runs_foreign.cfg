\* The same key used in two workspaces: the second is told of the run of the first.
SPECIFICATION Spec
CONSTANTS
  a1 = a1
  a2 = a2
  w1 = w1
  w2 = w2
  None = None
  Agents = {a1, a2}
  Workspaces = {w1, w2}
  Requests = {r1, r2}
  Keys = {k1}
  HomeOf <- Homes
  Faults = FALSE
SYMMETRY Clients
INVARIANTS
  RepliedRunsAreOwn
\* Every request of the finite supply may have been answered.
CHECK_DEADLOCK FALSE

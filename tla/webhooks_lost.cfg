\* The queue call fails after the insert: the redelivery is ignored as a duplicate.
SPECIFICATION Spec
CONSTANTS
  e1 = e1
  e2 = e2
  e3 = e3
  c1 = c1
  c2 = c2
  p1 = p1
  None = None
  Events = {e1, e2, e3}
  Connectors = {c1, c2}
  Payloads = {p1}
  ConnectorOf <- Addresses
  PayloadOf <- Bodies
  Known = {c1}
  Signed = {c1}
  Genuine = {e1, e3}
  MaxAttempts <- Patience
  Timeouts = FALSE
  Faults = TRUE
INVARIANTS
  AcknowledgedIsQueued
\* The providers' attempts are bounded.
CHECK_DEADLOCK FALSE

\* One visit to the page, with two approvals, up to three
\* decisions on one under way, and a stream that comes and goes.
SPECIFICATION Spec
CONSTANTS
  Approvals = {a1, a2}
  MaxCalls = 3
SYMMETRY Interchangeable
INVARIANTS
  TypeOK
  SettledStaysGone
  WaitingIsListed
  CallsMatchCards

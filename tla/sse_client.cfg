\* A client that is opened, closed and reopened while the server comes and goes.
SPECIFICATION FairSpec
CONSTANTS
  None = None
  Sources = {s1, s2, s3, s4}
  MinBackoff = 500
  MaxBackoff = 30000
  MaxRetries = 8
INVARIANTS
  TypeOK
  OneThingUnderWay
  BackoffCountsRetries
PROPERTIES
  ImplementsEventStream

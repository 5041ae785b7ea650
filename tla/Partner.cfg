\* Two requests under one key; an endpoint swept by two processes.
CONSTANTS
  Key = {k1}
  Call = {c1, c2}
  MaxLapses = 1
  Event = {e1}
  Process = {s1, s2}
  MAX_ATTEMPTS = 2
  CIRCUIT_BREAKER_THRESHOLD = 1
  MaxRetries = 1
SPECIFICATION FairSpec
INVARIANTS TypeOK RunsAccounted GivenUpAfterAllAttempts
PROPERTIES EventsSettle

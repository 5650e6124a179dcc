CONSTANTS
  e1 = e1
  e2 = e2
  t1 = t1
  t2 = t2
  i1 = i1
  i2 = i2
  None = None
  Events = {e1}
  Triggers = {t1}
  Instances = {i1, i2}
  Matching <- NoMatch
  BatchSize = 1
  MaxTries = 3
  MaxClaims = 3
  MaxFaults = 1
  Faults <- EventFaults
SPECIFICATION FairSpec

PROPERTIES ProcessedIsFinal DeliversEvents
CHECK_DEADLOCK FALSE

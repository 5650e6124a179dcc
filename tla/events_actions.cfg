CONSTANTS
  e1 = e1
  e2 = e2
  t1 = t1
  t2 = t2
  i1 = i1
  i2 = i2
  None = None
  Events = {e1}
  Triggers = {t1, t2}
  Instances = {i1, i2}
  Matching <- AllMatch
  BatchSize = 1
  MaxTries = 3
  MaxClaims = 1
  MaxFaults = 1
  Faults <- ActionFaults
SPECIFICATION Spec
INVARIANTS TypeOK ActionsHaveOneCarrier QueuedRowsAreCarried OnceWhenUndisturbed AttemptsCoverEffects
SYMMETRY Symmetry
CHECK_DEADLOCK FALSE

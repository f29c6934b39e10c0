SPECIFICATION Spec
CONSTANTS
  r1 = r1
  r2 = r2
  r3 = r3
  Request = {r1, r2, r3}
  MaxSets = 3
  MaxFaults = 2
  None = None
  Dead = Dead
INVARIANTS StaleHasReason OneCopies
PROPERTIES ConfirmedIsSeen CacheIsFilled
CHECK_DEADLOCK FALSE

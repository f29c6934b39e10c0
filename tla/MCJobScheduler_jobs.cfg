SPECIFICATION JobSpec
CONSTANTS
  c1 = c1
  c2 = c2
  Process = {c1, c2}
  MaxRows = 3
  MaxItems = 2
  MaxFaults = 1
  Nobody = Nobody
  Dead = Dead
INVARIANT JobKept
CHECK_DEADLOCK FALSE
PROPERTIES KeepsImporting JobsOfGoneSourcesGo

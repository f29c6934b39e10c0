SPECIFICATION Spec
CONSTANTS
  c1 = c1
  form = form
  clean = clean
  Worker = {c1}
  Importer = {form}
  Cleaner = {clean}
  MaxEdits = 1
  MaxFaults = 1
  None = None
  NoRow = NoRow
  Dead = Dead
INVARIANTS ImportedOnce OrphansWereInHand EditsStay
PROPERTIES LockComesBack
CHECK_DEADLOCK FALSE

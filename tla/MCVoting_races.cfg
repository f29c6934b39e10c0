\* Three requests on one node, tallied at once, with deletions and deaths.
SPECIFICATION Spec
CONSTANTS
  Request = {r1, r2, r3}
  User = {ann, bob}
  Window <- MCWindow
  Entity = {1}
  Revision <- MCRevision
  Value <- MCValue
  Operation = {"vote", "reset", "delete"}
  Schedule = "immediate"
  MaxTime = 1
  MaxFaults = 1
SYMMETRY UserSymmetry
INVARIANTS TypeOK RightResultsCached
PROPERTIES OthersVotesStay UndisturbedRepairs
CHECK_DEADLOCK FALSE

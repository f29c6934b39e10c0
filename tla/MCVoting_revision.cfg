\* The revision id of one node is the node id of another.
SPECIFICATION Spec
CONSTANTS
  Request = {r1, r2}
  User = {"ann"}
  Window <- MCWindow
  Entity = {1, 2}
  Revision <- MCRevisionClash
  Value <- MCValue
  Operation = {"vote", "delete"}
  Schedule = "immediate"
  MaxTime = 1
  MaxFaults = 0
SYMMETRY Symmetry
PROPERTY OthersVotesStay
CHECK_DEADLOCK FALSE

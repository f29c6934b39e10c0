\* Votes tallied by cron, over several windows of users whose requests may overlap.
SPECIFICATION Spec
CONSTANTS
  Request = {r1, r2, r3}
  User = {"ann", "anonymous"}
  Window <- MCWindow
  Entity = {1}
  Revision <- MCRevision
  Value <- MCValue
  Operation = {"vote", "reset", "cron"}
  Schedule = "cron"
  MaxTime = 3
  MaxFaults = 1
SYMMETRY Symmetry
INVARIANT VotesAreUnique
PROPERTY CronTalliesNewVotes
CHECK_DEADLOCK FALSE

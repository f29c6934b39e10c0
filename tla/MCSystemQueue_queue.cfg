\* Two producers, two consumers and two items, with the crontab's fairness.
SPECIFICATION FairSpec
CONSTANTS
  w1 = w1
  w2 = w2
  p1 = p1
  p2 = p2
  Worker = {w1, w2}
  Producer = {p1, p2}
  MaxItems = 2
  LeaseTime = 1
  MaxLag = 1
  MaxFaults = 2
  LateRelease = FALSE
INVARIANTS LeaseExclusion TwiceOnlyWhenLate FirstHandedInOrder
PROPERTIES ReliableSpec
CHECK_DEADLOCK FALSE

SPECIFICATION Spec
CONSTANTS
  r1 = r1
  r2 = r2
  cron = cron
  Request = {r1, r2}
  Name = {cron}
  Timeout = {1, 2}
  MaxPolls = 2
  MaxTime = 4
  None = None
INVARIANT LeaseExclusion
PROPERTIES CallsReturn LeaseSpec
CHECK_DEADLOCK FALSE

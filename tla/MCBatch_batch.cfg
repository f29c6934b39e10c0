SPECIFICATION Spec
CONSTANTS
  q1 = q1
  q2 = q2
  Request = {q1, q2}
  Ops <- MCOps
  MaxReloads = 1
  MaxFaults = 1
  None = None
INVARIANTS TypeOK SuccessIsTrue HundredIsLast SandboxIsOwn OnceEach
PROPERTIES FailureIsTrue PageEnds
CHECK_DEADLOCK FALSE

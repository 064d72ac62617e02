CONSTANTS
  Machines = {1}
  PoolOf <- OnePool
  Reasons = {1}
  JoinTimeout = 1
  Interval = 1
  MaxIssues = 1
  MaxClock = 3
  MaxFaults = 1
SPECIFICATION Spec
INVARIANTS SinceStable
PROPERTIES NoFlapping EventuallyReported EventuallyForgotten
CHECK_DEADLOCK FALSE

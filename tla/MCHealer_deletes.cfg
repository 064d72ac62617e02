CONSTANTS
  Machines = {1,2,3}
  Initial = {1}
  CPMachines = {3}
  CPNodes = {2}
  Pools = {1,2}
  PoolOf <- Mixed
  Unowned = 0
  RefusedPools = {2}
  Policies = {1}
  UnhealthyAfter = 0
  StartupTimeout = 1
  Cooldown = 1
  MaxPass = 2
  EvictionTimeout = 9
  MinDetectionWindow = 1
  HasPods = FALSE
  MaxClock = 2
  MaxRestarts = 1
  MaxLostReplies = 1
SPECIFICATION Spec
INVARIANTS DoneReportsAreTrue
PROPERTIES HealBudget 

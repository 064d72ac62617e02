CONSTANTS
  Machines = {1,2}
  Initial = {1,2}
  CPMachines = {}
  CPNodes = {}
  Pools = {1}
  PoolOf <- OnePool
  Unowned = 0
  RefusedPools = {}
  Policies = {2}
  UnhealthyAfter = 0
  StartupTimeout = 1
  Cooldown = 2
  MaxPass = 0
  EvictionTimeout = 1
  MinDetectionWindow = 1
  HasPods = FALSE
  MaxClock = 5
  MaxRestarts = 0
  MaxLostReplies = 1
SPECIFICATION Spec
INVARIANT CooldownOfAppliedDeletes

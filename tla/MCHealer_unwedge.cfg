CONSTANTS
  Machines = {1,2}
  Initial = {1,2}
  CPMachines = {}
  CPNodes = {}
  Pools = {1}
  PoolOf <- OnePool
  Unowned = 0
  RefusedPools = {}
  Policies = {1}
  UnhealthyAfter = 0
  StartupTimeout = 1
  Cooldown = 2
  MaxPass = 1
  EvictionTimeout = 1
  MinDetectionWindow = 1
  HasPods = TRUE
  MaxClock = 4
  MaxRestarts = 1
  MaxLostReplies = 0
SPECIFICATION Spec
INVARIANTS HealCooldown OneUnwedgePerMachine ReplacementPodSurvives

CONSTANTS
  Pools = {0,1,2,3,4,5,6}
  Kind <- Mixed
  Replicas <- MixedReplicas
  Machines = {1,2,3,4}
  PoolOf <- TwoSlots
  Versions = {1,2}
  Apiservers = {1}
  Targets <- AllTargets
  PoolSets <- MixedSets
  MaxPools = 5
  MaxRevision = 1
  MaxFaults = 1
  MaxLosses = 1
  MaxRestarts = 1
SPECIFICATION Spec
INVARIANTS OneRollPerDocument SomeApiserverAtTarget
PROPERTIES EventuallyRolled RollsAreReported
CHECK_DEADLOCK FALSE

CONSTANTS
  Pools = {1,2}
  Kind <- AllWorkers
  Replicas <- OneReplica
  Machines = {1,2,3,4}
  PoolOf <- TwoSlots
  Versions = {1,2,3}
  Apiservers = {1}
  Targets = {2,3}
  PoolSets <- Both
  MaxPools = 2
  MaxRevision = 2
  MaxFaults = 0
  MaxLosses = 0
  MaxRestarts = 0
SPECIFICATION Spec
INVARIANT OneRollAtATime
CHECK_DEADLOCK FALSE

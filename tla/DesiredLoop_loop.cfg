CONSTANTS
  Pools = {1,2}
  Refusing = {}
  Executions = {{}, {"upgrades"}, {"scaling","upgrades"}}
  Wanted = {0,2}
  MaxReplicas = 1
  MaxPoolsPerPass = 2
  MaxRevision = 2
  MaxSwitches = 2
  MaxManual = 1
  MaxFaults = 1
  MaxRotations = 1
  MaxRestarts = 1
SPECIFICATION Spec
INVARIANTS NoChangeMissed UndoneIsRetried ReportsOfOneRevision
PROPERTIES EventuallyApplied ScalesAsPromised

CONSTANTS
  Verdicts = {"v1"}
  Clear = "clear"
  MaxDeploys = 2
  MaxDeletes = 1
  MaxVerdicts = 3
  MaxApiFaults = 1
SPECIFICATION InventorySpec
INVARIANTS InventoryIsSignalled
PROPERTIES EventuallyMirrored EventuallyQuiet
CHECK_DEADLOCK FALSE

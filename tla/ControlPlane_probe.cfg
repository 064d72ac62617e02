CONSTANTS
  Static = {"scheduler"}
  Requests = {1,2,3}
  Expiries = {1,2}
  PageSize = 1
  PageBudget = 2
  MaxChanges = 2
SPECIFICATION Spec
PROPERTIES ExpiryIsOfAll OnlyWhatWasSeen EventuallyShown EventuallyQuiet

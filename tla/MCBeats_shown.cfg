CONSTANTS
  MaxNodes = 2
  MaxEvents = 2
  EventLimit = 1
  MaxNamespaces = 1
  MaxActions = 1
  MaxRevision = 1
  EntryCap = 1
  ReportNamespaces = TRUE
  Nodes = {"n1", "n2"}
  NodeStates <- MCNodeStates
  Pods = {3, 4}
  PodPhases = {"Running"}
  Events = {1, 2}
  Namespace <- MCNamespace
  Times <- MCTimes
  Scaled = {"pool"}
  Healed = {"m1"}
  Revisions = {2}
  Blocks = {"inventory"}
  Stored <- MCStored
  MaxChanges = 3
SPECIFICATION Spec
INVARIANTS NeverRejected RestIsPresent
PROPERTIES ReportsStay EventuallyFaithful EventuallyStill

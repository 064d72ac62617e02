CONSTANTS
  Stores = {"nodes", "actions"}
  FullInterval = 5
  Debounce = 2
  MinGap = 3
  MaxFlush = 1
  MaxChanges = 3
  MaxClock = 13
SPECIFICATION Spec
INVARIANTS NoChangeLost PushedOften ChangesAreTimely
PROPERTY MinGapKept
CHECK_DEADLOCK FALSE

CONSTANTS
  MaxPayloads = 4
  MaxFaults = 3
  MaxRotations = 2
  MayStop = TRUE
SPECIFICATION Spec
INVARIANTS NoLostWakeup RejectedTokenIsPaced
PROPERTIES NothingStaleDelivered StopsWhenCancelled DeliversHeartbeats
CHECK_DEADLOCK FALSE

CONSTANTS
  NDevices = 2
  FailingParties = {"evict"}
  LateModes = {TRUE, FALSE}
  BornLocked = FALSE
  MaxFences = 3
  MaxLocked = 2
SPECIFICATION Spec
INVARIANTS EvictionsAccounted FenceUnlessLate
PROPERTIES FenceSignals
CHECK_DEADLOCK FALSE

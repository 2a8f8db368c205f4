CONSTANTS
  m1 = m1
  t1 = t1
  t2 = t2
  u1 = u1
  u2 = u2
  Mms <- OneMm
  Threads <- TwoThreads
  Home <- SameMm
  Users <- TwoUsers
  Pasids = {1, 2}
  EarlyLookups = FALSE
  MaxProcs = 2
  MaxFiles = 2
SPECIFICATION Spec
INVARIANTS RefsExact FoundIsAlive WorkHasProcess
PROPERTIES ProcessFreed
CHECK_DEADLOCK FALSE

CONSTANTS
  r1 = r1
  r2 = r2
  n1 = n1
  n2 = n2
  Ranges <- TwoRanges
  Notifiers <- TwoNotifiers
  XnackModes = {TRUE, FALSE}
  Releases = TRUE
  LateNotifiers = FALSE
  QuiesceFails = FALSE
  MaxInvalid = 3
SPECIFICATION Spec
INVARIANTS StopsExact OneRestorer
PROPERTIES ImplementsGate QueuesResume
CHECK_DEADLOCK FALSE

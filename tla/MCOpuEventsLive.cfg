CONSTANTS
  t1 = t1
  t2 = t2
  Threads <- OneThread
  OPU_SIGNAL_EVENT_LIMIT = 2
  OLD_USER_SLOTS = 1
  PARTIAL_CLASSES = 1
  OtherIds = {}
  EventTypes = {"SIGNAL"}
  AutoModes = {TRUE}
  MapSizes = {2}
  GpuIds = {0, 1}
  Timeouts = {"finite", "infinite"}
  WaitLists <- FirstTwo
  MaxListLen = 2
  MaxEvents = 2
  MaxSignals = 2
SPECIFICATION Spec
INVARIANTS SlotsCovered
PROPERTIES WaitReturns SignalIsSeen
CHECK_DEADLOCK FALSE

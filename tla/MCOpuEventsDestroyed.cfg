CONSTANTS
  t1 = t1
  t2 = t2
  Threads <- OneThread
  OPU_SIGNAL_EVENT_LIMIT = 2
  OLD_USER_SLOTS = 2
  PARTIAL_CLASSES = 1
  OtherIds = {}
  EventTypes = {"SIGNAL"}
  AutoModes = {TRUE}
  MapSizes = {}
  GpuIds = {}
  Timeouts = {"infinite"}
  WaitLists <- FirstTwo
  MaxListLen = 2
  MaxEvents = 2
  MaxSignals = 2
INIT Init
NEXT Next
PROPERTIES DestroyedEventFailsWait
CHECK_DEADLOCK FALSE

CONSTANTS
  t1 = t1
  t2 = t2
  Threads <- TwoThreads
  OPU_SIGNAL_EVENT_LIMIT = 1
  OLD_USER_SLOTS = 1
  PARTIAL_CLASSES = 1
  OtherIds = {8}
  EventTypes = {"SIGNAL", "MEMORY"}
  AutoModes = {TRUE, FALSE}
  MapSizes = {}
  GpuIds = {}
  Timeouts = {"infinite"}
  WaitLists <- WithFault
  MaxListLen = 2
  MaxEvents = 2
  MaxSignals = 2
INIT Init
NEXT Next
INVARIANTS IdrConsistent LinkedWaiters SignaledHasNoSleeper NoSleepingBeauty
SYMMETRY Symmetry
CHECK_DEADLOCK FALSE

SPECIFICATION Spec
CONSTANTS
  p1 = p1
  p2 = p2
  Procs = {p1, p2}
  Types = {"COMPUTE", "SDMA"}
  MAX_PER_PROCESS = 3
  MAX_PER_DEVICE = 2
  HWS_LIMIT = 2
  HQD_HALF = 1
  NUM_SDMA = 1
  ReservedDoorbells = {0}
  NoOversubscription = FALSE
  VMIDS = 2
  CP_QUEUES = 2
  UINT = 16
  UnmapOutcomes = {"ok"}
  MapOutcomes = {"ok"}
  NoMemory = FALSE
  Debugging = {p1}
  UsesGws = FALSE
  CarriesOn = FALSE
  LateEvict = FALSE
  MaxEvicted = 2
  MaxStops = 0
INVARIANTS CountersExact EvictedIsInactive RegisteredWhileNeeded RunlistComplete LimitOvershoot

SPECIFICATION Spec
CONSTANTS
  p1 = p1
  p2 = p2
  Procs = {p1, p2}
  Types = {"COMPUTE", "SDMA", "SDMA_XGMI"}
  MAX_PER_PROCESS = 1
  MAX_PER_DEVICE = 2
  HWS_LIMIT = 2
  HQD_HALF = 1
  NUM_SDMA = 1
  ReservedDoorbells = {}
  NoOversubscription = FALSE
  VMIDS = 2
  CP_QUEUES = 2
  UINT = 16
  UnmapOutcomes = {"ok", "not_sent", "timeout", "unresponsive"}
  MapOutcomes = {"ok", "not_sent"}
  NoMemory = TRUE
  Debugging = {}
  UsesGws = FALSE
  CarriesOn = FALSE
  LateEvict = FALSE
  MaxEvicted = 1
  MaxStops = 0
INVARIANTS CountersExact SdmaExclusive

SPECIFICATION Spec
CONSTANTS
  p1 = p1
  Procs = {p1}
  Types = {"COMPUTE"}
  MAX_PER_PROCESS = 3
  MAX_PER_DEVICE = 2
  HWS_LIMIT = 2
  HQD_HALF = 3
  NUM_SDMA = 1
  ReservedDoorbells = {0}
  NoOversubscription = TRUE
  VMIDS = 2
  CP_QUEUES = 2
  UINT = 3
  UnmapOutcomes = {"ok", "timeout"}
  MapOutcomes = {"ok", "not_sent"}
  NoMemory = TRUE
  Debugging = {}
  UsesGws = TRUE
  CarriesOn = FALSE
  LateEvict = FALSE
  MaxEvicted = 1
  MaxStops = 1
INVARIANTS DoorbellsExclusive RunlistFaithful
PROPERTIES OperationsEnd

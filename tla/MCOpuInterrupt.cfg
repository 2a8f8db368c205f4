CONSTANTS
  c1 = c1
  c2 = c2
  Cpus <- MCCpus
  OPU_IH_NUM_ENTRIES = 2
  MaxInterrupts = 4
SPECIFICATION Spec
INVARIANTS InOrderDelivery NoStrandedEntry FifoLifetime
PROPERTIES AcceptedIsHandled
CHECK_DEADLOCK FALSE

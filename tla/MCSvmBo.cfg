CONSTANTS
  NRanges = 2
  Gpus = {1, 2}
  NPages = 2
  MaxBos = 2
  MoveMayFail = TRUE
SPECIFICATION BoSpec
INVARIANTS BoRefsExact NoBoLeft
PROPERTIES FenceMeansListedOut
CHECK_DEADLOCK FALSE

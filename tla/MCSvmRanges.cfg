CONSTANTS
  FirstPage = 2
  LastPage = 4
  GRANULE = 1
  AttrKinds = {"cmp"}
SPECIFICATION RangesSpec
INVARIANTS OneRangePerPage UnmappedIsGone GpuMapsLiving AttrsKept
PROPERTIES DeferredIsDone

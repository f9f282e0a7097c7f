\* Three pipes that come, block and end; each direction of traffic by itself.
CONSTANTS
  N = 3
  Traffic = {{"in"}, {"out"}}
  Hwm = 1
  MaxPart = 2
SPECIFICATION Spec
INVARIANTS WholeMessages Partitions FairShare
CHECK_DEADLOCK FALSE

\* A reader that may ask again before it is woken.
CONSTANTS
  Value = {v1, v2}
  MaxItems = 5
  Polling = TRUE
SPECIFICATION FairSpec
INVARIANTS IInv
PROPERTIES StreamSpec Delivered
CHECK_DEADLOCK FALSE

CONSTANTS
  Settings <- Everything
  N = 2
  MaxMsg = 2
  MaxLost = 1
SPECIFICATION FairSpec
INVARIANT WholeMessages
PROPERTIES AssertionsHold LingerHonoured SessionGoes
CHECK_DEADLOCK FALSE

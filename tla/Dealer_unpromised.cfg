\* What the code does not promise, each violated: run with -continue.
CONSTANTS
  N = 3
  Traffic = {{"in"}, {"out"}}
  Hwm = 1
  MaxPart = 2
SPECIFICATION Spec
INVARIANTS NeverTorn RestFollows NeverPastTheEnd RestIsThere
CHECK_DEADLOCK FALSE

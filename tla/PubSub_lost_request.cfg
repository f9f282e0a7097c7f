CONSTANTS
  Subs = {a, b, c}
  Scenarios <- Everything
  N = 3
  Hwm = 1
  MaxPart = 2
  Wild = {"loss"}
SPECIFICATION Spec
SYMMETRY Renamings
INVARIANT NoticesAgree
CHECK_DEADLOCK FALSE

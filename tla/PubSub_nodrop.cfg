CONSTANTS
  Subs = {a, b, c}
  Scenarios <- Everything
  N = 3
  Hwm = 1
  MaxPart = 2
  Wild = {"nodrop"}
SPECIFICATION Spec
SYMMETRY Renamings
PROPERTY GoesToAllWhoWant
CHECK_DEADLOCK FALSE

CONSTANTS
  Subs = {a, b, c}
  Scenarios <- Everything
  N = 3
  Hwm = 1
  MaxPart = 2
  Wild = {}
SPECIFICATION Spec
SYMMETRY Renamings
INVARIANTS TreesSound SubscriptionsAgree NoticesAgree WholeMessages
PROPERTY GoesToAllWhoWant
CHECK_DEADLOCK FALSE

\* Every slot is in use when the context is terminated.
CONSTANTS
  App = {a, b}
  Helper = {h1, h2}
  Connector = {a}
  Binder = {b}
  NULL = NULL
  MaxSockets = 2
  MaxInterrupt = 0
SPECIFICATION Spec
INVARIANT NeverAborts
CHECK_DEADLOCK FALSE

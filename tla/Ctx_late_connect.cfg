\* A socket connects while the context terminates.
CONSTANTS
  App = {a, b}
  Helper = {h1, h2}
  Connector = {a}
  Binder = {b}
  NULL = NULL
  MaxSockets = 4
  MaxInterrupt = 0
SPECIFICATION FairSpec
PROPERTY TermReturns
CHECK_DEADLOCK FALSE

\* Three sockets, two of them connecting before the third has bound.
CONSTANTS
  App = {a, b, c}
  Helper = {h1, h2, h3, h4}
  Connector = {a, b}
  Binder = {c}
  NULL = NULL
  MaxSockets = 4
  MaxInterrupt = 1
SPECIFICATION FairSpec
INVARIANTS ReaperStopsLast DeletedUnused
PROPERTY TermReturnsUnlessPending
CHECK_DEADLOCK FALSE

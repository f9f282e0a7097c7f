\* Five messages, and a reader that stops and is woken at any point.
CONSTANT MaxWrite = 5
SPECIFICATION FairSpec
INVARIANT IInv
PROPERTIES NewerOnly FrontDelivered
CHECK_DEADLOCK FALSE

CONSTANTS
  Threads = {"r1", "r2"}
  Pollers = {"p"}
  Crews = {{"r1"}}
  MaxMsgs = 2
  Inproc = TRUE
SPECIFICATION Spec
INVARIANT NoDeadlock
CHECK_DEADLOCK FALSE

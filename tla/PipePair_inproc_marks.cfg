\* One of two inproc sockets lowers its marks after they are connected.
CONSTANTS
  NULL = NULL
  Settings <- InprocMarks
SPECIFICATION Spec
INVARIANT MarksFit
CHECK_DEADLOCK FALSE

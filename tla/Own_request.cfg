\* A child asks to be terminated before its owner knows that it owns it.
CONSTANTS
  Object = {socket, o1, o2}
  Root = socket
  NULL = NULL
  MaxLaunch = 1
  MaxReq = 1
  MaxSent = 0
SPECIFICATION Spec
INVARIANT NotFoundMeansAsked
CHECK_DEADLOCK FALSE

\* Two children below a socket, in a row or side by side, one address reused.
CONSTANTS
  Object = {socket, o1, o2}
  Root = socket
  NULL = NULL
  MaxLaunch = 2
  MaxReq = 2
  MaxSent = 1
SPECIFICATION FairSpec
INVARIANT Lifetimes
PROPERTY TreeGoes
CHECK_DEADLOCK FALSE

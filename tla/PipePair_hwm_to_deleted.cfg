\* The socket's marks are changed while its pipe waits for the last ack.
CONSTANTS
  NULL = NULL
  Settings <- HwmToDeleted
SPECIFICATION Spec
INVARIANT NoCommandToDeleted
CHECK_DEADLOCK FALSE

\* The session reconnects between two parts of a message.
CONSTANTS
  NULL = NULL
  Settings <- SplitMessage
SPECIFICATION Spec
PROPERTY InOrder
CHECK_DEADLOCK FALSE

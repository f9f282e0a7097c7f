\* The session reconnects while the socket terminates.
CONSTANTS
  NULL = NULL
  Settings <- LostDelimiter
SPECIFICATION FairSpec
PROPERTY TerminationCompletes
CHECK_DEADLOCK FALSE

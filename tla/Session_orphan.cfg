\* The socket closes while an accepted session has lost its connection.
CONSTANTS
  Settings <- Everything
  N = 2
  MaxMsg = 2
  MaxLost = 1
SPECIFICATION FairSpec
PROPERTY WaitsToConnectOnly
CHECK_DEADLOCK FALSE

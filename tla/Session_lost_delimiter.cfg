\* A subscriber closes while it reconnects.
CONSTANTS
  Settings <- Everything
  N = 2
  MaxMsg = 2
  MaxLost = 1
SPECIFICATION FairSpec
PROPERTY WaitsForMessagesOnly
CHECK_DEADLOCK FALSE

\* The writer finds the lock taken when it writes its last message.
CONSTANT MaxWrite = 1
SPECIFICATION FairSpec
PROPERTY LastDelivered
CHECK_DEADLOCK FALSE

\* Three senders, two commands each.
CONSTANTS
  Sender = {s1, s2, s3}
  MaxSend = 2
  Owner = owner
SPECIFICATION FairSpec
INVARIANTS IInv SafeDestruction
PROPERTIES SenderOrder EveryCommandReceived
CHECK_DEADLOCK FALSE

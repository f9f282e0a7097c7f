\* A session writes a credential before its first message.
CONSTANTS
  NULL = NULL
  Settings <- Credential
SPECIFICATION FairSpec
PROPERTY WriterResumesUnlessChanged
CHECK_DEADLOCK FALSE

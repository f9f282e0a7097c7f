\* The marks are lowered before a writer comes up against them.
CONSTANTS
  NULL = NULL
  Settings <- HwmLowered
SPECIFICATION FairSpec
PROPERTY WriterResumesWhenAgreed
CHECK_DEADLOCK FALSE

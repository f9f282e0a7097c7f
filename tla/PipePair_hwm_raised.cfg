\* The marks are raised while a writer is stopped at the old ones.
CONSTANTS
  NULL = NULL
  Settings <- HwmRaised
SPECIFICATION FairSpec
PROPERTY WriterResumes
CHECK_DEADLOCK FALSE

\* Both users terminate while messages are on their way; or a writer comes up
\* against its mark and the marks are changed.
CONSTANTS
  NULL = NULL
  Settings <- TermFlowMarks
SPECIFICATION FairSpec
INVARIANTS HandshakeSound MarksFit
PROPERTIES InOrder DelayedUntilRead TerminationCompletes WriterResumesUnlessChanged
CHECK_DEADLOCK FALSE

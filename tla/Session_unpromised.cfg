\* What the code does not promise, each violated: run with -continue.
CONSTANTS
  Settings <- Everything
  N = 2
  MaxMsg = 2
  MaxLost = 1
SPECIFICATION Spec
PROPERTIES RestCanBeRead EndpointIsThere LingerAlways
CHECK_DEADLOCK FALSE

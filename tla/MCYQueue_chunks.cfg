\* Two cells to a chunk; the reader consumes up to five.
CONSTANTS
  Chunk = {k1, k2, k3, k4, k5, k6}
  NULL = NULL
  N = 2
  MaxCells = 5
SYMMETRY Symmetry
SPECIFICATION Spec
INVARIANT MemorySafe
CHECK_DEADLOCK FALSE

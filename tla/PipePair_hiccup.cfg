\* The session reconnects twice under a writing socket, and both users terminate.
CONSTANTS
  NULL = NULL
  Settings <- Hiccup
SPECIFICATION Spec
INVARIANTS HiccupSound NoLostActivation
CHECK_DEADLOCK FALSE

CONSTANTS
  Threads = {"r1", "r2"}
  Pollers = {"p"}
  Crews = {{"r1", "r2"}, {"r1", "p"}}
  MaxMsgs = 2
  Inproc = FALSE
SPECIFICATION FairSpec
INVARIANTS SleepersMissNothing SignalledWhenNeeded SafeDestruction
PROPERTY CallsReturn
CHECK_DEADLOCK FALSE

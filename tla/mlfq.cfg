SPECIFICATION FairSpec
CONSTANTS
  NPROC = 3
  TopLevel = 1
  ticks <- MCTicks
  Factor = 2
  NoProc = NoProc
CHECK_DEADLOCK FALSE
INVARIANT QueuesSound
PROPERTIES HighestFirst NoStarvation

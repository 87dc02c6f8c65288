SPECIFICATION FairSpec
CONSTANTS
  PIPESIZE = 2
  WIDTH = 4
  Proc = {p, q}
  Byte = {0, 1}
  NoProc = NoProc
  MaxN = 3
  Killable = {p}
CHECK_DEADLOCK FALSE
INVARIANTS RingBound NoLostWakeup FreedUnused
PROPERTIES ImplementsStream CallsReturn

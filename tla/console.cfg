SPECIFICATION FairSpec
CONSTANTS
  INPUT_BUF = 3
  WIDTH = 6
  Plain = {"a"}
  Proc = {p, q}
  NoProc = NoProc
  MaxN = 2
  Killable = {p}
INVARIANTS RingSound
PROPERTIES ImplementsLines ReaderServed
CHECK_DEADLOCK FALSE

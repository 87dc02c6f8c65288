SPECIFICATION MCSpec
CONSTANTS
  NPROC = 4
  NFrame = 8
  PGSIZE = 2
  USERTOP = 6
  Deltas <- MCDeltas
  Rules = {"main grows", "keep memory", "threads do not clone", "exits fit"}
  Proc = {p1, p2}
  First = p1
  Nobody = none
  NFILE = 3
  NOFILE = 2
  Inum = {root, i1}
  Root = root
  NoInum = noinum
  PipePage = {g1}
  Modes <- MCModes
  Counts = {2}
  MaxSize = 2
  Programs <- MCPrograms
  Parts = {"memory"}
INVARIANTS
  NoPanic
CHECK_DEADLOCK FALSE

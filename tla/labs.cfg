SPECIFICATION Spec
CONSTANTS
  NodeSize = 16
  PageSize = 64
  RegionSizes = {1, 65, 150}
  AllocSizes = {5, 16, 40}
  N_DBLOCKS = 1
  N_IBLOCKS = 1
  BlockSize = 2
  PerBlock = 2
  NBlocks = 53
  Inodes = 2
  FileSizes = {0, 1, 2, 5, 6, 13, 14, 30}
  Strides = {1, 7, 20}
  PGSIZE = 2
  USERTOP = 20
  WIDTH = 32
  LOW = 4
  GAP = 2
  Sbrks <- MCSbrks
  Images = {5, 8, 14}
  PageUnits = 2
  MoreUnits = 8
  MaxUnits = 19
  Payloads = {1, 4}
  OwnSbrks = {3}
  MaxHeld = 3
  StaleSizes = {}
INVARIANTS
  HeapSound
  Defragmented
  LayoutSound
  
PROPERTY
  FaultEnds
CHECK_DEADLOCK FALSE

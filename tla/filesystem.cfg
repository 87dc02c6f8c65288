SPECIFICATION Spec
CONSTANTS
  Proc = {p1, p2}
  Block = {b1, b2}
  FileName = {f}
  DirName = {d}
  NINODES = 3
  Calls = {"open", "mkdir", "unlink", "rmdir", "link", "write"}
  MaxCrashes = 1
  MaxLinks = 3
  NoInum = 0
SYMMETRY ProcBlockSymmetry
INVARIANTS DiskSound MemorySound

SPECIFICATION Spec
CONSTANTS
  NPROC = 4
  CPU = {c1, c2}
  PgDir = {d1, d2, d3, d4, d5}
  MaxPid = 4
  NoProc = NoProc
  NoDir = NoDir
  KernDir = KernDir
  IO = IO
  Calls = {"fork", "clone", "exec", "exit", "wait", "join", "kill", "io", "fault"}
  KillPids = {3}
  MayFail = {"kalloc", "fork", "clone"}
  Disciplined = TRUE
SYMMETRY PgDirSymmetry
CHECK_DEADLOCK FALSE
INVARIANTS OneCpuEach ParentLives NoLostWakeup SpacesSound

SPECIFICATION FairSpec
CONSTANTS
  NPROC = 3
  CPU = {c1}
  PgDir = {d1, d2, d3}
  MaxPid = 3
  NoProc = NoProc
  NoDir = NoDir
  KernDir = KernDir
  IO = IO
  Calls = {"clone", "exec", "exit", "join", "kill", "io"}
  KillPids = {2, 3}
  MayFail = {"kalloc"}
  Disciplined = TRUE
INVARIANT ThreadsSound
PROPERTIES  InitReaps

SPECIFICATION SpinSpec
CONSTANTS
  CPU = {c1, c2}
  Process = {p1, p2}
  None = None
INVARIANTS LocksSound NoLostWakeup

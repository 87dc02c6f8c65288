SPECIFICATION FairSpec
CONSTANTS
  Threads = {t1, t2, t3}
  Keys = {0, 1}
  HashSize = 2
  Calls = 1
  Nodes = {1, 2, 3}
  Kinds = {"spin", "mutex"}
  Tests = {"counter", "list", "hash"}
  FirstHeads <- MCHeads
CHECK_DEADLOCK FALSE
INVARIANTS MutualExclusion NoLostWakeup NodesAccounted
PROPERTIES ImplementsStore OnlyDeleteAbandons ThreadsJoin

--------------------------- MODULE ProcTableProofs ---------------------------
(***************************************************************************)
(* Proofs about ProcTable for every number of slots, CPUs and directories.  *)
(* Whatever programs call and whichever allocations fail: the types, that   *)
(* no process runs on two CPUs, and that none is orphaned.  For programs    *)
(* that keep to the discipline on threads: that no wakeup is lost, a space  *)
(* is freed once and after its last user, and join waits for a live thread. *)
(***************************************************************************)
EXTENDS ProcTable, TLAPS

(* The process that was dispatched and holds the lock runs.                 *)
LockInv == lock \in Slot => state[lock] = "RUNNING"

(* A fork or clone in progress is that of a running or preempted process,   *)
(* owns an EMBRYO slot of its own, and has linked it before it publishes.   *)
Building(p) == pc[p] \in {"fork", "forkCopy", "clone", "cloneShare", "publish"}
BuildInv ==
  /\ \A p \in Slot : Building(p) =>
       /\ state[p] \in {"RUNNABLE", "RUNNING"}
       /\ np[p] \in Slot /\ state[np[p]] = "EMBRYO"
       /\ pc[p] = "publish" => parent[np[p]] = p
  /\ \A p, q \in Slot : Building(p) /\ Building(q) /\ np[p] = np[q] => p = q

(* Every link leads to a process that lives, and only init has none.        *)
LinkInv ==
  /\ InitProc \in Live /\ pc[InitProc] # "exit"
  /\ \A s \in Slot : parent[s] \in Slot => parent[s] \in Live
  /\ \A s \in Slot \ {InitProc} :
       state[s] \in {"RUNNABLE", "RUNNING", "SLEEPING", "ZOMBIE"} => parent[s] \in Slot
  /\ state[InitProc] # "ZOMBIE"

IInv == TypeOK /\ OneCpuEach /\ LockInv /\ BuildInv /\ LinkInv

LEMMA InitIInv == Init => IInv
<1>. USE NProcAssumption, NullAssumption
<1>. SUFFICES ASSUME Init PROVE IInv
  OBVIOUS
<1>0. InitProc \in Slot
  BY DEF InitProc, Slot
<1>1. TypeOK
  <2>1. /\ state \in [Slot -> States]
        /\ parent \in [Slot -> Slot \cup {NoProc}]
        /\ chan \in [Slot -> Slot \cup {NoProc, IO}]
        /\ killed \in [Slot -> BOOLEAN]
        /\ pc \in [Slot -> PCs]
        /\ np \in [Slot -> Slot \cup {NoProc}]
    BY DEF Init, States, PCs
  <2>2. pid \in [Slot -> 0 .. MaxPid] /\ nextpid \in 1 .. MaxPid + 1
    BY DEF Init
  <2>3. pgdir \in [Slot -> PgDir \cup {NoDir}] /\ alloc \subseteq PgDir
    BY DEF Init
  <2>4. /\ cpu \in [CPU -> Slot \cup {NoProc}]
        /\ cr3 \in [CPU -> PgDir \cup {KernDir}]
        /\ lock \in Slot \cup {NoProc}
        /\ panicked \in BOOLEAN
    BY DEF Init
  <2>. QED BY <2>1, <2>2, <2>3, <2>4 DEF TypeOK
<1>2. OneCpuEach /\ LockInv
  BY <1>0 DEF Init, OneCpuEach, LockInv
<1>3. BuildInv
  BY DEF Init, BuildInv, Building
<1>4. LinkInv
  BY <1>0 DEF Init, LinkInv, Live
<1>. QED BY <1>1, <1>2, <1>3, <1>4 DEF IInv

LEMMA TypeStep ==
  ASSUME TypeOK, [Next]_vars
  PROVE  TypeOK'
<1>. USE DEF States, PCs
<1>1. CASE \E p \in Slot : AllocProc(p, "fork")
  BY <1>1, NProcAssumption, NullAssumption DEF TypeOK, AllocProc, GivenPid, IsFirst, Locked, MayCall, table, local, hard
<1>2. CASE \E p \in Slot : AllocProc(p, "clone")
  BY <1>2, NProcAssumption, NullAssumption DEF TypeOK, AllocProc, GivenPid, IsFirst, Locked, MayCall, table, local, hard
<1>3. CASE \E p \in Slot : AllocStack(p)
  BY <1>3, NProcAssumption, NullAssumption DEF TypeOK, AllocStack, Running, table, local, hard
<1>4. CASE \E p \in Slot : ForkCopy(p)
  BY <1>4, NProcAssumption, NullAssumption DEF TypeOK, ForkCopy, Running, table, local, hard
<1>5. CASE \E p \in Slot : CloneShare(p)
  <2>. SUFFICES ASSUME NEW p \in Slot, CloneShare(p) PROVE TypeOK'
    BY <1>5 DEF TypeOK
  <2>. USE DEF CloneShare, Running, table, local, hard
  <2>1. state' \in [Slot -> States]
    BY DEF TypeOK, States, PCs
  <2>2. parent' \in [Slot -> Slot \cup {NoProc}]
    BY DEF TypeOK, States, PCs
  <2>3. pgdir' \in [Slot -> PgDir \cup {NoDir}] /\ alloc' \subseteq PgDir
    BY DEF TypeOK, States, PCs
  <2>4. chan' \in [Slot -> Slot \cup {NoProc, IO}]
    BY DEF TypeOK, States, PCs
  <2>5. killed' \in [Slot -> BOOLEAN] /\ panicked' \in BOOLEAN
    BY DEF TypeOK, States, PCs
  <2>6. pid' \in [Slot -> 0 .. MaxPid] /\ nextpid' \in 1 .. MaxPid + 1
    BY DEF TypeOK, States, PCs
  <2>7. pc' \in [Slot -> PCs] /\ np' \in [Slot -> Slot \cup {NoProc}]
    BY DEF TypeOK, States, PCs
  <2>8. /\ cpu' \in [CPU -> Slot \cup {NoProc}]
        /\ cr3' \in [CPU -> PgDir \cup {KernDir}] /\ lock' \in Slot \cup {NoProc}
    BY DEF TypeOK, States, PCs
  <2>. QED BY <2>1, <2>2, <2>3, <2>4, <2>5, <2>6, <2>7, <2>8 DEF TypeOK
<1>6. CASE \E p \in Slot : Publish(p)
  <2>. SUFFICES ASSUME NEW p \in Slot, Publish(p) PROVE TypeOK'
    BY <1>6 DEF TypeOK
  <2>. USE DEF Publish, Running, table, local, hard
  <2>1. state' \in [Slot -> States]
    BY DEF TypeOK, States, PCs
  <2>2. parent' \in [Slot -> Slot \cup {NoProc}]
    BY DEF TypeOK, States, PCs
  <2>3. pgdir' \in [Slot -> PgDir \cup {NoDir}] /\ alloc' \subseteq PgDir
    BY DEF TypeOK, States, PCs
  <2>4. chan' \in [Slot -> Slot \cup {NoProc, IO}]
    BY DEF TypeOK, States, PCs
  <2>5. killed' \in [Slot -> BOOLEAN] /\ panicked' \in BOOLEAN
    BY DEF TypeOK, States, PCs
  <2>6. pid' \in [Slot -> 0 .. MaxPid] /\ nextpid' \in 1 .. MaxPid + 1
    BY DEF TypeOK, States, PCs
  <2>7. pc' \in [Slot -> PCs] /\ np' \in [Slot -> Slot \cup {NoProc}]
    BY DEF TypeOK, States, PCs
  <2>8. /\ cpu' \in [CPU -> Slot \cup {NoProc}]
        /\ cr3' \in [CPU -> PgDir \cup {KernDir}] /\ lock' \in Slot \cup {NoProc}
    BY DEF TypeOK, States, PCs
  <2>. QED BY <2>1, <2>2, <2>3, <2>4, <2>5, <2>6, <2>7, <2>8 DEF TypeOK
<1>7. CASE \E p \in Slot : Exec(p)
  BY <1>7, NProcAssumption, NullAssumption DEF TypeOK, Exec, Running, MayCall, table, local, hard
<1>8. CASE \E p \in Slot : ExitBegin(p)
  BY <1>8, ZenonT(30), NProcAssumption, NullAssumption DEF TypeOK, ExitBegin, Running, table, local, hard
<1>9. CASE \E p \in Slot : ExitCommit(p)
  <2>. SUFFICES ASSUME NEW p \in Slot, ExitCommit(p) PROVE TypeOK'
    BY <1>9 DEF TypeOK
  <2>. USE DEF ExitCommit, Locked, Woken, Inherited, LeaveCpu, Abandoned, table, local, hard
  <2>1. state' \in [Slot -> States]
    BY DEF TypeOK, States, PCs
  <2>2. parent' \in [Slot -> Slot \cup {NoProc}]
    BY NProcAssumption DEF TypeOK, InitProc, Slot
  <2>3. pgdir' \in [Slot -> PgDir \cup {NoDir}] /\ alloc' \subseteq PgDir
    BY DEF TypeOK, States, PCs
  <2>4. chan' \in [Slot -> Slot \cup {NoProc, IO}]
    BY DEF TypeOK, States, PCs
  <2>5. killed' \in [Slot -> BOOLEAN] /\ panicked' \in BOOLEAN
    BY DEF TypeOK, States, PCs
  <2>6. pid' \in [Slot -> 0 .. MaxPid] /\ nextpid' \in 1 .. MaxPid + 1
    BY DEF TypeOK, States, PCs
  <2>7. pc' \in [Slot -> PCs] /\ np' \in [Slot -> Slot \cup {NoProc}]
    BY DEF TypeOK, States, PCs
  <2>8. /\ cpu' \in [CPU -> Slot \cup {NoProc}]
        /\ cr3' \in [CPU -> PgDir \cup {KernDir}] /\ lock' \in Slot \cup {NoProc}
    BY DEF TypeOK, States, PCs
  <2>. QED BY <2>1, <2>2, <2>3, <2>4, <2>5, <2>6, <2>7, <2>8 DEF TypeOK
<1>10. CASE \E p \in Slot : Wait(p)
  <2>. SUFFICES ASSUME NEW p \in Slot, Wait(p) PROVE TypeOK'
    BY <1>10 DEF TypeOK
  <2>. USE DEF Wait, ReapOrSleep, FreeSlot, IsFirst, LeaveCpu, MayCall, table, local, hard
  <2>1. state' \in [Slot -> States]
    BY DEF TypeOK, States, PCs
  <2>2. parent' \in [Slot -> Slot \cup {NoProc}]
    BY DEF TypeOK, States, PCs
  <2>3. pgdir' \in [Slot -> PgDir \cup {NoDir}] /\ alloc' \subseteq PgDir
    BY DEF TypeOK, States, PCs
  <2>4. chan' \in [Slot -> Slot \cup {NoProc, IO}]
    BY DEF TypeOK, States, PCs
  <2>5. killed' \in [Slot -> BOOLEAN] /\ panicked' \in BOOLEAN
    BY DEF TypeOK, States, PCs
  <2>6. pid' \in [Slot -> 0 .. MaxPid] /\ nextpid' \in 1 .. MaxPid + 1
    BY NProcAssumption DEF TypeOK, States, PCs
  <2>7. pc' \in [Slot -> PCs] /\ np' \in [Slot -> Slot \cup {NoProc}]
    BY DEF TypeOK, States, PCs
  <2>8. /\ cpu' \in [CPU -> Slot \cup {NoProc}]
        /\ cr3' \in [CPU -> PgDir \cup {KernDir}] /\ lock' \in Slot \cup {NoProc}
    BY DEF TypeOK, States, PCs
  <2>. QED BY <2>1, <2>2, <2>3, <2>4, <2>5, <2>6, <2>7, <2>8 DEF TypeOK
<1>11. CASE \E p \in Slot : Join(p)
  <2>. SUFFICES ASSUME NEW p \in Slot, Join(p) PROVE TypeOK'
    BY <1>11 DEF TypeOK
  <2>. USE DEF Join, ReapOrSleep, FreeSlot, IsFirst, LeaveCpu, MayCall, table, local, hard
  <2>1. state' \in [Slot -> States]
    BY DEF TypeOK, States, PCs
  <2>2. parent' \in [Slot -> Slot \cup {NoProc}]
    BY DEF TypeOK, States, PCs
  <2>3. pgdir' \in [Slot -> PgDir \cup {NoDir}] /\ alloc' \subseteq PgDir
    BY DEF TypeOK, States, PCs
  <2>4. chan' \in [Slot -> Slot \cup {NoProc, IO}]
    BY DEF TypeOK, States, PCs
  <2>5. killed' \in [Slot -> BOOLEAN] /\ panicked' \in BOOLEAN
    BY DEF TypeOK, States, PCs
  <2>6. pid' \in [Slot -> 0 .. MaxPid] /\ nextpid' \in 1 .. MaxPid + 1
    BY NProcAssumption DEF TypeOK, States, PCs
  <2>7. pc' \in [Slot -> PCs] /\ np' \in [Slot -> Slot \cup {NoProc}]
    BY DEF TypeOK, States, PCs
  <2>8. /\ cpu' \in [CPU -> Slot \cup {NoProc}]
        /\ cr3' \in [CPU -> PgDir \cup {KernDir}] /\ lock' \in Slot \cup {NoProc}
    BY DEF TypeOK, States, PCs
  <2>. QED BY <2>1, <2>2, <2>3, <2>4, <2>5, <2>6, <2>7, <2>8 DEF TypeOK
<1>12. CASE \E p \in Slot : Kill(p)
  BY <1>12, NProcAssumption, NullAssumption DEF TypeOK, Kill, Locked, IsFirst, MayCall, table, local, hard
<1>13. CASE \E p \in Slot : Fault(p)
  BY <1>13, NProcAssumption, NullAssumption DEF TypeOK, Fault, Running, table, local, hard
<1>14. CASE \E p \in Slot : EnterIO(p)
  BY <1>14, NProcAssumption, NullAssumption DEF TypeOK, EnterIO, Running, MayCall, table, local, hard
<1>15. CASE \E p \in Slot : SleepIO(p)
  BY <1>15, NProcAssumption, NullAssumption DEF TypeOK, SleepIO, Locked, LeaveCpu, table, local, hard
<1>16. CASE \E p \in Slot : Release(p)
  BY <1>16, NProcAssumption, NullAssumption DEF TypeOK, Release, table, local, hard
<1>17. CASE \E p \in Slot : Yield(p)
  BY <1>17, NProcAssumption, NullAssumption DEF TypeOK, Yield, Locked, LeaveCpu, table, local, hard
<1>18. CASE \E c \in CPU, p \in Slot : Dispatch(c, p)
  <2>. SUFFICES ASSUME NEW c \in CPU, NEW p \in Slot, Dispatch(c, p) PROVE TypeOK'
    BY <1>18 DEF TypeOK
  <2>. USE DEF Dispatch, table, local, hard
  <2>1. state' \in [Slot -> States]
    BY DEF TypeOK, States, PCs
  <2>2. parent' \in [Slot -> Slot \cup {NoProc}]
    BY DEF TypeOK, States, PCs
  <2>3. pgdir' \in [Slot -> PgDir \cup {NoDir}] /\ alloc' \subseteq PgDir
    BY DEF TypeOK, States, PCs
  <2>4. chan' \in [Slot -> Slot \cup {NoProc, IO}]
    BY DEF TypeOK, States, PCs
  <2>5. killed' \in [Slot -> BOOLEAN] /\ panicked' \in BOOLEAN
    BY DEF TypeOK, States, PCs
  <2>6. pid' \in [Slot -> 0 .. MaxPid] /\ nextpid' \in 1 .. MaxPid + 1
    BY DEF TypeOK, States, PCs
  <2>7. pc' \in [Slot -> PCs] /\ np' \in [Slot -> Slot \cup {NoProc}]
    BY DEF TypeOK, States, PCs
  <2>8. /\ cpu' \in [CPU -> Slot \cup {NoProc}]
        /\ cr3' \in [CPU -> PgDir \cup {KernDir}] /\ lock' \in Slot \cup {NoProc}
    BY DEF TypeOK, States, PCs
  <2>. QED BY <2>1, <2>2, <2>3, <2>4, <2>5, <2>6, <2>7, <2>8 DEF TypeOK
<1>19. CASE WakeupIO
  BY <1>19, NProcAssumption, NullAssumption DEF TypeOK, WakeupIO, Woken, table, local, hard
<1>20. CASE UNCHANGED vars
  BY <1>20 DEF TypeOK, vars, table, local, hard
<1>. QED
  BY <1>1, <1>2, <1>3, <1>4, <1>5, <1>6, <1>7, <1>8, <1>9, <1>10, <1>11, <1>12, <1>13, <1>14, <1>15, <1>16, <1>17, <1>18, <1>19, <1>20 DEF Next, Step

LEMMA CpuStep ==
  ASSUME TypeOK, OneCpuEach, LockInv, BuildInv, [Next]_vars
  PROVE  (OneCpuEach /\ LockInv)'
<1>. USE DEF TypeOK, OneCpuEach, LockInv, BuildInv, Building
<1>1. CASE \E p \in Slot : AllocProc(p, "fork")
  BY <1>1, NullAssumption DEF AllocProc, GivenPid, IsFirst, Locked, MayCall, table, local, hard
<1>2. CASE \E p \in Slot : AllocProc(p, "clone")
  BY <1>2, NullAssumption DEF AllocProc, GivenPid, IsFirst, Locked, MayCall, table, local, hard
<1>3. CASE \E p \in Slot : AllocStack(p)
  BY <1>3, NullAssumption DEF AllocStack, Running, table, local, hard
<1>4. CASE \E p \in Slot : ForkCopy(p)
  BY <1>4, NullAssumption DEF ForkCopy, Running, table, local, hard
<1>5. CASE \E p \in Slot : CloneShare(p)
  BY <1>5, NullAssumption DEF CloneShare, Running, table, local, hard
<1>6. CASE \E p \in Slot : Publish(p)
  BY <1>6, NullAssumption DEF Publish, Running, table, local, hard
<1>7. CASE \E p \in Slot : Exec(p)
  BY <1>7, NullAssumption DEF Exec, Running, MayCall, table, local, hard
<1>8. CASE \E p \in Slot : ExitBegin(p)
  BY <1>8, NullAssumption DEF ExitBegin, Running, table, local, hard
<1>9. CASE \E p \in Slot : ExitCommit(p)
  BY <1>9, NullAssumption DEF ExitCommit, Locked, Woken, Inherited, LeaveCpu, Abandoned, InitProc, table, local, hard
<1>10. CASE \E p \in Slot : Wait(p)
  BY <1>10, NullAssumption DEF Wait, ReapOrSleep, FreeSlot, IsFirst, Locked, LeaveCpu, MayCall, table, local, hard
<1>11. CASE \E p \in Slot : Join(p)
  BY <1>11, NullAssumption DEF Join, ReapOrSleep, FreeSlot, IsFirst, Locked, LeaveCpu, MayCall, table, local, hard
<1>12. CASE \E p \in Slot : Kill(p)
  BY <1>12, NullAssumption DEF Kill, Locked, IsFirst, MayCall, table, local, hard
<1>13. CASE \E p \in Slot : Fault(p)
  BY <1>13, NullAssumption DEF Fault, Running, table, local, hard
<1>14. CASE \E p \in Slot : EnterIO(p)
  BY <1>14, NullAssumption DEF EnterIO, Running, MayCall, table, local, hard
<1>15. CASE \E p \in Slot : SleepIO(p)
  BY <1>15, NullAssumption DEF SleepIO, Locked, LeaveCpu, table, local, hard
<1>16. CASE \E p \in Slot : Release(p)
  BY <1>16, NullAssumption DEF Release, table, local, hard
<1>17. CASE \E p \in Slot : Yield(p)
  BY <1>17, NullAssumption DEF Yield, Locked, LeaveCpu, table, local, hard
<1>18. CASE \E c \in CPU, p \in Slot : Dispatch(c, p)
  BY <1>18, NullAssumption DEF Dispatch, table, local, hard
<1>19. CASE WakeupIO
  BY <1>19, NullAssumption DEF WakeupIO, Woken, table, local, hard
<1>20. CASE UNCHANGED vars
  BY <1>20 DEF vars, table, local, hard
<1>. QED
  BY <1>1, <1>2, <1>3, <1>4, <1>5, <1>6, <1>7, <1>8, <1>9, <1>10, <1>11, <1>12, <1>13, <1>14, <1>15, <1>16, <1>17, <1>18, <1>19, <1>20 DEF Next, Step

LEMMA BuildStep ==
  ASSUME TypeOK, LockInv, BuildInv, [Next]_vars
  PROVE  BuildInv'
<1>. USE DEF TypeOK, LockInv, BuildInv, Building
<1>1. CASE \E p \in Slot : AllocProc(p, "fork")
  BY <1>1, NullAssumption DEF AllocProc, GivenPid, IsFirst, Locked, MayCall, table, local, hard
<1>2. CASE \E p \in Slot : AllocProc(p, "clone")
  BY <1>2, NullAssumption DEF AllocProc, GivenPid, IsFirst, Locked, MayCall, table, local, hard
<1>3. CASE \E p \in Slot : AllocStack(p)
  BY <1>3, NullAssumption DEF AllocStack, Running, table, local, hard
<1>4. CASE \E p \in Slot : ForkCopy(p)
  BY <1>4, NullAssumption DEF ForkCopy, Running, table, local, hard
<1>5. CASE \E p \in Slot : CloneShare(p)
  BY <1>5, NullAssumption DEF CloneShare, Running, table, local, hard
<1>6. CASE \E p \in Slot : Publish(p)
  BY <1>6, NullAssumption DEF Publish, Running, table, local, hard
<1>7. CASE \E p \in Slot : Exec(p)
  BY <1>7, NullAssumption DEF Exec, Running, MayCall, table, local, hard
<1>8. CASE \E p \in Slot : ExitBegin(p)
  BY <1>8, NullAssumption DEF ExitBegin, Running, table, local, hard
<1>9. CASE \E p \in Slot : ExitCommit(p)
  BY <1>9, NullAssumption DEF ExitCommit, Locked, Woken, Inherited, LeaveCpu, Abandoned, InitProc, table, local, hard
<1>10. CASE \E p \in Slot : Wait(p)
  BY <1>10, NullAssumption DEF Wait, ReapOrSleep, FreeSlot, IsFirst, Locked, LeaveCpu, MayCall, table, local, hard
<1>11. CASE \E p \in Slot : Join(p)
  BY <1>11, NullAssumption DEF Join, ReapOrSleep, FreeSlot, IsFirst, Locked, LeaveCpu, MayCall, table, local, hard
<1>12. CASE \E p \in Slot : Kill(p)
  BY <1>12, NullAssumption DEF Kill, Locked, IsFirst, MayCall, table, local, hard
<1>13. CASE \E p \in Slot : Fault(p)
  BY <1>13, NullAssumption DEF Fault, Running, table, local, hard
<1>14. CASE \E p \in Slot : EnterIO(p)
  BY <1>14, NullAssumption DEF EnterIO, Running, MayCall, table, local, hard
<1>15. CASE \E p \in Slot : SleepIO(p)
  BY <1>15, NullAssumption DEF SleepIO, Locked, LeaveCpu, table, local, hard
<1>16. CASE \E p \in Slot : Release(p)
  BY <1>16, NullAssumption DEF Release, table, local, hard
<1>17. CASE \E p \in Slot : Yield(p)
  BY <1>17, NullAssumption DEF Yield, Locked, LeaveCpu, table, local, hard
<1>18. CASE \E c \in CPU, p \in Slot : Dispatch(c, p)
  BY <1>18, NullAssumption DEF Dispatch, table, local, hard
<1>19. CASE WakeupIO
  BY <1>19, NullAssumption DEF WakeupIO, Woken, table, local, hard
<1>20. CASE UNCHANGED vars
  BY <1>20 DEF vars, table, local, hard
<1>. QED
  BY <1>1, <1>2, <1>3, <1>4, <1>5, <1>6, <1>7, <1>8, <1>9, <1>10, <1>11, <1>12, <1>13, <1>14, <1>15, <1>16, <1>17, <1>18, <1>19, <1>20 DEF Next, Step

LEMMA LinkStep ==
  ASSUME TypeOK, LockInv, BuildInv, LinkInv, [Next]_vars
  PROVE  LinkInv'
<1>. USE DEF TypeOK, LockInv, BuildInv, Building, LinkInv, Live
<1>1. CASE \E p \in Slot : AllocProc(p, "fork")
  BY <1>1, NullAssumption DEF AllocProc, GivenPid, IsFirst, Locked, MayCall, table, local, hard
<1>2. CASE \E p \in Slot : AllocProc(p, "clone")
  BY <1>2, NullAssumption DEF AllocProc, GivenPid, IsFirst, Locked, MayCall, table, local, hard
<1>3. CASE \E p \in Slot : AllocStack(p)
  BY <1>3, NullAssumption DEF AllocStack, Running, table, local, hard
<1>4. CASE \E p \in Slot : ForkCopy(p)
  BY <1>4, SMTT(20), NullAssumption DEF ForkCopy, Running, table, local, hard
<1>5. CASE \E p \in Slot : CloneShare(p)
  BY <1>5, NullAssumption DEF CloneShare, Running, table, local, hard
<1>6. CASE \E p \in Slot : Publish(p)
  BY <1>6, NullAssumption DEF Publish, Running, table, local, hard
<1>7. CASE \E p \in Slot : Exec(p)
  BY <1>7, NullAssumption DEF Exec, Running, MayCall, table, local, hard
<1>8. CASE \E p \in Slot : ExitBegin(p)
  BY <1>8, NullAssumption DEF ExitBegin, Running, table, local, hard
<1>9. CASE \E p \in Slot : ExitCommit(p)
  BY <1>9, NullAssumption DEF ExitCommit, Locked, Woken, Inherited, LeaveCpu, Abandoned, InitProc, table, local, hard
<1>10. CASE \E p \in Slot : Wait(p)
  BY <1>10, NullAssumption DEF Wait, ReapOrSleep, FreeSlot, IsFirst, Locked, LeaveCpu, MayCall, table, local, hard
<1>11. CASE \E p \in Slot : Join(p)
  BY <1>11, NullAssumption DEF Join, ReapOrSleep, FreeSlot, IsFirst, Locked, LeaveCpu, MayCall, table, local, hard
<1>12. CASE \E p \in Slot : Kill(p)
  BY <1>12, NullAssumption DEF Kill, Locked, IsFirst, MayCall, table, local, hard
<1>13. CASE \E p \in Slot : Fault(p)
  BY <1>13, NullAssumption DEF Fault, Running, table, local, hard
<1>14. CASE \E p \in Slot : EnterIO(p)
  BY <1>14, NullAssumption DEF EnterIO, Running, MayCall, table, local, hard
<1>15. CASE \E p \in Slot : SleepIO(p)
  BY <1>15, NullAssumption DEF SleepIO, Locked, LeaveCpu, table, local, hard
<1>16. CASE \E p \in Slot : Release(p)
  BY <1>16, NullAssumption DEF Release, table, local, hard
<1>17. CASE \E p \in Slot : Yield(p)
  BY <1>17, NullAssumption DEF Yield, Locked, LeaveCpu, table, local, hard
<1>18. CASE \E c \in CPU, p \in Slot : Dispatch(c, p)
  BY <1>18, NullAssumption DEF Dispatch, table, local, hard
<1>19. CASE WakeupIO
  BY <1>19, NullAssumption DEF WakeupIO, Woken, table, local, hard
<1>20. CASE UNCHANGED vars
  BY <1>20 DEF vars, table, local, hard
<1>. QED
  BY <1>1, <1>2, <1>3, <1>4, <1>5, <1>6, <1>7, <1>8, <1>9, <1>10, <1>11, <1>12, <1>13, <1>14, <1>15, <1>16, <1>17, <1>18, <1>19, <1>20 DEF Next, Step

(* The strengthened invariant holds in every reachable state.               *)
THEOREM Invariance == Spec => []IInv
<1>1. Init => IInv
  BY InitIInv
<1>2. IInv /\ [Next]_vars => IInv'
  BY TypeStep, CpuStep, BuildStep, LinkStep DEF IInv
<1>. QED BY <1>1, <1>2, PTL DEF Spec

(* Type correctness of the process table (proc.h).                          *)
THEOREM TypeCorrect == Spec => []TypeOK
<1>1. IInv => TypeOK
  BY DEF IInv
<1>. QED BY <1>1, Invariance, PTL

(* No process runs on two CPUs, and a CPU runs only RUNNING processes       *)
(* (scheduler, sched).                                                      *)
THEOREM OneCpuCorrect == Spec => []OneCpuEach
<1>1. IInv => OneCpuEach
  BY DEF IInv
<1>. QED BY <1>1, Invariance, PTL

(* Every process other than init has a parent that lives (exit, wait).      *)
THEOREM ParentCorrect == Spec => []ParentLives
<1>1. IInv => ParentLives
  BY NullAssumption DEF IInv, LinkInv, ParentLives, Live
<1>. QED BY <1>1, Invariance, PTL

-----------------------------------------------------------------------------
(* The page directories and the wakeups.  Two things break them that the    *)
(* code does not prevent: threads that clone or exec in a shared space, and *)
(* an exit that finds no memory for the copies it gives to its threads; and *)
(* killing init panics the kernel.  Careful excludes the three.             *)
Careful == Disciplined /\ "exit" \notin MayFail /\ 1 \notin KillPids

(* init forks and waits, and nobody kills it.                               *)
InitProcInv ==
  /\ pid[InitProc] = 1 /\ ~killed[InitProc]
  /\ pc[InitProc] \notin {"clone", "cloneShare", "join", "exit"}

(* A free slot has no parent, nor has one that is being built before it is  *)
(* linked: its pgdir field is what the last owner left.                     *)
FreeInv ==
  /\ \A s \in Slot : state[s] = "UNUSED" => parent[s] = NoProc
  /\ \A p \in Slot : Building(p) /\ pc[p] # "publish" => parent[np[p]] = NoProc
  /\ parent[InitProc] = NoProc

(* The slots whose pgdir means something.                                   *)
Linked(s) == s = InitProc \/ parent[s] \in Slot

(* Who shares a directory: never init; a process and its threads, one level *)
(* deep, which stays so while a clone is under way; and no others.          *)
ShareInv ==
  /\ \A s \in Slot \ {InitProc} : Linked(s) => pgdir[s] # pgdir[InitProc]
  /\ \A s, t \in Slot : ThreadOf(t, s) => ~IsThread(s)
  /\ \A p \in Slot : pc[p] \in {"clone", "cloneShare"} => ~IsThread(p)
  /\ \A s, t \in Slot : Linked(s) /\ Linked(t) /\ s # t /\ pgdir[s] = pgdir[t] =>
       \/ parent[s] = t \/ parent[t] = s
       \/ parent[s] = parent[t] /\ pgdir[parent[s]] = pgdir[s]

(* The allocated directories are exactly those of the linked slots.         *)
SpaceInv ==
  /\ \A s \in Slot : Linked(s) => pgdir[s] \in alloc
  /\ \A d \in alloc : \E s \in Slot : Linked(s) /\ pgdir[s] = d

(* SpaceOK is inductive with IInv.                                          *)
SpaceOK == InitProcInv /\ FreeInv /\ ShareInv /\ SpaceInv /\ NoPanic /\ NoLostWakeup

LEMMA InitIsSlot == InitProc \in Slot
  BY NProcAssumption DEF InitProc, Slot

LEMMA InitSpaceOK == Init => SpaceOK
<1>. SUFFICES ASSUME Init PROVE SpaceOK
  OBVIOUS
<1>. USE InitIsSlot, NullAssumption
<1>1. InitProcInv /\ FreeInv /\ NoPanic /\ NoLostWakeup
  BY DEF Init, InitProcInv, FreeInv, Building, NoPanic, NoLostWakeup
<1>2. ShareInv
  BY DEF Init, ShareInv, Linked, ThreadOf, IsThread
<1>3. SpaceInv
  BY DEF Init, SpaceInv, Linked
<1>. QED BY <1>1, <1>2, <1>3 DEF SpaceOK

LEMMA InitProcStep ==
  ASSUME TypeOK, BuildInv, LinkInv, FreeInv, InitProcInv, Careful, InitProc \in Slot, [Next]_vars
  PROVE  InitProcInv'
<1>. USE NullAssumption DEF TypeOK, BuildInv, Building, LinkInv, Live, FreeInv, InitProcInv, Careful
<1>1. CASE \E p \in Slot : AllocProc(p, "fork")
  BY <1>1 DEF AllocProc, GivenPid, IsFirst, Locked, MayCall, table, local, hard
<1>2. CASE \E p \in Slot : AllocProc(p, "clone")
  BY <1>2 DEF AllocProc, GivenPid, IsFirst, Locked, MayCall, table, local, hard
<1>3. CASE \E p \in Slot : AllocStack(p)
  BY <1>3 DEF AllocStack, Running, table, local, hard
<1>4. CASE \E p \in Slot : ForkCopy(p)
  BY <1>4 DEF ForkCopy, Running, table, local, hard
<1>5. CASE \E p \in Slot : CloneShare(p)
  BY <1>5 DEF CloneShare, Running, table, local, hard
<1>6. CASE \E p \in Slot : Publish(p)
  BY <1>6 DEF Publish, Running, table, local, hard
<1>7. CASE \E p \in Slot : Exec(p)
  BY <1>7 DEF Exec, Running, MayCall, Shared, table, local, hard
<1>8. CASE \E p \in Slot : ExitBegin(p)
  BY <1>8 DEF ExitBegin, Running, MayCall, table, local, hard
<1>9. CASE \E p \in Slot : ExitCommit(p)
  BY <1>9 DEF ExitCommit, Locked, Woken, ExitWakes, Inherited, LeaveCpu, Abandoned, table, local, hard
<1>10. CASE \E p \in Slot : Wait(p)
  BY <1>10 DEF Wait, ReapOrSleep, FreeSlot, IsFirst, Locked, LeaveCpu, MayCall, ChildOf, table, local, hard
<1>11. CASE \E p \in Slot : Join(p)
  BY <1>11 DEF Join, ReapOrSleep, FreeSlot, IsFirst, Locked, LeaveCpu, MayCall, table, local, hard
<1>12. CASE \E p \in Slot : Kill(p)
  BY <1>12 DEF Kill, Locked, IsFirst, MayCall, table, local, hard
<1>13. CASE \E p \in Slot : Fault(p)
  BY <1>13 DEF Fault, Running, MayCall, table, local, hard
<1>14. CASE \E p \in Slot : EnterIO(p)
  BY <1>14 DEF EnterIO, Running, MayCall, table, local, hard
<1>15. CASE \E p \in Slot : SleepIO(p)
  BY <1>15 DEF SleepIO, Locked, LeaveCpu, table, local, hard
<1>16. CASE \E p \in Slot : Release(p)
  BY <1>16 DEF Release, table, local, hard
<1>17. CASE \E p \in Slot : Yield(p)
  BY <1>17 DEF Yield, Locked, LeaveCpu, table, local, hard
<1>18. CASE \E c \in CPU, p \in Slot : Dispatch(c, p)
  BY <1>18 DEF Dispatch, table, local, hard
<1>19. CASE WakeupIO
  BY <1>19 DEF WakeupIO, Woken, table, local, hard
<1>20. CASE UNCHANGED vars
  BY <1>20 DEF vars, table, local, hard
<1>. QED
  BY <1>1, <1>2, <1>3, <1>4, <1>5, <1>6, <1>7, <1>8, <1>9, <1>10, <1>11, <1>12, <1>13, <1>14, <1>15, <1>16, <1>17, <1>18, <1>19, <1>20 DEF Next, Step

LEMMA FreeStep ==
  ASSUME TypeOK, BuildInv, LinkInv, FreeInv, InitProc \in Slot, [Next]_vars
  PROVE  FreeInv'
<1>. USE NullAssumption DEF TypeOK, BuildInv, Building, LinkInv, Live, FreeInv
<1>1. CASE \E p \in Slot : AllocProc(p, "fork")
  BY <1>1 DEF AllocProc, GivenPid, IsFirst, Locked, MayCall, table, local, hard
<1>2. CASE \E p \in Slot : AllocProc(p, "clone")
  BY <1>2 DEF AllocProc, GivenPid, IsFirst, Locked, MayCall, table, local, hard
<1>3. CASE \E p \in Slot : AllocStack(p)
  BY <1>3 DEF AllocStack, Running, table, local, hard
<1>4. CASE \E p \in Slot : ForkCopy(p)
  BY <1>4 DEF ForkCopy, Running, table, local, hard
<1>5. CASE \E p \in Slot : CloneShare(p)
  BY <1>5 DEF CloneShare, Running, table, local, hard
<1>6. CASE \E p \in Slot : Publish(p)
  BY <1>6 DEF Publish, Running, table, local, hard
<1>7. CASE \E p \in Slot : Exec(p)
  BY <1>7 DEF Exec, Running, MayCall, Shared, table, local, hard
<1>8. CASE \E p \in Slot : ExitBegin(p)
  BY <1>8 DEF ExitBegin, Running, MayCall, table, local, hard
<1>9. CASE \E p \in Slot : ExitCommit(p)
  BY <1>9, SMTT(20) DEF ExitCommit, Locked, Woken, ExitWakes, Inherited, LeaveCpu, Abandoned, table, local, hard
<1>10. CASE \E p \in Slot : Wait(p)
  BY <1>10 DEF Wait, ReapOrSleep, FreeSlot, IsFirst, Locked, LeaveCpu, MayCall, ChildOf, table, local, hard
<1>11. CASE \E p \in Slot : Join(p)
  BY <1>11 DEF Join, ReapOrSleep, FreeSlot, IsFirst, Locked, LeaveCpu, MayCall, table, local, hard
<1>12. CASE \E p \in Slot : Kill(p)
  BY <1>12 DEF Kill, Locked, IsFirst, MayCall, table, local, hard
<1>13. CASE \E p \in Slot : Fault(p)
  BY <1>13 DEF Fault, Running, MayCall, table, local, hard
<1>14. CASE \E p \in Slot : EnterIO(p)
  BY <1>14 DEF EnterIO, Running, MayCall, table, local, hard
<1>15. CASE \E p \in Slot : SleepIO(p)
  BY <1>15 DEF SleepIO, Locked, LeaveCpu, table, local, hard
<1>16. CASE \E p \in Slot : Release(p)
  BY <1>16 DEF Release, table, local, hard
<1>17. CASE \E p \in Slot : Yield(p)
  BY <1>17 DEF Yield, Locked, LeaveCpu, table, local, hard
<1>18. CASE \E c \in CPU, p \in Slot : Dispatch(c, p)
  BY <1>18 DEF Dispatch, table, local, hard
<1>19. CASE WakeupIO
  BY <1>19 DEF WakeupIO, Woken, table, local, hard
<1>20. CASE UNCHANGED vars
  BY <1>20 DEF vars, table, local, hard
<1>. QED
  BY <1>1, <1>2, <1>3, <1>4, <1>5, <1>6, <1>7, <1>8, <1>9, <1>10, <1>11, <1>12, <1>13, <1>14, <1>15, <1>16, <1>17, <1>18, <1>19, <1>20 DEF Next, Step

LEMMA ShareStep ==
  ASSUME TypeOK, BuildInv, LinkInv, FreeInv, InitProcInv, ShareInv, SpaceInv, Careful, InitProc \in Slot, [Next]_vars
  PROVE  ShareInv'
<1>. USE NullAssumption DEF TypeOK, BuildInv, Building, LinkInv, Live, FreeInv, InitProcInv, ShareInv, SpaceInv, Careful, Linked, ThreadOf, IsThread
<1>1. CASE \E p \in Slot : AllocProc(p, "fork")
  BY <1>1 DEF AllocProc, GivenPid, IsFirst, Locked, MayCall, table, local, hard
<1>2. CASE \E p \in Slot : AllocProc(p, "clone")
  BY <1>2 DEF AllocProc, GivenPid, IsFirst, Locked, MayCall, table, local, hard
<1>3. CASE \E p \in Slot : AllocStack(p)
  BY <1>3 DEF AllocStack, Running, table, local, hard
<1>4. CASE \E p \in Slot : ForkCopy(p)
  <2>. SUFFICES ASSUME NEW p \in Slot, ForkCopy(p) PROVE ShareInv'
    BY <1>4
  <2>. USE DEF ForkCopy, Running, table, local, hard
  <2>1. \A s \in Slot \ {InitProc} : Linked(s)' => pgdir'[s] # pgdir'[InitProc]
    OBVIOUS
  <2>2. \A s, t \in Slot : ThreadOf(t, s)' => ~IsThread(s)'
    OBVIOUS
  <2>3. \A q \in Slot : pc'[q] \in {"clone", "cloneShare"} => ~IsThread(q)'
    OBVIOUS
  <2>4. ASSUME NEW s \in Slot, NEW t \in Slot, Linked(s)', Linked(t)', s # t, pgdir'[s] = pgdir'[t]
        PROVE  \/ parent'[s] = t \/ parent'[t] = s
               \/ parent'[s] = parent'[t] /\ pgdir'[parent'[s]] = pgdir'[s]
    BY <2>4
  <2>. QED BY <2>1, <2>2, <2>3, <2>4
<1>5. CASE \E p \in Slot : CloneShare(p)
  BY <1>5 DEF CloneShare, Running, table, local, hard
<1>6. CASE \E p \in Slot : Publish(p)
  BY <1>6 DEF Publish, Running, table, local, hard
<1>7. CASE \E p \in Slot : Exec(p)
  BY <1>7 DEF Exec, Running, MayCall, Shared, table, local, hard
<1>8. CASE \E p \in Slot : ExitBegin(p)
  BY <1>8 DEF ExitBegin, Running, MayCall, table, local, hard
<1>9. CASE \E p \in Slot : ExitCommit(p)
  BY <1>9 DEF ExitCommit, Locked, Woken, ExitWakes, Inherited, LeaveCpu, Abandoned, table, local, hard
<1>10. CASE \E p \in Slot : Wait(p)
  <2>. SUFFICES ASSUME NEW p \in Slot, Wait(p) PROVE ShareInv'
    BY <1>10
  <2>. USE DEF Wait, ReapOrSleep, FreeSlot, IsFirst, Locked, LeaveCpu, MayCall, ChildOf, table, local, hard
  <2>1. \A s \in Slot \ {InitProc} : Linked(s)' => pgdir'[s] # pgdir'[InitProc]
    OBVIOUS
  <2>2. \A s, t \in Slot : ThreadOf(t, s)' => ~IsThread(s)'
    OBVIOUS
  <2>3. \A q \in Slot : pc'[q] \in {"clone", "cloneShare"} => ~IsThread(q)'
    OBVIOUS
  <2>4. ASSUME NEW s \in Slot, NEW t \in Slot, Linked(s)', Linked(t)', s # t, pgdir'[s] = pgdir'[t]
        PROVE  \/ parent'[s] = t \/ parent'[t] = s
               \/ parent'[s] = parent'[t] /\ pgdir'[parent'[s]] = pgdir'[s]
    BY <2>4
  <2>. QED BY <2>1, <2>2, <2>3, <2>4
<1>11. CASE \E p \in Slot : Join(p)
  <2>. SUFFICES ASSUME NEW p \in Slot, Join(p) PROVE ShareInv'
    BY <1>11
  <2>. USE DEF Join, ReapOrSleep, FreeSlot, IsFirst, Locked, LeaveCpu, MayCall, table, local, hard
  <2>1. \A s \in Slot \ {InitProc} : Linked(s)' => pgdir'[s] # pgdir'[InitProc]
    OBVIOUS
  <2>2. \A s, t \in Slot : ThreadOf(t, s)' => ~IsThread(s)'
    OBVIOUS
  <2>3. \A q \in Slot : pc'[q] \in {"clone", "cloneShare"} => ~IsThread(q)'
    OBVIOUS
  <2>4. ASSUME NEW s \in Slot, NEW t \in Slot, Linked(s)', Linked(t)', s # t, pgdir'[s] = pgdir'[t]
        PROVE  \/ parent'[s] = t \/ parent'[t] = s
               \/ parent'[s] = parent'[t] /\ pgdir'[parent'[s]] = pgdir'[s]
    BY <2>4
  <2>. QED BY <2>1, <2>2, <2>3, <2>4
<1>12. CASE \E p \in Slot : Kill(p)
  BY <1>12 DEF Kill, Locked, IsFirst, MayCall, table, local, hard
<1>13. CASE \E p \in Slot : Fault(p)
  BY <1>13 DEF Fault, Running, MayCall, table, local, hard
<1>14. CASE \E p \in Slot : EnterIO(p)
  BY <1>14 DEF EnterIO, Running, MayCall, table, local, hard
<1>15. CASE \E p \in Slot : SleepIO(p)
  BY <1>15 DEF SleepIO, Locked, LeaveCpu, table, local, hard
<1>16. CASE \E p \in Slot : Release(p)
  BY <1>16 DEF Release, table, local, hard
<1>17. CASE \E p \in Slot : Yield(p)
  BY <1>17 DEF Yield, Locked, LeaveCpu, table, local, hard
<1>18. CASE \E c \in CPU, p \in Slot : Dispatch(c, p)
  BY <1>18 DEF Dispatch, table, local, hard
<1>19. CASE WakeupIO
  BY <1>19 DEF WakeupIO, Woken, table, local, hard
<1>20. CASE UNCHANGED vars
  BY <1>20 DEF vars, table, local, hard
<1>. QED
  BY <1>1, <1>2, <1>3, <1>4, <1>5, <1>6, <1>7, <1>8, <1>9, <1>10, <1>11, <1>12, <1>13, <1>14, <1>15, <1>16, <1>17, <1>18, <1>19, <1>20 DEF Next, Step

LEMMA SpaceStep ==
  ASSUME TypeOK, BuildInv, LinkInv, FreeInv, InitProcInv, ShareInv, SpaceInv, Careful, InitProc \in Slot, [Next]_vars
  PROVE  SpaceInv'
<1>. USE NullAssumption DEF TypeOK, BuildInv, Building, LinkInv, Live, FreeInv, InitProcInv, ShareInv, SpaceInv, Careful, Linked, ThreadOf, IsThread
<1>1. CASE \E p \in Slot : AllocProc(p, "fork")
  BY <1>1 DEF AllocProc, GivenPid, IsFirst, Locked, MayCall, table, local, hard
<1>2. CASE \E p \in Slot : AllocProc(p, "clone")
  BY <1>2 DEF AllocProc, GivenPid, IsFirst, Locked, MayCall, table, local, hard
<1>3. CASE \E p \in Slot : AllocStack(p)
  BY <1>3 DEF AllocStack, Running, table, local, hard
<1>4. CASE \E p \in Slot : ForkCopy(p)
  BY <1>4 DEF ForkCopy, Running, table, local, hard
<1>5. CASE \E p \in Slot : CloneShare(p)
  BY <1>5 DEF CloneShare, Running, table, local, hard
<1>6. CASE \E p \in Slot : Publish(p)
  BY <1>6 DEF Publish, Running, table, local, hard
<1>7. CASE \E p \in Slot : Exec(p)
  BY <1>7 DEF Exec, Running, MayCall, Shared, table, local, hard
<1>8. CASE \E p \in Slot : ExitBegin(p)
  BY <1>8 DEF ExitBegin, Running, MayCall, table, local, hard
<1>9. CASE \E p \in Slot : ExitCommit(p)
  BY <1>9 DEF ExitCommit, Locked, Woken, ExitWakes, Inherited, LeaveCpu, Abandoned, table, local, hard
<1>10. CASE \E p \in Slot : Wait(p)
  <2>. SUFFICES ASSUME NEW p \in Slot, Wait(p) PROVE SpaceInv'
    BY <1>10
  <2>1. CASE UNCHANGED <<parent, alloc>>
    BY <2>1 DEF Wait, ReapOrSleep
  <2>2. CASE \E z \in Slot : ChildOf(z, p) /\ state[z] = "ZOMBIE" /\ FreeSlot(z)
                             /\ alloc' = alloc \ {pgdir[z]}
    <3>1. PICK z \in Slot : /\ ChildOf(z, p) /\ state[z] = "ZOMBIE" /\ FreeSlot(z)
                            /\ alloc' = alloc \ {pgdir[z]}
      BY <2>2
    <3>2. pgdir' = pgdir /\ parent' = [parent EXCEPT ![z] = NoProc]
      BY <3>1 DEF Wait, ReapOrSleep, FreeSlot
    <3>3. \A s \in Slot : parent[s] # z
      BY <3>1
    <3>4. \A s \in Slot \ {z} : Linked(s) => pgdir[s] # pgdir[z]
      BY <3>1, <3>3 DEF ChildOf
    <3>5. z # InitProc /\ ~Linked(z)' /\ \A s \in Slot \ {z} : Linked(s)' <=> Linked(s)
      BY <3>1, <3>2 DEF ChildOf
    <3>. QED BY <3>1, <3>2, <3>4, <3>5
  <2>. QED BY <2>1, <2>2 DEF Wait, ReapOrSleep, FreeSlot, IsFirst
<1>11. CASE \E p \in Slot : Join(p)
  BY <1>11 DEF Join, ReapOrSleep, FreeSlot, IsFirst, Locked, LeaveCpu, MayCall, table, local, hard
<1>12. CASE \E p \in Slot : Kill(p)
  BY <1>12 DEF Kill, Locked, IsFirst, MayCall, table, local, hard
<1>13. CASE \E p \in Slot : Fault(p)
  BY <1>13 DEF Fault, Running, MayCall, table, local, hard
<1>14. CASE \E p \in Slot : EnterIO(p)
  BY <1>14 DEF EnterIO, Running, MayCall, table, local, hard
<1>15. CASE \E p \in Slot : SleepIO(p)
  BY <1>15 DEF SleepIO, Locked, LeaveCpu, table, local, hard
<1>16. CASE \E p \in Slot : Release(p)
  BY <1>16 DEF Release, table, local, hard
<1>17. CASE \E p \in Slot : Yield(p)
  BY <1>17 DEF Yield, Locked, LeaveCpu, table, local, hard
<1>18. CASE \E c \in CPU, p \in Slot : Dispatch(c, p)
  BY <1>18 DEF Dispatch, table, local, hard
<1>19. CASE WakeupIO
  BY <1>19 DEF WakeupIO, Woken, table, local, hard
<1>20. CASE UNCHANGED vars
  BY <1>20 DEF vars, table, local, hard
<1>. QED
  BY <1>1, <1>2, <1>3, <1>4, <1>5, <1>6, <1>7, <1>8, <1>9, <1>10, <1>11, <1>12, <1>13, <1>14, <1>15, <1>16, <1>17, <1>18, <1>19, <1>20 DEF Next, Step

LEMMA PanicStep ==
  ASSUME TypeOK, LinkInv, InitProcInv, FreeInv, SpaceInv, NoPanic, Careful, InitProc \in Slot, [Next]_vars
  PROVE  NoPanic'
<1>. USE NullAssumption DEF TypeOK, LinkInv, Live, InitProcInv, FreeInv, SpaceInv, NoPanic, Linked, Careful
<1>1. CASE \E p \in Slot : AllocProc(p, "fork")
  BY <1>1 DEF AllocProc, GivenPid, IsFirst, Locked, MayCall, table, local, hard
<1>2. CASE \E p \in Slot : AllocProc(p, "clone")
  BY <1>2 DEF AllocProc, GivenPid, IsFirst, Locked, MayCall, table, local, hard
<1>3. CASE \E p \in Slot : AllocStack(p)
  BY <1>3 DEF AllocStack, Running, table, local, hard
<1>4. CASE \E p \in Slot : ForkCopy(p)
  BY <1>4 DEF ForkCopy, Running, table, local, hard
<1>5. CASE \E p \in Slot : CloneShare(p)
  BY <1>5 DEF CloneShare, Running, table, local, hard
<1>6. CASE \E p \in Slot : Publish(p)
  BY <1>6 DEF Publish, Running, table, local, hard
<1>7. CASE \E p \in Slot : Exec(p)
  BY <1>7 DEF Exec, Running, MayCall, Shared, table, local, hard
<1>8. CASE \E p \in Slot : ExitBegin(p)
  BY <1>8 DEF ExitBegin, Running, MayCall, table, local, hard
<1>9. CASE \E p \in Slot : ExitCommit(p)
  BY <1>9 DEF ExitCommit, Locked, Woken, ExitWakes, Inherited, LeaveCpu, Abandoned, table, local, hard
<1>10. CASE \E p \in Slot : Wait(p)
  <2>. SUFFICES ASSUME NEW p \in Slot, Wait(p) PROVE NoPanic'
    BY <1>10
  <2>1. \A s \in Slot : ChildOf(s, p) => pgdir[s] \in PgDir
    BY DEF ChildOf
  <2>2. \A z \in {s \in Slot : ChildOf(s, p)} : pgdir[z] # NoDir
    BY <2>1
  <2>. QED BY <2>2 DEF Wait, ReapOrSleep, FreeSlot
<1>11. CASE \E p \in Slot : Join(p)
  BY <1>11 DEF Join, ReapOrSleep, FreeSlot, IsFirst, Locked, LeaveCpu, MayCall, table, local, hard
<1>12. CASE \E p \in Slot : Kill(p)
  BY <1>12 DEF Kill, Locked, IsFirst, MayCall, table, local, hard
<1>13. CASE \E p \in Slot : Fault(p)
  BY <1>13 DEF Fault, Running, MayCall, table, local, hard
<1>14. CASE \E p \in Slot : EnterIO(p)
  BY <1>14 DEF EnterIO, Running, MayCall, table, local, hard
<1>15. CASE \E p \in Slot : SleepIO(p)
  BY <1>15 DEF SleepIO, Locked, LeaveCpu, table, local, hard
<1>16. CASE \E p \in Slot : Release(p)
  BY <1>16 DEF Release, table, local, hard
<1>17. CASE \E p \in Slot : Yield(p)
  BY <1>17 DEF Yield, Locked, LeaveCpu, table, local, hard
<1>18. CASE \E c \in CPU, p \in Slot : Dispatch(c, p)
  BY <1>18 DEF Dispatch, table, local, hard
<1>19. CASE WakeupIO
  BY <1>19 DEF WakeupIO, Woken, table, local, hard
<1>20. CASE UNCHANGED vars
  BY <1>20 DEF vars, table, local, hard
<1>. QED
  BY <1>1, <1>2, <1>3, <1>4, <1>5, <1>6, <1>7, <1>8, <1>9, <1>10, <1>11, <1>12, <1>13, <1>14, <1>15, <1>16, <1>17, <1>18, <1>19, <1>20 DEF Next, Step

LEMMA WakeupStep ==
  ASSUME TypeOK, OneCpuEach, LockInv, BuildInv, LinkInv, FreeInv, InitProcInv, ShareInv, SpaceInv, Careful, InitProc \in Slot, NoLostWakeup, [Next]_vars
  PROVE  NoLostWakeup'
<1>. USE NullAssumption DEF TypeOK, OneCpuEach, LockInv, BuildInv, Building, LinkInv, Live, FreeInv, InitProcInv, ShareInv, SpaceInv, Careful, Linked, ThreadOf, ChildOf, IsThread, NoLostWakeup, Awaited
<1>1. CASE \E p \in Slot : AllocProc(p, "fork")
  BY <1>1 DEF AllocProc, GivenPid, IsFirst, Locked, MayCall, table, local, hard
<1>2. CASE \E p \in Slot : AllocProc(p, "clone")
  BY <1>2 DEF AllocProc, GivenPid, IsFirst, Locked, MayCall, table, local, hard
<1>3. CASE \E p \in Slot : AllocStack(p)
  BY <1>3 DEF AllocStack, Running, table, local, hard
<1>4. CASE \E p \in Slot : ForkCopy(p)
  BY <1>4, SMTT(20) DEF ForkCopy, Running, table, local, hard
<1>5. CASE \E p \in Slot : CloneShare(p)
  BY <1>5 DEF CloneShare, Running, table, local, hard
<1>6. CASE \E p \in Slot : Publish(p)
  BY <1>6 DEF Publish, Running, table, local, hard
<1>7. CASE \E p \in Slot : Exec(p)
  BY <1>7 DEF Exec, Running, MayCall, Shared, table, local, hard
<1>8. CASE \E p \in Slot : ExitBegin(p)
  BY <1>8 DEF ExitBegin, Running, MayCall, table, local, hard
<1>9. CASE \E p \in Slot : ExitCommit(p)
  <2>. SUFFICES ASSUME NEW p \in Slot, ExitCommit(p), NEW q \in Slot,
                       state'[q] = "SLEEPING", pc'[q] \in {"wait", "join"}
                PROVE  /\ chan'[q] = q /\ ~killed'[q] /\ Awaited(q)' # {}
                       /\ \A s \in Awaited(q)' : state'[s] # "ZOMBIE"
    BY <1>9
  <2>. USE DEF ExitCommit, Locked, Woken, ExitWakes, Inherited, LeaveCpu, Abandoned, table, local, hard
  <2>1. /\ state[q] = "SLEEPING" /\ pc'[q] = pc[q] /\ q # p
        /\ chan'[q] = q /\ ~killed'[q] /\ parent[p] # q
    OBVIOUS
  <2>2. CASE q = InitProc
    <3>1. pc[q] = "wait" /\ pgdir'[q] = pgdir[q]
      BY <2>1, <2>2
    <3>2. ASSUME NEW s \in Awaited(q)
          PROVE  s \in Awaited(q)'
      BY <2>1, <2>2, <3>1
    <3>3. ASSUME NEW s \in Awaited(q)' PROVE state'[s] # "ZOMBIE"
      BY <2>1, <2>2, <3>1
    <3>. QED BY <2>1, <3>2, <3>3
  <2>3. CASE q # InitProc
    <3>1. \A s \in Slot : parent'[s] = q <=> parent[s] = q
      BY <2>1, <2>3
    <3>2. \A s \in Slot : parent[s] = q => pgdir'[s] = pgdir[s]
      BY <2>1
    <3>3. \A s \in Slot : parent[s] = q => (pgdir'[s] = pgdir'[q] <=> pgdir[s] = pgdir[q])
      BY <2>1, <3>2
    <3>4. Awaited(q)' = Awaited(q)
      BY <2>1, <3>1, <3>3
    <3>5. \A s \in Awaited(q) : state'[s] # "ZOMBIE"
      BY <2>1
    <3>. QED BY <2>1, <3>4, <3>5
  <2>. QED BY <2>2, <2>3
<1>10. CASE \E p \in Slot : Wait(p)
  <2>. SUFFICES ASSUME NEW p \in Slot, Wait(p), NEW q \in Slot,
                       state'[q] = "SLEEPING", pc'[q] \in {"wait", "join"}
                PROVE  /\ chan'[q] = q /\ ~killed'[q] /\ Awaited(q)' # {}
                       /\ \A s \in Awaited(q)' : state'[s] # "ZOMBIE"
    BY <1>10
  <2>. USE DEF Wait, ReapOrSleep, FreeSlot, IsFirst, Locked, LeaveCpu, MayCall, table, local, hard
  <2>1. CASE q = p
    BY <2>1
  <2>2. CASE q # p
    <3>1. /\ state[q] = "SLEEPING" /\ pc'[q] = pc[q]
          /\ chan'[q] = q /\ ~killed'[q]
      BY <2>2
    <3>2. \A s \in Slot : parent'[s] = q <=> parent[s] = q
      BY <2>2
    <3>3. Awaited(q)' = Awaited(q)
      BY <3>1, <3>2
    <3>4. \A s \in Awaited(q) : state'[s] # "ZOMBIE"
      BY <3>1
    <3>. QED BY <3>1, <3>3, <3>4
  <2>. QED BY <2>1, <2>2
<1>11. CASE \E p \in Slot : Join(p)
  BY <1>11 DEF Join, ReapOrSleep, FreeSlot, IsFirst, Locked, LeaveCpu, MayCall, table, local, hard
<1>12. CASE \E p \in Slot : Kill(p)
  BY <1>12 DEF Kill, Locked, IsFirst, MayCall, table, local, hard
<1>13. CASE \E p \in Slot : Fault(p)
  BY <1>13 DEF Fault, Running, MayCall, table, local, hard
<1>14. CASE \E p \in Slot : EnterIO(p)
  BY <1>14 DEF EnterIO, Running, MayCall, table, local, hard
<1>15. CASE \E p \in Slot : SleepIO(p)
  BY <1>15 DEF SleepIO, Locked, LeaveCpu, table, local, hard
<1>16. CASE \E p \in Slot : Release(p)
  BY <1>16 DEF Release, table, local, hard
<1>17. CASE \E p \in Slot : Yield(p)
  BY <1>17 DEF Yield, Locked, LeaveCpu, table, local, hard
<1>18. CASE \E c \in CPU, p \in Slot : Dispatch(c, p)
  BY <1>18 DEF Dispatch, table, local, hard
<1>19. CASE WakeupIO
  BY <1>19 DEF WakeupIO, Woken, table, local, hard
<1>20. CASE UNCHANGED vars
  BY <1>20 DEF vars, table, local, hard
<1>. QED
  BY <1>1, <1>2, <1>3, <1>4, <1>5, <1>6, <1>7, <1>8, <1>9, <1>10, <1>11, <1>12, <1>13, <1>14, <1>15, <1>16, <1>17, <1>18, <1>19, <1>20 DEF Next, Step

(* Under Careful the parts about spaces and sleepers are invariant too: the *)
(* directories in use are those of the linked slots (allocproc to wait).    *)
THEOREM SpaceInvariance == ASSUME Careful PROVE Spec => [](IInv /\ SpaceOK)
<1>1. Init => IInv /\ SpaceOK
  BY InitIInv, InitSpaceOK
<1>2. (IInv /\ SpaceOK) /\ [Next]_vars => (IInv /\ SpaceOK)'
  <2>. SUFFICES ASSUME IInv, SpaceOK, [Next]_vars PROVE IInv' /\ SpaceOK'
    OBVIOUS
  <2>. USE InitIsSlot, Careful DEF IInv, SpaceOK
  <2>1. IInv'
    BY TypeStep, CpuStep, BuildStep, LinkStep
  <2>2. InitProcInv' /\ FreeInv'
    BY InitProcStep, FreeStep
  <2>3. ShareInv' /\ SpaceInv'
    BY ShareStep, SpaceStep
  <2>4. NoPanic' /\ NoLostWakeup'
    BY PanicStep, WakeupStep
  <2>. QED BY <2>1, <2>2, <2>3, <2>4
<1>. QED BY <1>1, <1>2, PTL DEF Spec

(* No process is asleep in wait or join when it was killed, has nobody to   *)
(* wait for or has a zombie to reap (wait, join, exit, kill, wakeup1).      *)
THEOREM WakeupCorrect == ASSUME Careful PROVE Spec => []NoLostWakeup
<1>1. IInv /\ SpaceOK => NoLostWakeup
  BY DEF SpaceOK
<1>. QED BY <1>1, SpaceInvariance, PTL

(* A page directory is allocated as long as a process that may run, or a    *)
(* zombie that wait will free, has it; none is leaked; and the kernel never *)
(* panics (fork, clone, exec, exit, wait, freevm, switchuvm).               *)
THEOREM SpacesCorrect == ASSUME Careful PROVE Spec => []SpacesSound
<1>1. IInv /\ SpaceOK => SpacesSound
  <2>. SUFFICES ASSUME IInv, SpaceOK PROVE SpacesSound
    OBVIOUS
  <2>. USE InitIsSlot, NullAssumption DEF IInv, SpaceOK, TypeOK
  <2>1. \A s \in Slot : s \in Live \/ state[s] = "ZOMBIE" => Linked(s)
    BY DEF LinkInv, Live, Linked
  <2>2. \A s \in Slot : Linked(s) => state[s] # "UNUSED"
    BY DEF LinkInv, FreeInv, Live, Linked
  <2>3. SpaceAllocated
    BY <2>1 DEF SpaceAllocated, SpaceInv
  <2>4. NoSpaceLeak
    BY <2>2 DEF NoSpaceLeak, SpaceInv
  <2>. QED BY <2>3, <2>4 DEF SpacesSound
<1>. QED BY <1>1, SpaceInvariance, PTL

-----------------------------------------------------------------------------
LEMMA EmbryoStep ==
  ASSUME TypeOK, BuildInv, LinkInv, EmbryoBuilt, "clone" \notin MayFail, [Next]_vars
  PROVE  EmbryoBuilt'
<1>. USE NullAssumption DEF TypeOK, BuildInv, Building, LinkInv, Live, EmbryoBuilt
<1>1. CASE \E p \in Slot : AllocProc(p, "fork")
  BY <1>1 DEF AllocProc, GivenPid, IsFirst, Locked, MayCall, table, local, hard
<1>2. CASE \E p \in Slot : AllocProc(p, "clone")
  BY <1>2 DEF AllocProc, GivenPid, IsFirst, Locked, MayCall, table, local, hard
<1>3. CASE \E p \in Slot : AllocStack(p)
  BY <1>3 DEF AllocStack, Running, table, local, hard
<1>4. CASE \E p \in Slot : ForkCopy(p)
  BY <1>4 DEF ForkCopy, Running, table, local, hard
<1>5. CASE \E p \in Slot : CloneShare(p)
  BY <1>5 DEF CloneShare, Running, table, local, hard
<1>6. CASE \E p \in Slot : Publish(p)
  BY <1>6 DEF Publish, Running, table, local, hard
<1>7. CASE \E p \in Slot : Exec(p)
  BY <1>7 DEF Exec, Running, MayCall, Shared, table, local, hard
<1>8. CASE \E p \in Slot : ExitBegin(p)
  BY <1>8 DEF ExitBegin, Running, MayCall, table, local, hard
<1>9. CASE \E p \in Slot : ExitCommit(p)
  <2>. SUFFICES ASSUME NEW p \in Slot, ExitCommit(p), NEW s \in Slot, state'[s] = "EMBRYO"
                PROVE  \E q \in Live' : np'[q] = s /\ Building(q)'
    BY <1>9
  <2>. USE DEF ExitCommit, Woken, table, local, hard
  <2>1. state[s] = "EMBRYO"
    OBVIOUS
  <2>2. PICK q \in Live : np[q] = s /\ Building(q)
    BY <2>1
  <2>. QED BY <2>2
<1>10. CASE \E p \in Slot : Wait(p)
  BY <1>10 DEF Wait, ReapOrSleep, FreeSlot, IsFirst, Locked, LeaveCpu, MayCall, ChildOf, table, local, hard
<1>11. CASE \E p \in Slot : Join(p)
  BY <1>11 DEF Join, ReapOrSleep, FreeSlot, IsFirst, Locked, LeaveCpu, MayCall, table, local, hard
<1>12. CASE \E p \in Slot : Kill(p)
  BY <1>12 DEF Kill, Locked, IsFirst, MayCall, table, local, hard
<1>13. CASE \E p \in Slot : Fault(p)
  BY <1>13 DEF Fault, Running, MayCall, table, local, hard
<1>14. CASE \E p \in Slot : EnterIO(p)
  BY <1>14 DEF EnterIO, Running, MayCall, table, local, hard
<1>15. CASE \E p \in Slot : SleepIO(p)
  BY <1>15 DEF SleepIO, Locked, LeaveCpu, table, local, hard
<1>16. CASE \E p \in Slot : Release(p)
  BY <1>16 DEF Release, table, local, hard
<1>17. CASE \E p \in Slot : Yield(p)
  BY <1>17 DEF Yield, Locked, LeaveCpu, table, local, hard
<1>18. CASE \E c \in CPU, p \in Slot : Dispatch(c, p)
  BY <1>18 DEF Dispatch, table, local, hard
<1>19. CASE WakeupIO
  BY <1>19 DEF WakeupIO, Woken, table, local, hard
<1>20. CASE UNCHANGED vars
  BY <1>20 DEF vars, table, local, hard
<1>. QED
  BY <1>1, <1>2, <1>3, <1>4, <1>5, <1>6, <1>7, <1>8, <1>9, <1>10, <1>11, <1>12, <1>13, <1>14, <1>15, <1>16, <1>17, <1>18, <1>19, <1>20 DEF Next, Step

(* A clone that fails leaves its slot EMBRYO for ever, and a CPU keeps the  *)
(* directory of a thread whose process exits on another CPU.                *)
OneCpu == \A c, d \in CPU : c = d
Sheltered == Careful /\ "clone" \notin MayFail /\ OneCpu

(* A CPU has loaded the directory of the process it runs.                   *)
CrInv == \A c \in CPU : cr3[c] = IF cpu[c] = NoProc THEN KernDir ELSE pgdir[cpu[c]]

LEMMA CrStep ==
  ASSUME TypeOK, OneCpuEach, LockInv, BuildInv, CrInv, OneCpu, [Next]_vars
  PROVE  CrInv'
<1>. USE NullAssumption DEF TypeOK, OneCpuEach, LockInv, BuildInv, Building, CrInv, OneCpu
<1>1. CASE \E p \in Slot : AllocProc(p, "fork")
  BY <1>1 DEF AllocProc, GivenPid, IsFirst, Locked, MayCall, table, local, hard
<1>2. CASE \E p \in Slot : AllocProc(p, "clone")
  BY <1>2 DEF AllocProc, GivenPid, IsFirst, Locked, MayCall, table, local, hard
<1>3. CASE \E p \in Slot : AllocStack(p)
  BY <1>3 DEF AllocStack, Running, table, local, hard
<1>4. CASE \E p \in Slot : ForkCopy(p)
  BY <1>4 DEF ForkCopy, Running, table, local, hard
<1>5. CASE \E p \in Slot : CloneShare(p)
  BY <1>5 DEF CloneShare, Running, table, local, hard
<1>6. CASE \E p \in Slot : Publish(p)
  BY <1>6 DEF Publish, Running, table, local, hard
<1>7. CASE \E p \in Slot : Exec(p)
  BY <1>7 DEF Exec, Running, MayCall, Shared, table, local, hard
<1>8. CASE \E p \in Slot : ExitBegin(p)
  BY <1>8 DEF ExitBegin, Running, MayCall, table, local, hard
<1>9. CASE \E p \in Slot : ExitCommit(p)
  BY <1>9 DEF ExitCommit, Locked, Woken, ExitWakes, Inherited, LeaveCpu, Abandoned, table, local, hard
<1>10. CASE \E p \in Slot : Wait(p)
  BY <1>10 DEF Wait, ReapOrSleep, FreeSlot, IsFirst, Locked, LeaveCpu, MayCall, ChildOf, table, local, hard
<1>11. CASE \E p \in Slot : Join(p)
  BY <1>11 DEF Join, ReapOrSleep, FreeSlot, IsFirst, Locked, LeaveCpu, MayCall, table, local, hard
<1>12. CASE \E p \in Slot : Kill(p)
  BY <1>12 DEF Kill, Locked, IsFirst, MayCall, table, local, hard
<1>13. CASE \E p \in Slot : Fault(p)
  BY <1>13 DEF Fault, Running, MayCall, table, local, hard
<1>14. CASE \E p \in Slot : EnterIO(p)
  BY <1>14 DEF EnterIO, Running, MayCall, table, local, hard
<1>15. CASE \E p \in Slot : SleepIO(p)
  BY <1>15 DEF SleepIO, Locked, LeaveCpu, table, local, hard
<1>16. CASE \E p \in Slot : Release(p)
  BY <1>16 DEF Release, table, local, hard
<1>17. CASE \E p \in Slot : Yield(p)
  BY <1>17 DEF Yield, Locked, LeaveCpu, table, local, hard
<1>18. CASE \E c \in CPU, p \in Slot : Dispatch(c, p)
  BY <1>18 DEF Dispatch, table, local, hard
<1>19. CASE WakeupIO
  BY <1>19 DEF WakeupIO, Woken, table, local, hard
<1>20. CASE UNCHANGED vars
  BY <1>20 DEF vars, table, local, hard
<1>. QED
  BY <1>1, <1>2, <1>3, <1>4, <1>5, <1>6, <1>7, <1>8, <1>9, <1>10, <1>11, <1>12, <1>13, <1>14, <1>15, <1>16, <1>17, <1>18, <1>19, <1>20 DEF Next, Step

(* The CPU has an allocated directory loaded, a slot is EMBRYO only while   *)
(* it is being built, and join waits for threads that can still exit, on    *)
(* one CPU and with clones that succeed (scheduler, allocproc, join).       *)
THEOREM ThreadsCorrect == ASSUME Sheltered PROVE Spec => []ThreadsSound
<1>. USE DEF Sheltered
<1>1. Init => EmbryoBuilt /\ CrInv
  BY InitIsSlot, NullAssumption DEF Init, EmbryoBuilt, CrInv
<1>2. (IInv /\ SpaceOK) /\ (EmbryoBuilt /\ CrInv) /\ [Next]_vars => (EmbryoBuilt /\ CrInv)'
  BY EmbryoStep, CrStep DEF IInv
<1>3. (IInv /\ SpaceOK) /\ (EmbryoBuilt /\ CrInv) => ThreadsSound
  <2>. SUFFICES ASSUME IInv, SpaceOK, EmbryoBuilt, CrInv PROVE ThreadsSound
    OBVIOUS
  <2>. USE InitIsSlot, NullAssumption DEF IInv, SpaceOK, TypeOK
  <2>1. LoadedSpaceAllocated
    <3>1. \A s \in Slot : state[s] = "RUNNING" => pgdir[s] \in alloc
      BY DEF LinkInv, SpaceInv, Linked
    <3>. QED BY <3>1 DEF LoadedSpaceAllocated, CrInv, OneCpuEach
  <2>2. JoinWaitsForLive
    <3>. SUFFICES ASSUME NEW p \in Slot, state[p] = "SLEEPING", pc[p] = "join"
                  PROVE  \E s \in Awaited(p) : s \in Live
      BY DEF JoinWaitsForLive
    <3>1. PICK s \in Awaited(p) : state[s] # "ZOMBIE"
      BY DEF NoLostWakeup
    <3>2. s \in Slot /\ parent[s] = p
      BY DEF Awaited, ThreadOf
    <3>3. state[s] # "UNUSED"
      BY <3>2 DEF FreeInv
    <3>4. state[s] # "EMBRYO"
      <4>. SUFFICES ASSUME state[s] = "EMBRYO" PROVE FALSE
        OBVIOUS
      <4>1. PICK q \in Slot : np[q] = s /\ Building(q)
        BY <3>2 DEF EmbryoBuilt, Building, Live
      <4>2. parent[s] = q
        BY <3>2, <4>1 DEF FreeInv, BuildInv
      <4>. QED BY <3>2, <4>1, <4>2 DEF BuildInv
    <3>. QED BY <3>1, <3>2, <3>3, <3>4 DEF Live, States
  <2>. QED BY <2>1, <2>2 DEF ThreadsSound
<1>. QED BY <1>1, <1>2, <1>3, SpaceInvariance, PTL DEF Spec
=============================================================================

------------------------------ MODULE ProcTable ------------------------------
(***************************************************************************)
(* The process table of the xv6 kernel with threads (Project 4b, proc.c):  *)
(* allocproc, fork, clone, exec's commit, exit, wait, join, kill, sleep,    *)
(* wakeup, yield and the per-CPU scheduler, with the page directories that  *)
(* threads share.                                                           *)
(*                                                                          *)
(* A critical section of ptable.lock is one step, because every access made *)
(* inside one is made by other processes under the same lock as well.  Code *)
(* that writes the table without the lock (the second half of allocproc,    *)
(* fork, clone and exec) is a step of its own.  The scheduler hands the     *)
(* lock to the process it dispatches: `lock' is that process until it       *)
(* releases it, NoProc otherwise.                                           *)
(***************************************************************************)
EXTENDS Naturals, FiniteSets

CONSTANTS
  NPROC,        \* slots of ptable.proc
  CPU,          \* processors
  PgDir,        \* page-directory frames that kalloc can hand out
  MaxPid,       \* bound: the last pid that is given
  NoProc,       \* the null struct proc *, and the null channel
  NoDir,        \* the null pgdir
  KernDir,      \* kpgdir, loaded while a CPU runs the scheduler
  IO,           \* a wait channel of a device, pipe or buffer
  Calls,        \* system calls the user programs of the instance make
  KillPids,     \* pids the user programs of the instance pass to kill
  MayFail,      \* allocations that may fail: "kalloc", "fork", "clone", "exit"
  Disciplined   \* threads do not clone, and nobody execs in a shared space

Slot == 0 .. NPROC - 1
InitProc == 0     \* userinit runs first and takes the first slot

ASSUME NProcAssumption == NPROC \in Nat \ {0} /\ MaxPid \in Nat \ {0}
ASSUME NullAssumption ==
  /\ NoProc \notin Slot /\ IO \notin Slot /\ IO # NoProc
  /\ NoDir \notin PgDir /\ KernDir \notin PgDir /\ KernDir # NoDir
ASSUME BooleanAssumption == Disciplined \in BOOLEAN

VARIABLES
  state, pid, parent, pgdir, chan, killed,  \* the fields of struct proc
  pc,       \* where a process is in its system call
  np,       \* the local np of its fork or clone
  nextpid,
  alloc,    \* page directories that are allocated
  cpu,      \* the process each CPU runs: its `proc', NoProc in the scheduler
  cr3,      \* the page directory each CPU has loaded
  lock,     \* the dispatched process that still holds ptable.lock
  panicked

table == <<state, pid, parent, pgdir, chan, killed>>
local == <<pc, np>>
hard  == <<cpu, cr3, lock>>
vars  == <<table, local, nextpid, alloc, hard, panicked>>

States == {"UNUSED", "EMBRYO", "SLEEPING", "RUNNABLE", "RUNNING", "ZOMBIE"}
PCs == {"user", "fork", "forkCopy", "clone", "cloneShare", "publish",
        "exit", "wait", "join", "call", "io"}

IsFirst(s, S) == s \in S /\ \A t \in S : s <= t     \* the first hit of a table scan

Init ==
  /\ state  = [s \in Slot |-> IF s = InitProc THEN "RUNNABLE" ELSE "UNUSED"]
  /\ pid    = [s \in Slot |-> IF s = InitProc THEN 1 ELSE 0]
  /\ parent = [s \in Slot |-> NoProc]
  /\ \E d \in PgDir :
       /\ pgdir = [s \in Slot |-> IF s = InitProc THEN d ELSE NoDir]
       /\ alloc = {d}
  /\ chan   = [s \in Slot |-> NoProc]
  /\ killed = [s \in Slot |-> FALSE]
  /\ pc     = [s \in Slot |-> "user"]
  /\ np     = [s \in Slot |-> NoProc]
  /\ nextpid = 2
  /\ cpu = [c \in CPU |-> NoProc]
  /\ cr3 = [c \in CPU |-> KernDir]
  /\ lock = NoProc
  /\ panicked = FALSE

-----------------------------------------------------------------------------
(* Who may take a step.                                                     *)

Running(p) == state[p] = "RUNNING" /\ lock # p      \* needs no lock
Locked(p)  == state[p] = "RUNNING" /\ lock = NoProc \* acquires ptable.lock

(* A child thread: what wait skips and join looks for.                      *)
ThreadOf(s, p) == parent[s] = p /\ pgdir[s] = pgdir[p]
ChildOf(s, p)  == parent[s] = p /\ pgdir[s] # pgdir[p]

IsThread(p) == parent[p] \in Slot /\ ThreadOf(p, parent[p])
Shared(p)   == \E s \in Slot \ {p} : state[s] # "UNUSED" /\ pgdir[s] = pgdir[p]

(* The calls a user program makes: init only forks and waits (user/init.c). *)
(* trap refuses a call of a killed process, which exits instead.            *)
MayCall(p, call) ==
  /\ pc[p] = "user" /\ ~killed[p]
  /\ call \in (IF p = InitProc THEN {"fork", "wait"} ELSE Calls)
  /\ Disciplined => /\ call = "clone" => ~IsThread(p)
                    /\ call = "exec" => ~Shared(p)

(* Slip: the scheduler forgets `proc = 0'.                                  *)
LeaveCpuKeepsProc(p) ==
  cpu' = cpu /\ cr3' = [c \in CPU |-> IF cpu[c] = p THEN KernDir ELSE cr3[c]]

(* The process leaves its CPU: swtch to the scheduler, then switchkvm.      *)
LeaveCpu(p) ==
  /\ cpu' = [c \in CPU |-> IF cpu[c] = p THEN NoProc ELSE cpu[c]]
  /\ cr3' = [c \in CPU |-> IF cpu[c] = p THEN KernDir ELSE cr3[c]]

(* Slip: wakeup1 compares the channel with the slot, not with its chan.     *)
WokenSlot(chans) ==
  [s \in Slot |-> IF state[s] = "SLEEPING" /\ s \in chans /\ s # chan[s]
                  THEN "RUNNABLE" ELSE state[s]]

(* wakeup1 on each channel of a set, as a new value of `state'.             *)
Woken(chans) ==
  [s \in Slot |-> IF state[s] = "SLEEPING" /\ chan[s] \in chans
                  THEN "RUNNABLE" ELSE state[s]]

-----------------------------------------------------------------------------
(* allocproc, fork and clone                                                *)

GivenPid == nextpid              \* nextpid++

AllocProc(p, call) ==
  /\ Locked(p) /\ MayCall(p, call) /\ nextpid <= MaxPid
  /\ \E s \in Slot :
       /\ IsFirst(s, {t \in Slot : state[t] = "UNUSED"})
       /\ state' = [state EXCEPT ![s] = "EMBRYO"]
       /\ pid' = [pid EXCEPT ![s] = GivenPid]
       /\ np' = [np EXCEPT ![p] = s]
  /\ nextpid' = nextpid + 1
  /\ pc' = [pc EXCEPT ![p] = call]
  /\ UNCHANGED <<parent, pgdir, chan, killed, alloc, hard, panicked>>

(* The kernel stack: a failure gives the slot back without the lock, and    *)
(* leaves its pid.  The new process starts in forkret, on its way to user.  *)
AllocStack(p) ==
  /\ Running(p) /\ pc[p] \in {"fork", "clone"}
  /\ \/ /\ pc' = [pc EXCEPT ![p] = IF @ = "fork" THEN "forkCopy"
                                                 ELSE "cloneShare",
                            ![np[p]] = "user"]
        /\ UNCHANGED <<state, np>>
     \/ /\ "kalloc" \in MayFail
        /\ state' = [state EXCEPT ![np[p]] = "UNUSED"]
        /\ pc' = [pc EXCEPT ![p] = "user"]
        /\ np' = [np EXCEPT ![p] = NoProc]
  /\ UNCHANGED <<pid, parent, pgdir, chan, killed, nextpid, alloc, hard, panicked>>

ForkCopy(p) ==
  /\ Running(p) /\ pc[p] = "forkCopy"
  /\ \/ \E d \in PgDir \ alloc :
          /\ alloc' = alloc \cup {d}
          /\ pgdir' = [pgdir EXCEPT ![np[p]] = d]
          /\ parent' = [parent EXCEPT ![np[p]] = p]
          /\ pc' = [pc EXCEPT ![p] = "publish"]
          /\ UNCHANGED <<state, np>>
     \/ /\ "fork" \in MayFail
        /\ pgdir' = [pgdir EXCEPT ![np[p]] = NoDir]
        /\ state' = [state EXCEPT ![np[p]] = "UNUSED"]
        /\ pc' = [pc EXCEPT ![p] = "user"]
        /\ np' = [np EXCEPT ![p] = NoProc]
        /\ UNCHANGED <<alloc, parent>>
  /\ UNCHANGED <<pid, chan, killed, nextpid, hard, panicked>>

(* clone shares the caller's space.  When copyout refuses the stack address *)
(* it returns -1 and leaves the slot as it is.                              *)
CloneShare(p) ==
  /\ Running(p) /\ pc[p] = "cloneShare"
  /\ pgdir' = [pgdir EXCEPT ![np[p]] = pgdir[p]]
  /\ parent' = [parent EXCEPT ![np[p]] = p]
  /\ \/ pc' = [pc EXCEPT ![p] = "publish"] /\ UNCHANGED np
     \/ /\ "clone" \in MayFail
        /\ pc' = [pc EXCEPT ![p] = "user"]
        /\ np' = [np EXCEPT ![p] = NoProc]
  /\ UNCHANGED <<state, pid, chan, killed, nextpid, alloc, hard, panicked>>

Publish(p) ==
  /\ Running(p) /\ pc[p] = "publish"
  /\ state' = [state EXCEPT ![np[p]] = "RUNNABLE"]
  /\ pc' = [pc EXCEPT ![p] = "user"]
  /\ np' = [np EXCEPT ![p] = NoProc]
  /\ UNCHANGED <<pid, parent, pgdir, chan, killed, nextpid, alloc, hard, panicked>>

(* Slip: exec frees the old image without switchuvm to the new one.         *)
ExecNoSwitch(p) ==
  /\ Running(p) /\ MayCall(p, "exec")
  /\ \E d \in PgDir \ alloc :
       /\ pgdir' = [pgdir EXCEPT ![p] = d]
       /\ alloc' = (alloc \cup {d}) \ {pgdir[p]}
  /\ UNCHANGED <<state, pid, parent, chan, killed, local, nextpid, cpu, cr3, lock, panicked>>

(* exec commits to its new image; the failures before that change nothing.  *)
Exec(p) ==
  /\ Running(p) /\ MayCall(p, "exec")
  /\ \E d \in PgDir \ alloc :
       /\ pgdir' = [pgdir EXCEPT ![p] = d]
       /\ cr3' = [c \in CPU |-> IF cpu[c] = p THEN d ELSE cr3[c]]
       /\ alloc' = (alloc \cup {d}) \ {pgdir[p]}
  /\ UNCHANGED <<state, pid, parent, chan, killed, local, nextpid, cpu, lock, panicked>>

-----------------------------------------------------------------------------
(* exit, wait and join                                                      *)

(* The part of exit before the lock: files and cwd (see the file modules).  *)
ExitBegin(p) ==
  /\ Running(p) /\ pc[p] = "user"
  /\ killed[p] \/ MayCall(p, "exit")
  /\ IF p = InitProc THEN panicked' = TRUE /\ UNCHANGED pc
                     ELSE pc' = [pc EXCEPT ![p] = "exit"] /\ UNCHANGED panicked
  /\ UNCHANGED <<table, np, nextpid, alloc, hard>>

(* Slips: exit hands only its processes to init, or leaves its threads in   *)
(* the space of a zombie.                                                   *)
InheritedChildren(p) == [s \in Slot |-> IF ChildOf(s, p) THEN InitProc ELSE parent[s]]
AbandonedNone(p) == {}

(* What exit does to the table: it wakes its parent, and init if init       *)
(* inherits a zombie; init inherits every child; each child thread is given *)
(* a copy of the space.                                                     *)
ExitWakes(p) ==
  {parent[p]} \cup
    (IF \E s \in Slot : parent[s] = p /\ state[s] = "ZOMBIE" THEN {InitProc} ELSE {})
Inherited(p) == [s \in Slot |-> IF parent[s] = p THEN InitProc ELSE parent[s]]
Abandoned(p) == {s \in Slot : ThreadOf(s, p)}

(* The part of exit under the lock; a copy that fails leaves no space.      *)
ExitCommit(p) ==
  /\ Locked(p) /\ pc[p] = "exit"
  /\ LET spaces == (PgDir \ alloc) \cup
                     (IF "exit" \in MayFail THEN {NoDir} ELSE {})
     IN \E copy \in [Abandoned(p) -> spaces] :
          /\ \A s, t \in Abandoned(p) : s # t => copy[s] # copy[t] \/ copy[s] = NoDir
          /\ pgdir' = [s \in Slot |-> IF s \in Abandoned(p) THEN copy[s] ELSE pgdir[s]]
          /\ alloc' = alloc \cup ({copy[s] : s \in Abandoned(p)} \ {NoDir})
  /\ parent' = Inherited(p)
  /\ state' = [Woken(ExitWakes(p)) EXCEPT ![p] = "ZOMBIE"]
  /\ LeaveCpu(p)
  /\ UNCHANGED <<pid, chan, killed, local, nextpid, lock, panicked>>

(* What wait and join clear in the slot of the zombie they reap.            *)
FreeSlot(z) ==
  /\ state' = [state EXCEPT ![z] = "UNUSED"]
  /\ pid' = [pid EXCEPT ![z] = 0]
  /\ parent' = [parent EXCEPT ![z] = NoProc]
  /\ killed' = [killed EXCEPT ![z] = FALSE]

(* One pass of the loop of wait or join over the set of children it looks   *)
(* at: reap the first zombie, return -1, or sleep on the caller's own       *)
(* struct proc.  `frees' tells wait, which calls freevm, from join.  A pass *)
(* starts at the call, or when the sleeper is dispatched and has the lock.  *)
ReapOrSleep(p, call, kids, frees) ==
  /\ \/ Locked(p) /\ MayCall(p, call)
     \/ lock = p /\ pc[p] = call
  /\ LET zombies == {s \in kids : state[s] = "ZOMBIE"}
     IN CASE zombies # {} ->
               /\ \E z \in zombies :
                    /\ IsFirst(z, zombies) /\ FreeSlot(z)
                    /\ alloc' = IF frees THEN alloc \ {pgdir[z]} ELSE alloc
                    /\ panicked' = (frees /\ pgdir[z] = NoDir)
               /\ pc' = [pc EXCEPT ![p] = "user"]
               /\ chan' = [chan EXCEPT ![p] = NoProc]
               /\ UNCHANGED <<cpu, cr3>>
          [] zombies = {} /\ (kids = {} \/ killed[p]) ->
               /\ pc' = [pc EXCEPT ![p] = "user"]
               /\ chan' = [chan EXCEPT ![p] = NoProc]
               /\ UNCHANGED <<state, pid, parent, killed, alloc, panicked, cpu, cr3>>
          [] OTHER ->
               /\ state' = [state EXCEPT ![p] = "SLEEPING"]
               /\ chan' = [chan EXCEPT ![p] = p]
               /\ pc' = [pc EXCEPT ![p] = call]
               /\ LeaveCpu(p)
               /\ UNCHANGED <<pid, parent, killed, alloc, panicked>>
  /\ lock' = NoProc
  /\ UNCHANGED <<pgdir, np, nextpid>>

(* Slip: the scan ends one slot before &ptable.proc[NPROC].                 *)
WaitShortScan(p) ==
  ReapOrSleep(p, "wait", {s \in Slot \ {NPROC - 1} : ChildOf(s, p)}, TRUE)

Wait(p) == ReapOrSleep(p, "wait", {s \in Slot : ChildOf(s, p)}, TRUE)
Join(p) == ReapOrSleep(p, "join", {s \in Slot : ThreadOf(s, p)}, FALSE)

-----------------------------------------------------------------------------
(* kill, a fault, and sleeping for I/O                                      *)

(* Slip: kill sets the flag and does not wake the sleeper.                  *)
KillNoWake(p) ==
  /\ Locked(p) /\ MayCall(p, "kill")
  /\ \E n \in KillPids : \E s \in Slot : pid[s] = n /\ killed' = [killed EXCEPT ![s] = TRUE]
  /\ UNCHANGED <<state, pid, parent, pgdir, chan, local, nextpid, alloc, hard, panicked>>

Kill(p) ==
  /\ Locked(p) /\ MayCall(p, "kill")
  /\ \E n \in KillPids : \E s \in Slot :
         /\ IsFirst(s, {t \in Slot : pid[t] = n})
         /\ killed' = [killed EXCEPT ![s] = TRUE]
         /\ state' = IF state[s] = "SLEEPING"
                     THEN [state EXCEPT ![s] = "RUNNABLE"] ELSE state
  /\ UNCHANGED <<pid, parent, pgdir, chan, local, nextpid, alloc, hard, panicked>>

(* trap's default case: a bad access in user space kills the process.       *)
Fault(p) ==
  /\ Running(p) /\ MayCall(p, "fault")
  /\ killed' = [killed EXCEPT ![p] = TRUE]
  /\ UNCHANGED <<state, pid, parent, pgdir, chan, local, nextpid, alloc, hard, panicked>>

(* sleep on a channel other than a process, and the wakeup an interrupt or  *)
(* another process makes on it.  A kill between entry and sleep is missed.  *)
EnterIO(p) ==
  /\ Running(p) /\ MayCall(p, "io")
  /\ pc' = [pc EXCEPT ![p] = "call"]
  /\ UNCHANGED <<table, np, nextpid, alloc, hard, panicked>>

SleepIO(p) ==
  /\ Locked(p) /\ pc[p] = "call"
  /\ state' = [state EXCEPT ![p] = "SLEEPING"]
  /\ chan' = [chan EXCEPT ![p] = IO]
  /\ pc' = [pc EXCEPT ![p] = "io"]
  /\ LeaveCpu(p)
  /\ UNCHANGED <<pid, parent, pgdir, killed, np, nextpid, alloc, lock, panicked>>

WakeupIO ==
  /\ lock = NoProc
  /\ \E s \in Slot : state[s] = "SLEEPING" /\ chan[s] = IO
  /\ state' = Woken({IO})
  /\ UNCHANGED <<pid, parent, pgdir, chan, killed, local, nextpid, alloc, hard, panicked>>

-----------------------------------------------------------------------------
(* The scheduler and the timer                                              *)

(* switchuvm panics on a process without a page directory.                  *)
Dispatch(c, p) ==
  /\ cpu[c] = NoProc /\ lock = NoProc /\ state[p] = "RUNNABLE"
  /\ IF pgdir[p] = NoDir
     THEN panicked' = TRUE /\ UNCHANGED <<state, cpu, cr3, lock>>
     ELSE /\ state' = [state EXCEPT ![p] = "RUNNING"]
          /\ cpu' = [cpu EXCEPT ![c] = p]
          /\ cr3' = [cr3 EXCEPT ![c] = pgdir[p]]
          /\ lock' = p
          /\ UNCHANGED panicked
  /\ UNCHANGED <<pid, parent, pgdir, chan, killed, local, nextpid, alloc>>

(* forkret, the end of yield, or the end of sleep: release ptable.lock.     *)
Release(p) ==
  /\ lock = p /\ pc[p] \notin {"wait", "join"}
  /\ lock' = NoProc
  /\ chan' = [chan EXCEPT ![p] = NoProc]
  /\ pc' = [pc EXCEPT ![p] = IF @ = "io" THEN "user" ELSE @]
  /\ UNCHANGED <<state, pid, parent, pgdir, killed, np, nextpid, alloc, cpu, cr3, panicked>>

(* The timer interrupt.  Before it yields, trap makes a killed process that *)
(* was in user space exit (ExitBegin).                                      *)
Yield(p) ==
  /\ Locked(p) /\ ~(pc[p] = "user" /\ killed[p])
  /\ state' = [state EXCEPT ![p] = "RUNNABLE"]
  /\ LeaveCpu(p)
  /\ UNCHANGED <<pid, parent, pgdir, chan, killed, local, nextpid, alloc, lock, panicked>>

-----------------------------------------------------------------------------
Step(p) ==
  \/ AllocProc(p, "fork") \/ AllocProc(p, "clone") \/ AllocStack(p)
  \/ ForkCopy(p) \/ CloneShare(p) \/ Publish(p) \/ Exec(p)
  \/ ExitBegin(p) \/ ExitCommit(p) \/ Wait(p) \/ Join(p)
  \/ Kill(p) \/ Fault(p) \/ EnterIO(p) \/ SleepIO(p)
  \/ Release(p) \/ Yield(p)

Next ==
  /\ ~panicked
  /\ \/ \E p \in Slot : Step(p)
     \/ \E c \in CPU, p \in Slot : Dispatch(c, p)
     \/ WakeupIO

Spec == Init /\ [][Next]_vars

-----------------------------------------------------------------------------
TypeOK ==
  /\ state \in [Slot -> States]
  /\ pid \in [Slot -> 0 .. MaxPid]
  /\ parent \in [Slot -> Slot \cup {NoProc}]
  /\ pgdir \in [Slot -> PgDir \cup {NoDir}]
  /\ chan \in [Slot -> Slot \cup {NoProc, IO}]
  /\ killed \in [Slot -> BOOLEAN]
  /\ pc \in [Slot -> PCs]
  /\ np \in [Slot -> Slot \cup {NoProc}]
  /\ nextpid \in 1 .. MaxPid + 1
  /\ alloc \subseteq PgDir
  /\ cpu \in [CPU -> Slot \cup {NoProc}]
  /\ cr3 \in [CPU -> PgDir \cup {KernDir}]
  /\ lock \in Slot \cup {NoProc}
  /\ panicked \in BOOLEAN

Live == {s \in Slot : state[s] \in {"RUNNABLE", "RUNNING", "SLEEPING"}}

(* A process runs exactly when one CPU runs it, so no process runs on two   *)
(* kernel stacks at once (scheduler, yield, sleep and exit together).       *)
OneCpuEach ==
  /\ \A s \in Slot : state[s] = "RUNNING" <=> \E c \in CPU : cpu[c] = s
  /\ \A c, d \in CPU : cpu[c] = cpu[d] => c = d \/ cpu[c] = NoProc

(* No process is orphaned: whatever the order of exits, every process other *)
(* than init has a parent that can still wait for it (exit's reparenting).  *)
ParentLives ==
  /\ \A s \in Live \ {InitProc} : parent[s] \in Live
  /\ \A s \in Slot : state[s] = "ZOMBIE" => parent[s] \in Live

(* No wakeup of wait or join is lost: a process asleep in one of them has a *)
(* child to wait for, none of them a zombie, and has not been killed.       *)
Awaited(p) == {s \in Slot : IF pc[p] = "wait" THEN ChildOf(s, p) ELSE ThreadOf(s, p)}
NoLostWakeup ==
  \A p \in Slot : state[p] = "SLEEPING" /\ pc[p] \in {"wait", "join"} =>
    /\ chan[p] = p /\ ~killed[p] /\ Awaited(p) # {}
    /\ \A s \in Awaited(p) : state[s] # "ZOMBIE"

(* The space of every process that may still run, and of every zombie that  *)
(* a wait may free, is allocated: freevm in wait and exec never takes a     *)
(* directory someone else uses, nor one that was freed before.              *)
SpaceAllocated ==
  \A s \in Slot : s \in Live \/ (state[s] = "ZOMBIE" /\ ~IsThread(s)) =>
                    pgdir[s] \in alloc

(* What a CPU has loaded in cr3 is an allocated directory.                  *)
LoadedSpaceAllocated == \A c \in CPU : cr3[c] \in alloc \cup {KernDir}

(* Every allocated directory belongs to a process: none is leaked.          *)
NoSpaceLeak == alloc \subseteq {pgdir[s] : s \in {t \in Slot : state[t] # "UNUSED"}}

(* A slot is EMBRYO only while some fork or clone is building it.           *)
EmbryoBuilt ==
  \A s \in Slot : state[s] = "EMBRYO" =>
    \E p \in Live : np[p] = s /\ pc[p] \in {"fork", "forkCopy", "clone", "cloneShare", "publish"}

(* join waits for threads that can still exit, never for a slot that a      *)
(* failed clone left behind.                                                *)
JoinWaitsForLive ==
  \A p \in Slot : state[p] = "SLEEPING" /\ pc[p] = "join" =>
    \E s \in Awaited(p) : s \in Live

(* No kernel panic: init exiting, freevm or switchuvm without a directory.  *)
NoPanic == ~panicked

(* The table keeps its types, and the page directories their users: freed   *)
(* once, after the last of them, and by nobody else.                        *)
SpacesSound == TypeOK /\ SpaceAllocated /\ NoSpaceLeak /\ NoPanic

(* What a thread depends on while others build, run and exit: the directory *)
(* its CPU has loaded, slots that get built, and joins that can end.        *)
ThreadsSound == LoadedSpaceAllocated /\ EmbryoBuilt /\ JoinWaitsForLive

(* A process that is being created has not been killed: kill reached the    *)
(* process with its pid and no other.                                       *)
NewbornNotKilled ==
  [][\A s \in Slot : state[s] = "UNUSED" /\ state'[s] = "EMBRYO" => ~killed'[s]]_vars

-----------------------------------------------------------------------------
(* The code a process executes to the end once it is in the kernel, with    *)
(* the exit of a killed process and init's own wait loop.                   *)
Advance(p) ==
  \/ AllocStack(p) \/ ForkCopy(p) \/ CloneShare(p) \/ Publish(p)
  \/ SleepIO(p) \/ ExitCommit(p)
  \/ killed[p] /\ ExitBegin(p)
  \/ (lock = p \/ p = InitProc) /\ Wait(p)
  \/ lock = p /\ Join(p)

(* The scheduler scans the whole table, so a process that is runnable again *)
(* and again is dispatched; one that runs again and again executes (the     *)
(* timer does not strike before every instruction); the timer comes, and so *)
(* do the device interrupts, which win ptable.lock in the end.              *)
Fairness ==
  /\ SF_vars(WakeupIO)
  /\ \A p \in Slot : /\ SF_vars(\E c \in CPU : Dispatch(c, p))
                     /\ SF_vars(Advance(p))
                     /\ WF_vars(Release(p)) /\ WF_vars(Yield(p))

FairSpec == Spec /\ Fairness

(* A killed process ends, wherever kill found it (kill, trap's checks).     *)
KilledExits ==
  \A s \in Slot : (killed[s] /\ s \in Live) ~> (state[s] \in {"ZOMBIE", "UNUSED"})

(* init reaps every zombie that it inherits or forks.                       *)
InitReaps ==
  \A s \in Slot : (state[s] = "ZOMBIE" /\ parent[s] = InitProc) ~> (state[s] = "UNUSED")
=============================================================================

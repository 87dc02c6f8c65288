-------------------------------- MODULE Mlfq --------------------------------
(***************************************************************************)
(* The multi-level feedback queue of the scheduling lab (Project2/2b        *)
(* proc.c) on one CPU, as the lab's tests run it: how scheduler() chooses,  *)
(* promotes and demotes the processes that fork, sleep, wait and exit.      *)
(*                                                                          *)
(* A critical section of ptable.lock is one step.  The scheduler's step     *)
(* goes from its acquire to the swtch; a process that gives up the CPU goes *)
(* on to the scheduler's test of its state at the end of the loop.  The     *)
(* CPU is in the scheduler when the process it last ran is not RUNNING.     *)
(* Pages never run out.  There is no killed flag: a process may exit as     *)
(* soon as it is back in user mode, killed or not.                          *)
(***************************************************************************)
EXTENDS Naturals, FiniteSets, FiniteSetsExt

CONSTANTS
  NPROC,
  TopLevel,     \* the highest priority: 3
  ticks,        \* ticks[l], the slice of level l: 50, 32, 16, 8
  Factor,       \* slices a process waits for before it is promoted: 10
  NoProc

Proc == 1 .. NPROC
Level == 0 .. TopLevel
initproc == 1

ASSUME ProcAssumption == NPROC \in Nat \ {0} /\ NoProc \notin Proc
ASSUME LevelAssumption ==
  /\ TopLevel \in Nat \ {0} /\ Factor \in Nat \ {0}
  /\ ticks \in [Level -> Nat \ {0}]

VARIABLES
  state, priority, wait, done, parent,   \* fields of struct proc
  pc,        \* what a process does: "user", "fork", "wait", or "io" until
             \* what it waits for is done
  np,        \* np of fork(), the child it builds
  proc,      \* the process this CPU ran last
  flag, tar, \* scheduler()'s locals
  panicked

table == <<state, priority, wait, done, parent>>
local == <<pc, np>>
sched == <<proc, flag, tar>>
vars == <<table, local, sched, panicked>>

Runnable == {p \in Proc : state[p] = "RUNNABLE"}
InScheduler == IF proc = NoProc THEN TRUE ELSE state[proc] # "RUNNING"

\* done is read modulo the slice, and never at level 0
TypeOK ==
  /\ state \in [Proc -> {"UNUSED", "EMBRYO", "SLEEPING", "RUNNABLE", "RUNNING", "ZOMBIE"}]
  /\ priority \in [Proc -> Level]
  /\ wait \in [Proc -> [Level -> Nat]]
  /\ done \in [Proc -> [Level -> Nat]]
  /\ \A p \in Proc, l \in Level : done[p][l] < ticks[l]
  /\ parent \in [Proc -> Proc \cup {NoProc}]
  /\ pc \in [Proc -> {"user", "fork", "wait", "io"}]
  /\ np \in [Proc -> Proc \cup {NoProc}]
  /\ proc \in Proc \cup {NoProc}
  /\ flag \in BOOLEAN
  /\ tar \in [Level -> Proc \cup {NoProc}]
  /\ panicked \in BOOLEAN

\* userinit has made the first process; tar is not read before it is filled
Init ==
  /\ state = [p \in Proc |-> IF p = initproc THEN "RUNNABLE" ELSE "UNUSED"]
  /\ priority = [p \in Proc |-> IF p = initproc THEN TopLevel ELSE 0]
  /\ wait = [p \in Proc |-> [l \in Level |-> 0]]
  /\ done = [p \in Proc |-> [l \in Level |-> 0]]
  /\ parent = [p \in Proc |-> NoProc]
  /\ pc = [p \in Proc |-> "user"]
  /\ np = [p \in Proc |-> NoProc]
  /\ proc = NoProc
  /\ flag = FALSE
  /\ tar = [l \in Level |-> NoProc]
  /\ panicked = FALSE

-----------------------------------------------------------------------------
(* scheduler() *)

\* the queues are filled again for a process that gave up the CPU or its
\* level, and for one of a higher level
Preempted == \E p \in Runnable : priority[p] > priority[proc]
(* Slip: a higher process does not preempt.                                 *)
RefillOnFlag == IF proc = NoProc THEN TRUE ELSE flag

Refill == IF proc = NoProc THEN TRUE ELSE flag \/ Preempted

\* the process that has waited longest at level l, the first of them in the table
LongestWaiting(l) ==
  LET Q == {p \in Runnable : priority[p] = l}
      Longest == {p \in Q : \A q \in Q : wait[q][l] <= wait[p][l]}
  IN IF Q = {} THEN NoProc ELSE Min(Longest)

Queues == IF Refill THEN [l \in Level |-> LongestWaiting(l)] ELSE tar

\* proc is left as it was when no level has a process
Chosen ==
  LET Filled == {l \in Level : Queues[l] # NoProc}
  IN IF Filled = {} THEN proc ELSE Queues[Max(Filled)]

\* a process that is not chosen waits, and is promoted when it has waited long
Waited(p) == IF state[p] = "RUNNABLE" THEN wait[p][priority[p]] + 1 ELSE wait[p][priority[p]]

Promoted(p) == Waited(p) = Factor * ticks[priority[p]] /\ priority[p] # TopLevel

\* the chosen one is demoted when this tick ends its slice
Ticked(p) == (done[p][priority[p]] + 1) % ticks[priority[p]]
Demoted(p) == Ticked(p) = 0 /\ priority[p] # 0

(* Slip: the wait is reset and the priority not raised.                     *)
NewPriorityKept(p, chosen) ==
  IF p = chosen /\ Demoted(p) THEN priority[p] - 1 ELSE priority[p]

NewPriority(p, chosen) ==
  IF p = chosen THEN IF Demoted(p) THEN priority[p] - 1 ELSE priority[p]
  ELSE IF Promoted(p) THEN priority[p] + 1 ELSE priority[p]

(* Slip: the chosen process keeps its wait.                                 *)
NewWaitKept(p, chosen) ==
  [wait[p] EXCEPT ![priority[p]] = IF Promoted(p) THEN 0 ELSE Waited(p)]

NewWait(p, chosen) ==
  IF p = chosen THEN [l \in Level |-> 0]
  ELSE [wait[p] EXCEPT ![priority[p]] = IF Promoted(p) THEN 0 ELSE Waited(p)]

\* a process dispatched in exit() returns from sched() to panic("zombie exit")
Dispatch(p) ==
  /\ InScheduler /\ p = Chosen
  /\ proc' = p
  /\ tar' = Queues
  /\ flag' = Demoted(p)
  /\ priority' = [q \in Proc |-> NewPriority(q, p)]
  /\ wait' = [q \in Proc |-> NewWait(q, p)]
  /\ done' = [done EXCEPT ![p][priority[p]] = Ticked(p)]
  /\ state' = [state EXCEPT ![p] = "RUNNING"]
  /\ panicked' = (state[p] = "ZOMBIE")
  /\ UNCHANGED <<parent, local>>

-----------------------------------------------------------------------------
(* the running process *)

Running(p) == proc = p /\ state[p] = "RUNNING"

\* sched(): back in scheduler(), which tests the state the process left with
Leave(st) ==
  /\ state' = st
  /\ flag' = (flag \/ st[proc] # "RUNNABLE")
  /\ UNCHANGED <<proc, tar, panicked>>

\* the timer interrupts a process in user or in kernel mode
Yield(p) ==
  /\ Running(p)
  /\ Leave([state EXCEPT ![p] = "RUNNABLE"])
  /\ UNCHANGED <<priority, wait, done, parent, local>>

\* what a process waits for in the kernel, in a loop around sleep() whose lock
\* the interrupt handler takes: its device, or the clock
SleepIo(p) ==
  /\ Running(p) /\ pc[p] \in {"user", "io"}
  /\ pc' = [pc EXCEPT ![p] = "io"]
  /\ Leave([state EXCEPT ![p] = "SLEEPING"])
  /\ UNCHANGED <<priority, wait, done, parent, np>>

\* an interrupt handler's wakeup, in the scheduler or in a process
Interrupt(p) ==
  /\ pc[p] = "io"
  /\ pc' = [pc EXCEPT ![p] = "user"]
  /\ state' = IF state[p] = "SLEEPING" THEN [state EXCEPT ![p] = "RUNNABLE"] ELSE state
  /\ UNCHANGED <<priority, wait, done, parent, np, sched, panicked>>

\* kill() wakes the process from whatever it sleeps on: killed, it may return
\* where another process would sleep again
Kill(p, q) ==
  /\ Running(p) /\ pc[p] = "user"
  /\ state[q] = "SLEEPING"
  /\ state' = [state EXCEPT ![q] = "RUNNABLE"]
  /\ \E c \in {"user", pc[q]} : pc' = [pc EXCEPT ![q] = c]
  /\ UNCHANGED <<priority, wait, done, parent, np, sched, panicked>>

\* fork(): allocproc, and later the child made RUNNABLE
Unused == {p \in Proc : state[p] = "UNUSED"}
Allocproc(p) ==
  /\ Running(p) /\ pc[p] = "user" /\ Unused # {}
  /\ LET c == Min(Unused)
     IN /\ state' = [state EXCEPT ![c] = "EMBRYO"]
        /\ priority' = [priority EXCEPT ![c] = TopLevel]
        /\ wait' = [wait EXCEPT ![c] = [l \in Level |-> 0]]
        /\ done' = [done EXCEPT ![c] = [l \in Level |-> 0]]
        /\ np' = [np EXCEPT ![p] = c]
        /\ pc' = [pc EXCEPT ![p] = "fork", ![c] = "user"]
  /\ UNCHANGED <<parent, sched, panicked>>

Fork(p) ==
  /\ Running(p) /\ pc[p] = "fork"
  /\ parent' = [parent EXCEPT ![np[p]] = p]
  /\ state' = [state EXCEPT ![np[p]] = "RUNNABLE"]
  /\ np' = [np EXCEPT ![p] = NoProc]
  /\ pc' = [pc EXCEPT ![p] = "user"]
  /\ UNCHANGED <<priority, wait, done, sched, panicked>>

\* wakeup1(chan) of a process that sleeps in wait(), on itself
WokenWaiter(st, q) ==
  [p \in Proc |-> IF p = q /\ st[p] = "SLEEPING" /\ pc[p] = "wait" THEN "RUNNABLE" ELSE st[p]]

Children(p) == {q \in Proc : parent[q] = p}
Zombies(p) == {q \in Children(p) : state[q] = "ZOMBIE"}

Exit(p) ==
  /\ Running(p) /\ pc[p] = "user" /\ p # initproc
  /\ LET up == WokenWaiter(state, parent[p])
         init == IF Zombies(p) # {} THEN WokenWaiter(up, initproc) ELSE up
     IN Leave([init EXCEPT ![p] = "ZOMBIE"])
  /\ parent' = [q \in Proc |-> IF parent[q] = p THEN initproc ELSE parent[q]]
  /\ UNCHANGED <<priority, wait, done, local>>

\* wait(), from its start or from the sleep in its loop
InWait(p) == Running(p) /\ pc[p] \in {"user", "wait"}

Reap(p) ==
  /\ InWait(p) /\ Zombies(p) # {}
  /\ LET c == Min(Zombies(p))
     IN /\ state' = [state EXCEPT ![c] = "UNUSED"]
        /\ parent' = [parent EXCEPT ![c] = NoProc]
  /\ pc' = [pc EXCEPT ![p] = "user"]
  /\ UNCHANGED <<priority, wait, done, np, sched, panicked>>

WaitFails(p) ==
  /\ InWait(p) /\ Children(p) = {}
  /\ pc' = [pc EXCEPT ![p] = "user"]
  /\ UNCHANGED <<table, np, sched, panicked>>

SleepWait(p) ==
  /\ InWait(p) /\ Zombies(p) = {} /\ Children(p) # {}
  /\ pc' = [pc EXCEPT ![p] = "wait"]
  /\ Leave([state EXCEPT ![p] = "SLEEPING"])
  /\ UNCHANGED <<priority, wait, done, parent, np>>

Step(p) ==
  \/ Yield(p) \/ SleepIo(p) \/ Interrupt(p)
  \/ \E q \in Proc : Kill(p, q)
  \/ Allocproc(p) \/ Fork(p) \/ Exit(p)
  \/ Reap(p) \/ WaitFails(p) \/ SleepWait(p)

Next == ~panicked /\ \E p \in Proc : Dispatch(p) \/ Step(p)
Spec == Init /\ [][Next]_vars

\* the scheduler's loop runs on, and the timer interrupts every process
FairSpec ==
  /\ Spec
  /\ \A p \in Proc : WF_vars(~panicked /\ Dispatch(p)) /\ WF_vars(~panicked /\ Yield(p))

-----------------------------------------------------------------------------
(* What the scheduler promises *)

\* A RUNNABLE process below the top level is promoted before it has waited
\* for Factor slices, at no level but its own has it waited, and at the top
\* level it waits for at most one slice of each other process: the == in the
\* promotion test is never stepped over, and a queue that is not filled
\* again at every dispatch still lets everyone in turn.
WaitBounded ==
  \A p \in Proc, l \in Level :
    wait[p][l] <= IF l # priority[p] THEN 0
                  ELSE IF l = TopLevel THEN (NPROC - 1) * ticks[TopLevel]
                  ELSE Factor * ticks[l] - 1

\* No dispatch passes over a RUNNABLE process of a higher level, although the
\* queues it chooses from may be those of an earlier dispatch.
HighestFirst ==
  [][InScheduler /\ ~InScheduler' => \A q \in Runnable : priority[q] <= priority[proc']]_vars

\* Queues kept from an earlier dispatch still lead to a process that can run:
\* while nothing asks for new ones, no queue is above that of the process that
\* ran last, and that process is RUNNING or RUNNABLE.  (The queues are empty
\* when it was dispatched for want of any other.)
QueuesCurrent ==
  (proc # NoProc /\ ~flag) =>
    /\ \A l \in Level : tar[l] = NoProc \/ \E k \in Level : k >= l /\ tar[k] = proc
    /\ state[proc] \in {"RUNNING", "RUNNABLE"}

\* The levels, the waits and the queues stay in step with each other.
QueuesSound == TypeOK /\ WaitBounded /\ QueuesCurrent

\* Every RUNNABLE process runs in the end: a process that keeps the CPU at
\* the lowest level, where no slice ends, gives way to one promoted past it.
NoStarvation ==
  \A p \in Proc : state[p] = "RUNNABLE" ~> (state[p] = "RUNNING" \/ panicked)

\* exit()'s comment "Jump into the scheduler, never to return": the scheduler
\* does not dispatch a process that has exited.
NeverReturns == ~panicked
=============================================================================

------------------------------- MODULE LabProofs -------------------------------
(***************************************************************************)
(* Proofs about Mlfq and Heap, the two labs of Project2, and Umalloc, for  *)
(* every value of their constants.  The scheduler: the queues never        *)
(* mislead it, it dispatches a process of the highest level that has one,  *)
(* and no process waits longer than its level allows.  The heap: the       *)
(* blocks tile the region, and what the program has is exactly the         *)
(* allocated ones.  malloc and free: every unit of memory is in one block, *)
(* and the circular list turns once.                                       *)
(***************************************************************************)
EXTENDS Mlfq, Heap, Umalloc, FiniteSetTheorems, NaturalsInduction, SequenceTheorems,
        WellFoundedInduction, TLAPS

(* Only a RUNNABLE process has waited, and not the one that ran last.       *)
Served ==
  \A p \in Proc : (state[p] # "RUNNABLE" \/ p = proc) => \A l \in Level : wait[p][l] = 0

(* A process waits at its own level, and below the top for a bounded time.  *)
Levels ==
  \A p \in Proc, l \in Level :
    /\ l # priority[p] => wait[p][l] = 0
    /\ l # TopLevel => wait[p][l] < Factor * ticks[l]

(* Those that have waited less than p, which waits at the top level: they   *)
(* have run since p began to wait, and p will run before they do again.     *)
Later(p) == {q \in Proc \ {p} : wait[q][priority[q]] < wait[p][TopLevel]}

(* The slice of a process of the top level is not over.                     *)
InSlice == proc # NoProc /\ ~flag /\ priority[proc] = TopLevel

(* A process that waits at the top level has waited for at most one slice   *)
(* of each process that ran since, and for what is done of the current one. *)
Turns ==
  \A p \in Proc : priority[p] = TopLevel /\ wait[p][TopLevel] > 0 =>
    wait[p][TopLevel] <=
      IF InSlice THEN ticks[TopLevel] * Cardinality(Later(p) \ {proc}) + done[proc][TopLevel]
      ELSE ticks[TopLevel] * Cardinality(Later(p))

IInv == TypeOK /\ QueuesCurrent /\ Served /\ Levels /\ Turns

-----------------------------------------------------------------------------
(* Greatest and least elements *)

LEMMA Greatest ==
  ASSUME NEW S, IsFiniteSet(S), S # {}, NEW f \in [S -> Nat]
  PROVE  \E x \in S : \A y \in S : f[y] <= f[x]
<1>. DEFINE Above(x) == {y \in S : f[y] > f[x]}
            T == {Above(x) : x \in S}
            R == StrictSubsetOrdering(S)
<1>1. T \subseteq FiniteSubsetsOf(S) /\ T # {}
  <2>1. \A x \in S : Above(x) \in SUBSET S
    OBVIOUS
  <2>2. \A x \in S : IsFiniteSet(Above(x))
    BY <2>1, FS_Subset
  <2>3. \A A \in T : A \in FiniteSubsetsOf(S)
    BY <2>1, <2>2 DEF FiniteSubsetsOf
  <2>4. \A x \in S : Above(x) \in T
    OBVIOUS
  <2>. HIDE DEF T, Above
  <2>. QED BY <2>3, <2>4
<1>2. IsWellFoundedOn(R, FiniteSubsetsOf(S))
  BY FS_StrictSubsetOrderingWellFounded
<1>3. \E A \in T : \A B \in T : ~ (<<B, A>> \in R)
  BY <1>1, <1>2, WFMin, Zenon
<1>4. PICK x \in S : \A y \in S : ~ (<<Above(y), Above(x)>> \in R)
  BY <1>3, Zenon
<1>5. Above(x) = {}
  <2>1. SUFFICES ASSUME NEW y \in Above(x) PROVE FALSE
    OBVIOUS
  <2>2. Above(y) \subseteq Above(x) /\ y \notin Above(y) /\ y \in S
    OBVIOUS
  <2>3. <<Above(y), Above(x)>> \in R
    BY <2>1, <2>2 DEF StrictSubsetOrdering
  <2>. QED BY <2>2, <2>3, <1>4
<1>. QED BY <1>5

LEMMA MaxFacts ==
  ASSUME NEW S \in SUBSET Nat, IsFiniteSet(S), S # {}
  PROVE  Max(S) \in S /\ \A y \in S : y <= Max(S)
<1>. DEFINE f == [x \in S |-> x]
<1>1. f \in [S -> Nat] /\ \A x \in S : f[x] = x
  OBVIOUS
<1>2. \E x \in S : \A y \in S : f[y] <= f[x]
  BY <1>1, Greatest, Zenon
<1>3. \E x \in S : \A y \in S : x >= y
  BY <1>1, <1>2
<1>. QED BY <1>3 DEF Max

LEMMA MinFacts ==
  ASSUME NEW S \in SUBSET Nat, IsFiniteSet(S), S # {}
  PROVE  Min(S) \in S /\ \A y \in S : Min(S) <= y
<1>0. PICK m \in S : \A y \in S : y <= m
  BY MaxFacts
<1>. DEFINE f == [x \in S |-> m - x]
<1>1. f \in [S -> Nat] /\ \A x \in S : f[x] = m - x
  BY <1>0
<1>2. PICK x \in S : \A y \in S : f[y] <= f[x]
  <2>. HIDE DEF f
  <2>. QED BY <1>1, Greatest
<1>3. \A y \in S : x =< y
  BY <1>0, <1>1, <1>2
<1>. QED BY <1>3 DEF Min

LEMMA ProcFacts == Proc \subseteq Nat /\ IsFiniteSet(Proc) /\ Cardinality(Proc) = NPROC
  BY FS_Interval, ProcAssumption DEF Proc

LEMMA LevelFacts == (\A l \in Level : l \in Nat) /\ IsFiniteSet(Level) /\ TopLevel \in Level
  BY FS_Interval, LevelAssumption DEF Level

-----------------------------------------------------------------------------
(* What the scheduler chooses *)

LEMMA LongestFacts ==
  ASSUME TypeOK, NEW l \in Level
  PROVE  \/ LongestWaiting(l) = NoProc /\ \A q \in Runnable : priority[q] # l
         \/ /\ LongestWaiting(l) \in Runnable /\ priority[LongestWaiting(l)] = l
            /\ \A q \in Runnable : priority[q] = l => wait[q][l] <= wait[LongestWaiting(l)][l]
<1>. DEFINE Q == {p \in Runnable : priority[p] = l}
            Longest == {p \in Q : \A q \in Q : wait[q][l] <= wait[p][l]}
            f == [p \in Q |-> wait[p][l]]
<1>1. CASE Q = {}
  BY <1>1 DEF LongestWaiting
<1>2. CASE Q # {}
  <2>1. Q \in SUBSET Proc /\ IsFiniteSet(Q)
    BY ProcFacts, FS_Subset DEF Runnable
  <2>2. f \in [Q -> Nat] /\ \A p \in Q : f[p] = wait[p][l]
    BY <2>1 DEF TypeOK
  <2>3. \E x \in Q : \A y \in Q : f[y] <= f[x]
    BY <1>2, <2>1, <2>2, Greatest, Zenon
  <2>4. Longest # {} /\ Longest \in SUBSET Nat
    BY <2>1, <2>2, <2>3, ProcFacts
  <2>. IsFiniteSet(Longest)
    BY <2>1, FS_Subset
  <2>5. Min(Longest) \in Longest
    BY <2>4, MinFacts
  <2>. QED BY <1>2, <2>5 DEF LongestWaiting
<1>. QED BY <1>1, <1>2

LEMMA ChosenFacts ==
  ASSUME TypeOK, QueuesCurrent, NEW p \in Proc, p = Chosen
  PROVE  /\ Queues \in [Level -> Proc \cup {NoProc}]
         /\ \A l \in Level : Queues[l] = NoProc \/ \E k \in Level : k >= l /\ Queues[k] = p
         /\ \A q \in Runnable : priority[q] <= priority[p]
         /\ ~Refill => p = proc
         /\ Refill =>
            \/ Runnable = {}
            \/ p \in Runnable /\ \A q \in Runnable : priority[q] = priority[p] =>
                 wait[q][priority[p]] <= wait[p][priority[p]]
<1>. DEFINE Filled == {l \in Level : Queues[l] # NoProc}
<1>1. Filled = {} \/ (Max(Filled) \in Filled /\ \A l \in Filled : l <= Max(Filled))
  <2>1. Filled \in SUBSET Nat /\ Filled \in SUBSET Level
    BY LevelFacts
  <2>. HIDE DEF Filled
  <2>. QED BY <2>1, LevelFacts, FS_Subset, MaxFacts
<1>2. \/ /\ Filled = {}
         /\ p = proc
      \/ /\ Filled # {}
         /\ p = Queues[Max(Filled)] /\ Max(Filled) \in Filled
         /\ \A l \in Filled : l <= Max(Filled)
  <2>1. Chosen = IF Filled = {} THEN proc ELSE Queues[Max(Filled)]
    BY DEF Chosen
  <2>. HIDE DEF Filled
  <2>. QED BY <1>1, <2>1
<1>3. \A l \in Level : Queues[l] = NoProc \/ \E k \in Level : k >= l /\ Queues[k] = p
  BY <1>2, LevelFacts
<1>4. CASE ~Refill
  <2>1. proc # NoProc /\ ~flag /\ ~Preempted /\ Queues = tar
    BY <1>4 DEF Refill, Queues
  <2>2. \A l \in Level : tar[l] = NoProc \/ \E k \in Level : k >= l /\ tar[k] = proc
    BY <2>1 DEF QueuesCurrent
  <2>3. p = proc
    <3>1. CASE Filled = {}
      BY <1>2, <3>1
    <3>2. CASE Filled # {}
      <4>1. PICK k \in Level : k >= Max(Filled) /\ tar[k] = proc
        BY <1>2, <2>1, <2>2, <3>2
      <4>2. k \in Filled
        BY <2>1, <4>1
      <4>3. k = Max(Filled)
        <5>1. Max(Filled) \in Level /\ k <= Max(Filled)
          BY <1>2, <3>2, <4>2
        <5>. HIDE DEF Filled
        <5>. QED BY <4>1, <5>1, LevelFacts
      <4>. QED BY <1>2, <2>1, <3>2, <4>1, <4>3
    <3>. QED BY <3>1, <3>2
  <2>4. \A q \in Runnable : priority[q] <= priority[p]
    <3>1. \A q \in Proc : priority[q] \in Nat
      BY LevelFacts DEF TypeOK
    <3>. QED BY <2>1, <2>3, <3>1 DEF Preempted, Runnable
  <2>5. Queues \in [Level -> Proc \cup {NoProc}]
    BY <2>1 DEF TypeOK
  <2>. QED BY <1>3, <1>4, <2>3, <2>4, <2>5
<1>5. CASE Refill
  <2>1. Queues = [l \in Level |-> LongestWaiting(l)]
    BY <1>5 DEF Queues
  <2>2. \A l \in Level : Queues[l] = LongestWaiting(l)
    BY <2>1
  <2>3. Queues \in [Level -> Proc \cup {NoProc}]
    BY <2>1, LongestFacts DEF Runnable
  <2>4. \A q \in Runnable : priority[q] \in Filled
    BY <2>2, LongestFacts, ProcAssumption DEF TypeOK, Runnable, Filled
  <2>5. CASE Filled = {}
    BY <1>3, <1>5, <2>3, <2>4, <2>5
  <2>6. CASE Filled # {}
    <3>1. p \in Runnable /\ priority[p] = Max(Filled)
          /\ \A q \in Runnable : priority[q] = priority[p] =>
                 wait[q][priority[p]] <= wait[p][priority[p]]
      <4>1. Max(Filled) \in Level /\ p = LongestWaiting(Max(Filled)) /\ p # NoProc
        BY <1>2, <2>2, <2>6
      <4>. HIDE DEF Filled
      <4>. QED BY <4>1, LongestFacts
    <3>2. \A q \in Runnable : priority[q] <= priority[p]
      BY <1>2, <2>4, <2>6, <3>1
    <3>. QED BY <1>3, <1>5, <2>3, <3>1, <3>2
  <2>. QED BY <2>5, <2>6
<1>. QED BY <1>4, <1>5

-----------------------------------------------------------------------------
(* What a dispatch does *)

LEMMA TimesMonotone ==
  ASSUME NEW t \in Nat, NEW a \in Nat, NEW b \in Nat, a <= b
  PROVE  t * a <= t * b
<1>1. PICK k \in Nat : b = a + k
  <2>1. b - a \in Nat /\ b = a + (b - a)
    OBVIOUS
  <2>. QED BY <2>1
<1>2. t * b = t * a + t * k /\ t * k \in Nat /\ t * a \in Nat
  BY <1>1
<1>. QED BY <1>2

LEMMA TimesPositive ==
  ASSUME NEW t \in Nat \ {0}, NEW a \in Nat \ {0}
  PROVE  t * a \in Nat /\ t * a > 0
  OBVIOUS

LEMMA SliceFacts ==
  ASSUME NEW l \in Level
  PROVE  /\ ticks[l] \in Nat \ {0}
         /\ Factor * ticks[l] \in Nat /\ Factor * ticks[l] > 0
  BY LevelAssumption, TimesPositive

LEMMA TickedFacts ==
  ASSUME TypeOK, NEW p \in Proc
  PROVE  Ticked(p) = IF done[p][priority[p]] + 1 = ticks[priority[p]] THEN 0
                     ELSE done[p][priority[p]] + 1
<1>1. \A t \in Nat \ {0}, d \in Nat : d < t => (d + 1) % t = IF d + 1 = t THEN 0 ELSE d + 1
  OBVIOUS
<1>2. /\ priority[p] \in Level /\ ticks[priority[p]] \in Nat \ {0}
      /\ done[p][priority[p]] \in Nat /\ done[p][priority[p]] < ticks[priority[p]]
  BY SliceFacts DEF TypeOK
<1>. QED BY <1>1, <1>2 DEF Ticked

LEMMA WaitFacts ==
  ASSUME TypeOK, NEW p \in Proc, NEW q \in Proc
  PROVE  /\ NewWait(q, p) \in [Level -> Nat]
         /\ \A l \in Level : NewWait(q, p)[l] =
              IF q = p THEN 0 ELSE IF l # priority[q] THEN wait[q][l]
              ELSE IF Promoted(q) THEN 0 ELSE Waited(q)
         /\ Waited(q) \in Nat
         /\ Waited(q) <= wait[q][priority[q]] + 1
         /\ state[q] # "RUNNABLE" => Waited(q) = wait[q][priority[q]]
         /\ state[q] = "RUNNABLE" => Waited(q) = wait[q][priority[q]] + 1
<1>1. priority[q] \in Level /\ wait[q] \in [Level -> Nat] /\ wait[q][priority[q]] \in Nat
  BY DEF TypeOK
<1>2. /\ Waited(q) \in Nat
      /\ Waited(q) <= wait[q][priority[q]] + 1
      /\ state[q] # "RUNNABLE" => Waited(q) = wait[q][priority[q]]
      /\ state[q] = "RUNNABLE" => Waited(q) = wait[q][priority[q]] + 1
  BY <1>1 DEF Waited
<1>. QED BY <1>1, <1>2 DEF NewWait

LEMMA PriorityFacts ==
  ASSUME TypeOK, NEW p \in Proc, NEW q \in Proc
  PROVE  NewPriority(q, p) \in Level
<1>1. priority[q] \in 0 .. TopLevel /\ TopLevel \in Nat
  BY LevelAssumption DEF TypeOK, Level
<1>2. CASE q = p
  BY <1>1, <1>2 DEF NewPriority, Demoted, Level
<1>3. CASE q # p
  BY <1>1, <1>3 DEF NewPriority, Promoted, Level
<1>. QED BY <1>2, <1>3

LEMMA DispatchFacts ==
  ASSUME TypeOK, NEW p \in Proc, Dispatch(p)
  PROVE  /\ \A q \in Proc : priority'[q] = NewPriority(q, p)
         /\ \A q \in Proc : wait'[q] = NewWait(q, p)
         /\ \A q \in Proc : q # p => done'[q] = done[q]
         /\ \A l \in Level : done'[p][l] = IF l = priority[p] THEN Ticked(p) ELSE done[p][l]
         /\ proc' = p /\ flag' = Demoted(p) /\ state'[p] = "RUNNING"
         /\ \A q \in Proc : q # p => state'[q] = state[q]
  BY DEF Dispatch, TypeOK

-----------------------------------------------------------------------------
(* The invariant, one part at a time *)

LEMMA TypeDispatch ==
  ASSUME TypeOK, QueuesCurrent, NEW p \in Proc, Dispatch(p)
  PROVE  TypeOK'
<1>1. priority' \in [Proc -> Level]
  BY PriorityFacts DEF Dispatch
<1>2. wait' \in [Proc -> [Level -> Nat]]
  BY WaitFacts DEF Dispatch
<1>3. done' \in [Proc -> [Level -> Nat]] /\ \A q \in Proc, l \in Level : done'[q][l] < ticks[l]
  <2>1. Ticked(p) \in Nat /\ Ticked(p) < ticks[priority[p]] /\ priority[p] \in Level
    <3>1. /\ priority[p] \in Level /\ ticks[priority[p]] \in Nat \ {0}
          /\ done[p][priority[p]] \in Nat /\ done[p][priority[p]] < ticks[priority[p]]
      BY SliceFacts DEF TypeOK
    <3>. QED BY <3>1, TickedFacts
  <2>2. done' = [done EXCEPT ![p][priority[p]] = Ticked(p)]
    BY DEF Dispatch
  <2>3. done' \in [Proc -> [Level -> Nat]]
    BY <2>1, <2>2 DEF TypeOK
  <2>4. ASSUME NEW q \in Proc, NEW l \in Level PROVE done'[q][l] < ticks[l]
    <3>1. done[q][l] < ticks[l]
      BY DEF TypeOK
    <3>2. CASE q = p
      BY <2>1, <3>1, <3>2, DispatchFacts
    <3>3. CASE q # p
      BY <3>1, <3>3, DispatchFacts
    <3>. QED BY <3>2, <3>3
  <2>. QED BY <2>3, <2>4
<1>4. tar' \in [Level -> Proc \cup {NoProc}]
  BY ChosenFacts DEF Dispatch
<1>5. /\ state' \in [Proc -> {"UNUSED", "EMBRYO", "SLEEPING", "RUNNABLE", "RUNNING", "ZOMBIE"}]
      /\ proc' \in Proc \cup {NoProc}
      /\ parent' \in [Proc -> Proc \cup {NoProc}]
      /\ pc' \in [Proc -> {"user", "fork", "wait", "io"}]
      /\ np' \in [Proc -> Proc \cup {NoProc}]
  BY DEF Dispatch, TypeOK, local
<1>6. flag' \in BOOLEAN /\ panicked' \in BOOLEAN
  BY DEF Dispatch, Demoted
<1>. QED BY <1>1, <1>2, <1>3, <1>4, <1>5, <1>6 DEF TypeOK

LEMMA UnusedFacts ==
  ASSUME TypeOK, Unused # {}
  PROVE  Min(Unused) \in Proc /\ state[Min(Unused)] = "UNUSED"
<1>1. Unused \in SUBSET Proc
  BY DEF Unused
<1>2. Unused \in SUBSET Nat /\ IsFiniteSet(Unused)
  BY <1>1, ProcFacts, FS_Subset
<1>3. Min(Unused) \in Unused
  BY <1>2, MinFacts
<1>. QED BY <1>3 DEF Unused

LEMMA ZombieFacts ==
  ASSUME TypeOK, NEW p \in Proc, Zombies(p) # {}
  PROVE  Min(Zombies(p)) \in Proc /\ state[Min(Zombies(p))] = "ZOMBIE"
<1>1. Zombies(p) \in SUBSET Proc
  BY DEF Zombies, Children
<1>2. Zombies(p) \in SUBSET Nat /\ IsFiniteSet(Zombies(p))
  BY <1>1, ProcFacts, FS_Subset
<1>3. Min(Zombies(p)) \in Zombies(p)
  BY <1>2, MinFacts
<1>. QED BY <1>3 DEF Zombies, Children

(* A wakeup only makes processes RUNNABLE.                                  *)
LEMMA WokenFacts ==
  ASSUME NEW st \in [Proc -> {"UNUSED", "EMBRYO", "SLEEPING", "RUNNABLE", "RUNNING", "ZOMBIE"}],
         NEW q
  PROVE  /\ WokenWaiter(st, q) \in [Proc -> {"UNUSED", "EMBRYO", "SLEEPING", "RUNNABLE", "RUNNING", "ZOMBIE"}]
         /\ \A p \in Proc : WokenWaiter(st, q)[p] \in {st[p], "RUNNABLE"}
  BY DEF WokenWaiter

LEMMA TypeStep ==
  ASSUME TypeOK, QueuesCurrent, [Next]_vars
  PROVE  TypeOK'
<1>. USE DEF table, local, sched
<1>1. ASSUME NEW p \in Proc, Dispatch(p) PROVE TypeOK'
  BY <1>1, TypeDispatch
<1>2. ASSUME NEW p \in Proc, Step(p) PROVE TypeOK'
  <2>1. CASE Yield(p)
    BY <2>1 DEF Yield, Leave, Running, TypeOK
  <2>2. CASE SleepIo(p)
    BY <2>2 DEF SleepIo, Leave, Running, TypeOK
  <2>3. CASE Interrupt(p)
    BY <2>3 DEF Interrupt, TypeOK
  <2>4. CASE \E q \in Proc : Kill(p, q)
    <3>1. PICK q \in Proc : Kill(p, q)
      BY <2>4
    <3>2. state' \in [Proc -> {"UNUSED", "EMBRYO", "SLEEPING", "RUNNABLE", "RUNNING", "ZOMBIE"}]
      BY <3>1 DEF Kill, TypeOK
    <3>3. pc' \in [Proc -> {"user", "fork", "wait", "io"}]
      BY <3>1 DEF Kill, TypeOK
    <3>. QED BY <3>1, <3>2, <3>3 DEF Kill, TypeOK
  <2>5. CASE Allocproc(p)
    <3>1. Min(Unused) \in Proc
      BY <2>5, UnusedFacts DEF Allocproc
    <3>2. done' \in [Proc -> [Level -> Nat]] /\ wait' \in [Proc -> [Level -> Nat]]
      BY <2>5, <3>1 DEF Allocproc, TypeOK
    <3>3. \A q \in Proc, l \in Level : done'[q][l] < ticks[l]
      BY <2>5, <3>1, SliceFacts DEF Allocproc, TypeOK
    <3>4. priority' \in [Proc -> Level]
      BY <2>5, <3>1, LevelFacts DEF Allocproc, TypeOK
    <3>. QED BY <2>5, <3>1, <3>2, <3>3, <3>4 DEF Allocproc, TypeOK
  <2>6. CASE Fork(p)
    BY <2>6 DEF Fork, TypeOK
  <2>7. CASE Exit(p)
    <3>. DEFINE up == WokenWaiter(state, parent[p])
                st == IF Zombies(p) # {} THEN WokenWaiter(up, initproc) ELSE up
    <3>1. st \in [Proc -> {"UNUSED", "EMBRYO", "SLEEPING", "RUNNABLE", "RUNNING", "ZOMBIE"}]
      BY WokenFacts DEF TypeOK
    <3>2. Leave([st EXCEPT ![p] = "ZOMBIE"])
      BY <2>7 DEF Exit
    <3>3. initproc \in Proc
      BY ProcAssumption DEF initproc, Proc
    <3>. HIDE DEF st
    <3>. QED BY <2>7, <3>1, <3>2, <3>3 DEF Exit, Leave, TypeOK
  <2>8. CASE Reap(p)
    BY <2>8, ZombieFacts DEF Reap, TypeOK
  <2>9. CASE WaitFails(p)
    BY <2>9 DEF WaitFails, TypeOK
  <2>10. CASE SleepWait(p)
    BY <2>10 DEF SleepWait, Leave, InWait, Running, TypeOK
  <2>. QED BY <1>2, <2>1, <2>2, <2>3, <2>4, <2>5, <2>6, <2>7, <2>8, <2>9, <2>10 DEF Step
<1>3. CASE UNCHANGED vars
  BY <1>3 DEF vars, TypeOK
<1>. QED BY <1>1, <1>2, <1>3 DEF Next

(* What the steps of the processes leave alone: no other process of a       *)
(* process is made to wait, and the one that ran last is left unchanged or  *)
(* with the flag set.                                                       *)
Quiet ==
  /\ wait' = wait /\ proc' = proc /\ tar' = tar
  /\ flag => flag'
  /\ \A q \in Proc : state[q] = "RUNNABLE" => state'[q] = "RUNNABLE"
  /\ \A q \in Proc : state'[q] = "RUNNING" => state[q] = "RUNNING"
  /\ flag' \/ (proc # NoProc /\ state[proc] \in {"RUNNING", "RUNNABLE"}
                 => state'[proc] \in {"RUNNING", "RUNNABLE"})
  /\ \/ priority' = priority /\ done' = done
     \/ \E c \in Proc \ {proc} :
          /\ state[c] = "UNUSED"
          /\ priority' = [priority EXCEPT ![c] = TopLevel]
          /\ done' = [done EXCEPT ![c] = [l \in Level |-> 0]]

LEMMA StepQuiet ==
  ASSUME TypeOK, Served, NEW p \in Proc, Step(p)
  PROVE  Quiet
<1>. USE DEF table, local, sched, Quiet
<1>1. CASE Yield(p)
  BY <1>1 DEF Yield, Leave, Running, TypeOK
<1>2. CASE SleepIo(p)
  BY <1>2 DEF SleepIo, Leave, Running, TypeOK
<1>3. CASE Interrupt(p)
  BY <1>3 DEF Interrupt, TypeOK
<1>4. CASE \E q \in Proc : Kill(p, q)
  BY <1>4 DEF Kill, Running, TypeOK
<1>5. CASE Allocproc(p)
  <2>1. PICK c \in Proc : c = Min(Unused) /\ state[c] = "UNUSED"
    BY <1>5, UnusedFacts DEF Allocproc
  <2>2. /\ state' = [state EXCEPT ![c] = "EMBRYO"]
        /\ priority' = [priority EXCEPT ![c] = TopLevel]
        /\ wait' = [wait EXCEPT ![c] = [l \in Level |-> 0]]
        /\ done' = [done EXCEPT ![c] = [l \in Level |-> 0]]
        /\ proc = p /\ state[p] = "RUNNING"
        /\ UNCHANGED sched
    BY <1>5, <2>1 DEF Allocproc, Running
  <2>3. wait' = wait
    <3>1. wait[c] = [l \in Level |-> 0]
      BY <2>1 DEF Served, TypeOK
    <3>. QED BY <2>2, <3>1 DEF TypeOK
  <2>. QED BY <2>1, <2>2, <2>3 DEF TypeOK
<1>6. CASE Fork(p)
  BY <1>6 DEF Fork, TypeOK
<1>7. CASE Exit(p)
  <2>. DEFINE up == WokenWaiter(state, parent[p])
              st == IF Zombies(p) # {} THEN WokenWaiter(up, initproc) ELSE up
  <2>1. /\ st \in [Proc -> {"UNUSED", "EMBRYO", "SLEEPING", "RUNNABLE", "RUNNING", "ZOMBIE"}]
        /\ \A q \in Proc : st[q] = state[q] \/ st[q] = "RUNNABLE"
    <3>1. /\ up \in [Proc -> {"UNUSED", "EMBRYO", "SLEEPING", "RUNNABLE", "RUNNING", "ZOMBIE"}]
          /\ \A q \in Proc : up[q] = state[q] \/ up[q] = "RUNNABLE"
      BY WokenFacts DEF TypeOK
    <3>2. /\ WokenWaiter(up, initproc)
                \in [Proc -> {"UNUSED", "EMBRYO", "SLEEPING", "RUNNABLE", "RUNNING", "ZOMBIE"}]
          /\ \A q \in Proc : WokenWaiter(up, initproc)[q] = up[q]
                               \/ WokenWaiter(up, initproc)[q] = "RUNNABLE"
      <4>. HIDE DEF up
      <4>. QED BY <3>1, WokenFacts
    <3>. HIDE DEF up
    <3>. QED BY <3>1, <3>2
  <2>2. Leave([st EXCEPT ![p] = "ZOMBIE"])
    BY <1>7 DEF Exit
  <2>. HIDE DEF st
  <2>. QED BY <1>7, <2>1, <2>2 DEF Exit, Leave, Running, TypeOK
<1>8. CASE Reap(p)
  <2>1. state[Min(Zombies(p))] = "ZOMBIE" /\ state' = [state EXCEPT ![Min(Zombies(p))] = "UNUSED"]
    BY <1>8, ZombieFacts DEF Reap
  <2>. QED BY <1>8, <2>1 DEF Reap, InWait, Running, TypeOK
<1>9. CASE WaitFails(p)
  BY <1>9 DEF WaitFails, TypeOK
<1>10. CASE SleepWait(p)
  BY <1>10 DEF SleepWait, Leave, InWait, Running, TypeOK
<1>. QED BY <1>1, <1>2, <1>3, <1>4, <1>5, <1>6, <1>7, <1>8, <1>9, <1>10 DEF Step

-----------------------------------------------------------------------------
(* The queues, the levels and the waits *)

LEMMA QueuesStep ==
  ASSUME TypeOK, QueuesCurrent, Served, [Next]_vars
  PROVE  QueuesCurrent'
<1>1. ASSUME NEW p \in Proc, Dispatch(p) PROVE QueuesCurrent'
  <2>1. tar' = Queues /\ proc' = p /\ state'[p] = "RUNNING" /\ p = Chosen
    BY <1>1, DispatchFacts DEF Dispatch
  <2>2. \A l \in Level : tar'[l] = NoProc \/ \E k \in Level : k >= l /\ tar'[k] = p
    BY <2>1, ChosenFacts
  <2>. QED BY <2>1, <2>2 DEF QueuesCurrent
<1>2. ASSUME NEW p \in Proc, Step(p) PROVE QueuesCurrent'
  <2>1. Quiet
    BY <1>2, StepQuiet
  <2>. QED BY <2>1 DEF Quiet, QueuesCurrent, TypeOK
<1>3. CASE UNCHANGED vars
  BY <1>3 DEF vars, table, local, sched, QueuesCurrent
<1>. QED BY <1>1, <1>2, <1>3 DEF Next

LEMMA ServedStep ==
  ASSUME TypeOK, Served, Levels, [Next]_vars
  PROVE  Served'
<1>1. ASSUME NEW p \in Proc, Dispatch(p) PROVE Served'
  <2>1. SUFFICES ASSUME NEW q \in Proc, state'[q] # "RUNNABLE" \/ q = proc', NEW l \in Level
                 PROVE  wait'[q][l] = 0
    BY DEF Served
  <2>2. CASE q = p
    BY <1>1, <2>2, DispatchFacts, WaitFacts
  <2>3. CASE q # p
    <3>1. state[q] # "RUNNABLE" /\ wait'[q] = NewWait(q, p)
      BY <1>1, <2>1, <2>3, DispatchFacts
    <3>2. wait[q][l] = 0 /\ wait[q][priority[q]] = 0
      BY <3>1 DEF Served, TypeOK
    <3>. QED BY <2>3, <3>1, <3>2, WaitFacts
  <2>. QED BY <2>2, <2>3
<1>2. ASSUME NEW p \in Proc, Step(p) PROVE Served'
  <2>1. Quiet
    BY <1>2, StepQuiet
  <2>. QED BY <2>1 DEF Quiet, Served
<1>3. CASE UNCHANGED vars
  BY <1>3 DEF vars, table, local, sched, Served
<1>. QED BY <1>1, <1>2, <1>3 DEF Next

LEMMA LevelsStep ==
  ASSUME TypeOK, Served, Levels, [Next]_vars
  PROVE  Levels'
<1>1. ASSUME NEW p \in Proc, Dispatch(p) PROVE Levels'
  <2>1. SUFFICES ASSUME NEW q \in Proc, NEW l \in Level
                 PROVE  /\ l # priority'[q] => wait'[q][l] = 0
                        /\ l # TopLevel => wait'[q][l] < Factor * ticks[l]
    BY DEF Levels
  <2>2. CASE q = p
    BY <1>1, <2>2, DispatchFacts, WaitFacts, SliceFacts
  <2>3. CASE q # p
    <3>1. /\ priority'[q] = IF Promoted(q) THEN priority[q] + 1 ELSE priority[q]
          /\ wait'[q] = NewWait(q, p)
      BY <1>1, <2>3, DispatchFacts DEF NewPriority
    <3>2. CASE l = priority[q]
      <4>1. /\ l # TopLevel => wait[q][l] + 1 <= Factor * ticks[l]
            /\ wait[q][l] \in Nat /\ Factor * ticks[l] \in Nat /\ Factor * ticks[l] > 0
        BY SliceFacts DEF Levels, TypeOK
      <4>2. CASE Promoted(q)
        BY <2>3, <3>1, <3>2, <4>1, <4>2, WaitFacts
      <4>3. CASE ~Promoted(q)
        <5>1. wait'[q][l] = Waited(q) /\ l = priority'[q]
          BY <2>3, <3>1, <3>2, <4>3, WaitFacts
        <5>2. l # TopLevel => Waited(q) # Factor * ticks[l]
          BY <3>2, <4>3 DEF Promoted
        <5>3. Waited(q) \in Nat /\ Waited(q) <= wait[q][l] + 1
          BY <3>2, WaitFacts
        <5>. QED BY <4>1, <5>1, <5>2, <5>3
      <4>. QED BY <4>2, <4>3
    <3>3. CASE l # priority[q]
      <4>1. wait'[q][l] = wait[q][l] /\ wait[q][l] = 0
        BY <2>3, <3>1, <3>3, WaitFacts DEF Levels
      <4>. QED BY <4>1, SliceFacts
    <3>. QED BY <3>2, <3>3
  <2>. QED BY <2>2, <2>3
<1>2. ASSUME NEW p \in Proc, Step(p) PROVE Levels'
  <2>1. Quiet
    BY <1>2, StepQuiet
  <2>2. CASE priority' = priority
    BY <2>1, <2>2 DEF Quiet, Levels
  <2>3. ASSUME NEW c \in Proc, state[c] = "UNUSED",
               priority' = [priority EXCEPT ![c] = TopLevel]
        PROVE  Levels'
    <3>1. \A l \in Level : wait[c][l] = 0
      BY <2>3 DEF Served
    <3>2. wait' = wait /\ \A q \in Proc : q # c => priority'[q] = priority[q]
      BY <2>1, <2>3 DEF Quiet, TypeOK
    <3>. QED BY <3>1, <3>2 DEF Levels
  <2>. QED BY <2>1, <2>2, <2>3 DEF Quiet
<1>3. CASE UNCHANGED vars
  BY <1>3 DEF vars, table, local, sched, Levels
<1>. QED BY <1>1, <1>2, <1>3 DEF Next

-----------------------------------------------------------------------------
(* The turns at the top level *)

(* A larger set allows a longer wait.                                       *)
LEMMA Allowed ==
  ASSUME NEW S \in SUBSET Proc, NEW T \in SUBSET S, NEW l \in Level
  PROVE  /\ Cardinality(S) \in Nat /\ Cardinality(T) \in Nat
         /\ ticks[l] * Cardinality(S) \in Nat /\ ticks[l] * Cardinality(T) \in Nat
         /\ ticks[l] * Cardinality(T) <= ticks[l] * Cardinality(S)
<1>1. IsFiniteSet(S) /\ IsFiniteSet(T)
  BY ProcFacts, FS_Subset
<1>2. Cardinality(S) \in Nat /\ Cardinality(T) \in Nat /\ Cardinality(T) <= Cardinality(S)
  BY <1>1, FS_Subset, FS_CardinalityType
<1>3. ticks[l] \in Nat
  BY SliceFacts
<1>. QED BY <1>2, <1>3, TimesMonotone

(* One more process allows one more slice.                                  *)
LEMMA OneMore ==
  ASSUME NEW S \in SUBSET Proc, NEW p \in S, NEW l \in Level
  PROVE  ticks[l] * Cardinality(S) = ticks[l] * Cardinality(S \ {p}) + ticks[l]
<1>1. IsFiniteSet(S)
  BY ProcFacts, FS_Subset
<1>2. /\ Cardinality(S) \in Nat /\ Cardinality(S \ {p}) \in Nat
      /\ Cardinality(S) = Cardinality(S \ {p}) + 1
  <2>1. IsFiniteSet(S \ {p}) /\ Cardinality(S \ {p}) = Cardinality(S) - 1
    BY <1>1, FS_RemoveElement
  <2>2. Cardinality(S) \in Nat /\ Cardinality(S \ {p}) \in Nat
    BY <1>1, <2>1, FS_CardinalityType
  <2>. QED BY <2>1, <2>2
<1>3. \A t, n \in Nat : t * (n + 1) = t * n + t
  OBVIOUS
<1>. QED BY <1>2, <1>3, SliceFacts

LEMMA TurnsQuiet ==
  ASSUME TypeOK, Served, Turns, Quiet
  PROVE  Turns'
<1>1. SUFFICES ASSUME NEW r \in Proc, priority'[r] = TopLevel, wait'[r][TopLevel] > 0
               PROVE  wait'[r][TopLevel] <=
                        IF InSlice'
                        THEN ticks[TopLevel] * Cardinality(Later(r)' \ {proc'}) + done'[proc'][TopLevel]
                        ELSE ticks[TopLevel] * Cardinality(Later(r)')
  BY DEF Turns
<1>2. wait' = wait /\ proc' = proc /\ (flag => flag')
  BY DEF Quiet
<1>3. /\ priority[r] = TopLevel
      /\ Later(r)' = Later(r)
      /\ proc # NoProc => done'[proc] = done[proc] /\ priority'[proc] = priority[proc]
  <2>1. CASE priority' = priority /\ done' = done
    BY <1>1, <1>2, <2>1 DEF Later
  <2>2. ASSUME NEW c \in Proc \ {proc}, state[c] = "UNUSED",
               priority' = [priority EXCEPT ![c] = TopLevel],
               done' = [done EXCEPT ![c] = [l \in Level |-> 0]]
        PROVE  /\ priority[r] = TopLevel
               /\ Later(r)' = Later(r)
               /\ proc # NoProc => done'[proc] = done[proc] /\ priority'[proc] = priority[proc]
    <3>1. \A l \in Level : wait[c][l] = 0
      BY <2>2 DEF Served
    <3>2. r # c
      BY <1>1, <1>2, <3>1, LevelFacts
    <3>3. \A q \in Proc : priority[q] \in Level /\ priority'[q] = IF q = c THEN TopLevel ELSE priority[q]
      BY <2>2 DEF TypeOK
    <3>4. \A q \in Proc : wait'[q][priority'[q]] = wait[q][priority[q]]
      BY <1>2, <3>1, <3>3, LevelFacts
    <3>5. Later(r)' = Later(r)
      BY <1>2, <3>4 DEF Later
    <3>. QED BY <1>1, <2>2, <3>2, <3>3, <3>5 DEF TypeOK
  <2>. QED BY <2>1, <2>2 DEF Quiet
<1>4. wait[r][TopLevel] <= IF InSlice THEN ticks[TopLevel] * Cardinality(Later(r) \ {proc}) + done[proc][TopLevel]
                           ELSE ticks[TopLevel] * Cardinality(Later(r))
  BY <1>1, <1>2, <1>3 DEF Turns
<1>5. CASE InSlice'
  <2>1. InSlice
    BY <1>2, <1>3, <1>5 DEF InSlice, TypeOK
  <2>. QED BY <1>2, <1>3, <1>4, <1>5, <2>1 DEF InSlice
<1>6. CASE ~InSlice'
  <2>1. CASE ~InSlice
    BY <1>2, <1>3, <1>4, <1>6, <2>1
  <2>2. CASE InSlice
    <3>1. proc \in Proc /\ priority[proc] = TopLevel /\ wait[proc][TopLevel] = 0 /\ TopLevel \in Level
      BY <2>2, LevelFacts DEF InSlice, Served, TypeOK
    <3>2. proc \in Later(r) /\ Later(r) \in SUBSET Proc
      BY <1>1, <1>2, <3>1 DEF Later
    <3>3. ticks[TopLevel] * Cardinality(Later(r)) =
            ticks[TopLevel] * Cardinality(Later(r) \ {proc}) + ticks[TopLevel]
      BY <3>1, <3>2, OneMore
    <3>4. done[proc][TopLevel] \in Nat /\ done[proc][TopLevel] < ticks[TopLevel]
          /\ ticks[TopLevel] \in Nat /\ wait[r][TopLevel] \in Nat
      BY <3>1, SliceFacts DEF TypeOK
    <3>5. ticks[TopLevel] * Cardinality(Later(r) \ {proc}) \in Nat
      BY <3>1, <3>2, Allowed
    <3>. QED BY <1>2, <1>3, <1>4, <1>6, <2>2, <3>3, <3>4, <3>5
  <2>. QED BY <2>1, <2>2
<1>. QED BY <1>5, <1>6

LEMMA TurnsDispatch ==
  ASSUME IInv, NEW p \in Proc, Dispatch(p)
  PROVE  Turns'
<1>. USE DEF IInv
<1>1. SUFFICES ASSUME NEW r \in Proc, priority'[r] = TopLevel, wait'[r][TopLevel] > 0
               PROVE  wait'[r][TopLevel] <=
                        IF InSlice'
                        THEN ticks[TopLevel] * Cardinality(Later(r)' \ {proc'}) + done'[proc'][TopLevel]
                        ELSE ticks[TopLevel] * Cardinality(Later(r)')
  BY DEF Turns
<1>. DEFINE w == wait[r][TopLevel]
            C == ticks[TopLevel] * Cardinality(Later(r) \ {p})
<1>2. /\ TopLevel \in Level /\ \A l \in Level : l \in Nat /\ l <= TopLevel
      /\ ticks[TopLevel] \in Nat \ {0}
  BY LevelFacts, SliceFacts, LevelAssumption DEF Level
\* r waits on, at the top level
<1>3. r # p /\ priority[r] = TopLevel /\ r \in Runnable /\ w \in Nat /\ wait'[r][TopLevel] = w + 1
  <2>1. r # p
    BY <1>1, <1>2, DispatchFacts, WaitFacts
  <2>2. /\ priority'[r] = IF Promoted(r) THEN priority[r] + 1 ELSE priority[r]
        /\ wait'[r] = NewWait(r, p)
    BY <2>1, DispatchFacts DEF NewPriority
  <2>3. priority[r] = TopLevel
    <3>1. SUFFICES ASSUME priority[r] # TopLevel PROVE FALSE
      OBVIOUS
    <3>2. wait'[r][TopLevel] = wait[r][TopLevel] /\ wait[r][TopLevel] = 0
      BY <1>2, <2>1, <2>2, <3>1, WaitFacts DEF Levels
    <3>. QED BY <1>1, <3>2
  <2>4. ~Promoted(r)
    BY <2>3 DEF Promoted
  <2>5. wait'[r][TopLevel] = Waited(r)
    BY <1>2, <2>1, <2>2, <2>3, <2>4, WaitFacts
  <2>6. state[r] = "RUNNABLE"
    <3>1. SUFFICES ASSUME state[r] # "RUNNABLE" PROVE FALSE
      OBVIOUS
    <3>2. Waited(r) = w /\ w = 0
      BY <1>2, <2>3, <3>1, WaitFacts DEF Served
    <3>. QED BY <1>1, <2>5, <3>2
  <2>7. Waited(r) = w + 1 /\ w \in Nat
    BY <1>2, <2>3, <2>6, WaitFacts DEF TypeOK
  <2>. QED BY <2>1, <2>3, <2>5, <2>6, <2>7 DEF Runnable
\* so the chosen process is of the top level too
<1>4. priority[p] = TopLevel
  <2>1. priority[r] <= priority[p]
    BY <1>3, ChosenFacts DEF Dispatch
  <2>2. priority[p] \in Level
    BY DEF TypeOK
  <2>. QED BY <1>2, <1>3, <2>1, <2>2
<1>5. w <= C + done[p][TopLevel] /\ C \in Nat
  <2>1. Later(r) \in SUBSET Proc /\ Later(r) \ {p} \in SUBSET Later(r)
    BY DEF Later
  <2>2. C \in Nat /\ done[p][TopLevel] \in Nat
    BY <1>2, <2>1, Allowed DEF TypeOK
  <2>3. CASE ~Refill
    <3>1. p = proc /\ proc # NoProc /\ ~flag
      BY <2>3, ChosenFacts DEF Dispatch, Refill
    <3>2. InSlice
      BY <1>4, <3>1 DEF InSlice
    <3>3. CASE w > 0
      BY <1>3, <2>2, <3>1, <3>2, <3>3 DEF Turns
    <3>4. CASE w = 0
      BY <2>2, <3>4
    <3>. QED BY <1>3, <3>3, <3>4
  <2>4. CASE Refill
    <3>1. ~InSlice
      <4>1. SUFFICES ASSUME InSlice PROVE FALSE
        OBVIOUS
      <4>2. PICK q \in Proc : priority[q] > TopLevel
        BY <2>4, <4>1 DEF InSlice, Refill, Preempted, Runnable
      <4>. QED BY <1>2, <4>2 DEF TypeOK
    <3>2. p \notin Later(r)
      <4>1. wait[r][TopLevel] <= wait[p][TopLevel]
        BY <1>3, <1>4, <2>4, ChosenFacts DEF Dispatch
      <4>2. wait[p][TopLevel] \in Nat
        BY <1>2 DEF TypeOK
      <4>. QED BY <1>3, <1>4, <4>1, <4>2 DEF Later
    <3>3. Later(r) \ {p} = Later(r)
      BY <3>2
    <3>4. CASE w > 0
      <4>1. w <= ticks[TopLevel] * Cardinality(Later(r))
        BY <1>3, <3>1, <3>4 DEF Turns
      <4>2. C = ticks[TopLevel] * Cardinality(Later(r))
        BY <3>3
      <4>. HIDE DEF C
      <4>. QED BY <1>3, <2>2, <4>1, <4>2
    <3>5. CASE w = 0
      BY <2>2, <3>5
    <3>. QED BY <1>3, <3>4, <3>5
  <2>. QED BY <2>2, <2>3, <2>4
\* those that have waited less still have, and now p has too
<1>6. Later(r) \ {p} \in SUBSET (Later(r)' \ {p}) /\ p \in Later(r)' /\ Later(r)' \in SUBSET Proc
  <2>1. \A q \in Proc : priority'[q] = NewPriority(q, p) /\ wait'[q] = NewWait(q, p)
    BY DispatchFacts
  <2>2. wait'[p][priority'[p]] = 0
    BY <2>1, PriorityFacts, WaitFacts
  <2>3. ASSUME NEW q \in Later(r) \ {p} PROVE wait'[q][priority'[q]] < w + 1
    <3>1. q \in Proc /\ q # p /\ wait[q][priority[q]] < w /\ wait[q][priority[q]] \in Nat
          /\ priority[q] \in Level
      BY <2>3 DEF Later, TypeOK
    <3>2. CASE Promoted(q)
      <4>1. priority'[q] = priority[q] + 1
        BY <2>1, <3>1, <3>2 DEF NewPriority
      <4>2. priority'[q] \in Level /\ priority'[q] # priority[q]
        BY <1>2, <2>1, <3>1, <4>1, PriorityFacts
      <4>3. wait'[q][priority'[q]] = wait[q][priority'[q]]
        BY <2>1, <3>1, <4>2, WaitFacts
      <4>4. wait[q][priority'[q]] = 0
        BY <3>1, <4>2 DEF Levels
      <4>. QED BY <1>3, <4>3, <4>4
    <3>3. CASE ~Promoted(q)
      <4>1. priority'[q] = priority[q]
        BY <2>1, <3>1, <3>3 DEF NewPriority
      <4>2. wait'[q][priority[q]] = Waited(q)
        BY <2>1, <3>1, <3>3, WaitFacts
      <4>3. Waited(q) \in Nat /\ Waited(q) <= wait[q][priority[q]] + 1
        BY <3>1, WaitFacts
      <4>. QED BY <1>3, <3>1, <4>1, <4>2, <4>3
    <3>. QED BY <3>2, <3>3
  <2>4. Later(r)' = {q \in Proc \ {r} : wait'[q][priority'[q]] < wait'[r][TopLevel]}
    BY DEF Later
  <2>5. Later(r) \ {p} \in SUBSET Proc /\ r \notin Later(r)
    BY DEF Later
  <2>6. \A q \in Later(r) \ {p} : q \in Later(r)' \ {p}
    BY <1>3, <2>3, <2>4, <2>5
  <2>7. p \in Later(r)'
    BY <1>3, <2>2, <2>4
  <2>. QED BY <2>4, <2>6, <2>7
<1>. DEFINE D == ticks[TopLevel] * Cardinality(Later(r)' \ {p})
<1>7. D \in Nat /\ C <= D /\ ticks[TopLevel] * Cardinality(Later(r)') = D + ticks[TopLevel]
  <2>1. Later(r)' \ {p} \in SUBSET Proc
    BY <1>6
  <2>2. D \in Nat /\ C <= D
    BY <1>2, <1>6, <2>1, Allowed
  <2>3. \A S \in SUBSET Proc : p \in S =>
          ticks[TopLevel] * Cardinality(S) = ticks[TopLevel] * Cardinality(S \ {p}) + ticks[TopLevel]
    BY <1>2, OneMore
  <2>. QED BY <1>6, <2>2, <2>3
<1>8. /\ done[p][TopLevel] \in Nat
      /\ done'[p][TopLevel] = IF done[p][TopLevel] + 1 = ticks[TopLevel] THEN 0 ELSE done[p][TopLevel] + 1
      /\ proc' = p /\ (flag' <=> done'[p][TopLevel] = 0)
  <2>1. done'[p][TopLevel] = Ticked(p) /\ proc' = p /\ flag' = Demoted(p)
    BY <1>2, <1>4, DispatchFacts
  <2>2. TopLevel # 0
    BY LevelAssumption
  <2>. QED BY <1>2, <1>4, <2>1, <2>2, TickedFacts DEF Demoted, TypeOK
<1>9. InSlice' => done'[p][TopLevel] # 0
  BY <1>8 DEF InSlice
<1>10. ~InSlice' => done'[p][TopLevel] = 0
  <2>1. SUFFICES ASSUME done'[p][TopLevel] # 0 PROVE InSlice'
    OBVIOUS
  <2>2. ~Demoted(p) /\ priority'[p] = NewPriority(p, p)
    BY <1>8, <2>1, DispatchFacts
  <2>3. priority'[p] = TopLevel
    BY <1>4, <2>2 DEF NewPriority
  <2>. QED BY <1>8, <2>1, <2>3, ProcAssumption DEF InSlice
<1>. HIDE DEF C, D, w
<1>11. CASE InSlice'
  <2>1. w + 1 <= D + done'[p][TopLevel]
    BY <1>3, <1>5, <1>7, <1>8, <1>9, <1>11
  <2>. QED BY <1>3, <1>8, <1>11, <2>1 DEF D
<1>12. CASE ~InSlice'
  <2>1. w + 1 <= D + ticks[TopLevel]
    BY <1>2, <1>3, <1>5, <1>7, <1>8, <1>10, <1>12
  <2>. QED BY <1>3, <1>7, <1>12, <2>1
<1>. QED BY <1>11, <1>12

LEMMA TurnsStep ==
  ASSUME IInv, [Next]_vars
  PROVE  Turns'
<1>1. ASSUME NEW p \in Proc, Dispatch(p) PROVE Turns'
  BY <1>1, TurnsDispatch
<1>2. ASSUME NEW p \in Proc, Step(p) PROVE Turns'
  BY <1>2, StepQuiet, TurnsQuiet DEF IInv
<1>3. CASE UNCHANGED vars
  BY <1>3 DEF vars, table, local, sched, IInv, Turns, Later, InSlice
<1>. QED BY <1>1, <1>2, <1>3 DEF Next

LEMMA IInvInit == Init => IInv
<1>. SUFFICES ASSUME Init PROVE IInv
  OBVIOUS
<1>1. initproc \in Proc /\ 0 \in Level /\ TopLevel \in Level
  BY ProcAssumption, LevelAssumption DEF initproc, Proc, Level
<1>2. TypeOK
  <2>1. done \in [Proc -> [Level -> Nat]] /\ \A p \in Proc, l \in Level : done[p][l] < ticks[l]
    BY SliceFacts DEF Init
  <2>. QED BY <1>1, <2>1 DEF Init, TypeOK
<1>3. \A p \in Proc, l \in Level : wait[p][l] = 0
  BY DEF Init
<1>4. Served /\ Levels /\ Turns
  BY <1>1, <1>3, SliceFacts DEF Served, Levels, Turns
<1>5. QueuesCurrent
  BY DEF Init, QueuesCurrent
<1>. QED BY <1>2, <1>4, <1>5 DEF IInv

(* The kept queues are current, and each process has waited within its      *)
(* turns (scheduler).                                                       *)
THEOREM Invariance == Spec => []IInv
<1>1. IInv /\ [Next]_vars => IInv'
  BY TypeStep, QueuesStep, ServedStep, LevelsStep, TurnsStep DEF IInv
<1>. QED BY <1>1, IInvInit, PTL DEF Spec

-----------------------------------------------------------------------------
(* What follows *)

LEMMA WaitsAreBounded == IInv => WaitBounded
<1>. SUFFICES ASSUME IInv, NEW p \in Proc, NEW l \in Level
              PROVE  wait[p][l] <= IF l # priority[p] THEN 0
                                   ELSE IF l = TopLevel THEN (NPROC - 1) * ticks[TopLevel]
                                   ELSE Factor * ticks[l] - 1
  BY DEF WaitBounded
<1>1. wait[p][l] \in Nat /\ priority[p] \in Level /\ ticks[TopLevel] \in Nat \ {0} /\ TopLevel \in Level
  BY LevelFacts, SliceFacts DEF IInv, TypeOK
<1>2. CASE l # priority[p]
  BY <1>2 DEF IInv, Levels
<1>3. CASE l = priority[p] /\ l # TopLevel
  BY <1>1, <1>3, SliceFacts DEF IInv, Levels
<1>4. CASE l = priority[p] /\ l = TopLevel
  <2>. DEFINE Others == Proc \ {p}
              bound == ticks[TopLevel] * Cardinality(Others)
  <2>1. bound = (NPROC - 1) * ticks[TopLevel] /\ bound \in Nat
    <3>1. Cardinality(Others) = NPROC - 1 /\ Cardinality(Others) \in Nat
      BY ProcFacts, FS_RemoveElement, ProcAssumption
    <3>2. \A t, n \in Nat : t * n = n * t /\ t * n \in Nat
      OBVIOUS
    <3>. QED BY <1>1, <3>1, <3>2
  <2>2. CASE wait[p][TopLevel] = 0
    BY <1>4, <2>1, <2>2
  <2>3. CASE wait[p][TopLevel] > 0 /\ ~InSlice
    <3>1. wait[p][TopLevel] <= ticks[TopLevel] * Cardinality(Later(p))
      BY <1>4, <2>3 DEF IInv, Turns
    <3>2. Later(p) \in SUBSET Others
      BY DEF Later
    <3>3. ticks[TopLevel] * Cardinality(Later(p)) <= bound /\ ticks[TopLevel] * Cardinality(Later(p)) \in Nat
      BY <1>1, <3>2, Allowed
    <3>. HIDE DEF bound
    <3>. QED BY <1>1, <1>4, <2>1, <3>1, <3>3
  <2>4. CASE wait[p][TopLevel] > 0 /\ InSlice
    <3>1. wait[p][TopLevel] <= ticks[TopLevel] * Cardinality(Later(p) \ {proc}) + done[proc][TopLevel]
      BY <1>4, <2>4 DEF IInv, Turns
    <3>2. proc \in Others /\ done[proc][TopLevel] \in Nat /\ done[proc][TopLevel] < ticks[TopLevel]
      <4>1. proc \in Proc
        BY <2>4 DEF InSlice, IInv, TypeOK
      <4>2. wait[proc][TopLevel] = 0
        BY <1>1, <4>1 DEF IInv, Served
      <4>. QED BY <1>1, <2>4, <4>1, <4>2 DEF IInv, TypeOK
    <3>3. bound = ticks[TopLevel] * Cardinality(Others \ {proc}) + ticks[TopLevel]
      BY <1>1, <3>2, OneMore
    <3>4. (Later(p) \ {proc}) \in SUBSET (Others \ {proc})
      BY DEF Later
    <3>5. /\ ticks[TopLevel] * Cardinality(Later(p) \ {proc}) <= ticks[TopLevel] * Cardinality(Others \ {proc})
          /\ ticks[TopLevel] * Cardinality(Later(p) \ {proc}) \in Nat
          /\ ticks[TopLevel] * Cardinality(Others \ {proc}) \in Nat
      BY <1>1, <3>4, Allowed
    <3>. HIDE DEF bound
    <3>. QED BY <1>1, <1>4, <2>1, <3>1, <3>2, <3>3, <3>5
  <2>. QED BY <1>1, <1>4, <2>2, <2>3, <2>4
<1>. QED BY <1>2, <1>3, <1>4

(* The queues that scheduler() keeps from an earlier pass lead to the       *)
(* process that ran last, and a process that waits is promoted in time, or  *)
(* runs at the top level after one slice of each of the others.             *)
THEOREM QueuesCorrect == Spec => []QueuesSound
<1>1. IInv => QueuesSound
  BY WaitsAreBounded DEF IInv, QueuesSound
<1>. QED BY <1>1, Invariance, PTL

(* scheduler() never dispatches a process while one of a higher level is    *)
(* RUNNABLE, whether or not it filled its queues again.                     *)
THEOREM PriorityRespected == Spec => HighestFirst
<1>1. IInv /\ [Next]_vars =>
        [InScheduler /\ ~InScheduler' => \A q \in Runnable : priority[q] <= priority[proc']]_vars
  <2>. SUFFICES ASSUME IInv, [Next]_vars, InScheduler, ~InScheduler', NEW q \in Runnable
                PROVE  priority[q] <= priority[proc'] \/ UNCHANGED vars
    OBVIOUS
  <2>1. ASSUME NEW p \in Proc, Dispatch(p) PROVE priority[q] <= priority[proc']
    BY <2>1, ChosenFacts DEF Dispatch, IInv
  <2>2. ASSUME NEW p \in Proc, Step(p) PROVE FALSE
    <3>1. proc' = proc
      BY <2>2, StepQuiet DEF IInv, Quiet
    <3>2. proc # NoProc /\ state'[proc] = "RUNNING" /\ state[proc] # "RUNNING" /\ proc \in Proc
      BY <3>1 DEF InScheduler, IInv, TypeOK
    <3>. QED BY <2>2, <3>2, StepQuiet DEF IInv, Quiet
  <2>. QED BY <2>1, <2>2 DEF Next
<1>. QED BY <1>1, Invariance, PTL DEF Spec, HighestFirst

-----------------------------------------------------------------------------
(* The heap of 2a: the list without a block, and with one more.                *)

LEMMA MinIn ==
  ASSUME NEW S \in SUBSET Nat, S # {}
  PROVE  Min(S) \in S /\ \A x \in S : Min(S) <= x
<1>. DEFINE R == OpToRel(<, Nat)
<1>1. \E x \in S : \A y \in S : ~(<<y, x>> \in R)
  BY NatLessThanWellFounded, WFMin
<1>2. \A x, y \in Nat : <<y, x>> \in R <=> y < x
  BY DEF OpToRel
<1>. HIDE DEF R
<1>3. PICK x \in S : \A y \in S : ~(<<y, x>> \in R)
  BY <1>1
<1>4. ASSUME NEW y \in S PROVE x <= y
  <2>1. x \in Nat /\ y \in Nat
    OBVIOUS
  <2>2. ~(y < x)
    BY <2>1, <1>2, <1>3, Zenon
  <2>. QED BY <2>1, <2>2
<1>. QED BY <1>4 DEF Min

Block == [at : Nat, size : Nat]

LEMMA RemoveAtFacts ==
  ASSUME NEW S, NEW c \in Seq(S), NEW i \in 1 .. Len(c)
  PROVE  /\ RemoveAt(c, i) \in Seq(S) /\ Len(c) \in Nat
         /\ Len(RemoveAt(c, i)) = Len(c) - 1
         /\ \A j \in 1 .. Len(c) - 1 : RemoveAt(c, i)[j] = IF j < i THEN c[j] ELSE c[j + 1]
<1>. DEFINE a == SubSeq(c, 1, i - 1)
            z == SubSeq(c, i + 1, Len(c))
<1>1. PICK n \in Nat : n = Len(c) /\ i \in 1 .. n /\ \A j \in 1 .. n : c[j] \in S
  BY LenProperties
<1>2. a \in Seq(S) /\ Len(a) = i - 1 /\ \A j \in 1 .. i - 1 : a[j] = c[j]
  <2>1. 1 \in Int /\ i - 1 \in Int /\ \A j \in 1 .. i - 1 : c[j] \in S
    BY <1>1
  <2>2. /\ a \in Seq(S) /\ Len(a) = IF 1 <= i - 1 THEN (i - 1) - 1 + 1 ELSE 0
        /\ \A j \in 1 .. (i - 1) - 1 + 1 : a[j] = c[1 + j - 1]
    BY <2>1, SubSeqProperties
  <2>. HIDE DEF a
  <2>3. (i - 1) - 1 + 1 = i - 1 /\ \A j \in 1 .. i - 1 : 1 + j - 1 = j
    BY <1>1
  <2>4. Len(a) = i - 1
    BY <2>2, <2>3, <1>1
  <2>. QED BY <2>2, <2>3, <2>4
<1>3. z \in Seq(S) /\ Len(z) = n - i /\ \A j \in 1 .. n - i : z[j] = c[i + j]
  <2>1. i + 1 \in Int /\ n \in Int /\ \A j \in i + 1 .. n : c[j] \in S
    BY <1>1
  <2>2. /\ z \in Seq(S) /\ Len(z) = IF i + 1 <= n THEN n - (i + 1) + 1 ELSE 0
        /\ \A j \in 1 .. n - (i + 1) + 1 : z[j] = c[i + 1 + j - 1]
    BY <2>1, <1>1, SubSeqProperties
  <2>. HIDE DEF z
  <2>3. n - (i + 1) + 1 = n - i /\ \A j \in 1 .. n - i : i + 1 + j - 1 = i + j
    BY <1>1
  <2>4. i \in Int /\ n \in Int /\ i <= n /\ Len(z) = IF i + 1 <= n THEN n - (i + 1) + 1 ELSE 0
    BY <2>2, <1>1
  <2>5. Len(z) = n - i
    BY <2>4
  <2>. QED BY <2>2, <2>3, <2>5
<1>. HIDE DEF a, z
<1>4. /\ a \o z \in Seq(S) /\ Len(a \o z) = Len(a) + Len(z)
      /\ \A j \in 1 .. Len(a) + Len(z) : (a \o z)[j] = IF j <= Len(a) THEN a[j] ELSE z[j - Len(a)]
  BY <1>2, <1>3, ConcatProperties
<1>5. RemoveAt(c, i) = a \o z
  BY DEF RemoveAt, a, z
<1>6. ASSUME NEW j \in 1 .. n - 1 PROVE (a \o z)[j] = IF j < i THEN c[j] ELSE c[j + 1]
  <2>1. Len(a) = i - 1 /\ j \in 1 .. Len(a) + Len(z)
    BY <1>1, <1>2, <1>3
  <2>2. (a \o z)[j] = IF j <= i - 1 THEN a[j] ELSE z[j - (i - 1)]
    BY <2>1, <1>4
  <2>3. CASE j < i
    <3>1. j <= i - 1 /\ j \in 1 .. i - 1
      BY <2>3, <1>1
    <3>. QED BY <3>1, <2>2, <2>3, <1>2
  <2>4. CASE ~(j < i)
    <3>1. j - (i - 1) \in 1 .. n - i /\ i + (j - (i - 1)) = j + 1 /\ ~(j <= i - 1)
      BY <2>4, <1>1
    <3>2. z[j - (i - 1)] = c[i + (j - (i - 1))]
      BY <3>1, <1>3
    <3>. QED BY <3>1, <3>2, <2>2, <2>4
  <2>. QED BY <2>3, <2>4
<1>7. Len(a) + Len(z) = n - 1
  BY <1>1, <1>2, <1>3
<1>. QED BY <1>1, <1>4, <1>5, <1>6, <1>7

LEMMA InsertAtFacts ==
  ASSUME NEW c \in Seq(Block), NEW e \in Block, NEW i \in 1 .. Len(c) + 1
  PROVE  /\ InsertAt(c, i, e) \in Seq(Block) /\ Len(c) \in Nat
         /\ Len(InsertAt(c, i, e)) = Len(c) + 1
         /\ \A j \in 1 .. Len(c) + 1 : InsertAt(c, i, e)[j] = IF j < i THEN c[j] ELSE IF j = i THEN e ELSE c[j - 1]
<1>. DEFINE a == SubSeq(c, 1, i - 1)
            z == SubSeq(c, i, Len(c))
<1>1. PICK n \in Nat : n = Len(c) /\ i \in 1 .. n + 1 /\ \A j \in 1 .. n : c[j] \in Block
  BY LenProperties
<1>2. a \in Seq(Block) /\ Len(a) = i - 1 /\ \A j \in 1 .. i - 1 : a[j] = c[j]
  <2>1. 1 \in Int /\ i - 1 \in Int /\ \A j \in 1 .. i - 1 : c[j] \in Block
    BY <1>1
  <2>2. /\ a \in Seq(Block) /\ Len(a) = IF 1 <= i - 1 THEN (i - 1) - 1 + 1 ELSE 0
        /\ \A j \in 1 .. (i - 1) - 1 + 1 : a[j] = c[1 + j - 1]
    BY <2>1, SubSeqProperties
  <2>. HIDE DEF a
  <2>3. (i - 1) - 1 + 1 = i - 1 /\ \A j \in 1 .. i - 1 : 1 + j - 1 = j
    BY <1>1
  <2>4. Len(a) = i - 1
    BY <2>2, <2>3, <1>1
  <2>. QED BY <2>2, <2>3, <2>4
<1>3. z \in Seq(Block) /\ Len(z) = n - i + 1 /\ \A j \in 1 .. n - i + 1 : z[j] = c[i + j - 1]
  <2>1. i \in Int /\ n \in Int /\ \A j \in i .. n : c[j] \in Block
    BY <1>1
  <2>2. /\ z \in Seq(Block) /\ Len(z) = IF i <= n THEN n - i + 1 ELSE 0
        /\ \A j \in 1 .. n - i + 1 : z[j] = c[i + j - 1]
    BY <2>1, <1>1, SubSeqProperties
  <2>. HIDE DEF z
  <2>3. Len(z) = n - i + 1
    BY <2>2, <1>1
  <2>. QED BY <2>2, <2>3
<1>. HIDE DEF a, z
<1>4. <<e>> \in Seq(Block) /\ Len(<<e>>) = 1 /\ <<e>>[1] = e
  OBVIOUS
<1>. DEFINE b == a \o <<e>>
<1>5. b \in Seq(Block) /\ Len(b) = i /\ \A j \in 1 .. i : b[j] = IF j < i THEN c[j] ELSE e
  <2>1. /\ b \in Seq(Block) /\ Len(b) = Len(a) + Len(<<e>>)
        /\ \A j \in 1 .. Len(a) + Len(<<e>>) : b[j] = IF j <= Len(a) THEN a[j] ELSE <<e>>[j - Len(a)]
    BY <1>2, <1>4, ConcatProperties
  <2>2. Len(a) + Len(<<e>>) = i
    BY <1>1, <1>2, <1>4
  <2>3. ASSUME NEW j \in 1 .. i PROVE b[j] = IF j < i THEN c[j] ELSE e
    <3>1. b[j] = IF j <= i - 1 THEN a[j] ELSE <<e>>[j - (i - 1)]
      BY <2>1, <2>2, <1>2
    <3>2. CASE j < i
      <4>1. j <= i - 1 /\ j \in 1 .. i - 1
        BY <3>2, <1>1
      <4>. QED BY <4>1, <3>1, <3>2, <1>2
    <3>3. CASE ~(j < i)
      <4>1. ~(j <= i - 1) /\ j - (i - 1) = 1
        BY <3>3, <1>1
      <4>. QED BY <4>1, <3>1, <3>3, <1>4
    <3>. QED BY <3>2, <3>3
  <2>. QED BY <2>1, <2>2, <2>3
<1>. HIDE DEF b
<1>6. /\ b \o z \in Seq(Block) /\ Len(b \o z) = Len(b) + Len(z)
      /\ \A j \in 1 .. Len(b) + Len(z) : (b \o z)[j] = IF j <= Len(b) THEN b[j] ELSE z[j - Len(b)]
  BY <1>3, <1>5, ConcatProperties
<1>7. InsertAt(c, i, e) = b \o z
  BY DEF InsertAt, a, b, z
<1>8. Len(b) + Len(z) = n + 1
  BY <1>1, <1>3, <1>5
<1>9. ASSUME NEW j \in 1 .. n + 1 PROVE (b \o z)[j] = IF j < i THEN c[j] ELSE IF j = i THEN e ELSE c[j - 1]
  <2>1. (b \o z)[j] = IF j <= i THEN b[j] ELSE z[j - i]
    BY <1>5, <1>6, <1>8
  <2>2. CASE j <= i
    <3>1. j \in 1 .. i /\ (j < i \/ j = i)
      BY <2>2, <1>1
    <3>. QED BY <3>1, <2>1, <2>2, <1>5
  <2>3. CASE ~(j <= i)
    <3>1. j - i \in 1 .. n - i + 1 /\ i + (j - i) - 1 = j - 1 /\ ~(j < i) /\ j # i
      BY <2>3, <1>1
    <3>2. z[j - i] = c[i + (j - i) - 1]
      BY <3>1, <1>3
    <3>. QED BY <3>1, <3>2, <2>1, <2>3
  <2>. QED BY <2>2, <2>3
<1>. QED BY <1>1, <1>6, <1>7, <1>8, <1>9

(* The list c tiles a region of size top.                                      *)
EndIn(c, top, i) == IF i < Len(c) THEN c[i + 1].at ELSE top
Room(c, top, i) == EndIn(c, top, i) - (c[i].at + NodeSize)
Laid(c, top) ==
    /\ c \in Seq(Block) /\ Len(c) > 0 /\ c[1].at = 0
    /\ top \in Nat /\ top % 8 = 0
    /\ \A i \in 1 .. Len(c) :
          /\ c[i].at % 8 = 0 /\ c[i].at + NodeSize <= EndIn(c, top, i)
          /\ c[i].size # 0 => c[i].size = Room(c, top, i)
    /\ \A i, j \in 1 .. Len(c) : i < j => c[i].at + NodeSize <= c[j].at

(* The pairs of free neighbours, and the allocated blocks with their room.     *)
Pairs(c) == {k \in 1 .. Len(c) - 1 : c[k].size # 0 /\ c[k + 1].size # 0}
UsedBlocks(c) == {k \in 1 .. Len(c) : c[k].size = 0}
Used(c, top) == {<<c[k].at + NodeSize, Room(c, top, k)>> : k \in UsedBlocks(c)}

(* The free blocks k and k + 1 as one.                                         *)
Joined(c, k) == RemoveAt([c EXCEPT ![k].size = @ + c[k + 1].size + NodeSize], k + 1)

LEMMA JoinedFacts ==
  ASSUME NEW top, NEW c, Laid(c, top), NEW k \in Pairs(c)
  PROVE  /\ Joined(c, k) \in Seq(Block) /\ Len(c) \in Nat /\ Len(Joined(c, k)) = Len(c) - 1 /\ k \in 1 .. Len(c) - 1
         /\ \A j \in 1 .. Len(c) - 1 : Joined(c, k)[j] =
               IF j < k THEN c[j]
               ELSE IF j = k THEN [at |-> c[k].at, size |-> c[k].size + c[k + 1].size + NodeSize]
               ELSE c[j + 1]
<1>. DEFINE b == [c EXCEPT ![k].size = @ + c[k + 1].size + NodeSize]
<1>1. PICK n \in Nat : n = Len(c) /\ c \in [1 .. n -> Block] /\ k \in 1 .. n /\ k + 1 \in 1 .. n /\ k \in 1 .. n - 1
  BY LenProperties DEF Laid, Pairs
<1>2. c[k] \in Block /\ c[k + 1] \in Block /\ NodeSize \in Nat
  BY <1>1, HeapAssumption
<1>3. /\ b \in [1 .. n -> Block] /\ \A j \in 1 .. n : j # k => b[j] = c[j]
      /\ b[k] = [at |-> c[k].at, size |-> c[k].size + c[k + 1].size + NodeSize]
  <2>1. b = [c EXCEPT ![k] = [at |-> c[k].at, size |-> c[k].size + c[k + 1].size + NodeSize]]
    <3>1. \A v \in Nat : [c[k] EXCEPT !.size = v] = [at |-> c[k].at, size |-> v]
      BY <1>2 DEF Block
    <3>2. c[k].size + c[k + 1].size + NodeSize \in Nat
      BY <1>2 DEF Block
    <3>3. b = [c EXCEPT ![k] = [c[k] EXCEPT !.size = c[k].size + c[k + 1].size + NodeSize]]
      BY <1>1
    <3>. QED BY <3>1, <3>2, <3>3
  <2>2. [at |-> c[k].at, size |-> c[k].size + c[k + 1].size + NodeSize] \in Block
    BY <1>2 DEF Block
  <2>. QED BY <2>1, <2>2, <1>1
<1>. HIDE DEF b
<1>4. b \in Seq(Block) /\ Len(b) = n
  <2>1. b \in [1 .. n -> Block]
    BY <1>3
  <2>. QED BY <2>1, <1>1
<1>5. /\ RemoveAt(b, k + 1) \in Seq(Block) /\ Len(RemoveAt(b, k + 1)) = Len(b) - 1
      /\ \A j \in 1 .. Len(b) - 1 : RemoveAt(b, k + 1)[j] = IF j < k + 1 THEN b[j] ELSE b[j + 1]
  <2>1. k + 1 \in 1 .. Len(b)
    BY <1>1, <1>4
  <2>. QED BY <2>1, <1>4, RemoveAtFacts
<1>6. Joined(c, k) = RemoveAt(b, k + 1)
  BY DEF Joined, b
<1>7. ASSUME NEW j \in 1 .. n - 1
      PROVE  RemoveAt(b, k + 1)[j] =
               IF j < k THEN c[j]
               ELSE IF j = k THEN [at |-> c[k].at, size |-> c[k].size + c[k + 1].size + NodeSize]
               ELSE c[j + 1]
  <2>1. RemoveAt(b, k + 1)[j] = IF j < k + 1 THEN b[j] ELSE b[j + 1]
    BY <1>4, <1>5
  <2>2. j \in 1 .. n /\ j + 1 \in 1 .. n /\ (j < k => j < k + 1 /\ j # k) /\ (j = k => j < k + 1)
        /\ (~(j < k) /\ j # k => ~(j < k + 1) /\ j + 1 # k)
    BY <1>1
  <2>. QED BY <2>1, <2>2, <1>3
<1>. QED BY <1>1, <1>4, <1>5, <1>6, <1>7

(* The blocks and ends of a list, as numbers.                                  *)
LEMMA LaidFacts ==
  ASSUME NEW top, NEW c, Laid(c, top)
  PROVE  /\ Len(c) \in Nat /\ top \in Nat /\ NodeSize \in Nat /\ NodeSize > 0
         /\ \A i \in 1 .. Len(c) : /\ c[i] \in Block /\ c[i].at \in Nat /\ c[i].size \in Nat
                                   /\ EndIn(c, top, i) \in Nat /\ Room(c, top, i) \in Nat
                                   /\ EndIn(c, top, i) = c[i].at + NodeSize + Room(c, top, i)
<1>1. PICK n \in Nat : n = Len(c) /\ \A i \in 1 .. n : c[i] \in Block
  BY LenProperties DEF Laid
<1>2. NodeSize \in Nat /\ NodeSize > 0 /\ top \in Nat
  BY HeapAssumption DEF Laid
<1>3. ASSUME NEW i \in 1 .. n
      PROVE  /\ c[i] \in Block /\ c[i].at \in Nat /\ c[i].size \in Nat
             /\ EndIn(c, top, i) \in Nat /\ Room(c, top, i) \in Nat
             /\ EndIn(c, top, i) = c[i].at + NodeSize + Room(c, top, i)
  <2>1. c[i] \in Block /\ c[i].at \in Nat /\ c[i].size \in Nat
    BY <1>1 DEF Block
  <2>2. EndIn(c, top, i) \in Nat
    <3>1. CASE i < Len(c)
      <4>1. i + 1 \in 1 .. n
        BY <1>1, <3>1
      <4>. QED BY <4>1, <3>1, <1>1 DEF EndIn, Block
    <3>2. CASE ~(i < Len(c))
      BY <3>2, <1>2 DEF EndIn
    <3>. QED BY <3>1, <3>2
  <2>3. c[i].at + NodeSize <= EndIn(c, top, i)
    BY <1>1 DEF Laid
  <2>. QED BY <2>1, <2>2, <2>3, <1>2 DEF Room
<1>. QED BY <1>1, <1>2, <1>3

LEMMA JoinLaid ==
  ASSUME NEW top, NEW c, Laid(c, top), NEW k \in Pairs(c)
  PROVE  /\ Laid(Joined(c, k), top) /\ Used(Joined(c, k), top) = Used(c, top)
         /\ \A j \in Pairs(Joined(c, k)) : (IF j < k THEN j ELSE j + 1) \in Pairs(c) \ {k}
<1>1. PICK d : d = Joined(c, k)
  OBVIOUS
<1>2. PICK n \in Nat : n = Len(c)
  BY LaidFacts
<1>3. /\ d \in Seq(Block) /\ Len(d) = n - 1 /\ k \in 1 .. n - 1
      /\ \A j \in 1 .. n - 1 : d[j] =
            IF j < k THEN c[j]
            ELSE IF j = k THEN [at |-> c[k].at, size |-> c[k].size + c[k + 1].size + NodeSize]
            ELSE c[j + 1]
  <2>1. /\ Joined(c, k) \in Seq(Block) /\ Len(Joined(c, k)) = Len(c) - 1 /\ k \in 1 .. Len(c) - 1
        /\ \A j \in 1 .. Len(c) - 1 : Joined(c, k)[j] =
              IF j < k THEN c[j]
              ELSE IF j = k THEN [at |-> c[k].at, size |-> c[k].size + c[k + 1].size + NodeSize]
              ELSE c[j + 1]
    BY JoinedFacts
  <2>. QED BY <1>1, <1>2, <2>1
<1>. DEFINE src(j) == IF j < k THEN j ELSE j + 1
<1>4. \A j \in 1 .. n - 1 : /\ src(j) \in 1 .. n /\ src(j) # k /\ (j # k => src(j) # k + 1) /\ (j = k => src(j) = k + 1)
                            /\ j \in 1 .. n /\ k \in 1 .. n /\ k + 1 \in 1 .. n
  BY <1>2, <1>3
<1>5. \A j \in 1 .. n - 1 : /\ d[j].at = IF j = k THEN c[k].at ELSE c[src(j)].at
                            /\ d[j].size = IF j = k THEN c[k].size + c[k + 1].size + NodeSize ELSE c[src(j)].size
  BY <1>3
<1>6. /\ top \in Nat /\ NodeSize \in Nat /\ NodeSize > 0
      /\ \A i \in 1 .. n : /\ c[i].at \in Nat /\ c[i].size \in Nat
                           /\ EndIn(c, top, i) \in Nat /\ Room(c, top, i) \in Nat
                           /\ EndIn(c, top, i) = c[i].at + NodeSize + Room(c, top, i)
  BY <1>2, LaidFacts
<1>7. \A j \in 1 .. n - 1 : EndIn(d, top, j) = EndIn(c, top, src(j))
  <2>1. SUFFICES ASSUME NEW j \in 1 .. n - 1 PROVE EndIn(d, top, j) = EndIn(c, top, src(j))
    OBVIOUS
  <2>2. CASE j < n - 1
    <3>1. j + 1 \in 1 .. n - 1 /\ j < Len(d) /\ src(j) < Len(c)
      BY <2>2, <1>2, <1>3
    <3>2. EndIn(d, top, j) = d[j + 1].at /\ EndIn(c, top, src(j)) = c[src(j) + 1].at
      BY <3>1 DEF EndIn
    <3>3. d[j + 1].at = IF j + 1 = k THEN c[k].at ELSE c[src(j + 1)].at
      BY <3>1, <1>5
    <3>4. CASE j + 1 = k
      <4>1. src(j) + 1 = k
        BY <3>4, <1>3, <3>1
      <4>. QED BY <4>1, <3>2, <3>3, <3>4
    <3>5. CASE j + 1 # k
      <4>1. src(j + 1) = src(j) + 1
        BY <3>5, <1>3, <3>1
      <4>. QED BY <4>1, <3>2, <3>3, <3>5
    <3>. QED BY <3>4, <3>5
  <2>3. CASE j = n - 1
    <3>1. ~(j < Len(d)) /\ ~(src(j) < Len(c))
      BY <2>3, <1>2, <1>3
    <3>. QED BY <3>1 DEF EndIn
  <2>. QED BY <2>2, <2>3
<1>8. c[k].size # 0 /\ c[k + 1].size # 0 /\ c[k].size = Room(c, top, k) /\ c[k + 1].size = Room(c, top, k + 1)
      /\ EndIn(c, top, k) = c[k + 1].at
  <2>1. c[k].size # 0 /\ c[k + 1].size # 0 /\ k < Len(c)
    BY <1>2, <1>3 DEF Pairs
  <2>. QED BY <2>1, <1>2, <1>3, <1>4 DEF Laid, EndIn
<1>9. Room(d, top, k) = c[k].size + c[k + 1].size + NodeSize
  <2>1. EndIn(d, top, k) = EndIn(c, top, k + 1) /\ d[k].at = c[k].at
    BY <1>3, <1>5, <1>7
  <2>2. k \in 1 .. n /\ k + 1 \in 1 .. n
    BY <1>3, <1>4
  <2>3. Room(d, top, k) = EndIn(c, top, k + 1) - (c[k].at + NodeSize)
    BY <2>1 DEF Room
  <2>. HIDE DEF src
  <2>4. EndIn(c, top, k + 1) = c[k].at + NodeSize + c[k].size + NodeSize + c[k + 1].size
    <3>1. EndIn(c, top, k + 1) = c[k + 1].at + NodeSize + Room(c, top, k + 1) /\ c[k + 1].at = c[k].at + NodeSize + Room(c, top, k)
      BY <2>2, <1>6, <1>8
    <3>. QED BY <3>1, <2>2, <1>6, <1>8
  <2>5. c[k].at \in Nat /\ c[k].size \in Nat /\ c[k + 1].size \in Nat /\ NodeSize \in Nat
    BY <2>2, <1>6
  <2>. QED BY <2>3, <2>4, <2>5
<1>10. \A j \in 1 .. n - 1 : j # k => Room(d, top, j) = Room(c, top, src(j))
  BY <1>5, <1>7 DEF Room
<1>11. \A j \in 1 .. n - 1 : d[j].size = 0 <=> c[src(j)].size = 0 /\ j # k
  <2>1. c[k].size + c[k + 1].size + NodeSize # 0
    <3>1. k \in 1 .. n /\ k + 1 \in 1 .. n
      BY <1>3
    <3>2. c[k].size \in Nat /\ c[k + 1].size \in Nat
      BY <3>1, <1>6
    <3>. QED BY <3>2, <1>6
  <2>2. c[src(k)].size # 0
    BY <1>3, <1>8
  <2>. QED BY <2>1, <2>2, <1>5
<1>12. Laid(d, top)
  <2>1. Len(d) > 0 /\ 1 \in 1 .. n - 1 /\ n \in Nat
    BY <1>3
  <2>2. d[1].at = 0
    <3>1. c[1].at = 0
      BY DEF Laid
    <3>2. CASE k = 1
      BY <3>1, <3>2, <2>1, <1>5
    <3>3. CASE k # 1
      <4>1. src(1) = 1
        BY <3>3, <1>3
      <4>. QED BY <4>1, <3>1, <3>3, <2>1, <1>5
    <3>. QED BY <3>2, <3>3
  <2>3. ASSUME NEW j \in 1 .. n - 1
        PROVE  d[j].at % 8 = 0 /\ d[j].at + NodeSize <= EndIn(d, top, j) /\ (d[j].size # 0 => d[j].size = Room(d, top, j))
    <3>1. src(j) \in 1 .. n /\ j \in 1 .. n /\ k \in 1 .. n /\ k + 1 \in 1 .. n
      BY <1>4
    <3>2. CASE j = k
      <4>1. d[k].at = c[k].at /\ d[k].size = Room(d, top, k) /\ EndIn(d, top, k) = d[k].at + NodeSize + Room(d, top, k)
        <5>1. EndIn(d, top, k) = EndIn(c, top, k + 1)
          BY <1>3, <1>7
        <5>2. d[k].at = c[k].at /\ d[k].size = Room(d, top, k)
          BY <1>3, <1>5, <1>9
        <5>. HIDE DEF src
        <5>3. EndIn(c, top, k + 1) \in Nat /\ c[k].at \in Nat /\ NodeSize \in Nat
          BY <3>1, <1>6
        <5>4. Room(d, top, k) = EndIn(c, top, k + 1) - (c[k].at + NodeSize)
          BY <5>1, <5>2 DEF Room
        <5>. QED BY <5>1, <5>2, <5>3, <5>4
      <4>2. c[k].at % 8 = 0
        BY <3>1, <1>2 DEF Laid
      <4>3. Room(d, top, k) \in Nat /\ c[k].at \in Nat
        BY <3>1, <1>6, <1>9
      <4>. QED BY <4>1, <4>2, <4>3, <3>2, <1>6
    <3>3. CASE j # k
      <4>1. d[j].at = c[src(j)].at /\ d[j].size = c[src(j)].size /\ EndIn(d, top, j) = EndIn(c, top, src(j))
            /\ Room(d, top, j) = Room(c, top, src(j))
        BY <3>3, <1>5, <1>7, <1>10
      <4>2. /\ c[src(j)].at % 8 = 0 /\ c[src(j)].at + NodeSize <= EndIn(c, top, src(j))
            /\ c[src(j)].size # 0 => c[src(j)].size = Room(c, top, src(j))
        BY <3>1, <1>2 DEF Laid
      <4>. QED BY <4>1, <4>2
    <3>. QED BY <3>2, <3>3
  <2>4. ASSUME NEW i \in 1 .. n - 1, NEW j \in 1 .. n - 1, i < j PROVE d[i].at + NodeSize <= d[j].at
    <3>. DEFINE a == IF i = k THEN k ELSE src(i)
                b == IF j = k THEN k ELSE src(j)
    <3>1. a \in 1 .. n /\ b \in 1 .. n /\ a < b
      BY <2>4, <1>3
    <3>2. d[i].at = c[a].at /\ d[j].at = c[b].at
      BY <1>5
    <3>. HIDE DEF a, b
    <3>. QED BY <3>1, <3>2, <1>2 DEF Laid
  <2>5. top \in Nat /\ top % 8 = 0
    BY DEF Laid
  <2>. QED BY <2>1, <2>2, <2>3, <2>4, <2>5, <1>3 DEF Laid
<1>13. Used(d, top) = Used(c, top)
  <2>1. ASSUME NEW j \in UsedBlocks(d) PROVE \E i \in UsedBlocks(c) : c[i].at = d[j].at /\ Room(c, top, i) = Room(d, top, j)
    <3>1. j \in 1 .. n - 1 /\ d[j].size = 0
      BY <1>3 DEF UsedBlocks
    <3>2. src(j) \in UsedBlocks(c) /\ j # k
      BY <3>1, <1>2, <1>4, <1>11 DEF UsedBlocks
    <3>. QED BY <3>1, <3>2, <1>5, <1>10
  <2>2. ASSUME NEW i \in UsedBlocks(c) PROVE \E j \in UsedBlocks(d) : c[i].at = d[j].at /\ Room(c, top, i) = Room(d, top, j)
    <3>1. i \in 1 .. n /\ c[i].size = 0 /\ i # k /\ i # k + 1
      BY <1>2, <1>8 DEF UsedBlocks
    <3>2. PICK j \in 1 .. n - 1 : j = IF i < k THEN i ELSE i - 1
      BY <3>1, <1>3
    <3>3. src(j) = i /\ j # k
      BY <3>1, <3>2, <1>3
    <3>4. j \in UsedBlocks(d)
      BY <3>1, <3>3, <1>3, <1>11 DEF UsedBlocks
    <3>. QED BY <3>3, <3>4, <1>5, <1>10
  <2>. QED BY <2>1, <2>2 DEF Used
<1>14. ASSUME NEW j \in Pairs(d) PROVE src(j) \in Pairs(c) \ {k}
  <2>1. n - 1 \in Nat /\ j \in 1 .. n - 2 /\ d[j].size # 0 /\ d[j + 1].size # 0
    BY <1>3 DEF Pairs
  <2>2. j \in 1 .. n - 1 /\ j + 1 \in 1 .. n - 1 /\ src(j) \in 1 .. n - 1 /\ src(j) # k
    BY <2>1, <1>3
  <2>3. c[src(j)].size # 0
    BY <2>1, <2>2, <1>8, <1>11
  <2>4. c[src(j) + 1].size # 0
    <3>1. CASE j + 1 = k
      <4>1. src(j) + 1 = k
        BY <3>1, <2>1, <1>3
      <4>. QED BY <4>1, <1>8
    <3>2. CASE j + 1 # k
      <4>1. src(j + 1) = src(j) + 1
        BY <3>2, <2>1, <1>3
      <4>2. c[src(j + 1)].size # 0
        BY <2>1, <2>2, <3>2, <1>11
      <4>. QED BY <4>1, <4>2
    <3>. QED BY <3>1, <3>2
  <2>. QED BY <2>2, <2>3, <2>4, <1>2 DEF Pairs
<1>. QED BY <1>1, <1>12, <1>13, <1>14

(* The list with the size of its i-th block changed to v.                      *)
Resized(c, i, v) == [c EXCEPT ![i].size = v]

LEMMA ResizeFacts ==
  ASSUME NEW c \in Seq(Block), NEW i \in 1 .. Len(c), NEW v \in Nat
  PROVE  /\ Resized(c, i, v) \in Seq(Block) /\ Len(Resized(c, i, v)) = Len(c)
         /\ \A j \in 1 .. Len(c) : /\ Resized(c, i, v)[j].at = c[j].at
                                   /\ Resized(c, i, v)[j].size = IF j = i THEN v ELSE c[j].size
<1>1. PICK n \in Nat : n = Len(c) /\ c \in [1 .. n -> Block] /\ i \in 1 .. n
  BY LenProperties
<1>2. PICK d : d = Resized(c, i, v)
  OBVIOUS
<1>3. [c[i] EXCEPT !.size = v] = [at |-> c[i].at, size |-> v] /\ [at |-> c[i].at, size |-> v] \in Block
  <2>1. c[i] \in Block
    BY <1>1
  <2>. QED BY <2>1 DEF Block
<1>4. d = [c EXCEPT ![i] = [c[i] EXCEPT !.size = v]]
  BY <1>1, <1>2 DEF Resized
<1>5. d = [c EXCEPT ![i] = [at |-> c[i].at, size |-> v]]
  BY <1>3, <1>4
<1>6. d \in [1 .. n -> Block]
  BY <1>1, <1>3, <1>5
<1>7. d \in Seq(Block) /\ Len(d) = n
  BY <1>1, <1>6
<1>8. \A j \in 1 .. n : d[j].at = c[j].at /\ d[j].size = IF j = i THEN v ELSE c[j].size
  BY <1>1, <1>5
<1>. QED BY <1>1, <1>2, <1>7, <1>8

(* Ends and room depend on addresses only.                                     *)
SameAts(c, d) == Len(d) = Len(c) /\ Len(c) \in Nat /\ \A j \in 1 .. Len(c) : d[j].at = c[j].at
LEMMA SameRoom ==
  ASSUME NEW c, NEW d, NEW top, SameAts(c, d)
  PROVE  \A j \in 1 .. Len(c) : EndIn(d, top, j) = EndIn(c, top, j) /\ Room(d, top, j) = Room(c, top, j)
<1>1. ASSUME NEW j \in 1 .. Len(c) PROVE EndIn(d, top, j) = EndIn(c, top, j)
  <2>1. j < Len(c) => j + 1 \in 1 .. Len(c)
    BY DEF SameAts
  <2>. QED BY <2>1 DEF EndIn, SameAts
<1>. QED BY <1>1 DEF Room, SameAts

(* An allocated block is free again.                                           *)
Untaken(c, top, i) == Resized(c, i, Room(c, top, i))

LEMMA UntakeLaid ==
  ASSUME NEW top, NEW c, Laid(c, top), NEW i \in UsedBlocks(c), Room(c, top, i) > 0, Pairs(c) = {},
         NEW d, d = Untaken(c, top, i)
  PROVE  /\ Laid(d, top) /\ Used(d, top) = Used(c, top) \ {<<c[i].at + NodeSize, Room(c, top, i)>>}
         /\ Pairs(d) \subseteq {i - 1, i} /\ Len(d) = Len(c)
         /\ d[i].size = Room(c, top, i) /\ \A j \in 1 .. Len(c) : j # i => d[j].size = c[j].size
<1>1. PICK n \in Nat : n = Len(c) /\ i \in 1 .. n /\ c[i].size = 0
  BY LaidFacts DEF UsedBlocks
<1>2. Room(c, top, i) > 0 /\ Pairs(c) = {}
  OBVIOUS
<1>3. /\ NodeSize \in Nat /\ NodeSize > 0
      /\ \A j \in 1 .. n : /\ c[j].at \in Nat /\ c[j].size \in Nat /\ Room(c, top, j) \in Nat
                           /\ EndIn(c, top, j) = c[j].at + NodeSize + Room(c, top, j)
  BY <1>1, LaidFacts
<1>4. d \in Seq(Block) /\ Len(d) = n /\ \A j \in 1 .. n : d[j].at = c[j].at /\ d[j].size = IF j = i THEN Room(c, top, i) ELSE c[j].size
  <2>1. c \in Seq(Block) /\ i \in 1 .. Len(c) /\ Room(c, top, i) \in Nat
    BY <1>1, <1>3 DEF Laid
  <2>. QED BY <2>1, <1>1, ResizeFacts DEF Untaken
<1>5. \A j \in 1 .. n : EndIn(d, top, j) = EndIn(c, top, j) /\ Room(d, top, j) = Room(c, top, j)
  <2>1. SameAts(c, d)
    BY <1>1, <1>4 DEF SameAts
  <2>2. \A j \in 1 .. Len(c) : EndIn(d, top, j) = EndIn(c, top, j) /\ Room(d, top, j) = Room(c, top, j)
    BY <2>1, SameRoom
  <2>. QED BY <2>2, <1>1
<1>6. Laid(d, top)
  <2>1. Len(d) > 0 /\ 1 \in 1 .. n /\ c[1].at = 0 /\ top \in Nat /\ top % 8 = 0
    BY <1>1, <1>4 DEF Laid
  <2>2. ASSUME NEW j \in 1 .. n
        PROVE  d[j].at % 8 = 0 /\ d[j].at + NodeSize <= EndIn(d, top, j) /\ (d[j].size # 0 => d[j].size = Room(d, top, j))
    <3>1. /\ c[j].at % 8 = 0 /\ c[j].at + NodeSize <= EndIn(c, top, j)
          /\ c[j].size # 0 => c[j].size = Room(c, top, j)
      BY <1>1 DEF Laid
    <3>. QED BY <3>1, <1>4, <1>5
  <2>3. \A j, k \in 1 .. n : j < k => d[j].at + NodeSize <= d[k].at
    BY <1>1, <1>4 DEF Laid
  <2>. QED BY <2>1, <2>2, <2>3, <1>4 DEF Laid
<1>7. UsedBlocks(d) = UsedBlocks(c) \ {i}
  BY <1>1, <1>3, <1>4 DEF UsedBlocks
<1>8. \A j \in UsedBlocks(c) \ {i} : c[j].at # c[i].at
  <2>1. SUFFICES ASSUME NEW j \in UsedBlocks(c) \ {i} PROVE c[j].at # c[i].at
    OBVIOUS
  <2>2. j \in 1 .. n /\ (j < i \/ i < j)
    BY <1>1 DEF UsedBlocks
  <2>3. c[j].at + NodeSize <= c[i].at \/ c[i].at + NodeSize <= c[j].at
    BY <2>2, <1>1 DEF Laid
  <2>. QED BY <2>2, <2>3, <1>1, <1>3
<1>9. Used(d, top) = Used(c, top) \ {<<c[i].at + NodeSize, Room(c, top, i)>>}
  <2>1. \A j \in UsedBlocks(c) : d[j].at = c[j].at /\ Room(d, top, j) = Room(c, top, j) /\ c[j].at \in Nat
    BY <1>1, <1>3, <1>4, <1>5 DEF UsedBlocks
  <2>2. ASSUME NEW j \in UsedBlocks(c) \ {i} PROVE c[j].at + NodeSize # c[i].at + NodeSize
    <3>1. c[j].at \in Nat /\ c[i].at \in Nat /\ c[j].at # c[i].at
      BY <2>1, <1>1, <1>3, <1>8
    <3>. QED BY <3>1, <1>3
  <2>3. i \in UsedBlocks(c)
    OBVIOUS
  <2>4. Used(d, top) = {<<c[k].at + NodeSize, Room(c, top, k)>> : k \in UsedBlocks(c) \ {i}}
    BY <2>1, <1>7 DEF Used
  <2>5. ASSUME NEW u \in Used(c, top), u # <<c[i].at + NodeSize, Room(c, top, i)>> PROVE u \in Used(d, top)
    BY <2>4, <2>5 DEF Used
  <2>6. ASSUME NEW u \in Used(d, top) PROVE u \in Used(c, top) /\ u # <<c[i].at + NodeSize, Room(c, top, i)>>
    BY <2>2, <2>4 DEF Used
  <2>. QED BY <2>5, <2>6
<1>10. Pairs(d) \subseteq {i - 1, i}
  <2>1. ASSUME NEW k \in Pairs(d), k # i - 1, k # i PROVE FALSE
    <3>1. k \in 1 .. n - 1 /\ d[k].size # 0 /\ d[k + 1].size # 0
      BY <1>4 DEF Pairs
    <3>2. k \in 1 .. n /\ k + 1 \in 1 .. n /\ k # i /\ k + 1 # i
      BY <2>1, <3>1, <1>1
    <3>3. k \in Pairs(c)
      BY <3>1, <3>2, <1>1, <1>4 DEF Pairs
    <3>. QED BY <3>3
  <2>. QED BY <2>1
<1>. QED BY <1>1, <1>2, <1>4, <1>6, <1>9, <1>10

(* mem_free: the block and its free neighbours are one.                        *)
LEMMA FreedLaid ==
  ASSUME Laid(blocks, sumSize), NEW i \in UsedBlocks(blocks), Room(blocks, sumSize, i) > 0, Pairs(blocks) = {}
  PROVE  /\ Laid(Freed(i), sumSize) /\ Pairs(Freed(i)) = {}
         /\ Used(Freed(i), sumSize) = Used(blocks, sumSize) \ {<<Ptr(i), Room(blocks, sumSize, i)>>}
<1>1. PICK n \in Nat : n = Len(blocks) /\ i \in 1 .. n
  BY LaidFacts DEF UsedBlocks
<1>2. Payload(i) = Room(blocks, sumSize, i)
  BY DEF Payload, End, Ptr, Room, EndIn
<1>3. PICK loose : loose = [blocks EXCEPT ![i].size = Payload(i)]
  OBVIOUS
<1>4. /\ Laid(loose, sumSize) /\ Used(loose, sumSize) = Used(blocks, sumSize) \ {<<Ptr(i), Room(blocks, sumSize, i)>>}
      /\ Pairs(loose) \subseteq {i - 1, i} /\ Len(loose) = n
      /\ loose[i].size = Payload(i) /\ Payload(i) # 0 /\ \A j \in 1 .. n : j # i => loose[j].size = blocks[j].size
  <2>1. Room(blocks, sumSize, i) # 0
    OBVIOUS
  <2>2. loose = Untaken(blocks, sumSize, i)
    BY <1>2, <1>3 DEF Untaken, Resized
  <2>3. /\ Laid(loose, sumSize)
        /\ Used(loose, sumSize) = Used(blocks, sumSize) \ {<<blocks[i].at + NodeSize, Room(blocks, sumSize, i)>>}
        /\ Pairs(loose) \subseteq {i - 1, i} /\ Len(loose) = Len(blocks) /\ loose[i].size = Room(blocks, sumSize, i)
        /\ \A j \in 1 .. Len(blocks) : j # i => loose[j].size = blocks[j].size
    BY <2>2, UntakeLaid
  <2>. QED BY <2>1, <2>3, <1>1, <1>2 DEF Ptr
<1>. DEFINE inFront == i > 1 /\ blocks[i - 1].size # 0
            joined == IF inFront THEN RemoveAt([loose EXCEPT ![i - 1].size = @ + Payload(i) + NodeSize], i) ELSE loose
            late == IF inFront THEN i - 1 ELSE i
<1>5. Freed(i) = IF late < Len(joined) /\ joined[late + 1].size # 0
                 THEN RemoveAt([joined EXCEPT ![late].size = @ + joined[late + 1].size + NodeSize], late + 1)
                 ELSE joined
  BY <1>3 DEF Freed
<1>6. /\ Laid(joined, sumSize) /\ Used(joined, sumSize) = Used(loose, sumSize) /\ Pairs(joined) \subseteq {late}
      /\ late \in 1 .. Len(joined) /\ joined[late].size # 0
  <2>1. CASE inFront
    <3>1. i - 1 \in 1 .. n - 1 /\ (i - 1) + 1 = i /\ i - 1 # i /\ i - 1 \in 1 .. n
      BY <2>1, <1>1
    <3>2. i - 1 \in Pairs(loose)
      <4>1. loose[i - 1].size # 0 /\ loose[(i - 1) + 1].size # 0
        BY <2>1, <3>1, <1>4
      <4>. QED BY <4>1, <3>1, <1>4 DEF Pairs
    <3>3. joined = Joined(loose, i - 1)
      BY <2>1, <3>1, <1>4 DEF Joined
    <3>4. /\ Laid(joined, sumSize) /\ Used(joined, sumSize) = Used(loose, sumSize)
          /\ \A j \in Pairs(joined) : (IF j < i - 1 THEN j ELSE j + 1) \in Pairs(loose) \ {i - 1}
      <4>1. PICK k \in Pairs(loose) : k = i - 1
        BY <3>2
      <4>2. Laid(loose, sumSize)
        BY <1>4
      <4>3. /\ Laid(Joined(loose, k), sumSize) /\ Used(Joined(loose, k), sumSize) = Used(loose, sumSize)
            /\ \A j \in Pairs(Joined(loose, k)) : (IF j < k THEN j ELSE j + 1) \in Pairs(loose) \ {k}
        BY <4>2, JoinLaid
      <4>. QED BY <4>1, <4>3, <3>3
    <3>5. ASSUME NEW j \in Pairs(joined) PROVE j = i - 1
      <4>1. j \in Int
        BY DEF Pairs
      <4>2. (IF j < i - 1 THEN j ELSE j + 1) = i
        BY <3>4, <1>4
      <4>. QED BY <4>1, <4>2, <1>1
    <3>6. Len(joined) = n - 1 /\ joined[i - 1].size # 0
      <4>1. PICK k \in Pairs(loose) : k = i - 1
        BY <3>2
      <4>2. /\ Len(Joined(loose, k)) = n - 1 /\ k \in 1 .. n - 1
            /\ Joined(loose, k)[k] = [at |-> loose[k].at, size |-> loose[k].size + loose[k + 1].size + NodeSize]
        <5>1. /\ Len(Joined(loose, k)) = Len(loose) - 1 /\ k \in 1 .. Len(loose) - 1
              /\ \A j \in 1 .. Len(loose) - 1 : Joined(loose, k)[j] =
                    IF j < k THEN loose[j]
                    ELSE IF j = k THEN [at |-> loose[k].at, size |-> loose[k].size + loose[k + 1].size + NodeSize]
                    ELSE loose[j + 1]
          <6>1. Laid(loose, sumSize)
            BY <1>4
          <6>. QED BY <6>1, JoinedFacts
        <5>. QED BY <5>1, <1>1, <1>4
      <4>3. loose[k].size \in Nat /\ loose[k + 1].size \in Nat /\ NodeSize \in Nat /\ NodeSize > 0
        <5>1. k \in 1 .. Len(loose) /\ k + 1 \in 1 .. Len(loose)
          BY <4>2, <1>1, <1>4
        <5>. QED BY <5>1, <1>4, LaidFacts
      <4>. QED BY <4>1, <4>2, <4>3, <3>3
    <3>. QED BY <2>1, <3>1, <3>4, <3>5, <3>6
  <2>2. CASE ~inFront
    <3>1. ASSUME i - 1 \in Pairs(loose) PROVE FALSE
      <4>1. i - 1 \in 1 .. n - 1 /\ loose[i - 1].size # 0
        BY <3>1, <1>4 DEF Pairs
      <4>2. i > 1 /\ i - 1 \in 1 .. n /\ i - 1 # i
        BY <4>1, <1>1
      <4>. QED BY <4>1, <4>2, <2>2, <1>4
    <3>. QED BY <3>1, <2>2, <1>1, <1>4
  <2>. QED BY <2>1, <2>2
<1>. HIDE DEF joined, late, inFront
<1>7. PICK m \in Nat : m = Len(joined) /\ late \in 1 .. m
  BY <1>6, LaidFacts
<1>8. CASE late < Len(joined) /\ joined[late + 1].size # 0
  <2>1. late \in Pairs(joined)
    BY <1>6, <1>7, <1>8 DEF Pairs
  <2>2. Freed(i) = Joined(joined, late)
    BY <1>5, <1>8 DEF Joined
  <2>3. /\ Laid(Freed(i), sumSize) /\ Used(Freed(i), sumSize) = Used(joined, sumSize)
        /\ \A j \in Pairs(Freed(i)) : (IF j < late THEN j ELSE j + 1) \in Pairs(joined) \ {late}
    BY <2>1, <2>2, <1>6, JoinLaid
  <2>. QED BY <2>3, <1>4, <1>6
<1>9. CASE ~(late < Len(joined) /\ joined[late + 1].size # 0)
  <2>1. Freed(i) = joined
    BY <1>5, <1>9
  <2>2. late \notin Pairs(joined)
    BY <1>7, <1>9 DEF Pairs
  <2>. QED BY <2>1, <2>2, <1>4, <1>6
<1>. QED BY <1>8, <1>9

(* No two blocks have one address.                                             *)
LEMMA ApartAddresses ==
  ASSUME NEW top, NEW c, Laid(c, top)
  PROVE  \A i, j \in 1 .. Len(c) : i # j => c[i].at + NodeSize # c[j].at + NodeSize
<1>1. PICK n \in Nat : n = Len(c) /\ NodeSize \in Nat /\ NodeSize > 0 /\ \A i \in 1 .. n : c[i].at \in Nat
  BY LaidFacts
<1>2. SUFFICES ASSUME NEW i \in 1 .. n, NEW j \in 1 .. n, i # j PROVE c[i].at + NodeSize # c[j].at + NodeSize
  BY <1>1
<1>3. i < j \/ j < i
  BY <1>1, <1>2
<1>4. c[i].at + NodeSize <= c[j].at \/ c[j].at + NodeSize <= c[i].at
  BY <1>1, <1>3 DEF Laid
<1>. QED BY <1>1, <1>4

(* A free block is allocated, whole.                                           *)
Whole(c, t) == Resized(c, t, 0)
LEMMA WholeLaid ==
  ASSUME NEW top, NEW c, Laid(c, top), NEW t \in 1 .. Len(c), c[t].size # 0, Pairs(c) = {},
         NEW d, d = Whole(c, t)
  PROVE  /\ Laid(d, top) /\ Used(d, top) = Used(c, top) \cup {<<c[t].at + NodeSize, Room(c, top, t)>>}
         /\ Pairs(d) = {} /\ Len(d) = Len(c) /\ d[t].at = c[t].at /\ d[t].size = 0 /\ Room(d, top, t) = Room(c, top, t)
         /\ t < Len(c) => d[t + 1].size = 0
<1>1. PICK n \in Nat : n = Len(c) /\ t \in 1 .. n /\ c[t].size # 0 /\ Pairs(c) = {}
  BY LaidFacts
<1>2. c \in Seq(Block) /\ 0 \in Nat
  BY DEF Laid
<1>3. d \in Seq(Block) /\ Len(d) = n /\ \A j \in 1 .. n : d[j].at = c[j].at /\ d[j].size = IF j = t THEN 0 ELSE c[j].size
  <2>1. c \in Seq(Block) /\ t \in 1 .. Len(c) /\ 0 \in Nat
    BY <1>1, <1>2
  <2>. QED BY <2>1, <1>1, ResizeFacts DEF Whole
<1>4. \A j \in 1 .. n : EndIn(d, top, j) = EndIn(c, top, j) /\ Room(d, top, j) = Room(c, top, j)
  <2>1. SameAts(c, d)
    BY <1>1, <1>3 DEF SameAts
  <2>2. \A j \in 1 .. Len(c) : EndIn(d, top, j) = EndIn(c, top, j) /\ Room(d, top, j) = Room(c, top, j)
    BY <2>1, SameRoom
  <2>. QED BY <2>2, <1>1
<1>5. Laid(d, top)
  <2>1. Len(d) > 0 /\ 1 \in 1 .. n /\ c[1].at = 0 /\ top \in Nat /\ top % 8 = 0
    BY <1>1, <1>3 DEF Laid
  <2>2. ASSUME NEW j \in 1 .. n
        PROVE  d[j].at % 8 = 0 /\ d[j].at + NodeSize <= EndIn(d, top, j) /\ (d[j].size # 0 => d[j].size = Room(d, top, j))
    <3>1. /\ c[j].at % 8 = 0 /\ c[j].at + NodeSize <= EndIn(c, top, j)
          /\ c[j].size # 0 => c[j].size = Room(c, top, j)
      BY <1>1 DEF Laid
    <3>. QED BY <3>1, <1>3, <1>4
  <2>3. \A j, k \in 1 .. n : j < k => d[j].at + NodeSize <= d[k].at
    BY <1>1, <1>3 DEF Laid
  <2>. QED BY <2>1, <2>2, <2>3, <1>3 DEF Laid
<1>6. UsedBlocks(d) = UsedBlocks(c) \cup {t}
  BY <1>1, <1>3 DEF UsedBlocks
<1>7. Used(d, top) = Used(c, top) \cup {<<c[t].at + NodeSize, Room(c, top, t)>>}
  <2>1. \A j \in UsedBlocks(c) \cup {t} : d[j].at = c[j].at /\ Room(d, top, j) = Room(c, top, j)
    BY <1>1, <1>3, <1>4 DEF UsedBlocks
  <2>2. Used(d, top) = {<<c[k].at + NodeSize, Room(c, top, k)>> : k \in UsedBlocks(c) \cup {t}}
    BY <2>1, <1>6 DEF Used
  <2>. QED BY <2>2 DEF Used
<1>8. Pairs(d) = {}
  <2>1. ASSUME NEW k \in Pairs(d) PROVE FALSE
    <3>1. k \in 1 .. n - 1 /\ d[k].size # 0 /\ d[k + 1].size # 0 /\ k \in 1 .. n /\ k + 1 \in 1 .. n
      BY <1>3, <1>1 DEF Pairs
    <3>2. k \in Pairs(c)
      BY <3>1, <1>1, <1>3 DEF Pairs
    <3>. QED BY <3>2, <1>1
  <2>. QED BY <2>1
<1>9. t < n => d[t + 1].size = 0
  <2>1. SUFFICES ASSUME t < n PROVE d[t + 1].size = 0
    OBVIOUS
  <2>2. t \in 1 .. n - 1 /\ t + 1 \in 1 .. n /\ t + 1 # t
    BY <2>1, <1>1
  <2>3. c[t + 1].size = 0
    BY <2>2, <1>1 DEF Pairs
  <2>. QED BY <2>2, <2>3, <1>3
<1>. QED BY <1>1, <1>3, <1>4, <1>5, <1>7, <1>8, <1>9

(* What an allocated block does not need is a free block behind it.            *)
Remainder(c, top, t, n) == [at |-> c[t].at + NodeSize + n, size |-> Room(c, top, t) - (n + NodeSize)]
LEMMA SplitLaid ==
  ASSUME NEW top, NEW c, Laid(c, top), NEW t \in UsedBlocks(c), NEW n \in Nat, n % 8 = 0, Room(c, top, t) > n + NodeSize,
         Pairs(c) = {}, t < Len(c) => c[t + 1].size = 0,
         NEW d, d = InsertAt(c, t + 1, Remainder(c, top, t, n))
  PROVE  /\ Laid(d, top) /\ Pairs(d) = {}
         /\ Used(d, top) = (Used(c, top) \ {<<c[t].at + NodeSize, Room(c, top, t)>>}) \cup {<<c[t].at + NodeSize, n>>}
<1>1. PICK m \in Nat : m = Len(c) /\ t \in 1 .. m /\ t + 1 \in 1 .. m + 1 /\ c[t].size = 0
  BY LaidFacts DEF UsedBlocks
<1>2. /\ top \in Nat /\ NodeSize \in Nat /\ NodeSize > 0
      /\ \A i \in 1 .. m : /\ c[i].at \in Nat /\ c[i].size \in Nat
                           /\ EndIn(c, top, i) \in Nat /\ Room(c, top, i) \in Nat
                           /\ EndIn(c, top, i) = c[i].at + NodeSize + Room(c, top, i)
  BY <1>1, LaidFacts
<1>3. PICK e \in Block : e = Remainder(c, top, t, n)
  <2>1. Room(c, top, t) \in Nat /\ c[t].at \in Nat /\ Room(c, top, t) > n + NodeSize
    BY <1>1, <1>2
  <2>. QED BY <2>1, <1>2 DEF Remainder, Block
<1>4. e.at = c[t].at + NodeSize + n /\ e.size = Room(c, top, t) - (n + NodeSize)
  BY <1>3 DEF Remainder
<1>5. e.size \in Nat /\ e.size # 0 /\ e.at \in Nat /\ EndIn(c, top, t) = e.at + NodeSize + e.size
  <2>1. Room(c, top, t) \in Nat /\ c[t].at \in Nat /\ Room(c, top, t) > n + NodeSize
        /\ EndIn(c, top, t) = c[t].at + NodeSize + Room(c, top, t)
    BY <1>1, <1>2
  <2>2. \A x, r, z : x \in Nat /\ r \in Nat /\ r > n + NodeSize /\ z = x + NodeSize + r =>
           /\ r - (n + NodeSize) \in Nat /\ r - (n + NodeSize) # 0 /\ x + NodeSize + n \in Nat
           /\ z = (x + NodeSize + n) + NodeSize + (r - (n + NodeSize))
    BY <1>2
  <2>. QED BY <2>1, <2>2, <1>4
<1>6. /\ d \in Seq(Block) /\ Len(d) = m + 1
      /\ \A j \in 1 .. m + 1 : d[j] = IF j < t + 1 THEN c[j] ELSE IF j = t + 1 THEN e ELSE c[j - 1]
  <2>1. c \in Seq(Block) /\ t + 1 \in 1 .. Len(c) + 1
    BY <1>1 DEF Laid
  <2>2. PICK q \in 1 .. Len(c) + 1 : q = t + 1
    BY <2>1
  <2>3. /\ InsertAt(c, q, e) \in Seq(Block) /\ Len(InsertAt(c, q, e)) = Len(c) + 1
        /\ \A j \in 1 .. Len(c) + 1 : InsertAt(c, q, e)[j] = IF j < q THEN c[j] ELSE IF j = q THEN e ELSE c[j - 1]
    <3>1. c \in Seq(Block) /\ e \in Block /\ q \in 1 .. Len(c) + 1
      BY <2>1
    <3>2. InsertAt(c, q, e) \in Seq(Block) /\ Len(InsertAt(c, q, e)) = Len(c) + 1
      BY <3>1, InsertAtFacts
    <3>3. ASSUME NEW j \in 1 .. Len(c) + 1
          PROVE  InsertAt(c, q, e)[j] = IF j < q THEN c[j] ELSE IF j = q THEN e ELSE c[j - 1]
      BY <3>1, InsertAtFacts
    <3>. QED BY <3>2, <3>3
  <2>4. d = InsertAt(c, q, e)
    BY <1>3, <2>2
  <2>. QED BY <2>2, <2>3, <2>4, <1>1
<1>. DEFINE src(j) == IF j < t + 1 THEN j ELSE j - 1
<1>7. \A j \in 1 .. m + 1 : j # t + 1 => src(j) \in 1 .. m /\ d[j] = c[src(j)]
  BY <1>1, <1>6
<1>8. d[t + 1] = e /\ t + 1 \in 1 .. m + 1 /\ d[t] = c[t] /\ t \in 1 .. m + 1
  BY <1>1, <1>6
<1>9. EndIn(d, top, t) = e.at /\ EndIn(d, top, t + 1) = EndIn(c, top, t)
  <2>1. t < Len(d) /\ EndIn(d, top, t) = e.at
    BY <1>1, <1>6, <1>8 DEF EndIn
  <2>2. CASE t < m
    <3>1. PICK q \in 1 .. m + 1 : q = (t + 1) + 1
      BY <2>2, <1>1
    <3>2. d[(t + 1) + 1] = c[t + 1] /\ t + 1 < Len(d)
      <4>1. ~(q < t + 1) /\ q # t + 1 /\ q - 1 = t + 1 /\ t + 1 < Len(d)
        BY <3>1, <2>2, <1>1, <1>6
      <4>. QED BY <3>1, <4>1, <1>6
    <3>. QED BY <3>2, <2>1, <2>2, <1>1 DEF EndIn
  <2>3. CASE ~(t < m)
    <3>1. ~(t + 1 < Len(d))
      BY <2>3, <1>1, <1>6
    <3>. QED BY <3>1, <2>1, <2>3, <1>1 DEF EndIn
  <2>. QED BY <2>1, <2>2, <2>3
<1>10. \A j \in 1 .. m + 1 : j # t /\ j # t + 1 => EndIn(d, top, j) = EndIn(c, top, src(j))
  <2>1. SUFFICES ASSUME NEW j \in 1 .. m + 1, j # t, j # t + 1 PROVE EndIn(d, top, j) = EndIn(c, top, src(j))
    OBVIOUS
  <2>2. CASE j < m + 1
    <3>1. j + 1 \in 1 .. m + 1 /\ j + 1 # t + 1 /\ src(j + 1) = src(j) + 1 /\ src(j) < m
      BY <2>1, <2>2, <1>1
    <3>2. d[j + 1] = c[src(j) + 1]
      BY <3>1, <1>7
    <3>. QED BY <3>1, <3>2, <2>2, <1>1, <1>6 DEF EndIn
  <2>3. CASE ~(j < m + 1)
    <3>1. ~(j < Len(d)) /\ ~(src(j) < Len(c))
      BY <2>1, <2>3, <1>1, <1>6
    <3>. QED BY <3>1 DEF EndIn
  <2>. QED BY <2>2, <2>3
<1>11. Room(d, top, t) = n /\ Room(d, top, t + 1) = e.size
  <2>1. Room(d, top, t) = e.at - (c[t].at + NodeSize) /\ Room(d, top, t + 1) = EndIn(c, top, t) - (e.at + NodeSize)
    BY <1>8, <1>9 DEF Room
  <2>2. c[t].at \in Nat
    BY <1>1, <1>2
  <2>3. \A x, y, z, w : x \in Nat /\ y = x + NodeSize + n /\ w \in Nat /\ z = y + NodeSize + w =>
           y - (x + NodeSize) = n /\ z - (y + NodeSize) = w
    BY <1>2
  <2>. QED BY <2>1, <2>2, <2>3, <1>4, <1>5
<1>12. \A j \in 1 .. m + 1 : j # t /\ j # t + 1 => Room(d, top, j) = Room(c, top, src(j))
  BY <1>7, <1>10 DEF Room
<1>13. Laid(d, top)
  <2>1. Len(d) > 0 /\ d[1].at = 0 /\ top \in Nat /\ top % 8 = 0
    <3>1. 1 \in 1 .. m + 1 /\ 1 # t + 1 /\ src(1) = 1
      BY <1>1
    <3>2. d[1] = c[1]
      BY <3>1, <1>7
    <3>. QED BY <3>2, <1>1, <1>6 DEF Laid
  <2>2. ASSUME NEW j \in 1 .. m + 1
        PROVE  d[j].at % 8 = 0 /\ d[j].at + NodeSize <= EndIn(d, top, j) /\ (d[j].size # 0 => d[j].size = Room(d, top, j))
    <3>1. c[t].at % 8 = 0 /\ c[t].at \in Nat /\ NodeSize % 8 = 0
      BY <1>1, <1>2, HeapAssumption DEF Laid
    <3>2. CASE j = t
      <4>1. c[t].at + NodeSize <= e.at
        BY <3>1, <1>2, <1>4
      <4>. QED BY <4>1, <3>1, <3>2, <1>1, <1>8, <1>9
    <3>3. CASE j = t + 1
      <4>1. e.at % 8 = 0
        <5>1. \A x, y \in Nat : x % 8 = 0 /\ y % 8 = 0 => (x + y) % 8 = 0 /\ x + y \in Nat
          OBVIOUS
        <5>2. n % 8 = 0 /\ n \in Nat
          OBVIOUS
        <5>3. (c[t].at + NodeSize) % 8 = 0 /\ c[t].at + NodeSize \in Nat
          BY <5>1, <3>1, <1>2
        <5>4. (c[t].at + NodeSize + n) % 8 = 0
          BY <5>1, <5>2, <5>3
        <5>. QED BY <5>4, <1>4
      <4>2. e.at + NodeSize <= EndIn(c, top, t)
        BY <1>2, <1>5
      <4>. QED BY <4>1, <4>2, <3>3, <1>8, <1>9, <1>11
    <3>4. CASE j # t /\ j # t + 1
      <4>1. /\ c[src(j)].at % 8 = 0 /\ c[src(j)].at + NodeSize <= EndIn(c, top, src(j))
            /\ c[src(j)].size # 0 => c[src(j)].size = Room(c, top, src(j))
        <5>1. src(j) \in 1 .. Len(c)
          BY <3>4, <1>1, <1>7
        <5>. HIDE DEF src
        <5>. QED BY <5>1 DEF Laid
      <4>. QED BY <4>1, <3>4, <1>7, <1>10, <1>12
    <3>. QED BY <3>2, <3>3, <3>4
  <2>3. ASSUME NEW i \in 1 .. m + 1, NEW j \in 1 .. m + 1, i < j PROVE d[i].at + NodeSize <= d[j].at
    <3>0. \A k, l \in 1 .. m : k < l => c[k].at + NodeSize <= c[l].at
      BY <1>1 DEF Laid
    <3>1. CASE i # t + 1 /\ j # t + 1
      <4>1. src(i) < src(j) /\ src(i) \in 1 .. m /\ src(j) \in 1 .. m
        BY <2>3, <3>1, <1>1
      <4>. QED BY <4>1, <3>0, <3>1, <1>7
    <3>2. CASE j = t + 1
      <4>1. i \in 1 .. m /\ d[i] = c[i] /\ (i < t \/ i = t)
        BY <2>3, <3>2, <1>1, <1>6
      <4>2. c[i].at \in Nat /\ c[t].at \in Nat /\ (c[i].at + NodeSize <= c[t].at \/ c[i].at = c[t].at)
        BY <4>1, <3>0, <1>1, <1>2
      <4>3. \A x, y, z : x \in Nat /\ y \in Nat /\ (x + NodeSize <= y \/ x = y) /\ z = y + NodeSize + n => x + NodeSize <= z
        BY <1>2
      <4>. QED BY <4>1, <4>2, <4>3, <3>2, <1>4, <1>8
    <3>3. CASE i = t + 1
      <4>1. j - 1 \in 1 .. m /\ d[j] = c[j - 1] /\ t < m /\ (t + 1 < j - 1 \/ t + 1 = j - 1) /\ t + 1 \in 1 .. m
        BY <2>3, <3>3, <1>1, <1>6
      <4>2. EndIn(c, top, t) = c[t + 1].at /\ c[t + 1].at \in Nat /\ c[j - 1].at \in Nat
        BY <4>1, <1>1, <1>2 DEF EndIn
      <4>3. c[t + 1].at + NodeSize <= c[j - 1].at \/ c[t + 1].at = c[j - 1].at
        BY <4>1, <3>0
      <4>4. \A x, y, z, w : x \in Nat /\ y \in Nat /\ (x + NodeSize <= y \/ x = y) /\ z \in Nat /\ w \in Nat
                              /\ x = z + NodeSize + w
               => z + NodeSize <= y
        BY <1>2
      <4>. QED BY <4>1, <4>2, <4>3, <4>4, <3>3, <1>5, <1>8
    <3>. QED BY <3>1, <3>2, <3>3
  <2>. QED BY <2>1, <2>2, <2>3, <1>6 DEF Laid
<1>14. Used(d, top) = (Used(c, top) \ {<<c[t].at + NodeSize, Room(c, top, t)>>}) \cup {<<c[t].at + NodeSize, n>>}
  <2>1. ASSUME NEW j \in UsedBlocks(d)
        PROVE  \/ d[j].at = c[t].at /\ Room(d, top, j) = n
               \/ \E i \in UsedBlocks(c) \ {t} : c[i].at = d[j].at /\ Room(c, top, i) = Room(d, top, j)
    <3>1. j \in 1 .. m + 1 /\ d[j].size = 0 /\ j # t + 1
      BY <1>5, <1>6, <1>8 DEF UsedBlocks
    <3>2. CASE j = t
      BY <3>2, <1>8, <1>11
    <3>3. CASE j # t
      <4>1. src(j) # t /\ src(j) \in UsedBlocks(c)
        BY <3>1, <3>3, <1>1, <1>7 DEF UsedBlocks
      <4>. QED BY <4>1, <3>1, <3>3, <1>7, <1>12
    <3>. QED BY <3>2, <3>3
  <2>2. ASSUME NEW i \in UsedBlocks(c), i # t
        PROVE  \E j \in UsedBlocks(d) : c[i].at = d[j].at /\ Room(c, top, i) = Room(d, top, j)
    <3>1. i \in 1 .. m /\ c[i].size = 0
      BY <1>1 DEF UsedBlocks
    <3>2. PICK j \in 1 .. m + 1 : j = IF i < t THEN i ELSE i + 1
      BY <3>1, <1>1
    <3>3. src(j) = i /\ j # t /\ j # t + 1
      BY <2>2, <3>1, <3>2, <1>1
    <3>4. j \in UsedBlocks(d)
      BY <3>1, <3>3, <1>6, <1>7 DEF UsedBlocks
    <3>. QED BY <3>3, <3>4, <1>7, <1>12
  <2>3. t \in UsedBlocks(d) /\ d[t].at = c[t].at /\ Room(d, top, t) = n
    BY <1>1, <1>6, <1>8, <1>11 DEF UsedBlocks
  <2>4. \A i \in UsedBlocks(c) : i # t => c[i].at + NodeSize # c[t].at + NodeSize
    BY <1>1, ApartAddresses DEF UsedBlocks
  <2>. DEFINE x == <<c[t].at + NodeSize, Room(c, top, t)>>
              y == <<c[t].at + NodeSize, n>>
  <2>5. ASSUME NEW u \in Used(d, top), u # y PROVE u \in Used(c, top) \ {x}
    <3>1. PICK j \in UsedBlocks(d) : u = <<d[j].at + NodeSize, Room(d, top, j)>>
      BY DEF Used
    <3>2. PICK i \in UsedBlocks(c) \ {t} : c[i].at = d[j].at /\ Room(c, top, i) = Room(d, top, j)
      BY <3>1, <2>1, <2>5
    <3>. QED BY <3>1, <3>2, <2>4 DEF Used
  <2>6. y \in Used(d, top)
    BY <2>3 DEF Used
  <2>7. ASSUME NEW u \in Used(c, top) \ {x} PROVE u \in Used(d, top)
    <3>1. PICK i \in UsedBlocks(c) : u = <<c[i].at + NodeSize, Room(c, top, i)>>
      BY DEF Used
    <3>2. i # t
      BY <3>1
    <3>3. PICK j \in UsedBlocks(d) : c[i].at = d[j].at /\ Room(c, top, i) = Room(d, top, j)
      BY <3>2, <2>2
    <3>. QED BY <3>1, <3>3 DEF Used
  <2>. HIDE DEF x, y
  <2>8. Used(d, top) = (Used(c, top) \ {x}) \cup {y}
    BY <2>5, <2>6, <2>7
  <2>. QED BY <2>8 DEF x, y
<1>15. Pairs(d) = {}
  <2>1. SUFFICES ASSUME NEW k \in Pairs(d) PROVE FALSE
    OBVIOUS
  <2>2. k \in 1 .. m /\ d[k].size # 0 /\ d[k + 1].size # 0 /\ k \in 1 .. m + 1 /\ k + 1 \in 1 .. m + 1
    BY <1>6 DEF Pairs
  <2>3. k # t
    BY <2>2, <1>1, <1>8
  <2>4. CASE k = t + 1
    <3>1. t < m /\ d[(t + 1) + 1] = c[t + 1]
      BY <2>2, <2>4, <1>1, <1>6
    <3>. QED BY <3>1, <2>2, <2>4, <1>1
  <2>5. CASE k # t + 1
    <3>1. src(k) \in 1 .. m - 1 /\ src(k + 1) = src(k) + 1 /\ k + 1 # t + 1
      BY <2>2, <2>3, <2>5, <1>1
    <3>2. c[src(k)].size # 0 /\ c[src(k) + 1].size # 0
      BY <2>2, <2>5, <3>1, <1>7
    <3>3. src(k) \in Pairs(c)
      BY <3>1, <3>2, <1>1 DEF Pairs
    <3>. QED BY <3>3
  <2>. QED BY <2>4, <2>5
<1>. QED BY <1>13, <1>14, <1>15

-----------------------------------------------------------------------------
(* The inductive invariant: it says of the list what Used and Pairs say.       *)
HeldBy(c, top, H) ==
    /\ \A h \in H : \E u \in Used(c, top) : u[1] = h.ptr /\ h.size <= u[2]
    /\ \A u \in Used(c, top) : \E h \in H : h.ptr = u[1]
    /\ \A g, h \in H : g.ptr = h.ptr => g = h

Fits(c, n) == \E i \in 1 .. Len(c) : c[i].size # 0 /\ n <= c[i].size

HeapInv ==
    /\ held \subseteq [ptr : Nat, size : AllocSizes]
    /\ refused \in AllocSizes \cup {0}
    /\ blocks = <<>> => held = {} /\ refused = 0
    /\ blocks # <<>> =>
          /\ Laid(blocks, sumSize) /\ Pairs(blocks) = {}
          /\ HeldBy(blocks, sumSize, held)
          /\ refused # 0 => ~Fits(blocks, refused)

LEMMA UsedFacts ==
  ASSUME NEW top, NEW c, Laid(c, top)
  PROVE  /\ \A u, w \in Used(c, top) : u[1] = w[1] => u = w
         /\ \A u \in Used(c, top) : u[1] \in Nat /\ u[2] \in Nat /\ u = <<u[1], u[2]>>
         /\ \A u \in Used(c, top) : \E i \in UsedBlocks(c) : u[1] = c[i].at + NodeSize /\ u[2] = Room(c, top, i)
         /\ \A i \in UsedBlocks(c) : i \in 1 .. Len(c) /\ <<c[i].at + NodeSize, Room(c, top, i)>> \in Used(c, top)
<1>1. \A i \in UsedBlocks(c) : i \in 1 .. Len(c)
  BY DEF UsedBlocks
<1>2. \A u \in Used(c, top) : \E i \in UsedBlocks(c) : u = <<c[i].at + NodeSize, Room(c, top, i)>>
  BY DEF Used
<1>3. \A i \in UsedBlocks(c) : c[i].at + NodeSize \in Nat /\ Room(c, top, i) \in Nat
  BY <1>1, LaidFacts
<1>4. \A u \in Used(c, top) : \E i \in UsedBlocks(c) : u[1] = c[i].at + NodeSize /\ u[2] = Room(c, top, i) /\ u = <<u[1], u[2]>>
  BY <1>2
<1>5. ASSUME NEW u \in Used(c, top), NEW w \in Used(c, top), u[1] = w[1] PROVE u = w
  <2>1. PICK i \in UsedBlocks(c) : u[1] = c[i].at + NodeSize /\ u[2] = Room(c, top, i) /\ u = <<u[1], u[2]>>
    BY <1>4
  <2>2. PICK j \in UsedBlocks(c) : w[1] = c[j].at + NodeSize /\ w[2] = Room(c, top, j) /\ w = <<w[1], w[2]>>
    BY <1>4
  <2>3. i = j
    BY <2>1, <2>2, <1>1, <1>5, ApartAddresses
  <2>. QED BY <2>1, <2>2, <2>3
<1>6. \A i \in UsedBlocks(c) : <<c[i].at + NodeSize, Room(c, top, i)>> \in Used(c, top)
  BY DEF Used
<1>. QED BY <1>1, <1>3, <1>4, <1>5, <1>6

(* Rounding up, to words or to pages.                                          *)
LEMMA RoundUpFacts ==
  ASSUME NEW n \in Nat, NEW k \in Nat \ {0}
  PROVE  RoundUp(n, k) \in Nat /\ RoundUp(n, k) >= n /\ \E q \in Nat : RoundUp(n, k) = q * k
<1>1. PICK q \in Nat, r \in Nat : n + k - 1 = q * k + r /\ r < k /\ q = (n + k - 1) \div k
  <2>1. n + k - 1 \in Nat
    OBVIOUS
  <2>2. \A x \in Nat : x \div k \in Nat /\ x % k \in 0 .. k - 1 /\ x = k * (x \div k) + (x % k)
    OBVIOUS
  <2>3. (n + k - 1) \div k \in Nat /\ (n + k - 1) % k \in 0 .. k - 1 /\ n + k - 1 = k * ((n + k - 1) \div k) + ((n + k - 1) % k)
    BY <2>1, <2>2
  <2>4. \A q \in Nat : k * q = q * k
    OBVIOUS
  <2>. QED BY <2>3, <2>4
<1>2. q * k \in Nat
  OBVIOUS
<1>3. RoundUp(n, k) = q * k
  BY <1>1 DEF RoundUp
<1>. QED BY <1>1, <1>2, <1>3

LEMMA Words ==
  ASSUME NEW n \in Nat
  PROVE  /\ RoundUp(n, 8) \in Nat /\ RoundUp(n, 8) >= n /\ RoundUp(n, 8) % 8 = 0
         /\ \A s \in Nat : s % 8 = 0 /\ n <= s => RoundUp(n, 8) <= s
BY DEF RoundUp

LEMMA RegionSize ==
  ASSUME NEW n \in RegionSizes
  PROVE  RoundUp(n, PageSize) \in Nat /\ RoundUp(n, PageSize) > NodeSize /\ RoundUp(n, PageSize) % 8 = 0
<1>1. n \in Nat /\ n > 0 /\ PageSize \in Nat \ {0} /\ PageSize % 8 = 0 /\ PageSize > NodeSize /\ NodeSize \in Nat
  BY HeapAssumption
<1>2. PICK q \in Nat : RoundUp(n, PageSize) = q * PageSize /\ RoundUp(n, PageSize) \in Nat /\ RoundUp(n, PageSize) >= n
  BY <1>1, RoundUpFacts
<1>3. q > 0
  <2>1. q = 0 => q * PageSize = 0
    BY <1>1
  <2>. QED BY <2>1, <1>1, <1>2
<1>4. q * PageSize >= PageSize
  BY <1>1, <1>3
<1>5. (q * PageSize) % 8 = 0
  <2>1. PICK m \in Nat : PageSize = 8 * m
    <3>1. \A x \in Nat : x % 8 = 0 => x = 8 * (x \div 8) /\ x \div 8 \in Nat
      OBVIOUS
    <3>. QED BY <3>1, <1>1
  <2>2. q * PageSize = 8 * (q * m) /\ q * m \in Nat
    BY <2>1
  <2>3. \A x \in Nat : (8 * x) % 8 = 0
    OBVIOUS
  <2>. QED BY <2>2, <2>3
<1>. QED BY <1>1, <1>2, <1>4, <1>5

LEMMA InitKeeps ==
  ASSUME HeapInv, NEW n \in RegionSizes, MemInit(n)
  PROVE  HeapInv'
<1>. DEFINE top == RoundUp(n, PageSize)
            b == [at |-> 0, size |-> top - NodeSize]
<1>1. held = {} /\ refused = 0 /\ held' = {} /\ refused' = 0 /\ sumSize' = top /\ blocks' = <<b>>
  BY DEF HeapInv, MemInit
<1>2. top \in Nat /\ top > NodeSize /\ top % 8 = 0 /\ NodeSize \in Nat
  BY RegionSize, HeapAssumption
<1>. HIDE DEF top
<1>3. b \in Block /\ b.at = 0 /\ b.size = top - NodeSize /\ b.size # 0
  BY <1>2 DEF Block
<1>. HIDE DEF b
<1>4. PICK c \in Seq(Block) : c = <<b>> /\ Len(c) = 1 /\ c[1] = b
  <2>1. b \in Block
    BY <1>3
  <2>2. <<b>> \in Seq(Block)
    BY <2>1
  <2>3. Len(<<b>>) = 1 /\ <<b>>[1] = b
    OBVIOUS
  <2>. QED BY <2>2, <2>3
<1>5. EndIn(c, top, 1) = top /\ Room(c, top, 1) = top - NodeSize
  BY <1>2, <1>3, <1>4 DEF EndIn, Room
<1>6. Laid(c, top)
  <2>1. \A i \in 1 .. Len(c) : i = 1
    BY <1>4
  <2>2. c[1].at % 8 = 0 /\ c[1].at + NodeSize <= EndIn(c, top, 1) /\ c[1].size = Room(c, top, 1)
    BY <1>2, <1>3, <1>4, <1>5
  <2>. QED BY <2>1, <2>2, <1>2, <1>3, <1>4 DEF Laid
<1>7. Pairs(c) = {} /\ UsedBlocks(c) = {}
  BY <1>3, <1>4 DEF Pairs, UsedBlocks
<1>8. HeldBy(c, top, {})
  BY <1>7 DEF HeldBy, Used
<1>9. c # <<>>
  BY <1>4
<1>. QED BY <1>1, <1>4, <1>6, <1>7, <1>8, <1>9 DEF HeapInv

(* No block is larger than the region.                                         *)
LEMMA SizesBounded ==
  ASSUME NEW top, NEW c, Laid(c, top)
  PROVE  \A i \in 1 .. Len(c) : c[i].size \in Nat /\ c[i].size <= top
<1>1. PICK n \in Nat : n = Len(c) /\ n \in 1 .. n
  BY LaidFacts DEF Laid
<1>2. /\ top \in Nat /\ NodeSize \in Nat
      /\ \A i \in 1 .. n : /\ c[i].at \in Nat /\ c[i].size \in Nat /\ Room(c, top, i) \in Nat
                           /\ EndIn(c, top, i) = c[i].at + NodeSize + Room(c, top, i)
  BY <1>1, LaidFacts
<1>3. EndIn(c, top, n) = top
  BY <1>1 DEF EndIn
<1>4. ASSUME NEW i \in 1 .. n PROVE c[i].size \in Nat /\ c[i].size <= top
  <2>1. EndIn(c, top, i) <= top
    <3>1. CASE i = n
      BY <3>1, <1>2, <1>3
    <3>2. CASE i < n
      <4>1. PICK j \in 1 .. n : j = i + 1
        BY <3>2
      <4>2. EndIn(c, top, i) = c[j].at
        BY <4>1, <3>2, <1>1 DEF EndIn
      <4>3. c[j].at = c[n].at \/ c[j].at + NodeSize <= c[n].at
        BY <4>1, <1>1 DEF Laid
      <4>4. top = c[n].at + NodeSize + Room(c, top, n)
        BY <1>1, <1>2, <1>3
      <4>5. c[j].at \in Nat /\ c[n].at \in Nat /\ Room(c, top, n) \in Nat
        BY <1>1, <1>2
      <4>. QED BY <4>2, <4>3, <4>4, <4>5, <1>2
    <3>. QED BY <3>1, <3>2
  <2>2. c[i].size = 0 \/ c[i].size = Room(c, top, i)
    BY <1>1 DEF Laid
  <2>3. c[i].at \in Nat /\ Room(c, top, i) \in Nat /\ EndIn(c, top, i) = c[i].at + NodeSize + Room(c, top, i) /\ c[i].size \in Nat
    BY <1>2
  <2>. QED BY <2>1, <2>2, <2>3, <1>2
<1>. QED BY <1>1, <1>4

LEMMA TargetFits ==
  ASSUME NEW n, NEW style, Fitting(n) # {}, Laid(blocks, sumSize)
  PROVE  Target(n, style) \in Fitting(n)
<1>1. Fitting(n) \in SUBSET Nat
  <2>1. PICK m \in Nat : DOMAIN blocks = 1 .. m
    BY DEF Laid
  <2>. QED BY <2>1 DEF Fitting
<1>2. sumSize \in Nat /\ \A i \in Fitting(n) : blocks[i].size \in Nat /\ blocks[i].size <= sumSize
  <2>1. \A i \in 1 .. Len(blocks) : blocks[i].size \in Nat /\ blocks[i].size <= sumSize
    BY SizesBounded
  <2>. QED BY <2>1 DEF Fitting, Laid
<1>. DEFINE best == {i \in Fitting(n) : \A j \in Fitting(n) : blocks[i].size <= blocks[j].size}
            worst == {i \in Fitting(n) : \A j \in Fitting(n) : blocks[i].size >= blocks[j].size}
<1>3. best # {}
  <2>. DEFINE S == {blocks[i].size : i \in Fitting(n)}
  <2>1. S \in SUBSET Nat /\ S # {}
    BY <1>2
  <2>2. Min(S) \in S /\ \A x \in S : Min(S) <= x
    <3>. HIDE DEF S
    <3>. QED BY <2>1, MinIn
  <2>3. PICK i \in Fitting(n) : \A j \in Fitting(n) : blocks[i].size <= blocks[j].size
    BY <2>2
  <2>. QED BY <2>3
<1>4. worst # {}
  <2>. DEFINE S == {sumSize - blocks[i].size : i \in Fitting(n)}
  <2>1. S \in SUBSET Nat /\ S # {}
    <3>1. ASSUME NEW i \in Fitting(n) PROVE sumSize - blocks[i].size \in Nat
      <4>1. PICK z \in Nat : z = blocks[i].size /\ z <= sumSize
        BY <1>2
      <4>. QED BY <4>1, <1>2
    <3>. QED BY <3>1
  <2>2. Min(S) \in S /\ \A x \in S : Min(S) <= x
    <3>. HIDE DEF S
    <3>. QED BY <2>1, MinIn
  <2>3. PICK i \in Fitting(n) : \A j \in Fitting(n) : sumSize - blocks[i].size <= sumSize - blocks[j].size
    BY <2>2
  <2>4. ASSUME NEW j \in Fitting(n) PROVE blocks[i].size >= blocks[j].size
    <3>1. blocks[i].size \in Nat /\ blocks[j].size \in Nat /\ sumSize - blocks[i].size <= sumSize - blocks[j].size
      BY <1>2, <2>3
    <3>. QED BY <3>1, <1>2
  <2>. QED BY <2>4
<1>5. best \in SUBSET Nat /\ worst \in SUBSET Nat
  BY <1>1
<1>6. Min(Fitting(n)) \in Fitting(n) /\ Min(best) \in best /\ Min(worst) \in worst
  <2>. HIDE DEF best, worst
  <2>. QED BY <1>1, <1>3, <1>4, <1>5, MinIn
<1>. QED BY <1>6 DEF Target, BestFit, WorstFit, FirstFit

(* What mem_alloc does to the list.                                            *)
LEMMA TakenLaid ==
  ASSUME Laid(blocks, sumSize), Pairs(blocks) = {}, NEW n \in Nat, n > 0, n % 8 = 0, NEW t \in Fitting(n)
  PROVE  /\ Laid(Taken(t, n), sumSize) /\ Pairs(Taken(t, n)) = {}
         /\ \E r \in Nat : n <= r /\ Used(Taken(t, n), sumSize) = Used(blocks, sumSize) \cup {<<Ptr(t), r>>}
         /\ t \in 1 .. Len(blocks) /\ blocks[t].size # 0
<1>1. t \in 1 .. Len(blocks) /\ n <= blocks[t].size
  <2>1. DOMAIN blocks = 1 .. Len(blocks)
    BY DEF Laid
  <2>. QED BY <2>1 DEF Fitting
<1>2. PICK r \in Nat : r = blocks[t].size
  BY <1>1, LaidFacts
<1>3. blocks[t].size # 0 /\ n <= r
  BY <1>1, <1>2
<1>4. Room(blocks, sumSize, t) = r
  BY <1>1, <1>2, <1>3 DEF Laid
<1>5. PICK d : d = Whole(blocks, t)
  OBVIOUS
<1>6. /\ Laid(d, sumSize) /\ Used(d, sumSize) = Used(blocks, sumSize) \cup {<<blocks[t].at + NodeSize, r>>}
      /\ Pairs(d) = {} /\ Len(d) = Len(blocks) /\ d[t].at = blocks[t].at /\ d[t].size = 0 /\ Room(d, sumSize, t) = r
      /\ t < Len(blocks) => d[t + 1].size = 0
  BY <1>1, <1>3, <1>4, <1>5, WholeLaid
<1>7. d = [blocks EXCEPT ![t].size = 0]
  BY <1>5 DEF Whole, Resized
<1>8. CASE ~Splits(t, n)
  <2>1. Taken(t, n) = d
    BY <1>7, <1>8 DEF Taken
  <2>. QED BY <2>1, <1>1, <1>3, <1>6 DEF Ptr
<1>9. CASE Splits(t, n)
  <2>1. r > n + NodeSize
    BY <1>2, <1>9 DEF Splits
  <2>2. Remainder(d, sumSize, t, n) = [at |-> Ptr(t) + n, size |-> blocks[t].size - (n + NodeSize)]
    BY <1>2, <1>6 DEF Remainder, Ptr
  <2>3. Taken(t, n) = InsertAt(d, t + 1, Remainder(d, sumSize, t, n))
    BY <2>2, <1>7, <1>9 DEF Taken
  <2>4. t \in UsedBlocks(d)
    BY <1>1, <1>6 DEF UsedBlocks
  <2>5. PICK e : e = InsertAt(d, t + 1, Remainder(d, sumSize, t, n))
    OBVIOUS
  <2>6. Room(d, sumSize, t) > n + NodeSize /\ (t < Len(d) => d[t + 1].size = 0)
    BY <2>1, <1>6
  <2>7. /\ Laid(e, sumSize) /\ Pairs(e) = {}
        /\ Used(e, sumSize) = (Used(d, sumSize) \ {<<d[t].at + NodeSize, Room(d, sumSize, t)>>}) \cup {<<d[t].at + NodeSize, n>>}
    BY <2>4, <2>5, <2>6, <1>6, SplitLaid
  <2>8. <<blocks[t].at + NodeSize, r>> \notin Used(blocks, sumSize)
    <3>1. t \notin UsedBlocks(blocks)
      BY <1>3 DEF UsedBlocks
    <3>2. ASSUME <<blocks[t].at + NodeSize, r>> \in Used(blocks, sumSize) PROVE FALSE
      <4>1. PICK u \in Used(blocks, sumSize) : u = <<blocks[t].at + NodeSize, r>> /\ u[1] = blocks[t].at + NodeSize
        BY <3>2
      <4>2. PICK i \in UsedBlocks(blocks) : blocks[t].at + NodeSize = blocks[i].at + NodeSize /\ i \in 1 .. Len(blocks)
        BY <4>1, UsedFacts
      <4>3. i = t
        BY <4>2, <1>1, ApartAddresses
      <4>. QED BY <4>2, <4>3, <3>1
    <3>. QED BY <3>2
  <2>9. Used(e, sumSize) = Used(blocks, sumSize) \cup {<<Ptr(t), n>>}
    BY <2>7, <2>8, <1>6 DEF Ptr
  <2>. QED BY <2>3, <2>5, <2>7, <2>9, <1>1, <1>3
<1>. QED BY <1>8, <1>9

(* A free block is a whole number of words.                                    *)
LEMMA FreeIsWords ==
  ASSUME NEW top, NEW c, Laid(c, top)
  PROVE  \A i \in 1 .. Len(c) : c[i].size \in Nat /\ c[i].size % 8 = 0
<1>1. PICK n \in Nat : n = Len(c) /\ n \in 1 .. n
  BY LaidFacts DEF Laid
<1>2. \A i \in 1 .. n : c[i].at \in Nat /\ c[i].size \in Nat /\ c[i].at % 8 = 0
  BY <1>1, LaidFacts DEF Laid
<1>3. top \in Nat /\ top % 8 = 0 /\ NodeSize \in Nat /\ NodeSize % 8 = 0
  BY HeapAssumption DEF Laid
<1>4. \A x, y, z \in Nat : x % 8 = 0 /\ y % 8 = 0 /\ z % 8 = 0 /\ x - (y + z) \in Nat => (x - (y + z)) % 8 = 0
  OBVIOUS
<1>5. ASSUME NEW i \in 1 .. n, c[i].size # 0 PROVE c[i].size % 8 = 0
  <2>1. c[i].size = EndIn(c, top, i) - (c[i].at + NodeSize)
    BY <1>1, <1>5 DEF Laid, Room
  <2>2. EndIn(c, top, i) \in Nat /\ EndIn(c, top, i) % 8 = 0
    <3>1. CASE i < n
      <4>1. i + 1 \in 1 .. n /\ EndIn(c, top, i) = c[i + 1].at
        BY <1>1, <3>1 DEF EndIn
      <4>. QED BY <4>1, <1>2
    <3>2. CASE ~(i < n)
      BY <1>1, <1>3, <3>2 DEF EndIn
    <3>. QED BY <3>1, <3>2
  <2>. QED BY <2>1, <2>2, <1>2, <1>3, <1>4
<1>. QED BY <1>1, <1>2, <1>5

LEMMA PairParts ==
  ASSUME NEW x, NEW y
  PROVE  \E w : w = <<x, y>> /\ w[1] = x /\ w[2] = y
<1>1. <<x, y>>[1] = x /\ <<x, y>>[2] = y
  OBVIOUS
<1>2. WITNESS <<x, y>>
<1>. QED BY <1>1

LEMMA AllocKeeps ==
  ASSUME 0 \notin AllocSizes, HeapInv, NEW ask \in AllocSizes, NEW style, MemAlloc(ask, style)
  PROVE  HeapInv'
<1>1. /\ blocks # <<>> /\ Laid(blocks, sumSize) /\ Pairs(blocks) = {}
      /\ HeldBy(blocks, sumSize, held) /\ held \subseteq [ptr : Nat, size : AllocSizes] /\ sumSize' = sumSize
  BY DEF HeapInv, MemAlloc
<1>2. PICK n \in Nat : n = RoundUp(ask, 8) /\ ask <= n /\ n % 8 = 0 /\ n > 0 /\ ask \in Nat /\ ask # 0
                       /\ \A s \in Nat : s % 8 = 0 /\ ask <= s => n <= s
  <2>1. ask \in Nat /\ ask # 0
    BY HeapAssumption
  <2>. QED BY <2>1, Words
<1>3. CASE Fitting(n) = {}
  <2>1. refused' = ask /\ blocks' = blocks /\ held' = held
    BY <1>2, <1>3 DEF MemAlloc
  <2>2. ASSUME Fits(blocks, ask) PROVE FALSE
    <3>1. PICK i \in 1 .. Len(blocks) : ask <= blocks[i].size
      BY <2>2 DEF Fits
    <3>2. blocks[i].size \in Nat /\ blocks[i].size % 8 = 0
      BY <1>1, FreeIsWords
    <3>3. n <= blocks[i].size
      BY <3>1, <3>2, <1>2
    <3>4. i \in DOMAIN blocks
      BY <1>1 DEF Laid
    <3>. QED BY <3>3, <3>4, <1>3 DEF Fitting
  <2>. QED BY <2>1, <2>2, <1>1 DEF HeapInv
<1>4. CASE Fitting(n) # {}
  <2>1. PICK t \in Fitting(n) : t = Target(n, style)
    BY <1>1, <1>4, TargetFits
  <2>2. blocks' = Taken(t, n) /\ held' = held \cup {[ptr |-> Ptr(t), size |-> ask]} /\ refused' = 0
    BY <2>1, <1>2, <1>4 DEF MemAlloc
  <2>3. /\ Laid(Taken(t, n), sumSize) /\ Pairs(Taken(t, n)) = {}
        /\ \E r \in Nat : n <= r /\ Used(Taken(t, n), sumSize) = Used(blocks, sumSize) \cup {<<Ptr(t), r>>}
        /\ t \in 1 .. Len(blocks) /\ blocks[t].size # 0
    BY <1>1, <1>2, TakenLaid
  <2>4. PICK r \in Nat : n <= r /\ Used(Taken(t, n), sumSize) = Used(blocks, sumSize) \cup {<<Ptr(t), r>>}
    BY <2>3
  <2>5. PICK p \in Nat : p = Ptr(t)
    BY <2>3, <1>1, LaidFacts DEF Ptr
  <2>6. PICK d : d = Taken(t, n)
    OBVIOUS
  <2>7. \A u \in Used(blocks, sumSize) : u[1] # p
    <3>1. ASSUME NEW u \in Used(blocks, sumSize), u[1] = p PROVE FALSE
      <4>1. PICK i \in UsedBlocks(blocks) : u[1] = blocks[i].at + NodeSize /\ i \in 1 .. Len(blocks)
        BY <1>1, UsedFacts
      <4>2. blocks[i].size = 0 /\ i # t
        BY <4>1, <2>3 DEF UsedBlocks
      <4>. QED BY <4>1, <4>2, <3>1, <2>3, <2>5, <1>1, ApartAddresses DEF Ptr
    <3>. QED BY <3>1
  <2>8. PICK h : h = [ptr |-> p, size |-> ask]
    OBVIOUS
  <2>9. h.ptr = p /\ h.size = ask /\ h \in [ptr : Nat, size : AllocSizes] /\ held' = held \cup {h}
    BY <2>2, <2>5, <2>8
  <2>10. \A g \in held : g.ptr # p
    BY <1>1, <2>7 DEF HeldBy
  <2>11. PICK w : w = <<p, r>> /\ w[1] = p /\ w[2] = r
    BY PairParts
  <2>12. Used(d, sumSize) = Used(blocks, sumSize) \cup {w} /\ ask <= w[2]
    BY <2>4, <2>5, <2>6, <2>11, <1>2
  <2>13. HeldBy(d, sumSize, held \cup {h})
    BY <2>9, <2>10, <2>11, <2>12, <1>1 DEF HeldBy
  <2>14. held' \subseteq [ptr : Nat, size : AllocSizes]
    BY <2>9, <1>1
  <2>15. blocks' = d /\ d # <<>> /\ Laid(d, sumSize) /\ Pairs(d) = {}
    <3>1. Laid(d, sumSize) /\ Pairs(d) = {} /\ blocks' = d
      BY <2>2, <2>3, <2>6
    <3>2. Len(d) > 0
      BY <3>1 DEF Laid
    <3>. QED BY <3>1, <3>2
  <2>. QED BY <2>2, <2>9, <2>13, <2>14, <2>15, <1>1 DEF HeapInv
<1>. QED BY <1>3, <1>4

LEMMA FreeKeeps ==
  ASSUME 0 \notin AllocSizes, HeapInv, NEW h \in held, MemFree(h)
  PROVE  HeapInv'
<1>1. PICK i \in DOMAIN blocks : Ptr(i) = h.ptr /\ blocks[i].size = 0 /\ blocks' = Freed(i)
  BY DEF MemFree
<1>2. held' = held \ {h} /\ refused' = 0 /\ sumSize' = sumSize
  BY DEF MemFree
<1>3. /\ Laid(blocks, sumSize) /\ Pairs(blocks) = {}
      /\ HeldBy(blocks, sumSize, held) /\ held \subseteq [ptr : Nat, size : AllocSizes]
  BY <1>1 DEF HeapInv
<1>4. i \in UsedBlocks(blocks) /\ i \in 1 .. Len(blocks)
  BY <1>1, <1>3 DEF UsedBlocks, Laid
<1>5. PICK w : w = <<Ptr(i), Room(blocks, sumSize, i)>> /\ w[1] = h.ptr /\ w[2] = Room(blocks, sumSize, i)
  <2>1. \E w : w = <<Ptr(i), Room(blocks, sumSize, i)>> /\ w[1] = Ptr(i) /\ w[2] = Room(blocks, sumSize, i)
    BY PairParts
  <2>. QED BY <1>1, <2>1
<1>6. w \in Used(blocks, sumSize)
  BY <1>3, <1>4, <1>5, UsedFacts DEF Ptr
<1>7. PICK u \in Used(blocks, sumSize) : u[1] = h.ptr /\ h.size <= u[2]
  BY <1>3 DEF HeldBy
<1>8. u = w
  BY <1>3, <1>5, <1>6, <1>7, UsedFacts
<1>9. Room(blocks, sumSize, i) > 0
  <2>1. h.size \in Nat /\ h.size # 0
    BY <1>3, HeapAssumption
  <2>2. Room(blocks, sumSize, i) \in Nat /\ h.size <= Room(blocks, sumSize, i)
    BY <1>3, <1>4, <1>5, <1>7, <1>8, LaidFacts
  <2>. QED BY <2>1, <2>2
<1>10. PICK d : d = Freed(i)
  OBVIOUS
<1>11. Laid(d, sumSize) /\ Pairs(d) = {} /\ Used(d, sumSize) = Used(blocks, sumSize) \ {w}
  BY <1>3, <1>4, <1>5, <1>9, <1>10, FreedLaid
<1>12. HeldBy(d, sumSize, held \ {h})
  <2>1. ASSUME NEW g \in held \ {h} PROVE \E v \in Used(d, sumSize) : v[1] = g.ptr /\ g.size <= v[2]
    <3>1. PICK v \in Used(blocks, sumSize) : v[1] = g.ptr /\ g.size <= v[2]
      BY <1>3 DEF HeldBy
    <3>2. v # w
      BY <3>1, <1>3, <1>5 DEF HeldBy
    <3>. QED BY <3>1, <3>2, <1>11
  <2>2. ASSUME NEW v \in Used(d, sumSize) PROVE \E g \in held \ {h} : g.ptr = v[1]
    <3>1. v \in Used(blocks, sumSize) /\ v # w
      BY <1>11
    <3>2. PICK g \in held : g.ptr = v[1]
      BY <3>1, <1>3 DEF HeldBy
    <3>3. g # h
      BY <3>1, <3>2, <1>3, <1>5, <1>6, UsedFacts
    <3>. QED BY <3>2, <3>3
  <2>3. \A g, k \in held \ {h} : g.ptr = k.ptr => g = k
    BY <1>3 DEF HeldBy
  <2>. QED BY <2>1, <2>2, <2>3 DEF HeldBy
<1>13. d # <<>>
  <2>1. Len(d) > 0
    BY <1>11 DEF Laid
  <2>. QED BY <2>1
<1>. QED BY <1>1, <1>2, <1>3, <1>10, <1>11, <1>12, <1>13 DEF HeapInv

LEMMA HeapInductive ==
  0 \notin AllocSizes => (HeapInit => HeapInv) /\ (HeapInv /\ [HeapNext]_heap => HeapInv')
<1>. SUFFICES ASSUME 0 \notin AllocSizes PROVE (HeapInit => HeapInv) /\ (HeapInv /\ [HeapNext]_heap => HeapInv')
  OBVIOUS
<1>1. HeapInit => HeapInv
  BY DEF HeapInit, HeapInv
<1>2. ASSUME HeapInv, [HeapNext]_heap PROVE HeapInv'
  <2>1. CASE \E n \in RegionSizes : MemInit(n)
    BY <2>1, <1>2, InitKeeps
  <2>2. CASE \E n \in AllocSizes, style \in {"best", "worst", "first"} : MemAlloc(n, style)
    BY <2>2, <1>2, AllocKeeps
  <2>3. CASE \E h \in held : MemFree(h)
    BY <2>3, <1>2, FreeKeeps
  <2>4. CASE UNCHANGED heap
    BY <2>4, <1>2 DEF HeapInv, heap
  <2>. QED BY <2>1, <2>2, <2>3, <2>4, <1>2 DEF HeapNext
<1>. QED BY <1>1, <1>2

(* What the invariant says of the heap.                                        *)
LEMMA HeapInvSays ==
  ASSUME 0 \notin AllocSizes, HeapInv
  PROVE  HeapSound
<1>1. CASE blocks = <<>>
  <2>1. Len(blocks) = 0 /\ DOMAIN blocks = {} /\ held = {} /\ refused = 0
    BY <1>1 DEF HeapInv
  <2>. QED BY <2>1, <1>1 DEF HeapSound, Tiled, Coalesced, HeldApart, RefusedRightly
<1>2. CASE blocks # <<>>
  <2>1. /\ Laid(blocks, sumSize) /\ Pairs(blocks) = {} /\ HeldBy(blocks, sumSize, held)
        /\ refused # 0 => ~Fits(blocks, refused)
    BY <1>2 DEF HeapInv
  <2>2. PICK n \in Nat : n = Len(blocks) /\ DOMAIN blocks = 1 .. n
    BY <2>1, LaidFacts DEF Laid
  <2>3. \A i \in 1 .. n : /\ End(i) = EndIn(blocks, sumSize, i) /\ Payload(i) = Room(blocks, sumSize, i)
                          /\ Ptr(i) = blocks[i].at + NodeSize
    BY <2>2 DEF End, EndIn, Payload, Room, Ptr
  <2>4. Tiled
    <3>1. blocks[1].at = 0
      BY <2>1 DEF Laid
    <3>2. \A i \in 1 .. n : Ptr(i) <= End(i)
      BY <2>1, <2>2, <2>3 DEF Laid
    <3>3. \A i \in 1 .. n : blocks[i].size # 0 => blocks[i].size = Payload(i)
      BY <2>1, <2>2, <2>3 DEF Laid
    <3>. QED BY <3>1, <3>2, <3>3, <2>2 DEF Tiled
  <2>5. Coalesced
    BY <2>1 DEF Coalesced, Pairs
  <2>6. HeldApart
    <3>1. ASSUME NEW h \in held PROVE \E i \in DOMAIN blocks : Ptr(i) = h.ptr /\ blocks[i].size = 0 /\ h.size <= Payload(i)
      <4>1. PICK u \in Used(blocks, sumSize) : u[1] = h.ptr /\ h.size <= u[2]
        BY <2>1 DEF HeldBy
      <4>2. PICK i \in UsedBlocks(blocks) : u[1] = blocks[i].at + NodeSize /\ u[2] = Room(blocks, sumSize, i)
        BY <2>1, UsedFacts
      <4>3. i \in 1 .. n /\ blocks[i].size = 0
        BY <2>2 DEF UsedBlocks
      <4>. QED BY <4>1, <4>2, <4>3, <2>2, <2>3
    <3>2. ASSUME NEW i \in DOMAIN blocks, blocks[i].size = 0 PROVE \E h \in held : h.ptr = Ptr(i)
      <4>1. i \in UsedBlocks(blocks) /\ i \in 1 .. n
        BY <3>2, <2>2 DEF UsedBlocks
      <4>2. PICK u : u = <<blocks[i].at + NodeSize, Room(blocks, sumSize, i)>> /\ u[1] = blocks[i].at + NodeSize
        BY PairParts
      <4>3. u \in Used(blocks, sumSize)
        BY <4>1, <4>2, <2>1, UsedFacts
      <4>4. PICK h \in held : h.ptr = u[1]
        BY <4>3, <2>1 DEF HeldBy
      <4>. QED BY <4>1, <4>2, <4>4, <2>3
    <3>3. \A g, h \in held : g.ptr = h.ptr => g = h
      BY <2>1 DEF HeldBy
    <3>. QED BY <3>1, <3>2, <3>3 DEF HeldApart
  <2>7. RefusedRightly
    <3>1. SUFFICES ASSUME refused # 0, NEW i \in 1 .. n, NEW j \in 1 .. n, i <= j,
                          \A k \in i .. j : blocks[k].size # 0, refused <= End(j) - Ptr(i)
                   PROVE  FALSE
      BY <2>2 DEF RefusedRightly
    <3>2. i = j
      <4>1. ASSUME i < j PROVE FALSE
        <5>1. i \in i .. j /\ i + 1 \in i .. j /\ i \in 1 .. n - 1
          BY <4>1
        <5>2. blocks[i].size # 0 /\ blocks[i + 1].size # 0
          BY <5>1, <3>1
        <5>. QED BY <5>1, <5>2, <2>1, <2>2 DEF Pairs
      <4>. QED BY <4>1, <3>1
    <3>3. blocks[i].size # 0
      BY <3>1
    <3>4. blocks[i].size = Payload(i)
      BY <3>3, <2>4, <2>2, <1>2 DEF Tiled
    <3>5. refused <= blocks[i].size
      BY <3>1, <3>2, <3>4 DEF Payload
    <3>. QED BY <3>1, <3>3, <3>5, <2>1, <2>2 DEF Fits
  <2>. QED BY <2>4, <2>5, <2>6, <2>7 DEF HeapSound
<1>. QED BY <1>1, <1>2

(* mem_alloc and mem_free of mem.c, in whatever order they are called: the     *)
(* blocks tile the region, no two free ones are neighbours, what the program   *)
(* has is exactly the allocated ones, and a call refused was refused for want  *)
(* of room.  A program that asks for 0 bytes is outside it: an allocated block *)
(* with no payload cannot be told from one that was never free.                *)
THEOREM HeapIsSound == 0 \notin AllocSizes => (HeapSpec => []HeapSound)
<1>. SUFFICES ASSUME 0 \notin AllocSizes PROVE HeapSpec => []HeapSound
  OBVIOUS
<1>1. HeapInit => HeapInv
  BY HeapInductive
<1>2. HeapInv /\ [HeapNext]_heap => HeapInv'
  BY HeapInductive
<1>3. HeapInv => HeapSound
  BY HeapInvSays
<1>. QED BY <1>1, <1>2, <1>3, PTL DEF HeapSpec

-----------------------------------------------------------------------------
(* malloc and free of user programs.                                           *)

(* The nodes' place in the circle: one after the other up in address, from the *)
(* highest back to base.                                                       *)
Nxt(n, i) == IF i = n THEN 1 ELSE i + 1
Circle(n, a) ==
    /\ \A i, j \in 1 .. n : i # j => a[i] # a[j]
    /\ \A i \in 1 .. n : a[i] >= -1
    /\ \E i \in 1 .. n : a[i] = -1
    /\ \A i, j \in 1 .. n :
        IF a[i] < a[Nxt(n, i)] THEN a[j] <= a[i] \/ a[j] >= a[Nxt(n, i)]
        ELSE a[Nxt(n, i)] <= a[j] /\ a[j] <= a[i]

Header == [at : Int, size : Nat]
Chunk == [at : Nat, size : Nat \ {0}]
Ats(list) == [i \in 1 .. Len(list) |-> list[i].at]
FreeOf(list) == {list[i] : i \in 1 .. Len(list)} \ {Base}
ListOK(list) ==
    /\ list \in Seq(Header) /\ Len(list) > 0
    /\ Circle(Len(list), Ats(list))
    /\ \A i \in 1 .. Len(list) : list[i].at = -1 => list[i] = Base

Apart(b, c) == EndOf(b) <= c.at \/ EndOf(c) <= b.at
Tiles(S, k) ==
    /\ S \subseteq Chunk
    /\ \A b \in S : EndOf(b) <= k
    /\ \A b, c \in S : b # c => Apart(b, c)
    /\ \A u \in 0 .. k - 1 : \E b \in S : b.at <= u /\ u < EndOf(b)
Memory(F, R, k) ==
    /\ F \cap R = {} /\ Tiles(F \cup R, k)
    /\ \A b, c \in F : EndOf(b) # c.at

UmallocInv ==
    /\ ListOK(free) /\ brk \in Nat /\ mine \cap own = {}
    /\ Memory(FreeOf(free), mine \cup own, brk)
    /\ stacks \subseteq Int /\ StacksApart

(* The next place.                                                             *)
LEMMA NxtIs ==
  ASSUME NEW n \in Nat, NEW i \in 1 .. n
  PROVE  (i % n) + 1 = Nxt(n, i) /\ Nxt(n, i) \in 1 .. n
<1>1. CASE i = n
  <2>1. n % n = 0
    OBVIOUS
  <2>. QED BY <1>1, <2>1 DEF Nxt
<1>2. CASE i # n
  <2>1. i < n
    BY <1>2
  <2>2. i % n = i
    BY <2>1
  <2>. QED BY <1>2, <2>2 DEF Nxt
<1>. QED BY <1>1, <1>2

(* The same circle seen from another of its places.                            *)
LEMMA CircleTurned ==
  ASSUME NEW n \in Nat, NEW k \in 1 .. n, NEW a \in [1 .. n -> Int], NEW c \in [1 .. n -> Int], Circle(n, a),
         \A j \in 1 .. n : c[j] = a[IF j <= n - k + 1 THEN j + k - 1 ELSE j - (n - k + 1)]
  PROVE  Circle(n, c)
<1>. DEFINE t(j) == IF j <= n - k + 1 THEN j + k - 1 ELSE j - (n - k + 1)
<1>1. \A j \in 1 .. n : t(j) \in 1 .. n /\ c[j] = a[t(j)]
  OBVIOUS
<1>2. \A i, j \in 1 .. n : i # j => t(i) # t(j)
  OBVIOUS
<1>3. \A j \in 1 .. n : t(Nxt(n, j)) = Nxt(n, t(j)) /\ Nxt(n, j) \in 1 .. n
  BY DEF Nxt
<1>4. \A i \in 1 .. n : \E j \in 1 .. n : t(j) = i
  <2>. SUFFICES ASSUME NEW i \in 1 .. n PROVE \E j \in 1 .. n : t(j) = i
    OBVIOUS
  <2>1. CASE i >= k
    <3>1. i - k + 1 \in 1 .. n /\ t(i - k + 1) = i
      BY <2>1
    <3>. QED BY <3>1
  <2>2. CASE i < k
    <3>1. i + (n - k + 1) \in 1 .. n /\ t(i + (n - k + 1)) = i
      BY <2>2
    <3>. QED BY <3>1
  <2>. QED BY <2>1, <2>2
<1>. HIDE DEF t
<1>5. \A i \in 1 .. n : a[i] \in Int
  OBVIOUS
<1>6. \A i, j \in 1 .. n : i # j => c[i] # c[j]
  <2>1. \A i, j \in 1 .. n : i # j => a[i] # a[j]
    BY DEF Circle
  <2>. QED BY <1>1, <1>2, <2>1
<1>7. \A i \in 1 .. n : c[i] >= -1
  BY <1>1 DEF Circle
<1>8. \E i \in 1 .. n : c[i] = -1
  BY <1>1, <1>4 DEF Circle
<1>9. ASSUME NEW i \in 1 .. n, NEW j \in 1 .. n
      PROVE  IF c[i] < c[Nxt(n, i)] THEN c[j] <= c[i] \/ c[j] >= c[Nxt(n, i)]
             ELSE c[Nxt(n, i)] <= c[j] /\ c[j] <= c[i]
  <2>1. c[i] = a[t(i)] /\ c[j] = a[t(j)] /\ c[Nxt(n, i)] = a[Nxt(n, t(i))]
    BY <1>1, <1>3
  <2>. QED BY <1>1, <2>1 DEF Circle
<1>. QED BY <1>6, <1>7, <1>8, <1>9 DEF Circle

(* A place more, behind the first.                                             *)
LEMMA CirclePut ==
  ASSUME NEW n \in Nat \ {0}, NEW a \in [1 .. n -> Int], NEW c \in [1 .. n + 1 -> Int], Circle(n, a),
         NEW x \in Nat, x > a[1], a[1] < a[Nxt(n, 1)] => x < a[Nxt(n, 1)],
         c[1] = a[1], c[2] = x, \A j \in 3 .. n + 1 : c[j] = a[j - 1]
  PROVE  Circle(n + 1, c)
<1>1. \A i \in 1 .. n : a[i] \in Int /\ a[i] # x /\ Nxt(n, i) \in 1 .. n
  <2>1. \A i \in 1 .. n : a[i] \in Int /\ Nxt(n, i) \in 1 .. n
    BY DEF Nxt
  <2>2. 1 \in 1 .. n
    OBVIOUS
  <2>3. \A i \in 1 .. n : IF a[1] < a[Nxt(n, 1)] THEN a[i] <= a[1] \/ a[i] >= a[Nxt(n, 1)]
                           ELSE a[Nxt(n, 1)] <= a[i] /\ a[i] <= a[1]
    <3>1. \A i, j \in 1 .. n : IF a[i] < a[Nxt(n, i)] THEN a[j] <= a[i] \/ a[j] >= a[Nxt(n, i)]
                               ELSE a[Nxt(n, i)] <= a[j] /\ a[j] <= a[i]
      BY DEF Circle
    <3>. QED BY <2>2, <3>1
  <2>4. ASSUME NEW i \in 1 .. n PROVE a[i] # x
    <3>1. a[i] \in Int /\ a[1] \in Int /\ a[Nxt(n, 1)] \in Int
      BY <2>1, <2>2
    <3>. QED BY <2>3, <3>1
  <2>. QED BY <2>1, <2>4
<1>2. \A i \in 1 .. n + 1 : i = 2 \/ \E j \in 1 .. n : c[i] = a[j] /\ j = (IF i = 1 THEN 1 ELSE i - 1)
  <2>. SUFFICES ASSUME NEW i \in 1 .. n + 1, i # 2
                PROVE  \E j \in 1 .. n : c[i] = a[j] /\ j = (IF i = 1 THEN 1 ELSE i - 1)
    OBVIOUS
  <2>1. CASE i = 1
    BY <2>1
  <2>2. CASE i # 1
    <3>1. i \in 3 .. n + 1 /\ i - 1 \in 1 .. n
      BY <2>2
    <3>. QED BY <3>1, <2>2
  <2>. QED BY <2>1, <2>2
<1>3. ASSUME NEW i \in 1 .. n + 1, NEW j \in 1 .. n + 1, i # j
      PROVE  c[i] # c[j]
  <2>1. \A u, v \in 1 .. n : u # v => a[u] # a[v]
    BY DEF Circle
  <2>2. CASE i = 2
    <3>1. PICK v \in 1 .. n : c[j] = a[v]
      BY <1>2, <1>3, <2>2
    <3>. QED BY <1>1, <2>2, <3>1
  <2>3. CASE j = 2
    <3>1. PICK v \in 1 .. n : c[i] = a[v]
      BY <1>2, <1>3, <2>3
    <3>. QED BY <1>1, <2>3, <3>1
  <2>4. CASE i # 2 /\ j # 2
    <3>1. PICK u \in 1 .. n : c[i] = a[u] /\ u = (IF i = 1 THEN 1 ELSE i - 1)
      BY <1>2, <2>4
    <3>2. PICK v \in 1 .. n : c[j] = a[v] /\ v = (IF j = 1 THEN 1 ELSE j - 1)
      BY <1>2, <2>4
    <3>3. u # v
      BY <1>3, <2>4, <3>1, <3>2
    <3>. QED BY <2>1, <3>1, <3>2, <3>3
  <2>. QED BY <2>2, <2>3, <2>4
<1>4. \A i \in 1 .. n + 1 : c[i] >= -1
  <2>1. \A u \in 1 .. n : a[u] >= -1
    BY DEF Circle
  <2>2. \A i \in 1 .. n + 1 : i # 2 => \E j \in 1 .. n : c[i] = a[j]
    BY <1>2
  <2>3. c[2] >= -1
    OBVIOUS
  <2>. QED BY <2>1, <2>2, <2>3
<1>5. \E i \in 1 .. n + 1 : c[i] = -1
  <2>1. PICK i \in 1 .. n : a[i] = -1
    BY DEF Circle
  <2>2. CASE i = 1
    BY <2>1, <2>2
  <2>3. CASE i # 1
    <3>1. i + 1 \in 3 .. n + 1 /\ (i + 1) - 1 = i
      BY <2>3
    <3>2. c[i + 1] = a[i]
      BY <3>1
    <3>. QED BY <2>1, <3>1, <3>2
  <2>. QED BY <2>2, <2>3
<1>6. ASSUME NEW i \in 1 .. n + 1, NEW j \in 1 .. n + 1
      PROVE  IF c[i] < c[Nxt(n + 1, i)] THEN c[j] <= c[i] \/ c[j] >= c[Nxt(n + 1, i)]
             ELSE c[Nxt(n + 1, i)] <= c[j] /\ c[j] <= c[i]
  <2>1. c[j] = x \/ \E k \in 1 .. n : c[j] = a[k]
    BY <1>2
  <2>2. \A k \in 1 .. n : IF a[1] < a[Nxt(n, 1)] THEN a[k] <= a[1] \/ a[k] >= a[Nxt(n, 1)]
                          ELSE a[Nxt(n, 1)] <= a[k] /\ a[k] <= a[1]
    BY DEF Circle
  <2>3. CASE i = 1
    <3>1. Nxt(n + 1, i) = 2
      BY <2>3 DEF Nxt
    <3>2. a[1] \in Int /\ a[Nxt(n, 1)] \in Int /\ c[j] \in Int
      BY <1>1
    <3>3. c[j] = x \/ IF a[1] < a[Nxt(n, 1)] THEN c[j] <= a[1] \/ c[j] >= a[Nxt(n, 1)]
                      ELSE a[Nxt(n, 1)] <= c[j] /\ c[j] <= a[1]
      BY <2>1, <2>2
    <3>4. c[j] <= a[1] \/ c[j] >= x
      BY <3>2, <3>3
    <3>. QED BY <2>3, <3>1, <3>4
  <2>4. CASE i = 2
    <3>1. c[Nxt(n + 1, 2)] = a[Nxt(n, 1)]
      <4>1. CASE n = 1
        BY <4>1 DEF Nxt
      <4>2. CASE n # 1
        <5>1. 3 \in 3 .. n + 1 /\ Nxt(n + 1, 2) = 3 /\ Nxt(n, 1) = 2
          BY <4>2 DEF Nxt
        <5>. QED BY <5>1
      <4>. QED BY <4>1, <4>2
    <3>2. a[1] \in Int /\ a[Nxt(n, 1)] \in Int /\ c[j] \in Int
      BY <1>1
    <3>3. c[j] = x \/ IF a[1] < a[Nxt(n, 1)] THEN c[j] <= a[1] \/ c[j] >= a[Nxt(n, 1)]
                      ELSE a[Nxt(n, 1)] <= c[j] /\ c[j] <= a[1]
      BY <2>1, <2>2
    <3>4. IF x < a[Nxt(n, 1)] THEN c[j] <= x \/ c[j] >= a[Nxt(n, 1)] ELSE a[Nxt(n, 1)] <= c[j] /\ c[j] <= x
      BY <3>2, <3>3
    <3>. QED BY <2>4, <3>1, <3>4
  <2>5. CASE i \notin {1, 2}
    <3>1. i \in 3 .. n + 1 /\ i - 1 \in 1 .. n /\ c[i] = a[i - 1]
      BY <2>5
    <3>2. c[Nxt(n + 1, i)] = a[Nxt(n, i - 1)]
      <4>1. CASE i = n + 1
        BY <4>1 DEF Nxt
      <4>2. CASE i # n + 1
        <5>1. i + 1 \in 3 .. n + 1 /\ Nxt(n + 1, i) = i + 1 /\ Nxt(n, i - 1) = i
          BY <3>1, <4>2 DEF Nxt
        <5>. QED BY <5>1
      <4>. QED BY <4>1, <4>2
    <3>3. \A k \in 1 .. n : IF a[i - 1] < a[Nxt(n, i - 1)] THEN a[k] <= a[i - 1] \/ a[k] >= a[Nxt(n, i - 1)]
                            ELSE a[Nxt(n, i - 1)] <= a[k] /\ a[k] <= a[i - 1]
      BY <3>1 DEF Circle
    <3>4. \A k \in 1 .. n : c[j] = a[k] => IF c[i] < c[Nxt(n + 1, i)] THEN c[j] <= c[i] \/ c[j] >= c[Nxt(n + 1, i)]
             ELSE c[Nxt(n + 1, i)] <= c[j] /\ c[j] <= c[i]
      BY <3>1, <3>2, <3>3
    <3>5. CASE c[j] = x
      <4>. DEFINE u == a[i - 1]
                  v == a[Nxt(n, i - 1)]
                  y == a[1]
                  z == a[Nxt(n, 1)]
      <4>1. u \in Int /\ v \in Int /\ y \in Int /\ z \in Int /\ u # y /\ v # z
        <5>1. i - 1 # 1 /\ Nxt(n, i - 1) # Nxt(n, 1) /\ 1 \in 1 .. n
          BY <2>5, <3>1 DEF Nxt
        <5>2. Nxt(n, i - 1) \in 1 .. n /\ Nxt(n, 1) \in 1 .. n
          BY <1>1, <3>1, <5>1
        <5>3. \A k, m \in 1 .. n : k # m => a[k] # a[m]
          BY DEF Circle
        <5>. QED BY <1>1, <3>1, <5>1, <5>2, <5>3
      <4>2. /\ IF u < v THEN y <= u \/ y >= v ELSE v <= y /\ y <= u
            /\ IF u < v THEN z <= u \/ z >= v ELSE v <= z /\ z <= u
        <5>1. 1 \in 1 .. n /\ Nxt(n, 1) \in 1 .. n
          BY <1>1
        <5>. QED BY <3>3, <5>1
      <4>3. /\ IF y < z THEN u <= y \/ u >= z ELSE z <= u /\ u <= y
            /\ IF y < z THEN v <= y \/ v >= z ELSE z <= v /\ v <= y
        BY <1>1, <2>2, <3>1
      <4>4. x > y /\ (y < z => x < z)
        OBVIOUS
      <4>. HIDE DEF u, v, y, z
      <4>5. IF u < v THEN x <= u \/ x >= v ELSE v <= x /\ x <= u
        BY <4>1, <4>2, <4>3, <4>4
      <4>. QED BY <3>1, <3>2, <3>5, <4>5 DEF u, v
    <3>. QED BY <2>1, <3>4, <3>5
  <2>. QED BY <2>3, <2>4, <2>5
<1>. QED BY <1>3, <1>4, <1>5, <1>6 DEF Circle

(* A place less, but not base's.                                               *)
LEMMA CircleTaken ==
  ASSUME NEW n \in Nat, n > 1, NEW k \in 2 .. n, NEW a \in [1 .. n -> Int], NEW c \in [1 .. n - 1 -> Int], Circle(n, a),
         a[k] # -1, \A j \in 1 .. n - 1 : c[j] = IF j < k THEN a[j] ELSE a[j + 1]
  PROVE  Circle(n - 1, c)
<1>. DEFINE t(j) == IF j < k THEN j ELSE j + 1
<1>1. \A j \in 1 .. n - 1 : t(j) \in 1 .. n /\ c[j] = a[t(j)] /\ t(j) # k
  OBVIOUS
<1>2. \A i, j \in 1 .. n - 1 : i # j => t(i) # t(j)
  OBVIOUS
<1>3. \A j \in 1 .. n - 1 : /\ Nxt(n - 1, j) \in 1 .. n - 1
                            /\ \/ t(Nxt(n - 1, j)) = Nxt(n, t(j))
                               \/ Nxt(n, t(j)) = k /\ t(Nxt(n - 1, j)) = Nxt(n, k)
  BY DEF Nxt
<1>4. \A i \in 1 .. n : i # k => \E j \in 1 .. n - 1 : t(j) = i
  <2>. SUFFICES ASSUME NEW i \in 1 .. n, i # k PROVE \E j \in 1 .. n - 1 : t(j) = i
    OBVIOUS
  <2>1. CASE i < k
    <3>1. i \in 1 .. n - 1 /\ t(i) = i
      BY <2>1
    <3>. QED BY <3>1
  <2>2. CASE i > k
    <3>1. i - 1 \in 1 .. n - 1 /\ t(i - 1) = i
      BY <2>2
    <3>. QED BY <3>1
  <2>. QED BY <2>1, <2>2
<1>. HIDE DEF t
<1>5. \A i \in 1 .. n : a[i] \in Int /\ Nxt(n, i) \in 1 .. n
  BY DEF Nxt
<1>6. \A i, j \in 1 .. n - 1 : i # j => c[i] # c[j]
  <2>. SUFFICES ASSUME NEW i \in 1 .. n - 1, NEW j \in 1 .. n - 1, i # j PROVE c[i] # c[j]
    OBVIOUS
  <2>1. t(i) \in 1 .. n /\ t(j) \in 1 .. n /\ t(i) # t(j) /\ c[i] = a[t(i)] /\ c[j] = a[t(j)]
    BY <1>1, <1>2
  <2>2. \A u, v \in 1 .. n : u # v => a[u] # a[v]
    BY DEF Circle
  <2>. QED BY <2>1, <2>2
<1>7. \A i \in 1 .. n - 1 : c[i] >= -1
  BY <1>1 DEF Circle
<1>8. \E i \in 1 .. n - 1 : c[i] = -1
  <2>1. PICK m \in 1 .. n : a[m] = -1
    BY DEF Circle
  <2>2. PICK i \in 1 .. n - 1 : t(i) = m
    BY <1>4, <2>1
  <2>. QED BY <1>1, <2>1, <2>2
<1>9. ASSUME NEW i \in 1 .. n - 1, NEW j \in 1 .. n - 1
      PROVE  IF c[i] < c[Nxt(n - 1, i)] THEN c[j] <= c[i] \/ c[j] >= c[Nxt(n - 1, i)]
             ELSE c[Nxt(n - 1, i)] <= c[j] /\ c[j] <= c[i]
  <2>1. c[i] = a[t(i)] /\ c[j] = a[t(j)] /\ c[Nxt(n - 1, i)] = a[t(Nxt(n - 1, i))]
    BY <1>1, <1>3
  <2>2. CASE t(Nxt(n - 1, i)) = Nxt(n, t(i))
    BY <1>1, <2>1, <2>2 DEF Circle
  <2>3. CASE Nxt(n, t(i)) = k /\ t(Nxt(n - 1, i)) = Nxt(n, k)
    <3>. DEFINE u == a[t(i)]
                v == a[k]
                w == a[Nxt(n, k)]
                y == a[t(j)]
    <3>0. t(i) \in 1 .. n /\ t(j) \in 1 .. n /\ k \in 1 .. n /\ Nxt(n, k) \in 1 .. n /\ t(j) # k
      <4>1. k \in 1 .. n
        OBVIOUS
      <4>. QED BY <1>1, <1>5, <4>1
    <3>1. u \in Int /\ v \in Int /\ w \in Int /\ y \in Int
      BY <1>5, <3>0
    <3>2. /\ IF u < v THEN y <= u \/ y >= v ELSE v <= y /\ y <= u
          /\ IF u < v THEN w <= u \/ w >= v ELSE v <= w /\ w <= u
      BY <2>3, <3>0 DEF Circle
    <3>3. /\ IF v < w THEN y <= v \/ y >= w ELSE w <= y /\ y <= v
          /\ IF v < w THEN u <= v \/ u >= w ELSE w <= u /\ u <= v
      BY <3>0 DEF Circle
    <3>4. v > -1 /\ y # v /\ (u < v \/ v = -1)
      <4>1. v > -1 /\ y # v
        <5>1. v >= -1 /\ y # v
          BY <3>0 DEF Circle
        <5>. QED BY <3>1, <5>1
      <4>2. PICK m \in 1 .. n : a[m] = -1
        BY DEF Circle
      <4>3. IF u < v THEN TRUE ELSE v <= a[m]
        BY <2>3, <3>0 DEF Circle
      <4>. QED BY <3>1, <4>1, <4>2, <4>3
    <3>5. c[i] = u /\ c[j] = y /\ c[Nxt(n - 1, i)] = w
      BY <2>1, <2>3
    <3>. HIDE DEF u, v, w, y
    <3>6. IF u < w THEN y <= u \/ y >= w ELSE w <= y /\ y <= u
      BY <3>1, <3>2, <3>3, <3>4
    <3>. QED BY <3>5, <3>6
  <2>. QED BY <1>3, <2>2, <2>3
<1>. QED BY <1>6, <1>7, <1>8, <1>9 DEF Circle

(* The list seen from one of its nodes.                                        *)
Turn(n, i, j) == IF j <= n - i + 1 THEN j + i - 1 ELSE j - (n - i + 1)

LEMMA TurnIs ==
  ASSUME NEW n \in Nat, NEW i \in 1 .. n
  PROVE  /\ \A j \in 1 .. n : Turn(n, i, j) \in 1 .. n
         /\ \A m \in 1 .. n : \E j \in 1 .. n : Turn(n, i, j) = m
         /\ Turn(n, i, 1) = i /\ (n > 1 => Turn(n, i, 2) = Nxt(n, i))
<1>1. \A j \in 1 .. n : Turn(n, i, j) \in 1 .. n
  BY DEF Turn
<1>2. ASSUME NEW m \in 1 .. n PROVE \E j \in 1 .. n : Turn(n, i, j) = m
  <2>1. CASE m >= i
    <3>1. m - i + 1 \in 1 .. n /\ Turn(n, i, m - i + 1) = m
      BY <2>1 DEF Turn
    <3>. QED BY <3>1
  <2>2. CASE m < i
    <3>1. m + (n - i + 1) \in 1 .. n /\ Turn(n, i, m + (n - i + 1)) = m
      BY <2>2 DEF Turn
    <3>. QED BY <3>1
  <2>. QED BY <2>1, <2>2
<1>3. Turn(n, i, 1) = i /\ (n > 1 => Turn(n, i, 2) = Nxt(n, i))
  BY DEF Turn, Nxt
<1>. QED BY <1>1, <1>2, <1>3

LEMMA FromIs ==
  ASSUME NEW S, NEW l \in Seq(S), NEW n \in Nat, n = Len(l), NEW i \in 1 .. n
  PROVE  /\ From(l, i) \in Seq(S) /\ Len(From(l, i)) = n
         /\ \A j \in 1 .. n : From(l, i)[j] = l[Turn(n, i, j)]
<1>. DEFINE x == SubSeq(l, i, n)
            y == SubSeq(l, 1, i - 1)
<1>0. \A j \in 1 .. n : l[j] \in S
  OBVIOUS
<1>1. x \in Seq(S) /\ Len(x) = n - i + 1 /\ \A j \in 1 .. n - i + 1 : x[j] = l[i + j - 1]
  <2>1. \A j \in i .. n : l[j] \in S
    BY <1>0
  <2>. QED BY <2>1, SubSeqProperties
<1>2. y \in Seq(S) /\ Len(y) = i - 1 /\ \A j \in 1 .. i - 1 : y[j] = l[j]
  <2>1. \A j \in 1 .. i - 1 : l[j] \in S
    BY <1>0
  <2>2. /\ y \in Seq(S) /\ Len(y) = (IF 1 <= i - 1 THEN i - 1 - 1 + 1 ELSE 0)
        /\ \A j \in 1 .. i - 1 - 1 + 1 : y[j] = l[1 + j - 1]
    <3>1. 1 \in Int /\ i - 1 \in Int
      OBVIOUS
    <3>. QED BY <2>1, <3>1, SubSeqProperties
  <2>3. \A j \in 1 .. i - 1 : 1 + j - 1 = j
    OBVIOUS
  <2>4. i - 1 - 1 + 1 = i - 1 /\ (IF 1 <= i - 1 THEN i - 1 - 1 + 1 ELSE 0) = i - 1
    OBVIOUS
  <2>. QED BY <2>2, <2>3, <2>4
<1>. HIDE DEF x, y
<1>3. x \o y \in Seq(S) /\ Len(x \o y) = n
  BY <1>1, <1>2, ConcatProperties
<1>4. ASSUME NEW j \in 1 .. n PROVE (x \o y)[j] = l[Turn(n, i, j)]
  <2>1. (x \o y)[j] = IF j <= Len(x) THEN x[j] ELSE y[j - Len(x)]
    <3>1. j \in 1 .. Len(x) + Len(y)
      BY <1>1, <1>2
    <3>. QED BY <1>1, <1>2, <3>1, ConcatProperties
  <2>2. CASE j <= n - i + 1
    <3>1. j \in 1 .. n - i + 1 /\ i + j - 1 = j + i - 1
      BY <2>2
    <3>. QED BY <1>1, <2>1, <2>2, <3>1 DEF Turn
  <2>3. CASE ~(j <= n - i + 1)
    <3>1. j - (n - i + 1) \in 1 .. i - 1
      BY <2>3
    <3>. QED BY <1>1, <1>2, <2>1, <2>3, <3>1 DEF Turn
  <2>. QED BY <2>2, <2>3
<1>5. From(l, i) = x \o y
  BY DEF From, x, y
<1>. QED BY <1>3, <1>4, <1>5

LEMMA FromOK ==
  ASSUME NEW l, ListOK(l), NEW i \in 1 .. Len(l)
  PROVE  /\ ListOK(From(l, i)) /\ FreeOf(From(l, i)) = FreeOf(l) /\ Len(From(l, i)) = Len(l)
         /\ From(l, i)[1] = l[i] /\ (Len(l) > 1 => From(l, i)[2] = l[Nxt(Len(l), i)])
<1>1. PICK n \in Nat : n = Len(l) /\ n > 0 /\ l \in Seq(Header)
  BY DEF ListOK
<1>2. PICK c : c = From(l, i)
  OBVIOUS
<1>3. c \in Seq(Header) /\ Len(c) = n /\ \A j \in 1 .. n : c[j] = l[Turn(n, i, j)]
  BY <1>1, <1>2, FromIs
<1>4. /\ \A j \in 1 .. n : Turn(n, i, j) \in 1 .. n
      /\ \A m \in 1 .. n : \E j \in 1 .. n : Turn(n, i, j) = m
      /\ Turn(n, i, 1) = i /\ (n > 1 => Turn(n, i, 2) = Nxt(n, i))
  BY <1>1, TurnIs
<1>5. \A j \in 1 .. n : l[j] \in Header /\ c[j] \in Header /\ l[j].at \in Int /\ c[j].at \in Int
  <2>1. \A j \in 1 .. n : l[j] \in Header
    BY <1>1
  <2>2. \A j \in 1 .. n : c[j] \in Header
    BY <1>3
  <2>. QED BY <2>1, <2>2 DEF Header
<1>6. Circle(n, Ats(c))
  <2>1. Ats(l) \in [1 .. n -> Int] /\ Ats(c) \in [1 .. n -> Int] /\ Circle(n, Ats(l))
    BY <1>1, <1>3, <1>5 DEF Ats, ListOK
  <2>2. \A j \in 1 .. n : Ats(c)[j] = Ats(l)[Turn(n, i, j)]
    BY <1>1, <1>3, <1>4 DEF Ats
  <2>. QED BY <1>1, <2>1, <2>2, CircleTurned DEF Turn
<1>7. \A j \in 1 .. n : c[j].at = -1 => c[j] = Base
  BY <1>1, <1>3, <1>4 DEF ListOK
<1>8. {c[j] : j \in 1 .. n} = {l[j] : j \in 1 .. n}
  <2>1. ASSUME NEW j \in 1 .. n PROVE \E m \in 1 .. n : c[j] = l[m]
    <3>1. Turn(n, i, j) \in 1 .. n /\ c[j] = l[Turn(n, i, j)]
      BY <1>3, <1>4
    <3>. QED BY <3>1
  <2>2. ASSUME NEW m \in 1 .. n PROVE \E j \in 1 .. n : l[m] = c[j]
    <3>1. PICK j \in 1 .. n : Turn(n, i, j) = m
      BY <1>4
    <3>2. c[j] = l[Turn(n, i, j)]
      BY <1>3
    <3>. QED BY <3>1, <3>2
  <2>3. {c[j] : j \in 1 .. n} \subseteq {l[j] : j \in 1 .. n}
    <3>1. ASSUME NEW j \in 1 .. n PROVE c[j] \in {l[v] : v \in 1 .. n}
      BY <2>1
    <3>. QED BY <3>1
  <2>4. {l[j] : j \in 1 .. n} \subseteq {c[j] : j \in 1 .. n}
    <3>1. ASSUME NEW j \in 1 .. n PROVE l[j] \in {c[v] : v \in 1 .. n}
      BY <2>2
    <3>. QED BY <3>1
  <2>. QED BY <2>3, <2>4
<1>9. ListOK(c) /\ FreeOf(c) = FreeOf(l)
  BY <1>1, <1>3, <1>6, <1>7, <1>8 DEF ListOK, FreeOf
<1>10. c[1] = l[i] /\ (n > 1 => c[2] = l[Nxt(n, i)])
  <2>1. 1 \in 1 .. n /\ (n > 1 => 2 \in 1 .. n)
    BY <1>1
  <2>. QED BY <1>3, <1>4, <2>1
<1>. QED BY <1>1, <1>2, <1>3, <1>9, <1>10

(* What the nodes are.                                                         *)
LEMMA ListFacts ==
  ASSUME NEW l, ListOK(l)
  PROVE  /\ Len(l) \in Nat \ {0} /\ Base.at = -1 /\ Base.size = 0
         /\ \A i \in 1 .. Len(l) : l[i] \in Header /\ l[i].at \in Int /\ l[i].size \in Nat /\ l[i].at >= -1
         /\ \A i, j \in 1 .. Len(l) : i # j => l[i].at # l[j].at
         /\ \A i \in 1 .. Len(l) : l[i] # Base => l[i].at \in Nat /\ l[i] \in FreeOf(l)
         /\ \E i \in 1 .. Len(l) : l[i] = Base
         /\ \A i, j \in 1 .. Len(l) :
              IF l[i].at < l[Nxt(Len(l), i)].at THEN l[j].at <= l[i].at \/ l[j].at >= l[Nxt(Len(l), i)].at
              ELSE l[Nxt(Len(l), i)].at <= l[j].at /\ l[j].at <= l[i].at
<1>1. PICK n \in Nat \ {0} : n = Len(l) /\ l \in Seq(Header)
  BY DEF ListOK
<1>2. \A i \in 1 .. n : l[i] \in Header
  BY <1>1
<1>3. \A i \in 1 .. n : l[i].at \in Int /\ l[i].size \in Nat /\ Ats(l)[i] = l[i].at /\ Nxt(n, i) \in 1 .. n
  BY <1>1, <1>2 DEF Header, Ats, Nxt
<1>4. Circle(n, Ats(l)) /\ \A i \in 1 .. n : l[i].at = -1 => l[i] = Base
  BY <1>1 DEF ListOK
<1>5. Base.at = -1 /\ Base.size = 0
  BY DEF Base
<1>6. \A i \in 1 .. n : l[i].at >= -1
  BY <1>3, <1>4 DEF Circle
<1>7. \A i, j \in 1 .. n : i # j => l[i].at # l[j].at
  BY <1>3, <1>4 DEF Circle
<1>8. \A i \in 1 .. n : l[i] # Base => l[i].at \in Nat
  BY <1>3, <1>4, <1>6
<1>9. \E i \in 1 .. n : l[i] = Base
  BY <1>3, <1>4 DEF Circle
<1>10. \A i, j \in 1 .. n :
              IF l[i].at < l[Nxt(n, i)].at THEN l[j].at <= l[i].at \/ l[j].at >= l[Nxt(n, i)].at
              ELSE l[Nxt(n, i)].at <= l[j].at /\ l[j].at <= l[i].at
  BY <1>3, <1>4 DEF Circle
<1>11. \A i \in 1 .. n : l[i] # Base => l[i] \in FreeOf(l)
  BY <1>1 DEF FreeOf
<1>. QED BY <1>1, <1>2, <1>3, <1>5, <1>6, <1>7, <1>8, <1>9, <1>10, <1>11

(* m is l, of n nodes, with a node more behind the first, with the k-th node   *)
(* less, with the k-th node of another size.                                   *)
IsPut(l, m, b, n) ==
    /\ ListOK(l) /\ n \in Nat /\ n = Len(l) /\ b \in Chunk
    /\ b.at > l[1].at /\ (l[1].at < l[Nxt(n, 1)].at => b.at < l[Nxt(n, 1)].at)
    /\ m \in Seq(Header) /\ Len(m) = n + 1 /\ m[1] = l[1] /\ m[2] = b
    /\ \A j \in 3 .. n + 1 : m[j] = l[j - 1]
IsTaken(l, m, n, k) ==
    /\ ListOK(l) /\ n \in Nat /\ n = Len(l) /\ k \in 2 .. n /\ l[k] # Base
    /\ m \in Seq(Header) /\ Len(m) = n - 1
    /\ \A j \in 1 .. n - 1 : m[j] = IF j < k THEN l[j] ELSE l[j + 1]
IsResized(l, m, n, k) ==
    /\ ListOK(l) /\ n \in Nat /\ n = Len(l) /\ k \in 1 .. n /\ l[k] # Base
    /\ m \in Seq(Header) /\ Len(m) = n /\ m[k].at = l[k].at
    /\ \A j \in 1 .. n : j # k => m[j] = l[j]

LEMMA PutOK ==
  ASSUME NEW l, NEW m, NEW b, NEW n, IsPut(l, m, b, n)
  PROVE  ListOK(m) /\ FreeOf(m) = FreeOf(l) \cup {b}
<1>. SUFFICES ASSUME ListOK(l), n \in Nat, n = Len(l), b \in Chunk,
                     b.at > l[1].at, l[1].at < l[Nxt(n, 1)].at => b.at < l[Nxt(n, 1)].at,
                     m \in Seq(Header), Len(m) = n + 1, m[1] = l[1], m[2] = b,
                     \A j \in 3 .. n + 1 : m[j] = l[j - 1]
              PROVE  ListOK(m) /\ FreeOf(m) = FreeOf(l) \cup {b}
  BY DEF IsPut
<1>1. /\ n \in Nat \ {0} /\ Base.at = -1
      /\ \A i \in 1 .. n : l[i].at \in Int
      /\ \A i \in 1 .. n : l[i].at = -1 => l[i] = Base
  <2>1. Len(l) \in Nat \ {0} /\ Base.at = -1 /\ \A i \in 1 .. Len(l) : l[i].at \in Int
    BY ListFacts
  <2>2. \A i \in 1 .. Len(l) : l[i].at = -1 => l[i] = Base
    BY DEF ListOK
  <2>. QED BY <2>1, <2>2
<1>2. b.at \in Nat /\ b # Base
  BY <1>1 DEF Chunk
<1>3. \A j \in 1 .. n + 1 : m[j] \in Header /\ m[j].at \in Int
  <2>1. \A j \in 1 .. n + 1 : m[j] \in Header
    OBVIOUS
  <2>. QED BY <2>1 DEF Header
<1>4. Circle(n + 1, Ats(m))
  <2>1. Ats(l) \in [1 .. n -> Int] /\ \A j \in 1 .. n : Ats(l)[j] = l[j].at
    BY <1>1 DEF Ats
  <2>2. Ats(m) \in [1 .. n + 1 -> Int] /\ \A j \in 1 .. n + 1 : Ats(m)[j] = m[j].at
    BY <1>3 DEF Ats
  <2>3. Circle(n, Ats(l))
    BY DEF ListOK
  <2>4. 1 \in 1 .. n /\ Nxt(n, 1) \in 1 .. n /\ 1 \in 1 .. n + 1 /\ 2 \in 1 .. n + 1
    BY <1>1 DEF Nxt
  <2>5. \A j \in 3 .. n + 1 : j \in 1 .. n + 1 /\ j - 1 \in 1 .. n
    OBVIOUS
  <2>6. \A j \in 3 .. n + 1 : Ats(m)[j] = Ats(l)[j - 1]
    BY <2>1, <2>2, <2>5
  <2>7. /\ Ats(m)[1] = Ats(l)[1] /\ Ats(m)[2] = b.at /\ b.at > Ats(l)[1]
        /\ Ats(l)[1] < Ats(l)[Nxt(n, 1)] => b.at < Ats(l)[Nxt(n, 1)]
    BY <2>1, <2>2, <2>4
  <2>. QED BY <1>1, <1>2, <2>1, <2>2, <2>3, <2>6, <2>7, CirclePut
<1>5. \A j \in 1 .. n + 1 : j = 1 \/ j = 2 \/ (j \in 3 .. n + 1 /\ j - 1 \in 1 .. n)
  OBVIOUS
<1>6. \A j \in 1 .. n + 1 : m[j].at = -1 => m[j] = Base
  BY <1>1, <1>2, <1>5
<1>7. {m[j] : j \in 1 .. n + 1} = {l[j] : j \in 1 .. n} \cup {b}
  <2>1. \A j \in 1 .. n + 1 : m[j] = b \/ \E i \in 1 .. n : m[j] = l[i]
    BY <1>1, <1>5
  <2>2. ASSUME NEW i \in 1 .. n PROVE \E j \in 1 .. n + 1 : l[i] = m[j]
    <3>1. CASE i = 1
      BY <3>1
    <3>2. CASE i # 1
      <4>1. i + 1 \in 3 .. n + 1 /\ i + 1 \in 1 .. n + 1 /\ (i + 1) - 1 = i
        BY <3>2
      <4>2. m[i + 1] = l[i]
        BY <4>1
      <4>. QED BY <4>1, <4>2
    <3>. QED BY <3>1, <3>2
  <2>3. 2 \in 1 .. n + 1
    BY <1>1
  <2>4. ASSUME NEW j \in 1 .. n + 1 PROVE m[j] \in {l[i] : i \in 1 .. n} \cup {b}
    BY <2>1
  <2>5. ASSUME NEW i \in 1 .. n PROVE l[i] \in {m[j] : j \in 1 .. n + 1}
    BY <2>2
  <2>6. b \in {m[j] : j \in 1 .. n + 1}
    BY <2>3
  <2>. QED BY <2>4, <2>5, <2>6
<1>8. FreeOf(m) = FreeOf(l) \cup {b}
  BY <1>2, <1>7 DEF FreeOf
<1>9. ListOK(m)
  BY <1>4, <1>6 DEF ListOK
<1>. QED BY <1>8, <1>9

LEMMA TakeOK ==
  ASSUME NEW l, NEW m, NEW n, NEW k, IsTaken(l, m, n, k)
  PROVE  ListOK(m) /\ FreeOf(m) = FreeOf(l) \ {l[k]}
<1>. SUFFICES ASSUME ListOK(l), n \in Nat, n = Len(l), k \in 2 .. n, l[k] # Base,
                     m \in Seq(Header), Len(m) = n - 1,
                     \A j \in 1 .. n - 1 : m[j] = IF j < k THEN l[j] ELSE l[j + 1]
              PROVE  ListOK(m) /\ FreeOf(m) = FreeOf(l) \ {l[k]}
  BY DEF IsTaken
<1>1. /\ n \in Nat \ {0} /\ Base.at = -1
      /\ \A i \in 1 .. n : l[i].at \in Int
      /\ \A i \in 1 .. n : l[i].at = -1 => l[i] = Base
      /\ \A i, j \in 1 .. n : i # j => l[i].at # l[j].at
  <2>1. /\ Len(l) \in Nat \ {0} /\ Base.at = -1
        /\ \A i \in 1 .. Len(l) : l[i].at \in Int
        /\ \A i, j \in 1 .. Len(l) : i # j => l[i].at # l[j].at
    BY ListFacts
  <2>2. \A i \in 1 .. Len(l) : l[i].at = -1 => l[i] = Base
    BY DEF ListOK
  <2>. QED BY <2>1, <2>2
<1>2. n > 1 /\ n - 1 \in Nat /\ k \in 1 .. n
  OBVIOUS
<1>3. \A j \in 1 .. n - 1 : m[j] \in Header /\ m[j].at \in Int
  <2>1. \A j \in 1 .. n - 1 : m[j] \in Header
    OBVIOUS
  <2>. QED BY <2>1 DEF Header
<1>4. \A j \in 1 .. n - 1 : j \in 1 .. n /\ j + 1 \in 1 .. n
  OBVIOUS
<1>5. Circle(n - 1, Ats(m))
  <2>1. Ats(l) \in [1 .. n -> Int] /\ \A j \in 1 .. n : Ats(l)[j] = l[j].at
    BY <1>1 DEF Ats
  <2>2. Ats(m) \in [1 .. n - 1 -> Int] /\ \A j \in 1 .. n - 1 : Ats(m)[j] = m[j].at
    BY <1>3 DEF Ats
  <2>3. Circle(n, Ats(l))
    BY DEF ListOK
  <2>4. \A j \in 1 .. n - 1 : Ats(m)[j] = IF j < k THEN Ats(l)[j] ELSE Ats(l)[j + 1]
    BY <1>4, <2>1, <2>2
  <2>5. Ats(l)[k] # -1
    BY <1>1, <1>2, <2>1
  <2>. QED BY <1>2, <2>1, <2>2, <2>3, <2>4, <2>5, CircleTaken
<1>6. \A j \in 1 .. n - 1 : m[j].at = -1 => m[j] = Base
  BY <1>1, <1>4
<1>7. {m[j] : j \in 1 .. n - 1} = {l[j] : j \in 1 .. n} \ {l[k]}
  <2>1. \A j \in 1 .. n - 1 : \E i \in 1 .. n : i # k /\ m[j] = l[i]
    <3>. SUFFICES ASSUME NEW j \in 1 .. n - 1 PROVE \E i \in 1 .. n : i # k /\ m[j] = l[i]
      OBVIOUS
    <3>1. CASE j < k
      BY <1>4, <3>1
    <3>2. CASE ~(j < k)
      <4>1. j + 1 # k
        BY <3>2
      <4>. QED BY <1>4, <3>2, <4>1
    <3>. QED BY <3>1, <3>2
  <2>2. \A i \in 1 .. n : i # k => \E j \in 1 .. n - 1 : l[i] = m[j]
    <3>. SUFFICES ASSUME NEW i \in 1 .. n, i # k PROVE \E j \in 1 .. n - 1 : l[i] = m[j]
      OBVIOUS
    <3>1. CASE i < k
      <4>1. i \in 1 .. n - 1
        BY <3>1
      <4>. QED BY <3>1, <4>1
    <3>2. CASE i > k
      <4>1. i - 1 \in 1 .. n - 1 /\ ~(i - 1 < k) /\ (i - 1) + 1 = i
        BY <3>2
      <4>2. m[i - 1] = l[i]
        BY <4>1
      <4>. QED BY <4>1, <4>2
    <3>. QED BY <3>1, <3>2
  <2>3. \A i \in 1 .. n : i # k => l[i] # l[k]
    BY <1>1, <1>2
  <2>4. {m[j] : j \in 1 .. n - 1} \subseteq {l[j] : j \in 1 .. n} \ {l[k]}
    <3>1. ASSUME NEW j \in 1 .. n - 1 PROVE m[j] \in {l[i] : i \in 1 .. n} \ {l[k]}
      <4>1. PICK i \in 1 .. n : i # k /\ m[j] = l[i]
        BY <2>1
      <4>. QED BY <4>1, <2>3
    <3>. QED BY <3>1
  <2>5. {l[j] : j \in 1 .. n} \ {l[k]} \subseteq {m[j] : j \in 1 .. n - 1}
    <3>1. ASSUME NEW i \in 1 .. n, l[i] # l[k] PROVE l[i] \in {m[j] : j \in 1 .. n - 1}
      <4>1. i # k
        BY <3>1
      <4>2. PICK j \in 1 .. n - 1 : l[i] = m[j]
        BY <2>2, <4>1
      <4>. QED BY <4>2
    <3>. QED BY <3>1
  <2>. QED BY <2>4, <2>5
<1>8. FreeOf(m) = FreeOf(l) \ {l[k]}
  BY <1>7 DEF FreeOf
<1>9. ListOK(m)
  BY <1>2, <1>5, <1>6 DEF ListOK
<1>. QED BY <1>8, <1>9

LEMMA ResizeOK ==
  ASSUME NEW l, NEW m, NEW n, NEW k, IsResized(l, m, n, k)
  PROVE  ListOK(m) /\ FreeOf(m) = (FreeOf(l) \ {l[k]}) \cup {m[k]}
<1>. SUFFICES ASSUME ListOK(l), n \in Nat, n = Len(l), k \in 1 .. n, l[k] # Base,
                     m \in Seq(Header), Len(m) = n, m[k].at = l[k].at,
                     \A j \in 1 .. n : j # k => m[j] = l[j]
              PROVE  ListOK(m) /\ FreeOf(m) = (FreeOf(l) \ {l[k]}) \cup {m[k]}
  BY DEF IsResized
<1>1. /\ n \in Nat \ {0} /\ Base.at = -1
      /\ \A i \in 1 .. n : l[i].at \in Int
      /\ \A i \in 1 .. n : l[i].at = -1 => l[i] = Base
      /\ \A i, j \in 1 .. n : i # j => l[i].at # l[j].at
  <2>1. /\ Len(l) \in Nat \ {0} /\ Base.at = -1
        /\ \A i \in 1 .. Len(l) : l[i].at \in Int
        /\ \A i, j \in 1 .. Len(l) : i # j => l[i].at # l[j].at
    BY ListFacts
  <2>2. \A i \in 1 .. Len(l) : l[i].at = -1 => l[i] = Base
    BY DEF ListOK
  <2>. QED BY <2>1, <2>2
<1>2. \A j \in 1 .. n : m[j].at = l[j].at
  OBVIOUS
<1>3. Ats(m) = Ats(l)
  BY <1>2 DEF Ats
<1>4. ListOK(m)
  <2>1. Circle(n, Ats(m))
    BY <1>3 DEF ListOK
  <2>2. \A j \in 1 .. n : m[j].at = -1 => m[j] = Base
    BY <1>1, <1>2
  <2>. QED BY <1>1, <2>1, <2>2 DEF ListOK
<1>5. m[k] # Base
  BY <1>1
<1>6. {m[j] : j \in 1 .. n} = ({l[j] : j \in 1 .. n} \ {l[k]}) \cup {m[k]}
  <2>1. \A i \in 1 .. n : i # k => l[i] # l[k]
    BY <1>1
  <2>2. ASSUME NEW j \in 1 .. n PROVE m[j] \in ({l[i] : i \in 1 .. n} \ {l[k]}) \cup {m[k]}
    BY <2>1
  <2>3. ASSUME NEW i \in 1 .. n, l[i] # l[k] PROVE l[i] \in {m[j] : j \in 1 .. n}
    <3>1. i # k /\ m[i] = l[i]
      BY <2>3
    <3>. QED BY <3>1
  <2>. QED BY <2>2, <2>3
<1>7. FreeOf(m) = (FreeOf(l) \ {l[k]}) \cup {m[k]}
  BY <1>5, <1>6 DEF FreeOf
<1>. QED BY <1>4, <1>7

(* free stops at a node that the block comes behind.                           *)
LEMMA StopFits ==
  ASSUME NEW l, ListOK(l), NEW b, b.at \in Nat, NEW n \in Nat, n = Len(l),
         \A i \in 1 .. n : l[i].at # b.at
  PROVE  LET s == StopAt(l, b) IN
         s \in 1 .. n /\ b.at > l[s].at /\ (l[s].at < l[Nxt(n, s)].at => b.at < l[Nxt(n, s)].at)
<1>. DEFINE x == b.at
            F(i) == \/ l[i].at < x /\ x < l[Nxt(n, i)].at
                    \/ l[i].at >= l[Nxt(n, i)].at /\ (x > l[i].at \/ x < l[Nxt(n, i)].at)
            S == {i \in 1 .. n : F(i)}
<1>1. /\ n \in Nat \ {0} /\ Base.at = -1
      /\ \A i \in 1 .. n : l[i].at \in Int /\ l[i].at >= -1 /\ Nxt(n, i) \in 1 .. n
      /\ \E i \in 1 .. n : l[i] = Base
      /\ \A i, j \in 1 .. n :
              IF l[i].at < l[Nxt(n, i)].at THEN l[j].at <= l[i].at \/ l[j].at >= l[Nxt(n, i)].at
              ELSE l[Nxt(n, i)].at <= l[j].at /\ l[j].at <= l[i].at
  BY ListFacts, NxtIs
<1>2. StopAt(l, b) = Min(S)
  <2>1. \A i \in 1 .. n : (i % n) + 1 = Nxt(n, i)
    BY NxtIs
  <2>2. S = {i \in 1 .. n : \/ l[i].at < x /\ x < l[(i % n) + 1].at
                            \/ l[i].at >= l[(i % n) + 1].at /\ (x > l[i].at \/ x < l[(i % n) + 1].at)}
    BY <2>1
  <2>. QED BY <2>2 DEF StopAt
<1>3. \E i \in 1 .. n : l[i].at < x /\ \A j \in 1 .. n : l[j].at < x => l[j].at <= l[i].at
  <2>. DEFINE D == {d \in Nat : \E i \in 1 .. n : d = x - l[i].at}
  <2>1. \A i \in 1 .. n : l[i].at < x => x - l[i].at \in D
    BY <1>1
  <2>2. D \in SUBSET Nat /\ D # {}
    <3>1. PICK i \in 1 .. n : l[i] = Base
      BY <1>1
    <3>2. l[i].at < x
      BY <1>1, <3>1
    <3>. QED BY <2>1, <3>2
  <2>3. PICK d \in D : \A e \in D : d <= e
    BY <2>2, MinIn
  <2>4. PICK i \in 1 .. n : d = x - l[i].at
    OBVIOUS
  <2>5. l[i].at < x
    <3>1. d \in Nat /\ x \in Nat /\ l[i].at \in Int /\ l[i].at # x
      BY <1>1, <2>2
    <3>2. \A u \in Int : d = x - u => u <= x
      BY <3>1
    <3>. QED BY <2>4, <3>1, <3>2
  <2>6. \A j \in 1 .. n : l[j].at < x => x - l[i].at <= x - l[j].at
    BY <2>1, <2>3, <2>4
  <2>. HIDE DEF D
  <2>7. \A j \in 1 .. n : l[j].at < x => l[j].at <= l[i].at
    <3>1. \A u, v \in Int : x - u <= x - v => v <= u
      OBVIOUS
    <3>2. \A j \in 1 .. n : l[j].at \in Int
      BY <1>1
    <3>. QED BY <2>6, <3>1, <3>2
  <2>. QED BY <2>5, <2>7
<1>4. S # {}
  <2>1. PICK i \in 1 .. n : l[i].at < x /\ \A j \in 1 .. n : l[j].at < x => l[j].at <= l[i].at
    BY <1>3
  <2>2. Nxt(n, i) \in 1 .. n /\ l[Nxt(n, i)].at # x
    BY <1>1
  <2>3. F(i)
    BY <1>1, <2>1, <2>2
  <2>. QED BY <2>3
<1>5. StopAt(l, b) \in S
  <2>1. S \in SUBSET Nat
    OBVIOUS
  <2>. QED BY <1>2, <1>4, <2>1, MinIn
<1>6. ASSUME NEW s \in 1 .. n, F(s)
      PROVE  b.at > l[s].at /\ (l[s].at < l[Nxt(n, s)].at => b.at < l[Nxt(n, s)].at)
  <2>1. PICK i \in 1 .. n : l[i] = Base
    BY <1>1
  <2>2. l[s].at \in Int /\ l[Nxt(n, s)].at \in Int /\ x \in Nat /\ l[i].at = -1
    BY <1>1, <2>1
  <2>3. IF l[s].at < l[Nxt(n, s)].at THEN TRUE ELSE l[Nxt(n, s)].at <= l[i].at
    BY <1>1
  <2>4. l[s].at >= l[Nxt(n, s)].at => l[Nxt(n, s)].at <= -1
    BY <2>2, <2>3
  <2>. QED BY <1>6, <2>2, <2>4
<1>. QED BY <1>5, <1>6

-----------------------------------------------------------------------------
(* Two neighbours as one block.                                                *)
Merged(a, b) == [at |-> a.at, size |-> a.size + b.size]

LEMMA TilesJoin ==
  ASSUME NEW S, NEW k \in Nat, Tiles(S, k), NEW a \in S, NEW b \in S, EndOf(a) = b.at
  PROVE  /\ Tiles((S \ {a, b}) \cup {Merged(a, b)}, k)
         /\ Merged(a, b) \notin S /\ EndOf(Merged(a, b)) = EndOf(b) /\ Merged(a, b) \in Chunk
<1>. DEFINE c == Merged(a, b)
<1>1. S \subseteq Chunk /\ a \in Chunk /\ b \in Chunk
  BY DEF Tiles
<1>2. \A x \in Chunk : x.at \in Nat /\ x.size \in Nat \ {0} /\ EndOf(x) = x.at + x.size /\ x.size > 0 /\ EndOf(x) \in Nat
  BY DEF Chunk, EndOf
<1>3. c \in Chunk /\ c.at = a.at /\ c.size = a.size + b.size
  BY <1>1, <1>2 DEF Chunk, Merged
<1>4. EndOf(c) = EndOf(b)
  BY <1>1, <1>2, <1>3
<1>5. \A x, y \in S : x # y => Apart(x, y)
  BY DEF Tiles
<1>. HIDE DEF c
<1>6. c \notin S
  <2>. SUFFICES ASSUME c \in S PROVE FALSE
    OBVIOUS
  <2>1. c # a /\ c # b
    BY <1>1, <1>2, <1>3
  <2>2. Apart(c, a)
    BY <1>5, <2>1
  <2>. QED BY <1>1, <1>2, <1>3, <2>2 DEF Apart
<1>7. \A x \in (S \ {a, b}) \cup {c} : x \in Chunk /\ EndOf(x) <= k
  BY <1>1, <1>3, <1>4 DEF Tiles
<1>8. ASSUME NEW x \in S \ {a, b} PROVE Apart(x, c) /\ Apart(c, x)
  <2>1. Apart(x, a) /\ Apart(x, b) /\ x \in Chunk
    BY <1>1, <1>5
  <2>. QED BY <1>1, <1>2, <1>3, <1>4, <2>1 DEF Apart
<1>9. \A x, y \in (S \ {a, b}) \cup {c} : x # y => Apart(x, y)
  BY <1>5, <1>8
<1>10. ASSUME NEW u \in 0 .. k - 1 PROVE \E x \in (S \ {a, b}) \cup {c} : x.at <= u /\ u < EndOf(x)
  <2>1. PICK x \in S : x.at <= u /\ u < EndOf(x)
    BY DEF Tiles
  <2>2. CASE x \in {a, b}
    <3>1. c.at <= u /\ u < EndOf(c)
      BY <1>1, <1>2, <1>3, <1>4, <2>1, <2>2
    <3>. QED BY <3>1
  <2>3. CASE x \notin {a, b}
    BY <2>1, <2>3
  <2>. QED BY <2>2, <2>3
<1>11. Tiles((S \ {a, b}) \cup {c}, k)
  BY <1>7, <1>9, <1>10 DEF Tiles
<1>. QED BY <1>3, <1>4, <1>6, <1>11 DEF c

(* A block in two: c below, d above.                                           *)
LEMMA TilesSplit ==
  ASSUME NEW S, NEW k \in Nat, Tiles(S, k), NEW g \in S, NEW c \in Chunk, NEW d \in Chunk,
         c.at = g.at, EndOf(c) = d.at, EndOf(d) = EndOf(g)
  PROVE  Tiles((S \ {g}) \cup {c, d}, k) /\ c \notin S /\ d \notin S /\ c # d
<1>1. S \subseteq Chunk /\ g \in Chunk
  BY DEF Tiles
<1>2. \A x \in Chunk : x.at \in Nat /\ x.size \in Nat \ {0} /\ EndOf(x) = x.at + x.size /\ x.size > 0 /\ EndOf(x) \in Nat
  BY DEF Chunk, EndOf
<1>3. \A x, y \in S : x # y => Apart(x, y)
  BY DEF Tiles
<1>4. c # d /\ c # g /\ d # g
  <2>1. d.at > c.at
    BY <1>2
  <2>2. EndOf(d) > EndOf(c)
    BY <1>2
  <2>. QED BY <1>2, <2>1, <2>2
<1>5. \A x \in Chunk : Apart(x, g) => ~(x = c) /\ ~(x = d) /\ Apart(x, c) /\ Apart(x, d) /\ Apart(c, x) /\ Apart(d, x)
  <2>. SUFFICES ASSUME NEW x \in Chunk, Apart(x, g)
                PROVE  ~(x = c) /\ ~(x = d) /\ Apart(x, c) /\ Apart(x, d) /\ Apart(c, x) /\ Apart(d, x)
    OBVIOUS
  <2>1. /\ x.at \in Nat /\ EndOf(x) \in Nat /\ x.at < EndOf(x) /\ (EndOf(x) <= g.at \/ EndOf(g) <= x.at)
        /\ c.at \in Nat /\ EndOf(c) \in Nat /\ c.at < EndOf(c)
        /\ d.at \in Nat /\ EndOf(d) \in Nat /\ d.at < EndOf(d)
        /\ g.at \in Nat /\ EndOf(g) \in Nat
    BY <1>1, <1>2 DEF Apart
  <2>. QED BY <2>1 DEF Apart
<1>6. c \notin S /\ d \notin S
  BY <1>1, <1>3, <1>4, <1>5
<1>7. \A x \in (S \ {g}) \cup {c, d} : x \in Chunk /\ EndOf(x) <= k
  <2>1. \A x \in S : x \in Chunk /\ EndOf(x) <= k
    BY DEF Tiles
  <2>2. EndOf(d) <= k /\ EndOf(c) <= k
    BY <1>1, <1>2, <2>1
  <2>. QED BY <2>1, <2>2
<1>8. ASSUME NEW x \in (S \ {g}) \cup {c, d}, NEW y \in (S \ {g}) \cup {c, d}, x # y PROVE Apart(x, y)
  <2>1. \A z \in S \ {g} : Apart(z, g) /\ z \in Chunk
    BY <1>1, <1>3
  <2>2. Apart(c, d) /\ Apart(d, c)
    BY <1>2 DEF Apart
  <2>. QED BY <1>3, <1>5, <1>8, <2>1, <2>2
<1>9. ASSUME NEW u \in 0 .. k - 1 PROVE \E x \in (S \ {g}) \cup {c, d} : x.at <= u /\ u < EndOf(x)
  <2>1. PICK x \in S : x.at <= u /\ u < EndOf(x)
    BY DEF Tiles
  <2>2. CASE x = g
    <3>1. (c.at <= u /\ u < EndOf(c)) \/ (d.at <= u /\ u < EndOf(d))
      BY <1>1, <1>2, <2>1, <2>2
    <3>. QED BY <3>1
  <2>3. CASE x # g
    BY <2>1, <2>3
  <2>. QED BY <2>2, <2>3
<1>10. Tiles((S \ {g}) \cup {c, d}, k)
  BY <1>7, <1>8, <1>9 DEF Tiles
<1>. QED BY <1>4, <1>6, <1>10

(* More memory from the kernel.                                                *)
LEMMA TilesExtend ==
  ASSUME NEW S, NEW k \in Nat, Tiles(S, k), NEW z \in Nat \ {0}
  PROVE  /\ Tiles(S \cup {[at |-> k, size |-> z]}, k + z)
         /\ [at |-> k, size |-> z] \in Chunk /\ [at |-> k, size |-> z] \notin S
<1>1. PICK b : b = [at |-> k, size |-> z]
  OBVIOUS
<1>2. b \in Chunk /\ b.at = k /\ b.size = z /\ EndOf(b) = k + z
  BY <1>1 DEF Chunk, EndOf
<1>3. \A x \in S : x \in Chunk /\ x.at \in Nat /\ EndOf(x) \in Nat /\ x.at < EndOf(x) /\ EndOf(x) <= k
  BY DEF Tiles, Chunk, EndOf
<1>4. b \notin S
  BY <1>2, <1>3
<1>5. \A x \in S : Apart(x, b) /\ Apart(b, x)
  BY <1>2, <1>3 DEF Apart
<1>6. \A x, y \in S \cup {b} : x # y => Apart(x, y)
  BY <1>5 DEF Tiles
<1>7. \A x \in S \cup {b} : x \in Chunk /\ EndOf(x) <= k + z
  BY <1>2, <1>3
<1>8. ASSUME NEW u \in 0 .. k + z - 1 PROVE \E x \in S \cup {b} : x.at <= u /\ u < EndOf(x)
  <2>1. CASE u < k
    <3>1. u \in 0 .. k - 1
      BY <2>1
    <3>. QED BY <3>1 DEF Tiles
  <2>2. CASE u >= k
    BY <1>2, <2>2
  <2>. QED BY <2>1, <2>2
<1>9. Tiles(S \cup {b}, k + z)
  BY <1>6, <1>7, <1>8 DEF Tiles
<1>. QED BY <1>1, <1>2, <1>4, <1>9

LEMMA ChunkFacts ==
  \A x \in Chunk : /\ x.at \in Nat /\ x.size \in Nat \ {0} /\ EndOf(x) = x.at + x.size
                   /\ EndOf(x) \in Nat /\ x.at < EndOf(x) /\ x \in Header
  BY DEF Chunk, Header, EndOf

(* A block goes back to the free ones: on its own, joined with the one behind, *)
(* with the one in front, or with both.                                        *)
LEMMA BackAlone ==
  ASSUME NEW F, NEW R, NEW k \in Nat, Memory(F, R, k), NEW b \in R,
         \A g \in F : EndOf(g) # b.at /\ EndOf(b) # g.at
  PROVE  Memory(F \cup {b}, R \ {b}, k)
<1>1. (F \cup {b}) \cup (R \ {b}) = F \cup R /\ (F \cup {b}) \cap (R \ {b}) = {}
  BY DEF Memory
<1>2. b \in Chunk
  BY DEF Memory, Tiles
<1>3. EndOf(b) # b.at
  BY <1>2, ChunkFacts
<1>4. \A x, y \in F \cup {b} : EndOf(x) # y.at
  BY <1>3 DEF Memory
<1>. QED BY <1>1, <1>4 DEF Memory

LEMMA BackUp ==
  ASSUME NEW F, NEW R, NEW k \in Nat, Memory(F, R, k), NEW b \in R, NEW q \in F,
         EndOf(b) = q.at, \A g \in F : EndOf(g) # b.at
  PROVE  Memory((F \ {q}) \cup {Merged(b, q)}, R \ {b}, k)
<1>1. PICK j : j = Merged(b, q)
  OBVIOUS
<1>2. Tiles(F \cup R, k) /\ F \cap R = {} /\ b \in F \cup R /\ q \in F \cup R /\ b \in Chunk /\ q \in Chunk
  BY DEF Memory, Tiles
<1>3. /\ Tiles(((F \cup R) \ {b, q}) \cup {j}, k)
      /\ j \notin F \cup R /\ EndOf(j) = EndOf(q) /\ j \in Chunk
  BY <1>1, <1>2, TilesJoin
<1>4. ((F \cup R) \ {b, q}) \cup {j} = ((F \ {q}) \cup {j}) \cup (R \ {b})
  BY <1>2
<1>5. ((F \ {q}) \cup {j}) \cap (R \ {b}) = {}
  BY <1>2, <1>3
<1>6. j.at = b.at
  BY <1>1 DEF Merged
<1>7. EndOf(j) # j.at
  BY <1>3, ChunkFacts
<1>8. \A x, y \in (F \ {q}) \cup {j} : EndOf(x) # y.at
  <2>1. \A x, y \in F : EndOf(x) # y.at
    BY DEF Memory
  <2>. QED BY <1>3, <1>6, <1>7, <2>1
<1>9. Memory((F \ {q}) \cup {j}, R \ {b}, k)
  BY <1>3, <1>4, <1>5, <1>8 DEF Memory
<1>. QED BY <1>1, <1>9

LEMMA BackDown ==
  ASSUME NEW F, NEW R, NEW k \in Nat, Memory(F, R, k), NEW b \in R, NEW p \in F,
         EndOf(p) = b.at, \A g \in F : EndOf(b) # g.at
  PROVE  Memory((F \ {p}) \cup {Merged(p, b)}, R \ {b}, k)
<1>1. PICK j : j = Merged(p, b)
  OBVIOUS
<1>2. Tiles(F \cup R, k) /\ F \cap R = {} /\ b \in F \cup R /\ p \in F \cup R /\ b \in Chunk /\ p \in Chunk
  BY DEF Memory, Tiles
<1>3. /\ Tiles(((F \cup R) \ {p, b}) \cup {j}, k)
      /\ j \notin F \cup R /\ EndOf(j) = EndOf(b) /\ j \in Chunk
  BY <1>1, <1>2, TilesJoin
<1>4. ((F \cup R) \ {p, b}) \cup {j} = ((F \ {p}) \cup {j}) \cup (R \ {b})
  BY <1>2
<1>5. ((F \ {p}) \cup {j}) \cap (R \ {b}) = {}
  BY <1>2, <1>3
<1>6. j.at = p.at
  BY <1>1 DEF Merged
<1>7. EndOf(j) # j.at
  BY <1>3, ChunkFacts
<1>8. \A x, y \in (F \ {p}) \cup {j} : EndOf(x) # y.at
  <2>1. \A x, y \in F : EndOf(x) # y.at
    BY DEF Memory
  <2>. QED BY <1>3, <1>6, <1>7, <2>1
<1>9. Memory((F \ {p}) \cup {j}, R \ {b}, k)
  BY <1>3, <1>4, <1>5, <1>8 DEF Memory
<1>. QED BY <1>1, <1>9

LEMMA BackBetween ==
  ASSUME NEW F, NEW R, NEW k \in Nat, Memory(F, R, k), NEW b \in R, NEW p \in F, NEW q \in F,
         EndOf(p) = b.at, EndOf(b) = q.at
  PROVE  Memory((F \ {p, q}) \cup {Merged(p, Merged(b, q))}, R \ {b}, k)
<1>1. PICK i : i = Merged(b, q)
  OBVIOUS
<1>2. PICK j : j = Merged(p, i)
  OBVIOUS
<1>3. /\ Tiles(F \cup R, k) /\ F \cap R = {} /\ b \in F \cup R /\ p \in F \cup R /\ q \in F \cup R
      /\ b \in Chunk /\ p \in Chunk /\ q \in Chunk
  BY DEF Memory, Tiles
<1>4. p # q /\ p # b /\ q # b
  BY <1>3, ChunkFacts
<1>5. /\ Tiles(((F \cup R) \ {b, q}) \cup {i}, k)
      /\ i \notin F \cup R /\ EndOf(i) = EndOf(q) /\ i \in Chunk /\ i.at = b.at
  BY <1>1, <1>3, TilesJoin DEF Merged
<1>6. PICK S : S = ((F \cup R) \ {b, q}) \cup {i}
  OBVIOUS
<1>7. p \in S /\ i \in S /\ p # i
  BY <1>3, <1>4, <1>5, <1>6
<1>8. Tiles((S \ {p, i}) \cup {j}, k) /\ j \notin S /\ EndOf(j) = EndOf(q) /\ j \in Chunk /\ j.at = p.at
  <2>1. EndOf(p) = i.at /\ Tiles(S, k)
    BY <1>5, <1>6
  <2>2. Tiles((S \ {p, i}) \cup {Merged(p, i)}, k) /\ Merged(p, i) \notin S /\ EndOf(Merged(p, i)) = EndOf(i) /\ Merged(p, i) \in Chunk
    BY <1>7, <2>1, TilesJoin
  <2>. QED BY <1>2, <1>5, <2>2 DEF Merged
<1>9. (S \ {p, i}) \cup {j} = ((F \ {p, q}) \cup {j}) \cup (R \ {b})
  BY <1>3, <1>4, <1>5, <1>6
<1>10. j \notin R \ {b}
  BY <1>3, <1>6, <1>8
<1>11. ((F \ {p, q}) \cup {j}) \cap (R \ {b}) = {}
  BY <1>3, <1>10
<1>12. EndOf(j) # j.at
  BY <1>8, ChunkFacts
<1>13. \A x, y \in (F \ {p, q}) \cup {j} : EndOf(x) # y.at
  <2>1. \A x, y \in F : EndOf(x) # y.at
    BY DEF Memory
  <2>. QED BY <1>8, <1>12, <2>1
<1>14. Memory((F \ {p, q}) \cup {j}, R \ {b}, k)
  BY <1>8, <1>9, <1>11, <1>13 DEF Memory
<1>. QED BY <1>1, <1>2, <1>14

LEMMA OneAhead ==
  ASSUME NEW S, NEW e \in S, NEW c \in Seq(S), NEW n \in Nat, n = Len(c)
  PROVE  /\ <<e>> \o c \in Seq(S) /\ Len(<<e>> \o c) = n + 1 /\ (<<e>> \o c)[1] = e
         /\ \A j \in 2 .. n + 1 : (<<e>> \o c)[j] = c[j - 1]
<1>1. <<e>> \in Seq(S) /\ Len(<<e>>) = 1 /\ <<e>>[1] = e
  OBVIOUS
<1>2. /\ <<e>> \o c \in Seq(S) /\ Len(<<e>> \o c) = 1 + n
      /\ \A j \in 1 .. 1 + n : (<<e>> \o c)[j] = IF j <= 1 THEN <<e>>[j] ELSE c[j - 1]
  BY <1>1, ConcatProperties
<1>3. 1 \in 1 .. 1 + n /\ \A j \in 2 .. n + 1 : j \in 1 .. 1 + n /\ ~(j <= 1)
  OBVIOUS
<1>. QED BY <1>1, <1>2, <1>3

LEMMA TwoAhead ==
  ASSUME NEW S, NEW e \in S, NEW f \in S, NEW c \in Seq(S), NEW n \in Nat, n = Len(c)
  PROVE  /\ <<e, f>> \o c \in Seq(S) /\ Len(<<e, f>> \o c) = n + 2
         /\ (<<e, f>> \o c)[1] = e /\ (<<e, f>> \o c)[2] = f
         /\ \A j \in 3 .. n + 2 : (<<e, f>> \o c)[j] = c[j - 2]
<1>1. <<e, f>> \in Seq(S) /\ Len(<<e, f>>) = 2 /\ <<e, f>>[1] = e /\ <<e, f>>[2] = f
  OBVIOUS
<1>2. /\ <<e, f>> \o c \in Seq(S) /\ Len(<<e, f>> \o c) = 2 + n
      /\ \A j \in 1 .. 2 + n : (<<e, f>> \o c)[j] = IF j <= 2 THEN <<e, f>>[j] ELSE c[j - 2]
  BY <1>1, ConcatProperties
<1>3. 1 \in 1 .. 2 + n /\ 2 \in 1 .. 2 + n /\ \A j \in 3 .. n + 2 : j \in 1 .. 2 + n /\ ~(j <= 2)
  OBVIOUS
<1>. QED BY <1>1, <1>2, <1>3

LEMMA RestIs ==
  ASSUME NEW S, NEW c \in Seq(S), NEW n \in Nat, n = Len(c), NEW i \in 2 .. 3, i <= n + 1
  PROVE  /\ SubSeq(c, i, n) \in Seq(S) /\ Len(SubSeq(c, i, n)) = n - i + 1
         /\ \A j \in 1 .. n - i + 1 : SubSeq(c, i, n)[j] = c[i + j - 1]
<1>1. \A j \in i .. n : c[j] \in S
  OBVIOUS
<1>2. i \in Int /\ n \in Int
  OBVIOUS
<1>3. /\ SubSeq(c, i, n) \in Seq(S) /\ Len(SubSeq(c, i, n)) = (IF i <= n THEN n - i + 1 ELSE 0)
      /\ \A j \in 1 .. n - i + 1 : SubSeq(c, i, n)[j] = c[i + j - 1]
  BY <1>1, <1>2, SubSeqProperties
<1>. QED BY <1>3

(* What free makes of a list of n nodes that begins where it stopped.          *)
Rejoined(c, b, n) ==
    LET up == n > 1 /\ EndOf(b) = c[2].at
        joined == IF up THEN [b EXCEPT !.size = @ + c[2].size] ELSE b
        rest == SubSeq(c, IF up THEN 3 ELSE 2, n)
    IN IF EndOf(c[1]) = b.at /\ c[1] # Base
       THEN <<[c[1] EXCEPT !.size = @ + joined.size]>> \o rest
       ELSE <<c[1], joined>> \o rest

LEMMA ReturnedIs ==
  ASSUME NEW l, NEW b, NEW c, c = From(l, StopAt(l, b)), NEW n, n = Len(c)
  PROVE  Returned(l, b) = Rejoined(c, b, n)
<1>1. Returned(l, b) = Rejoined(From(l, StopAt(l, b)), b, Len(From(l, StopAt(l, b))))
  BY DEF Returned, Rejoined
<1>. QED BY <1>1

(* free of any block that is not in the list.                                  *)
LEMMA ReturnedOK ==
  ASSUME NEW l, ListOK(l), NEW k \in Nat, NEW R, Memory(FreeOf(l), R, k), NEW b \in R
  PROVE  /\ ListOK(Returned(l, b)) /\ Memory(FreeOf(Returned(l, b)), R \ {b}, k)
         /\ \E g \in FreeOf(Returned(l, b)) : g.size >= b.size
<1>1. PICK n \in Nat \ {0} : n = Len(l)
  BY ListFacts
<1>2. PICK F : F = FreeOf(l)
  OBVIOUS
<1>3. /\ b \in Chunk /\ b \in Header /\ b.at \in Nat /\ b.size \in Nat \ {0} /\ b \notin F
      /\ \A g \in F : g \in Chunk /\ Apart(g, b)
  BY <1>2, ChunkFacts DEF Memory, Tiles
<1>4. \A i \in 1 .. n : l[i].at # b.at
  <2>. SUFFICES ASSUME NEW i \in 1 .. n, l[i].at = b.at PROVE FALSE
    OBVIOUS
  <2>1. l[i] # Base
    BY <1>3, ListFacts
  <2>2. l[i] \in F
    BY <1>1, <1>2, <2>1, ListFacts
  <2>3. Apart(l[i], b) /\ l[i] \in Chunk
    BY <1>3, <2>2
  <2>. QED BY <1>3, <2>3, ChunkFacts DEF Apart
<1>5. PICK s : s = StopAt(l, b)
  OBVIOUS
<1>6. s \in 1 .. n /\ b.at > l[s].at /\ (l[s].at < l[Nxt(n, s)].at => b.at < l[Nxt(n, s)].at)
  BY <1>1, <1>3, <1>4, <1>5, StopFits
<1>7. PICK c : c = From(l, s)
  OBVIOUS
<1>8. /\ ListOK(c) /\ FreeOf(c) = F /\ Len(c) = n /\ c[1] = l[s]
      /\ n > 1 => c[2] = l[Nxt(n, s)]
  BY <1>1, <1>2, <1>6, <1>7, FromOK
<1>9. /\ c \in Seq(Header) /\ 1 \in 1 .. n /\ Nxt(n, 1) \in 1 .. n /\ (n > 1 => Nxt(n, 1) = 2 /\ 2 \in 1 .. n)
      /\ \A i \in 1 .. n : c[i] \in Header /\ c[i].at \in Int /\ c[i].size \in Nat
      /\ \A i \in 1 .. n : c[i] # Base => c[i] \in F /\ c[i].at \in Nat
      /\ \A i, j \in 1 .. n : i # j => c[i].at # c[j].at
      /\ Base.at = -1
  <2>1. c \in Seq(Header)
    BY <1>8 DEF ListOK
  <2>2. 1 \in 1 .. n /\ Nxt(n, 1) \in 1 .. n /\ (n > 1 => Nxt(n, 1) = 2 /\ 2 \in 1 .. n)
    BY DEF Nxt
  <2>. QED BY <1>8, <2>1, <2>2, ListFacts
<1>10. b.at > c[1].at /\ (c[1].at < c[Nxt(n, 1)].at => b.at < c[Nxt(n, 1)].at)
  <2>1. CASE n > 1
    BY <1>6, <1>8, <1>9, <2>1
  <2>2. CASE n = 1
    BY <1>6, <1>8, <2>2 DEF Nxt
  <2>. QED BY <2>1, <2>2
<1>11. \A i \in 1 .. n : IF c[1].at < c[Nxt(n, 1)].at THEN c[i].at <= c[1].at \/ c[i].at >= c[Nxt(n, 1)].at
                          ELSE c[i].at <= c[1].at
  BY <1>8, <1>9, ListFacts
<1>0. c[1].at \in Int /\ c[Nxt(n, 1)].at \in Int
  BY <1>9
<1>12. ASSUME NEW g \in F PROVE \E i \in 1 .. n : g = c[i] /\ c[i] # Base
  BY <1>8 DEF FreeOf
(* Only the node in front may end where b begins ... *)
<1>13. ASSUME NEW g \in F, EndOf(g) = b.at PROVE g = c[1] /\ c[1] # Base
  <2>1. PICK i \in 1 .. n : g = c[i] /\ c[i] # Base
    BY <1>12
  <2>2. g \in Chunk /\ g.at \in Nat /\ g.at < b.at
    BY <1>3, <1>13, ChunkFacts
  <2>3. g.at <= c[1].at
    <3>1. IF c[1].at < c[Nxt(n, 1)].at THEN g.at <= c[1].at \/ g.at >= c[Nxt(n, 1)].at ELSE g.at <= c[1].at
      BY <1>11, <2>1
    <3>. QED BY <1>0, <1>3, <1>10, <2>2, <3>1
  <2>. SUFFICES ASSUME i # 1 PROVE FALSE
    BY <2>1
  <2>4. g.at < c[1].at
    BY <1>9, <2>1, <2>2, <2>3
  <2>5. c[1] # Base /\ c[1] \in F /\ c[1] # g
    BY <1>9, <2>2, <2>4
  <2>6. Apart(g, c[1]) /\ c[1] \in Chunk
    BY <1>2, <1>3, <2>5 DEF Memory, Tiles
  <2>7. c[1].at \in Nat /\ EndOf(c[1]) > c[1].at /\ EndOf(c[1]) \in Nat
    BY <2>6, ChunkFacts
  <2>. QED BY <1>3, <1>10, <1>13, <2>2, <2>4, <2>6, <2>7 DEF Apart
(* ... and only the one behind begin where b ends. *)
<1>14. ASSUME NEW g \in F, EndOf(b) = g.at PROVE n > 1 /\ g = c[2]
  <2>1. PICK i \in 1 .. n : g = c[i] /\ c[i] # Base
    BY <1>12
  <2>2. g \in Chunk /\ g.at \in Nat /\ b.at < g.at /\ EndOf(b) \in Nat
    BY <1>3, <1>14, ChunkFacts
  <2>3. c[1].at < c[Nxt(n, 1)].at /\ g.at >= c[Nxt(n, 1)].at
    <3>1. IF c[1].at < c[Nxt(n, 1)].at THEN g.at <= c[1].at \/ g.at >= c[Nxt(n, 1)].at ELSE g.at <= c[1].at
      BY <1>11, <2>1
    <3>. QED BY <1>0, <1>3, <1>10, <2>2, <3>1
  <2>4. n > 1
    <3>1. CASE n = 1
      BY <1>9, <2>3, <3>1 DEF Nxt
    <3>. QED BY <3>1
  <2>5. Nxt(n, 1) = 2 /\ 2 \in 1 .. n /\ b.at < c[2].at
    BY <1>9, <1>10, <2>3, <2>4
  <2>. SUFFICES ASSUME i # 2 PROVE FALSE
    BY <2>1, <2>4
  <2>6. g.at > c[2].at
    BY <1>9, <2>1, <2>3, <2>5
  <2>7. c[2] # Base /\ c[2] \in F
    BY <1>3, <1>9, <2>5
  <2>8. Apart(c[2], b) /\ c[2] \in Chunk
    BY <1>3, <2>7
  <2>9. c[2].at \in Nat /\ EndOf(c[2]) > c[2].at /\ EndOf(c[2]) \in Nat
    BY <2>8, ChunkFacts
  <2>. QED BY <1>3, <1>14, <2>2, <2>5, <2>6, <2>8, <2>9 DEF Apart
<1>. DEFINE up == n > 1 /\ EndOf(b) = c[2].at
            down == EndOf(c[1]) = b.at /\ c[1] # Base
<1>17. up => n > 1 /\ c[2] \in F /\ EndOf(b) = c[2].at /\ 2 \in 1 .. n
  <2>1. EndOf(b) \in Nat
    BY <1>3, ChunkFacts
  <2>2. ASSUME up PROVE c[2] # Base /\ 2 \in 1 .. n
    BY <1>9, <2>1, <2>2
  <2>. QED BY <1>9, <2>2
<1>18. down => c[1] \in F /\ EndOf(c[1]) = b.at
  BY <1>9
<1>19. ~up => \A g \in F : EndOf(b) # g.at
  BY <1>14
<1>20. ~down => \A g \in F : EndOf(g) # b.at
  BY <1>13
<1>21. Memory(F, R, k)
  BY <1>2
<1>22. PICK m : m = Returned(l, b)
  OBVIOUS
<1>23. m = LET joined == IF up THEN [b EXCEPT !.size = @ + c[2].size] ELSE b
               rest == SubSeq(c, IF up THEN 3 ELSE 2, n)
           IN IF down THEN <<[c[1] EXCEPT !.size = @ + joined.size]>> \o rest ELSE <<c[1], joined>> \o rest
  <2>1. Returned(l, b) = Rejoined(c, b, n)
    <3>1. c = From(l, StopAt(l, b)) /\ n = Len(c)
      BY <1>5, <1>7, <1>8
    <3>. QED BY <3>1, ReturnedIs
  <2>2. m = Rejoined(c, b, n)
    BY <1>22, <2>1
  <2>. QED BY <2>2 DEF Rejoined
<1>. HIDE DEF up, down
(* b put behind the node in front makes a list. *)
<1>29. ASSUME NEW P, P \in Seq(Header), Len(P) = n + 1, P[1] = c[1], P[2] = b,
              \A j \in 3 .. n + 1 : P[j] = c[j - 1]
       PROVE  ListOK(P) /\ FreeOf(P) = F \cup {b}
  <2>1. ListOK(c) /\ n \in Nat /\ n = Len(c) /\ b \in Chunk
    BY <1>3, <1>8
  <2>2. IsPut(c, P, b, n)
    BY <1>10, <1>29, <2>1 DEF IsPut
  <2>3. ListOK(P) /\ FreeOf(P) = FreeOf(c) \cup {b}
    BY <2>2, PutOK
  <2>. QED BY <1>8, <2>3
<1>24. CASE ~up /\ ~down
  <2>1. m = <<c[1], b>> \o SubSeq(c, 2, n)
    BY <1>23, <1>24
  <2>2. ListOK(m) /\ FreeOf(m) = F \cup {b}
    <3>1. PICK r : r = SubSeq(c, 2, n)
      OBVIOUS
    <3>2. r \in Seq(Header) /\ Len(r) = n - 1 /\ \A j \in 1 .. n - 1 : r[j] = c[2 + j - 1]
      BY <1>8, <1>9, <3>1, RestIs
    <3>3. /\ m \in Seq(Header) /\ Len(m) = n + 1 /\ m[1] = c[1] /\ m[2] = b
          /\ \A j \in 3 .. n + 1 : m[j] = r[j - 2]
      <4>1. n - 1 \in Nat /\ (n - 1) + 2 = n + 1
        OBVIOUS
      <4>. QED BY <1>3, <1>9, <2>1, <3>1, <3>2, <4>1, TwoAhead
    <3>4. \A j \in 3 .. n + 1 : m[j] = c[j - 1]
      <4>1. \A j \in 3 .. n + 1 : j - 2 \in 1 .. n - 1 /\ 2 + (j - 2) - 1 = j - 1
        OBVIOUS
      <4>. QED BY <3>2, <3>3, <4>1
    <3>5. /\ m \in Seq(Header) /\ Len(m) = n + 1 /\ m[1] = c[1] /\ m[2] = b
          /\ \A j \in 3 .. n + 1 : m[j] = c[j - 1]
      BY <3>3, <3>4
    <3>. QED BY <3>5, <1>29
  <2>3. Memory(F \cup {b}, R \ {b}, k)
    BY <1>19, <1>20, <1>21, <1>24, BackAlone
  <2>4. b.size >= b.size
    BY <1>3
  <2>. QED BY <1>22, <2>2, <2>3, <2>4
<1>25. CASE up /\ ~down
  <2>1. PICK q : q = c[2]
    OBVIOUS
  <2>2. /\ n > 1 /\ q \in F /\ EndOf(b) = q.at /\ 2 \in 1 .. n /\ q \in Chunk
        /\ q.size \in Nat \ {0} /\ q.at \in Nat
    BY <1>3, <1>17, <1>25, <2>1, ChunkFacts
  <2>3. PICK j : j = Merged(b, q)
    OBVIOUS
  <2>4. j \in Header /\ j.at = b.at /\ j.size = b.size + q.size /\ j.size >= b.size /\ j.size \in Nat
    BY <1>3, <2>2, <2>3 DEF Merged, Header
  <2>5. [b EXCEPT !.size = @ + q.size] = j
    BY <1>3, <2>3 DEF Merged, Header
  <2>6. m = <<c[1], j>> \o SubSeq(c, 3, n)
    BY <1>23, <1>25, <2>1, <2>5
  <2>7. PICK r : r = SubSeq(c, 2, n)
    OBVIOUS
  <2>8. r \in Seq(Header) /\ Len(r) = n - 1 /\ \A i \in 1 .. n - 1 : r[i] = c[2 + i - 1]
    BY <1>8, <1>9, <2>7, RestIs
  <2>9. PICK z : z = SubSeq(c, 3, n)
    OBVIOUS
  <2>10. z \in Seq(Header) /\ Len(z) = n - 2 /\ \A i \in 1 .. n - 2 : z[i] = c[3 + i - 1]
    <3>1. 3 <= n + 1 /\ n - 3 + 1 = n - 2
      BY <2>2
    <3>. QED BY <1>8, <1>9, <2>9, <3>1, RestIs
  <2>11. n - 1 \in Nat /\ (n - 1) + 2 = n + 1 /\ n - 2 \in Nat /\ (n - 2) + 2 = n
    BY <2>2
  (* with the block behind the first, ... *)
  <2>12. PICK P : P = <<c[1], b>> \o r
    OBVIOUS
  <2>13. /\ P \in Seq(Header) /\ Len(P) = n + 1 /\ P[1] = c[1] /\ P[2] = b
         /\ \A i \in 3 .. n + 1 : P[i] = c[i - 1]
    <3>1. /\ P \in Seq(Header) /\ Len(P) = n + 1 /\ P[1] = c[1] /\ P[2] = b
          /\ \A i \in 3 .. n + 1 : P[i] = r[i - 2]
      BY <1>3, <1>9, <2>8, <2>11, <2>12, TwoAhead
    <3>2. \A i \in 3 .. n + 1 : i - 2 \in 1 .. n - 1 /\ 2 + (i - 2) - 1 = i - 1
      OBVIOUS
    <3>. QED BY <2>8, <3>1, <3>2
  <2>14. ListOK(P) /\ FreeOf(P) = F \cup {b}
    BY <2>13, <1>29
  (* without the next, ... *)
  <2>15. PICK T : T = <<c[1], b>> \o z
    OBVIOUS
  <2>16. /\ T \in Seq(Header) /\ Len(T) = n /\ T[1] = c[1] /\ T[2] = b
         /\ \A i \in 3 .. n : T[i] = z[i - 2]
    BY <1>3, <1>9, <2>10, <2>11, <2>15, TwoAhead
  <2>17. \A i \in 3 .. n : z[i - 2] = c[i]
    <3>1. \A i \in 3 .. n : i - 2 \in 1 .. n - 2 /\ 3 + (i - 2) - 1 = i
      OBVIOUS
    <3>. QED BY <2>10, <3>1
  <2>18. P[3] = q /\ q # Base /\ b # Base
    <3>1. 3 \in 3 .. n + 1 /\ 3 - 1 = 2
      BY <2>2
    <3>. QED BY <1>3, <1>9, <2>1, <2>2, <2>13, <3>1
  <2>19. \A i \in 1 .. n : T[i] = IF i < 3 THEN P[i] ELSE P[i + 1]
    <3>. SUFFICES ASSUME NEW i \in 1 .. n PROVE T[i] = IF i < 3 THEN P[i] ELSE P[i + 1]
      OBVIOUS
    <3>1. CASE i < 3
      <4>1. i = 1 \/ i = 2
        BY <3>1
      <4>. QED BY <2>13, <2>16, <3>1, <4>1
    <3>2. CASE ~(i < 3)
      <4>1. i \in 3 .. n /\ i + 1 \in 3 .. n + 1 /\ (i + 1) - 1 = i
        BY <3>2
      <4>2. P[i + 1] = c[i] /\ T[i] = c[i]
        BY <2>13, <2>16, <2>17, <4>1
      <4>. QED BY <3>2, <4>2
    <3>. QED BY <3>1, <3>2
  <2>20. ListOK(T) /\ FreeOf(T) = (F \cup {b}) \ {q}
    <3>1. n + 1 \in Nat /\ 3 \in 2 .. n + 1 /\ (n + 1) - 1 = n
      BY <2>2
    <3>2. P[3] # Base /\ n + 1 = Len(P) /\ Len(T) = (n + 1) - 1 /\ T \in Seq(Header)
      BY <2>13, <2>16, <2>18, <3>1
    <3>3. \A i \in 1 .. (n + 1) - 1 : T[i] = IF i < 3 THEN P[i] ELSE P[i + 1]
      BY <2>19, <3>1
    <3>4. ListOK(T) /\ FreeOf(T) = FreeOf(P) \ {P[3]}
      <4>1. IsTaken(P, T, n + 1, 3)
        BY <2>14, <3>1, <3>2, <3>3 DEF IsTaken
      <4>. QED BY <4>1, TakeOK
    <3>. QED BY <2>14, <2>18, <3>4
  (* and the block as large as both.  *)
  <2>21. /\ m \in Seq(Header) /\ Len(m) = n /\ m[1] = c[1] /\ m[2] = j
         /\ \A i \in 3 .. n : m[i] = z[i - 2]
    BY <1>9, <2>4, <2>6, <2>9, <2>10, <2>11, TwoAhead
  <2>22. \A i \in 1 .. n : i # 2 => m[i] = T[i]
    <3>1. \A i \in 1 .. n : i = 1 \/ i = 2 \/ i \in 3 .. n
      OBVIOUS
    <3>. QED BY <2>16, <2>21, <3>1
  <2>23. ListOK(m) /\ FreeOf(m) = (((F \cup {b}) \ {q}) \ {b}) \cup {j}
    <3>1. 2 \in 1 .. n /\ n \in Nat /\ n = Len(T) /\ T[2] # Base /\ m[2].at = T[2].at
      BY <2>2, <2>4, <2>16, <2>18, <2>21
    <3>2. ListOK(m) /\ FreeOf(m) = (FreeOf(T) \ {T[2]}) \cup {m[2]}
      <4>1. IsResized(T, m, n, 2)
        BY <2>20, <2>21, <2>22, <3>1 DEF IsResized
      <4>. QED BY <4>1, ResizeOK
    <3>. QED BY <2>16, <2>20, <2>21, <3>2
  <2>24. FreeOf(m) = (F \ {q}) \cup {j}
    BY <1>3, <2>23
  <2>25. Memory((F \ {q}) \cup {j}, R \ {b}, k)
    BY <1>20, <1>21, <1>25, <2>2, <2>3, BackUp
  <2>. QED BY <1>22, <2>4, <2>23, <2>24, <2>25
<1>26. CASE ~up /\ down
  <2>1. PICK p : p = c[1]
    OBVIOUS
  <2>2. p \in F /\ EndOf(p) = b.at /\ p \in Chunk /\ p # Base
    BY <1>3, <1>18, <1>26, <2>1 DEF down
  <2>3. PICK j : j = Merged(p, b)
    OBVIOUS
  <2>4. /\ p.size \in Nat \ {0} /\ p.at \in Nat /\ p \in Header
    BY <2>2, ChunkFacts
  <2>5. j \in Header /\ j.at = p.at /\ j.size = p.size + b.size /\ j.size >= b.size /\ j.size \in Nat
    BY <1>3, <2>3, <2>4 DEF Merged, Header
  <2>6. [p EXCEPT !.size = @ + b.size] = j
    BY <2>3, <2>4 DEF Merged, Header
  <2>7. m = <<j>> \o SubSeq(c, 2, n)
    BY <1>23, <1>26, <2>1, <2>6
  <2>8. PICK r : r = SubSeq(c, 2, n)
    OBVIOUS
  <2>9. r \in Seq(Header) /\ Len(r) = n - 1 /\ \A i \in 1 .. n - 1 : r[i] = c[2 + i - 1]
    BY <1>8, <1>9, <2>8, RestIs
  <2>10. m \in Seq(Header) /\ Len(m) = n /\ m[1] = j /\ \A i \in 2 .. n : m[i] = r[i - 1]
    <3>1. n - 1 \in Nat /\ (n - 1) + 1 = n
      OBVIOUS
    <3>. QED BY <2>5, <2>7, <2>8, <2>9, <3>1, OneAhead
  <2>11. \A i \in 1 .. n : i # 1 => m[i] = c[i]
    <3>1. \A i \in 1 .. n : i # 1 => i \in 2 .. n /\ i - 1 \in 1 .. n - 1 /\ 2 + (i - 1) - 1 = i
      OBVIOUS
    <3>. QED BY <2>9, <2>10, <3>1
  <2>12. ListOK(m) /\ FreeOf(m) = (F \ {p}) \cup {j}
    <3>1. 1 \in 1 .. n /\ n \in Nat /\ n = Len(c) /\ c[1] # Base /\ m[1].at = c[1].at
      BY <1>8, <1>9, <2>1, <2>2, <2>5, <2>10
    <3>2. ListOK(m) /\ FreeOf(m) = (FreeOf(c) \ {c[1]}) \cup {m[1]}
      <4>1. IsResized(c, m, n, 1)
        BY <1>8, <2>10, <2>11, <3>1 DEF IsResized
      <4>. QED BY <4>1, ResizeOK
    <3>. QED BY <1>8, <2>1, <2>10, <3>2
  <2>13. Memory((F \ {p}) \cup {j}, R \ {b}, k)
    BY <1>19, <1>21, <1>26, <2>2, <2>3, BackDown
  <2>. QED BY <1>22, <2>5, <2>12, <2>13
<1>27. CASE up /\ down
  <2>1. PICK p : p = c[1]
    OBVIOUS
  <2>2. p \in F /\ EndOf(p) = b.at /\ p \in Chunk /\ p # Base
    BY <1>3, <1>18, <1>27, <2>1 DEF down
  <2>3. PICK q : q = c[2]
    OBVIOUS
  <2>4. n > 1 /\ q \in F /\ EndOf(b) = q.at /\ 2 \in 1 .. n /\ q \in Chunk
    BY <1>3, <1>17, <1>27, <2>3
  <2>5. /\ p.size \in Nat \ {0} /\ p.at \in Nat /\ p \in Header
        /\ q.size \in Nat \ {0} /\ q.at \in Nat
    BY <2>2, <2>4, ChunkFacts
  <2>6. PICK i : i = Merged(b, q)
    OBVIOUS
  <2>7. PICK j : j = Merged(p, i)
    OBVIOUS
  <2>8. i.size = b.size + q.size /\ [b EXCEPT !.size = @ + q.size] = i
    BY <1>3, <2>6 DEF Merged, Header
  <2>9. j \in Header /\ j.at = p.at /\ j.size >= b.size
    <3>1. j.size = p.size + (b.size + q.size) /\ j.at = p.at
      BY <2>7, <2>8 DEF Merged
    <3>2. p.size + (b.size + q.size) \in Nat /\ p.size + (b.size + q.size) >= b.size
      BY <1>3, <2>5
    <3>3. j = [at |-> p.at, size |-> p.size + (b.size + q.size)]
      BY <2>7, <2>8 DEF Merged
    <3>. QED BY <2>5, <3>1, <3>2, <3>3 DEF Header
  <2>10. [p EXCEPT !.size = @ + i.size] = j
    BY <2>5, <2>7 DEF Merged, Header
  <2>11. m = <<j>> \o SubSeq(c, 3, n)
    BY <1>23, <1>27, <2>1, <2>3, <2>8, <2>10
  <2>12. PICK z : z = SubSeq(c, 3, n)
    OBVIOUS
  <2>13. z \in Seq(Header) /\ Len(z) = n - 2 /\ \A v \in 1 .. n - 2 : z[v] = c[3 + v - 1]
    <3>1. 3 <= n + 1 /\ n - 3 + 1 = n - 2
      BY <2>4
    <3>. QED BY <1>8, <1>9, <2>12, <3>1, RestIs
  <2>14. n - 2 \in Nat /\ (n - 2) + 1 = n - 1 /\ n - 1 \in Nat
    BY <2>4
  <2>15. PICK T : T = <<p>> \o z
    OBVIOUS
  <2>16. T \in Seq(Header) /\ Len(T) = n - 1 /\ T[1] = p /\ \A v \in 2 .. n - 1 : T[v] = z[v - 1]
    BY <2>5, <2>13, <2>14, <2>15, OneAhead
  <2>17. \A v \in 2 .. n - 1 : z[v - 1] = c[v + 1]
    <3>1. \A v \in 2 .. n - 1 : v - 1 \in 1 .. n - 2 /\ 3 + (v - 1) - 1 = v + 1
      OBVIOUS
    <3>. QED BY <2>13, <3>1
  <2>18. \A v \in 1 .. n - 1 : T[v] = IF v < 2 THEN c[v] ELSE c[v + 1]
    <3>1. \A v \in 1 .. n - 1 : (v < 2 => v = 1) /\ (~(v < 2) => v \in 2 .. n - 1)
      OBVIOUS
    <3>. QED BY <2>1, <2>16, <2>17, <3>1
  <2>19. ListOK(T) /\ FreeOf(T) = F \ {q}
    <3>1. c[2] # Base /\ 2 \in 2 .. n /\ n \in Nat
      BY <1>9, <2>3, <2>4, <2>5
    <3>2. ListOK(T) /\ FreeOf(T) = FreeOf(c) \ {c[2]}
      <4>1. IsTaken(c, T, n, 2)
        BY <1>8, <2>16, <2>18, <3>1 DEF IsTaken
      <4>. QED BY <4>1, TakeOK
    <3>. QED BY <1>8, <2>3, <3>2
  <2>20. m \in Seq(Header) /\ Len(m) = n - 1 /\ m[1] = j /\ \A v \in 2 .. n - 1 : m[v] = z[v - 1]
    BY <2>9, <2>11, <2>12, <2>13, <2>14, OneAhead
  <2>21. \A v \in 1 .. n - 1 : v # 1 => m[v] = T[v]
    <3>1. \A v \in 1 .. n - 1 : v # 1 => v \in 2 .. n - 1
      OBVIOUS
    <3>. QED BY <2>16, <2>20, <3>1
  <2>22. ListOK(m) /\ FreeOf(m) = ((F \ {q}) \ {p}) \cup {j}
    <3>1. 1 \in 1 .. n - 1
      BY <2>4
    <3>2. n - 1 \in Nat /\ n - 1 = Len(T) /\ T[1] # Base /\ m[1].at = T[1].at
      BY <2>2, <2>9, <2>14, <2>16, <2>20
    <3>3. ListOK(m) /\ FreeOf(m) = (FreeOf(T) \ {T[1]}) \cup {m[1]}
      <4>1. IsResized(T, m, n - 1, 1)
        BY <2>19, <2>20, <2>21, <3>1, <3>2 DEF IsResized
      <4>. QED BY <4>1, ResizeOK
    <3>. QED BY <2>16, <2>19, <2>20, <3>3
  <2>23. FreeOf(m) = (F \ {p, q}) \cup {j}
    BY <2>22
  <2>24. Memory((F \ {p, q}) \cup {j}, R \ {b}, k)
    BY <1>21, <2>2, <2>4, <2>6, <2>7, BackBetween
  <2>. QED BY <1>22, <2>9, <2>22, <2>23, <2>24
<1>. QED BY <1>24, <1>25, <1>26, <1>27

(* malloc finds a node if there is one of the size.                            *)
LEMMA FitIs ==
  ASSUME NEW l, ListOK(l), NEW u \in Nat, NEW n \in Nat, n = Len(l)
  PROVE  /\ \A i \in 1 .. n : l[i].size >= u => Fit(l, u) # 0
         /\ Fit(l, u) # 0 => Found(l, u) \in 1 .. n /\ l[Found(l, u)].size >= u
<1>. DEFINE O == Order(l)
            I == {i \in 1 .. Len(O) : l[O[i]].size >= u}
<1>1. \A i \in 1 .. n : (i % n) + 1 = Nxt(n, i) /\ Nxt(n, i) \in 1 .. n
  BY NxtIs
<1>2. O = [i \in 1 .. n |-> Nxt(n, i)]
  BY <1>1 DEF Order
<1>3. Len(O) = n /\ \A i \in 1 .. n : O[i] = Nxt(n, i) /\ O[i] \in 1 .. n
  BY <1>1, <1>2
<1>4. Fit(l, u) = IF I # {} THEN Min(I) ELSE 0
  BY DEF Fit, SelectInSeq
<1>5. \A i \in 1 .. n : \E j \in 1 .. n : O[j] = i
  <2>. SUFFICES ASSUME NEW i \in 1 .. n PROVE \E j \in 1 .. n : Nxt(n, j) = i
    BY <1>3
  <2>1. CASE i = 1
    BY <2>1 DEF Nxt
  <2>2. CASE i # 1
    <3>1. i - 1 \in 1 .. n /\ Nxt(n, i - 1) = i
      BY <2>2 DEF Nxt
    <3>. QED BY <3>1
  <2>. QED BY <2>1, <2>2
<1>6. Found(l, u) = O[Fit(l, u)]
  BY DEF Found
<1>7. I # {} => Min(I) \in I
  <2>1. I \in SUBSET Nat
    BY <1>3
  <2>. QED BY <2>1, MinIn
<1>8. \A i \in I : i \in 1 .. n /\ i # 0 /\ l[O[i]].size >= u
  BY <1>3
<1>9. \A i \in 1 .. n : l[i].size >= u => I # {}
  BY <1>3, <1>5
<1>. HIDE DEF O, I
<1>10. \A i \in 1 .. n : l[i].size >= u => Fit(l, u) # 0
  BY <1>4, <1>7, <1>8, <1>9
<1>11. Fit(l, u) # 0 => Fit(l, u) \in I
  BY <1>4, <1>7
<1>. QED BY <1>3, <1>6, <1>8, <1>10, <1>11

(* The tail of the node it finds is given out.                                 *)
LEMMA CutOK ==
  ASSUME NEW l, ListOK(l), NEW k \in Nat, NEW R, Memory(FreeOf(l), R, k),
         NEW u \in Nat \ {0}, Fit(l, u) # 0
  PROVE  /\ ListOK(Cut(l, u)) /\ Memory(FreeOf(Cut(l, u)), R \cup {Given(l, u)}, k)
         /\ Given(l, u) \in Chunk /\ Given(l, u).size = u /\ Given(l, u) \notin R
<1>1. PICK n \in Nat \ {0} : n = Len(l)
  BY ListFacts
<1>2. PICK F : F = FreeOf(l)
  OBVIOUS
<1>3. PICK i : i = Found(l, u)
  OBVIOUS
<1>4. i \in 1 .. n /\ l[i].size >= u
  BY <1>1, <1>3, FitIs
<1>5. PICK x : x = l[i]
  OBVIOUS
<1>6. x # Base /\ x \in F
  <2>1. Base.size = 0 /\ x.size \in Nat
    BY <1>1, <1>4, <1>5, ListFacts
  <2>2. x # Base
    BY <1>4, <1>5, <2>1
  <2>. QED BY <1>1, <1>2, <1>4, <1>5, <2>2, ListFacts
<1>7. /\ Tiles(F \cup R, k) /\ F \cap R = {} /\ x \in Chunk /\ x \notin R
      /\ \A y, z \in F : EndOf(y) # z.at
      /\ \A y \in F : y # x => Apart(y, x)
      /\ \A y \in F : y \in Chunk
  BY <1>2, <1>6 DEF Memory, Tiles
<1>8. x.at \in Nat /\ x.size \in Nat \ {0} /\ EndOf(x) = x.at + x.size /\ EndOf(x) \in Nat /\ x.size >= u
  BY <1>4, <1>5, <1>7, ChunkFacts
<1>9. n > 1
  <2>1. PICK j \in 1 .. n : l[j] = Base
    BY <1>1, ListFacts
  <2>2. j # i
    BY <1>5, <1>6, <2>1
  <2>. QED BY <1>4, <2>1, <2>2
<1>10. PICK prev : prev = IF i = 1 THEN n ELSE i - 1
  OBVIOUS
<1>11. prev \in 1 .. n /\ Nxt(n, prev) = i
  BY <1>4, <1>9, <1>10 DEF Nxt
<1>12. PICK c : c = From(l, prev)
  OBVIOUS
<1>13. ListOK(c) /\ FreeOf(c) = F /\ Len(c) = n /\ c[2] = x
  BY <1>1, <1>2, <1>5, <1>9, <1>11, <1>12, FromOK
<1>14. c \in Seq(Header) /\ 2 \in 2 .. n /\ 2 \in 1 .. n
  BY <1>9, <1>13 DEF ListOK
<1>15. Cut(l, u) = IF x.size = u THEN RemoveAt(c, 2) ELSE [c EXCEPT ![2].size = @ - u]
  <2>1. Cut(l, u) = IF c[2].size = u THEN RemoveAt(c, 2) ELSE [c EXCEPT ![2].size = @ - u]
    <3>1. Len(l) # 1 /\ Found(l, u) = i /\ From(l, IF i = 1 THEN Len(l) ELSE i - 1) = c
      BY <1>1, <1>3, <1>9, <1>10, <1>12
    <3>. QED BY <3>1 DEF Cut
  <2>. QED BY <1>13, <2>1
<1>16. PICK d : d = [at |-> EndOf(x) - u, size |-> u]
  OBVIOUS
<1>17. Given(l, u) = d
  BY <1>3, <1>5, <1>16 DEF Given
<1>18. d \in Chunk /\ d.at = EndOf(x) - u /\ d.size = u /\ EndOf(d) = EndOf(x)
  <2>1. EndOf(x) - u \in Nat /\ (EndOf(x) - u) + u = EndOf(x)
    BY <1>8
  <2>. QED BY <1>16, <2>1 DEF Chunk, EndOf
<1>19. PICK m : m = Cut(l, u)
  OBVIOUS
<1>20. CASE x.size = u
  <2>1. d = x
    <3>1. EndOf(x) - u = x.at
      BY <1>8, <1>20
    <3>2. x = [at |-> x.at, size |-> x.size]
      BY <1>7 DEF Chunk
    <3>. QED BY <1>16, <1>20, <3>1, <3>2
  <2>2. /\ m \in Seq(Header) /\ Len(m) = n - 1
        /\ \A j \in 1 .. n - 1 : m[j] = IF j < 2 THEN c[j] ELSE c[j + 1]
    BY <1>13, <1>14, <1>15, <1>19, <1>20, RemoveAtFacts
  <2>3. ListOK(m) /\ FreeOf(m) = F \ {x}
    <3>1. ListOK(m) /\ FreeOf(m) = FreeOf(c) \ {c[2]}
      <4>1. IsTaken(c, m, n, 2)
        BY <1>6, <1>13, <1>14, <2>2 DEF IsTaken
      <4>. QED BY <4>1, TakeOK
    <3>. QED BY <1>13, <3>1
  <2>4. (F \ {x}) \cup (R \cup {x}) = F \cup R /\ (F \ {x}) \cap (R \cup {x}) = {}
    BY <1>6, <1>7
  <2>5. Memory(F \ {x}, R \cup {x}, k)
    BY <1>7, <2>4 DEF Memory
  <2>. QED BY <1>7, <1>17, <1>18, <1>19, <2>1, <2>3, <2>5
<1>21. CASE x.size # u
  <2>1. x.size - u \in Nat \ {0} /\ x.size - u < x.size
    BY <1>8, <1>21
  <2>2. PICK e : e = [at |-> x.at, size |-> x.size - u]
    OBVIOUS
  <2>3. e \in Chunk /\ e \in Header /\ e.at = x.at /\ EndOf(e) = EndOf(x) - u
    <3>1. x.at + (x.size - u) = EndOf(x) - u
      BY <1>8
    <3>. QED BY <1>8, <2>1, <2>2, <3>1 DEF Chunk, Header, EndOf
  <2>4. [x EXCEPT !.size = @ - u] = e
    BY <1>7, <2>2 DEF Chunk
  <2>5. m = [c EXCEPT ![2] = e]
    BY <1>13, <1>15, <1>19, <1>21, <2>4
  <2>6. m \in Seq(Header) /\ Len(m) = n /\ m[2] = e /\ \A j \in 1 .. n : j # 2 => m[j] = c[j]
    BY <1>13, <1>14, <2>3, <2>5
  <2>7. ListOK(m) /\ FreeOf(m) = (F \ {x}) \cup {e}
    <3>1. ListOK(m) /\ FreeOf(m) = (FreeOf(c) \ {c[2]}) \cup {m[2]}
      <4>1. IsResized(c, m, n, 2)
        BY <1>6, <1>13, <1>14, <2>3, <2>6 DEF IsResized
      <4>. QED BY <4>1, ResizeOK
    <3>. QED BY <1>13, <2>6, <3>1
  <2>8. Tiles(((F \cup R) \ {x}) \cup {e, d}, k) /\ e \notin F \cup R /\ d \notin F \cup R /\ e # d
    BY <1>6, <1>7, <1>18, <2>3, TilesSplit
  <2>9. ((F \cup R) \ {x}) \cup {e, d} = ((F \ {x}) \cup {e}) \cup (R \cup {d})
    BY <1>7
  <2>10. ((F \ {x}) \cup {e}) \cap (R \cup {d}) = {}
    BY <1>7, <2>8
  <2>11. ASSUME NEW y \in F \ {x} PROVE EndOf(e) # y.at
    <3>1. Apart(y, x) /\ y.at \in Nat /\ EndOf(y) \in Nat /\ y.at < EndOf(y)
      BY <1>7, ChunkFacts
    <3>2. x.at < EndOf(e) /\ EndOf(e) < EndOf(x) /\ EndOf(e) \in Nat
      BY <1>8, <2>1, <2>3, ChunkFacts
    <3>. QED BY <1>8, <3>1, <3>2 DEF Apart
  <2>12. EndOf(e) # e.at
    BY <2>3, ChunkFacts
  <2>13. \A y, z \in (F \ {x}) \cup {e} : EndOf(y) # z.at
    BY <1>6, <1>7, <2>3, <2>11, <2>12
  <2>14. Memory((F \ {x}) \cup {e}, R \cup {d}, k)
    BY <2>8, <2>9, <2>10, <2>13 DEF Memory
  <2>. QED BY <1>17, <1>18, <1>19, <2>7, <2>8, <2>14
<1>. QED BY <1>20, <1>21

(* morecore, if malloc needs it, and the block malloc gives out.               *)
LEMMA ListedOK ==
  ASSUME NEW u \in Nat \ {0}, UmallocInv
  PROVE  LET m == Cut(Listed(u), u)
             g == Given(Listed(u), u)
         IN /\ ListOK(m) /\ Memory(FreeOf(m), (mine \cup own) \cup {g}, Break(u)) /\ Break(u) \in Nat
            /\ g \in Chunk /\ g.size = u /\ g \notin mine \cup own
<1>0. MoreUnits \in Nat \ {0}
  BY UmallocAssumption
<1>1. ListOK(free) /\ brk \in Nat /\ Memory(FreeOf(free), mine \cup own, brk)
  BY DEF UmallocInv
<1>2. PICK R : R = mine \cup own
  OBVIOUS
<1>3. ListOK(Listed(u)) /\ Memory(FreeOf(Listed(u)), R, Break(u)) /\ Break(u) \in Nat /\ Fit(Listed(u), u) # 0
  <2>1. CASE ~NoFit(u)
    BY <1>1, <1>2, <2>1 DEF Listed, Break, NoFit
  <2>2. CASE NoFit(u)
    <3>1. PICK z \in Nat \ {0} : z = More(u) /\ z >= u
      <4>1. More(u) \in {u, MoreUnits} /\ More(u) >= u
        <5>1. \E a \in {u, MoreUnits} : \A c \in {u, MoreUnits} : a >= c
          <6>1. CASE u >= MoreUnits
            BY <1>0, <6>1
          <6>2. CASE ~(u >= MoreUnits)
            BY <1>0, <6>2
          <6>. QED BY <6>1, <6>2
        <5>. QED BY <5>1 DEF More, Max
      <4>. QED BY <1>0, <4>1
    <3>2. PICK b : b = [at |-> brk, size |-> z]
      OBVIOUS
    <3>3. PICK F : F = FreeOf(free)
      OBVIOUS
    <3>4. Tiles((F \cup R) \cup {b}, brk + z) /\ b \in Chunk /\ b \notin F \cup R
      BY <1>1, <1>2, <3>2, <3>3, TilesExtend DEF Memory
    <3>5. (F \cup R) \cup {b} = F \cup (R \cup {b}) /\ F \cap (R \cup {b}) = {} /\ (R \cup {b}) \ {b} = R
      BY <1>1, <1>2, <3>3, <3>4 DEF Memory
    <3>6. Memory(F, R \cup {b}, brk + z)
      BY <1>1, <3>3, <3>4, <3>5 DEF Memory
    <3>7. b \in R \cup {b} /\ brk + z \in Nat
      BY <1>1
    <3>8. PICK m : m = Returned(free, b)
      OBVIOUS
    <3>9. ListOK(m) /\ Memory(FreeOf(m), R, brk + z) /\ \E g \in FreeOf(m) : g.size >= z
      <4>1. b.size = z
        BY <3>2
      <4>. QED BY <1>1, <3>3, <3>5, <3>6, <3>7, <3>8, <4>1, ReturnedOK
    <3>10. Listed(u) = m /\ Break(u) = brk + z
      BY <2>2, <3>1, <3>2, <3>8 DEF Listed, Grown, Break
    <3>11. \E i \in 1 .. Len(m) : m[i].size >= u
      <4>1. PICK g \in FreeOf(m) : g.size >= z
        BY <3>9
      <4>2. PICK i \in 1 .. Len(m) : g = m[i]
        BY DEF FreeOf
      <4>3. m[i].size \in Nat
        BY <3>9, ListFacts
      <4>. QED BY <3>1, <4>1, <4>2, <4>3
    <3>12. Fit(m, u) # 0
      <4>1. Len(m) \in Nat
        BY <3>9, ListFacts
      <4>. QED BY <3>9, <3>11, <4>1, FitIs
    <3>. QED BY <3>7, <3>9, <3>10, <3>12
  <2>. QED BY <2>1, <2>2
<1>. QED BY <1>2, <1>3, CutOK

-----------------------------------------------------------------------------
(* The operations.                                                             *)
LEMMA UmallocStart == UmallocInit => UmallocInv
<1>. SUFFICES ASSUME UmallocInit PROVE UmallocInv
  OBVIOUS
<1>1. free = <<Base>> /\ brk = 0 /\ mine = {} /\ own = {} /\ stacks = {}
  BY DEF UmallocInit
<1>2. Len(free) = 1 /\ free[1] = Base /\ free \in Seq(Header) /\ Base.at = -1
  <2>1. Base \in Header /\ Base.at = -1
    BY DEF Header, Base
  <2>. QED BY <1>1, <2>1
<1>3. Circle(1, Ats(free))
  <2>1. \A i \in 1 .. 1 : Ats(free)[i] = -1 /\ Nxt(1, i) \in 1 .. 1 /\ i = 1
    BY <1>2 DEF Ats, Nxt
  <2>2. 1 \in 1 .. 1
    OBVIOUS
  <2>. QED BY <2>1, <2>2 DEF Circle
<1>4. ListOK(free)
  <2>1. \A i \in 1 .. 1 : free[i] = Base
    BY <1>2
  <2>. QED BY <1>2, <1>3, <2>1 DEF ListOK
<1>5. FreeOf(free) = {}
  BY <1>2 DEF FreeOf
<1>6. Memory({}, {}, 0)
  BY DEF Memory, Tiles
<1>. QED BY <1>1, <1>4, <1>5, <1>6 DEF UmallocInv, StacksApart

LEMMA MallocStep ==
  ASSUME UmallocInv, NEW payload \in Payloads, Malloc(payload)
  PROVE  UmallocInv'
<1>1. PICK u \in Nat \ {0} : u = Units(payload)
  BY UmallocAssumption DEF Units
<1>2. PICK g : g = Given(Listed(u), u)
  OBVIOUS
<1>3. PICK m : m = Cut(Listed(u), u)
  OBVIOUS
<1>4. /\ ListOK(m) /\ Memory(FreeOf(m), (mine \cup own) \cup {g}, Break(u)) /\ Break(u) \in Nat
      /\ g \notin mine \cup own
  BY <1>2, <1>3, ListedOK
<1>5. free' = m /\ brk' = Break(u) /\ mine' = mine \cup {g} /\ own' = own /\ stacks' = stacks
  BY <1>1, <1>2, <1>3 DEF Malloc
<1>6. mine' \cup own' = (mine \cup own) \cup {g} /\ mine' \cap own' = {}
  BY <1>4, <1>5 DEF UmallocInv
<1>7. StacksApart'
  BY <1>5 DEF UmallocInv, StacksApart
<1>. QED BY <1>4, <1>5, <1>6, <1>7 DEF UmallocInv

LEMMA FreeBlockStep ==
  ASSUME UmallocInv, FreeBlock
  PROVE  UmallocInv'
<1>1. PICK b \in mine :
        /\ \A s \in stacks : ~(b.at < s /\ s < EndOf(b))
        /\ free' = Returned(free, b) /\ mine' = mine \ {b}
  BY DEF FreeBlock
<1>2. brk' = brk /\ own' = own /\ stacks' = stacks
  BY DEF FreeBlock
<1>3. ListOK(free) /\ brk \in Nat /\ Memory(FreeOf(free), mine \cup own, brk) /\ b \in mine \cup own
  BY <1>1 DEF UmallocInv
<1>4. ListOK(free') /\ Memory(FreeOf(free'), (mine \cup own) \ {b}, brk)
  BY <1>1, <1>3, ReturnedOK
<1>5. (mine \cup own) \ {b} = mine' \cup own' /\ mine' \cap own' = {}
  BY <1>1, <1>2 DEF UmallocInv
<1>6. StacksApart'
  <2>1. ASSUME NEW s \in stacks, NEW c \in mine, c.at < s, s + PageUnits <= EndOf(c) PROVE c # b
    <3>1. c \in Chunk /\ s \in Int /\ PageUnits \in Nat \ {0}
      BY UmallocAssumption DEF UmallocInv, Memory, Tiles
    <3>2. s < EndOf(c)
      BY <2>1, <3>1, ChunkFacts
    <3>. QED BY <1>1, <2>1, <3>2
  <2>. QED BY <1>1, <1>2, <2>1 DEF UmallocInv, StacksApart
<1>. QED BY <1>2, <1>3, <1>4, <1>5, <1>6 DEF UmallocInv

LEMMA OwnSbrkStep ==
  ASSUME UmallocInv, NEW n \in OwnSbrks, OwnSbrk(n)
  PROVE  UmallocInv'
<1>1. n \in Nat \ {0}
  BY UmallocAssumption
<1>2. PICK b : b = [at |-> brk, size |-> n]
  OBVIOUS
<1>3. /\ free' = free /\ mine' = mine /\ stacks' = stacks
      /\ brk' = brk + n /\ own' = own \cup {b}
  BY <1>2 DEF OwnSbrk
<1>4. brk \in Nat /\ Tiles(FreeOf(free) \cup (mine \cup own), brk)
  BY DEF UmallocInv, Memory
<1>5. Tiles((FreeOf(free) \cup (mine \cup own)) \cup {b}, brk + n) /\ b \notin FreeOf(free) \cup (mine \cup own)
  BY <1>1, <1>2, <1>4, TilesExtend
<1>6. (FreeOf(free) \cup (mine \cup own)) \cup {b} = FreeOf(free) \cup (mine' \cup own')
  BY <1>3
<1>7. mine' \cap own' = {} /\ FreeOf(free) \cap (mine' \cup own') = {}
  BY <1>3, <1>5 DEF UmallocInv, Memory
<1>8. Memory(FreeOf(free'), mine' \cup own', brk')
  BY <1>3, <1>5, <1>6, <1>7 DEF UmallocInv, Memory
<1>9. StacksApart'
  BY <1>3 DEF UmallocInv, StacksApart
<1>. QED BY <1>1, <1>3, <1>4, <1>7, <1>8, <1>9 DEF UmallocInv

LEMMA AlignedIs ==
  ASSUME NEW a \in Nat
  PROVE  Aligned(a) \in Nat /\ a <= Aligned(a) /\ Aligned(a) < a + PageUnits
<1>1. \A P \in Nat \ {0}, x \in Nat : x \div P \in Nat /\ P * (x \div P) \in Nat /\ P * (x \div P) <= x /\ x < P * (x \div P) + P
  OBVIOUS
<1>2. PageUnits \in Nat \ {0}
  BY UmallocAssumption
<1>3. PICK x \in Nat : x = a + PageUnits - 1
  BY <1>2
<1>4. PICK q \in Nat : q = x \div PageUnits /\ PageUnits * q \in Nat /\ PageUnits * q <= x /\ x < PageUnits * q + PageUnits
  BY <1>1, <1>2
<1>5. Aligned(a) = PageUnits * q
  <2>1. \A P \in Nat, z \in Nat : z * P = P * z
    OBVIOUS
  <2>2. Aligned(a) = q * PageUnits
    BY <1>3, <1>4 DEF Aligned
  <2>. QED BY <1>2, <2>1, <2>2
<1>. QED BY <1>2, <1>3, <1>4, <1>5

LEMMA ThreadCreateStep ==
  ASSUME UmallocInv, ThreadCreate
  PROVE  UmallocInv'
<1>0. PageUnits \in Nat \ {0}
  BY UmallocAssumption
<1>1. PICK u \in Nat \ {0} : u = StackUnits /\ u = 2 * PageUnits + 1
  BY <1>0 DEF StackUnits, Units
<1>2. PICK g : g = Given(Listed(u), u)
  OBVIOUS
<1>3. PICK m : m = Cut(Listed(u), u)
  OBVIOUS
<1>4. /\ ListOK(m) /\ Memory(FreeOf(m), (mine \cup own) \cup {g}, Break(u)) /\ Break(u) \in Nat
      /\ g \in Chunk /\ g.size = u /\ g \notin mine \cup own
  BY <1>2, <1>3, ListedOK
<1>5. PICK t : t = Aligned(g.at + 1)
  OBVIOUS
<1>6. /\ free' = m /\ brk' = Break(u) /\ mine' = mine \cup {g} /\ own' = own
      /\ stacks' = stacks \cup {t}
  BY <1>1, <1>2, <1>3, <1>5 DEF ThreadCreate
<1>7. mine' \cup own' = (mine \cup own) \cup {g} /\ mine' \cap own' = {}
  BY <1>4, <1>6 DEF UmallocInv
<1>8. t \in Nat /\ g.at < t /\ t + PageUnits <= EndOf(g) /\ t < EndOf(g)
  <2>1. g.at \in Nat /\ EndOf(g) = g.at + u
    BY <1>4, ChunkFacts
  <2>2. t \in Nat /\ g.at + 1 <= t /\ t < g.at + 1 + PageUnits
    BY <1>5, <2>1, AlignedIs
  <2>. QED BY <1>0, <1>1, <2>1, <2>2
<1>9. \A c \in mine : Apart(c, g) /\ c \in Chunk
  <2>1. Tiles(FreeOf(m) \cup ((mine \cup own) \cup {g}), Break(u))
    BY <1>4 DEF Memory
  <2>. QED BY <1>4, <2>1 DEF Tiles
<1>10. ASSUME NEW s \in stacks, NEW c \in mine, c.at < s, s + PageUnits <= EndOf(c)
       PROVE  s \in Int /\ (s <= g.at \/ s >= EndOf(g)) /\ (t <= c.at \/ t >= EndOf(c))
  <2>1. /\ s \in Int /\ c.at \in Nat /\ EndOf(c) \in Nat /\ g.at \in Nat /\ EndOf(g) \in Nat
        /\ (EndOf(c) <= g.at \/ EndOf(g) <= c.at)
    BY <1>4, <1>9, ChunkFacts DEF UmallocInv, Apart
  <2>. QED BY <1>0, <1>8, <1>10, <2>1
<1>11. StacksApart'
  <2>1. \A s \in stacks : \E c \in mine :
            /\ c.at < s /\ s + PageUnits <= EndOf(c)
            /\ \A r \in stacks \ {s} : r <= c.at \/ r >= EndOf(c)
    BY DEF UmallocInv, StacksApart
  <2>2. ASSUME NEW s \in stacks, s # t
        PROVE  \E c \in mine' :
            /\ c.at < s /\ s + PageUnits <= EndOf(c)
            /\ \A r \in stacks' \ {s} : r <= c.at \/ r >= EndOf(c)
    <3>1. PICK c \in mine : /\ c.at < s /\ s + PageUnits <= EndOf(c)
                            /\ \A r \in stacks \ {s} : r <= c.at \/ r >= EndOf(c)
      BY <2>1
    <3>2. t <= c.at \/ t >= EndOf(c)
      BY <1>10, <3>1
    <3>. QED BY <1>6, <3>1, <3>2
  <2>3. \A r \in stacks : r <= g.at \/ r >= EndOf(g)
    BY <1>10, <2>1
  <2>4. \E c \in mine' :
            /\ c.at < t /\ t + PageUnits <= EndOf(c)
            /\ \A r \in stacks' \ {t} : r <= c.at \/ r >= EndOf(c)
    BY <1>6, <1>8, <2>3
  <2>. QED BY <1>6, <2>2, <2>4 DEF StacksApart
<1>12. stacks' \subseteq Int
  BY <1>6, <1>8 DEF UmallocInv
<1>. QED BY <1>4, <1>6, <1>7, <1>11, <1>12 DEF UmallocInv

LEMMA ThreadJoinStep ==
  ASSUME UmallocInv, StaleSizes = {}, ThreadJoin
  PROVE  UmallocInv'
<1>0. PageUnits \in Nat \ {0}
  BY UmallocAssumption
<1>1. PICK u \in Nat \ {0} : u = Units(1)
  BY DEF Units
<1>2. PICK g : g = Given(Listed(u), u)
  OBVIOUS
<1>3. PICK m : m = Cut(Listed(u), u)
  OBVIOUS
<1>4. /\ ListOK(m) /\ Memory(FreeOf(m), (mine \cup own) \cup {g}, Break(u)) /\ Break(u) \in Nat
      /\ g \notin mine \cup own
  BY <1>2, <1>3, ListedOK
<1>5. PICK s \in stacks : \E b \in mine :
          /\ b.at + 1 = s /\ free' = Returned(m, b) /\ mine' = mine \ {b}
          /\ stacks' = stacks \ {s} /\ own' = own \cup {g} /\ brk' = Break(u)
  BY <1>1, <1>2, <1>3 DEF ThreadJoin
<1>6. PICK b \in mine : /\ b.at + 1 = s /\ free' = Returned(m, b) /\ mine' = mine \ {b}
                        /\ stacks' = stacks \ {s} /\ own' = own \cup {g} /\ brk' = Break(u)
  BY <1>5
<1>7. ListOK(free') /\ Memory(FreeOf(free'), ((mine \cup own) \cup {g}) \ {b}, Break(u))
  <2>1. b \in (mine \cup own) \cup {g}
    OBVIOUS
  <2>. QED BY <1>4, <1>6, <2>1, ReturnedOK
<1>8. ((mine \cup own) \cup {g}) \ {b} = mine' \cup own' /\ mine' \cap own' = {}
  BY <1>4, <1>6 DEF UmallocInv
<1>9. PICK d \in mine : /\ d.at < s /\ s + PageUnits <= EndOf(d)
                        /\ \A r \in stacks \ {s} : r <= d.at \/ r >= EndOf(d)
  BY DEF UmallocInv, StacksApart
(* The block that is freed is the one of the thread's stack. *)
<1>10. d = b
  <2>1. /\ b.at \in Nat /\ d.at \in Nat /\ EndOf(b) \in Nat /\ EndOf(d) \in Nat /\ b.at < EndOf(b)
        /\ (d # b => Apart(d, b))
    <3>1. b \in Chunk /\ d \in Chunk /\ (d # b => Apart(d, b))
      BY DEF UmallocInv, Memory, Tiles
    <3>. QED BY <3>1, ChunkFacts
  <2>. QED BY <1>0, <1>6, <1>9, <2>1 DEF Apart
<1>11. StacksApart'
  <2>. SUFFICES ASSUME NEW t \in stacks \ {s}
                PROVE  \E c \in mine \ {b} :
                         /\ c.at < t /\ t + PageUnits <= EndOf(c)
                         /\ \A r \in (stacks \ {s}) \ {t} : r <= c.at \/ r >= EndOf(c)
    BY <1>6 DEF StacksApart
  <2>1. PICK c \in mine : /\ c.at < t /\ t + PageUnits <= EndOf(c)
                          /\ \A r \in stacks \ {t} : r <= c.at \/ r >= EndOf(c)
    BY DEF UmallocInv, StacksApart
  <2>2. c # b
    <3>1. t \in Int /\ c \in Chunk
      BY DEF UmallocInv, Memory, Tiles
    <3>2. c.at \in Nat /\ EndOf(c) \in Nat
      BY <3>1, ChunkFacts
    <3>3. t > c.at /\ t < EndOf(c)
      BY <1>0, <2>1, <3>1, <3>2
    <3>. QED BY <1>9, <1>10, <3>1, <3>2, <3>3
  <2>. QED BY <2>1, <2>2
<1>12. stacks' \subseteq Int
  BY <1>6 DEF UmallocInv
<1>. QED BY <1>4, <1>6, <1>7, <1>8, <1>11, <1>12 DEF UmallocInv

LEMMA JoinNoneStep ==
  ASSUME UmallocInv, JoinNone
  PROVE  UmallocInv'
<1>1. PICK u \in Nat \ {0} : u = Units(1)
  BY DEF Units
<1>2. PICK g : g = Given(Listed(u), u)
  OBVIOUS
<1>3. PICK m : m = Cut(Listed(u), u)
  OBVIOUS
<1>4. /\ ListOK(m) /\ Memory(FreeOf(m), (mine \cup own) \cup {g}, Break(u)) /\ Break(u) \in Nat
      /\ g \notin mine \cup own
  BY <1>2, <1>3, ListedOK
<1>5. free' = Returned(m, g) /\ brk' = Break(u) /\ mine' = mine /\ own' = own /\ stacks' = stacks
  BY <1>1, <1>2, <1>3 DEF JoinNone
<1>6. ListOK(free') /\ Memory(FreeOf(free'), ((mine \cup own) \cup {g}) \ {g}, Break(u))
  <2>1. g \in (mine \cup own) \cup {g}
    OBVIOUS
  <2>. QED BY <1>4, <1>5, <2>1, ReturnedOK
<1>7. ((mine \cup own) \cup {g}) \ {g} = mine' \cup own'
  BY <1>4, <1>5
<1>8. StacksApart'
  BY <1>5 DEF UmallocInv, StacksApart
<1>. QED BY <1>4, <1>5, <1>6, <1>7, <1>8 DEF UmallocInv

LEMMA UmallocStep ==
  ASSUME StaleSizes = {}, UmallocInv, [UmallocNext]_umalloc
  PROVE  UmallocInv'
<1>1. CASE UNCHANGED umalloc
  BY <1>1 DEF umalloc, UmallocInv, StacksApart
<1>2. CASE UmallocNext
  BY <1>2, MallocStep, FreeBlockStep, OwnSbrkStep, ThreadCreateStep, ThreadJoinStep, JoinNoneStep DEF UmallocNext
<1>. QED BY <1>1, <1>2

-----------------------------------------------------------------------------
LEMMA MemoryAccounted == UmallocInv => Accounted
<1>. SUFFICES ASSUME UmallocInv PROVE Accounted
  OBVIOUS
<1>1. PICK F : F = FreeOf(free) /\ F = Nodes \ {Base}
  BY DEF FreeOf, Nodes
<1>2. /\ F \cap (mine \cup own) = {} /\ mine \cap own = {} /\ Tiles(F \cup (mine \cup own), brk)
  BY <1>1 DEF UmallocInv, Memory
<1>3. \A b \in F \cup mine \cup own : b.at >= 0 /\ b.size > 0 /\ EndOf(b) <= brk
  BY <1>2, ChunkFacts DEF Tiles
<1>4. ASSUME NEW u \in 0 .. brk - 1
      PROVE  Over(F, u) + Over(mine, u) + Over(own, u) = 1
  <2>1. PICK b \in F \cup (mine \cup own) : b.at <= u /\ u < EndOf(b)
    BY <1>2 DEF Tiles
  <2>2. ASSUME NEW c \in F \cup (mine \cup own), c.at <= u, u < EndOf(c) PROVE c = b
    <3>. SUFFICES ASSUME c # b PROVE FALSE
      OBVIOUS
    <3>1. Apart(c, b) /\ c \in Chunk /\ b \in Chunk
      BY <1>2 DEF Tiles
    <3>2. c.at \in Nat /\ EndOf(c) \in Nat /\ b.at \in Nat /\ EndOf(b) \in Nat /\ u \in Int
      BY <3>1, ChunkFacts DEF UmallocInv
    <3>. QED BY <2>1, <2>2, <3>1, <3>2 DEF Apart
  <2>3. ASSUME NEW S, S \subseteq F \cup (mine \cup own)
        PROVE  Over(S, u) = IF b \in S THEN 1 ELSE 0
    <3>1. CASE b \in S
      <4>1. {c \in S : c.at <= u /\ u < EndOf(c)} = {b}
        BY <2>1, <2>2, <2>3, <3>1
      <4>. QED BY <3>1, <4>1, FS_Singleton DEF Over
    <3>2. CASE b \notin S
      <4>1. {c \in S : c.at <= u /\ u < EndOf(c)} = {}
        BY <2>2, <2>3, <3>2
      <4>. QED BY <3>2, <4>1, FS_EmptySet DEF Over
    <3>. QED BY <3>1, <3>2
  <2>4. /\ Over(F, u) = (IF b \in F THEN 1 ELSE 0)
        /\ Over(mine, u) = (IF b \in mine THEN 1 ELSE 0)
        /\ Over(own, u) = (IF b \in own THEN 1 ELSE 0)
    <3>1. F \subseteq F \cup (mine \cup own) /\ mine \subseteq F \cup (mine \cup own) /\ own \subseteq F \cup (mine \cup own)
      OBVIOUS
    <3>. QED BY <2>3, <3>1
  <2>5. \/ b \in F /\ b \notin mine /\ b \notin own
        \/ b \notin F /\ b \in mine /\ b \notin own
        \/ b \notin F /\ b \notin mine /\ b \in own
    BY <1>2
  <2>. QED BY <2>4, <2>5
<1>. QED BY <1>1, <1>3, <1>4 DEF Accounted

LEMMA ListCircular == UmallocInv => Circular
<1>. SUFFICES ASSUME UmallocInv PROVE Circular
  OBVIOUS
<1>1. ListOK(free) /\ \A a, b \in FreeOf(free) : EndOf(a) # b.at
  BY DEF UmallocInv, Memory
<1>2. PICK n \in Nat \ {0} : n = Len(free)
  BY <1>1, ListFacts
<1>3. /\ \A i \in 1 .. n : free[i].at \in Int /\ free[i].at >= -1 /\ Nxt(n, i) \in 1 .. n /\ (i % n) + 1 = Nxt(n, i)
      /\ \A i, j \in 1 .. n : i # j => free[i].at # free[j].at
      /\ \E i \in 1 .. n : free[i] = Base
      /\ Base.at = -1
      /\ \A i, j \in 1 .. n :
              IF free[i].at < free[Nxt(n, i)].at THEN free[j].at <= free[i].at \/ free[j].at >= free[Nxt(n, i)].at
              ELSE free[Nxt(n, i)].at <= free[j].at /\ free[j].at <= free[i].at
  BY <1>1, <1>2, ListFacts, NxtIs
<1>4. Nodes = {free[i] : i \in 1 .. n} /\ FreeOf(free) = Nodes \ {Base}
  BY <1>2 DEF Nodes, FreeOf
<1>5. Base \in Nodes
  BY <1>3, <1>4
<1>6. Cardinality(Nodes) = n
  <2>. DEFINE f == [i \in 1 .. n |-> free[i]]
  <2>1. f \in [1 .. n -> Nodes]
    BY <1>4
  <2>2. f \in Bijection(1 .. n, Nodes)
    <3>1. \A i, j \in 1 .. n : f[i] = f[j] => i = j
      BY <1>3
    <3>2. \A x \in Nodes : \E i \in 1 .. n : f[i] = x
      BY <1>4
    <3>. HIDE DEF f
    <3>. QED BY <2>1, <3>1, <3>2 DEF Bijection, Injection, Surjection, IsInjective
  <2>3. ExistsBijection(1 .. n, Nodes)
    BY <2>2 DEF ExistsBijection
  <2>4. IsFiniteSet(1 .. n) /\ Cardinality(1 .. n) = n
    BY FS_Interval
  <2>. QED BY <2>3, <2>4, FS_Bijection
<1>7. Cardinality({i \in 1 .. n : free[i].at >= free[(i % n) + 1].at}) = 1
  <2>1. PICK z \in 1 .. n : free[z] = Base
    BY <1>3
  <2>2. PICK w \in 1 .. n : Nxt(n, w) = z
    <3>1. CASE z = 1
      <4>1. n \in 1 .. n /\ Nxt(n, n) = z
        BY <3>1 DEF Nxt
      <4>. QED BY <4>1
    <3>2. CASE z # 1
      <4>1. z - 1 \in 1 .. n /\ Nxt(n, z - 1) = z
        BY <3>2 DEF Nxt
      <4>. QED BY <4>1
    <3>. QED BY <3>1, <3>2
  <2>3. free[w].at >= free[Nxt(n, w)].at
    BY <1>3, <2>1, <2>2
  <2>4. ASSUME NEW i \in 1 .. n, free[i].at >= free[Nxt(n, i)].at PROVE i = w
    <3>1. free[Nxt(n, i)].at <= free[z].at
      BY <1>3, <2>4
    <3>2. free[Nxt(n, i)].at = -1 /\ free[z].at = -1
      BY <1>3, <2>1, <3>1
    <3>3. Nxt(n, i) = Nxt(n, w)
      BY <1>3, <2>2, <3>2
    <3>. QED BY <3>3 DEF Nxt
  <2>5. {i \in 1 .. n : free[i].at >= free[(i % n) + 1].at} = {w}
    <3>1. \A i \in 1 .. n : free[i].at >= free[(i % n) + 1].at <=> i = w
      BY <1>3, <2>3, <2>4
    <3>. QED BY <3>1
  <2>. QED BY <2>5, FS_Singleton
<1>. QED BY <1>1, <1>2, <1>4, <1>5, <1>6, <1>7 DEF Circular

(* The allocator of user programs, umalloc.c:29 and umalloc.c:64: whatever the *)
(* programs do with malloc, free, sbrk and threads, every unit of the heap is  *)
(* in one block, the list turns once and has no neighbours that touch, and a   *)
(* thread's stack page is in a block of its own.  It takes that thread_join    *)
(* frees only what malloc gave out: no stale word is read as a header.         *)
THEOREM MallocIsSound == StaleSizes = {} => (UmallocSpec => []MallocSound)
<1>. SUFFICES ASSUME StaleSizes = {} PROVE UmallocSpec => []MallocSound
  OBVIOUS
<1>1. UmallocInit => UmallocInv
  BY UmallocStart
<1>2. UmallocInv /\ [UmallocNext]_umalloc => UmallocInv'
  BY UmallocStep
<1>3. UmallocInv => MallocSound
  BY MemoryAccounted, ListCircular DEF MallocSound, UmallocInv
<1>. QED BY <1>1, <1>2, <1>3, PTL DEF UmallocSpec
=============================================================================

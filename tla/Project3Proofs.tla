---------------------------- MODULE Project3Proofs ----------------------------
(* The proofs about Project3, for its two programs in turn.                    *)
(*                                                                             *)
(* The locks and lists of 3a: mutual exclusion, the absence of lost wakeups,   *)
(* and which calls leave a lock taken behind them, for any number of threads,  *)
(* keys, lists and calls; every node is on one list, in the hands of the       *)
(* insert that made it, or free; and every call takes effect once, at one      *)
(* moment between its start and its end.                                       *)
(*                                                                             *)
(* The layout of 3b: for every page size, gap, size of user memory and width   *)
(* of the addresses, heap and stack never meet, and no system call is let at   *)
(* an address without a page.                                                  *)
EXTENDS LockedStore, VmLayout, FiniteSetTheorems, SequenceTheorems, WellFoundedInduction, TLAPS

(* The insert that is about to store the head has a node to store.             *)
StoreInv == \A t \in Threads : pc[t] = "store" /\ call[t][1] = "insert" => cur[t] \in Nodes

(* Only the futex lock puts threads to sleep.                                  *)
SpinInv == kind = "spin" => \A t \in Threads : pc[t] \notin {"futex", "asleep", "wake"}

IInv == TypeOK /\ StoreInv /\ SpinInv /\ MutualExclusion /\ NoLostWakeup

(* Keys are natural numbers; nodes, NULL and the wild address are integers.    *)
LEMMA Numbers == Keys \cup {0} \subseteq Nat /\ Nodes \cup {NULL, Wild} \subseteq Int
  <1>1. Keys \cup {0} \subseteq Nat
    BY StoreAssumption
  <1>2. -1 \in Int /\ 0 \in Int
    OBVIOUS
  <1>3. Nodes \subseteq Int
    BY StoreAssumption
  <1>4. QED
    BY <1>1, <1>2, <1>3 DEF NULL, Wild

(* The list a call is about is one of the lists.                               *)
LEMMA SlotType ==
  ASSUME TypeOK, NEW t \in Threads
  PROVE  Slot(t) \in Slots
  <1>1. call[t][2] \in Nat
    <2>1. call[t] \in (Ops \cup {"none"}) \X (Keys \cup {0})
      BY DEF TypeOK
    <2>2. call[t][2] \in Keys \cup {0}
      BY <2>1
    <2>3. QED
      BY <2>2, Numbers
  <1>2. call[t][2] % HashSize \in 0 .. HashSize - 1
    BY <1>1, StoreAssumption
  <1>3. 0 \in Slots
    BY StoreAssumption DEF Slots
  <1>4. QED
    BY <1>2, <1>3 DEF Slot, Slots

(* A step that leaves the call and the test alone leaves the list alone.       *)
LEMMA SlotKept ==
  ASSUME test' = test, NEW t \in Threads, call'[t] = call[t]
  PROVE  Slot(t)' = Slot(t)
  BY DEF Slot

(* The initial states satisfy the invariant.                                   *)
LEMMA InitIInv == Init => IInv
  <1> SUFFICES ASSUME Init PROVE IInv
    OBVIOUS
  <1>1. TypeOK
    BY StoreAssumption DEF Init, TypeOK, Places, Ops, Slots
  <1>2. StoreInv /\ SpinInv
    BY DEF Init, StoreInv, SpinInv
  <1>3. MutualExclusion
    BY DEF Init, MutualExclusion, Inside
  <1>4. NoLostWakeup
    BY DEF Init, NoLostWakeup, Sleepers
  <1>5. QED
    BY <1>1, <1>2, <1>3, <1>4 DEF IInv

(* What every step does keeps the types.                                       *)
LEMMA TypeStep == IInv /\ [Next]_vars => TypeOK' /\ StoreInv'
  <1> SUFFICES ASSUME IInv, [Next]_vars PROVE TypeOK' /\ StoreInv'
    OBVIOUS
  <1> USE StoreAssumption DEF IInv, At, Goto, fixed, lists, Places
  <1>1. CASE Clear
    BY <1>1 DEF Clear, TypeOK, StoreInv
  <1>2. ASSUME NEW t \in Threads, Call(t) PROVE TypeOK' /\ StoreInv'
    <2>1. PICK o \in IF test = "counter" THEN CounterOps ELSE ListOps, k \in Keys :
             /\ call' = [call EXCEPT ![t] = <<o, IF test = "counter" THEN 0 ELSE k>>]
             /\ Goto(t, IF o = "delete" THEN "test" ELSE "acquire")
      BY <1>2 DEF Call
    <2>2. o \in Ops
      BY <2>1 DEF Ops
    <2>3. call' \in [Threads -> (Ops \cup {"none"}) \X (Keys \cup {0})]
      BY <2>1, <2>2 DEF TypeOK
    <2>4. pc' \in [Threads -> Places] /\ left' \in [Threads -> 0 .. Calls]
      BY <2>1, <1>2 DEF TypeOK, Call
    <2>5. TypeOK'
      BY <1>2, <2>3, <2>4 DEF Call, TypeOK
    <2>6. \A s \in Threads : pc'[s] = "store" => s # t /\ pc[s] = "store"
      BY <2>1 DEF TypeOK
    <2>7. StoreInv'
      BY <1>2, <2>1, <2>6 DEF Call, StoreInv, TypeOK
    <2>8. QED
      BY <2>5, <2>7
  <1>3. ASSUME NEW t \in Threads, DeleteTest(t) PROVE TypeOK' /\ StoreInv'
    BY <1>3 DEF DeleteTest, TypeOK, StoreInv
  <1>4. ASSUME NEW t \in Threads, Acquire(t) PROVE TypeOK' /\ StoreInv'
    <2>1. TypeOK'
      BY <1>4 DEF Acquire, TypeOK
    <2>2. StoreInv'
      BY <1>4 DEF Acquire, TypeOK, StoreInv
    <2>3. QED
      BY <2>1, <2>2
  <1>5. ASSUME NEW t \in Threads, FutexWait(t) PROVE TypeOK' /\ StoreInv'
    BY <1>5 DEF FutexWait, TypeOK, StoreInv
  <1>6. ASSUME NEW t \in Threads, Release(t) PROVE TypeOK' /\ StoreInv'
    BY <1>6 DEF Release, Freed, TypeOK, StoreInv
  <1>7. ASSUME NEW t \in Threads, FutexWake(t) PROVE TypeOK' /\ StoreInv'
    <2>1. UNCHANGED <<fixed, flag, lists, count, call, cur, pre, left, answer, over>>
      BY <1>7 DEF FutexWake
    <2>2. /\ pc' \in [Threads -> Places]
          /\ \A s \in Threads : pc'[s] = "store" => pc[s] = "store"
      <3>1. CASE pc' = [pc EXCEPT ![t] = "idle"]
        BY <3>1 DEF TypeOK
      <3>2. CASE \E s \in Threads : pc' = [pc EXCEPT ![t] = "idle", ![s] = "acquire"]
        BY <3>2 DEF TypeOK
      <3>. QED BY <1>7, <3>1, <3>2 DEF FutexWake, Sleepers, Goto
    <2>3. TypeOK'
      BY <2>1, <2>2 DEF TypeOK
    <2>4. StoreInv'
      BY <2>1, <2>2 DEF StoreInv
    <2>5. QED
      BY <2>3, <2>4
  <1>8. ASSUME NEW t \in Threads, CounterRead(t) PROVE TypeOK' /\ StoreInv'
    BY <1>8 DEF CounterRead, CounterOps, TypeOK, StoreInv
  <1>9. ASSUME NEW t \in Threads, CounterWrite(t) PROVE TypeOK' /\ StoreInv'
    BY <1>9 DEF CounterWrite, TypeOK, StoreInv
  <1>10. ASSUME NEW t \in Threads, InsertNode(t) PROVE TypeOK' /\ StoreInv'
    <2>1. PICK n \in Nodes :
            /\ live' = live \cup {n}
            /\ val' = [val EXCEPT ![n] = call[t][2]]
            /\ next' = [next EXCEPT ![n] = head[Slot(t)]]
            /\ cur' = [cur EXCEPT ![t] = n]
      BY <1>10 DEF InsertNode
    <2>2. Slot(t) \in Slots
      BY SlotType
    <2>3. val' \in [Nodes -> Keys \cup {0}] /\ next' \in [Nodes -> Nodes \cup {NULL, Wild}]
      BY <2>1, <2>2 DEF TypeOK
    <2>4. QED
      BY <1>10, <2>1, <2>3 DEF InsertNode, TypeOK, StoreInv
  <1>11. ASSUME NEW t \in Threads, InsertHead(t) PROVE TypeOK' /\ StoreInv'
    <2>1. head' \in [Slots -> Nodes \cup {NULL, Wild}]
      BY <1>11 DEF InsertHead, TypeOK, StoreInv
    <2>2. QED
      BY <1>11, <2>1 DEF InsertHead, TypeOK, StoreInv
  <1>12. ASSUME NEW t \in Threads, WalkStart(t) PROVE TypeOK' /\ StoreInv'
    <2>1. Slot(t) \in Slots
      BY SlotType
    <2>2. head[Slot(t)] \in Int
      <3>1. head[Slot(t)] \in Nodes \cup {NULL, Wild}
        BY <2>1 DEF TypeOK
      <3>2. QED
        BY <3>1, Numbers
    <2>3. QED
      BY <1>12, <2>2 DEF WalkStart, TypeOK, StoreInv
  <1>13. ASSUME NEW t \in Threads, WalkOn(t) PROVE TypeOK' /\ StoreInv'
    <2>1. next[cur[t]] \in Nodes \cup {NULL, Wild}
      BY <1>13 DEF WalkOn, TypeOK
    <2>2. next[cur[t]] \in Int
      BY <2>1, Numbers
    <2>3. QED
      BY <1>13, <2>2 DEF WalkOn, TypeOK, StoreInv
  <1>14. ASSUME NEW t \in Threads, WalkFault(t) PROVE TypeOK' /\ StoreInv'
    BY <1>14 DEF WalkFault, TypeOK, StoreInv
  <1>15. ASSUME NEW t \in Threads, LookupEnd(t) PROVE TypeOK' /\ StoreInv'
    BY <1>15 DEF LookupEnd, TypeOK, StoreInv
  <1>16. ASSUME NEW t \in Threads, DeleteMiss(t) PROVE TypeOK' /\ StoreInv'
    BY <1>16 DEF DeleteMiss, TypeOK, StoreInv
  <1>17. ASSUME NEW t \in Threads, DeleteNode(t) PROVE TypeOK' /\ StoreInv'
    <2>1. cur[t] \in Nodes /\ Slot(t) \in Slots
      BY <1>17, SlotType DEF DeleteNode, AtKey
    <2>2. next[cur[t]] \in Nodes \cup {NULL, Wild}
      BY <2>1 DEF TypeOK
    <2>3. head' \in [Slots -> Nodes \cup {NULL, Wild}]
      <3>1. CASE pre[t] = NULL
        BY <1>17, <2>1, <2>2, <3>1 DEF DeleteNode, Unlinked, TypeOK
      <3>2. CASE pre[t] # NULL
        BY <1>17, <3>2 DEF DeleteNode, Unlinked, TypeOK
      <3>3. QED
        BY <3>1, <3>2
    <2>4. next' \in [Nodes -> Nodes \cup {NULL, Wild}]
      <3>1. CASE pre[t] = NULL
        BY <1>17, <3>1 DEF DeleteNode, Unlinked, TypeOK
      <3>2. CASE pre[t] # NULL
        BY <1>17, <2>2, <3>2 DEF DeleteNode, Unlinked, TypeOK
      <3>3. QED
        BY <3>1, <3>2
    <2>5. QED
      BY <1>17, <2>3, <2>4 DEF DeleteNode, TypeOK, StoreInv
  <1>18. CASE UNCHANGED vars
    BY <1>18 DEF vars, TypeOK, StoreInv
  <1>19. QED
    BY <1>1, <1>2, <1>3, <1>4, <1>5, <1>6, <1>7, <1>8, <1>9, <1>10, <1>11, <1>12, <1>13,
       <1>14, <1>15, <1>16, <1>17, <1>18 DEF Next, Progress

(* Mutual exclusion: a thread enters only through a lock word that was 0, and  *)
(* clears it only where it leaves.                                             *)
LEMMA ExclusionStep == IInv /\ [Next]_vars => MutualExclusion' /\ SpinInv'
  <1> SUFFICES ASSUME IInv, [Next]_vars PROVE MutualExclusion' /\ SpinInv'
    OBVIOUS
  <1> USE DEF IInv, At, Goto, fixed, lists
  <1>1. CASE Clear
    BY <1>1 DEF Clear, MutualExclusion, Inside, Slot, SpinInv
  <1>2. ASSUME NEW t \in Threads, Call(t) PROVE MutualExclusion' /\ SpinInv'
    <2>1. /\ pc'[t] \in {"test", "acquire"}
          /\ \A s \in Threads \ {t} : pc'[s] = pc[s] /\ call'[s] = call[s]
      BY <1>2 DEF Call, TypeOK, Places
    <2>2. \A s \in Threads, b \in Slots : Inside(s, b)' => Inside(s, b)
      BY <1>2, <2>1 DEF Call, Inside, Slot
    <2>3. QED
      BY <1>2, <2>1, <2>2 DEF Call, MutualExclusion, SpinInv
  <1>3. ASSUME NEW t \in Threads, DeleteTest(t) PROVE MutualExclusion' /\ SpinInv'
    BY <1>3 DEF DeleteTest, MutualExclusion, Inside, Slot, SpinInv, TypeOK
  <1>4. ASSUME NEW t \in Threads, Acquire(t) PROVE MutualExclusion' /\ SpinInv'
    <2>1. Slot(t) \in Slots /\ \A s \in Threads : Slot(s)' = Slot(s)
      BY <1>4, SlotType DEF Acquire, Slot
    <2>2. CASE XchgFree(t)
      <3>1. \A s \in Threads : ~Inside(s, Slot(t))
        BY <2>1, <2>2 DEF XchgFree, MutualExclusion
      <3>2. \A s \in Threads, b \in Slots : Inside(s, b)' => Inside(s, b) \/ (s = t /\ b = Slot(t))
        BY <1>4, <2>1, <2>2 DEF Acquire, Inside, TypeOK
      <3>3. flag'[Slot(t)] = 1 /\ \A b \in Slots : flag[b] = 1 => flag'[b] = 1
        BY <1>4, <2>1, <2>2 DEF Acquire, TypeOK
      <3>4. MutualExclusion'
        BY <3>1, <3>2, <3>3 DEF MutualExclusion
      <3>5. QED
        BY <1>4, <2>2, <3>4 DEF Acquire, SpinInv, TypeOK
    <2>3. CASE ~XchgFree(t)
      <3>1. \A s \in Threads, b \in Slots : Inside(s, b)' => Inside(s, b)
        BY <1>4, <2>1, <2>3 DEF Acquire, Inside, TypeOK
      <3>2. QED
        BY <1>4, <2>3, <3>1 DEF Acquire, MutualExclusion, SpinInv, TypeOK
    <2>4. QED
      BY <2>2, <2>3
  <1>5. ASSUME NEW t \in Threads, FutexWait(t) PROVE MutualExclusion' /\ SpinInv'
    BY <1>5 DEF FutexWait, MutualExclusion, Inside, Slot, SpinInv, TypeOK
  <1>6. ASSUME NEW t \in Threads, Release(t) PROVE MutualExclusion' /\ SpinInv'
    <2>1. Slot(t) \in Slots /\ \A s \in Threads : Slot(s)' = Slot(s)
      BY <1>6, SlotType DEF Release, Slot
    <2>2. Inside(t, Slot(t)) /\ \A b \in Slots : b # Slot(t) => flag'[b] = flag[b]
      BY <1>6, <2>1 DEF Release, Freed, Inside, TypeOK
    <2>3. \A s \in Threads, b \in Slots : Inside(s, b)' => Inside(s, b) /\ s # t
      BY <1>6, <2>1 DEF Release, Inside, TypeOK
    <2>4. \A s \in Threads, b \in Slots : Inside(s, b)' => b # Slot(t)
      BY <2>1, <2>2, <2>3 DEF MutualExclusion
    <2>5. MutualExclusion'
      BY <2>2, <2>3, <2>4 DEF MutualExclusion
    <2>6. QED
      BY <1>6, <2>5 DEF Release, SpinInv, TypeOK
  <1>7. ASSUME NEW t \in Threads, FutexWake(t) PROVE MutualExclusion' /\ SpinInv'
    <2>1. \A s \in Threads : pc'[s] = pc[s] \/ pc'[s] \in {"idle", "acquire"}
      BY <1>7 DEF FutexWake, Sleepers, TypeOK
    <2>2. \A s \in Threads, b \in Slots : Inside(s, b)' => Inside(s, b)
      BY <1>7, <2>1 DEF FutexWake, Inside, Slot
    <2>3. QED
      BY <1>7, <2>1, <2>2 DEF FutexWake, MutualExclusion, SpinInv
  <1>8. ASSUME NEW t \in Threads, \/ CounterRead(t) \/ CounterWrite(t) \/ InsertNode(t)
                                  \/ InsertHead(t) \/ WalkStart(t) \/ LookupEnd(t)
        PROVE MutualExclusion' /\ SpinInv'
    <2>1. /\ UNCHANGED <<kind, test, flag, call>>
          /\ \E p \in {"walk", "store", "release"} : pc' = [pc EXCEPT ![t] = p]
          /\ pc[t] \in {"body", "walk", "store"}
      BY <1>8 DEF CounterRead, CounterWrite, InsertNode, InsertHead, WalkStart, LookupEnd
    <2>2. \A s \in Threads, b \in Slots : Inside(s, b)' => Inside(s, b)
      BY <2>1 DEF Inside, Slot, TypeOK
    <2>3. QED
      BY <2>1, <2>2 DEF MutualExclusion, SpinInv, TypeOK
  <1>9. ASSUME NEW t \in Threads, DeleteMiss(t) \/ DeleteNode(t) PROVE MutualExclusion' /\ SpinInv'
    <2>1. UNCHANGED <<kind, test, flag, call>> /\ pc' = [pc EXCEPT ![t] = "idle"]
      BY <1>9 DEF DeleteMiss, DeleteNode
    <2>2. \A s \in Threads, b \in Slots : Inside(s, b)' => Inside(s, b)
      BY <2>1 DEF Inside, Slot, TypeOK
    <2>3. QED
      BY <2>1, <2>2 DEF MutualExclusion, SpinInv, TypeOK
  <1>10. ASSUME NEW t \in Threads, WalkOn(t) \/ WalkFault(t) PROVE MutualExclusion' /\ SpinInv'
    BY <1>10 DEF WalkOn, WalkFault, MutualExclusion, Inside, Slot, SpinInv
  <1>11. CASE UNCHANGED vars
    BY <1>11 DEF vars, MutualExclusion, Inside, Slot, SpinInv
  <1>12. QED
    BY <1>1, <1>2, <1>3, <1>4, <1>5, <1>6, <1>7, <1>8, <1>9, <1>10, <1>11 DEF Next, Progress

(* No wakeup is lost: a thread goes to sleep only on a word that is 1, and who *)
(* clears the word wakes a sleeper, who tries the lock again.                  *)
LEMMA WakeupStep == IInv /\ [Next]_vars => NoLostWakeup'
  <1> SUFFICES ASSUME IInv, [Next]_vars PROVE NoLostWakeup'
    OBVIOUS
  <1> USE DEF IInv, At, Goto, fixed, lists
  <1> DEFINE Trying(b) == \E t \in Threads : Slot(t) = b /\ pc[t] \in {"wake", "acquire"}
  <1>1. CASE Clear
    BY <1>1 DEF Clear, NoLostWakeup, Sleepers, Slot
  <1>2. ASSUME NEW t \in Threads, Call(t) PROVE NoLostWakeup'
    <2>1. \A s \in Threads \ {t} : pc'[s] = pc[s] /\ Slot(s)' = Slot(s)
      BY <1>2 DEF Call, TypeOK, Slot
    <2>2. pc[t] = "idle" /\ pc'[t] \in {"test", "acquire"}
      BY <1>2 DEF Call, TypeOK
    <2>3. \A b \in Slots : Sleepers(b)' = Sleepers(b)
      BY <2>1, <2>2 DEF Sleepers
    <2>4. QED
      BY <1>2, <2>1, <2>2, <2>3 DEF Call, NoLostWakeup
  <1>3. ASSUME NEW t \in Threads, DeleteTest(t) PROVE NoLostWakeup'
    BY <1>3 DEF DeleteTest, NoLostWakeup, Sleepers, Slot, TypeOK
  <1>4. ASSUME NEW t \in Threads, Acquire(t) PROVE NoLostWakeup'
    <2>1. Slot(t) \in Slots /\ \A s \in Threads : Slot(s)' = Slot(s)
      BY <1>4, SlotType DEF Acquire, Slot
    <2>2. flag[Slot(t)] \in {0, 1}
      BY <2>1 DEF TypeOK
    <2>3. flag'[Slot(t)] = 1 /\ \A b \in Slots : flag[b] = 1 => flag'[b] = 1
      BY <1>4, <2>1, <2>2 DEF Acquire, XchgFree, TypeOK
    <2>4. pc'[t] \in {"body", "futex"} /\ \A s \in Threads \ {t} : pc'[s] = pc[s]
      BY <1>4 DEF Acquire, TypeOK
    <2>5. \A b \in Slots : Sleepers(b)' = Sleepers(b)
      <3>1. pc[t] = "acquire"
        BY <1>4 DEF Acquire
      <3>2. QED
        BY <3>1, <2>1, <2>4 DEF Sleepers
    <2>6. QED
      BY <2>1, <2>3, <2>4, <2>5 DEF NoLostWakeup
  <1>5. ASSUME NEW t \in Threads, FutexWait(t) PROVE NoLostWakeup'
    <2>1. Slot(t) \in Slots /\ \A s \in Threads : Slot(s)' = Slot(s)
      BY <1>5, SlotType DEF FutexWait, Slot
    <2>2. CASE FutexSleeps(t)
      BY <1>5, <2>1, <2>2 DEF FutexWait, FutexSleeps, NoLostWakeup, Sleepers, TypeOK
    <2>3. CASE ~FutexSleeps(t)
      BY <1>5, <2>1, <2>3 DEF FutexWait, NoLostWakeup, Sleepers, TypeOK
    <2>4. QED
      BY <2>2, <2>3
  <1>6. ASSUME NEW t \in Threads, Release(t) PROVE NoLostWakeup'
    <2>1. Slot(t) \in Slots /\ \A s \in Threads : Slot(s)' = Slot(s)
      BY <1>6, SlotType DEF Release, Slot
    <2>2. \A s \in Threads \ {t} : pc'[s] = pc[s]
      BY <1>6 DEF Release, TypeOK
    <2>3. pc'[t] \in {"wake", "idle"} /\ pc[t] = "release"
      BY <1>6 DEF Release, TypeOK
    <2>4. \A b \in Slots : Sleepers(b)' = Sleepers(b)
      BY <2>1, <2>2, <2>3 DEF Sleepers
    <2>5. \A b \in Slots : b # Slot(t) => flag'[b] = flag[b]
      BY <1>6 DEF Release, Freed, TypeOK
    <2>6. CASE kind = "mutex"
      <3>1. pc'[t] = "wake"
        BY <1>6, <2>6 DEF Release, TypeOK
      <3>2. QED
        BY <2>1, <2>2, <2>3, <2>4, <2>5, <3>1 DEF NoLostWakeup
    <2>7. CASE kind # "mutex"
      <3>1. \A b \in Slots : Sleepers(b) = {}
        BY <2>7, StoreAssumption DEF SpinInv, Sleepers, TypeOK
      <3>2. QED
        BY <2>4, <3>1 DEF NoLostWakeup
    <2>8. QED
      BY <2>6, <2>7
  <1>7. ASSUME NEW t \in Threads, FutexWake(t) PROVE NoLostWakeup'
    <2>1. Slot(t) \in Slots /\ \A s \in Threads : Slot(s)' = Slot(s)
      BY <1>7, SlotType DEF FutexWake, Slot
    <2>2. CASE Sleepers(Slot(t)) = {}
      <3>1. pc' = [pc EXCEPT ![t] = "idle"] /\ pc[t] = "wake"
        BY <1>7, <2>2 DEF FutexWake
      <3>2. \A b \in Slots : Sleepers(b)' = Sleepers(b)
        BY <2>1, <3>1 DEF Sleepers, TypeOK
      <3>3. \A b \in Slots : b # Slot(t) /\ Trying(b) => Trying(b)'
        BY <2>1, <3>1 DEF TypeOK
      <3>4. QED
        BY <1>7, <2>2, <3>2, <3>3 DEF FutexWake, NoLostWakeup
    <2>3. CASE Sleepers(Slot(t)) # {}
      <3>1. PICK s \in Sleepers(Slot(t)) : pc' = [pc EXCEPT ![t] = "idle", ![s] = "acquire"]
        BY <1>7, <2>3 DEF FutexWake
      <3>2. s \in Threads /\ s # t /\ Slot(s) = Slot(t) /\ pc[s] = "asleep" /\ pc[t] = "wake"
        BY <1>7, <3>1 DEF FutexWake, Sleepers
      <3>3. pc'[s] = "acquire" /\ \A r \in Threads \ {s, t} : pc'[r] = pc[r]
        BY <3>1, <3>2 DEF TypeOK
      <3>4. \A b \in Slots : Sleepers(b)' \subseteq Sleepers(b)
        BY <2>1, <3>1, <3>2 DEF Sleepers, TypeOK
      <3>5. Trying(Slot(t))'
        BY <2>1, <3>2, <3>3
      <3>6. \A b \in Slots : b # Slot(t) /\ Trying(b) => Trying(b)'
        BY <2>1, <3>2, <3>3
      <3>7. \A b \in Slots : Sleepers(b)' # {} => flag[b] = 1 \/ Trying(b)'
        <4> SUFFICES ASSUME NEW b \in Slots, Sleepers(b)' # {}
                     PROVE  flag[b] = 1 \/ Trying(b)'
          OBVIOUS
        <4>1. CASE b = Slot(t)
          BY <2>1, <3>5, <4>1
        <4>2. CASE b # Slot(t)
          <5>1. Sleepers(b) # {}
            BY <3>4
          <5>2. flag[b] = 1 \/ Trying(b)
            BY <5>1 DEF NoLostWakeup
          <5>3. QED
            BY <3>6, <4>2, <5>2
        <4>3. QED
          BY <4>1, <4>2
      <3>8. flag' = flag
        BY <1>7 DEF FutexWake
      <3>9. QED
        BY <3>7, <3>8 DEF NoLostWakeup
    <2>4. QED
      BY <2>2, <2>3
  <1>8. ASSUME NEW t \in Threads, \/ CounterRead(t) \/ CounterWrite(t) \/ InsertNode(t)
                                  \/ InsertHead(t) \/ WalkStart(t) \/ LookupEnd(t)
                                  \/ DeleteMiss(t) \/ DeleteNode(t)
        PROVE NoLostWakeup'
    <2>1. /\ UNCHANGED <<kind, test, flag, call>>
          /\ \E p \in {"walk", "store", "release", "idle"} : pc' = [pc EXCEPT ![t] = p]
          /\ pc[t] \in {"body", "walk", "store"}
      BY <1>8 DEF CounterRead, CounterWrite, InsertNode, InsertHead, WalkStart, LookupEnd,
                  DeleteMiss, DeleteNode
    <2>2. \A b \in Slots : Sleepers(b)' = Sleepers(b) /\ (Trying(b) => Trying(b)')
      BY <2>1 DEF Sleepers, Slot, TypeOK
    <2>3. QED
      BY <2>1, <2>2 DEF NoLostWakeup
  <1>9. ASSUME NEW t \in Threads, WalkOn(t) \/ WalkFault(t) PROVE NoLostWakeup'
    BY <1>9 DEF WalkOn, WalkFault, NoLostWakeup, Sleepers, Slot
  <1>10. CASE UNCHANGED vars
    BY <1>10 DEF vars, NoLostWakeup, Sleepers, Slot
  <1>11. QED
    BY <1>1, <1>2, <1>3, <1>4, <1>5, <1>6, <1>7, <1>8, <1>9, <1>10 DEF Next, Progress

LEMMA Invariance == Spec => []IInv
  <1>1. IInv /\ [Next]_vars => IInv'
    BY TypeStep, ExclusionStep, WakeupStep DEF IInv
  <1>2. QED
    BY InitIInv, <1>1, PTL DEF Spec

(* Every variable keeps its type, whatever the threads call.                   *)
THEOREM TypeCorrect == Spec => []TypeOK
  <1>1. IInv => TypeOK
    BY DEF IInv
  <1>2. QED
    BY Invariance, <1>1, PTL

(* Spinning or sleeping, at most one thread is inside a list or the counter,   *)
(* although list_delete never releases its lock.                               *)
THEOREM ExclusionCorrect == Spec => []MutualExclusion
  <1>1. IInv => MutualExclusion
    BY DEF IInv
  <1>2. QED
    BY Invariance, <1>1, PTL

(* A release between a failed exchange and the futex wait is never missed      *)
(* (mutex.c), for any number of sleepers.                                      *)
THEOREM WakeupCorrect == Spec => []NoLostWakeup
  <1>1. IInv => NoLostWakeup
    BY DEF IInv
  <1>2. QED
    BY Invariance, <1>1, PTL

(* A step that keeps the lock words and who is inside abandons nothing.        *)
AbandonsRightly ==
    \A b \in Slots :
       /\ Abandoned(b) => Abandoned(b)'
       /\ Abandoned(b)' /\ ~Abandoned(b) =>
             \E t \in Threads : Inside(t, b) /\ call[t][1] = "delete"

LEMMA NothingAbandoned ==
  ASSUME flag' = flag, \A s \in Threads, b \in Slots : Inside(s, b)' <=> Inside(s, b)
  PROVE  AbandonsRightly
  BY DEF AbandonsRightly, Abandoned

LEMMA AbandonStep == IInv /\ [Next]_vars => AbandonsRightly
  <1> SUFFICES ASSUME IInv, [Next]_vars PROVE AbandonsRightly
    OBVIOUS
  <1> USE DEF IInv, At, Goto, fixed, lists
  <1>1. CASE Clear
    BY <1>1, NothingAbandoned DEF Clear, Inside, Slot
  <1>2. ASSUME NEW t \in Threads, Call(t) PROVE AbandonsRightly
    <2>1. /\ pc'[t] \in {"test", "acquire"} /\ pc[t] = "idle" /\ test' = test /\ flag' = flag
          /\ \A s \in Threads \ {t} : pc'[s] = pc[s] /\ call'[s] = call[s]
      BY <1>2 DEF Call, TypeOK, Places
    <2>2. \A s \in Threads, b \in Slots : Inside(s, b)' <=> Inside(s, b)
      BY <2>1, SlotKept DEF Inside
    <2>3. QED
      BY <2>1, <2>2, NothingAbandoned
  <1>3. ASSUME NEW t \in Threads, DeleteTest(t) \/ FutexWait(t) \/ FutexWake(t)
        PROVE AbandonsRightly
    <2>1. UNCHANGED <<test, call, flag>>
      BY <1>3 DEF DeleteTest, FutexWait, FutexWake
    <2>2. \A s \in Threads : \/ pc'[s] = pc[s]
                             \/ /\ pc[s] \notin {"body", "walk", "store", "release"}
                                /\ pc'[s] \notin {"body", "walk", "store", "release"}
      BY <1>3 DEF DeleteTest, FutexWait, FutexWake, Sleepers, TypeOK
    <2>3. \A s \in Threads, b \in Slots : Inside(s, b)' <=> Inside(s, b)
      BY <2>1, <2>2, SlotKept DEF Inside
    <2>4. QED
      BY <2>1, <2>3, NothingAbandoned
  <1>4. ASSUME NEW t \in Threads, Acquire(t) PROVE AbandonsRightly
    <2>1. Slot(t) \in Slots /\ \A s \in Threads : Slot(s)' = Slot(s)
      BY <1>4, SlotType DEF Acquire, Slot
    <2>2. CASE XchgFree(t)
      <3>1. pc' = [pc EXCEPT ![t] = "body"] /\ flag' = [flag EXCEPT ![Slot(t)] = 1]
        BY <1>4, <2>2 DEF Acquire
      <3>2. ~Abandoned(Slot(t)) /\ ~Abandoned(Slot(t))'
        BY <2>1, <2>2, <3>1 DEF XchgFree, Abandoned, Inside, TypeOK
      <3>3. \A b \in Slots \ {Slot(t)} : Abandoned(b)' <=> Abandoned(b)
        BY <1>4, <2>1, <3>1 DEF Abandoned, Inside, TypeOK
      <3>4. \A b \in Slots : Abandoned(b)' <=> IF b = Slot(t) THEN FALSE ELSE Abandoned(b)
        BY <2>1, <3>2, <3>3
      <3>5. QED
        BY <3>2, <3>4 DEF AbandonsRightly
    <2>3. CASE ~XchgFree(t)
      <3>1. pc' = [pc EXCEPT ![t] = "futex"] /\ pc[t] = "acquire" /\ flag' = flag
        BY <1>4, <2>3 DEF Acquire
      <3>2. \A s \in Threads, b \in Slots : Inside(s, b)' <=> Inside(s, b)
        BY <2>1, <3>1 DEF Inside, TypeOK
      <3>3. QED
        BY <3>1, <3>2, NothingAbandoned
    <2>4. QED
      BY <2>2, <2>3
  <1>5. ASSUME NEW t \in Threads, Release(t) PROVE AbandonsRightly
    <2>1. Slot(t) \in Slots /\ \A s \in Threads : Slot(s)' = Slot(s)
      BY <1>5, SlotType DEF Release, Slot
    <2>2. /\ Inside(t, Slot(t)) /\ flag' = [flag EXCEPT ![Slot(t)] = 0]
          /\ pc'[t] \in {"wake", "idle"} /\ \A s \in Threads \ {t} : pc'[s] = pc[s]
      BY <1>5, <2>1 DEF Release, Freed, Inside, TypeOK
    <2>3. ~Abandoned(Slot(t)) /\ ~Abandoned(Slot(t))'
      BY <2>1, <2>2 DEF Abandoned, TypeOK
    <2>4. \A b \in Slots \ {Slot(t)} : Abandoned(b)' <=> Abandoned(b)
      BY <2>1, <2>2 DEF Abandoned, Inside, TypeOK
    <2>5. \A b \in Slots : Abandoned(b)' <=> IF b = Slot(t) THEN FALSE ELSE Abandoned(b)
      BY <2>1, <2>3, <2>4
    <2>6. QED
      BY <2>3, <2>5 DEF AbandonsRightly
  <1>6. ASSUME NEW t \in Threads, \/ CounterRead(t) \/ CounterWrite(t) \/ InsertNode(t)
                                  \/ InsertHead(t) \/ WalkStart(t) \/ LookupEnd(t)
        PROVE AbandonsRightly
    <2>1. /\ UNCHANGED <<kind, test, flag, call>>
          /\ \E p \in {"walk", "store", "release"} : pc' = [pc EXCEPT ![t] = p]
          /\ pc[t] \in {"body", "walk", "store"}
      BY <1>6 DEF CounterRead, CounterWrite, InsertNode, InsertHead, WalkStart, LookupEnd
    <2>2. \A s \in Threads, b \in Slots : Inside(s, b)' <=> Inside(s, b)
      BY <2>1, SlotKept DEF Inside, TypeOK
    <2>3. QED
      BY <2>1, <2>2, NothingAbandoned
  <1>7. ASSUME NEW t \in Threads, DeleteMiss(t) \/ DeleteNode(t) PROVE AbandonsRightly
    <2>1. /\ UNCHANGED <<kind, test, flag, call>> /\ pc' = [pc EXCEPT ![t] = "idle"]
          /\ pc[t] = "walk" /\ call[t][1] = "delete"
      BY <1>7 DEF DeleteMiss, DeleteNode
    <2>2. /\ Inside(t, Slot(t))
          /\ \A s \in Threads \ {t}, b \in Slots : Inside(s, b)' <=> Inside(s, b)
          /\ \A b \in Slots \ {Slot(t)} : Inside(t, b)' <=> Inside(t, b)
          /\ \A b \in Slots : Inside(t, b)' => Inside(t, b)
      BY <2>1, SlotKept DEF Inside, TypeOK
    <2>3. QED
      BY <2>1, <2>2 DEF AbandonsRightly, Abandoned
  <1>8. ASSUME NEW t \in Threads, WalkOn(t) \/ WalkFault(t) PROVE AbandonsRightly
    BY <1>8, NothingAbandoned DEF WalkOn, WalkFault, Inside, Slot
  <1>9. CASE UNCHANGED vars
    BY <1>9, NothingAbandoned DEF vars, Inside, Slot
  <1>10. QED
    BY <1>1, <1>2, <1>3, <1>4, <1>5, <1>6, <1>7, <1>8, <1>9 DEF Next, Progress

(* Only a call of list_delete leaves a lock taken behind it, and then for good *)
(* (list.c): every other call releases what it acquired.                       *)
THEOREM AbandonCorrect == Spec => OnlyDeleteAbandons
  <1>1. IInv /\ [Next]_vars => [AbandonsRightly]_vars
    BY AbandonStep
  <1>2. QED
    BY Invariance, <1>1, PTL DEF Spec, OnlyDeleteAbandons, AbandonsRightly

-----------------------------------------------------------------------------
(* The lists of 3a                                                            *)

(* The sequence c is a list of nodes from h on: it ends at an address that is  *)
(* no node.                                                                    *)
IsPath(c, h, nx) ==
    /\ c \in Seq(Nodes)
    /\ \A i, j \in 1 .. Len(c) : c[i] = c[j] => i = j
    /\ \A i \in 1 .. Len(c) : c[i] = IF i = 1 THEN h ELSE nx[c[i - 1]]
    /\ IF c = <<>> THEN h \notin Nodes ELSE nx[c[Len(c)]] \notin Nodes

(* Every walk that starts at h has an i-th address.                            *)
Hops(to, n, h, nx) ==
    to = [i \in 0 .. n |-> IF i = 0 THEN h ELSE IF to[i - 1] \in Nodes THEN nx[to[i - 1]] ELSE to[i - 1]]

LEMMA LeastNatural ==
  ASSUME NEW S \in SUBSET Nat, S # {}
  PROVE  \E x \in S : \A y \in S : x <= y
<1>. DEFINE R == OpToRel(<, Nat)
<1>1. \E x \in S : \A y \in S : ~(<<y, x>> \in R)
  BY NatLessThanWellFounded, WFMin
<1>2. \A x, y \in Nat : <<y, x>> \in R <=> y < x
  BY DEF OpToRel
<1>. HIDE DEF R
<1>3. PICK x \in S : \A y \in S : ~(<<y, x>> \in R)
  BY <1>1
<1>4. ASSUME NEW y \in S PROVE x <= y
  <2>1. x \in Nat /\ y \in Nat
    OBVIOUS
  <2>2. ~(y < x)
    BY <2>1, <1>2, <1>3
  <2>. QED BY <2>1, <2>2
<1>. QED BY <1>3, <1>4

LEMMA HopsExist ==
  ASSUME NEW n \in Nat, NEW h, NEW nx
  PROVE  \E to : Hops(to, n, h, nx)
<1>. DEFINE Bad == {m \in Nat : ~\E to : Hops(to, m, h, nx)}
<1>1. SUFFICES ASSUME Bad # {} PROVE FALSE
  OBVIOUS
<1>2. PICK m \in Bad : \A k \in Bad : m <= k
  BY <1>1, LeastNatural
<1>3. m # 0
  <2>1. Hops([i \in 0 .. 0 |-> h], 0, h, nx)
    BY DEF Hops
  <2>. QED BY <2>1
<1>4. m - 1 \in Nat /\ m \in Nat /\ m - 1 \notin Bad
  BY <1>2, <1>3
<1>5. PICK to : Hops(to, m - 1, h, nx)
  BY <1>4
<1>. DEFINE far == [i \in 0 .. m |-> IF i = m THEN IF to[m - 1] \in Nodes THEN nx[to[m - 1]] ELSE to[m - 1] ELSE to[i]]
<1>6. \A i \in 0 .. m : i # 0 => i - 1 \in 0 .. m - 1 /\ far[i - 1] = to[i - 1]
  BY <1>4
<1>7. \A i \in 0 .. m - 1 : to[i] = IF i = 0 THEN h ELSE IF to[i - 1] \in Nodes THEN nx[to[i - 1]] ELSE to[i - 1]
  BY <1>5 DEF Hops
<1>8. \A i \in 0 .. m : far[i] = IF i = 0 THEN h ELSE IF far[i - 1] \in Nodes THEN nx[far[i - 1]] ELSE far[i - 1]
  <2>1. ASSUME NEW i \in 0 .. m, i = m
        PROVE  far[i] = IF i = 0 THEN h ELSE IF far[i - 1] \in Nodes THEN nx[far[i - 1]] ELSE far[i - 1]
    BY <2>1, <1>3, <1>6
  <2>2. ASSUME NEW i \in 0 .. m, i # m
        PROVE  far[i] = IF i = 0 THEN h ELSE IF far[i - 1] \in Nodes THEN nx[far[i - 1]] ELSE far[i - 1]
    <3>1. i \in 0 .. m - 1 /\ far[i] = to[i]
      BY <2>2, <1>4
    <3>. QED BY <3>1, <1>6, <1>7
  <2>. QED BY <2>1, <2>2
<1>9. far = [i \in 0 .. m |-> IF i = 0 THEN h ELSE IF far[i - 1] \in Nodes THEN nx[far[i - 1]] ELSE far[i - 1]]
  <2>. DEFINE rhs == [i \in 0 .. m |-> IF i = 0 THEN h ELSE IF far[i - 1] \in Nodes THEN nx[far[i - 1]] ELSE far[i - 1]]
  <2>1. DOMAIN rhs = DOMAIN far /\ \A i \in DOMAIN far : far[i] = rhs[i]
    BY <1>8
  <2>. QED BY <2>1
<1>10. Hops(far, m, h, nx)
  BY <1>9 DEF Hops
<1>. QED BY <1>10

LEMMA StepHops == \A b : Hops(Step(b), Cardinality(Nodes), head[b], next)
<1>. SUFFICES ASSUME NEW b PROVE Hops(Step(b), Cardinality(Nodes), head[b], next)
  OBVIOUS
<1>1. Cardinality(Nodes) \in Nat
  BY StoreAssumption, FS_CardinalityType
<1>2. \E to : Hops(to, Cardinality(Nodes), head[b], next)
  BY <1>1, HopsExist
<1>. QED BY <1>2 DEF Step, Hops

(* Where a list is known, the walk from its head is along it.                  *)
LEMMA PathLength ==
  ASSUME NEW c, NEW h, NEW nx, IsPath(c, h, nx)
  PROVE  Len(c) \in Nat /\ Len(c) <= Cardinality(Nodes) /\ \A i \in 1 .. Len(c) : c[i] \in Nodes
<1>1. c \in Seq(Nodes) /\ Len(c) \in Nat /\ c \in [1 .. Len(c) -> Nodes]
  BY LenProperties DEF IsPath
<1>2. c \in Injection(1 .. Len(c), Nodes)
  BY <1>1 DEF IsPath, Injection, IsInjective
<1>3. Cardinality(1 .. Len(c)) <= Cardinality(Nodes)
  BY <1>2, FS_Injection, StoreAssumption
<1>4. Cardinality(1 .. Len(c)) = Len(c)
  BY <1>1, FS_Interval
<1>. QED BY <1>1, <1>3, <1>4

LEMMA HopsAlong ==
  ASSUME NEW c, NEW h, NEW nx, IsPath(c, h, nx), NEW n \in Nat, NEW to, Hops(to, n, h, nx)
  PROVE  \A i \in 0 .. n : IF i < Len(c) THEN to[i] = c[i + 1] ELSE to[i] \notin Nodes
<1>. DEFINE Bad == {i \in 0 .. n : ~IF i < Len(c) THEN to[i] = c[i + 1] ELSE to[i] \notin Nodes}
<1>1. SUFFICES ASSUME Bad # {} PROVE FALSE
  OBVIOUS
<1>2. PICK m \in Bad : \A k \in Bad : m <= k
  <2>1. Bad \in SUBSET Nat
    OBVIOUS
  <2>. QED BY <1>1, <2>1, LeastNatural
<1>3. Len(c) \in Nat /\ \A i \in 1 .. Len(c) : c[i] \in Nodes
  BY PathLength
<1>4. m \in 0 .. n /\ to[m] = IF m = 0 THEN h ELSE IF to[m - 1] \in Nodes THEN nx[to[m - 1]] ELSE to[m - 1]
  BY DEF Hops
<1>5. CASE m = 0
  <2>1. c = <<>> <=> Len(c) = 0
    BY EmptySeq DEF IsPath
  <2>2. to[0] = h
    BY <1>4, <1>5
  <2>3. IF 0 < Len(c) THEN h = c[1] ELSE h \notin Nodes
    BY <1>3, <2>1 DEF IsPath
  <2>. QED BY <2>2, <2>3, <1>5
<1>6. CASE m # 0
  <2>1. m - 1 \in 0 .. n /\ m - 1 \notin Bad
    BY <1>2, <1>4, <1>6
  <2>2. IF m - 1 < Len(c) THEN to[m - 1] = c[m] ELSE to[m - 1] \notin Nodes
    BY <2>1, <1>4
  <2>3. CASE m < Len(c)
    <3>1. m \in 1 .. Len(c) /\ m + 1 \in 1 .. Len(c)
      BY <2>3, <1>3, <1>4, <1>6
    <3>2. to[m - 1] = c[m] /\ c[m] \in Nodes
      BY <2>2, <2>3, <3>1, <1>3, <1>4
    <3>3. c[m + 1] = nx[c[m]]
      <4>1. m + 1 # 1 /\ (m + 1) - 1 = m
        BY <1>4, <1>6
      <4>. QED BY <3>1, <4>1 DEF IsPath
    <3>. QED BY <3>2, <3>3, <1>4, <1>6, <2>3
  <2>4. CASE m = Len(c)
    <3>1. to[m - 1] = c[m] /\ c[m] \in Nodes /\ c # <<>>
      BY <2>2, <2>4, <1>3, <1>4, <1>6, EmptySeq
    <3>2. nx[c[m]] \notin Nodes
      BY <3>1, <2>4 DEF IsPath
    <3>. QED BY <3>1, <3>2, <1>4, <1>6, <2>4
  <2>5. CASE m > Len(c)
    <3>1. to[m - 1] \notin Nodes
      BY <2>2, <2>5, <1>3, <1>4
    <3>. QED BY <3>1, <1>4, <1>6, <2>5, <1>3
  <2>. QED BY <2>3, <2>4, <2>5, <1>3, <1>4
<1>. QED BY <1>5, <1>6

LEMMA ChainIs == \A b, c : IsPath(c, head[b], next) => Chain(b) = c /\ Length(b) = Len(c)
<1>. SUFFICES ASSUME NEW b, NEW c, IsPath(c, head[b], next) PROVE Chain(b) = c /\ Length(b) = Len(c)
  OBVIOUS
<1>. DEFINE N == Cardinality(Nodes)
<1>1. N \in Nat /\ Len(c) \in Nat /\ Len(c) <= N /\ \A i \in 1 .. Len(c) : c[i] \in Nodes
  BY StoreAssumption, FS_CardinalityType, PathLength
<1>2. \A i \in 0 .. N : IF i < Len(c) THEN Step(b)[i] = c[i + 1] ELSE Step(b)[i] \notin Nodes
  BY <1>1, StepHops, HopsAlong
<1>. HIDE DEF N
<1>3. {i \in 0 .. N - 1 : Step(b)[i] \in Nodes} = 0 .. Len(c) - 1
  <2>1. ASSUME NEW i \in 0 .. N - 1 PROVE Step(b)[i] \in Nodes <=> i < Len(c)
    BY <1>1, <1>2
  <2>. QED BY <2>1, <1>1
<1>4. Cardinality(0 .. Len(c) - 1) = Len(c)
  <2>1. 0 \in Int /\ Len(c) - 1 \in Int
    BY <1>1
  <2>2. Cardinality(0 .. Len(c) - 1) = IF 0 > Len(c) - 1 THEN 0 ELSE (Len(c) - 1) - 0 + 1
    BY <2>1, FS_Interval
  <2>. QED BY <2>2, <1>1
<1>5. Length(b) = Len(c)
  BY <1>3, <1>4 DEF Length, N
<1>6. c = [i \in 1 .. Len(c) |-> Step(b)[i - 1]]
  <2>1. c \in [1 .. Len(c) -> Nodes]
    BY LenProperties DEF IsPath
  <2>2. ASSUME NEW i \in 1 .. Len(c) PROVE c[i] = Step(b)[i - 1]
    <3>1. i - 1 \in 0 .. N /\ i - 1 < Len(c) /\ (i - 1) + 1 = i
      BY <1>1
    <3>2. Step(b)[i - 1] = c[(i - 1) + 1]
      BY <3>1, <1>2
    <3>. QED BY <3>1, <3>2
  <2>. QED BY <2>1, <2>2
<1>. QED BY <1>5, <1>6 DEF Chain

LEMMA ChainIsNext == (\A b, c : IsPath(c, head[b], next) => Chain(b) = c /\ Length(b) = Len(c))'
BY ChainIs, PTL

(* The list with a node put in front, or with its i-th node taken out.         *)
LEMMA RemoveAtFacts ==
  ASSUME NEW S, NEW c \in Seq(S), NEW i \in 1 .. Len(c)
  PROVE  /\ RemoveAt(c, i) \in Seq(S) /\ Len(c) \in Nat
         /\ Len(RemoveAt(c, i)) = Len(c) - 1
         /\ \A j \in 1 .. Len(c) - 1 : RemoveAt(c, i)[j] = IF j < i THEN c[j] ELSE c[j + 1]
<1>. DEFINE a == SubSeq(c, 1, i - 1)
            z == SubSeq(c, i + 1, Len(c))
<1>1. PICK n \in Nat : n = Len(c) /\ i \in 1 .. n /\ \A j \in 1 .. n : c[j] \in S
  BY LenProperties
<1>2. a \in Seq(S) /\ Len(a) = i - 1 /\ \A j \in 1 .. i - 1 : a[j] = c[j]
  <2>1. 1 \in Int /\ i - 1 \in Int /\ \A j \in 1 .. i - 1 : c[j] \in S
    BY <1>1
  <2>2. /\ a \in Seq(S) /\ Len(a) = IF 1 <= i - 1 THEN (i - 1) - 1 + 1 ELSE 0
        /\ \A j \in 1 .. (i - 1) - 1 + 1 : a[j] = c[1 + j - 1]
    BY <2>1, SubSeqProperties
  <2>. HIDE DEF a
  <2>3. (i - 1) - 1 + 1 = i - 1 /\ \A j \in 1 .. i - 1 : 1 + j - 1 = j
    BY <1>1
  <2>4. Len(a) = i - 1
    BY <2>2, <2>3, <1>1
  <2>. QED BY <2>2, <2>3, <2>4
<1>3. z \in Seq(S) /\ Len(z) = n - i /\ \A j \in 1 .. n - i : z[j] = c[i + j]
  <2>1. i + 1 \in Int /\ n \in Int /\ \A j \in i + 1 .. n : c[j] \in S
    BY <1>1
  <2>2. /\ z \in Seq(S) /\ Len(z) = IF i + 1 <= n THEN n - (i + 1) + 1 ELSE 0
        /\ \A j \in 1 .. n - (i + 1) + 1 : z[j] = c[i + 1 + j - 1]
    BY <2>1, <1>1, SubSeqProperties
  <2>. HIDE DEF z
  <2>3. n - (i + 1) + 1 = n - i /\ \A j \in 1 .. n - i : i + 1 + j - 1 = i + j
    BY <1>1
  <2>4. i \in Int /\ n \in Int /\ i <= n /\ Len(z) = IF i + 1 <= n THEN n - (i + 1) + 1 ELSE 0
    BY <2>2, <1>1
  <2>5. Len(z) = n - i
    BY <2>4
  <2>. QED BY <2>2, <2>3, <2>5
<1>. HIDE DEF a, z
<1>4. /\ a \o z \in Seq(S) /\ Len(a \o z) = Len(a) + Len(z)
      /\ \A j \in 1 .. Len(a) + Len(z) : (a \o z)[j] = IF j <= Len(a) THEN a[j] ELSE z[j - Len(a)]
  BY <1>2, <1>3, ConcatProperties
<1>5. RemoveAt(c, i) = a \o z
  BY DEF RemoveAt, a, z
<1>6. ASSUME NEW j \in 1 .. n - 1 PROVE (a \o z)[j] = IF j < i THEN c[j] ELSE c[j + 1]
  <2>1. Len(a) = i - 1 /\ j \in 1 .. Len(a) + Len(z)
    BY <1>1, <1>2, <1>3
  <2>2. (a \o z)[j] = IF j <= i - 1 THEN a[j] ELSE z[j - (i - 1)]
    BY <2>1, <1>4
  <2>3. CASE j < i
    <3>1. j <= i - 1 /\ j \in 1 .. i - 1
      BY <2>3, <1>1
    <3>. QED BY <3>1, <2>2, <2>3, <1>2
  <2>4. CASE ~(j < i)
    <3>1. j - (i - 1) \in 1 .. n - i /\ i + (j - (i - 1)) = j + 1 /\ ~(j <= i - 1)
      BY <2>4, <1>1
    <3>2. z[j - (i - 1)] = c[i + (j - (i - 1))]
      BY <3>1, <1>3
    <3>. QED BY <3>1, <3>2, <2>2, <2>4
  <2>. QED BY <2>3, <2>4
<1>7. Len(a) + Len(z) = n - 1
  BY <1>1, <1>2, <1>3
<1>. QED BY <1>1, <1>4, <1>5, <1>6, <1>7

LEMMA PrefixFacts ==
  ASSUME NEW S, NEW n \in S, NEW c \in Seq(S)
  PROVE  /\ <<n>> \o c \in Seq(S) /\ Len(<<n>> \o c) = Len(c) + 1 /\ Len(c) \in Nat
         /\ \A j \in 1 .. Len(c) + 1 : (<<n>> \o c)[j] = IF j = 1 THEN n ELSE c[j - 1]
<1>1. <<n>> \in Seq(S) /\ Len(<<n>>) = 1 /\ <<n>>[1] = n /\ Len(c) \in Nat
  BY LenProperties
<1>2. /\ <<n>> \o c \in Seq(S) /\ Len(<<n>> \o c) = Len(<<n>>) + Len(c)
      /\ \A j \in 1 .. Len(<<n>>) + Len(c) : (<<n>> \o c)[j] = IF j <= Len(<<n>>) THEN <<n>>[j] ELSE c[j - Len(<<n>>)]
  BY <1>1, ConcatProperties
<1>. QED BY <1>1, <1>2

LEMMA PathSame ==
  ASSUME NEW c, NEW h, NEW nx, NEW nxt, IsPath(c, h, nx), \A i \in 1 .. Len(c) : nxt[c[i]] = nx[c[i]]
  PROVE  IsPath(c, h, nxt)
<1>1. Len(c) \in Nat /\ (c # <<>> => Len(c) \in 1 .. Len(c))
  BY PathLength, EmptySeq DEF IsPath
<1>2. \A i \in 1 .. Len(c) : i # 1 => i - 1 \in 1 .. Len(c)
  BY <1>1
<1>. QED BY <1>1, <1>2 DEF IsPath

LEMMA PathInsert ==
  ASSUME NEW c, NEW nx, NEW n \in Nodes, IsPath(c, nx[n], nx), \A i \in 1 .. Len(c) : c[i] # n
  PROVE  IsPath(<<n>> \o c, n, nx)
<1>. DEFINE d == <<n>> \o c
<1>1. /\ d \in Seq(Nodes) /\ Len(d) = Len(c) + 1 /\ Len(c) \in Nat /\ c \in Seq(Nodes)
      /\ \A j \in 1 .. Len(c) + 1 : d[j] = IF j = 1 THEN n ELSE c[j - 1]
  BY PrefixFacts DEF IsPath
<1>. HIDE DEF d
<1>2. \A i, j \in 1 .. Len(d) : d[i] = d[j] => i = j
  <2>1. SUFFICES ASSUME NEW i \in 1 .. Len(d), NEW j \in 1 .. Len(d), d[i] = d[j] PROVE i = j
    OBVIOUS
  <2>2. CASE i = 1 /\ j # 1
    <3>1. j - 1 \in 1 .. Len(c)
      BY <2>2, <1>1
    <3>. QED BY <3>1, <2>1, <2>2, <1>1
  <2>3. CASE i # 1 /\ j = 1
    <3>1. i - 1 \in 1 .. Len(c)
      BY <2>3, <1>1
    <3>. QED BY <3>1, <2>1, <2>3, <1>1
  <2>4. CASE i # 1 /\ j # 1
    <3>1. i - 1 \in 1 .. Len(c) /\ j - 1 \in 1 .. Len(c) /\ c[i - 1] = c[j - 1]
      BY <2>1, <2>4, <1>1
    <3>2. i - 1 = j - 1
      BY <3>1 DEF IsPath
    <3>. QED BY <3>2, <1>1
  <2>. QED BY <2>2, <2>3, <2>4
<1>3. \A i \in 1 .. Len(d) : d[i] = IF i = 1 THEN n ELSE nx[d[i - 1]]
  <2>1. SUFFICES ASSUME NEW i \in 1 .. Len(d), i # 1 PROVE d[i] = nx[d[i - 1]]
    BY <1>1
  <2>2. i - 1 \in 1 .. Len(c) /\ i - 1 \in 1 .. Len(c) + 1 /\ i \in 1 .. Len(c) + 1 /\ d[i] = c[i - 1]
    BY <2>1, <1>1
  <2>3. CASE i = 2
    <3>1. c[1] = nx[n] /\ d[1] = n
      BY <2>2, <2>3, <1>1 DEF IsPath
    <3>. QED BY <3>1, <2>2, <2>3
  <2>4. CASE i # 2
    <3>1. i - 1 # 1 /\ c[i - 1] = nx[c[(i - 1) - 1]]
      BY <2>2, <2>4, <1>1 DEF IsPath
    <3>2. d[i - 1] = c[(i - 1) - 1]
      BY <2>2, <2>4, <1>1
    <3>. QED BY <3>1, <3>2, <2>2
  <2>. QED BY <2>3, <2>4
<1>4. d # <<>> /\ nx[d[Len(d)]] \notin Nodes
  <2>1. d # <<>>
    BY <1>1, EmptySeq
  <2>2. CASE c = <<>>
    <3>1. Len(c) = 0
      BY <2>2, EmptySeq
    <3>2. d[Len(d)] = n
      BY <3>1, <1>1
    <3>. QED BY <2>1, <3>2, <2>2 DEF IsPath
  <2>3. CASE c # <<>>
    <3>1. Len(c) \in Nat \ {0}
      BY <2>3, <1>1, EmptySeq
    <3>2. d[Len(d)] = c[Len(c)]
      BY <3>1, <1>1
    <3>. QED BY <2>1, <3>2, <2>3 DEF IsPath
  <2>. QED BY <2>2, <2>3
<1>. QED BY <1>1, <1>2, <1>3, <1>4 DEF IsPath, d

LEMMA PathRemove ==
  ASSUME NEW c, NEW h, NEW T, NEW nx \in [Nodes -> T], IsPath(c, h, nx), NEW i \in 1 .. Len(c)
  PROVE  IF i = 1 THEN IsPath(RemoveAt(c, i), nx[c[1]], nx)
         ELSE IsPath(RemoveAt(c, i), h, [nx EXCEPT ![c[i - 1]] = nx[c[i]]])
<1>. DEFINE d == RemoveAt(c, i)
            nxt == IF i = 1 THEN nx ELSE [nx EXCEPT ![c[i - 1]] = nx[c[i]]]
            hd == IF i = 1 THEN nx[c[1]] ELSE h
<1>1. /\ c \in Seq(Nodes) /\ d \in Seq(Nodes) /\ Len(c) \in Nat /\ Len(d) = Len(c) - 1 /\ i \in Nat
      /\ \A j \in 1 .. Len(c) - 1 : d[j] = IF j < i THEN c[j] ELSE c[j + 1]
  BY RemoveAtFacts DEF IsPath
<1>. HIDE DEF d
<1>2. \A j \in 1 .. Len(c) : c[j] \in Nodes /\ c[j] = IF j = 1 THEN h ELSE nx[c[j - 1]]
  BY PathLength DEF IsPath
<1>3. \A j \in 1 .. Len(c) : nxt[c[j]] = IF j = i - 1 THEN nx[c[i]] ELSE nx[c[j]]
  <2>1. SUFFICES ASSUME NEW j \in 1 .. Len(c) PROVE nxt[c[j]] = IF j = i - 1 THEN nx[c[i]] ELSE nx[c[j]]
    OBVIOUS
  <2>2. CASE i = 1
    BY <2>2, <1>1
  <2>3. CASE i # 1
    <3>1. i - 1 \in 1 .. Len(c) /\ (c[j] = c[i - 1] => j = i - 1)
      BY <2>3, <1>1 DEF IsPath
    <3>. QED BY <2>3, <3>1, <1>2
  <2>. QED BY <2>2, <2>3
<1>. HIDE DEF nxt
<1>4. \A j, k \in 1 .. Len(d) : d[j] = d[k] => j = k
  <2>1. SUFFICES ASSUME NEW j \in 1 .. Len(d), NEW k \in 1 .. Len(d), d[j] = d[k] PROVE j = k
    OBVIOUS
  <2>. DEFINE jj == IF j < i THEN j ELSE j + 1
              kk == IF k < i THEN k ELSE k + 1
  <2>2. jj \in 1 .. Len(c) /\ kk \in 1 .. Len(c) /\ d[j] = c[jj] /\ d[k] = c[kk]
    BY <1>1
  <2>3. jj = kk
    <3>1. c[jj] = c[kk]
      BY <2>1, <2>2
    <3>2. \A m, n \in 1 .. Len(c) : c[m] = c[n] => m = n
      BY DEF IsPath
    <3>. HIDE DEF jj, kk, d
    <3>. QED BY <2>2, <3>1, <3>2
  <2>. QED BY <2>3, <1>1
<1>5. \A j \in 1 .. Len(d) : d[j] = IF j = 1 THEN hd ELSE nxt[d[j - 1]]
  <2>1. SUFFICES ASSUME NEW j \in 1 .. Len(d) PROVE d[j] = IF j = 1 THEN hd ELSE nxt[d[j - 1]]
    OBVIOUS
  <2>2. j \in 1 .. Len(c) /\ j + 1 \in 1 .. Len(c) /\ j \in 1 .. Len(c) - 1
    BY <1>1
  <2>3. CASE j < i
    <3>1. d[j] = c[j]
      BY <2>2, <2>3, <1>1
    <3>2. CASE j = 1
      <4>1. i # 1
        BY <2>3, <3>2
      <4>. QED BY <3>1, <3>2, <4>1, <1>2, <2>2
    <3>3. CASE j # 1
      <4>1. j - 1 \in 1 .. Len(c) - 1 /\ j - 1 < i /\ j - 1 # i - 1 /\ j - 1 \in 1 .. Len(c)
        BY <2>2, <2>3, <3>3, <1>1
      <4>2. d[j - 1] = c[j - 1] /\ nxt[c[j - 1]] = nx[c[j - 1]]
        BY <4>1, <1>1, <1>3
      <4>. QED BY <3>1, <3>3, <4>2, <1>2, <2>2
    <3>. QED BY <3>2, <3>3
  <2>4. CASE j >= i
    <3>1. d[j] = c[j + 1] /\ c[j + 1] = nx[c[j]]
      <4>1. j + 1 # 1 /\ (j + 1) - 1 = j /\ ~(j < i)
        BY <2>2, <2>4, <1>1
      <4>. QED BY <4>1, <2>2, <1>1, <1>2
    <3>2. CASE j = 1
      <4>1. i = 1
        BY <2>4, <3>2, <1>1
      <4>. QED BY <3>1, <3>2, <4>1
    <3>3. CASE j # 1 /\ j = i
      <4>1. j - 1 \in 1 .. Len(c) - 1 /\ j - 1 < i /\ j - 1 \in 1 .. Len(c)
        BY <2>2, <3>3, <1>1
      <4>2. d[j - 1] = c[j - 1] /\ nxt[c[j - 1]] = nx[c[i]]
        BY <4>1, <3>3, <1>1, <1>3
      <4>. QED BY <3>1, <3>3, <4>2
    <3>4. CASE j # 1 /\ j # i
      <4>1. j - 1 \in 1 .. Len(c) - 1 /\ ~(j - 1 < i) /\ (j - 1) + 1 = j /\ j # i - 1
        BY <2>2, <2>4, <3>4, <1>1
      <4>2. d[j - 1] = c[j] /\ nxt[c[j]] = nx[c[j]]
        BY <4>1, <2>2, <1>1, <1>3
      <4>. QED BY <3>1, <3>4, <4>2
    <3>. QED BY <3>2, <3>3, <3>4
  <2>. QED BY <2>3, <2>4, <1>1
<1>6. IF d = <<>> THEN hd \notin Nodes ELSE nxt[d[Len(d)]] \notin Nodes
  <2>1. c # <<>> /\ nx[c[Len(c)]] \notin Nodes /\ Len(c) \in 1 .. Len(c)
    BY <1>1, EmptySeq DEF IsPath
  <2>2. CASE d = <<>>
    <3>0. Len(d) = 0
      BY <2>2, EmptySeq
    <3>1. Len(c) = 1
      BY <3>0, <1>1
    <3>2. i = 1
      BY <3>1
    <3>. QED BY <3>1, <3>2, <2>1, <2>2
  <2>3. CASE d # <<>>
    <3>1. Len(d) \in 1 .. Len(d) /\ Len(c) - 1 \in 1 .. Len(c) - 1 /\ Len(c) - 1 \in 1 .. Len(c)
      BY <2>3, <1>1, EmptySeq
    <3>2. CASE i = Len(c)
      <4>1. d[Len(d)] = c[i - 1] /\ i - 1 \in 1 .. Len(c)
        BY <3>1, <3>2, <1>1
      <4>2. nxt[c[i - 1]] = nx[c[i]]
        BY <4>1, <1>3
      <4>. QED BY <4>1, <4>2, <3>2, <2>1, <2>3
    <3>3. CASE i # Len(c)
      <4>1. d[Len(d)] = c[Len(c)] /\ Len(c) # i - 1
        BY <3>1, <3>3, <1>1
      <4>2. nxt[c[Len(c)]] = nx[c[Len(c)]]
        BY <4>1, <2>1, <1>3
      <4>. QED BY <4>1, <4>2, <2>1, <2>3
    <3>. QED BY <3>2, <3>3
  <2>. QED BY <2>2, <2>3
<1>7. IsPath(d, hd, nxt)
  BY <1>1, <1>4, <1>5, <1>6 DEF IsPath
<1>. QED BY <1>7 DEF d, nxt

-----------------------------------------------------------------------------
In(n, b) == \E i \in 1 .. Len(Chain(b)) : n = Chain(b)[i]
Storing(t) == pc[t] = "store" /\ call[t][1] = "insert"

(* What follows the first i - 1 nodes of the list b.                           *)
Behind(b, i) == IF i = 1 THEN head[b] ELSE next[Chain(b)[i - 1]]

(* A thread that walks along a list is at its i-th address, and none of the    *)
(* nodes in front of it has the key.                                           *)
WalksTo(t, b, i) ==
    /\ cur[t] = Behind(b, i)
    /\ pre[t] = IF i = 1 THEN NULL ELSE Chain(b)[i - 1]
    /\ \A j \in 1 .. i - 1 : val[Chain(b)[j]] # call[t][2]

(* The lists share no node, and the other nodes malloc has given are those     *)
(* that an insert has still to link in front of its list.                      *)
ListsInv ==
    /\ \A b \in Slots : IsPath(Chain(b), head[b], next)
    /\ \A b \in Slots, n \in Nodes : In(n, b) => n \in live
    /\ \A b, c \in Slots, n \in Nodes : In(n, b) /\ In(n, c) => b = c
    /\ \A n \in live : (\E b \in Slots : In(n, b)) <=> ~\E t \in Threads : Storing(t) /\ cur[t] = n
    /\ \A s, t \in Threads : Storing(s) /\ Storing(t) /\ cur[s] = cur[t] => s = t

(* What a thread knows of the store, by its place.                             *)
Doing(t) ==
    /\ call[t][1] \in {"none"} \cup (IF test = "counter" THEN CounterOps ELSE ListOps)
    /\ Storing(t) => cur[t] \in live /\ val[cur[t]] = call[t][2] /\ next[cur[t]] = head[Slot(t)]
    /\ pc[t] = "store" /\ ~Storing(t) => cur[t] = count /\ call[t][1] \in {"increment", "decrement"}
    /\ pc[t] = "walk" => /\ call[t][1] \in {"delete", "lookup"}
                         /\ \E i \in 1 .. Len(Chain(Slot(t))) + 1 : WalksTo(t, Slot(t), i)
    /\ pc[t] = "test" => call[t][1] = "delete"
    /\ pc[t] \notin {"idle", "wake", "release"} => call[t][1] # "none"
StoreSound == over = "no" => ListsInv /\ \A t \in Threads : Doing(t)

(* The lists where none of their links changed.                                *)
LEMMA SameChain ==
  ASSUME NEW b, IsPath(Chain(b), head[b], next), head'[b] = head[b],
         \A i \in 1 .. Len(Chain(b)) : next'[Chain(b)[i]] = next[Chain(b)[i]]
  PROVE  Chain(b)' = Chain(b) /\ IsPath(Chain(b), head[b], next)' /\ \A n : In(n, b)' <=> In(n, b)
<1>1. PICK c : c = Chain(b)
  OBVIOUS
<1>2. IsPath(c, head'[b], next')
  BY <1>1, PathSame
<1>3. Chain(b)' = c
  BY <1>2, ChainIsNext
<1>4. IsPath(Chain(b), head[b], next)'
  BY <1>2, <1>3
<1>. QED BY <1>1, <1>3, <1>4 DEF In

LEMMA PathNodes ==
  ASSUME ListsInv, NEW b \in Slots
  PROVE  /\ Len(Chain(b)) \in Nat
         /\ \A i \in 1 .. Len(Chain(b)) : Chain(b)[i] \in Nodes /\ Chain(b)[i] \in live /\ In(Chain(b)[i], b)
         /\ \A n : In(n, b) => n \in Nodes
<1>1. IsPath(Chain(b), head[b], next)
  BY DEF ListsInv
<1>2. Len(Chain(b)) \in Nat /\ \A i \in 1 .. Len(Chain(b)) : Chain(b)[i] \in Nodes
  BY <1>1, PathLength
<1>3. \A i \in 1 .. Len(Chain(b)) : In(Chain(b)[i], b)
  BY DEF In
<1>4. \A i \in 1 .. Len(Chain(b)) : Chain(b)[i] \in live
  BY <1>2, <1>3 DEF ListsInv
<1>. QED BY <1>2, <1>3, <1>4 DEF In

LEMMA BehindIs ==
  ASSUME ListsInv, NEW b \in Slots, NEW i \in 1 .. Len(Chain(b)) + 1
  PROVE  IF i <= Len(Chain(b)) THEN Behind(b, i) = Chain(b)[i] ELSE Behind(b, i) \notin Nodes
<1>1. IsPath(Chain(b), head[b], next) /\ Len(Chain(b)) \in Nat
  BY PathNodes DEF ListsInv
<1>2. CASE i <= Len(Chain(b))
  <2>1. i \in 1 .. Len(Chain(b))
    BY <1>1, <1>2
  <2>. QED BY <2>1, <1>1, <1>2 DEF IsPath, Behind
<1>3. CASE ~(i <= Len(Chain(b)))
  <2>1. i = Len(Chain(b)) + 1 /\ i - 1 = Len(Chain(b))
    BY <1>1, <1>3
  <2>2. CASE Chain(b) = <<>>
    <3>1. i = 1
      BY <2>1, <2>2, EmptySeq
    <3>. QED BY <3>1, <2>2, <1>1, <1>3 DEF IsPath, Behind
  <2>3. CASE Chain(b) # <<>>
    <3>1. i # 1
      <4>1. Chain(b) \in Seq(Nodes)
        BY <1>1 DEF IsPath
      <4>2. Len(Chain(b)) \in Nat \ {0}
        BY <4>1, <2>3, EmptySeq
      <4>. QED BY <4>2, <2>1
    <3>. QED BY <3>1, <2>1, <2>3, <1>1, <1>3 DEF IsPath, Behind
  <2>. QED BY <2>2, <2>3
<1>. QED BY <1>2, <1>3

LEMMA ListsKept ==
  ASSUME ListsInv, UNCHANGED <<head, next, live>>, \A s \in Threads : Storing(s)' <=> Storing(s),
         \A s \in Threads : Storing(s) => cur'[s] = cur[s]
  PROVE  ListsInv' /\ \A b \in Slots : Chain(b)' = Chain(b)
<1>1. \A b \in Slots : Chain(b)' = Chain(b) /\ IsPath(Chain(b), head[b], next)' /\ \A n : In(n, b)' <=> In(n, b)
  BY SameChain DEF ListsInv
<1>. QED BY <1>1 DEF ListsInv

LEMMA DoingKept ==
  ASSUME NEW s \in Threads, NEW b \in Slots, b = Slot(s), Doing(s), test' = test, call'[s] = call[s],
         pc'[s] = pc[s], cur'[s] = cur[s], pre'[s] = pre[s],
         Storing(s) => /\ cur[s] \in live' /\ val'[cur[s]] = val[cur[s]] /\ next'[cur[s]] = next[cur[s]]
                       /\ head'[b] = head[b],
         pc[s] = "store" /\ ~Storing(s) => count' = count,
         pc[s] = "walk" => /\ Chain(b)' = Chain(b) /\ head'[b] = head[b] /\ Len(Chain(b)) \in Nat
                           /\ \A i \in 1 .. Len(Chain(b)) : /\ next'[Chain(b)[i]] = next[Chain(b)[i]]
                                                            /\ val'[Chain(b)[i]] = val[Chain(b)[i]]
  PROVE  Doing(s)'
<1>1. Slot(s)' = b /\ (Storing(s)' <=> Storing(s))
  BY SlotKept DEF Storing
<1>2. ASSUME pc[s] = "walk" PROVE \E i \in 1 .. Len(Chain(b)') + 1 : WalksTo(s, b, i)'
  <2>1. PICK i \in 1 .. Len(Chain(b)) + 1 : WalksTo(s, b, i)
    BY <1>2 DEF Doing
  <2>2. /\ \A j \in 1 .. i - 1 : j \in 1 .. Len(Chain(b))
        /\ i # 1 => i - 1 \in 1 .. Len(Chain(b))
    BY <1>2
  <2>3. Behind(b, i)' = Behind(b, i)
    BY <2>2, <1>2 DEF Behind
  <2>4. WalksTo(s, b, i)'
    BY <2>1, <2>2, <2>3, <1>2 DEF WalksTo
  <2>. QED BY <2>4, <1>2
<1>3. ASSUME pc[s] = "walk" PROVE \E i \in 1 .. Len(Chain(Slot(s))') + 1 : WalksTo(s, Slot(s), i)'
  BY <1>1, <1>2, <1>3
<1>. QED BY <1>1, <1>3 DEF Doing

(* Who is inside has the list to himself.                                      *)
LEMMA Alone ==
  ASSUME IInv, NEW s \in Threads, NEW t \in Threads, s # t,
         pc[s] \in {"body", "walk", "store", "release"}, pc[t] \in {"body", "walk", "store", "release"}
  PROVE  Slot(s) # Slot(t)
<1>1. Slot(s) \in Slots /\ Inside(s, Slot(s)) /\ Inside(t, Slot(t))
  BY SlotType DEF Inside, IInv
<1>. QED BY <1>1 DEF IInv, MutualExclusion

LEMMA QuietSound ==
  ASSUME IInv, StoreSound, over = "no", NEW t \in Threads, UNCHANGED <<test, lists>>,
         \A s \in Threads \ {t} : /\ pc'[s] = pc[s] \/ (pc[s] = "asleep" /\ pc'[s] = "acquire")
                                  /\ call'[s] = call[s] /\ cur'[s] = cur[s] /\ pre'[s] = pre[s],
         \A s \in Threads \ {t} : pc[s] = "store" /\ ~Storing(s) => count' = count,
         ~Storing(t), ~Storing(t)',
         (\A b \in Slots : Chain(b)' = Chain(b)) => Doing(t)'
  PROVE  StoreSound' /\ \A b \in Slots : Chain(b)' = Chain(b)
<1>1. ListsInv /\ \A s \in Threads : Doing(s)
  BY DEF StoreSound
<1>2. \A s \in Threads : (Storing(s)' <=> Storing(s)) /\ (Storing(s) => cur'[s] = cur[s])
  BY DEF Storing
<1>3. ListsInv' /\ \A b \in Slots : Chain(b)' = Chain(b)
  BY <1>1, <1>2, ListsKept DEF lists
<1>4. ASSUME NEW s \in Threads \ {t} PROVE Doing(s)'
  <2>1. PICK b \in Slots : b = Slot(s)
    BY SlotType DEF IInv
  <2>2. CASE pc'[s] = pc[s]
    <3>1. Storing(s) => cur[s] \in live'
      BY <1>1 DEF Doing, lists
    <3>2. UNCHANGED <<head, next, val>> /\ Chain(b)' = Chain(b) /\ Len(Chain(b)) \in Nat
      BY <1>1, <1>3, PathNodes DEF lists
    <3>. QED BY <1>1, <2>1, <2>2, <3>1, <3>2, DoingKept
  <2>3. CASE pc[s] = "asleep" /\ pc'[s] = "acquire"
    BY <1>1, <2>3 DEF Doing, Storing
  <2>. QED BY <2>2, <2>3
<1>. QED BY <1>3, <1>4 DEF StoreSound

LEMMA InsertNodeSound ==
  ASSUME IInv, StoreSound, NEW t \in Threads, InsertNode(t)
  PROVE  StoreSound' /\ \A b \in Slots : Chain(b)' = Chain(b) /\ \A i \in 1 .. Len(Chain(b)) : val'[Chain(b)[i]] = val[Chain(b)[i]]
<1>1. PICK n \in Nodes : /\ n \notin live /\ live' = live \cup {n}
                         /\ val' = [val EXCEPT ![n] = call[t][2]]
                         /\ next' = [next EXCEPT ![n] = head[Slot(t)]]
                         /\ cur' = [cur EXCEPT ![t] = n]
  BY DEF InsertNode, Malloc
<1>2. /\ over = "no" /\ ListsInv /\ (\A s \in Threads : Doing(s)) /\ TypeOK /\ head' = head
      /\ pc[t] = "body" /\ call[t][1] = "insert" /\ pc' = [pc EXCEPT ![t] = "store"]
      /\ UNCHANGED <<test, count, call, pre, over>>
  BY DEF InsertNode, StoreSound, At, Goto, IInv, fixed
<1>3. \A m \in Nodes \ {n} : val'[m] = val[m] /\ next'[m] = next[m]
  BY <1>1, <1>2 DEF TypeOK
<1>4. ASSUME NEW b \in Slots
      PROVE  /\ Chain(b)' = Chain(b) /\ IsPath(Chain(b), head[b], next)' /\ (\A m : In(m, b)' <=> In(m, b))
             /\ Len(Chain(b)) \in Nat
             /\ \A i \in 1 .. Len(Chain(b)) : val'[Chain(b)[i]] = val[Chain(b)[i]] /\ next'[Chain(b)[i]] = next[Chain(b)[i]]
  <2>1. \A i \in 1 .. Len(Chain(b)) : val'[Chain(b)[i]] = val[Chain(b)[i]] /\ next'[Chain(b)[i]] = next[Chain(b)[i]]
    BY <1>1, <1>2, <1>3, PathNodes
  <2>2. IsPath(Chain(b), head[b], next) /\ head'[b] = head[b] /\ Len(Chain(b)) \in Nat
    BY <1>2, PathNodes DEF ListsInv
  <2>. QED BY <2>1, <2>2, SameChain
<1>5. \A s \in Threads : Storing(s)' <=> Storing(s) \/ s = t
  BY <1>2 DEF Storing, TypeOK
<1>6. \A s \in Threads \ {t} : cur'[s] = cur[s] /\ (Storing(s) => cur[s] \in live /\ cur[s] # n)
  BY <1>1, <1>2 DEF Doing, TypeOK
<1>7. ~Storing(t) /\ cur'[t] = n
  BY <1>1, <1>2 DEF Storing, TypeOK
<1>8. ListsInv'
  <2>1. \A b \in Slots, m \in Nodes : In(m, b)' => m \in live'
    BY <1>1, <1>2, <1>4 DEF ListsInv
  <2>2. \A b, c \in Slots, m \in Nodes : In(m, b)' /\ In(m, c)' => b = c
    BY <1>2, <1>4 DEF ListsInv
  <2>3. ASSUME NEW m \in live'
        PROVE  (\E b \in Slots : In(m, b)') <=> ~\E s \in Threads : Storing(s)' /\ cur'[s] = m
    <3>1. CASE m = n
      <4>1. \A b \in Slots : ~In(m, b)'
        BY <3>1, <1>1, <1>2, <1>4 DEF ListsInv
      <4>. QED BY <3>1, <4>1, <1>5, <1>7
    <3>2. CASE m # n
      <4>1. m \in live
        BY <3>2, <1>1, <2>3
      <4>2. (\E s \in Threads : Storing(s)' /\ cur'[s] = m) <=> \E s \in Threads : Storing(s) /\ cur[s] = m
        BY <3>2, <1>5, <1>6, <1>7
      <4>. QED BY <4>1, <4>2, <1>2, <1>4 DEF ListsInv
    <3>. QED BY <3>1, <3>2
  <2>4. ASSUME NEW r \in Threads, NEW s \in Threads, Storing(r)', Storing(s)', cur'[r] = cur'[s] PROVE r = s
    BY <2>4, <1>2, <1>5, <1>6, <1>7 DEF ListsInv
  <2>. QED BY <1>4, <2>1, <2>2, <2>3, <2>4 DEF ListsInv
<1>9. ASSUME NEW s \in Threads PROVE Doing(s)'
  <2>1. PICK b \in Slots : b = Slot(s)
    BY <1>2, SlotType
  <2>2. CASE s = t
    <3>1. val'[n] = call[t][2] /\ next'[n] = head[b] /\ n \in live'
      BY <1>1, <1>2, <2>1, <2>2 DEF TypeOK
    <3>2. Slot(t)' = b /\ pc'[t] = "store" /\ call'[t] = call[t] /\ Storing(t)'
      BY <2>1, <2>2, <1>2, <1>5, SlotKept DEF TypeOK
    <3>3. call'[t][1] \in {"none"} \cup (IF test' = "counter" THEN CounterOps ELSE ListOps)
      BY <1>2, <3>2 DEF Doing
    <3>4. cur'[t] \in live' /\ val'[cur'[t]] = call'[t][2] /\ next'[cur'[t]] = head'[b]
      BY <3>1, <3>2, <1>2, <1>7
    <3>5. call'[t][1] # "none"
      BY <1>2, <3>2
    <3>. QED BY <2>2, <3>2, <3>3, <3>4, <3>5 DEF Doing
  <2>3. CASE s # t
    <3>1. call'[s] = call[s] /\ pc'[s] = pc[s] /\ cur'[s] = cur[s] /\ pre'[s] = pre[s] /\ Doing(s)
      BY <1>2, <1>6, <2>3 DEF TypeOK
    <3>2. Storing(s) => /\ cur[s] \in live' /\ val'[cur[s]] = val[cur[s]] /\ next'[cur[s]] = next[cur[s]]
                        /\ head'[b] = head[b]
      BY <1>1, <1>2, <1>3, <1>6, <2>3 DEF TypeOK
    <3>3. test' = test /\ count' = count
      BY <1>2
    <3>4. pc[s] = "walk" => /\ Chain(b)' = Chain(b) /\ head'[b] = head[b] /\ Len(Chain(b)) \in Nat
                            /\ \A i \in 1 .. Len(Chain(b)) : /\ next'[Chain(b)[i]] = next[Chain(b)[i]]
                                                             /\ val'[Chain(b)[i]] = val[Chain(b)[i]]
      BY <1>2, <1>4
    <3>. QED BY <2>1, <3>1, <3>2, <3>3, <3>4, DoingKept
  <2>. QED BY <2>2, <2>3
<1>. QED BY <1>4, <1>8, <1>9 DEF StoreSound

(* The others, where one list is changed: they are not inside of it.           *)
LEMMA OthersKept ==
  ASSUME IInv, StoreSound, over = "no", NEW t \in Threads, pc[t] \in {"body", "walk", "store"},
         UNCHANGED <<test, count, val>>,
         NEW s \in Threads, s # t, call'[s] = call[s], pc'[s] = pc[s], cur'[s] = cur[s], pre'[s] = pre[s],
         \A b \in Slots \ {Slot(t)} :
            /\ head'[b] = head[b] /\ Chain(b)' = Chain(b)
            /\ \A i \in 1 .. Len(Chain(b)) : next'[Chain(b)[i]] = next[Chain(b)[i]],
         Storing(s) => cur[s] \in live' /\ next'[cur[s]] = next[cur[s]]
  PROVE  Doing(s)'
<1>1. PICK b \in Slots : b = Slot(s)
  BY SlotType DEF IInv
<1>2. Doing(s) /\ ListsInv
  BY DEF StoreSound
<1>3. pc[s] \in {"walk", "store"} => b \in Slots \ {Slot(t)}
  BY <1>1, Alone
<1>4. Storing(s) => /\ cur[s] \in live' /\ val'[cur[s]] = val[cur[s]] /\ next'[cur[s]] = next[cur[s]]
                    /\ head'[b] = head[b]
  BY <1>3 DEF Storing
<1>5. pc[s] = "walk" => /\ Chain(b)' = Chain(b) /\ head'[b] = head[b] /\ Len(Chain(b)) \in Nat
                        /\ \A i \in 1 .. Len(Chain(b)) : /\ next'[Chain(b)[i]] = next[Chain(b)[i]]
                                                         /\ val'[Chain(b)[i]] = val[Chain(b)[i]]
  BY <1>2, <1>3, PathNodes
<1>. QED BY <1>1, <1>2, <1>4, <1>5, DoingKept

LEMMA InsertHeadSound ==
  ASSUME IInv, StoreSound, NEW t \in Threads, InsertHead(t)
  PROVE  /\ StoreSound'
         /\ \E b \in Slots : /\ b = Slot(t) /\ Chain(b)' = <<cur[t]>> \o Chain(b)
                           /\ \A c \in Slots \ {b} : Chain(c)' = Chain(c)
<1>1. PICK b \in Slots, n \in Nodes : b = Slot(t) /\ n = cur[t]
  BY SlotType DEF IInv, StoreInv, InsertHead, At
<1>2. /\ over = "no" /\ ListsInv /\ (\A s \in Threads : Doing(s)) /\ TypeOK /\ Storing(t) /\ pc[t] = "store"
      /\ head' = [head EXCEPT ![b] = n] /\ pc' = [pc EXCEPT ![t] = "release"]
      /\ UNCHANGED <<test, val, next, live, count, call, cur, pre, over>>
  BY <1>1 DEF InsertHead, StoreSound, At, Goto, IInv, fixed, Storing
<1>3. n \in live /\ next[n] = head[b] /\ \A c \in Slots : ~In(n, c)
  BY <1>1, <1>2 DEF Doing, ListsInv
<1>4. IsPath(<<n>> \o Chain(b), n, next) /\ \A i \in 1 .. Len(Chain(b)) : Chain(b)[i] # n
  <2>1. \A i \in 1 .. Len(Chain(b)) : Chain(b)[i] # n
    BY <1>3 DEF In
  <2>2. IsPath(Chain(b), next[n], next)
    BY <1>2, <1>3 DEF ListsInv
  <2>. QED BY <2>1, <2>2, PathInsert
<1>5. Chain(b)' = <<n>> \o Chain(b) /\ IsPath(Chain(b), head[b], next)'
  <2>1. PICK c : c = <<n>> \o Chain(b)
    OBVIOUS
  <2>2. head'[b] = n /\ next' = next
    BY <1>2 DEF TypeOK
  <2>3. IsPath(c, head'[b], next')
    BY <2>1, <2>2, <1>4
  <2>4. Chain(b)' = c
    BY <2>3, ChainIsNext
  <2>. QED BY <2>1, <2>3, <2>4
<1>6. ASSUME NEW c \in Slots \ {b}
      PROVE  /\ head'[c] = head[c] /\ Chain(c)' = Chain(c) /\ IsPath(Chain(c), head[c], next)'
             /\ \A m : In(m, c)' <=> In(m, c)
  <2>1. head'[c] = head[c] /\ next' = next /\ IsPath(Chain(c), head[c], next)
    BY <1>2 DEF TypeOK, ListsInv
  <2>. QED BY <2>1, SameChain
<1>7. \A m \in Nodes : In(m, b)' <=> In(m, b) \/ m = n
  <2>1. /\ Len(Chain(b)) \in Nat /\ Len(Chain(b)') = Len(Chain(b)) + 1
        /\ \A j \in 1 .. Len(Chain(b)) + 1 : Chain(b)'[j] = IF j = 1 THEN n ELSE Chain(b)[j - 1]
    <3>1. Chain(b) \in Seq(Nodes)
      BY <1>2 DEF ListsInv, IsPath
    <3>. QED BY <3>1, <1>5, PrefixFacts
  <2>2. ASSUME NEW m \in Nodes, In(m, b)' PROVE In(m, b) \/ m = n
    <3>1. PICK j \in 1 .. Len(Chain(b)) + 1 : m = Chain(b)'[j]
      BY <2>1, <2>2 DEF In
    <3>2. j # 1 => j - 1 \in 1 .. Len(Chain(b))
      BY <2>1
    <3>. QED BY <2>1, <3>1, <3>2 DEF In
  <2>3. In(n, b)'
    <3>1. 1 \in 1 .. Len(Chain(b)) + 1
      BY <2>1
    <3>. QED BY <2>1, <3>1 DEF In
  <2>4. ASSUME NEW m \in Nodes, In(m, b) PROVE In(m, b)'
    <3>1. PICK j \in 1 .. Len(Chain(b)) : m = Chain(b)[j]
      BY <2>4 DEF In
    <3>2. j + 1 \in 1 .. Len(Chain(b)) + 1 /\ j + 1 # 1 /\ (j + 1) - 1 = j
      BY <2>1
    <3>3. m = Chain(b)'[j + 1]
      BY <2>1, <3>1, <3>2
    <3>. QED BY <2>1, <3>2, <3>3 DEF In
  <2>. QED BY <2>2, <2>3, <2>4
<1>8. \A s \in Threads : Storing(s)' <=> Storing(s) /\ s # t
  BY <1>2 DEF Storing, TypeOK
<1>9. ListsInv'
  <2>1. \A c \in Slots, m \in Nodes : In(m, c)' <=> In(m, c) \/ (m = n /\ c = b)
    BY <1>6, <1>7
  <2>2. \A c \in Slots, m \in Nodes : In(m, c)' => m \in live'
    BY <1>2, <1>3, <2>1 DEF ListsInv
  <2>3. \A c, d \in Slots, m \in Nodes : In(m, c)' /\ In(m, d)' => c = d
    BY <1>2, <1>3, <2>1 DEF ListsInv
  <2>4. ASSUME NEW m \in live'
        PROVE  (\E c \in Slots : In(m, c)') <=> ~\E s \in Threads : Storing(s)' /\ cur'[s] = m
    <3>1. m \in live /\ m \in Nodes
      BY <1>2 DEF TypeOK
    <3>2. CASE m = n
      <4>1. \A s \in Threads : Storing(s) /\ cur[s] = n => s = t
        BY <1>1, <1>2 DEF ListsInv
      <4>. QED BY <3>1, <3>2, <4>1, <2>1, <1>2, <1>8
    <3>3. CASE m # n
      <4>1. (\E c \in Slots : In(m, c)') <=> \E c \in Slots : In(m, c)
        BY <3>1, <3>3, <2>1
      <4>2. (\E s \in Threads : Storing(s)' /\ cur'[s] = m) <=> \E s \in Threads : Storing(s) /\ cur[s] = m
        BY <3>3, <1>1, <1>2, <1>8
      <4>. QED BY <4>1, <4>2, <3>1, <1>2 DEF ListsInv
    <3>. QED BY <3>2, <3>3
  <2>5. ASSUME NEW r \in Threads, NEW s \in Threads, Storing(r)', Storing(s)', cur'[r] = cur'[s] PROVE r = s
    BY <2>5, <1>2, <1>8 DEF ListsInv
  <2>6. \A c \in Slots : IsPath(Chain(c), head[c], next)'
    BY <1>5, <1>6
  <2>. QED BY <2>2, <2>3, <2>4, <2>5, <2>6 DEF ListsInv
<1>10. ASSUME NEW s \in Threads PROVE Doing(s)'
  <2>1. CASE s = t
    BY <2>1, <1>2 DEF Doing, Storing, TypeOK
  <2>2. CASE s # t
    <3>1. pc'[s] = pc[s] /\ call'[s] = call[s] /\ cur'[s] = cur[s] /\ pre'[s] = pre[s]
      BY <1>2, <2>2 DEF TypeOK
    <3>2. Storing(s) => cur[s] \in live' /\ next'[cur[s]] = next[cur[s]]
      BY <1>2 DEF Doing
    <3>3. \A c \in Slots \ {Slot(t)} :
            /\ head'[c] = head[c] /\ Chain(c)' = Chain(c)
            /\ \A i \in 1 .. Len(Chain(c)) : next'[Chain(c)[i]] = next[Chain(c)[i]]
      BY <1>1, <1>2, <1>6
    <3>4. UNCHANGED <<test, count, val>> /\ pc[t] \in {"body", "walk", "store"} /\ over = "no"
      BY <1>2
    <3>. QED BY <2>2, <3>1, <3>2, <3>3, <3>4, OthersKept
  <2>. QED BY <2>1, <2>2
<1>11. StoreSound'
  BY <1>9, <1>10 DEF StoreSound
<1>12. b = Slot(t) /\ Chain(b)' = <<cur[t]>> \o Chain(b)
  BY <1>1, <1>5
<1>. QED BY <1>6, <1>11, <1>12

(* Where the thread is that has found its key.                                 *)
LEMMA FoundAt ==
  ASSUME IInv, StoreSound, over = "no", NEW t \in Threads, pc[t] = "walk"
  PROVE  \E b \in Slots : \E i \in 1 .. Len(Chain(b)) + 1 :
            /\ b = Slot(t) /\ WalksTo(t, b, i) /\ Len(Chain(b)) \in Nat
            /\ IF i <= Len(Chain(b)) THEN cur[t] = Chain(b)[i] /\ cur[t] \in Nodes ELSE cur[t] \notin Nodes
<1>1. PICK b \in Slots : b = Slot(t)
  BY SlotType DEF IInv
<1>2. ListsInv /\ Doing(t) /\ Len(Chain(b)) \in Nat
  BY PathNodes DEF StoreSound
<1>3. PICK i \in 1 .. Len(Chain(b)) + 1 : WalksTo(t, b, i)
  BY <1>1, <1>2 DEF Doing
<1>4. cur[t] = Behind(b, i)
  BY <1>3 DEF WalksTo
<1>5. IF i <= Len(Chain(b)) THEN cur[t] = Chain(b)[i] ELSE cur[t] \notin Nodes
  BY <1>2, <1>4, BehindIs
<1>6. i <= Len(Chain(b)) => i \in 1 .. Len(Chain(b)) /\ Chain(b)[i] \in Nodes
  BY <1>2, PathNodes
<1>. QED BY <1>1, <1>2, <1>3, <1>5, <1>6

LEMMA DeleteNodeSound ==
  ASSUME IInv, StoreSound, NEW t \in Threads, DeleteNode(t)
  PROVE  /\ StoreSound'
         /\ \E b \in Slots : \E i \in 1 .. Len(Chain(b)) :
               /\ b = Slot(t) /\ Chain(b)' = RemoveAt(Chain(b), i)
               /\ val[Chain(b)[i]] = call[t][2] /\ \A j \in 1 .. i - 1 : val[Chain(b)[j]] # call[t][2]
               /\ \A e \in Slots \ {b} : Chain(e)' = Chain(e)
<1>1. /\ over = "no" /\ ListsInv /\ (\A s \in Threads : Doing(s)) /\ TypeOK /\ pc[t] = "walk" /\ call[t][1] = "delete"
      /\ live' = live \ {cur[t]} /\ pc' = [pc EXCEPT ![t] = "idle"] /\ AtKey(t) /\ Unlinked(t)
      /\ UNCHANGED <<test, val, count, call, cur, pre, over>>
  BY DEF DeleteNode, StoreSound, At, Goto, IInv, fixed
<1>2. PICK b \in Slots : \E i \in 1 .. Len(Chain(b)) + 1 :
         /\ b = Slot(t) /\ WalksTo(t, b, i) /\ Len(Chain(b)) \in Nat
         /\ IF i <= Len(Chain(b)) THEN cur[t] = Chain(b)[i] /\ cur[t] \in Nodes ELSE cur[t] \notin Nodes
  BY <1>1, FoundAt
<1>3. PICK i \in 1 .. Len(Chain(b)) : b = Slot(t) /\ WalksTo(t, b, i) /\ cur[t] = Chain(b)[i] /\ Len(Chain(b)) \in Nat
  BY <1>1, <1>2 DEF AtKey
<1>4. PICK n \in Nodes : n = cur[t] /\ n = Chain(b)[i] /\ val[n] = call[t][2] /\ In(n, b)
  BY <1>1, <1>3 DEF AtKey, In
<1>5. \A j \in 1 .. Len(Chain(b)) : Chain(b)[j] \in Nodes /\ Chain(b)[j] \in live /\ In(Chain(b)[j], b)
  BY <1>1, PathNodes
<1>6. IF i = 1 THEN head' = [head EXCEPT ![b] = next[n]] /\ next' = next
      ELSE head' = head /\ next' = [next EXCEPT ![Chain(b)[i - 1]] = next[n]]
  <2>1. pre[t] = IF i = 1 THEN NULL ELSE Chain(b)[i - 1]
    BY <1>3 DEF WalksTo
  <2>2. i # 1 => i - 1 \in 1 .. Len(Chain(b))
    BY <1>3
  <2>3. i # 1 => Chain(b)[i - 1] # NULL
    BY <2>2, <1>5, StoreAssumption DEF NULL
  <2>4. pre[t] = NULL <=> i = 1
    BY <2>1, <2>3
  <2>. QED BY <2>1, <2>4, <1>1, <1>3, <1>4 DEF Unlinked
<1>7. PICK c : c = RemoveAt(Chain(b), i)
  OBVIOUS
<1>8. IsPath(c, head'[b], next')
  <2>1. next \in [Nodes -> Nodes \cup {NULL, Wild}] /\ IsPath(Chain(b), head[b], next)
    BY <1>1 DEF TypeOK, ListsInv
  <2>2. IF i = 1 THEN IsPath(c, next[Chain(b)[1]], next)
        ELSE IsPath(c, head[b], [next EXCEPT ![Chain(b)[i - 1]] = next[Chain(b)[i]]])
    BY <2>1, <1>7, PathRemove
  <2>3. i = 1 => head'[b] = next[n] /\ next' = next
    BY <1>1, <1>6 DEF TypeOK
  <2>. QED BY <2>2, <2>3, <1>4, <1>6
<1>9. Chain(b)' = c /\ IsPath(Chain(b), head[b], next)'
  <2>1. Chain(b)' = c
    BY <1>8, ChainIsNext
  <2>. QED BY <2>1, <1>8
<1>10. \A m \in Nodes : In(m, b)' <=> In(m, b) /\ m # n
  <2>1. PICK k \in Nat : k = Len(Chain(b)) /\ i \in 1 .. k
    BY <1>3
  <2>2. Chain(b) \in Seq(Nodes) /\ \A j, l \in 1 .. k : Chain(b)[j] = Chain(b)[l] => j = l
    BY <1>1, <2>1 DEF ListsInv, IsPath
  <2>3. Len(Chain(b)') = k - 1 /\ \A j \in 1 .. k - 1 : Chain(b)'[j] = IF j < i THEN Chain(b)[j] ELSE Chain(b)[j + 1]
    <3>1. /\ Len(RemoveAt(Chain(b), i)) = Len(Chain(b)) - 1
          /\ \A j \in 1 .. Len(Chain(b)) - 1 : RemoveAt(Chain(b), i)[j] = IF j < i THEN Chain(b)[j] ELSE Chain(b)[j + 1]
      BY <2>2, RemoveAtFacts
    <3>2. Len(c) = k - 1 /\ \A j \in 1 .. k - 1 : c[j] = IF j < i THEN Chain(b)[j] ELSE Chain(b)[j + 1]
      BY <3>1, <1>7, <2>1
    <3>. QED BY <3>2, <1>9
  <2>4. ASSUME NEW m \in Nodes, In(m, b)' PROVE In(m, b) /\ m # n
    <3>1. PICK j \in 1 .. k - 1 : m = Chain(b)'[j]
      BY <2>3, <2>4 DEF In
    <3>2. PICK l \in 1 .. k : l # i /\ m = Chain(b)[l]
      <4>1. CASE j < i
        BY <4>1, <3>1, <2>1, <2>3
      <4>2. CASE ~(j < i)
        <5>1. j + 1 \in 1 .. k /\ j + 1 # i
          BY <4>2, <2>1
        <5>. QED BY <4>2, <5>1, <3>1, <2>3
      <4>. QED BY <4>1, <4>2
    <3>. QED BY <3>2, <2>1, <2>2, <1>4 DEF In
  <2>5. ASSUME NEW m \in Nodes, In(m, b), m # n PROVE In(m, b)'
    <3>1. PICK l \in 1 .. k : m = Chain(b)[l] /\ l # i
      BY <2>1, <2>5, <1>4 DEF In
    <3>2. CASE l < i
      <4>1. l \in 1 .. k - 1
        BY <3>2, <2>1
      <4>. QED BY <4>1, <3>1, <3>2, <2>3 DEF In
    <3>3. CASE ~(l < i)
      <4>1. l - 1 \in 1 .. k - 1 /\ ~(l - 1 < i) /\ (l - 1) + 1 = l
        BY <3>1, <3>3, <2>1
      <4>2. m = Chain(b)'[l - 1]
        BY <4>1, <3>1, <2>3
      <4>. QED BY <4>1, <4>2, <2>3 DEF In
    <3>. QED BY <3>2, <3>3
  <2>. QED BY <2>4, <2>5
<1>11. \A m \in Nodes : ~In(m, b) => next'[m] = next[m]
  <2>1. i # 1 => i - 1 \in 1 .. Len(Chain(b))
    BY <1>3
  <2>. QED BY <2>1, <1>1, <1>5, <1>6 DEF TypeOK
<1>12. ASSUME NEW e \in Slots \ {b}
       PROVE  /\ head'[e] = head[e] /\ Chain(e)' = Chain(e) /\ IsPath(Chain(e), head[e], next)'
              /\ (\A m : In(m, e)' <=> In(m, e))
              /\ \A j \in 1 .. Len(Chain(e)) : next'[Chain(e)[j]] = next[Chain(e)[j]]
  <2>1. head'[e] = head[e] /\ IsPath(Chain(e), head[e], next)
    BY <1>1, <1>6 DEF TypeOK, ListsInv
  <2>2. \A j \in 1 .. Len(Chain(e)) : next'[Chain(e)[j]] = next[Chain(e)[j]]
    <3>1. SUFFICES ASSUME NEW j \in 1 .. Len(Chain(e)) PROVE next'[Chain(e)[j]] = next[Chain(e)[j]]
      OBVIOUS
    <3>2. Chain(e)[j] \in Nodes /\ In(Chain(e)[j], e)
      BY <1>1, PathNodes
    <3>3. ~In(Chain(e)[j], b)
      BY <3>2, <1>1 DEF ListsInv
    <3>. QED BY <3>2, <3>3, <1>11
  <2>. QED BY <2>1, <2>2, SameChain
<1>13. \A s \in Threads : (Storing(s)' <=> Storing(s)) /\ (Storing(s) => s # t /\ cur[s] \in live' /\ next'[cur[s]] = next[cur[s]])
  <2>1. \A s \in Threads : Storing(s)' <=> Storing(s)
    BY <1>1 DEF Storing, TypeOK
  <2>2. ASSUME NEW s \in Threads, Storing(s) PROVE s # t /\ cur[s] \in live' /\ next'[cur[s]] = next[cur[s]]
    <3>1. cur[s] \in live /\ cur[s] \in Nodes
      BY <2>2, <1>1 DEF Doing, TypeOK
    <3>2. ~In(cur[s], b)
      BY <2>2, <3>1, <1>1 DEF ListsInv
    <3>. QED BY <2>2, <3>1, <3>2, <1>1, <1>4, <1>11 DEF Storing
  <2>. QED BY <2>1, <2>2
<1>14. ListsInv'
  <2>1. \A e \in Slots, m \in Nodes : In(m, e)' <=> In(m, e) /\ m # n
    <3>1. \A e \in Slots \ {b} : ~In(n, e)
      BY <1>1, <1>4 DEF ListsInv
    <3>. QED BY <3>1, <1>10, <1>12
  <2>2. live' = live \ {n}
    BY <1>1, <1>4
  <2>3. \A e \in Slots, m \in Nodes : In(m, e)' => m \in live'
    BY <1>1, <2>1, <2>2 DEF ListsInv
  <2>4. \A e, d \in Slots, m \in Nodes : In(m, e)' /\ In(m, d)' => e = d
    BY <1>1, <2>1 DEF ListsInv
  <2>5. ASSUME NEW m \in live'
        PROVE  (\E e \in Slots : In(m, e)') <=> ~\E s \in Threads : Storing(s)' /\ cur'[s] = m
    <3>1. m \in live /\ m \in Nodes /\ m # n
      BY <1>1, <2>2 DEF TypeOK
    <3>2. (\E e \in Slots : In(m, e)') <=> \E e \in Slots : In(m, e)
      BY <3>1, <2>1
    <3>3. (\E s \in Threads : Storing(s)' /\ cur'[s] = m) <=> \E s \in Threads : Storing(s) /\ cur[s] = m
      BY <1>1, <1>13
    <3>. QED BY <3>1, <3>2, <3>3, <1>1 DEF ListsInv
  <2>6. ASSUME NEW r \in Threads, NEW s \in Threads, Storing(r)', Storing(s)', cur'[r] = cur'[s] PROVE r = s
    BY <2>6, <1>1, <1>13 DEF ListsInv
  <2>7. \A e \in Slots : IsPath(Chain(e), head[e], next)'
    BY <1>9, <1>12
  <2>. QED BY <2>3, <2>4, <2>5, <2>6, <2>7 DEF ListsInv
<1>15. ASSUME NEW s \in Threads PROVE Doing(s)'
  <2>1. CASE s = t
    BY <2>1, <1>1 DEF Doing, Storing, TypeOK
  <2>2. CASE s # t
    <3>1. pc'[s] = pc[s] /\ call'[s] = call[s] /\ cur'[s] = cur[s] /\ pre'[s] = pre[s]
      BY <1>1, <2>2 DEF TypeOK
    <3>2. Storing(s) => cur[s] \in live' /\ next'[cur[s]] = next[cur[s]]
      BY <1>13
    <3>3. \A e \in Slots \ {Slot(t)} :
            /\ head'[e] = head[e] /\ Chain(e)' = Chain(e)
            /\ \A j \in 1 .. Len(Chain(e)) : next'[Chain(e)[j]] = next[Chain(e)[j]]
      BY <1>3, <1>12
    <3>4. UNCHANGED <<test, count, val>> /\ pc[t] \in {"body", "walk", "store"} /\ over = "no"
      BY <1>1
    <3>. QED BY <2>2, <3>1, <3>2, <3>3, <3>4, OthersKept
  <2>. QED BY <2>1, <2>2
<1>16. \A j \in 1 .. i - 1 : val[Chain(b)[j]] # call[t][2]
  BY <1>3 DEF WalksTo
<1>17. StoreSound'
  BY <1>14, <1>15 DEF StoreSound
<1>18. b = Slot(t) /\ Chain(b)' = RemoveAt(Chain(b), i) /\ val[Chain(b)[i]] = call[t][2]
  BY <1>3, <1>4, <1>7, <1>9
<1>. QED BY <1>12, <1>16, <1>17, <1>18

(* The steps that change no list.                                              *)
LEMMA QuietStep ==
  ASSUME IInv, StoreSound, NEW t \in Threads,
         \/ Call(t) \/ DeleteTest(t) \/ Acquire(t) \/ FutexWait(t) \/ Release(t) \/ FutexWake(t)
         \/ CounterRead(t) \/ CounterWrite(t) \/ WalkStart(t) \/ WalkOn(t) \/ LookupEnd(t) \/ DeleteMiss(t)
  PROVE  StoreSound' /\ \A b \in Slots : Chain(b)' = Chain(b)
<1>1. over = "no" /\ UNCHANGED <<test, lists>> /\ TypeOK /\ test \in {"counter", "list", "hash"}
  BY StoreAssumption DEF Call, DeleteTest, Acquire, FutexWait, Release, FutexWake, CounterRead, CounterWrite, WalkStart,
     WalkOn, LookupEnd, DeleteMiss, At, fixed, lists, IInv, TypeOK
<1>2. ListsInv /\ (\A s \in Threads : Doing(s)) /\ UNCHANGED <<head, val, next, live>>
  BY <1>1 DEF StoreSound, lists
<1>. DEFINE Others == /\ \A s \in Threads \ {t} : /\ pc'[s] = pc[s] \/ (pc[s] = "asleep" /\ pc'[s] = "acquire")
                                                  /\ call'[s] = call[s] /\ cur'[s] = cur[s] /\ pre'[s] = pre[s]
                      /\ \A s \in Threads \ {t} : pc[s] = "store" /\ ~Storing(s) => count' = count
            Still == \A b \in Slots : Chain(b)' = Chain(b)
<1>3. SUFFICES Others /\ ~Storing(t) /\ ~Storing(t)' /\ (Still => Doing(t)')
  BY <1>1, QuietSound
<1>4. CASE Call(t)
  <2>1. PICK o \in IF test = "counter" THEN CounterOps ELSE ListOps :
           /\ call'[t][1] = o /\ pc'[t] = IF o = "delete" THEN "test" ELSE "acquire"
           /\ \A s \in Threads \ {t} : pc'[s] = pc[s] /\ call'[s] = call[s]
    BY <1>1, <1>4 DEF Call, Goto, TypeOK
  <2>2. cur' = cur /\ pre' = pre /\ count' = count /\ pc[t] = "idle" /\ o # "none"
    BY <1>4 DEF Call, At, CounterOps, ListOps
  <2>3. Doing(t)' /\ ~Storing(t)'
    <3>1. o = "delete" => pc'[t] = "test"
      BY <2>1
    <3>2. pc'[t] \in {"test", "acquire"}
      BY <2>1
    <3>3. pc'[t] = "test" => o = "delete"
      BY <2>1
    <3>. QED BY <2>1, <2>2, <3>2, <3>3, <1>1 DEF Doing, Storing
  <2>. QED BY <2>1, <2>2, <2>3 DEF Storing
<1>5. CASE DeleteTest(t)
  BY <1>1, <1>2, <1>5 DEF DeleteTest, At, Goto, TypeOK, Doing, Storing, fixed
<1>6. CASE Acquire(t)
  BY <1>1, <1>2, <1>6 DEF Acquire, At, Goto, TypeOK, Doing, Storing, fixed
<1>7. CASE FutexWait(t)
  BY <1>1, <1>2, <1>7 DEF FutexWait, At, Goto, TypeOK, Doing, Storing, fixed
<1>8. CASE Release(t)
  BY <1>1, <1>2, <1>8 DEF Release, At, Goto, TypeOK, Doing, Storing, fixed
<1>9. CASE FutexWake(t)
  <2>1. /\ pc[t] = "wake" /\ pc'[t] \in {"idle", "acquire"}
        /\ \A s \in Threads \ {t} : pc'[s] = pc[s] \/ (pc[s] = "asleep" /\ pc'[s] = "acquire")
    BY <1>1, <1>9 DEF FutexWake, At, Goto, TypeOK, Sleepers
  <2>2. pc'[t] = "idle"
    BY <1>1, <1>9 DEF FutexWake, At, Goto, TypeOK, Sleepers
  <2>. QED BY <1>1, <1>2, <1>9, <2>1, <2>2 DEF FutexWake, Doing, Storing, fixed
<1>10. CASE CounterRead(t)
  <2>1. /\ pc[t] = "body" /\ call[t][1] \in CounterOps /\ cur'[t] = count
        /\ pc'[t] = IF call[t][1] = "get" THEN "release" ELSE "store"
        /\ (\A s \in Threads \ {t} : pc'[s] = pc[s] /\ cur'[s] = cur[s])
        /\ UNCHANGED <<test, count, call, pre>>
    BY <1>1, <1>10 DEF CounterRead, At, Goto, TypeOK, fixed
  <2>. QED BY <2>1, <1>1, <1>2 DEF Doing, Storing, CounterOps
<1>11. CASE CounterWrite(t)
  <2>1. /\ pc[t] = "store" /\ call[t][1] \in CounterOps /\ pc'[t] = "release"
        /\ (\A s \in Threads \ {t} : pc'[s] = pc[s]) /\ UNCHANGED <<test, call, cur, pre>>
    BY <1>1, <1>11 DEF CounterWrite, At, Goto, TypeOK, fixed
  <2>2. ASSUME NEW s \in Threads \ {t}, pc[s] = "store", ~Storing(s) PROVE FALSE
    <3>1. call[s][1] \in {"increment", "decrement"}
      BY <1>2, <2>2 DEF Doing
    <3>2. test = "counter"
      BY <3>1, <1>2 DEF Doing, ListOps
    <3>3. Slot(s) = 0 /\ Slot(t) = 0
      BY <3>2 DEF Slot
    <3>. QED BY <3>3, <2>1, <2>2, Alone
  <2>. QED BY <2>1, <2>2, <1>1, <1>2 DEF Doing, Storing, CounterOps
<1>12. CASE WalkStart(t)
  <2>1. /\ pc[t] = "body" /\ call[t][1] \in {"delete", "lookup"} /\ pre'[t] = NULL /\ cur'[t] = head[Slot(t)]
        /\ pc'[t] = "walk" /\ (\A s \in Threads \ {t} : pc'[s] = pc[s] /\ cur'[s] = cur[s] /\ pre'[s] = pre[s])
        /\ UNCHANGED <<test, call, count>>
    BY <1>1, <1>12 DEF WalkStart, At, Goto, TypeOK, fixed
  <2>2. ASSUME Still PROVE Doing(t)'
    <3>1. PICK b \in Slots : b = Slot(t) /\ b = Slot(t)'
      BY <1>1, <2>1, SlotType, SlotKept
    <3>2. Len(Chain(b)) \in Nat /\ Chain(b)' = Chain(b)
      BY <1>2, <2>2, PathNodes
    <3>3. WalksTo(t, b, 1)'
      BY <2>1, <3>1, <1>2 DEF WalksTo, Behind
    <3>4. 1 \in 1 .. Len(Chain(b)') + 1
      BY <3>2
    <3>5. \E i \in 1 .. Len(Chain(Slot(t))') + 1 : WalksTo(t, Slot(t), i)'
      BY <3>1, <3>3, <3>4
    <3>. QED BY <2>1, <3>5, <1>2 DEF Doing, Storing
  <2>. QED BY <2>1, <2>2, <1>2 DEF Storing, Doing
<1>13. CASE WalkOn(t)
  <2>1. /\ pc[t] = "walk" /\ cur[t] \in Nodes /\ ~AtKey(t) /\ pre'[t] = cur[t] /\ cur'[t] = next[cur[t]]
        /\ (\A s \in Threads \ {t} : cur'[s] = cur[s] /\ pre'[s] = pre[s])
        /\ UNCHANGED <<test, call, count, pc>>
    BY <1>1, <1>13 DEF WalkOn, At, TypeOK, fixed
  <2>2. ASSUME Still PROVE Doing(t)'
    <3>1. PICK b \in Slots : \E i \in 1 .. Len(Chain(b)) + 1 :
             /\ b = Slot(t) /\ WalksTo(t, b, i) /\ Len(Chain(b)) \in Nat
             /\ IF i <= Len(Chain(b)) THEN cur[t] = Chain(b)[i] /\ cur[t] \in Nodes ELSE cur[t] \notin Nodes
      BY <1>1, <2>1, FoundAt
    <3>2. PICK i \in 1 .. Len(Chain(b)) : b = Slot(t) /\ WalksTo(t, b, i) /\ cur[t] = Chain(b)[i] /\ Len(Chain(b)) \in Nat
      BY <2>1, <3>1
    <3>3. Slot(t)' = b /\ Chain(b)' = Chain(b)
      BY <2>1, <2>2, <3>2, SlotKept
    <3>4. i + 1 \in 1 .. Len(Chain(b)') + 1 /\ i + 1 # 1 /\ (i + 1) - 1 = i
      BY <3>2, <3>3
    <3>5. cur'[t] = Behind(b, i + 1)' /\ pre'[t] = Chain(b)'[i]
      BY <2>1, <3>2, <3>3, <3>4, <1>2 DEF Behind
    <3>6. \A j \in 1 .. i : val'[Chain(b)'[j]] # call'[t][2]
      <4>1. val[Chain(b)[i]] # call[t][2]
        BY <2>1, <3>2 DEF AtKey
      <4>2. \A j \in 1 .. i : j = i \/ j \in 1 .. i - 1
        BY <3>2
      <4>3. \A j \in 1 .. i : val[Chain(b)[j]] # call[t][2]
        BY <3>2, <4>1, <4>2 DEF WalksTo
      <4>. QED BY <4>3, <3>3, <2>1, <1>2
    <3>7. WalksTo(t, b, i + 1)'
      BY <3>4, <3>5, <3>6 DEF WalksTo
    <3>8. \E k \in 1 .. Len(Chain(Slot(t))') + 1 : WalksTo(t, Slot(t), k)'
      BY <3>3, <3>4, <3>7
    <3>. QED BY <2>1, <3>8, <1>2 DEF Doing, Storing
  <2>. QED BY <2>1, <2>2, <1>2 DEF Storing, Doing
<1>14. CASE LookupEnd(t)
  BY <1>1, <1>2, <1>14 DEF LookupEnd, At, Goto, TypeOK, Doing, Storing, fixed
<1>15. CASE DeleteMiss(t)
  BY <1>1, <1>2, <1>15 DEF DeleteMiss, At, Goto, TypeOK, Doing, Storing, fixed
<1>. QED BY <1>4, <1>5, <1>6, <1>7, <1>8, <1>9, <1>10, <1>11, <1>12, <1>13, <1>14, <1>15

LEMMA StoreStep == IInv /\ StoreSound /\ [Next]_vars => StoreSound'
<1>. SUFFICES ASSUME IInv, StoreSound, [Next]_vars PROVE StoreSound'
  OBVIOUS
<1>1. CASE UNCHANGED vars
  <2>1. UNCHANGED <<head, next, live, val, pc, call, cur, pre, count, test, over>>
    BY <1>1 DEF vars
  <2>2. ASSUME over = "no" PROVE ListsInv' /\ \A s \in Threads : Doing(s)'
    <3>1. ListsInv /\ (\A s \in Threads : Doing(s)) /\ TypeOK
      BY <2>2 DEF StoreSound, IInv
    <3>2. \A s \in Threads : (Storing(s)' <=> Storing(s)) /\ (Storing(s) => cur'[s] = cur[s])
      BY <2>1 DEF Storing
    <3>3. ListsInv' /\ \A b \in Slots : Chain(b)' = Chain(b)
      BY <2>1, <3>1, <3>2, ListsKept
    <3>4. ASSUME NEW s \in Threads PROVE Doing(s)'
      <4>1. PICK b \in Slots : b = Slot(s)
        BY <3>1, SlotType
      <4>2. Storing(s) => cur[s] \in live'
        BY <2>1, <3>1 DEF Doing
      <4>3. Chain(b)' = Chain(b) /\ Len(Chain(b)) \in Nat
        BY <3>1, <3>3, PathNodes
      <4>. QED BY <2>1, <3>1, <4>1, <4>2, <4>3, DoingKept
    <3>. QED BY <3>3, <3>4
  <2>. QED BY <2>1, <2>2 DEF StoreSound
<1>2. CASE Clear
  BY <1>2 DEF Clear, StoreSound
<1>3. ASSUME NEW t \in Threads, Call(t) \/ Progress(t) PROVE StoreSound'
  <2>1. CASE WalkFault(t)
    BY <2>1 DEF WalkFault, StoreSound
  <2>2. CASE InsertNode(t)
    BY <2>2, InsertNodeSound
  <2>3. CASE InsertHead(t)
    BY <2>3, InsertHeadSound
  <2>4. CASE DeleteNode(t)
    BY <2>4, DeleteNodeSound
  <2>5. CASE \/ Call(t) \/ DeleteTest(t) \/ Acquire(t) \/ FutexWait(t) \/ Release(t) \/ FutexWake(t)
             \/ CounterRead(t) \/ CounterWrite(t) \/ WalkStart(t) \/ WalkOn(t) \/ LookupEnd(t) \/ DeleteMiss(t)
    BY <2>5, QuietStep
  <2>. QED BY <1>3, <2>1, <2>2, <2>3, <2>4, <2>5 DEF Progress
<1>. QED BY <1>1, <1>2, <1>3 DEF Next

LEMMA StoreStart == Init => StoreSound
<1>. SUFFICES ASSUME Init PROVE StoreSound
  OBVIOUS
<1>1. ASSUME NEW b \in Slots PROVE Chain(b) = <<>> /\ IsPath(<<>>, head[b], next)
  <2>1. head[b] \notin Nodes
    <3>1. head[b] \in {NULL, Wild}
      BY StoreAssumption DEF Init
    <3>2. head[b] \in {0, -1}
      BY <3>1 DEF NULL, Wild
    <3>. QED BY <3>2, StoreAssumption
  <2>2. <<>> \in Seq(Nodes) /\ Len(<<>>) = 0
    BY EmptySeq
  <2>3. IsPath(<<>>, head[b], next)
    BY <2>1, <2>2 DEF IsPath
  <2>. QED BY <2>3, ChainIs
<1>2. \A n : \A b \in Slots : ~In(n, b)
  <2>1. Len(<<>>) = 0
    BY EmptySeq
  <2>. QED BY <1>1, <2>1 DEF In
<1>3. \A t \in Threads : pc[t] = "idle" /\ call[t] = <<"none", 0>>
  BY DEF Init
<1>4. ListsInv
  BY <1>1, <1>2, <1>3 DEF ListsInv, Storing, Init
<1>. QED BY <1>3, <1>4 DEF StoreSound, Doing, Storing

LEMMA StoreInvariance == Spec => [](IInv /\ StoreSound)
<1>1. Init => StoreSound
  BY StoreStart
<1>2. IInv /\ StoreSound /\ [Next]_vars => StoreSound'
  BY StoreStep
<1>. QED BY <1>1, <1>2, Invariance, PTL DEF Spec

(* Every node malloc gave out is on one list, once, or with the insert that    *)
(* has still to link it; no walk of list_lookup or list_delete is at a node    *)
(* that was freed.                                                             *)
THEOREM NodesCorrect == Spec => []NodesAccounted
<1>1. ASSUME IInv, StoreSound PROVE NodesAccounted
  <2>1. SUFFICES ASSUME over = "no"
        PROVE  /\ \A b \in Slots : IsInjective(Chain(b)) /\ ToSet(Chain(b)) \subseteq live
               /\ \A b, c \in Slots : b # c => ToSet(Chain(b)) \cap ToSet(Chain(c)) = {}
               /\ live \ Cleared = {cur[t] : t \in {s \in Threads : call[s][1] = "insert" /\ pc[s] = "store"}}
               /\ \A t \in Threads : pc[t] = "walk" => cur[t] \in live \cup {NULL, Wild}
    BY <1>1 DEF NodesAccounted, IInv
  <2>2. ListsInv /\ (\A t \in Threads : Doing(t)) /\ TypeOK
    BY <1>1, <2>1 DEF StoreSound, IInv
  <2>3. \A b \in Slots : DOMAIN Chain(b) = 1 .. Len(Chain(b)) /\ IsPath(Chain(b), head[b], next)
    BY <2>2, LenProperties DEF ListsInv, IsPath
  <2>4. \A b \in Slots : \A n : n \in ToSet(Chain(b)) <=> In(n, b)
    BY <2>3 DEF ToSet, In
  <2>5. \A b \in Slots : IsInjective(Chain(b))
    BY <2>3 DEF IsInjective, IsPath
  <2>6. \A b \in Slots : \A n : In(n, b) => n \in Nodes
    BY <2>2, PathNodes
  <2>7. \A b \in Slots : ToSet(Chain(b)) \subseteq live
    BY <2>2, <2>4, <2>6 DEF ListsInv
  <2>8. \A b, c \in Slots : b # c => ToSet(Chain(b)) \cap ToSet(Chain(c)) = {}
    BY <2>2, <2>4, <2>6 DEF ListsInv
  <2>9. \A n : n \in Cleared <=> \E b \in Slots : In(n, b)
    BY <2>4 DEF Cleared
  <2>10. live \ Cleared = {cur[t] : t \in {s \in Threads : call[s][1] = "insert" /\ pc[s] = "store"}}
    <3>1. \A n \in live : n \notin Cleared <=> \E t \in Threads : Storing(t) /\ cur[t] = n
      BY <2>2, <2>9 DEF ListsInv
    <3>2. \A t \in Threads : Storing(t) => cur[t] \in live
      BY <2>2 DEF Doing
    <3>. QED BY <3>1, <3>2 DEF Storing
  <2>11. ASSUME NEW t \in Threads, pc[t] = "walk" PROVE cur[t] \in live \cup {NULL, Wild}
    <3>1. PICK b \in Slots : \E i \in 1 .. Len(Chain(b)) + 1 :
             /\ b = Slot(t) /\ WalksTo(t, b, i) /\ Len(Chain(b)) \in Nat
             /\ IF i <= Len(Chain(b)) THEN cur[t] = Chain(b)[i] /\ cur[t] \in Nodes ELSE cur[t] \notin Nodes
      BY <1>1, <2>1, <2>11, FoundAt
    <3>2. PICK i \in 1 .. Len(Chain(b)) + 1 :
             /\ b = Slot(t) /\ WalksTo(t, b, i) /\ Len(Chain(b)) \in Nat
             /\ IF i <= Len(Chain(b)) THEN cur[t] = Chain(b)[i] /\ cur[t] \in Nodes ELSE cur[t] \notin Nodes
      BY <3>1
    <3>3. CASE i <= Len(Chain(b))
      BY <3>2, <3>3, <2>2, PathNodes
    <3>4. CASE ~(i <= Len(Chain(b)))
      <4>1. cur[t] \notin Nodes /\ cur[t] = Behind(b, i) /\ (i # 1 => i - 1 \in 1 .. Len(Chain(b)))
        BY <3>2, <3>4 DEF WalksTo
      <4>2. i # 1 => Chain(b)[i - 1] \in Nodes
        BY <4>1, <2>2, PathNodes
      <4>3. Behind(b, i) \in Nodes \cup {NULL, Wild}
        BY <4>2, <2>2 DEF Behind, TypeOK
      <4>. QED BY <4>1, <4>3
    <3>. QED BY <3>3, <3>4
  <2>. QED BY <2>5, <2>7, <2>8, <2>10, <2>11
<1>. QED BY <1>1, StoreInvariance, PTL

-----------------------------------------------------------------------------
(* What the lists hold, in terms of their chains.                              *)
KeysOf(c) == [i \in 1 .. Len(c) |-> val[c[i]]]
State == <<Requests, Contents, count, answer>>

LEMMA ContentsAre ==
  ASSUME ListsInv, over # "cleared", NEW b \in Slots
  PROVE  /\ Contents[b] = KeysOf(Chain(b)) /\ Len(Chain(b)) \in Nat
         /\ \A k : k \in ToSet(Contents[b]) <=> \E i \in 1 .. Len(Chain(b)) : val[Chain(b)[i]] = k
<1>1. IsPath(Chain(b), head[b], next) /\ Len(Chain(b)) \in Nat
  BY PathNodes DEF ListsInv
<1>2. Length(b) = Len(Chain(b))
  BY <1>1, ChainIs
<1>3. Contents[b] = KeysOf(Chain(b))
  BY <1>2 DEF Contents, KeysOf
<1>4. \A k : k \in ToSet(KeysOf(Chain(b))) <=> \E i \in 1 .. Len(Chain(b)) : val[Chain(b)[i]] = k
  BY DEF KeysOf, ToSet
<1>. QED BY <1>1, <1>3, <1>4

LEMMA ContentsAreNext ==
  (\A b \in Slots : ListsInv /\ over # "cleared" => Contents[b] = KeysOf(Chain(b)))'
<1>1. \A b \in Slots : ListsInv /\ over # "cleared" => Contents[b] = KeysOf(Chain(b))
  BY ContentsAre
<1>. QED BY <1>1, PTL

LEMMA ContentsKept ==
  ASSUME IInv, StoreSound, StoreSound', over = "no", over' = "no",
         NEW b \in Slots, Chain(b)' = Chain(b),
         \A i \in 1 .. Len(Chain(b)) : val'[Chain(b)[i]] = val[Chain(b)[i]]
  PROVE  Contents'[b] = Contents[b]
<1>1. ListsInv /\ ListsInv'
  BY DEF StoreSound
<1>2. Contents[b] = KeysOf(Chain(b))
  BY <1>1, ContentsAre
<1>3. Contents'[b] = KeysOf(Chain(b))'
  BY <1>1, ContentsAreNext
<1>4. KeysOf(Chain(b))' = KeysOf(Chain(b))
  BY DEF KeysOf
<1>. QED BY <1>2, <1>3, <1>4

LEMMA ContentsSame ==
  ASSUME \A b \in Slots : Contents'[b] = Contents[b]
  PROVE  Contents' = Contents
BY DEF Contents

(* Only the request of t is answered.                                          *)
LEMMA RequestsKept ==
  ASSUME \A s \in Threads : Pending(s)' = Pending(s)
  PROVE  Requests' = Requests
BY DEF Requests

LEMMA RequestServed ==
  ASSUME NEW t \in Threads, \A s \in Threads \ {t} : Pending(s)' = Pending(s), Pending(t)' = <<"none", 0>>,
         pc[t] \notin {"idle", "release", "wake"}, Doing(t)
  PROVE  /\ Requests[t] = call[t] /\ Requests[t] # <<"none", 0>>
         /\ Requests' = [Requests EXCEPT ![t] = <<"none", 0>>]
<1>1. Requests[t] = call[t]
  BY DEF Requests, Pending
<1>2. call[t] # <<"none", 0>>
  BY DEF Doing
<1>3. Requests' = [Requests EXCEPT ![t] = <<"none", 0>>]
  BY DEF Requests
<1>. QED BY <1>1, <1>2, <1>3

(* The key of a request is in its list when the walk has found it, and not     *)
(* when the walk is at the end.                                                *)
LEMMA HoldsIs ==
  ASSUME IInv, StoreSound, over = "no", NEW t \in Threads, pc[t] = "walk", AtKey(t) \/ cur[t] = NULL,
         NEW b \in Slots, b = Slot(t)
  PROVE  call[t][2] \in ToSet(Contents[b]) <=> cur[t] # NULL
<1>1. ListsInv /\ NULL \notin Nodes
  BY StoreAssumption DEF StoreSound, NULL
<1>2. PICK i \in 1 .. Len(Chain(b)) + 1 :
         /\ WalksTo(t, b, i) /\ Len(Chain(b)) \in Nat
         /\ IF i <= Len(Chain(b)) THEN cur[t] = Chain(b)[i] /\ cur[t] \in Nodes ELSE cur[t] \notin Nodes
  BY FoundAt
<1>3. \A k : k \in ToSet(Contents[b]) <=> \E j \in 1 .. Len(Chain(b)) : val[Chain(b)[j]] = k
  BY <1>1, ContentsAre
<1>4. CASE AtKey(t)
  <2>1. cur[t] # NULL /\ cur[t] = Chain(b)[i] /\ i \in 1 .. Len(Chain(b)) /\ val[cur[t]] = call[t][2]
    BY <1>1, <1>2, <1>4 DEF AtKey
  <2>. QED BY <2>1, <1>3
<1>5. CASE cur[t] = NULL
  <2>1. i = Len(Chain(b)) + 1 /\ \A j \in 1 .. Len(Chain(b)) : j \in 1 .. i - 1
    BY <1>1, <1>2, <1>5
  <2>2. \A j \in 1 .. Len(Chain(b)) : val[Chain(b)[j]] # call[t][2]
    BY <2>1, <1>2 DEF WalksTo
  <2>. QED BY <2>2, <1>3, <1>5
<1>. QED BY <1>4, <1>5

LEMMA KeysInsert ==
  ASSUME NEW c \in Seq(Nodes), NEW n \in Nodes, TypeOK
  PROVE  KeysOf(<<n>> \o c) = <<val[n]>> \o KeysOf(c)
<1>. DEFINE S == Keys \cup {0}
            d == <<n>> \o c
            e == <<val[n]>> \o KeysOf(c)
<1>1. PICK k \in Nat : k = Len(c) /\ \A i \in 1 .. k : c[i] \in Nodes
  BY LenProperties
<1>2. d \in Seq(Nodes) /\ Len(d) = k + 1 /\ \A j \in 1 .. k + 1 : d[j] = IF j = 1 THEN n ELSE c[j - 1]
  BY <1>1, PrefixFacts
<1>3. KeysOf(c) \in Seq(S) /\ Len(KeysOf(c)) = k /\ \A i \in 1 .. k : KeysOf(c)[i] = val[c[i]]
  <2>1. \A i \in 1 .. k : val[c[i]] \in S
    BY <1>1 DEF TypeOK
  <2>2. KeysOf(c) = [i \in 1 .. k |-> val[c[i]]]
    BY <1>1 DEF KeysOf
  <2>3. KeysOf(c) \in [1 .. k -> S]
    BY <2>1, <2>2
  <2>. QED BY <2>2, <2>3, <1>1
<1>4. val[n] \in S
  BY DEF TypeOK
<1>5. e \in Seq(S) /\ Len(e) = k + 1 /\ \A j \in 1 .. k + 1 : e[j] = IF j = 1 THEN val[n] ELSE KeysOf(c)[j - 1]
  <2>1. /\ e \in Seq(S) /\ Len(e) = Len(KeysOf(c)) + 1
        /\ \A j \in 1 .. Len(KeysOf(c)) + 1 : e[j] = IF j = 1 THEN val[n] ELSE KeysOf(c)[j - 1]
    BY <1>3, <1>4, PrefixFacts
  <2>. QED BY <2>1, <1>3
<1>. HIDE DEF d, e
<1>6. KeysOf(d) = [j \in 1 .. k + 1 |-> val[d[j]]]
  BY <1>2 DEF KeysOf
<1>7. ASSUME NEW j \in 1 .. k + 1 PROVE e[j] = val[d[j]]
  <2>1. j # 1 => j - 1 \in 1 .. k
    BY <1>1
  <2>. QED BY <2>1, <1>2, <1>3, <1>5
<1>8. e \in [1 .. k + 1 -> S]
  <2>1. e \in [1 .. Len(e) -> S]
    BY <1>5, LenProperties
  <2>. QED BY <2>1, <1>5
<1>9. e = KeysOf(d)
  BY <1>6, <1>7, <1>8
<1>. QED BY <1>9 DEF d, e

LEMMA LeastIndex ==
  ASSUME NEW S \in SUBSET Nat, NEW i \in S, \A j \in S : i <= j
  PROVE  Min(S) = i
<1>1. \A j \in S : j <= i => j = i
  OBVIOUS
<1>. QED BY <1>1 DEF Min

LEMMA KeysRemove ==
  ASSUME NEW c \in Seq(Nodes), NEW i \in 1 .. Len(c), TypeOK, NEW k, val[c[i]] = k,
         \A j \in 1 .. i - 1 : val[c[j]] # k
  PROVE  KeysOf(RemoveAt(c, i)) = RemoveFirst(KeysOf(c), k)
<1>. DEFINE S == Keys \cup {0}
            d == RemoveAt(c, i)
            e == RemoveAt(KeysOf(c), i)
<1>1. PICK n \in Nat : n = Len(c) /\ i \in 1 .. n /\ \A j \in 1 .. n : c[j] \in Nodes
  BY LenProperties
<1>2. Len(d) = n - 1 /\ \A j \in 1 .. n - 1 : d[j] = IF j < i THEN c[j] ELSE c[j + 1]
  <2>1. Len(d) = Len(c) - 1 /\ \A j \in 1 .. Len(c) - 1 : d[j] = IF j < i THEN c[j] ELSE c[j + 1]
    BY RemoveAtFacts
  <2>. QED BY <2>1, <1>1
<1>3. KeysOf(c) \in Seq(S) /\ Len(KeysOf(c)) = n /\ \A j \in 1 .. n : KeysOf(c)[j] = val[c[j]]
  <2>1. \A j \in 1 .. n : val[c[j]] \in S
    BY <1>1 DEF TypeOK
  <2>2. KeysOf(c) = [j \in 1 .. n |-> val[c[j]]]
    BY <1>1 DEF KeysOf
  <2>3. KeysOf(c) \in [1 .. n -> S]
    BY <2>1, <2>2
  <2>. QED BY <2>2, <2>3, <1>1
<1>4. e \in Seq(S) /\ Len(e) = n - 1 /\ \A j \in 1 .. n - 1 : e[j] = IF j < i THEN KeysOf(c)[j] ELSE KeysOf(c)[j + 1]
  <2>1. i \in 1 .. Len(KeysOf(c))
    BY <1>1, <1>3
  <2>2. /\ e \in Seq(S) /\ Len(e) = Len(KeysOf(c)) - 1
        /\ \A j \in 1 .. Len(KeysOf(c)) - 1 : e[j] = IF j < i THEN KeysOf(c)[j] ELSE KeysOf(c)[j + 1]
    BY <2>1, <1>3, RemoveAtFacts
  <2>. QED BY <2>2, <1>3
<1>5. RemoveFirst(KeysOf(c), k) = e
  <2>1. \E j \in 1 .. Len(KeysOf(c)) : KeysOf(c)[j] = k
    BY <1>1, <1>3
  <2>. DEFINE I == {j \in 1 .. Len(KeysOf(c)) : KeysOf(c)[j] = k}
  <2>2. I \in SUBSET Nat /\ i \in I /\ \A j \in I : i <= j
    BY <1>1, <1>3
  <2>3. Min(I) = i
    <3>. HIDE DEF I
    <3>. QED BY <2>2, LeastIndex
  <2>4. SelectInSeq(KeysOf(c), LAMBDA v : v = k) = i
    BY <2>2, <2>3 DEF SelectInSeq
  <2>. QED BY <2>1, <2>4 DEF RemoveFirst
<1>. HIDE DEF d, e
<1>6. KeysOf(d) = [j \in 1 .. n - 1 |-> val[d[j]]]
  BY <1>2 DEF KeysOf
<1>7. ASSUME NEW j \in 1 .. n - 1 PROVE e[j] = val[d[j]]
  <2>1. j \in 1 .. n /\ j + 1 \in 1 .. n
    BY <1>1
  <2>. QED BY <2>1, <1>2, <1>3, <1>4
<1>8. e \in [1 .. n - 1 -> S]
  <2>1. e \in [1 .. Len(e) -> S]
    BY <1>4, LenProperties
  <2>. QED BY <2>1, <1>4
<1>9. e = KeysOf(d)
  BY <1>6, <1>7, <1>8
<1>. QED BY <1>5, <1>9 DEF d

(* The operators on sequences that KeyStore uses are those of LockedStore.     *)
LEMMA SameSequences ==
  ASSUME NEW s, NEW k
  PROVE  Abstract!ToSet(s) = ToSet(s) /\ Abstract!RemoveFirst(s, k) = RemoveFirst(s, k)
<1>1. Abstract!ToSet(s) = ToSet(s)
  BY DEF Abstract!ToSet, ToSet
<1>2. ASSUME NEW i PROVE Abstract!RemoveAt(s, i) = RemoveAt(s, i)
  BY DEF Abstract!RemoveAt, RemoveAt
<1>3. ASSUME NEW I PROVE Abstract!Min(I) = Min(I)
  BY DEF Abstract!Min, Min
<1>4. Abstract!SelectInSeq(s, LAMBDA v : v = k) = SelectInSeq(s, LAMBDA v : v = k)
  BY <1>3 DEF Abstract!SelectInSeq, SelectInSeq
<1>5. Abstract!RemoveFirst(s, k) = RemoveFirst(s, k)
  BY <1>2, <1>4 DEF Abstract!RemoveFirst, RemoveFirst
<1>. QED BY <1>1, <1>5

LEMMA HoldsKey == ASSUME NEW b, NEW k PROVE Abstract!Holds(b, k) <=> k \in ToSet(Contents[b])
BY SameSequences DEF Abstract!Holds

LEMMA ContentsFrozen ==
  ASSUME UNCHANGED <<head, next, val>>, over' = "cleared" <=> over = "cleared"
  PROVE  Contents' = Contents
<1>1. \A b : Step(b)' = Step(b)
  BY DEF Step
<1>2. \A b : Length(b)' = Length(b)
  BY <1>1 DEF Length
<1>3. \A b : Chain(b)' = Chain(b)
  BY <1>1, <1>2 DEF Chain
<1>. QED BY <1>2, <1>3 DEF Contents

(* Steps that no caller can see.                                               *)
LEMMA Unseen ==
  ASSUME UNCHANGED <<head, next, val, count, answer, over>>, \A s \in Threads : Pending(s)' = Pending(s)
  PROVE  State' = State
<1>1. Contents' = Contents
  BY ContentsFrozen
<1>2. Requests' = Requests
  BY RequestsKept
<1>. QED BY <1>1, <1>2 DEF State

LEMMA CallRefines ==
  ASSUME IInv, StoreSound, NEW t \in Threads, Call(t)
  PROVE  Abstract!Next
<1>1. PICK o \in IF test = "counter" THEN CounterOps ELSE ListOps, k \in Keys :
        /\ call' = [call EXCEPT ![t] = <<o, IF test = "counter" THEN 0 ELSE k>>]
        /\ Goto(t, IF o = "delete" THEN "test" ELSE "acquire")
  BY DEF Call
<1>2. /\ pc[t] = "idle" /\ TypeOK /\ UNCHANGED <<head, next, val, count, answer, over>>
      /\ pc' = [pc EXCEPT ![t] = IF o = "delete" THEN "test" ELSE "acquire"]
  BY <1>1 DEF Call, At, Goto, lists, IInv
<1>3. PICK key \in Keys \cup {0} : call' = [call EXCEPT ![t] = <<o, key>>]
  BY <1>1
<1>4. o \in Ops
  BY DEF Ops
<1>5. Contents' = Contents
  BY <1>2, ContentsFrozen
<1>6. /\ Pending(t) = <<"none", 0>> /\ Pending(t)' = <<o, key>>
      /\ \A s \in Threads \ {t} : Pending(s)' = Pending(s)
  BY <1>2, <1>3 DEF Pending, TypeOK
<1>7. Requests[t] = <<"none", 0>> /\ Requests' = [Requests EXCEPT ![t] = <<o, key>>]
  BY <1>6 DEF Requests
<1>8. Abstract!Ask(t)
  BY <1>2, <1>4, <1>5, <1>7 DEF Abstract!Ask, Abstract!NoRequest
<1>. QED BY <1>8 DEF Abstract!Next

LEMMA QuietRefines ==
  ASSUME IInv, StoreSound, NEW t \in Threads,
         \/ Acquire(t) \/ FutexWait(t) \/ Release(t) \/ FutexWake(t) \/ WalkStart(t) \/ WalkOn(t) \/ WalkFault(t)
  PROVE  State' = State
<1>1. TypeOK
  BY DEF IInv
<1>2. CASE Acquire(t)
  BY <1>1, <1>2, Unseen DEF Acquire, At, Goto, Pending, TypeOK, lists
<1>3. CASE FutexWait(t)
  BY <1>1, <1>3, Unseen DEF FutexWait, At, Goto, Pending, TypeOK, lists
<1>4. CASE Release(t)
  BY <1>1, <1>4, Unseen DEF Release, At, Goto, Pending, TypeOK, lists
<1>5. CASE FutexWake(t)
  <2>1. /\ pc[t] = "wake" /\ pc'[t] = "idle" /\ UNCHANGED <<head, next, val, count, answer, over, call>>
        /\ \A s \in Threads \ {t} : pc'[s] = pc[s] \/ (pc[s] = "asleep" /\ pc'[s] = "acquire")
    BY <1>1, <1>5 DEF FutexWake, At, Goto, TypeOK, Sleepers, lists
  <2>2. \A s \in Threads : Pending(s)' = Pending(s)
    BY <2>1 DEF Pending
  <2>. QED BY <2>1, <2>2, Unseen
<1>6. CASE WalkStart(t)
  BY <1>1, <1>6, Unseen DEF WalkStart, At, Goto, Pending, TypeOK, lists
<1>7. CASE WalkOn(t)
  BY <1>1, <1>7, Unseen DEF WalkOn, At, Goto, Pending, TypeOK, lists
<1>8. CASE WalkFault(t)
  <2>1. UNCHANGED <<head, next, val, count, answer, pc, call>> /\ over = "no" /\ over' = "crashed"
    BY <1>8 DEF WalkFault, At, lists
  <2>2. Contents' = Contents
    BY <2>1, ContentsFrozen
  <2>3. \A s \in Threads : Pending(s)' = Pending(s)
    BY <2>1 DEF Pending
  <2>. QED BY <2>1, <2>2, <2>3, RequestsKept DEF State
<1>. QED BY <1>2, <1>3, <1>4, <1>5, <1>6, <1>7, <1>8

(* list_delete that finds nothing, with the lock or before it.                 *)
LEMMA MissRefines ==
  ASSUME IInv, StoreSound, NEW t \in Threads, DeleteMiss(t) \/ (DeleteTest(t) /\ head[Slot(t)] = NULL)
  PROVE  Abstract!Next
<1>1. PICK b \in Slots : b = Slot(t)
  BY SlotType DEF IInv
<1>2. /\ over = "no" /\ UNCHANGED <<head, next, val, count, answer, over, call>> /\ pc' = [pc EXCEPT ![t] = "idle"]
      /\ pc[t] \in {"walk", "test"} /\ TypeOK /\ ListsInv /\ Doing(t)
  BY DEF DeleteMiss, DeleteTest, At, Goto, StoreSound, IInv, lists
<1>3. call[t][1] = "delete"
  BY <1>2 DEF DeleteMiss, DeleteTest, At, Doing
<1>4. call[t][2] \notin ToSet(Contents[b])
  <2>1. CASE DeleteMiss(t)
    <3>1. pc[t] = "walk" /\ cur[t] = NULL
      BY <2>1 DEF DeleteMiss, At
    <3>. QED BY <3>1, <1>1, <1>2, HoldsIs
  <2>2. CASE DeleteTest(t) /\ head[Slot(t)] = NULL
    <3>1. head[b] \notin Nodes /\ IsPath(Chain(b), head[b], next) /\ Len(Chain(b)) \in Nat
      BY <2>2, <1>1, <1>2, PathNodes, StoreAssumption DEF NULL, ListsInv
    <3>2. Len(Chain(b)) = 0
      <4>1. ASSUME Len(Chain(b)) # 0 PROVE FALSE
        <5>1. 1 \in 1 .. Len(Chain(b))
          BY <3>1, <4>1
        <5>2. Chain(b)[1] = head[b] /\ Chain(b)[1] \in Nodes
          BY <3>1, <5>1, PathLength DEF IsPath
        <5>. QED BY <5>2, <3>1
      <4>. QED BY <4>1
    <3>3. 1 .. Len(Chain(b)) = {}
      BY <3>2
    <3>. QED BY <3>3, <1>2, ContentsAre
  <2>. QED BY <2>1, <2>2
<1>5. Contents' = Contents
  BY <1>2, ContentsFrozen
<1>6. (\A s \in Threads \ {t} : Pending(s)' = Pending(s)) /\ Pending(t)' = <<"none", 0>>
  BY <1>2 DEF Pending, TypeOK
<1>7. Requests[t] = call[t] /\ Requests[t] # <<"none", 0>> /\ Requests' = [Requests EXCEPT ![t] = <<"none", 0>>]
  BY <1>2, <1>6, RequestServed
<1>8. Contents' = [Contents EXCEPT ![b] = Contents[b]]
  BY <1>5 DEF Contents
<1>9. ~Abstract!Holds(b, Requests[t][2])
  BY <1>4, <1>7, HoldsKey
<1>10. Abstract!Serve(t, b)
  BY <1>2, <1>3, <1>7, <1>8, <1>9 DEF Abstract!Serve, Abstract!NoRequest
<1>. QED BY <1>10 DEF Abstract!Next

LEMMA LookupRefines ==
  ASSUME IInv, StoreSound, NEW t \in Threads, LookupEnd(t)
  PROVE  Abstract!Next
<1>1. PICK b \in Slots : b = Slot(t)
  BY SlotType DEF IInv
<1>2. /\ over = "no" /\ UNCHANGED <<head, next, val, count, over, call>> /\ pc' = [pc EXCEPT ![t] = "release"]
      /\ pc[t] = "walk" /\ TypeOK /\ ListsInv /\ Doing(t) /\ call[t][1] = "lookup" /\ (AtKey(t) \/ cur[t] = NULL)
      /\ answer' = [answer EXCEPT ![t] = IF cur[t] # NULL THEN 1 ELSE 0]
  BY DEF LookupEnd, At, Goto, StoreSound, IInv, lists
<1>3. call[t][2] \in ToSet(Contents[b]) <=> cur[t] # NULL
  BY <1>1, <1>2, HoldsIs
<1>4. Contents' = Contents
  BY <1>2, ContentsFrozen
<1>5. (\A s \in Threads \ {t} : Pending(s)' = Pending(s)) /\ Pending(t)' = <<"none", 0>>
  BY <1>2 DEF Pending, TypeOK
<1>6. Requests[t] = call[t] /\ Requests[t] # <<"none", 0>> /\ Requests' = [Requests EXCEPT ![t] = <<"none", 0>>]
  BY <1>2, <1>5, RequestServed
<1>7. Abstract!Holds(b, Requests[t][2]) <=> cur[t] # NULL
  BY <1>3, <1>6, HoldsKey
<1>8. Abstract!Serve(t, b)
  BY <1>2, <1>4, <1>6, <1>7 DEF Abstract!Serve, Abstract!NoRequest
<1>. QED BY <1>8 DEF Abstract!Next

LEMMA CounterRefines ==
  ASSUME IInv, StoreSound, NEW t \in Threads, CounterRead(t) \/ CounterWrite(t)
  PROVE  Abstract!Next \/ State' = State
<1>1. PICK b \in Slots : b = Slot(t)
  BY SlotType DEF IInv
<1>2. /\ over = "no" /\ UNCHANGED <<head, next, val, over, call>> /\ TypeOK /\ Doing(t)
      /\ call[t][1] \in CounterOps
  BY DEF CounterRead, CounterWrite, At, StoreSound, IInv, lists
<1>3. Contents' = Contents
  BY <1>2, ContentsFrozen
<1>4. CASE CounterRead(t) /\ call[t][1] # "get"
  <2>1. UNCHANGED <<count, answer>> /\ pc' = [pc EXCEPT ![t] = "store"] /\ pc[t] = "body"
    BY <1>4 DEF CounterRead, At, Goto
  <2>2. \A s \in Threads : Pending(s)' = Pending(s)
    BY <1>2, <2>1 DEF Pending, TypeOK
  <2>. QED BY <1>2, <2>1, <2>2, Unseen
<1>5. CASE CounterRead(t) /\ call[t][1] = "get"
  <2>1. count' = count /\ answer' = [answer EXCEPT ![t] = count] /\ pc' = [pc EXCEPT ![t] = "release"] /\ pc[t] = "body"
    BY <1>5 DEF CounterRead, At, Goto
  <2>2. (\A s \in Threads \ {t} : Pending(s)' = Pending(s)) /\ Pending(t)' = <<"none", 0>>
    BY <1>2, <2>1 DEF Pending, TypeOK
  <2>3. Requests[t] = call[t] /\ Requests[t] # <<"none", 0>> /\ Requests' = [Requests EXCEPT ![t] = <<"none", 0>>]
    BY <1>2, <2>1, <2>2, RequestServed
  <2>4. Abstract!Serve(t, b)
    BY <1>3, <1>5, <2>1, <2>3 DEF Abstract!Serve, Abstract!NoRequest
  <2>. QED BY <2>4 DEF Abstract!Next
<1>6. CASE CounterWrite(t)
  <2>1. /\ count' = (IF call[t][1] = "increment" THEN cur[t] + 1 ELSE cur[t] - 1)
        /\ answer' = answer /\ pc' = [pc EXCEPT ![t] = "release"] /\ pc[t] = "store"
    BY <1>6 DEF CounterWrite, At, Goto, lists
  <2>2. (\A s \in Threads \ {t} : Pending(s)' = Pending(s)) /\ Pending(t)' = <<"none", 0>>
    BY <1>2, <2>1 DEF Pending, TypeOK
  <2>3. Requests[t] = call[t] /\ Requests[t] # <<"none", 0>> /\ Requests' = [Requests EXCEPT ![t] = <<"none", 0>>]
    BY <1>2, <2>1, <2>2, RequestServed
  <2>4. cur[t] = count /\ call[t][1] \in {"increment", "decrement"}
    BY <1>2, <2>1 DEF Doing, Storing, CounterOps
  <2>5. Abstract!Serve(t, b)
    BY <1>3, <2>1, <2>3, <2>4 DEF Abstract!Serve, Abstract!NoRequest
  <2>. QED BY <2>5 DEF Abstract!Next
<1>. QED BY <1>4, <1>5, <1>6

LEMMA InsertRefines ==
  ASSUME IInv, StoreSound, NEW t \in Threads
  PROVE  /\ InsertNode(t) => State' = State
         /\ InsertHead(t) => Abstract!Next
<1>1. ASSUME InsertNode(t) PROVE State' = State
  <2>1. /\ over = "no" /\ over' = "no" /\ UNCHANGED <<count, answer, call>> /\ pc[t] = "body"
        /\ pc' = [pc EXCEPT ![t] = "store"] /\ TypeOK
    BY <1>1 DEF InsertNode, At, Goto, IInv
  <2>2. /\ StoreSound'
        /\ \A b \in Slots : Chain(b)' = Chain(b) /\ \A i \in 1 .. Len(Chain(b)) : val'[Chain(b)[i]] = val[Chain(b)[i]]
    BY <1>1, InsertNodeSound
  <2>3. \A b \in Slots : Contents'[b] = Contents[b]
    BY <2>1, <2>2, ContentsKept
  <2>4. \A s \in Threads : Pending(s)' = Pending(s)
    BY <2>1 DEF Pending, TypeOK
  <2>. QED BY <2>1, <2>3, <2>4, ContentsSame, RequestsKept DEF State
<1>2. ASSUME InsertHead(t) PROVE Abstract!Next
  <2>1. /\ over = "no" /\ over' = "no" /\ UNCHANGED <<count, answer, call, val>> /\ pc[t] = "store"
        /\ call[t][1] = "insert" /\ pc' = [pc EXCEPT ![t] = "release"] /\ TypeOK /\ ListsInv /\ Doing(t) /\ Storing(t)
    BY <1>2 DEF InsertHead, At, Goto, IInv, StoreSound, Storing
  <2>2. PICK b \in Slots : /\ b = Slot(t) /\ Chain(b)' = <<cur[t]>> \o Chain(b)
                           /\ \A c \in Slots \ {b} : Chain(c)' = Chain(c)
    BY <1>2, InsertHeadSound
  <2>3. StoreSound' /\ ListsInv'
    <3>1. StoreSound'
      BY <1>2, InsertHeadSound
    <3>. QED BY <3>1, <2>1 DEF StoreSound
  <2>4. \A c \in Slots \ {b} : Contents'[c] = Contents[c]
    BY <2>1, <2>2, <2>3, ContentsKept
  <2>5. Contents'[b] = <<call[t][2]>> \o Contents[b]
    <3>1. cur[t] \in Nodes /\ val[cur[t]] = call[t][2]
      BY <2>1 DEF Doing, TypeOK
    <3>2. Chain(b) \in Seq(Nodes)
      BY <2>1 DEF ListsInv, IsPath
    <3>3. Contents[b] = KeysOf(Chain(b))
      BY <2>1, ContentsAre
    <3>4. KeysOf(<<cur[t]>> \o Chain(b)) = <<call[t][2]>> \o Contents[b]
      BY <3>1, <3>2, <3>3, <2>1, KeysInsert
    <3>5. Contents'[b] = KeysOf(Chain(b))'
      BY <2>1, <2>3, ContentsAreNext
    <3>6. KeysOf(Chain(b))' = KeysOf(<<cur[t]>> \o Chain(b))
      BY <2>1, <2>2 DEF KeysOf
    <3>. QED BY <3>4, <3>5, <3>6
  <2>6. Contents' = [Contents EXCEPT ![b] = <<call[t][2]>> \o @]
    BY <2>4, <2>5 DEF Contents
  <2>7. (\A s \in Threads \ {t} : Pending(s)' = Pending(s)) /\ Pending(t)' = <<"none", 0>>
    BY <2>1 DEF Pending, TypeOK
  <2>8. Requests[t] = call[t] /\ Requests[t] # <<"none", 0>> /\ Requests' = [Requests EXCEPT ![t] = <<"none", 0>>]
    BY <2>1, <2>7, RequestServed
  <2>9. Abstract!Serve(t, b)
    BY <2>1, <2>6, <2>8 DEF Abstract!Serve, Abstract!NoRequest
  <2>. QED BY <2>9 DEF Abstract!Next
<1>. QED BY <1>1, <1>2

LEMMA DeleteRefines ==
  ASSUME IInv, StoreSound, NEW t \in Threads, DeleteNode(t)
  PROVE  Abstract!Next
<1>1. /\ over = "no" /\ over' = "no" /\ UNCHANGED <<count, answer, call, val>> /\ pc[t] = "walk" /\ AtKey(t)
      /\ call[t][1] = "delete" /\ pc' = [pc EXCEPT ![t] = "idle"] /\ TypeOK /\ ListsInv /\ Doing(t)
  BY DEF DeleteNode, At, Goto, IInv, StoreSound
<1>2. PICK b \in Slots : \E i \in 1 .. Len(Chain(b)) :
         /\ b = Slot(t) /\ Chain(b)' = RemoveAt(Chain(b), i)
         /\ val[Chain(b)[i]] = call[t][2] /\ \A j \in 1 .. i - 1 : val[Chain(b)[j]] # call[t][2]
         /\ \A e \in Slots \ {b} : Chain(e)' = Chain(e)
  BY DeleteNodeSound
<1>3. PICK i \in 1 .. Len(Chain(b)) :
         /\ b = Slot(t) /\ Chain(b)' = RemoveAt(Chain(b), i)
         /\ val[Chain(b)[i]] = call[t][2] /\ \A j \in 1 .. i - 1 : val[Chain(b)[j]] # call[t][2]
         /\ \A e \in Slots \ {b} : Chain(e)' = Chain(e)
  BY <1>2
<1>4. StoreSound' /\ ListsInv'
  <2>1. StoreSound'
    BY DeleteNodeSound
  <2>. QED BY <2>1, <1>1 DEF StoreSound
<1>5. \A e \in Slots \ {b} : Contents'[e] = Contents[e]
  BY <1>1, <1>3, <1>4, ContentsKept
<1>6. Contents'[b] = RemoveFirst(Contents[b], call[t][2])
  <2>1. Chain(b) \in Seq(Nodes)
    BY <1>1 DEF ListsInv, IsPath
  <2>2. Contents[b] = KeysOf(Chain(b))
    BY <1>1, ContentsAre
  <2>3. KeysOf(RemoveAt(Chain(b), i)) = RemoveFirst(Contents[b], call[t][2])
    BY <2>1, <2>2, <1>1, <1>3, KeysRemove
  <2>4. Contents'[b] = KeysOf(Chain(b))'
    BY <1>1, <1>4, ContentsAreNext
  <2>5. KeysOf(Chain(b))' = KeysOf(RemoveAt(Chain(b), i))
    BY <1>1, <1>3 DEF KeysOf
  <2>. QED BY <2>3, <2>4, <2>5
<1>7. call[t][2] \in ToSet(Contents[b])
  BY <1>1, <1>3, ContentsAre
<1>8. Contents' = [Contents EXCEPT ![b] = RemoveFirst(@, call[t][2])]
  BY <1>5, <1>6 DEF Contents
<1>9. (\A s \in Threads \ {t} : Pending(s)' = Pending(s)) /\ Pending(t)' = <<"none", 0>>
  BY <1>1 DEF Pending, TypeOK
<1>10. Requests[t] = call[t] /\ Requests[t] # <<"none", 0>> /\ Requests' = [Requests EXCEPT ![t] = <<"none", 0>>]
  BY <1>1, <1>9, RequestServed
<1>11. Abstract!Holds(b, Requests[t][2])
  BY <1>7, <1>10, HoldsKey
<1>12. Contents' = [Contents EXCEPT ![b] = Abstract!RemoveFirst(@, Requests[t][2])]
  BY <1>8, <1>10, SameSequences
<1>13. Abstract!Serve(t, b)
  BY <1>1, <1>10, <1>11, <1>12 DEF Abstract!Serve, Abstract!NoRequest
<1>. QED BY <1>13 DEF Abstract!Next

LEMMA ClearRefines ==
  ASSUME IInv, StoreSound, Clear
  PROVE  Abstract!Next \/ State' = State
<1>1. over = "no" /\ Finished /\ UNCHANGED <<head, next, val, count, answer, pc, call>>
  BY DEF Clear
<1>2. Requests' = Requests /\ \A t \in Threads : Requests[t] = <<"none", 0>>
  BY <1>1 DEF Requests, Pending, Finished
<1>3. CASE over' = "crashed"
  <2>1. Contents' = Contents
    BY <1>1, <1>3, ContentsFrozen
  <2>. QED BY <1>1, <1>2, <2>1 DEF State
<1>4. CASE over' = "cleared"
  <2>1. Contents' = [b \in Slots |-> <<>>]
    BY <1>4 DEF Contents
  <2>2. Abstract!Clear
    BY <1>1, <1>2, <2>1 DEF Abstract!Clear, Abstract!NoRequest
  <2>. QED BY <2>2 DEF Abstract!Next
<1>. QED BY <1>3, <1>4 DEF Clear

LEMMA StoreRefines == IInv /\ StoreSound /\ [Next]_vars => [Abstract!Next]_State
<1>. SUFFICES ASSUME IInv, StoreSound, [Next]_vars PROVE [Abstract!Next]_State
  OBVIOUS
<1>1. CASE UNCHANGED vars
  <2>1. UNCHANGED <<head, next, val, count, answer, over, pc, call>>
    BY <1>1 DEF vars
  <2>2. \A s \in Threads : Pending(s)' = Pending(s)
    BY <2>1 DEF Pending
  <2>. QED BY <2>1, <2>2, Unseen
<1>2. CASE Clear
  BY <1>2, ClearRefines
<1>3. ASSUME NEW t \in Threads, Call(t) \/ Progress(t) PROVE [Abstract!Next]_State
  <2>1. CASE Call(t)
    BY <2>1, CallRefines
  <2>2. CASE DeleteTest(t) /\ head[Slot(t)] # NULL
    <3>1. /\ pc[t] = "test" /\ pc' = [pc EXCEPT ![t] = "acquire"] /\ TypeOK
          /\ UNCHANGED <<head, next, val, count, answer, over, call>>
      BY <2>2 DEF DeleteTest, At, Goto, IInv, lists
    <3>2. \A s \in Threads : Pending(s)' = Pending(s)
      BY <3>1 DEF Pending, TypeOK
    <3>. QED BY <3>1, <3>2, Unseen
  <2>3. CASE DeleteMiss(t) \/ (DeleteTest(t) /\ head[Slot(t)] = NULL)
    BY <2>3, MissRefines
  <2>4. CASE \/ Acquire(t) \/ FutexWait(t) \/ Release(t) \/ FutexWake(t) \/ WalkStart(t) \/ WalkOn(t) \/ WalkFault(t)
    BY <2>4, QuietRefines
  <2>5. CASE CounterRead(t) \/ CounterWrite(t)
    BY <2>5, CounterRefines
  <2>6. CASE InsertNode(t) \/ InsertHead(t)
    BY <2>6, InsertRefines
  <2>7. CASE LookupEnd(t)
    BY <2>7, LookupRefines
  <2>8. CASE DeleteNode(t)
    BY <2>8, DeleteRefines
  <2>. QED BY <1>3, <2>1, <2>2, <2>3, <2>4, <2>5, <2>6, <2>7, <2>8 DEF Progress
<1>. QED BY <1>1, <1>2, <1>3 DEF Next

(* Each call of the counter, a list or the hash table takes effect once, at    *)
(* one moment between its start and its end, list_delete too, although it      *)
(* returns with the lock taken.                                                *)
THEOREM StoreRefined == Spec => ImplementsStore
<1>1. Init => Abstract!Init
  <2>. SUFFICES ASSUME Init PROVE Abstract!Init
    OBVIOUS
  <2>1. Requests = [t \in Threads |-> <<"none", 0>>]
    BY DEF Init, Requests, Pending
  <2>2. Contents = [b \in Slots |-> <<>>]
    <3>1. over # "cleared" /\ ListsInv
      BY StoreStart DEF Init, StoreSound
    <3>2. ASSUME NEW b \in Slots PROVE Contents[b] = <<>>
      <4>1. head[b] \notin Nodes
        <5>1. head[b] \in {NULL, Wild}
          BY StoreAssumption DEF Init
        <5>2. head[b] \in {0, -1}
          BY <5>1 DEF NULL, Wild
        <5>. QED BY <5>2, StoreAssumption
      <4>2. IsPath(<<>>, head[b], next)
        BY <4>1, EmptySeq DEF IsPath
      <4>3. Length(b) = 0
        BY <4>2, ChainIs, EmptySeq
      <4>. QED BY <3>1, <4>3 DEF Contents
    <3>. QED BY <3>2 DEF Contents
  <2>. QED BY <2>1, <2>2 DEF Abstract!Init, Abstract!NoRequest, Init
<1>2. IInv /\ StoreSound /\ [Next]_vars => [Abstract!Next]_State
  BY StoreRefines
<1>. QED BY <1>1, <1>2, StoreInvariance, PTL DEF Spec, ImplementsStore, Abstract!Spec, Abstract!vars, State

-----------------------------------------------------------------------------
(* The layout of Project3/3b                                                   *)

LayoutTypeOK ==
    /\ sz \in Nat /\ sizeOfStack \in Nat
    /\ fault \in Nat /\ running \in BOOLEAN

(* An address at a page border: nothing of the page before it is its page.     *)
Border(x) == x % PGSIZE = 0

(* The heap starts at LOW, has a page and keeps the gap; the page table has    *)
(* the pages of both parts.                                                    *)
LayoutInv ==
    /\ LayoutTypeOK
    /\ Border(StackBottom)
    /\ LOW < sz /\ sz + GAP * PGSIZE <= StackBottom
    /\ mapped = Copied

-----------------------------------------------------------------------------
(* Pages and addresses                                                         *)

LEMMA Pages ==
    /\ PGSIZE \in Nat \ {0} /\ GAP * PGSIZE \in Nat /\ GAP * PGSIZE >= PGSIZE
    /\ (GAP + 1) * PGSIZE = GAP * PGSIZE + PGSIZE
    /\ USERTOP \in Nat /\ LOW \in Nat /\ WIDTH \in Nat
<1>1. \A g \in Nat \ {0}, p \in Nat \ {0} :
        g * p \in Nat /\ g * p >= p /\ (g + 1) * p = g * p + p
  OBVIOUS
<1>. QED BY <1>1, LayoutAssumption

LEMMA PageIs ==
  ASSUME NEW x \in Int, NEW k \in Int, NEW P \in Nat \ {0}, P * k <= x, x < P * k + P
  PROVE  x \div P = k
<1>1. x \div P \in Int /\ P * (x \div P) <= x /\ x < P * (x \div P) + P
  OBVIOUS
<1>. DEFINE q == x \div P
<1>2. CASE q > k
  <2>1. P * q >= P * k + P
    <3>1. PICK j \in Nat : q = k + 1 + j
      <4>1. q - k - 1 \in Nat /\ q = k + 1 + (q - k - 1)
        BY <1>1, <1>2
      <4>. QED BY <4>1
    <3>2. P * q = P * k + P + P * j /\ P * j \in Nat /\ P * k \in Int
      BY <3>1
    <3>. QED BY <3>2
  <2>. QED BY <1>1, <2>1
<1>3. CASE q < k
  <2>1. P * k >= P * q + P
    <3>1. PICK j \in Nat : k = q + 1 + j
      <4>1. k - q - 1 \in Nat /\ k = q + 1 + (k - q - 1)
        BY <1>1, <1>3
      <4>. QED BY <4>1
    <3>2. P * k = P * q + P + P * j /\ P * j \in Nat /\ P * q \in Int
      BY <1>1, <3>1
    <3>. QED BY <3>2
  <2>. QED BY <1>1, <2>1
<1>. QED BY <1>1, <1>2, <1>3

LEMMA PageBounds ==
  ASSUME NEW x \in Int
  PROVE  /\ PageOf(x) \in Int /\ PGSIZE * PageOf(x) \in Int
         /\ PGSIZE * PageOf(x) <= x /\ x < PGSIZE * PageOf(x) + PGSIZE
<1>1. \A P \in Nat \ {0} : /\ x \div P \in Int /\ P * (x \div P) \in Int
                           /\ P * (x \div P) <= x /\ x < P * (x \div P) + P
  OBVIOUS
<1>. QED BY <1>1, LayoutAssumption DEF PageOf

LEMMA PageOrder ==
  ASSUME NEW x \in Int, NEW y \in Int, x <= y
  PROVE  PageOf(x) <= PageOf(y)
<1>1. SUFFICES ASSUME PageOf(y) < PageOf(x) PROVE FALSE
  BY PageBounds
<1>2. PICK j \in Nat : PageOf(x) = PageOf(y) + 1 + j
  <2>1. PageOf(x) - PageOf(y) - 1 \in Nat /\ PageOf(x) = PageOf(y) + 1 + (PageOf(x) - PageOf(y) - 1)
    BY <1>1, PageBounds
  <2>. QED BY <2>1
<1>3. PGSIZE * PageOf(x) >= PGSIZE * PageOf(y) + PGSIZE
  <2>1. \A P \in Nat \ {0}, i \in Int : P * (i + 1 + j) = P * i + P + P * j /\ P * j \in Nat /\ P * i \in Int
    OBVIOUS
  <2>2. PGSIZE * PageOf(x) = PGSIZE * PageOf(y) + PGSIZE + PGSIZE * j
        /\ PGSIZE * j \in Nat /\ PGSIZE * PageOf(y) \in Int
    BY <1>2, <2>1, Pages, PageBounds
  <2>. QED BY <2>2, Pages
<1>4. PGSIZE * PageOf(x) <= x /\ y < PGSIZE * PageOf(y) + PGSIZE
      /\ PGSIZE * PageOf(x) \in Int /\ PGSIZE * PageOf(y) \in Int
  BY PageBounds
<1>. QED BY <1>3, <1>4, Pages

LEMMA PageShift ==
  ASSUME NEW x \in Int
  PROVE  PageOf(x - PGSIZE) = PageOf(x) - 1 /\ PageOf(x + PGSIZE) = PageOf(x) + 1
<1>1. \A P \in Nat \ {0}, q \in Int : P * (q - 1) = P * q - P /\ P * (q + 1) = P * q + P /\ P * q \in Int
  OBVIOUS
<1>2. /\ PGSIZE * (PageOf(x) - 1) = PGSIZE * PageOf(x) - PGSIZE
      /\ PGSIZE * (PageOf(x) + 1) = PGSIZE * PageOf(x) + PGSIZE
      /\ PGSIZE \in Nat \ {0}
  BY <1>1, Pages, PageBounds
<1>3. PageOf(x - PGSIZE) = PageOf(x) - 1
  BY <1>2, PageIs, PageBounds DEF PageOf
<1>4. PageOf(x + PGSIZE) = PageOf(x) + 1
  BY <1>2, PageIs, PageBounds DEF PageOf
<1>. QED BY <1>3, <1>4

(* The last page of x bytes.                                                   *)
LEMMA UpIs ==
  ASSUME NEW x \in Int
  PROVE  Up(x) - 1 = PageOf(x - 1) /\ Up(x) \in Int
<1>1. x + PGSIZE - 1 = (x - 1) + PGSIZE /\ x - 1 \in Int
  BY Pages
<1>2. Up(x) = PageOf(x + PGSIZE - 1)
  BY DEF Up, PageOf
<1>. QED BY <1>1, <1>2, PageShift, PageBounds

LEMMA BorderFacts ==
  ASSUME NEW x \in Int, Border(x)
  PROVE  /\ x = PGSIZE * PageOf(x) /\ PageOf(x - 1) = PageOf(x) - 1
         /\ Border(x - PGSIZE)
<1>1. \A P \in Nat \ {0}, a \in Int : a = P * (a \div P) + (a % P) /\ a % P \in Nat
  OBVIOUS
<1>2. x = PGSIZE * PageOf(x) /\ Border(x - PGSIZE)
  <2>1. x = PGSIZE * PageOf(x) /\ PGSIZE * PageOf(x) \in Int
    BY <1>1, Pages, PageBounds DEF Border, PageOf
  <2>2. x - PGSIZE = PGSIZE * PageOf(x - PGSIZE)
    <3>1. \A P \in Nat \ {0}, q \in Int : P * (q - 1) = P * q - P
      OBVIOUS
    <3>2. PageOf(x - PGSIZE) = PageOf(x) - 1 /\ PageOf(x) \in Int
      BY PageShift, PageBounds
    <3>3. PGSIZE * (PageOf(x) - 1) = PGSIZE * PageOf(x) - PGSIZE
      BY <3>1, <3>2, Pages
    <3>. QED BY <2>1, <3>2, <3>3
  <2>3. x - PGSIZE \in Int /\ PGSIZE * PageOf(x - PGSIZE) \in Int
    BY Pages, PageBounds
  <2>4. x - PGSIZE = PGSIZE * PageOf(x - PGSIZE) + ((x - PGSIZE) % PGSIZE) /\ (x - PGSIZE) % PGSIZE \in Nat
    BY <1>1, <2>3, Pages DEF PageOf
  <2>. QED BY <2>1, <2>2, <2>3, <2>4 DEF Border
<1>3. PageOf(x - 1) = PageOf(x) - 1
  <2>1. PGSIZE * (PageOf(x) - 1) = x - PGSIZE
    <3>1. \A P \in Nat \ {0}, q \in Int : P * (q - 1) = P * q - P
      OBVIOUS
    <3>. QED BY <1>2, <3>1, Pages, PageBounds
  <2>. QED BY <2>1, PageIs, PageBounds, Pages DEF PageOf
<1>. QED BY <1>2, <1>3

-----------------------------------------------------------------------------
(* What the state says                                                         *)

LEMMA StateFacts ==
  ASSUME LayoutInv
  PROVE  /\ StackBottom \in Int /\ StackBottom <= USERTOP /\ LOW < sz /\ LOW \in Nat /\ sz \in Nat
         /\ sz + PGSIZE <= StackBottom /\ USERTOP \in Nat
         /\ PageOf(LOW) \in Int /\ PageOf(StackBottom) \in Int /\ PageOf(USERTOP) \in Int /\ Up(sz) \in Int
         /\ PageOf(LOW) < Up(sz) /\ Up(sz) <= PageOf(StackBottom)
         /\ PageOf(StackBottom) <= PageOf(USERTOP)
<1>. USE DEF LayoutInv, LayoutTypeOK
<1>1. StackBottom \in Int /\ StackBottom <= USERTOP
  <2>1. \A p, k \in Nat : p * k \in Nat
    OBVIOUS
  <2>2. PGSIZE * sizeOfStack \in Nat
    BY <2>1, Pages
  <2>. QED BY <2>2, Pages DEF StackBottom
<1>2. sz + PGSIZE <= StackBottom
  BY <1>1, Pages
<1>3. PageOf(LOW) <= PageOf(sz - 1)
  BY PageOrder, Pages
<1>4. PageOf(sz - 1) + 1 <= PageOf(StackBottom)
  <2>1. PageOf(sz - 1) + 1 = PageOf(sz - 1 + PGSIZE) /\ sz - 1 + PGSIZE \in Int /\ sz - 1 + PGSIZE <= StackBottom
    BY <1>1, <1>2, PageShift, Pages
  <2>. QED BY <1>1, <2>1, PageOrder
<1>5. Up(sz) - 1 = PageOf(sz - 1) /\ Up(sz) \in Int
  BY UpIs
<1>6. PageOf(StackBottom) <= PageOf(USERTOP)
  BY <1>1, PageOrder, Pages
<1>7. PageOf(LOW) \in Int /\ PageOf(StackBottom) \in Int /\ PageOf(USERTOP) \in Int /\ PageOf(sz - 1) \in Int
  BY <1>1, PageBounds, Pages
<1>. QED BY <1>1, <1>2, <1>3, <1>4, <1>5, <1>6, <1>7, Pages

LEMMA WrapNone ==
  ASSUME NEW x \in Nat, x < WIDTH
  PROVE  Wrap(x) = x
<1>1. \A w \in Nat : x < w => x % w = x
  OBVIOUS
<1>. QED BY <1>1, Pages DEF Wrap

-----------------------------------------------------------------------------
(* The steps                                                                   *)

LEMMA SbrkStep ==
  ASSUME LayoutInv, NEW n \in Sbrks, Sbrk(n)
  PROVE  LayoutInv'
<1>. DEFINE newsz == IF sz + n < 0 THEN sz ELSE sz + n
<1>1. /\ sz' = newsz /\ UNCHANGED <<sizeOfStack, fault, running>>
      /\ mapped' = IF newsz >= sz THEN mapped \cup (Up(sz) .. Up(newsz) - 1)
                                  ELSE mapped \ (Up(newsz) .. Up(sz) - 1)
  BY DEF Sbrk
<1>2. n \in Int /\ USERTOP + n < WIDTH
  BY LayoutAssumption
<1>3. newsz \in Nat /\ LOW < newsz /\ newsz + GAP * PGSIZE <= StackBottom
  <2>1. CASE sz + n < 0
    BY <2>1 DEF LayoutInv, LayoutTypeOK
  <2>2. CASE sz + n >= 0
    <3>1. sz + n \in Nat /\ LOW < sz + n /\ newsz = sz + n
      BY <1>2, <2>2 DEF Sbrk, LayoutInv, LayoutTypeOK
    <3>2. sz + n + GAP * PGSIZE \in Nat /\ sz + n + GAP * PGSIZE < WIDTH
      BY <1>2, <3>1, StateFacts, Pages DEF LayoutInv, LayoutTypeOK
    <3>3. Wrap(sz + n + GAP * PGSIZE) = sz + n + GAP * PGSIZE
      BY <3>2, WrapNone
    <3>. QED BY <3>1, <3>3 DEF Sbrk, HeapFits
  <2>. QED BY <1>2, <2>1, <2>2 DEF LayoutInv, LayoutTypeOK
<1>. HIDE DEF newsz
<1>4. StackBottom' = StackBottom
  BY <1>1 DEF StackBottom
<1>5. LayoutTypeOK' /\ LOW < sz' /\ sz' + GAP * PGSIZE <= StackBottom' /\ Border(StackBottom)'
  BY <1>1, <1>3, <1>4 DEF LayoutInv, LayoutTypeOK, Border
<1>6. mapped' = Copied'
  <2>1. PageOf(LOW) \in Int /\ Up(newsz) - 1 = PageOf(newsz - 1) /\ Up(newsz) \in Int
        /\ PageOf(LOW) <= PageOf(newsz - 1) /\ PageOf(newsz - 1) \in Int
    <3>1. newsz - 1 \in Int /\ LOW <= newsz - 1 /\ LOW \in Int /\ newsz \in Int
      BY <1>3, Pages
    <3>. QED BY <3>1, UpIs, PageOrder, PageBounds
  <2>2. mapped = (PageOf(LOW) .. Up(sz) - 1) \cup (PageOf(StackBottom) .. PageOf(USERTOP) - 1)
    BY DEF LayoutInv, Copied
  <2>3. Copied' = (PageOf(LOW) .. Up(newsz) - 1) \cup (PageOf(StackBottom) .. PageOf(USERTOP) - 1)
    BY <1>1, <1>4 DEF Copied, PageOf, Up
  <2>4. CASE newsz >= sz
    <3>1. Up(sz) <= Up(newsz)
      BY <1>3, <2>1, <2>4, UpIs, PageOrder, StateFacts
    <3>. QED BY <1>1, <2>1, <2>2, <2>3, <2>4, <3>1, StateFacts
  <2>5. CASE ~(newsz >= sz)
    <3>1. Up(newsz) <= Up(sz)
      BY <1>3, <2>1, <2>5, UpIs, PageOrder, StateFacts
    <3>. QED BY <1>1, <2>1, <2>2, <2>3, <2>5, <3>1, StateFacts
  <2>. QED BY <2>4, <2>5
<1>. QED BY <1>5, <1>6 DEF LayoutInv

LEMMA ExecStep ==
  ASSUME LayoutInv, NEW s \in Images, ExecImage(s)
  PROVE  LayoutInv'
<1>1. s \in Nat /\ LOW < s /\ s + (GAP * PGSIZE + PGSIZE) <= USERTOP
  BY Pages, LayoutAssumption
<1>2. sz' = s /\ sizeOfStack' = 1 /\ fault' = fault /\ running' = running
      /\ mapped' = (PageOf(LOW) .. Up(s) - 1) \cup {PageOf(USERTOP - PGSIZE)}
  BY DEF ExecImage
<1>3. StackBottom' = USERTOP - PGSIZE
  <2>1. \A p \in Nat : p * 1 = p
    OBVIOUS
  <2>. QED BY <1>2, <2>1, Pages DEF StackBottom
<1>4. Border(USERTOP - PGSIZE)
  BY BorderFacts, Pages, LayoutAssumption DEF Border
<1>5. PageOf(USERTOP - PGSIZE) = PageOf(USERTOP) - 1 /\ PageOf(USERTOP) \in Int
  BY PageShift, PageBounds, Pages
<1>6. Copied' = (PageOf(LOW) .. Up(s) - 1) \cup (PageOf(USERTOP - PGSIZE) .. PageOf(USERTOP) - 1)
  BY <1>2, <1>3 DEF Copied, PageOf, Up
<1>7. mapped' = Copied'
  BY <1>2, <1>5, <1>6
<1>. QED BY <1>1, <1>2, <1>3, <1>4, <1>7, Pages DEF LayoutInv, LayoutTypeOK, Border

LEMMA FaultStep ==
  ASSUME LayoutInv, PageFault
  PROVE  LayoutInv'
<1>1. CASE NearStack(fault) /\ StackFits
  <2>1. /\ sz' = sz /\ sizeOfStack' = sizeOfStack + 1 /\ running' = running
        /\ mapped' = mapped \cup {PageOf(StackBottom - PGSIZE)}
        /\ fault' \in {fault, NoFault}
    BY <1>1 DEF PageFault, Growstack
  <2>2. StackBottom' = StackBottom - PGSIZE
    <3>1. \A p, k \in Nat : p * (k + 1) = p * k + p /\ p * k \in Nat
      OBVIOUS
    <3>2. PGSIZE * (sizeOfStack + 1) = PGSIZE * sizeOfStack + PGSIZE /\ PGSIZE * sizeOfStack \in Nat
      BY <3>1, Pages DEF LayoutInv, LayoutTypeOK
    <3>. QED BY <2>1, <3>2, Pages DEF StackBottom
  <2>3. sz + GAP * PGSIZE <= StackBottom - PGSIZE
    <3>1. StackBottom - PGSIZE - sz \in Nat /\ StackBottom - PGSIZE - sz < WIDTH
      BY StateFacts, Pages, LayoutAssumption
    <3>2. Wrap(StackBottom - PGSIZE - sz) = StackBottom - PGSIZE - sz
      BY <3>1, WrapNone
    <3>. QED BY <1>1, <3>2, StateFacts, Pages DEF StackFits
  <2>4. Border(StackBottom - PGSIZE) /\ PageOf(StackBottom - PGSIZE) = PageOf(StackBottom) - 1
    BY StateFacts, BorderFacts, PageShift DEF LayoutInv
  <2>5. Copied' = (PageOf(LOW) .. Up(sz) - 1) \cup (PageOf(StackBottom - PGSIZE) .. PageOf(USERTOP) - 1)
    BY <2>1, <2>2 DEF Copied, PageOf, Up
  <2>6. mapped = (PageOf(LOW) .. Up(sz) - 1) \cup (PageOf(StackBottom) .. PageOf(USERTOP) - 1)
    BY DEF LayoutInv, Copied
  <2>7. mapped' = Copied'
    BY <2>1, <2>4, <2>5, <2>6, StateFacts
  <2>. QED BY <2>1, <2>2, <2>3, <2>4, <2>7, Pages DEF LayoutInv, LayoutTypeOK, NoFault, Border
<1>2. CASE ~(NearStack(fault) /\ StackFits)
  BY <1>2, Pages DEF PageFault, KillFaulting, LayoutInv, LayoutTypeOK, NoFault, Border, StackBottom, Copied, PageOf, Up
<1>. QED BY <1>1, <1>2

LayoutSpec == LayoutInit /\ [][LayoutNext]_layout

LEMMA LayoutStart == LayoutInit => LayoutInv
<1>. SUFFICES ASSUME LayoutInit PROVE LayoutInv
  OBVIOUS
<1>1. sz = LOW + PGSIZE /\ sizeOfStack = 0 /\ mapped = {PageOf(LOW)} /\ fault = WIDTH /\ running = TRUE
  BY DEF LayoutInit, NoFault
<1>2. StackBottom = USERTOP
  <2>1. \A p \in Nat : p * 0 = 0
    OBVIOUS
  <2>. QED BY <1>1, <2>1, Pages DEF StackBottom
<1>3. Border(USERTOP) /\ LOW + PGSIZE + GAP * PGSIZE <= USERTOP
  BY Pages, LayoutAssumption DEF Border
<1>4. mapped = Copied
  <2>1. PageOf(LOW) \in Int /\ PageOf(USERTOP) \in Int
    BY PageBounds, Pages
  <2>2. Up(LOW + PGSIZE) - 1 = PageOf(LOW) /\ Up(LOW + PGSIZE) \in Int
    <3>1. Border(LOW)
      BY LayoutAssumption DEF Border
    <3>2. PageOf(LOW - 1) = PageOf(LOW) - 1 /\ PageOf(LOW - 1 + PGSIZE) = PageOf(LOW - 1) + 1
      BY <3>1, BorderFacts, PageShift, Pages
    <3>3. LOW + PGSIZE - 1 = LOW - 1 + PGSIZE
      BY Pages
    <3>. QED BY <2>1, <3>2, <3>3, UpIs, Pages
  <2>3. Copied = (PageOf(LOW) .. PageOf(LOW)) \cup (PageOf(USERTOP) .. PageOf(USERTOP) - 1)
    BY <1>1, <1>2, <2>2 DEF Copied
  <2>. QED BY <1>1, <2>1, <2>3
<1>. QED BY <1>1, <1>2, <1>3, <1>4, Pages DEF LayoutInv, LayoutTypeOK

(* The borders, the gap and the page table (growproc, growstack, exec, fork).  *)
THEOREM LayoutInvariance == LayoutSpec => []LayoutInv
<1>1. LayoutInv /\ [LayoutNext]_layout => LayoutInv'
  <2>. SUFFICES ASSUME LayoutInv, [LayoutNext]_layout PROVE LayoutInv'
    OBVIOUS
  <2>1. CASE \E n \in Sbrks : Sbrk(n)
    BY <2>1, SbrkStep
  <2>2. CASE \E s \in Images : ExecImage(s)
    BY <2>2, ExecStep
  <2>3. CASE ForkChild
    BY <2>3 DEF ForkChild, LayoutInv, LayoutTypeOK, Border, StackBottom, Copied, PageOf, Up
  <2>4. CASE \E x \in 0 .. WIDTH - 1 : Touch(x)
    BY <2>4 DEF Touch, LayoutInv, LayoutTypeOK, Border, StackBottom, Copied, PageOf, Up
  <2>5. CASE PageFault
    BY <2>5, FaultStep
  <2>6. CASE StackNoMemory
    BY <2>6, Pages DEF StackNoMemory, KillFaulting, LayoutInv, LayoutTypeOK, NoFault, Border, StackBottom, Copied, PageOf, Up
  <2>7. CASE UNCHANGED layout
    BY <2>7 DEF layout, LayoutInv, LayoutTypeOK, Border, StackBottom, Copied, PageOf, Up
  <2>. QED BY <2>1, <2>2, <2>3, <2>4, <2>5, <2>6, <2>7 DEF LayoutNext
<1>. QED BY <1>1, LayoutStart, PTL DEF LayoutSpec

-----------------------------------------------------------------------------
(* The arguments of system calls                                               *)

LEMMA HeapMapped ==
  ASSUME LayoutInv, NEW y \in Int, LOW <= y, y < sz
  PROVE  PageOf(y) \in mapped
<1>1. PageOf(LOW) <= PageOf(y) /\ PageOf(y) <= PageOf(sz - 1) /\ PageOf(y) \in Int
  BY StateFacts, PageOrder, PageBounds
<1>2. Up(sz) - 1 = PageOf(sz - 1)
  BY StateFacts, UpIs
<1>. QED BY <1>1, <1>2, StateFacts DEF LayoutInv, Copied

LEMMA StackMapped ==
  ASSUME LayoutInv, NEW y \in Int, StackBottom <= y, y < USERTOP
  PROVE  PageOf(y) \in mapped
<1>1. PageOf(StackBottom) <= PageOf(y) /\ PageOf(y) <= PageOf(USERTOP - 1) /\ PageOf(y) \in Int
  BY StateFacts, PageOrder, PageBounds
<1>2. PageOf(USERTOP - 1) = PageOf(USERTOP) - 1
  BY BorderFacts, LayoutAssumption DEF Border
<1>. QED BY <1>1, <1>2, StateFacts DEF LayoutInv, Copied

(* growproc and growstack keep the gap from both sides, the pages that are     *)
(* present are the two parts', and argptr and argstr let no call at another.   *)
THEOREM LayoutCorrect == LayoutSpec => []LayoutSound
<1>1. LayoutInv => LayoutSound
  <2>. SUFFICES ASSUME LayoutInv,
                       NEW x \in 0 .. WIDTH - 1, NEW size \in 0 .. 2 * PGSIZE
                PROVE  /\ Accepts(x, size) => \A y \in x .. x + size - 1 : PageOf(y) \in mapped
                       /\ Accepts(x, 1) => \A y \in x .. StringEnd(x) - 1 : PageOf(y) \in mapped
    BY DEF LayoutInv, LayoutSound
  <2>1. /\ x \in Nat /\ size \in Nat /\ PGSIZE \in Nat /\ size <= 2 * PGSIZE
        /\ WIDTH \in Nat /\ USERTOP \in Nat /\ USERTOP + 2 * PGSIZE < WIDTH
    BY Pages, LayoutAssumption
  <2>2. ASSUME Accepts(x, size), NEW y \in x .. x + size - 1 PROVE PageOf(y) \in mapped
    <3>1. x + size \in Nat /\ x + size < WIDTH
      BY <2>1, <2>2 DEF Accepts
    <3>2. Wrap(x + size) = x + size
      BY <3>1, WrapNone
    <3>3. CASE x < sz /\ x + size <= sz
      BY <2>1, <2>2, <3>3, HeapMapped, StateFacts DEF Accepts
    <3>4. CASE x >= sz \/ x + size > sz
      BY <2>1, <2>2, <3>2, <3>4, StackMapped, StateFacts DEF Accepts
    <3>. QED BY <2>1, <3>3, <3>4, StateFacts
  <2>3. ASSUME Accepts(x, 1), NEW y \in x .. StringEnd(x) - 1 PROVE PageOf(y) \in mapped
    <3>1. CASE x < sz
      BY <2>1, <2>3, <3>1, HeapMapped, StateFacts DEF Accepts, StringEnd
    <3>2. CASE x >= sz
      BY <2>1, <2>3, <3>2, StackMapped, StateFacts DEF Accepts, StringEnd
    <3>. QED BY <2>1, <3>1, <3>2, StateFacts
  <2>. QED BY <2>2, <2>3
<1>. QED BY <1>1, LayoutInvariance, PTL
=============================================================================

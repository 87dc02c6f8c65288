---------------------------- MODULE LockedStore ----------------------------
(* The locks of Project3/3a (spinlock.c and the futex lock of mutex.c) and the *)
(* structures they protect (counter.c, list.c, hash.c), under the threads of   *)
(* main.c.  The memory is sequentially consistent; a thread may lose the CPU   *)
(* between any two steps.  LOCK_TYPE 1, the lock of the C library, is the spin *)
(* lock here.                                                                  *)
EXTENDS Integers, FiniteSets, Sequences, SequencesExt

CONSTANTS
    Threads,      \* the threads main creates
    Keys,         \* the keys they use, natural numbers
    HashSize,     \* hash->size
    Calls,        \* how many calls a thread makes (operation)
    Nodes,        \* the nodes malloc can give, positive integers
    Kinds,        \* the locks of the build: "spin", "mutex"
    Tests,        \* the tests of main: "counter", "list", "hash"
    FirstHeads    \* what a list's memory may hold as head before it is used

NULL == 0
Wild == -1        \* an address nobody allocated

ASSUME StoreAssumption ==
    /\ HashSize \in Nat \ {0}
    /\ Calls \in Nat
    /\ Keys \subseteq Nat
    /\ Nodes \subseteq Nat \ {0} /\ IsFiniteSet(Nodes)
    /\ Kinds \subseteq {"spin", "mutex"}
    /\ Tests \subseteq {"counter", "list", "hash"}
    /\ FirstHeads \subseteq {NULL, Wild}

VARIABLES
    kind, test,   \* LOCK_TYPE, and the test that runs
    flag,         \* the lock word of every list, or of the counter (lock 0)
    head,         \* list->head
    val, next,    \* the fields of the nodes
    live,         \* the nodes that malloc has given and nobody freed
    count,        \* counter->val
    pc,           \* where a thread is in its call
    call,         \* its call: <<function, key>>
    cur, pre,     \* its locals: node (or the counter it read), and pre
    left,         \* how many calls it has still to make
    answer,       \* what its last lookup or read returned
    over          \* main: "no", "cleared" after the joins, "crashed"

vars == <<kind, test, flag, head, val, next, live, count, pc, call, cur, pre, left, answer, over>>
lists == <<head, val, next, live>>
fixed == <<kind, test>>

Slots == 0 .. HashSize - 1
ListOps == {"insert", "delete", "lookup"}
CounterOps == {"get", "increment", "decrement"}
Ops == ListOps \cup CounterOps
Places == {"idle", "test", "acquire", "futex", "asleep", "body", "walk", "store", "release", "wake"}

(* The list, and so the lock, that a call is about.                            *)
Slot(t) == IF test = "hash" THEN call[t][2] % HashSize ELSE 0

Init ==
    /\ kind \in Kinds /\ test \in Tests
    /\ flag = [b \in Slots |-> 0]
    /\ head \in [Slots -> FirstHeads]
    /\ val = [n \in Nodes |-> 0] /\ next = [n \in Nodes |-> NULL]
    /\ live = {} /\ count = 0
    /\ pc = [t \in Threads |-> "idle"]
    /\ call = [t \in Threads |-> <<"none", 0>>]
    /\ cur = [t \in Threads |-> 0] /\ pre = [t \in Threads |-> NULL]
    /\ left = [t \in Threads |-> Calls]
    /\ answer = [t \in Threads |-> 0]
    /\ over = "no"

At(t, p) == pc[t] = p /\ over = "no"
Goto(t, p) == pc' = [pc EXCEPT ![t] = p]
-----------------------------------------------------------------------------
(* A thread calls one of the functions; list_delete looks at the head first.   *)
Call(t) ==
    /\ At(t, "idle") /\ left[t] > 0
    /\ left' = [left EXCEPT ![t] = @ - 1]
    /\ \E o \in IF test = "counter" THEN CounterOps ELSE ListOps, k \in Keys :
          /\ call' = [call EXCEPT ![t] = <<o, IF test = "counter" THEN 0 ELSE k>>]
          /\ Goto(t, IF o = "delete" THEN "test" ELSE "acquire")
    /\ UNCHANGED <<fixed, flag, lists, count, cur, pre, answer, over>>

(* list_delete returns at once, without the lock, when the list is empty.      *)
DeleteTest(t) ==
    /\ At(t, "test")
    /\ Goto(t, IF head[Slot(t)] = NULL THEN "idle" ELSE "acquire")
    /\ UNCHANGED <<fixed, flag, lists, count, call, cur, pre, left, answer, over>>

(* Slip: spinlock_acquire reads the flag and sets it without xchg's atomicity.  *)
XchgNotAtomic(t) == flag[Slot(t)] = 0 \/ kind = "spin"

(* xchg(&lock->flag, 1), in the loop of spinlock_acquire or at the start of    *)
(* mutex_acquire.                                                              *)
XchgFree(t) == flag[Slot(t)] = 0
Acquire(t) ==
    /\ At(t, "acquire")
    /\ IF XchgFree(t)
       THEN flag' = [flag EXCEPT ![Slot(t)] = 1] /\ Goto(t, "body")
       ELSE kind = "mutex" /\ Goto(t, "futex") /\ UNCHANGED flag
    /\ UNCHANGED <<fixed, lists, count, call, cur, pre, left, answer, over>>

(* Slip: the wait does not compare the word with 1.                            *)
FutexSleepsAlways(t) == TRUE

(* sys_futex(FUTEX_WAIT, 1): the kernel tests the word and sleeps in one step. *)
FutexSleeps(t) == flag[Slot(t)] = 1
FutexWait(t) ==
    /\ At(t, "futex")
    /\ Goto(t, IF FutexSleeps(t) THEN "asleep" ELSE "acquire")
    /\ UNCHANGED <<fixed, flag, lists, count, call, cur, pre, left, answer, over>>

(* spinlock_release, and the xchg of mutex_release.                            *)
Freed(b) == [flag EXCEPT ![b] = 0]
Release(t) ==
    /\ At(t, "release")
    /\ flag' = Freed(Slot(t))
    /\ Goto(t, IF kind = "mutex" THEN "wake" ELSE "idle")
    /\ UNCHANGED <<fixed, lists, count, call, cur, pre, left, answer, over>>

Sleepers(b) == {t \in Threads : pc[t] = "asleep" /\ Slot(t) = b}

(* Slip: a sleeper that wakes believes it has the lock.                        *)
FutexWakeHandsOver(t) ==
    /\ At(t, "wake")
    /\ \/ Sleepers(Slot(t)) = {} /\ Goto(t, "idle")
       \/ \E s \in Sleepers(Slot(t)) : pc' = [pc EXCEPT ![t] = "idle", ![s] = "body"]
    /\ UNCHANGED <<fixed, flag, lists, count, call, cur, pre, left, answer, over>>

(* Slip: mutex_release forgets FUTEX_WAKE.                                     *)
FutexWakeNobody(t) ==
    /\ At(t, "wake") /\ Goto(t, "idle")
    /\ UNCHANGED <<fixed, flag, lists, count, call, cur, pre, left, answer, over>>

(* sys_futex(FUTEX_WAKE, 1): one sleeper on the word, if there is one, tries   *)
(* again.                                                                      *)
FutexWake(t) ==
    /\ At(t, "wake")
    /\ \/ /\ Sleepers(Slot(t)) = {}
          /\ Goto(t, "idle")
       \/ \E s \in Sleepers(Slot(t)) : pc' = [pc EXCEPT ![t] = "idle", ![s] = "acquire"]
    /\ UNCHANGED <<fixed, flag, lists, count, call, cur, pre, left, answer, over>>
-----------------------------------------------------------------------------
(* The counter: read, then, for ++ and --, write.                              *)
CounterRead(t) ==
    /\ At(t, "body") /\ call[t][1] \in CounterOps
    /\ cur' = [cur EXCEPT ![t] = count]
    /\ IF call[t][1] = "get"
       THEN answer' = [answer EXCEPT ![t] = count] /\ Goto(t, "release")
       ELSE Goto(t, "store") /\ UNCHANGED answer
    /\ UNCHANGED <<fixed, flag, lists, count, call, pre, left, over>>

CounterWrite(t) ==
    /\ At(t, "store") /\ call[t][1] \in CounterOps
    /\ count' = IF call[t][1] = "increment" THEN cur[t] + 1 ELSE cur[t] - 1
    /\ Goto(t, "release")
    /\ UNCHANGED <<fixed, flag, lists, call, cur, pre, left, answer, over>>

(* list_insert: a node from malloc (external) with its fields; then the head.  *)
Malloc(n) == n \in Nodes \ live /\ \A m \in Nodes \ live : n <= m
InsertNode(t) ==
    /\ At(t, "body") /\ call[t][1] = "insert"
    /\ \E n \in Nodes :
          /\ Malloc(n)
          /\ live' = live \cup {n}
          /\ val' = [val EXCEPT ![n] = call[t][2]]
          /\ next' = [next EXCEPT ![n] = head[Slot(t)]]
          /\ cur' = [cur EXCEPT ![t] = n]
    /\ Goto(t, "store")
    /\ UNCHANGED <<fixed, flag, head, count, call, pre, left, answer, over>>

InsertHead(t) ==
    /\ At(t, "store") /\ call[t][1] = "insert"
    /\ head' = [head EXCEPT ![Slot(t)] = cur[t]]
    /\ Goto(t, "release")
    /\ UNCHANGED <<fixed, flag, val, next, live, count, call, cur, pre, left, answer, over>>

(* list_delete and list_lookup: from the head ...                              *)
WalkStart(t) ==
    /\ At(t, "body") /\ call[t][1] \in {"delete", "lookup"}
    /\ pre' = [pre EXCEPT ![t] = NULL]
    /\ cur' = [cur EXCEPT ![t] = head[Slot(t)]]
    /\ Goto(t, "walk")
    /\ UNCHANGED <<fixed, flag, lists, count, call, left, answer, over>>

AtKey(t) == cur[t] \in Nodes /\ val[cur[t]] = call[t][2]

(* ... to the next node while the key is another one.                          *)
WalkOn(t) ==
    /\ At(t, "walk") /\ cur[t] \in Nodes /\ ~AtKey(t)
    /\ pre' = [pre EXCEPT ![t] = cur[t]]
    /\ cur' = [cur EXCEPT ![t] = next[cur[t]]]
    /\ UNCHANGED <<fixed, flag, lists, count, pc, call, left, answer, over>>

(* Reading a node at an address nobody allocated ends the program.             *)
WalkFault(t) ==
    /\ At(t, "walk") /\ cur[t] = Wild
    /\ over' = "crashed"
    /\ UNCHANGED <<fixed, flag, lists, count, pc, call, cur, pre, left, answer>>

(* Slip: list_lookup returns from its loop, as list_delete does.               *)
LookupReturns(t) ==
    /\ At(t, "walk") /\ call[t][1] = "lookup" /\ (AtKey(t) \/ cur[t] = NULL)
    /\ answer' = [answer EXCEPT ![t] = IF cur[t] # NULL THEN 1 ELSE 0]
    /\ Goto(t, "idle")
    /\ UNCHANGED <<fixed, flag, lists, count, call, cur, pre, left, over>>

LookupEnd(t) ==
    /\ At(t, "walk") /\ call[t][1] = "lookup" /\ (AtKey(t) \/ cur[t] = NULL)
    /\ answer' = [answer EXCEPT ![t] = IF cur[t] # NULL THEN 1 ELSE 0]
    /\ Goto(t, "release")
    /\ UNCHANGED <<fixed, flag, lists, count, call, cur, pre, left, over>>

(* list_delete returns from both its ends without lock_release.                *)
DeleteMiss(t) ==
    /\ At(t, "walk") /\ call[t][1] = "delete" /\ cur[t] = NULL
    /\ Goto(t, "idle")
    /\ UNCHANGED <<fixed, flag, lists, count, call, cur, pre, left, answer, over>>

(* Slip: the node is taken for the first of the list, wherever it stands.      *)
UnlinkedFirst(t) == head' = [head EXCEPT ![Slot(t)] = next[cur[t]]] /\ UNCHANGED next

Unlinked(t) ==
    IF pre[t] = NULL
    THEN /\ head' = [head EXCEPT ![Slot(t)] = next[cur[t]]]
         /\ UNCHANGED next
    ELSE /\ next' = [next EXCEPT ![pre[t]] = next[cur[t]]]
         /\ UNCHANGED head
DeleteNode(t) ==
    /\ At(t, "walk") /\ call[t][1] = "delete" /\ AtKey(t)
    /\ Unlinked(t)
    /\ live' = live \ {cur[t]}
    /\ Goto(t, "idle")
    /\ UNCHANGED <<fixed, flag, val, count, call, cur, pre, left, answer, over>>
-----------------------------------------------------------------------------
(* The nodes of a list: Step(b)[i] is what i steps from the head lead to.      *)
Step(b) ==
    LET to[i \in 0 .. Cardinality(Nodes)] ==
            IF i = 0 THEN head[b]
            ELSE IF to[i - 1] \in Nodes THEN next[to[i - 1]] ELSE to[i - 1]
    IN to
Length(b) == Cardinality({i \in 0 .. Cardinality(Nodes) - 1 : Step(b)[i] \in Nodes})
Chain(b) == [i \in 1 .. Length(b) |-> Step(b)[i - 1]]

(* main joins its threads and clears the lists: list_clear frees every node    *)
(* and leaves the head as it was.                                              *)
Finished == \A t \in Threads : pc[t] = "idle" /\ left[t] = 0
Cleared == UNION {ToSet(Chain(b)) : b \in Slots}
Clear ==
    /\ over = "no" /\ Finished
    /\ IF \E b \in Slots : Step(b)[Cardinality(Nodes)] = Wild
       THEN over' = "crashed" /\ UNCHANGED live
       ELSE over' = "cleared" /\ live' = live \ Cleared
    /\ UNCHANGED <<fixed, flag, head, val, next, count, pc, call, cur, pre, left, answer>>

Progress(t) ==
    \/ DeleteTest(t) \/ Acquire(t) \/ FutexWait(t) \/ Release(t) \/ FutexWake(t)
    \/ CounterRead(t) \/ CounterWrite(t) \/ InsertNode(t) \/ InsertHead(t)
    \/ WalkStart(t) \/ WalkOn(t) \/ WalkFault(t) \/ LookupEnd(t)
    \/ DeleteMiss(t) \/ DeleteNode(t)
Next == Clear \/ \E t \in Threads : Call(t) \/ Progress(t)

Spec == Init /\ [][Next]_vars

(* The host's scheduler runs every thread that can run.                        *)
Fairness == WF_vars(Clear) /\ \A t \in Threads : WF_vars(Call(t) \/ Progress(t))
FairSpec == Spec /\ Fairness
-----------------------------------------------------------------------------
TypeOK ==
    /\ kind \in Kinds /\ test \in Tests
    /\ flag \in [Slots -> {0, 1}]
    /\ head \in [Slots -> Nodes \cup {NULL, Wild}]
    /\ val \in [Nodes -> Keys \cup {0}]
    /\ next \in [Nodes -> Nodes \cup {NULL, Wild}]
    /\ live \subseteq Nodes
    /\ count \in Int
    /\ pc \in [Threads -> Places]
    /\ call \in [Threads -> (Ops \cup {"none"}) \X (Keys \cup {0})]
    /\ cur \in [Threads -> Int]
    /\ pre \in [Threads -> Nodes \cup {NULL}]
    /\ left \in [Threads -> 0 .. Calls]
    /\ answer \in [Threads -> Int]
    /\ over \in {"no", "cleared", "crashed"}

(* A thread between its acquire and its release, or its return.                *)
Inside(t, b) == pc[t] \in {"body", "walk", "store", "release"} /\ Slot(t) = b

(* At most one thread is between lock_acquire and lock_release of a list or    *)
(* counter, and the lock word says so.                                         *)
MutualExclusion ==
    \A b \in Slots, t \in Threads : Inside(t, b) =>
        /\ flag[b] = 1
        /\ \A s \in Threads : Inside(s, b) => s = t

(* The futex lock: while a thread sleeps on a lock word, the lock is taken, or *)
(* some thread is about to wake a sleeper or to try the lock (mutex.c).        *)
NoLostWakeup ==
    \A b \in Slots : Sleepers(b) # {} =>
        \/ flag[b] = 1
        \/ \E t \in Threads : Slot(t) = b /\ pc[t] \in {"wake", "acquire"}

(* Every node is on one list, once, or in the hands of the insert that made    *)
(* it, and everything else is free: nothing is lost, nothing is freed twice,   *)
(* and nobody walks over a freed node.                                         *)
NodesAccounted ==
    /\ TypeOK
    /\ over = "no" =>
        /\ \A b \in Slots : IsInjective(Chain(b)) /\ ToSet(Chain(b)) \subseteq live
        /\ \A b, c \in Slots : b # c => ToSet(Chain(b)) \cap ToSet(Chain(c)) = {}
        /\ live \ Cleared = {cur[t] : t \in {s \in Threads : call[s][1] = "insert" /\ pc[s] = "store"}}
        /\ \A t \in Threads : pc[t] = "walk" => cur[t] \in live \cup {NULL, Wild}

(* The lists, the hash table and the counter do what KeyStore promises: every  *)
(* call takes effect once, at one moment.                                      *)
Pending(t) == IF pc[t] \in {"idle", "release", "wake"} THEN <<"none", 0>> ELSE call[t]
Requests == [t \in Threads |-> Pending(t)]
Contents == [b \in Slots |-> IF over = "cleared" THEN <<>>
                             ELSE [i \in 1 .. Length(b) |-> val[Chain(b)[i]]]]
Abstract == INSTANCE KeyStore WITH todo <- Requests, content <- Contents, total <- count,
                                   Keys <- Keys \cup {0}
ImplementsStore == Abstract!Spec

(* A lock that is taken while no thread is between acquire and release.        *)
Abandoned(b) == flag[b] = 1 /\ \A t \in Threads : ~Inside(t, b)

(* Nothing but a return of list_delete leaves a lock taken behind it, and then *)
(* for good.                                                                   *)
OnlyDeleteAbandons ==
    [][\A b \in Slots :
          /\ Abandoned(b) => Abandoned(b)'
          /\ Abandoned(b)' /\ ~Abandoned(b) =>
                \E t \in Threads : Inside(t, b) /\ call[t][1] = "delete"]_vars

(* The threads of main end and are joined, unless a call of list_delete left a *)
(* lock taken or a list began with a wild head.                                *)
ThreadsJoin == <>[](over # "no" \/ \E b \in Slots : Abandoned(b))
=============================================================================

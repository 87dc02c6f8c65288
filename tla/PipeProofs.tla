------------------------------ MODULE PipeProofs ------------------------------
(***************************************************************************)
(* Proofs about Pipe for every size of the ring, width of the counters, set *)
(* of processes and length of the calls: the ring never overflows, is freed *)
(* after its last use, loses no wakeup, and is a stream of bytes.           *)
(***************************************************************************)
EXTENDS PipeStream, SequenceTheorems, TLAPS

(* Each end is open while someone holds it, and a call holds its end.       *)
EndInv ==
  /\ (readopen <=> rfd # {}) /\ (writeopen <=> wfd # {})
  /\ freed => rfd = {} /\ wfd = {}
  /\ \A p \in Proc : /\ pc[p] \in {"write", "wfull", "wsleep"} => p \in wfd
                     /\ pc[p] \in {"read", "rempty", "rsleep"} => p \in rfd

(* The process between its test and its sleep still sees what it tested; a  *)
(* reader asleep while the pipe has bytes is about to be woken.             *)
SleepInv ==
  /\ lock \in Proc => \/ pc[lock] = "rempty" /\ MustWait
                      \/ pc[lock] = "wfull" /\ Fill = PIPESIZE /\ readopen
  /\ \A p \in Proc :
       /\ pc[p] = "rsleep" => MustWait \/ (lock \in Proc /\ pc[lock] = "wfull")
       /\ pc[p] = "wsleep" => Fill = PIPESIZE /\ readopen
       /\ pc[p] \in {"rempty", "wfull"} => lock = p

IInv == TypeOK /\ RingBound /\ EndInv /\ (killed = {} => SleepInv)

LEMMA AddType ==
  ASSUME NEW x \in 0 .. WIDTH - 1, NEW k \in 0 .. PIPESIZE
  PROVE  Add(x, k) \in 0 .. WIDTH - 1
BY SizeAssumption DEF Add

LEMMA InitIInv == Init => IInv
<1>. SUFFICES ASSUME Init PROVE IInv
  OBVIOUS
<1>1. TypeOK
  <2>1. data \in [0 .. PIPESIZE - 1 -> Byte] /\ rfd \subseteq Proc /\ wfd \subseteq Proc
    BY DEF Init
  <2>2. nread \in 0 .. WIDTH - 1 /\ nwrite \in 0 .. WIDTH - 1
    BY SizeAssumption DEF Init
  <2>3. pc \in [Proc -> PCs] /\ left \in [Proc -> 0 .. MaxN]
    BY SizeAssumption DEF Init, PCs
  <2>. QED BY <2>1, <2>2, <2>3 DEF Init, TypeOK
<1>2. RingBound
  BY SizeAssumption DEF Init, RingBound, Fill
<1>3. EndInv
  <2>1. rfd # {} /\ wfd # {}
    BY Zenon DEF Init
  <2>. QED BY <2>1 DEF Init, EndInv
<1>4. SleepInv
  BY ProcAssumption DEF Init, SleepInv
<1>. QED BY <1>1, <1>2, <1>3, <1>4 DEF IInv

LEMMA TypeStep ==
  ASSUME TypeOK, RingBound, [Next]_vars
  PROVE  TypeOK'
<1>1. CASE \E p \in Proc, n \in 1 .. MaxN : WriteCall(p, n)
  BY <1>1, SizeAssumption, ProcAssumption
     DEF TypeOK, PCs, WriteCall, pipe
<1>2. CASE \E p \in Proc, n \in 1 .. MaxN : ReadCall(p, n)
  BY <1>2, SizeAssumption, ProcAssumption
     DEF TypeOK, PCs, ReadCall, pipe
<1>3. CASE \E p \in Proc : WriteLoop(p)
  <2>. SUFFICES ASSUME NEW p \in Proc, WriteLoop(p) PROVE TypeOK'
    BY <1>3
  <2>1. PICK k \in 0 .. left[p] :
          /\ k <= Room /\ (k = left[p] \/ k = Room)
          /\ Put(k)
          /\ left' = [left EXCEPT ![p] = @ - k]
          /\ \/ /\ k = left[p]
                /\ pc' = [WakeReaders EXCEPT ![p] = "idle"] /\ UNCHANGED lock
             \/ /\ k < left[p] /\ (~readopen \/ p \in killed)
                /\ pc' = [pc EXCEPT ![p] = "idle"] /\ UNCHANGED lock
             \/ /\ k < left[p] /\ readopen /\ p \notin killed
                /\ pc' = [pc EXCEPT ![p] = "wfull"] /\ lock' = p
    BY DEF WriteLoop
  <2>2. /\ pc[p] = "write" /\ lock = NoProc
        /\ UNCHANGED <<nread, readopen, writeopen, freed, rfd, wfd, killed, eof>>
    BY DEF WriteLoop
  <2>3. k \in 0 .. PIPESIZE
    BY <2>1, SizeAssumption DEF TypeOK, RingBound, Room, Fill
  <2>4. nwrite' \in 0 .. WIDTH - 1
    BY <2>1, <2>3, AddType DEF TypeOK, Put
  <2>5. left' \in [Proc -> 0 .. MaxN]
    BY <2>1, SizeAssumption DEF TypeOK
  <2>6. pc' \in [Proc -> PCs] /\ lock' \in Proc \cup {NoProc}
    BY <2>1 DEF TypeOK, PCs, WakeReaders
  <2>7. data' \in [0 .. PIPESIZE - 1 -> Byte]
    BY <2>1 DEF Put
  <2>. QED BY <2>2, <2>4, <2>5, <2>6, <2>7 DEF TypeOK
<1>4. CASE \E p \in Proc : WriteSleep(p)
  BY <1>4, SizeAssumption, ProcAssumption
     DEF TypeOK, PCs, WriteSleep, WakeReaders, pipe
<1>5. CASE \E p \in Proc : ReadLoop(p)
  <2>. SUFFICES ASSUME NEW p \in Proc, ReadLoop(p) PROVE TypeOK'
    BY <1>5
  <2>1. (IF left[p] < Fill THEN left[p] ELSE Fill) \in 0 .. PIPESIZE
    BY SizeAssumption DEF TypeOK, RingBound, Fill
  <2>2. nread' \in 0 .. WIDTH - 1
    BY <2>1, AddType DEF TypeOK, ReadLoop
  <2>3. pc' \in [Proc -> PCs] /\ lock' \in Proc \cup {NoProc} /\ eof' \subseteq Proc
    BY DEF TypeOK, ReadLoop, WakeWriters, PCs
  <2>. QED BY <2>2, <2>3 DEF TypeOK, ReadLoop
<1>6. CASE \E p \in Proc : ReadSleep(p)
  BY <1>6, SizeAssumption, ProcAssumption
     DEF TypeOK, PCs, ReadSleep, pipe
<1>7. CASE \E p \in Proc : CloseWrite(p)
  BY <1>7, SizeAssumption, ProcAssumption
     DEF TypeOK, PCs, CloseWrite, WakeReaders, Unused, pipe
<1>8. CASE \E p \in Proc : CloseRead(p)
  BY <1>8, SizeAssumption, ProcAssumption
     DEF TypeOK, PCs, CloseRead, WakeWriters, Unused, pipe
<1>9. CASE \E p \in Proc : Kill(p)
  BY <1>9, SizeAssumption, ProcAssumption
     DEF TypeOK, PCs, Kill, pipe
<1>10. CASE UNCHANGED vars
  BY <1>10 DEF TypeOK, PCs, vars, pipe
<1>. QED
  BY <1>1, <1>2, <1>3, <1>4, <1>5, <1>6, <1>7, <1>8, <1>9, <1>10 DEF Next

LEMMA RingStep ==
  ASSUME TypeOK, RingBound, [Next]_vars
  PROVE  RingBound'
<1>1. CASE \E p \in Proc, n \in 1 .. MaxN : WriteCall(p, n)
  BY <1>1, SizeAssumption
     DEF TypeOK, RingBound, Fill, Add, WriteCall, pipe
<1>2. CASE \E p \in Proc, n \in 1 .. MaxN : ReadCall(p, n)
  BY <1>2, SizeAssumption
     DEF TypeOK, RingBound, Fill, Add, ReadCall, pipe
<1>3. CASE \E p \in Proc : WriteLoop(p)
  BY <1>3, SizeAssumption
     DEF TypeOK, RingBound, Fill, Add, WriteLoop, Put, Room, WakeReaders, pipe
<1>4. CASE \E p \in Proc : WriteSleep(p)
  BY <1>4, SizeAssumption
     DEF TypeOK, RingBound, Fill, Add, WriteSleep, WakeReaders, pipe
<1>5. CASE \E p \in Proc : ReadLoop(p)
  <2>. SUFFICES ASSUME NEW p \in Proc, ReadLoop(p) PROVE RingBound'
    BY <1>5
  <2>1. CASE MustWait
    BY <2>1 DEF ReadLoop, RingBound, Fill
  <2>2. CASE ~MustWait
    <3>1. PICK k \in 0 .. PIPESIZE : k <= Fill /\ nread' = Add(nread, k)
      BY <2>2, SizeAssumption DEF TypeOK, RingBound, Fill, ReadLoop
    <3>2. nwrite' = nwrite
      BY DEF ReadLoop
    <3>. QED BY <3>1, <3>2, SizeAssumption DEF TypeOK, RingBound, Fill, Add
  <2>. QED BY <2>1, <2>2
<1>6. CASE \E p \in Proc : ReadSleep(p)
  BY <1>6, SizeAssumption
     DEF TypeOK, RingBound, Fill, Add, ReadSleep, pipe
<1>7. CASE \E p \in Proc : CloseWrite(p)
  BY <1>7, SizeAssumption
     DEF TypeOK, RingBound, Fill, Add, CloseWrite, WakeReaders, Unused, pipe
<1>8. CASE \E p \in Proc : CloseRead(p)
  BY <1>8, SizeAssumption
     DEF TypeOK, RingBound, Fill, Add, CloseRead, WakeWriters, Unused, pipe
<1>9. CASE \E p \in Proc : Kill(p)
  BY <1>9, SizeAssumption
     DEF TypeOK, RingBound, Fill, Add, Kill, pipe
<1>10. CASE UNCHANGED vars
  BY <1>10 DEF TypeOK, RingBound, Fill, Add, vars, pipe
<1>. QED
  BY <1>1, <1>2, <1>3, <1>4, <1>5, <1>6, <1>7, <1>8, <1>9, <1>10 DEF Next

LEMMA EndStep ==
  ASSUME TypeOK, EndInv, [Next]_vars
  PROVE  EndInv'
<1>1. CASE \E p \in Proc, n \in 1 .. MaxN : WriteCall(p, n)
  BY <1>1, ProcAssumption
     DEF TypeOK, EndInv, WriteCall, pipe
<1>2. CASE \E p \in Proc, n \in 1 .. MaxN : ReadCall(p, n)
  BY <1>2, ProcAssumption
     DEF TypeOK, EndInv, ReadCall, pipe
<1>3. CASE \E p \in Proc : WriteLoop(p)
  <2>. SUFFICES ASSUME NEW p \in Proc, WriteLoop(p) PROVE EndInv'
    BY <1>3
  <2>1. PICK k \in 0 .. left[p] :
          /\ k <= Room /\ (k = left[p] \/ k = Room)
          /\ Put(k)
          /\ left' = [left EXCEPT ![p] = @ - k]
          /\ \/ /\ k = left[p]
                /\ pc' = [WakeReaders EXCEPT ![p] = "idle"] /\ UNCHANGED lock
             \/ /\ k < left[p] /\ (~readopen \/ p \in killed)
                /\ pc' = [pc EXCEPT ![p] = "idle"] /\ UNCHANGED lock
             \/ /\ k < left[p] /\ readopen /\ p \notin killed
                /\ pc' = [pc EXCEPT ![p] = "wfull"] /\ lock' = p
    BY DEF WriteLoop
  <2>2. /\ pc[p] = "write" /\ lock = NoProc
        /\ UNCHANGED <<nread, readopen, writeopen, freed, rfd, wfd, killed, eof>>
    BY DEF WriteLoop
  <2>. QED BY <2>1, <2>2 DEF TypeOK, EndInv, WakeReaders
<1>4. CASE \E p \in Proc : WriteSleep(p)
  BY <1>4, ProcAssumption
     DEF TypeOK, EndInv, WriteSleep, WakeReaders, pipe
<1>5. CASE \E p \in Proc : ReadLoop(p)
  <2>. SUFFICES ASSUME NEW p \in Proc, ReadLoop(p) PROVE EndInv'
    BY <1>5
  <2>1. \A q \in Proc : pc'[q] # "idle" /\ pc'[q] # pc[q] =>
          \/ pc[q] = "wsleep" /\ pc'[q] = "write"
          \/ pc[q] = "read" /\ pc'[q] = "rempty"
    BY DEF TypeOK, ReadLoop, WakeWriters
  <2>. QED BY <2>1 DEF EndInv, ReadLoop
<1>6. CASE \E p \in Proc : ReadSleep(p)
  BY <1>6, ProcAssumption
     DEF TypeOK, EndInv, ReadSleep, pipe
<1>7. CASE \E p \in Proc : CloseWrite(p)
  BY <1>7, ProcAssumption
     DEF TypeOK, EndInv, CloseWrite, WakeReaders, Unused, pipe
<1>8. CASE \E p \in Proc : CloseRead(p)
  BY <1>8, ProcAssumption
     DEF TypeOK, EndInv, CloseRead, WakeWriters, Unused, pipe
<1>9. CASE \E p \in Proc : Kill(p)
  BY <1>9, ProcAssumption
     DEF TypeOK, EndInv, Kill, pipe
<1>10. CASE UNCHANGED vars
  BY <1>10 DEF TypeOK, EndInv, vars, pipe
<1>. QED
  BY <1>1, <1>2, <1>3, <1>4, <1>5, <1>6, <1>7, <1>8, <1>9, <1>10 DEF Next

LEMMA SleepStep ==
  ASSUME TypeOK, RingBound, EndInv, SleepInv, killed = {}, killed' = {}, [Next]_vars
  PROVE  SleepInv'
<1>1. CASE \E p \in Proc, n \in 1 .. MaxN : WriteCall(p, n)
  BY <1>1, SizeAssumption, ProcAssumption
     DEF TypeOK, RingBound, EndInv, SleepInv, Fill, Add, MustWait, WriteCall, pipe
<1>2. CASE \E p \in Proc, n \in 1 .. MaxN : ReadCall(p, n)
  BY <1>2, SizeAssumption, ProcAssumption
     DEF TypeOK, RingBound, EndInv, SleepInv, Fill, Add, MustWait, ReadCall, pipe
<1>3. CASE \E p \in Proc : WriteLoop(p)
  <2>. SUFFICES ASSUME NEW p \in Proc, WriteLoop(p) PROVE SleepInv'
    BY <1>3
  <2>1. PICK k \in 0 .. left[p] :
          /\ k <= Room /\ (k = left[p] \/ k = Room)
          /\ Put(k)
          /\ left' = [left EXCEPT ![p] = @ - k]
          /\ \/ /\ k = left[p]
                /\ pc' = [WakeReaders EXCEPT ![p] = "idle"] /\ UNCHANGED lock
             \/ /\ k < left[p] /\ (~readopen \/ p \in killed)
                /\ pc' = [pc EXCEPT ![p] = "idle"] /\ UNCHANGED lock
             \/ /\ k < left[p] /\ readopen /\ p \notin killed
                /\ pc' = [pc EXCEPT ![p] = "wfull"] /\ lock' = p
    BY DEF WriteLoop
  <2>2. /\ pc[p] = "write" /\ lock = NoProc
        /\ UNCHANGED <<nread, readopen, writeopen, freed, rfd, wfd, killed, eof>>
    BY DEF WriteLoop
  <2>3. CASE k = left[p]
    <3>1. lock' = NoProc /\ pc' = [WakeReaders EXCEPT ![p] = "idle"]
      BY <2>1, <2>2, <2>3, SizeAssumption DEF TypeOK
    <3>2. \A q \in Proc : pc'[q] # "rsleep"
      BY <3>1 DEF TypeOK, WakeReaders
    <3>3. \A q \in Proc : pc[q] = "wsleep" => k = 0
      BY <2>1, SizeAssumption DEF TypeOK, SleepInv, Room, Fill
    <3>4. k = 0 => Fill' = Fill
      BY <2>1, <2>2, SizeAssumption DEF TypeOK, Put, Add, Fill
    <3>5. \A q \in Proc : pc'[q] \in {"wsleep", "rempty", "wfull"} => pc'[q] = pc[q]
      BY <3>1 DEF TypeOK, WakeReaders
    <3>. QED BY <2>2, <3>1, <3>2, <3>3, <3>4, <3>5, ProcAssumption DEF SleepInv
  <2>4. CASE k < left[p]
    <3>1. k = Room /\ k \in 0 .. PIPESIZE
      BY <2>1, <2>4, SizeAssumption DEF TypeOK, RingBound, Room, Fill
    <3>2. Fill' = PIPESIZE
      BY <2>1, <2>2, <3>1, SizeAssumption DEF TypeOK, RingBound, Put, Add, Room, Fill
    <3>3. CASE ~readopen
      <4>1. \A q \in Proc : pc[q] \notin {"rsleep", "wsleep"}
        BY <3>3 DEF EndInv, SleepInv
      <4>2. pc' = [pc EXCEPT ![p] = "idle"] /\ lock' = NoProc
        BY <2>1, <2>2, <2>4, <3>3, SizeAssumption DEF TypeOK
      <4>. QED BY <2>2, <4>1, <4>2, ProcAssumption DEF TypeOK, SleepInv
    <3>4. CASE readopen
      <4>1. pc' = [pc EXCEPT ![p] = "wfull"] /\ lock' = p
        BY <2>1, <2>2, <2>4, <3>4, SizeAssumption DEF TypeOK
      <4>. QED BY <2>2, <3>2, <3>4, <4>1, ProcAssumption DEF TypeOK, SleepInv
    <3>. QED BY <3>3, <3>4
  <2>. QED BY <2>1, <2>3, <2>4, SizeAssumption DEF TypeOK
<1>4. CASE \E p \in Proc : WriteSleep(p)
  BY <1>4, SizeAssumption, ProcAssumption
     DEF TypeOK, RingBound, EndInv, SleepInv, Fill, Add, MustWait, WriteSleep, WakeReaders, pipe
<1>5. CASE \E p \in Proc : ReadLoop(p)
  <2>. SUFFICES ASSUME NEW p \in Proc, ReadLoop(p) PROVE SleepInv'
    BY <1>5
  <2>1. CASE MustWait
    <3>1. /\ pc' = [pc EXCEPT ![p] = "rempty"] /\ lock' = p
          /\ UNCHANGED <<nread, nwrite, readopen, writeopen>>
      BY <2>1 DEF ReadLoop, TypeOK
    <3>2. MustWait' /\ Fill' = Fill /\ Fill # PIPESIZE
      BY <2>1, <3>1, SizeAssumption DEF MustWait, Fill, TypeOK
    <3>. QED BY <3>1, <3>2, ProcAssumption DEF TypeOK, SleepInv, ReadLoop
  <2>2. CASE ~MustWait
    <3>1. /\ pc' = [WakeWriters EXCEPT ![p] = "idle"] /\ lock' = NoProc
      BY <2>2 DEF ReadLoop
    <3>2. \A q \in Proc : pc[q] # "rsleep"
      BY <2>2, ProcAssumption DEF ReadLoop, SleepInv
    <3>3. \A q \in Proc : pc'[q] \notin {"rsleep", "wsleep", "rempty", "wfull"}
      BY <3>1, <3>2, ProcAssumption DEF TypeOK, WakeWriters, SleepInv, ReadLoop
    <3>. QED BY <3>1, <3>3, ProcAssumption DEF SleepInv
  <2>. QED BY <2>1, <2>2
<1>6. CASE \E p \in Proc : ReadSleep(p)
  BY <1>6, SizeAssumption, ProcAssumption
     DEF TypeOK, RingBound, EndInv, SleepInv, Fill, Add, MustWait, ReadSleep, pipe
<1>7. CASE \E p \in Proc : CloseWrite(p)
  BY <1>7, SizeAssumption, ProcAssumption
     DEF TypeOK, RingBound, EndInv, SleepInv, Fill, Add, MustWait, CloseWrite, WakeReaders, Unused, pipe
<1>8. CASE \E p \in Proc : CloseRead(p)
  BY <1>8, SizeAssumption, ProcAssumption
     DEF TypeOK, RingBound, EndInv, SleepInv, Fill, Add, MustWait, CloseRead, WakeWriters, Unused, pipe
<1>9. CASE \E p \in Proc : Kill(p)
  BY <1>9, SizeAssumption, ProcAssumption
     DEF TypeOK, RingBound, EndInv, SleepInv, Fill, Add, MustWait, Kill, pipe
<1>10. CASE UNCHANGED vars
  BY <1>10 DEF TypeOK, RingBound, EndInv, SleepInv, Fill, Add, MustWait, vars, pipe
<1>. QED
  BY <1>1, <1>2, <1>3, <1>4, <1>5, <1>6, <1>7, <1>8, <1>9, <1>10 DEF Next

(* The ring never overflows, for every size and width (pipewrite, DOC:      *)
(* pipewrite-full), kill or no kill.                                        *)
THEOREM RingCorrect == Spec => [](TypeOK /\ RingBound)
<1>1. Init => TypeOK /\ RingBound
  BY InitIInv DEF IInv
<1>2. TypeOK /\ RingBound /\ [Next]_vars => (TypeOK /\ RingBound)'
  BY TypeStep, RingStep
<1>. QED BY <1>1, <1>2, PTL DEF Spec

(* pipeclose frees the pipe only when no call is in it.                     *)
THEOREM FreeCorrect == Spec => []FreedUnused
<1>1. Init => TypeOK /\ RingBound /\ EndInv
  BY InitIInv DEF IInv
<1>2. TypeOK /\ RingBound /\ EndInv /\ [Next]_vars => (TypeOK /\ RingBound /\ EndInv)'
  BY TypeStep, RingStep, EndStep
<1>3. TypeOK /\ RingBound /\ EndInv => FreedUnused
  BY DEF TypeOK, EndInv, FreedUnused, PCs
<1>. QED BY <1>1, <1>2, <1>3, PTL DEF Spec

(* Until kill hits a process of the pipe, no wakeup is lost: no reader or   *)
(* writer sleeps past the change it waits for (pipewrite, piperead, sleep). *)
THEOREM WakeupCorrect == Spec => []NoLostWakeup
<1>1. Init => IInv
  BY InitIInv
<1>2. IInv /\ [Next]_vars => IInv'
  <2>. SUFFICES ASSUME IInv, [Next]_vars PROVE IInv'
    OBVIOUS
  <2>1. (TypeOK /\ RingBound /\ EndInv)'
    BY TypeStep, RingStep, EndStep DEF IInv
  <2>2. killed' = {} => killed = {}
    BY DEF Next, vars, WriteCall, ReadCall, WriteLoop, WriteSleep, ReadLoop,
           ReadSleep, CloseWrite, CloseRead, Kill
  <2>3. killed' = {} => SleepInv'
    BY <2>2, SleepStep DEF IInv
  <2>. QED BY <2>1, <2>3 DEF IInv
<1>3. IInv => NoLostWakeup
  BY ProcAssumption DEF IInv, SleepInv, NoLostWakeup
<1>. QED BY <1>1, <1>2, <1>3, PTL DEF Spec
-----------------------------------------------------------------------------
(* The ring as a stream of bytes.  Division by the size of the ring: two    *)
(* numbers in one slot that are less than a turn apart are the same.        *)
LEMMA DivMod ==
  ASSUME NEW a \in Nat, NEW P \in Nat \ {0}
  PROVE  a % P \in 0 .. P - 1 /\ a \div P \in Int /\ a = (P * (a \div P)) + (a % P)
<1>1. a % P \in 0 .. P - 1
  OBVIOUS
<1>2. a = (P * (a \div P)) + (a % P)
  OBVIOUS
<1>3. a \div P \in Int
  OBVIOUS
<1>. QED BY <1>1, <1>2, <1>3

LEMMA Multiple ==
  ASSUME NEW P \in Nat \ {0}, NEW q \in Int, NEW d \in Nat, d < P, d = P * q
  PROVE  d = 0
<1>1. CASE q = 0
  BY <1>1
<1>2. CASE q > 0
  <2>1. P * q >= P
    BY <1>2
  <2>. QED BY <2>1
<1>3. CASE q < 0
  <2>1. P * q < 0
    BY <1>3
  <2>. QED BY <2>1
<1>. QED BY <1>1, <1>2, <1>3

LEMMA SameSlot ==
  ASSUME NEW P \in Nat \ {0}, NEW a \in Nat, NEW b \in Nat, NEW d \in Nat, d < P,
         NEW m \in Int, b = a + d + (P * m), a % P = b % P
  PROVE  d = 0
<1>1. PICK i \in Int, x \in Int : a % P = x /\ a = (P * i) + x
  <2>1. a % P \in Int /\ a \div P \in Int /\ a = (P * (a \div P)) + (a % P)
    BY DivMod
  <2>. QED BY <2>1
<1>2. PICK j \in Int : b = (P * j) + x
  BY <1>1, DivMod
<1>3. d = (P * j) - (P * i) - (P * m)
  <2>1. P * i \in Int /\ P * j \in Int /\ P * m \in Int
    OBVIOUS
  <2>. QED BY <1>1, <1>2, <2>1
<1>4. (P * j) - (P * i) - (P * m) = P * (j - i - m)
  OBVIOUS
<1>5. j - i - m \in Int
  OBVIOUS
<1>. QED BY <1>3, <1>4, <1>5, Multiple

Counter == 0 .. WIDTH - 1
Slot(x, k) == Add(x, k) % PIPESIZE

LEMMA SlotType ==
  ASSUME NEW x \in Counter, NEW k \in 0 .. PIPESIZE
  PROVE  Slot(x, k) \in 0 .. PIPESIZE - 1
<1>1. Add(x, k) \in Nat
  BY AddType, SizeAssumption DEF Counter
<1>. QED BY <1>1, DivMod, SizeAssumption DEF Slot

(* The counters wrap at a multiple of PIPESIZE, so a turn of the ring has   *)
(* no slot twice.                                                           *)
LEMMA SlotApart ==
  ASSUME NEW x \in Counter, NEW j \in 0 .. PIPESIZE - 1, NEW k \in 0 .. PIPESIZE - 1,
         Slot(x, j) = Slot(x, k)
  PROVE  j = k
<1>1. ASSUME NEW i \in 0 .. PIPESIZE - 1, NEW l \in 0 .. PIPESIZE - 1, i <= l,
             Slot(x, i) = Slot(x, l)
      PROVE  i = l
  <2>1. PICK a \in Nat : a = Add(x, i)
    BY AddType, SizeAssumption DEF Counter
  <2>2. PICK b \in Nat : b = Add(x, l)
    BY AddType, SizeAssumption DEF Counter
  <2>3. PICK d \in Nat : d = l - i /\ d < PIPESIZE
    BY <1>1, SizeAssumption
  <2>4. PICK turns \in Int : WIDTH = PIPESIZE * turns
    <3>1. WIDTH \div PIPESIZE \in Int
          /\ WIDTH = (PIPESIZE * (WIDTH \div PIPESIZE)) + (WIDTH % PIPESIZE)
      BY DivMod, SizeAssumption
    <3>2. WIDTH = PIPESIZE * (WIDTH \div PIPESIZE)
      BY <3>1, SizeAssumption
    <3>. QED BY <3>1, <3>2
  <2>5. b = a + d \/ b = a + d - WIDTH
    BY <2>1, <2>2, <2>3, SizeAssumption DEF Add, Counter
  <2>6. PICK m \in Int : b = a + d + (PIPESIZE * m)
    <3>1. PIPESIZE * 0 = 0 /\ PIPESIZE * (0 - turns) = 0 - WIDTH /\ 0 - turns \in Int
      BY <2>4, SizeAssumption
    <3>2. CASE b = a + d
      BY <3>1, <3>2
    <3>3. CASE b = a + d - WIDTH
      <4>1. b = a + d + (PIPESIZE * (0 - turns))
        BY <3>1, <3>3, SizeAssumption
      <4>. QED BY <3>1, <4>1
    <3>. QED BY <2>5, <3>2, <3>3
  <2>7. a % PIPESIZE = b % PIPESIZE
    BY <1>1, <2>1, <2>2 DEF Slot
  <2>8. PIPESIZE \in Nat \ {0}
    BY SizeAssumption
  <2>9. d = 0
    BY <2>3, <2>6, <2>7, <2>8, SameSlot, Zenon
  <2>. QED BY <2>3, <2>9
<1>2. j <= k \/ k <= j
  BY SizeAssumption
<1>. QED BY <1>1, <1>2

LEMMA AddAdd ==
  ASSUME NEW x \in Counter, NEW j \in 0 .. PIPESIZE, NEW k \in 0 .. PIPESIZE,
         j + k <= PIPESIZE
  PROVE  Add(Add(x, j), k) = Add(x, j + k)
BY SizeAssumption DEF Add, Counter

(* The stream has Fill bytes, the k-th in the k-th slot from nread.         *)
IsStream ==
  /\ ringBytes \in Seq(Byte) /\ Len(ringBytes) = Fill /\ Fill \in 0 .. PIPESIZE
  /\ \A k \in 1 .. Fill : ringBytes[k] = data[Slot(nread, k - 1)]
  /\ nwrite = Add(nread, Fill) /\ nread \in Counter /\ nwrite \in Counter
  /\ Fill = 0 <=> nread = nwrite

LEMMA RingBytes ==
  ASSUME TypeOK, RingBound
  PROVE  IsStream
<1>1. /\ Fill \in 0 .. PIPESIZE /\ nread \in Counter /\ nwrite \in Counter
      /\ nwrite = Add(nread, Fill) /\ (Fill = 0 <=> nread = nwrite)
  BY SizeAssumption DEF TypeOK, RingBound, Fill, Add, Counter
<1>2. ringBytes = [k \in 1 .. Fill |-> data[Slot(nread, k - 1)]]
  BY DEF ringBytes, Slot
<1>3. ASSUME NEW k \in 1 .. Fill PROVE data[Slot(nread, k - 1)] \in Byte
  <2>1. k - 1 \in 0 .. PIPESIZE
    BY <1>1, SizeAssumption
  <2>. QED BY <1>1, <2>1, SlotType DEF TypeOK
<1>4. ringBytes \in [1 .. Fill -> Byte]
  BY <1>2, <1>3
<1>5. ringBytes \in Seq(Byte) /\ Len(ringBytes) = Fill
  <2>1. Fill \in Nat
    BY <1>1, SizeAssumption
  <2>. QED BY <1>4, <2>1
<1>. QED BY <1>1, <1>2, <1>5 DEF IsStream

LEMMA RingBytesNext == (TypeOK /\ RingBound => IsStream)'
<1>1. TypeOK /\ RingBound => IsStream
  BY RingBytes
<1>. QED BY <1>1, PTL

LEMMA Joined ==
  ASSUME NEW S, NEW s \in Seq(S), NEW t \in Seq(S), NEW u \in Seq(S),
         Len(u) = Len(s) + Len(t),
         \A i \in 1 .. Len(s) : u[i] = s[i],
         \A i \in 1 .. Len(t) : u[Len(s) + i] = t[i]
  PROVE  u = s \o t
<1>1. s \o t \in Seq(S) /\ Len(s \o t) = Len(s) + Len(t)
  OBVIOUS
<1>2. ASSUME NEW i \in 1 .. Len(u) PROVE u[i] = (s \o t)[i]
  <2>1. CASE i <= Len(s)
    BY <2>1
  <2>2. CASE i > Len(s)
    <3>1. i - Len(s) \in 1 .. Len(t) /\ i = Len(s) + (i - Len(s))
      BY <2>2
    <3>. QED BY <2>2, <3>1
  <2>. QED BY <2>1, <2>2
<1>. QED BY <1>1, <1>2, SeqEqual

LEMMA Rest ==
  ASSUME NEW S, NEW s \in Seq(S), NEW u \in Seq(S), NEW k \in 0 .. Len(s),
         Len(u) = Len(s) - k, \A i \in 1 .. Len(u) : u[i] = s[k + i]
  PROVE  u = SubSeq(s, k + 1, Len(s))
<1>1. /\ SubSeq(s, k + 1, Len(s)) \in Seq(S)
      /\ Len(SubSeq(s, k + 1, Len(s))) = Len(s) - k
      /\ \A i \in 1 .. Len(s) - k : SubSeq(s, k + 1, Len(s))[i] = s[k + i]
  OBVIOUS
<1>. QED BY <1>1, SeqEqual

(* pipewrite appends the bytes it puts, and leaves those that are there.    *)
LEMMA PutAppends ==
  ASSUME TypeOK, RingBound, TypeOK', RingBound', NEW k \in Nat, k <= Room, Put(k),
         nread' = nread
  PROVE  \/ k = 0 /\ ringBytes' = ringBytes
         \/ /\ k \in 1 .. PIPESIZE - Len(ringBytes)
            /\ \E s \in [1 .. k -> Byte] : ringBytes' = ringBytes \o s
<1>1. /\ Fill' = Fill + k /\ Fill \in 0 .. PIPESIZE /\ k \in 0 .. PIPESIZE /\ Fill + k <= PIPESIZE
      /\ nread \in Counter /\ nwrite = Add(nread, Fill)
  <2>1. Fill' = Fill + k /\ Fill \in 0 .. PIPESIZE /\ k \in 0 .. PIPESIZE /\ Fill + k <= PIPESIZE
    BY SizeAssumption DEF TypeOK, RingBound, Put, Add, Room, Fill
  <2>. QED BY <2>1, RingBytes DEF IsStream
<1>2. ASSUME NEW i \in 1 .. Fill PROVE data'[Slot(nread, i - 1)] = data[Slot(nread, i - 1)]
  <2>1. Slot(nread, i - 1) \notin Written(k)
    <3>. SUFFICES ASSUME NEW j \in 0 .. k - 1, Slot(nread, i - 1) = Add(nwrite, j) % PIPESIZE
                  PROVE  FALSE
      BY DEF Written
    <3>1. Add(nwrite, j) = Add(nread, Fill + j)
      BY <1>1, AddAdd, SizeAssumption
    <3>2. Fill + j \in 0 .. PIPESIZE - 1 /\ i - 1 \in 0 .. PIPESIZE - 1 /\ Fill + j # i - 1
      BY <1>1, SizeAssumption
    <3>. QED BY <1>1, <3>1, <3>2, SlotApart DEF Slot
  <2>2. Slot(nread, i - 1) \in 0 .. PIPESIZE - 1
    <3>1. i - 1 \in 0 .. PIPESIZE
      BY <1>1, SizeAssumption
    <3>. QED BY <1>1, <3>1, SlotType
  <2>. QED BY <2>1, <2>2 DEF Put
<1>3. IsStream /\ IsStream'
  BY RingBytes, RingBytesNext
<1>4. ASSUME NEW i \in 1 .. Fill PROVE ringBytes'[i] = ringBytes[i]
  <2>1. i \in 1 .. Fill + k
    BY <1>1, SizeAssumption
  <2>. QED BY <1>1, <1>2, <1>3, <2>1 DEF IsStream
<1>5. CASE k = 0
  <2>1. Len(ringBytes') = Len(ringBytes) /\ Len(ringBytes) = Fill
    BY <1>1, <1>3, <1>5 DEF IsStream
  <2>. QED BY <1>3, <1>4, <1>5, <2>1, SeqEqual DEF IsStream
<1>6. CASE k # 0
  <2>. DEFINE s == [j \in 1 .. k |-> ringBytes'[Fill + j]]
  <2>1. ASSUME NEW j \in 1 .. k PROVE ringBytes'[Fill + j] \in Byte
    <3>1. Fill + j \in 1 .. Len(ringBytes')
      BY <1>1, <1>3, SizeAssumption DEF IsStream
    <3>. QED BY <1>3, <3>1, ElementOfSeq DEF IsStream
  <2>2. s \in [1 .. k -> Byte] /\ s \in Seq(Byte) /\ Len(s) = k
    BY <2>1
  <2>3. Len(ringBytes') = Len(ringBytes) + Len(s)
    BY <1>1, <1>3, <2>2 DEF IsStream
  <2>4. \A j \in 1 .. Len(s) : ringBytes'[Len(ringBytes) + j] = s[j]
    BY <1>3, <2>2 DEF IsStream
  <2>5. \A i \in 1 .. Len(ringBytes) : ringBytes'[i] = ringBytes[i]
    BY <1>3, <1>4 DEF IsStream
  <2>. HIDE DEF s
  <2>6. ringBytes' = ringBytes \o s
    BY <1>3, <2>2, <2>3, <2>4, <2>5, Joined DEF IsStream
  <2>7. k \in 1 .. PIPESIZE - Len(ringBytes)
    BY <1>1, <1>3, <1>6, SizeAssumption DEF IsStream
  <2>. QED BY <2>2, <2>6, <2>7
<1>. QED BY <1>5, <1>6

(* piperead takes the first bytes, and the others move up.                  *)
LEMMA TakeLeaves ==
  ASSUME TypeOK, RingBound, TypeOK', RingBound', NEW k \in 0 .. Fill,
         nread' = Add(nread, k), UNCHANGED <<data, nwrite>>
  PROVE  ringBytes' = SubSeq(ringBytes, k + 1, Len(ringBytes))
<1>1. IsStream /\ IsStream'
  BY RingBytes, RingBytesNext
<1>2. Fill' = Fill - k /\ Fill \in 0 .. PIPESIZE /\ k \in 0 .. PIPESIZE
  BY SizeAssumption DEF TypeOK, RingBound, Add, Fill
<1>3. ASSUME NEW i \in 1 .. Fill - k PROVE ringBytes'[i] = ringBytes[k + i]
  <2>1. k + i \in 1 .. Fill /\ i \in 1 .. Fill' /\ i - 1 \in 0 .. PIPESIZE /\ k + (i - 1) <= PIPESIZE
        /\ k + i - 1 = k + (i - 1)
    BY <1>2, SizeAssumption
  <2>2. Slot(nread', i - 1) = Slot(nread, k + i - 1)
    BY <1>1, <1>2, <2>1, AddAdd DEF Slot, IsStream
  <2>3. ringBytes'[i] = data[Slot(nread', i - 1)]
    BY <1>1, <2>1 DEF IsStream
  <2>4. ringBytes[k + i] = data[Slot(nread, k + i - 1)]
    BY <1>1, <2>1 DEF IsStream
  <2>. QED BY <2>2, <2>3, <2>4
<1>4. Len(ringBytes) = Fill /\ Len(ringBytes') = Fill - k
  BY <1>1, <1>2 DEF IsStream
<1>. QED BY <1>1, <1>2, <1>3, <1>4, Rest DEF IsStream

LEMMA SameBytes ==
  ASSUME UNCHANGED <<data, nread, nwrite>>
  PROVE  ringBytes' = ringBytes
BY DEF ringBytes, Fill

(* Every step of the pipe is one of the byte stream.                        *)
LEMMA StreamStep ==
  ASSUME TypeOK, RingBound, EndInv, TypeOK', RingBound', [Next]_vars
  PROVE  [Stream!Next]_<<ringBytes, rfd, wfd, eof>>
<1>0. IsStream /\ IsStream'
  BY RingBytes, RingBytesNext
<1>1. ASSUME NEW p \in Proc, NEW n \in 1 .. MaxN, WriteCall(p, n) \/ ReadCall(p, n)
      PROVE  [Stream!Next]_<<ringBytes, rfd, wfd, eof>>
  <2>1. ringBytes' = ringBytes /\ UNCHANGED <<rfd, wfd>>
    BY <1>1, SameBytes DEF WriteCall, ReadCall, pipe
  <2>2. eof' = eof \/ eof' = eof \ {p}
    BY <1>1 DEF WriteCall, ReadCall
  <2>3. p \notin eof => eof \ {p} = eof
    OBVIOUS
  <2>. QED BY <2>1, <2>2, <2>3 DEF Stream!Next, Stream!Start
<1>2. ASSUME NEW p \in Proc, WriteLoop(p)
      PROVE  [Stream!Next]_<<ringBytes, rfd, wfd, eof>>
  <2>1. PICK k \in 0 .. left[p] : k <= Room /\ Put(k)
    BY <1>2 DEF WriteLoop
  <2>2. UNCHANGED <<nread, rfd, wfd, eof>> /\ wfd # {} /\ k \in Nat
    BY <1>2, SizeAssumption DEF WriteLoop, EndInv, TypeOK
  <2>3. \/ ringBytes' = ringBytes
        \/ \E l \in 1 .. PIPESIZE - Len(ringBytes) :
             \E s \in [1 .. l -> Byte] : ringBytes' = ringBytes \o s
    BY <2>1, <2>2, PutAppends
  <2>. QED BY <2>2, <2>3 DEF Stream!Next, Stream!Send
<1>3. ASSUME NEW p \in Proc, ReadLoop(p)
      PROVE  [Stream!Next]_<<ringBytes, rfd, wfd, eof>>
  <2>0. UNCHANGED <<data, nwrite, rfd, wfd>> /\ p \in rfd
    BY <1>3 DEF ReadLoop, EndInv
  <2>1. CASE MustWait
    <3>1. UNCHANGED <<data, nread, nwrite, rfd, wfd, eof>>
      BY <1>3, <2>1 DEF ReadLoop
    <3>. QED BY <3>1, SameBytes
  <2>2. CASE ~MustWait /\ Fill = 0
    <3>1. eof' = eof \cup {p} /\ nread' = nread
      BY <1>3, <2>2, SizeAssumption DEF ReadLoop, Add, TypeOK
    <3>2. wfd = {}
      BY <1>0, <2>2 DEF MustWait, EndInv, IsStream
    <3>3. ringBytes = <<>>
      BY <1>0, <2>2, EmptySeq DEF IsStream
    <3>4. ringBytes' = ringBytes
      BY <2>0, <3>1, SameBytes
    <3>. QED BY <2>0, <3>1, <3>2, <3>3, <3>4 DEF Stream!Next, Stream!SeeEnd
  <2>3. CASE ~MustWait /\ Fill # 0
    <3>1. PICK k \in 0 .. Fill : nread' = Add(nread, k)
      BY <1>0, <1>3, <2>3, SizeAssumption DEF ReadLoop, TypeOK, IsStream
    <3>2. ringBytes' = SubSeq(ringBytes, k + 1, Len(ringBytes)) /\ eof' = eof
      BY <1>3, <2>0, <2>3, <3>1, TakeLeaves DEF ReadLoop
    <3>3. CASE k = 0
      <4>1. nread' = nread
        BY <1>0, <3>1, <3>3, SizeAssumption DEF Add, IsStream, Counter
      <4>. QED BY <2>0, <3>2, <4>1, SameBytes
    <3>4. CASE k # 0
      <4>1. k \in 1 .. Len(ringBytes)
        BY <1>0, <3>4 DEF IsStream
      <4>. QED BY <2>0, <3>2, <4>1 DEF Stream!Next, Stream!Receive
    <3>. QED BY <3>3, <3>4
  <2>. QED BY <2>1, <2>2, <2>3
<1>4. ASSUME NEW p \in Proc, WriteSleep(p) \/ ReadSleep(p) \/ Kill(p)
      PROVE  [Stream!Next]_<<ringBytes, rfd, wfd, eof>>
  BY <1>4, SameBytes DEF WriteSleep, ReadSleep, Kill, pipe
<1>5. ASSUME NEW p \in Proc, CloseWrite(p) \/ CloseRead(p)
      PROVE  [Stream!Next]_<<ringBytes, rfd, wfd, eof>>
  <2>1. UNCHANGED <<data, nread, nwrite, eof>>
    BY <1>5 DEF CloseWrite, CloseRead
  <2>2. Stream!Close(p)
    BY <1>5, <2>1, SameBytes DEF CloseWrite, CloseRead, Stream!Close
  <2>. QED BY <2>2 DEF Stream!Next
<1>6. CASE UNCHANGED vars
  BY <1>6, SameBytes DEF vars, pipe
<1>. QED BY <1>1, <1>2, <1>3, <1>4, <1>5, <1>6 DEF Next

(* The pipe is a byte stream for every size of the ring, across the wrap of *)
(* its counters: the bytes come out in the order they went in, none lost or *)
(* doubled, and a read returns 0 only when the stream is empty and no       *)
(* writer is left (pipewrite, piperead, pipeclose).                         *)
THEOREM StreamRefined == Spec => ImplementsStream
<1>1. Init => TypeOK /\ RingBound /\ EndInv
  BY InitIInv DEF IInv
<1>2. TypeOK /\ RingBound /\ EndInv /\ [Next]_vars => (TypeOK /\ RingBound /\ EndInv)'
  BY TypeStep, RingStep, EndStep
<1>3. Init => Stream!Init
  <2>. SUFFICES ASSUME Init PROVE Stream!Init
    OBVIOUS
  <2>1. IsStream
    BY <1>1, RingBytes
  <2>2. ringBytes = <<>>
    BY <2>1, EmptySeq DEF IsStream, Init
  <2>. QED BY <2>2 DEF Init, Stream!Init
<1>4. (TypeOK /\ RingBound /\ EndInv) /\ (TypeOK /\ RingBound /\ EndInv)' /\ [Next]_vars
         => [Stream!Next]_<<ringBytes, rfd, wfd, eof>>
  BY StreamStep
<1>. QED BY <1>1, <1>2, <1>3, <1>4, PTL DEF Spec, ImplementsStream, Stream!Spec, Stream!vars
==============================================================================

-------------------------------- MODULE Pipe --------------------------------
(***************************************************************************)
(* A pipe of the xv6 kernel (pipe.c): a ring of PIPESIZE bytes that several *)
(* processes write and read, with the two counters, the sleeps on &nread    *)
(* and &nwrite, the closing of the ends and kill.                           *)
(*                                                                          *)
(* A stretch of code under p->lock is one step, up to the test of           *)
(* proc->killed before a sleep: kill does not take p->lock, so it can come  *)
(* between that test and the sleep, which is a step of its own.             *)
(***************************************************************************)
EXTENDS Naturals

CONSTANTS
  PIPESIZE,
  WIDTH,        \* the counters are taken modulo WIDTH: 2^32 in the code
  Proc, Byte,
  NoProc,
  MaxN,         \* bound: the most bytes of one read or write
  Killable      \* processes that kill may hit

ASSUME SizeAssumption ==
  /\ PIPESIZE \in Nat \ {0} /\ MaxN \in Nat \ {0}
  /\ WIDTH \in Nat /\ PIPESIZE < WIDTH /\ WIDTH % PIPESIZE = 0
ASSUME ProcAssumption == NoProc \notin Proc /\ Killable \subseteq Proc

VARIABLES
  data, nread, nwrite, readopen, writeopen,    \* struct pipe
  freed,      \* kfree was called on the pipe
  rfd, wfd,   \* processes that hold a reference to the read, write end
  pc, left,   \* of each process, and the bytes its call has still to move
  lock,       \* the process between its last test and its sleep
  killed,
  eof         \* processes whose last read returned 0

pipe == <<data, nread, nwrite, readopen, writeopen, freed>>
vars == <<pipe, rfd, wfd, pc, left, lock, killed, eof>>

PCs == {"idle", "write", "wfull", "wsleep", "read", "rempty", "rsleep"}

(* Unsigned arithmetic on the counters.                                     *)
Add(x, k) == IF x + k < WIDTH THEN x + k ELSE x + k - WIDTH
Fill == IF nread <= nwrite THEN nwrite - nread ELSE nwrite + WIDTH - nread

RoomOver == PIPESIZE - Fill + 1     \* slip: full at nread + PIPESIZE + 1
Room == PIPESIZE - Fill             \* 0 when nwrite == nread + PIPESIZE

Init ==
  /\ data \in [0 .. PIPESIZE - 1 -> Byte]
  /\ nread = 0 /\ nwrite = 0
  /\ readopen = TRUE /\ writeopen = TRUE /\ freed = FALSE
  /\ rfd \in (SUBSET Proc) \ {{}} /\ wfd \in (SUBSET Proc) \ {{}}
  /\ pc = [p \in Proc |-> "idle"] /\ left = [p \in Proc |-> 0]
  /\ lock = NoProc /\ killed = {} /\ eof = {}

(* wakeup of the sleepers on &nread or &nwrite: they ask for the lock.      *)
WakeNoReader == pc                 \* slip: the wakeup is missing
WakeReaders == [p \in Proc |-> IF pc[p] = "rsleep" THEN "read" ELSE pc[p]]
WakeNoWriter == pc
WakeWriters == [p \in Proc |-> IF pc[p] = "wsleep" THEN "write" ELSE pc[p]]

-----------------------------------------------------------------------------
WriteCall(p, n) ==
  /\ pc[p] = "idle" /\ p \in wfd /\ p \notin killed
  /\ pc' = [pc EXCEPT ![p] = "write"] /\ left' = [left EXCEPT ![p] = n]
  /\ UNCHANGED <<pipe, rfd, wfd, lock, killed, eof>>

(* Put k bytes, whatever they are, at nwrite % PIPESIZE and on.             *)
WrittenNext(k) == {Add(nwrite, j + 1) % PIPESIZE : j \in 0 .. k - 1}   \* slip: ++nwrite
Written(k) == {Add(nwrite, j) % PIPESIZE : j \in 0 .. k - 1}
Put(k) ==
  /\ nwrite' = Add(nwrite, k)
  /\ \E d \in [0 .. PIPESIZE - 1 -> Byte] :
       /\ \A i \in (0 .. PIPESIZE - 1) \ Written(k) : d[i] = data[i]
       /\ data' = d

(* pipewrite with the lock: put bytes until the call is done or the pipe is *)
(* full.  It gives up without a wakeup if nobody reads or it was killed.    *)
WriteLoop(p) ==
  /\ pc[p] = "write" /\ lock = NoProc
  /\ \E k \in 0 .. left[p] :
       /\ k <= Room /\ (k = left[p] \/ k = Room)
       /\ Put(k)
       /\ left' = [left EXCEPT ![p] = @ - k]
       /\ \/ /\ k = left[p]
             /\ pc' = [WakeReaders EXCEPT ![p] = "idle"] /\ UNCHANGED lock
          \/ /\ k < left[p] /\ (~readopen \/ p \in killed)
             /\ pc' = [pc EXCEPT ![p] = "idle"] /\ UNCHANGED lock
          \/ /\ k < left[p] /\ readopen /\ p \notin killed
             /\ pc' = [pc EXCEPT ![p] = "wfull"] /\ lock' = p
  /\ UNCHANGED <<nread, readopen, writeopen, freed, rfd, wfd, killed, eof>>

WriteSleep(p) ==
  /\ pc[p] = "wfull" /\ lock = p
  /\ pc' = [WakeReaders EXCEPT ![p] = "wsleep"]
  /\ lock' = NoProc
  /\ UNCHANGED <<pipe, rfd, wfd, left, killed, eof>>

-----------------------------------------------------------------------------
ReadCall(p, n) ==
  /\ pc[p] = "idle" /\ p \in rfd /\ p \notin killed
  /\ pc' = [pc EXCEPT ![p] = "read"] /\ left' = [left EXCEPT ![p] = n]
  /\ eof' = eof \ {p}
  /\ UNCHANGED <<pipe, rfd, wfd, lock, killed>>

(* When piperead waits for a writer.                                        *)
MustWait == nread = nwrite /\ writeopen

ReadLoop(p) ==
  /\ pc[p] = "read" /\ lock = NoProc
  /\ IF MustWait
     THEN /\ IF p \in killed
             THEN pc' = [pc EXCEPT ![p] = "idle"] /\ UNCHANGED lock
             ELSE pc' = [pc EXCEPT ![p] = "rempty"] /\ lock' = p
          /\ UNCHANGED <<nread, eof>>
     ELSE /\ nread' = Add(nread, IF left[p] < Fill THEN left[p] ELSE Fill)
          /\ eof' = IF Fill = 0 THEN eof \cup {p} ELSE eof
          /\ pc' = [WakeWriters EXCEPT ![p] = "idle"]
          /\ UNCHANGED lock
  /\ UNCHANGED <<data, nwrite, readopen, writeopen, freed, rfd, wfd, left, killed>>

ReadSleep(p) ==
  /\ pc[p] = "rempty" /\ lock = p
  /\ pc' = [pc EXCEPT ![p] = "rsleep"]
  /\ lock' = NoProc
  /\ UNCHANGED <<pipe, rfd, wfd, left, killed, eof>>

-----------------------------------------------------------------------------
(* fileclose on an end; its last reference calls pipeclose.                 *)
UnusedSoon(r, w) == ~r \/ ~w     \* slip: || for &&
Unused(r, w) == ~r /\ ~w

CloseWrite(p) ==
  /\ pc[p] = "idle" /\ p \in wfd /\ lock = NoProc
  /\ wfd' = wfd \ {p}
  /\ writeopen' = (wfd' # {})
  /\ pc' = IF wfd' = {} THEN WakeReaders ELSE pc
  /\ freed' = (freed \/ Unused(readopen, writeopen'))
  /\ UNCHANGED <<data, nread, nwrite, readopen, rfd, left, lock, killed, eof>>

CloseRead(p) ==
  /\ pc[p] = "idle" /\ p \in rfd /\ lock = NoProc
  /\ rfd' = rfd \ {p}
  /\ readopen' = (rfd' # {})
  /\ pc' = IF rfd' = {} THEN WakeWriters ELSE pc
  /\ freed' = (freed \/ Unused(readopen', writeopen))
  /\ UNCHANGED <<data, nread, nwrite, writeopen, wfd, left, lock, killed, eof>>

(* kill sets the flag and makes a sleeper runnable (proc.c).                *)
Kill(p) ==
  /\ p \in Killable \ killed
  /\ killed' = killed \cup {p}
  /\ pc' = [pc EXCEPT ![p] = CASE @ = "rsleep" -> "read" [] @ = "wsleep" -> "write"
                                [] OTHER -> @]
  /\ UNCHANGED <<pipe, rfd, wfd, left, lock, eof>>

Next ==
  \E p \in Proc :
    \/ \E n \in 1 .. MaxN : WriteCall(p, n) \/ ReadCall(p, n)
    \/ WriteLoop(p) \/ WriteSleep(p) \/ ReadLoop(p) \/ ReadSleep(p)
    \/ CloseWrite(p) \/ CloseRead(p) \/ Kill(p)

Spec == Init /\ [][Next]_vars

(* A process in the kernel gets the lock and goes on in the end; a killed   *)
(* one exits and so closes its ends.                                        *)
Fairness ==
  \A p \in Proc :
    /\ SF_vars(WriteLoop(p) \/ ReadLoop(p))
    /\ WF_vars(WriteSleep(p) \/ ReadSleep(p))
    /\ SF_vars(p \in killed /\ (CloseWrite(p) \/ CloseRead(p)))
FairSpec == Spec /\ Fairness

-----------------------------------------------------------------------------
TypeOK ==
  /\ data \in [0 .. PIPESIZE - 1 -> Byte]
  /\ nread \in 0 .. WIDTH - 1 /\ nwrite \in 0 .. WIDTH - 1
  /\ readopen \in BOOLEAN /\ writeopen \in BOOLEAN /\ freed \in BOOLEAN
  /\ rfd \subseteq Proc /\ wfd \subseteq Proc /\ killed \subseteq Killable /\ eof \subseteq Proc
  /\ pc \in [Proc -> PCs] /\ left \in [Proc -> 0 .. MaxN]
  /\ lock \in Proc \cup {NoProc}

(* The ring never holds more than PIPESIZE bytes, across the wraparound of  *)
(* the counters too, so no byte is overwritten before it is read.           *)
RingBound == Fill <= PIPESIZE

(* A reader asleep finds the pipe empty and open, a writer asleep finds it  *)
(* full and read by someone: whoever changes that wakes them, unless kill   *)
(* makes a writer leave early.                                              *)
NoLostWakeup ==
  killed = {} => \A p \in Proc :
    /\ pc[p] = "rsleep" /\ lock = NoProc => MustWait
    /\ pc[p] = "wsleep" /\ lock = NoProc => Fill = PIPESIZE /\ readopen

(* A reader sleeps only while the pipe is empty (DOC: pipe-empty).          *)
SleepsOnEmpty == \A p \in Proc : pc[p] = "rsleep" /\ lock = NoProc => nread = nwrite

(* pipeclose frees the pipe only when no call uses it: the ends outlive the *)
(* calls of the processes that hold them.                                   *)
FreedUnused == freed => \A p \in Proc : pc[p] = "idle" /\ p \notin rfd \cup wfd

(* A reader whose writers are gone returns, and so does a writer whose      *)
(* readers are gone.                                                        *)
EndsReturn ==
  \A p \in Proc :
    /\ (pc[p] \in {"read", "rempty", "rsleep"} /\ ~writeopen) ~> (pc[p] = "idle")
    /\ (pc[p] \in {"write", "wfull", "wsleep"} /\ ~readopen) ~> (pc[p] = "idle")

(* A process that reads alone gets what was written, unless kill intervenes.*)
Readers == {p \in Proc : pc[p] \in {"read", "rempty", "rsleep"}}
DataDelivered ==
  \A p \in Proc : (Readers = {p} /\ nread # nwrite)
                     ~> (pc[p] = "idle" \/ nread = nwrite \/ killed # {})

(* No call on a pipe waits for what cannot come any more.                   *)
CallsReturn == EndsReturn /\ DataDelivered
=============================================================================

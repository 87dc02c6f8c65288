----------------------------- MODULE BufferCache -----------------------------
(***************************************************************************)
(* The buffer cache and the IDE driver below it (bio.c, ide.c): bread,      *)
(* bwrite and brelse by concurrent processes, the request queue, the drive  *)
(* and its interrupt.                                                       *)
(*                                                                          *)
(* A critical section of bcache.lock or idelock is one step.  bget and      *)
(* iderw both sleep on the buffer; a process that brelse, the interrupt or  *)
(* kill wakes tests its condition again.  The contents of a block are the   *)
(* number of the write that made them, so that a caller's read, change and  *)
(* bwrite gives the number after the one it read.                           *)
(***************************************************************************)
EXTENDS Naturals, Sequences

CONSTANTS
  NBUF,         \* buffers
  Proc,
  Sector,
  Nested,       \* pairs <<s, t>>: bmap and itrunc read t while they hold s
  Written,      \* the sectors the callers write (never the superblock)
  MaxWrites,    \* bound: writes to one sector
  NoProc, NoSector, NoBuf, NoRequest,
  ReadErrors    \* the drive may fail a read

Buf == 1 .. NBUF

ASSUME NBufAssumption == NBUF \in Nat \ {0} /\ MaxWrites \in Nat
ASSUME SectorAssumption == Nested \subseteq Sector \X Sector /\ Written \subseteq Sector
ASSUME NullAssumption ==
  /\ NoProc \notin Proc /\ NoSector \notin Sector /\ NoBuf \notin Buf
  /\ ReadErrors \in BOOLEAN

VARIABLES
  sector, busy, valid, dirty, data,   \* the fields of struct buf
  rank,      \* place of each buffer in the LRU list, 1 after bcache.head
  queue,     \* idequeue
  drive,     \* the request the drive was given, NoRequest when it is idle
  irq,       \* the drive has finished: its interrupt is pending
  disk,      \* contents of the sectors on the drive
  pc,        \* where each process is
  want,      \* the argument of the bget it is in
  held,      \* the buffers each process has from bread, the last one first
  chan,      \* the buffer each process sleeps on, NoBuf when it is awake
  panicked

bufs == <<sector, busy, valid, dirty, data>>
ide  == <<queue, drive, irq, disk>>
procs == <<pc, want, held, chan>>
vars == <<bufs, rank, ide, procs, panicked>>

PCs == {"out", "bget", "bread", "iderw", "use"}
Value == 0 .. MaxWrites
Request == [buf : Buf, sector : Sector, write : BOOLEAN, data : Value, done : BOOLEAN]

(* binit: every buffer is inserted behind the head, so the last is first.   *)
Init ==
  /\ sector = [b \in Buf |-> NoSector]
  /\ busy = [b \in Buf |-> FALSE]
  /\ valid = [b \in Buf |-> FALSE]
  /\ dirty = [b \in Buf |-> FALSE]
  /\ data = [b \in Buf |-> 0]
  /\ rank = [b \in Buf |-> NBUF + 1 - b]
  /\ queue = <<>>
  /\ drive = NoRequest
  /\ irq = FALSE
  /\ disk = [s \in Sector |-> 0]
  /\ pc = [p \in Proc |-> "out"]
  /\ want = [p \in Proc |-> NoSector]
  /\ held = [p \in Proc |-> <<>>]
  /\ chan = [p \in Proc |-> NoBuf]
  /\ panicked = FALSE

-----------------------------------------------------------------------------
(* bget                                                                     *)

Holder(p) == held[p] # <<>>
Top(p) == Head(held[p])

(* The calls of fs.c: one buffer at a time, except that bmap and itrunc     *)
(* read a second one under the indirect block.                              *)
MayBread(p, s) ==
  IF Holder(p) THEN pc[p] = "use" /\ Tail(held[p]) = <<>> /\ <<sector[Top(p)], s>> \in Nested
               ELSE pc[p] = "out"

Cached(b, s) == sector[b] = s /\ \A c \in Buf : sector[c] = s => rank[b] <= rank[c]
Oldest(b)    == ~busy[b] /\ \A c \in Buf : ~busy[c] => rank[c] <= rank[b]

Take(p, b) ==
  /\ busy' = [busy EXCEPT ![b] = TRUE]
  /\ held' = [held EXCEPT ![p] = <<b>> \o @]
  /\ pc' = [pc EXCEPT ![p] = "bread"]
  /\ want' = [want EXCEPT ![p] = NoSector]
  /\ UNCHANGED <<dirty, data, chan, panicked>>

(* Slip: a recycled buffer keeps B_VALID.                                   *)
RecycledValid(b) == valid' = valid
(* b->flags = B_BUSY                                                        *)
Recycled(b) == valid' = [valid EXCEPT ![b] = FALSE]

(* One pass of bget's loop, which holds bcache.lock from the first test to  *)
(* the end or to the sleep.                                                 *)
BgetPass(p, s) ==
  \/ \E b \in Buf : Cached(b, s) /\ ~busy[b] /\ Take(p, b) /\ UNCHANGED <<sector, valid>>
  \/ \E b \in Buf :
       /\ Cached(b, s) /\ busy[b]
       /\ pc' = [pc EXCEPT ![p] = "bget"]
       /\ want' = [want EXCEPT ![p] = s]
       /\ chan' = [chan EXCEPT ![p] = b]
       /\ UNCHANGED <<bufs, held, panicked>>
  \/ /\ ~ \E b \in Buf : Cached(b, s)
     /\ \/ \E b \in Buf :
             /\ Oldest(b) /\ Take(p, b) /\ Recycled(b)
             /\ sector' = [sector EXCEPT ![b] = s]
        \/ /\ \A b \in Buf : busy[b]
           /\ panicked' = TRUE
           /\ UNCHANGED <<bufs, procs>>

Bget(p, s) ==
  /\ MayBread(p, s) /\ BgetPass(p, s)
  /\ UNCHANGED <<rank, ide>>

BgetAgain(p) ==
  /\ pc[p] = "bget" /\ chan[p] = NoBuf
  /\ BgetPass(p, want[p])
  /\ UNCHANGED <<rank, ide>>

-----------------------------------------------------------------------------
(* The driver                                                               *)

(* idestart: the command, and for a write the data, go to the drive.        *)
Idestart(b, wr, d) ==
  drive' = [buf |-> b, sector |-> sector[b], write |-> wr, data |-> d, done |-> FALSE]

(* iderw appends the buffer and sleeps before it lets go of idelock.        *)
Iderw(p, b, wr, d) ==
  /\ queue' = Append(queue, b)
  /\ IF queue = <<>> THEN Idestart(b, wr, d) ELSE UNCHANGED drive
  /\ pc' = [pc EXCEPT ![p] = "iderw"]
  /\ chan' = [chan EXCEPT ![p] = b]
  /\ UNCHANGED <<irq, disk>>

Bread(p) ==
  /\ pc[p] = "bread"
  /\ IF valid[Top(p)]
     THEN pc' = [pc EXCEPT ![p] = "use"] /\ UNCHANGED <<ide, chan>>
     ELSE Iderw(p, Top(p), FALSE, data[Top(p)])
  /\ UNCHANGED <<bufs, rank, want, held, panicked>>

(* The caller changes what it read and calls bwrite.                        *)
Bwrite(p) ==
  /\ pc[p] = "use" /\ sector[Top(p)] \in Written /\ data[Top(p)] < MaxWrites
  /\ data' = [data EXCEPT ![Top(p)] = @ + 1]
  /\ dirty' = [dirty EXCEPT ![Top(p)] = TRUE]
  /\ Iderw(p, Top(p), TRUE, data[Top(p)] + 1)
  /\ UNCHANGED <<sector, busy, valid, rank, want, held, panicked>>

(* Slip: `if' for `while' around the sleep of iderw.                        *)
IderwIf(p) ==
  /\ pc[p] = "iderw" /\ chan[p] = NoBuf
  /\ pc' = [pc EXCEPT ![p] = "use"]
  /\ UNCHANGED <<chan, bufs, rank, ide, want, held, panicked>>

(* The end of a sleep in iderw: test the flags again.                       *)
IderwAgain(p) ==
  /\ pc[p] = "iderw" /\ chan[p] = NoBuf
  /\ IF valid[Top(p)] /\ ~dirty[Top(p)]
     THEN pc' = [pc EXCEPT ![p] = "use"] /\ UNCHANGED chan
     ELSE chan' = [chan EXCEPT ![p] = Top(p)] /\ UNCHANGED pc
  /\ UNCHANGED <<bufs, rank, ide, want, held, panicked>>

(* External: the drive serves its command and raises the interrupt.         *)
DriveDone ==
  /\ drive # NoRequest /\ ~drive.done
  /\ irq' = TRUE
  /\ IF drive.write
     THEN /\ disk' = [disk EXCEPT ![drive.sector] = drive.data]
          /\ drive' = [drive EXCEPT !.done = TRUE]
     ELSE /\ drive' = [drive EXCEPT !.done = TRUE, !.data = disk[drive.sector]]
          /\ UNCHANGED disk
  /\ UNCHANGED <<bufs, rank, queue, procs, panicked>>

(* Slip: the queue's next request is not started.                           *)
NoNextRequest == drive' = NoRequest

Woken(b) == [p \in Proc |-> IF chan[p] = b THEN NoBuf ELSE chan[p]]

(* ideintr starts the request behind the one that is done.                  *)
NextRequest ==
  IF Tail(queue) = <<>> THEN drive' = NoRequest
  ELSE LET b == Head(Tail(queue)) IN Idestart(b, dirty[b], data[b])

(* When the drive reports an error the data is not read, and the buffer is  *)
(* valid all the same.                                                      *)
Ideintr ==
  /\ irq /\ irq' = FALSE
  /\ LET b == Head(queue)
     IN /\ \/ dirty[b] /\ UNCHANGED data
           \/ ~dirty[b] /\ data' = [data EXCEPT ![b] = drive.data]
           \/ ~dirty[b] /\ ReadErrors /\ UNCHANGED data
        /\ valid' = [valid EXCEPT ![b] = TRUE]
        /\ dirty' = [dirty EXCEPT ![b] = FALSE]
        /\ chan' = Woken(b)
  /\ queue' = Tail(queue)
  /\ NextRequest
  /\ UNCHANGED <<sector, busy, rank, disk, pc, want, held, panicked>>

-----------------------------------------------------------------------------
ToFront(b) ==
  [c \in Buf |-> IF c = b THEN 1 ELSE IF rank[c] < rank[b] THEN rank[c] + 1 ELSE rank[c]]

(* The caller gives the buffer back, and goes on with the one below it.     *)
Brelse(p) ==
  /\ pc[p] = "use"
  /\ rank' = ToFront(Top(p))
  /\ busy' = [busy EXCEPT ![Top(p)] = FALSE]
  /\ chan' = Woken(Top(p))
  /\ held' = [held EXCEPT ![p] = Tail(@)]
  /\ pc' = [pc EXCEPT ![p] = IF Tail(held[p]) = <<>> THEN "out" ELSE "use"]
  /\ UNCHANGED <<sector, valid, dirty, data, ide, want, panicked>>

(* kill makes a sleeper runnable, whatever it sleeps on.                    *)
Kill(p) ==
  /\ chan[p] # NoBuf
  /\ chan' = [chan EXCEPT ![p] = NoBuf]
  /\ UNCHANGED <<bufs, rank, ide, pc, want, held, panicked>>

Work(p) == BgetAgain(p) \/ Bread(p) \/ IderwAgain(p) \/ Brelse(p)
Next ==
  /\ ~panicked
  /\ \/ \E p \in Proc : Work(p) \/ Bwrite(p) \/ Kill(p) \/ \E s \in Sector : Bget(p, s)
     \/ DriveDone \/ Ideintr

Spec == Init /\ [][Next]_vars

(* Processes that run go on, the drive answers, its interrupt is taken.     *)
(* Strong fairness, as a kill may send a process back to its sleep again.   *)
FairSpec ==
  /\ Spec /\ WF_vars(DriveDone) /\ WF_vars(Ideintr)
  /\ \A p \in Proc : SF_vars(Bread(p)) /\ SF_vars(IderwAgain(p) /\ pc'[p] = "use")

-----------------------------------------------------------------------------
TypeOK ==
  /\ sector \in [Buf -> Sector \cup {NoSector}]
  /\ busy \in [Buf -> BOOLEAN] /\ valid \in [Buf -> BOOLEAN] /\ dirty \in [Buf -> BOOLEAN]
  /\ data \in [Buf -> Value]
  /\ rank \in [Buf -> 1 .. NBUF]
  /\ queue \in Seq(Buf)
  /\ drive \in Request \cup {NoRequest}
  /\ irq \in BOOLEAN
  /\ disk \in [Sector -> Value]
  /\ pc \in [Proc -> PCs]
  /\ want \in [Proc -> Sector \cup {NoSector}]
  /\ held \in [Proc -> Seq(Buf)]
  /\ chan \in [Proc -> Buf \cup {NoBuf}]
  /\ panicked \in BOOLEAN

Holds(p, b) == \E i \in 1 .. Len(held[p]) : held[p][i] = b

(* No sector has two buffers, so two processes never work on two copies     *)
(* (bget's scan and its recycling under one lock, and `goto loop').         *)
OneBufferPerSector == \A b, c \in Buf : sector[b] = sector[c] => b = c \/ sector[b] = NoSector

(* A caller uses what the disk holds, and a free buffer that is valid is    *)
(* clean and current, whoever takes it next.                                *)
CleanIsCurrent ==
  \A b \in Buf : valid[b] /\ ~dirty[b] => sector[b] \in Sector /\ data[b] = disk[sector[b]]

(* The drive works exactly on the head of the queue, with the command its   *)
(* flags ask for, so no request is forgotten and none served twice.         *)
DriveOnHead ==
  IF queue = <<>> THEN drive = NoRequest /\ ~irq
  ELSE LET b == Head(queue)
       IN /\ drive \in Request /\ drive.buf = b /\ drive.sector = sector[b]
          /\ drive.write = dirty[b] /\ irq = drive.done

(* bget does not run out of buffers in the instance: of NBUF, two for each  *)
(* process that can hold two, one for every other.                          *)
EnoughBuffers == ~panicked

(* The cache as a whole: one current copy of each sector, with the drive at *)
(* work on the head of the queue.                                           *)
CacheSound ==
  TypeOK /\ OneBufferPerSector /\ CleanIsCurrent /\ DriveOnHead /\ EnoughBuffers

(* A request ends, whatever other requests and kills come in between.       *)
RequestEnds == \A p \in Proc : (pc[p] = "iderw") ~> (pc[p] = "use")

(* The cache implements a store of blocks with one owner at a time.         *)
ownerOf == [s \in Sector |->
  IF \E b \in Buf : sector[b] = s /\ busy[b]
  THEN CHOOSE p \in Proc : \E b \in Buf : sector[b] = s /\ Holds(p, b)
  ELSE NoProc]
viewOf == [s \in Sector |->
  IF \E b \in Buf : sector[b] = s /\ busy[b] /\ valid[b] /\ ~dirty[b]
  THEN data[CHOOSE b \in Buf : sector[b] = s]
  ELSE NoSector]
Store == INSTANCE BlockStore WITH Block <- Sector, Owner <- Proc, NoOwner <- NoProc,
                                  Unseen <- NoSector, content <- disk,
                                  owner <- ownerOf, view <- viewOf
ImplementsStore == Store!Spec
===============================================================================

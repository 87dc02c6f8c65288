-------------------------- MODULE BufferCacheProofs --------------------------
(***************************************************************************)
(* Proofs about BufferCache for every number of buffers, processes and      *)
(* sectors: no sector has two buffers and the drive works on the head of    *)
(* the queue; when the drive fails no read, a clean buffer holds what the   *)
(* disk holds and the cache implements BlockStore; and when there are       *)
(* buffers enough bget never runs out of them.                              *)
(***************************************************************************)
EXTENDS BufferCache, SequenceTheorems, FiniteSetTheorems, TLAPS

(* A held buffer is busy, has a sector and one holder; a busy one is held.  *)
HeldInv ==
  /\ \A p \in Proc : Len(held[p]) <= 2
  /\ \A p \in Proc : \A i \in 1 .. Len(held[p]) : busy[held[p][i]]
  /\ \A p, q \in Proc : \A i \in 1 .. Len(held[p]), j \in 1 .. Len(held[q]) :
       held[p][i] = held[q][j] => p = q /\ i = j
  /\ \A b \in Buf : busy[b] => sector[b] \in Sector /\ \E p \in Proc : Holds(p, b)

(* What a process holds where it is.                                        *)
PlaceInv ==
  /\ \A p \in Proc : pc[p] = "out" => held[p] = <<>>
  /\ \A p \in Proc : pc[p] \in {"bread", "iderw", "use"} => held[p] # <<>>
  /\ \A p \in Proc : pc[p] = "bget" => want[p] \in Sector /\ Len(held[p]) <= 1

(* A buffer that iderw has nothing to do for.                               *)
Settled(b) == valid[b] /\ ~dirty[b]
Queued(b) == \E i \in 1 .. Len(queue) : queue[i] = b

(* A caller works on settled buffers, a sleeper's request is queued until   *)
(* it is settled, and only queued buffers are dirty.                        *)
FlagInv ==
  /\ \A p \in Proc : \A i \in 1 .. Len(held[p]) :
        i > 1 \/ pc[p] \in {"use", "bget"} => Settled(held[p][i])
  /\ \A p \in Proc : pc[p] = "iderw" => Settled(held[p][1]) \/ Queued(held[p][1])
  /\ \A b \in Buf : dirty[b] => Queued(b)

(* The queue holds each buffer once, for a sleeper whose request is open.   *)
QueueInv ==
  /\ \A i \in 1 .. Len(queue) :
        /\ ~Settled(queue[i])
        /\ \E p \in Proc : pc[p] = "iderw" /\ held[p][1] = queue[i]
  /\ \A i, j \in 1 .. Len(queue) : queue[i] = queue[j] => i = j

IInv == TypeOK /\ OneBufferPerSector /\ HeldInv /\ PlaceInv /\ FlagInv /\ QueueInv /\ DriveOnHead

(* What the operators on sequences do.                                      *)
LEMMA PushFacts ==
  ASSUME NEW S, NEW s \in Seq(S), NEW b \in S
  PROVE  /\ <<b>> \o s \in Seq(S) /\ Len(<<b>> \o s) = Len(s) + 1
         /\ (<<b>> \o s)[1] = b
         /\ \A i \in 1 .. Len(s) : (<<b>> \o s)[i + 1] = s[i]
         /\ \A i \in 2 .. Len(s) + 1 : (<<b>> \o s)[i] = s[i - 1]
  OBVIOUS

LEMMA TailFacts ==
  ASSUME NEW S, NEW s \in Seq(S), s # <<>>
  PROVE  /\ Head(s) = s[1] /\ s[1] \in S /\ Len(s) >= 1
         /\ Tail(s) \in Seq(S) /\ Len(Tail(s)) = Len(s) - 1
         /\ \A i \in 1 .. Len(s) - 1 : Tail(s)[i] = s[i + 1]
         /\ Tail(s) = <<>> <=> Len(s) = 1
<1>1. /\ Head(s) = s[1] /\ s[1] \in S /\ Len(s) >= 1
      /\ Tail(s) \in Seq(S) /\ Len(Tail(s)) = Len(s) - 1
      /\ \A i \in 1 .. Len(s) - 1 : Tail(s)[i] = s[i + 1]
  OBVIOUS
<1>2. Len(s) \in Nat /\ (Tail(s) = <<>> <=> Len(Tail(s)) = 0)
  BY <1>1, EmptySeq, LenProperties
<1>. QED BY <1>1, <1>2

LEMMA AppendFacts ==
  ASSUME NEW S, NEW s \in Seq(S), NEW b \in S
  PROVE  /\ Append(s, b) \in Seq(S) /\ Len(Append(s, b)) = Len(s) + 1
         /\ \A i \in 1 .. Len(s) : Append(s, b)[i] = s[i]
         /\ Append(s, b)[Len(s) + 1] = b
         /\ Head(Append(s, b)) = IF s = <<>> THEN b ELSE Head(s)
         /\ Append(s, b) # <<>>
  OBVIOUS

(* The held buffers and the queue as functions on their indices.            *)
LEMMA Shapes ==
  ASSUME TypeOK
  PROVE  /\ \A p \in Proc : /\ Len(held[p]) \in Nat
                            /\ \A i \in 1 .. Len(held[p]) : held[p][i] \in Buf
                            /\ held[p] = <<>> <=> Len(held[p]) = 0
         /\ Len(queue) \in Nat
         /\ \A i \in 1 .. Len(queue) : queue[i] \in Buf
         /\ queue = <<>> <=> Len(queue) = 0
         /\ queue # <<>> => Head(queue) = queue[1]
<1>1. queue \in Seq(Buf) /\ \A p \in Proc : held[p] \in Seq(Buf)
  BY DEF TypeOK
<1>2. ASSUME NEW s \in Seq(Buf)
      PROVE  /\ Len(s) \in Nat /\ \A i \in 1 .. Len(s) : s[i] \in Buf
             /\ s = <<>> <=> Len(s) = 0
             /\ s # <<>> => Head(s) = s[1]
  BY EmptySeq, LenProperties, ElementOfSeq
<1>. QED BY <1>1, <1>2

(* A queued buffer is busy: the sleeper that asked for it holds it.         *)
LEMMA QueuedBusy ==
  ASSUME TypeOK, HeldInv, PlaceInv, QueueInv
  PROVE  \A i \in 1 .. Len(queue) : busy[queue[i]]
<1>. SUFFICES ASSUME NEW i \in 1 .. Len(queue) PROVE busy[queue[i]]
  OBVIOUS
<1>1. PICK p \in Proc : pc[p] = "iderw" /\ held[p][1] = queue[i]
  BY DEF QueueInv
<1>2. 1 \in 1 .. Len(held[p])
  BY <1>1, Shapes DEF PlaceInv
<1>. QED BY <1>1, <1>2 DEF HeldInv

LEMMA InitIInv == Init => IInv
<1>. SUFFICES ASSUME Init PROVE IInv
  OBVIOUS
<1>1. TypeOK
  <2>1. <<>> \in Seq(Buf)
    BY EmptySeq
  <2>2. 0 \in Value /\ rank \in [Buf -> 1 .. NBUF]
    BY NBufAssumption DEF Init, Value, Buf
  <2>. QED BY <2>1, <2>2 DEF Init, TypeOK, PCs
<1>2. OneBufferPerSector /\ HeldInv /\ PlaceInv
  BY DEF Init, OneBufferPerSector, HeldInv, PlaceInv
<1>3. FlagInv /\ QueueInv /\ DriveOnHead
  BY DEF Init, FlagInv, QueueInv, DriveOnHead
<1>. QED BY <1>1, <1>2, <1>3 DEF IInv

(* A process that enters bget for a sector, at its first pass or a later    *)
(* one, holds at most one buffer, and that one is settled.                  *)
Entering(p, s) ==
  /\ s \in Sector /\ pc[p] \in {"out", "use", "bget"}
  /\ pc[p] = "out" => held[p] = <<>>
  /\ Len(held[p]) <= 1
  /\ BgetPass(p, s) /\ UNCHANGED <<rank, ide>>

LEMMA Enters ==
  ASSUME IInv, NEW p \in Proc,
         BgetAgain(p) \/ \E s \in Sector : Bget(p, s)
  PROVE  \E s \in Sector : Entering(p, s)
<1>. USE DEF IInv, TypeOK
<1>1. CASE BgetAgain(p)
  BY <1>1 DEF BgetAgain, Entering, PlaceInv
<1>2. CASE \E s \in Sector : Bget(p, s)
  <2>1. PICK s \in Sector : Bget(p, s)
    BY <1>2
  <2>2. CASE Holder(p)
    <3>1. Len(held[p]) = 1
      BY <2>1, <2>2, TailFacts DEF Bget, MayBread, Holder
    <3>. QED BY <2>1, <2>2, <3>1 DEF Bget, MayBread, Entering
  <2>3. CASE ~Holder(p)
    BY <2>1, <2>3 DEF Bget, MayBread, Entering, Holder
  <2>. QED BY <2>2, <2>3
<1>. QED BY <1>1, <1>2

(* bget takes a buffer that nobody holds for the sector.                    *)
LEMMA TakeStep ==
  ASSUME IInv, NEW p \in Proc, NEW s \in Sector, Entering(p, s), NEW b \in Buf, ~busy[b],
         Take(p, b), sector' = [sector EXCEPT ![b] = s],
         \A c \in Buf : sector[c] = s => c = b,
         valid' = [valid EXCEPT ![b] = valid'[b]], valid'[b] \in BOOLEAN
  PROVE  IInv'
<1>. USE DEF IInv
<1>1. /\ held'[p] \in Seq(Buf) /\ Len(held'[p]) = Len(held[p]) + 1
      /\ held'[p][1] = b
      /\ \A i \in 1 .. Len(held[p]) : held'[p][i + 1] = held[p][i]
      /\ \A i \in 2 .. Len(held[p]) + 1 : held'[p][i] = held[p][i - 1]
      /\ \A q \in Proc \ {p} : held'[q] = held[q]
  BY PushFacts DEF Take, TypeOK
<1>2. UNCHANGED <<dirty, data, chan, panicked, rank, queue, drive, irq, disk>>
  BY DEF Take, Entering, ide
<1>3. pc' = [pc EXCEPT ![p] = "bread"] /\ want' = [want EXCEPT ![p] = NoSector]
  BY DEF Take
<1>4. busy' = [busy EXCEPT ![b] = TRUE] /\ held' = [held EXCEPT ![p] = <<b>> \o @]
  BY DEF Take
<1>5. ~dirty[b] /\ \A i \in 1 .. Len(queue) : queue[i] # b
  BY QueuedBusy DEF FlagInv, Queued
<1>6. /\ Len(held[p]) \in {0, 1}
      /\ \A i \in 1 .. Len(held[p]) : i = 1 /\ Settled(held[p][1])
      /\ \A q \in Proc : \A i \in 1 .. Len(held[q]) : held[q][i] # b
      /\ \A c \in Buf : c # b => (Settled(c)' <=> Settled(c))
  <2>1. Len(held[p]) \in {0, 1}
    <3>1. Len(held[p]) \in Nat
      BY Shapes
    <3>2. Len(held[p]) <= 1
      BY DEF Entering
    <3>3. \A n \in Nat : n <= 1 => n \in {0, 1}
      OBVIOUS
    <3>. QED BY <3>1, <3>2, <3>3, Zenon
  <2>2. ASSUME NEW i \in 1 .. Len(held[p]) PROVE i = 1 /\ Settled(held[p][1])
    <3>1. i = 1 /\ pc[p] \in {"use", "bget"}
      BY <2>1, Shapes DEF Entering
    <3>. QED BY <3>1 DEF FlagInv
  <2>3. \A q \in Proc : \A i \in 1 .. Len(held[q]) : held[q][i] # b
    BY DEF HeldInv
  <2>4. \A c \in Buf : c # b => (Settled(c)' <=> Settled(c))
    BY <1>2 DEF Settled, TypeOK
  <2>. QED BY <2>1, <2>2, <2>3, <2>4
<1>7. TypeOK'
  <2>1. held' \in [Proc -> Seq(Buf)]
    BY <1>1, <1>4 DEF TypeOK
  <2>. QED BY <1>2, <1>3, <1>4, <2>1 DEF TypeOK, PCs
<1>8. OneBufferPerSector'
  BY DEF OneBufferPerSector, TypeOK
<1>9. HeldInv'
  <2>1. \A q \in Proc : Len(held'[q]) <= 2
    BY <1>1, <1>6 DEF HeldInv
  <2>2. \A q \in Proc : \A i \in 1 .. Len(held'[q]) : busy'[held'[q][i]]
    BY <1>1, <1>4, <1>6, Shapes DEF HeldInv, TypeOK
  <2>3. ASSUME NEW q \in Proc, NEW r \in Proc,
               NEW i \in 1 .. Len(held'[q]), NEW j \in 1 .. Len(held'[r]), held'[q][i] = held'[r][j]
        PROVE  q = r /\ i = j
    <3>1. \A o \in Proc : \A k \in 1 .. Len(held'[o]) :
             \/ o = p /\ k = 1 /\ held'[o][k] = b
             \/ o = p /\ k = 2 /\ 1 \in 1 .. Len(held[p]) /\ held'[o][k] = held[p][1]
             \/ o # p /\ k \in 1 .. Len(held[o]) /\ held'[o][k] = held[o][k]
      BY <1>1, <1>6
    <3>2. 1 \in 1 .. Len(held[p]) => held[p][1] # b
      BY <1>6
    <3>. QED BY <1>6, <2>3, <3>1, <3>2 DEF HeldInv
  <2>4. ASSUME NEW c \in Buf, busy'[c]
        PROVE  sector'[c] \in Sector /\ \E q \in Proc : Holds(q, c)'
    <3>1. CASE c = b
      <4>1. 1 \in 1 .. Len(held'[p])
        BY <1>1, <1>6
      <4>. QED BY <1>1, <3>1, <4>1 DEF Holds, TypeOK
    <3>2. CASE c # b
      <4>1. sector'[c] \in Sector
        BY <1>4, <2>4, <3>2 DEF HeldInv, TypeOK
      <4>2. PICK q \in Proc : \E i \in 1 .. Len(held[q]) : held[q][i] = c
        BY <1>4, <2>4, <3>2 DEF HeldInv, TypeOK, Holds
      <4>3. PICK i \in 1 .. Len(held[q]) : held[q][i] = c
        BY <4>2
      <4>4. CASE q = p
        <5>1. i = 1 /\ 2 \in 1 .. Len(held'[p]) /\ held'[p][2] = c
          BY <1>1, <1>6, <4>3, <4>4
        <5>. QED BY <4>1, <5>1 DEF Holds
      <4>5. CASE q # p
        BY <1>1, <4>1, <4>3, <4>5 DEF Holds
      <4>. QED BY <4>4, <4>5
    <3>. QED BY <3>1, <3>2
  <2>. QED BY <2>1, <2>2, <2>3, <2>4 DEF HeldInv
<1>10. PlaceInv'
  BY <1>1, <1>3 DEF PlaceInv, TypeOK
<1>11. FlagInv'
  <2>1. \A c \in Buf : c # b => (Settled(c)' <=> Settled(c))
    BY <1>6
  <2>2. \A c : Queued(c)' <=> Queued(c)
    BY <1>2 DEF Queued
  <2>3. ASSUME NEW q \in Proc, NEW i \in 1 .. Len(held'[q]), i > 1 \/ pc'[q] \in {"use", "bget"}
        PROVE  Settled(held[q][i])'
    <3>1. CASE q = p
      <4>1. i = 2 /\ held'[q][i] = held[q][1] /\ 1 \in 1 .. Len(held[q]) /\ Settled(held[q][1])
        BY <1>1, <1>3, <1>6, <2>3, <3>1 DEF TypeOK
      <4>. QED BY <1>6, <2>1, <4>1, <3>1, Shapes
    <3>2. CASE q # p
      <4>1. /\ held'[q] = held[q] /\ i \in 1 .. Len(held[q])
            /\ i > 1 \/ pc[q] \in {"use", "bget"}
        BY <1>1, <1>3, <2>3, <3>2 DEF TypeOK
      <4>2. Settled(held[q][i]) /\ held[q][i] \in Buf /\ held[q][i] # b
        BY <1>6, <4>1, Shapes DEF FlagInv
      <4>. QED BY <2>1, <4>1, <4>2
    <3>. QED BY <3>1, <3>2
  <2>4. ASSUME NEW q \in Proc, pc'[q] = "iderw"
        PROVE  Settled(held[q][1])' \/ Queued(held[q][1])'
    <3>1. q # p /\ pc[q] = "iderw" /\ held'[q] = held[q]
      BY <1>1, <1>3, <2>4 DEF TypeOK
    <3>2. 1 \in 1 .. Len(held[q])
      BY <3>1, Shapes DEF PlaceInv
    <3>. QED BY <1>6, <2>1, <2>2, <3>1, <3>2, Shapes DEF FlagInv
  <2>. QED BY <1>2, <2>2, <2>3, <2>4 DEF FlagInv
<1>12. QueueInv'
  <2>1. ASSUME NEW i \in 1 .. Len(queue)
        PROVE  ~Settled(queue[i])' /\ \E q \in Proc : pc'[q] = "iderw" /\ held'[q][1] = queue[i]
    <3>1. ~Settled(queue[i])'
      BY <1>2, <1>5, <1>6, Shapes DEF QueueInv
    <3>2. PICK q \in Proc : pc[q] = "iderw" /\ held[q][1] = queue[i]
      BY DEF QueueInv
    <3>3. q # p
      BY <3>2 DEF Entering
    <3>. QED BY <1>1, <1>3, <3>1, <3>2, <3>3
  <2>. QED BY <1>2, <2>1 DEF QueueInv
<1>13. DriveOnHead'
  BY <1>2, <1>5, Shapes DEF DriveOnHead
<1>. QED BY <1>7, <1>8, <1>9, <1>10, <1>11, <1>12, <1>13

(* A pass that finds the sector's buffer busy goes to sleep with what it    *)
(* holds.                                                                   *)
LEMMA SleepStep ==
  ASSUME IInv, NEW p \in Proc, NEW s \in Sector, Entering(p, s), NEW b \in Buf,
         pc' = [pc EXCEPT ![p] = "bget"], want' = [want EXCEPT ![p] = s],
         chan' = [chan EXCEPT ![p] = b], UNCHANGED <<bufs, held, panicked>>
  PROVE  IInv'
<1>. USE DEF IInv
<1>1. UNCHANGED <<sector, busy, valid, dirty, data, rank, queue, drive, irq, disk, held, panicked>>
  BY DEF Entering, bufs, ide
<1>2. TypeOK'
  BY <1>1 DEF TypeOK, PCs
<1>3. OneBufferPerSector' /\ HeldInv' /\ DriveOnHead'
  BY <1>1 DEF OneBufferPerSector, HeldInv, Holds, DriveOnHead
<1>4. PlaceInv'
  BY <1>1 DEF PlaceInv, TypeOK, Entering
<1>5. FlagInv'
  <2>1. \A c : (Settled(c)' <=> Settled(c)) /\ (Queued(c)' <=> Queued(c))
    BY <1>1 DEF Settled, Queued
  <2>2. \A i \in 1 .. Len(held[p]) : i > 1 \/ pc[p] \in {"use", "bget"}
    BY Shapes DEF Entering
  <2>. QED BY <1>1, <2>1, <2>2 DEF FlagInv, TypeOK
<1>6. QueueInv'
  BY <1>1 DEF QueueInv, Settled, TypeOK, Entering
<1>. QED BY <1>2, <1>3, <1>4, <1>5, <1>6

LEMMA BgetStep ==
  ASSUME IInv, NEW p \in Proc, NEW s \in Sector, Entering(p, s)
  PROVE  IInv'
<1>. USE DEF IInv
<1>1. ASSUME NEW b \in Buf, Cached(b, s), ~busy[b], Take(p, b), UNCHANGED <<sector, valid>>
      PROVE  IInv'
  <2>1. sector' = [sector EXCEPT ![b] = s] /\ valid' = [valid EXCEPT ![b] = valid'[b]]
        /\ valid'[b] \in BOOLEAN
    BY <1>1 DEF TypeOK, Cached
  <2>2. \A c \in Buf : sector[c] = s => c = b
    BY <1>1, NullAssumption DEF OneBufferPerSector, Cached
  <2>. QED BY <1>1, <2>1, <2>2, TakeStep
<1>2. ASSUME NEW b \in Buf, Cached(b, s), busy[b], pc' = [pc EXCEPT ![p] = "bget"],
             want' = [want EXCEPT ![p] = s], chan' = [chan EXCEPT ![p] = b],
             UNCHANGED <<bufs, held, panicked>>
      PROVE  IInv'
  BY <1>2, SleepStep
<1>3. ASSUME ~ \E b \in Buf : Cached(b, s), NEW b \in Buf, Oldest(b), Take(p, b), Recycled(b),
             sector' = [sector EXCEPT ![b] = s]
      PROVE  IInv'
  <2>1. valid' = [valid EXCEPT ![b] = valid'[b]] /\ valid'[b] \in BOOLEAN
    BY <1>3 DEF TypeOK, Recycled
  <2>2. \A c \in Buf : sector[c] # s
    <3>. SUFFICES ASSUME NEW c \in Buf, sector[c] = s PROVE FALSE
      OBVIOUS
    <3>1. \A e \in Buf : sector[e] = s => e = c
      BY NullAssumption DEF OneBufferPerSector
    <3>2. rank[c] <= rank[c]
      BY DEF TypeOK
    <3>. QED BY <1>3, <3>1, <3>2 DEF Cached
  <2>. QED BY <1>3, <2>1, <2>2, TakeStep DEF Oldest
<1>4. ASSUME panicked' = TRUE, UNCHANGED <<bufs, procs>>
      PROVE  IInv'
  <2>1. UNCHANGED <<sector, busy, valid, dirty, data, rank, queue, drive, irq, disk, pc, want, held, chan>>
    BY <1>4 DEF Entering, bufs, ide, procs
  <2>2. TypeOK'
    BY <1>4, <2>1 DEF TypeOK
  <2>3. OneBufferPerSector' /\ HeldInv' /\ DriveOnHead' /\ PlaceInv'
    BY <2>1 DEF OneBufferPerSector, HeldInv, Holds, DriveOnHead, PlaceInv
  <2>4. FlagInv' /\ QueueInv'
    BY <2>1 DEF FlagInv, QueueInv, Settled, Queued
  <2>. QED BY <2>2, <2>3, <2>4
<1>. QED BY <1>1, <1>2, <1>3, <1>4 DEF Entering, BgetPass

(* A holder hands its buffer to the driver, for a read or for a write.      *)
LEMMA RequestStep ==
  ASSUME IInv, NEW p \in Proc, pc[p] \in {"bread", "use"},
         NEW b, b = held[p][1], NEW wr \in BOOLEAN, NEW d \in Value, Iderw(p, b, wr, d),
         wr \/ ~valid[b], dirty' = [dirty EXCEPT ![b] = wr], data' \in [Buf -> Value],
         UNCHANGED <<sector, busy, valid, rank, want, held, panicked>>
  PROVE  IInv'
<1>. USE DEF IInv
<1>1. 1 \in 1 .. Len(held[p]) /\ b \in Buf
  BY Shapes DEF PlaceInv
<1>2. \A i \in 1 .. Len(queue) : queue[i] # b
  <2>. SUFFICES ASSUME NEW i \in 1 .. Len(queue), queue[i] = b PROVE FALSE
    OBVIOUS
  <2>1. PICK q \in Proc : pc[q] = "iderw" /\ held[q][1] = b
    BY DEF QueueInv
  <2>2. 1 \in 1 .. Len(held[q])
    BY <2>1, Shapes DEF PlaceInv
  <2>. QED BY <1>1, <2>1, <2>2 DEF HeldInv
<1>3. busy[b] /\ ~dirty[b] /\ sector[b] \in Sector
  BY <1>1, <1>2 DEF HeldInv, FlagInv, Queued
<1>4. /\ queue' \in Seq(Buf) /\ Len(queue') = Len(queue) + 1 /\ queue' # <<>>
      /\ \A i \in 1 .. Len(queue) : queue'[i] = queue[i]
      /\ queue'[Len(queue) + 1] = b
      /\ Head(queue') = IF queue = <<>> THEN b ELSE Head(queue)
  BY <1>1, AppendFacts DEF Iderw, TypeOK
<1>5. /\ pc' = [pc EXCEPT ![p] = "iderw"] /\ chan' = [chan EXCEPT ![p] = b]
      /\ UNCHANGED <<sector, busy, valid, rank, want, held, panicked, irq, disk>>
  BY DEF Iderw
<1>6. /\ ~(valid'[b] /\ ~dirty'[b]) /\ \A c \in Buf : c # b => (Settled(c)' <=> Settled(c)) /\ dirty'[c] = dirty[c]
      /\ dirty'[b] = wr
  BY <1>1, <1>5 DEF Settled, TypeOK
<1>7. TypeOK'
  <2>1. queue = <<>> =>
          drive' = [buf |-> b, sector |-> sector[b], write |-> wr, data |-> d, done |-> FALSE]
    BY DEF Iderw, Idestart
  <2>3. [buf |-> b, sector |-> sector[b], write |-> wr, data |-> d, done |-> FALSE] \in Request
    BY <1>1, <1>3 DEF Request
  <2>2. drive' \in Request \cup {NoRequest}
    BY <2>1, <2>3 DEF Iderw, TypeOK
  <2>. QED BY <1>1, <1>4, <1>5, <2>2 DEF TypeOK, PCs
<1>8. OneBufferPerSector' /\ HeldInv' /\ PlaceInv'
  BY <1>5 DEF OneBufferPerSector, HeldInv, Holds, PlaceInv, TypeOK
<1>9. \A c \in Buf : Queued(c)' <=> Queued(c) \/ c = b
  BY <1>4, Shapes DEF Queued
<1>10. FlagInv'
  <2>1. ASSUME NEW q \in Proc, NEW i \in 1 .. Len(held[q]), i > 1 \/ pc'[q] \in {"use", "bget"}
        PROVE  Settled(held[q][i])'
    <3>1. held[q][i] # b
      BY <1>1, <1>5, <2>1 DEF HeldInv, TypeOK
    <3>2. i > 1 \/ pc[q] \in {"use", "bget"}
      BY <1>5, <2>1 DEF TypeOK
    <3>3. Settled(held[q][i]) /\ held[q][i] \in Buf
      BY <3>2, Shapes DEF FlagInv
    <3>. QED BY <1>5, <1>6, <3>1, <3>3
  <2>2. ASSUME NEW q \in Proc, pc'[q] = "iderw"
        PROVE  Settled(held[q][1])' \/ Queued(held[q][1])'
    <3>1. CASE q = p
      BY <1>1, <1>5, <1>9, <3>1
    <3>2. CASE q # p
      <4>1. pc[q] = "iderw" /\ 1 \in 1 .. Len(held[q])
        BY <1>5, <2>2, <3>2, Shapes DEF TypeOK, PlaceInv
      <4>2. held[q][1] # b /\ held[q][1] \in Buf
        BY <1>1, <3>2, <4>1, Shapes DEF HeldInv
      <4>. QED BY <1>5, <1>6, <1>9, <4>1, <4>2 DEF FlagInv
    <3>. QED BY <3>1, <3>2
  <2>3. \A c \in Buf : dirty'[c] => Queued(c)'
    BY <1>6, <1>9 DEF FlagInv
  <2>. QED BY <1>5, <2>1, <2>2, <2>3 DEF FlagInv
<1>11. QueueInv'
  <2>1. ASSUME NEW i \in 1 .. Len(queue')
        PROVE  ~(valid'[queue'[i]] /\ ~dirty'[queue'[i]]) /\ \E q \in Proc : pc'[q] = "iderw" /\ held'[q][1] = queue'[i]
    <3>1. CASE i = Len(queue) + 1
      <4>1. queue'[i] = b
        BY <1>4, <3>1
      <4>2. pc'[p] = "iderw" /\ held'[p][1] = b
        BY <1>5 DEF TypeOK
      <4>. QED BY <1>6, <4>1, <4>2
    <3>2. CASE i # Len(queue) + 1
      <4>1. i \in 1 .. Len(queue) /\ queue'[i] = queue[i] /\ queue[i] \in Buf /\ queue[i] # b
        BY <1>2, <1>4, <3>2, Shapes
      <4>2. ~Settled(queue[i])
        BY <4>1 DEF QueueInv
      <4>3. ~(valid'[queue'[i]] /\ ~dirty'[queue'[i]])
        BY <1>5, <1>6, <4>1, <4>2 DEF Settled
      <4>4. \E q \in Proc : pc[q] = "iderw" /\ held[q][1] = queue[i]
        BY <4>1 DEF QueueInv
      <4>. QED BY <1>5, <4>1, <4>3, <4>4 DEF TypeOK
    <3>. QED BY <3>1, <3>2
  <2>2. \A i, j \in 1 .. Len(queue') : queue'[i] = queue'[j] => i = j
    BY <1>2, <1>4, Shapes DEF QueueInv
  <2>3. \A i \in 1 .. Len(queue') : ~Settled(queue[i])'
    BY <2>1 DEF Settled
  <2>. QED BY <2>1, <2>2, <2>3 DEF QueueInv
<1>12. DriveOnHead'
  <2>1. CASE queue = <<>>
    <3>1. drive' = [buf |-> b, sector |-> sector[b], write |-> wr, data |-> d, done |-> FALSE]
      BY <2>1 DEF Iderw, Idestart
    <3>2. drive' \in Request
      BY <1>1, <1>3, <3>1 DEF Request
    <3>3. /\ queue' # <<>> /\ Head(queue') = b /\ irq' = FALSE /\ sector' = sector
          /\ dirty'[b] = wr
      BY <1>4, <1>5, <1>6, <2>1 DEF DriveOnHead
    <3>. QED BY <3>1, <3>2, <3>3 DEF DriveOnHead
  <2>2. CASE queue # <<>>
    <3>1. drive' = drive /\ Head(queue) \in Buf /\ Head(queue) # b
      BY <1>2, <2>2, Shapes DEF Iderw
    <3>. QED BY <1>4, <1>5, <1>6, <2>2, <3>1 DEF DriveOnHead
  <2>. QED BY <2>1, <2>2
<1>. QED BY <1>7, <1>8, <1>10, <1>11, <1>12

LEMMA BreadStep ==
  ASSUME IInv, NEW p \in Proc, Bread(p)
  PROVE  IInv'
<1>. USE DEF IInv
<1>1. pc[p] = "bread" /\ Top(p) = held[p][1] /\ Top(p) \in Buf /\ 1 \in 1 .. Len(held[p])
  BY TailFacts, Shapes DEF Bread, PlaceInv, Top, TypeOK
<1>2. CASE valid[Top(p)]
  <2>1. /\ UNCHANGED <<bufs, queue, drive, irq, disk, rank, want, held, chan, panicked>>
        /\ pc' = [pc EXCEPT ![p] = "use"]
    BY <1>2 DEF Bread, ide
  <2>2. \A i \in 1 .. Len(queue) : queue[i] # Top(p)
    <3>. SUFFICES ASSUME NEW i \in 1 .. Len(queue), queue[i] = Top(p) PROVE FALSE
      OBVIOUS
    <3>1. PICK q \in Proc : pc[q] = "iderw" /\ held[q][1] = Top(p)
      BY DEF QueueInv
    <3>2. 1 \in 1 .. Len(held[q])
      BY <3>1, Shapes DEF PlaceInv
    <3>. QED BY <1>1, <3>1, <3>2 DEF HeldInv
  <2>3. Settled(held[p][1])
    BY <1>1, <1>2, <2>2 DEF FlagInv, Queued, Settled
  <2>4. TypeOK'
    BY <2>1 DEF TypeOK, PCs, bufs
  <2>5. /\ OneBufferPerSector' /\ HeldInv' /\ DriveOnHead'
        /\ PlaceInv'
    <3>1. OneBufferPerSector' /\ HeldInv' /\ DriveOnHead'
      BY <2>1 DEF OneBufferPerSector, HeldInv, Holds, DriveOnHead, bufs
    <3>2. held[p] # <<>>
      BY <1>1 DEF PlaceInv
    <3>. QED BY <2>1, <3>1, <3>2 DEF PlaceInv, TypeOK
  <2>6. FlagInv'
    <3>1. \A c : (Settled(c)' <=> Settled(c)) /\ (Queued(c)' <=> Queued(c))
      BY <2>1 DEF Settled, Queued, bufs
    <3>2. \A i \in 1 .. Len(held[p]) : i > 1 \/ i = 1
      BY Shapes
    <3>. QED BY <2>1, <2>3, <3>1, <3>2 DEF FlagInv, TypeOK, bufs
  <2>7. QueueInv'
    BY <1>1, <2>1 DEF QueueInv, Settled, TypeOK, bufs
  <2>. QED BY <2>4, <2>5, <2>6, <2>7
<1>3. CASE ~valid[Top(p)]
  <2>1. /\ Iderw(p, Top(p), FALSE, data[Top(p)])
        /\ UNCHANGED <<sector, busy, valid, dirty, data, rank, want, held, panicked>>
    BY <1>3 DEF Bread, bufs
  <2>2. ~dirty[Top(p)]
    <3>. SUFFICES ASSUME dirty[Top(p)] PROVE FALSE
      BY DEF TypeOK
    <3>1. PICK i \in 1 .. Len(queue) : queue[i] = Top(p)
      BY <1>1 DEF FlagInv, Queued
    <3>2. PICK q \in Proc : pc[q] = "iderw" /\ held[q][1] = Top(p)
      BY <3>1 DEF QueueInv
    <3>3. 1 \in 1 .. Len(held[q])
      BY <3>2, Shapes DEF PlaceInv
    <3>. QED BY <1>1, <3>2, <3>3 DEF HeldInv
  <2>3. dirty' = [dirty EXCEPT ![Top(p)] = FALSE]
    BY <1>1, <2>1, <2>2 DEF TypeOK
  <2>4. data[Top(p)] \in Value /\ data' \in [Buf -> Value]
    BY <1>1, <2>1 DEF TypeOK
  <2>. QED BY <1>1, <1>3, <2>1, <2>3, <2>4, RequestStep
<1>. QED BY <1>2, <1>3

LEMMA BwriteStep ==
  ASSUME IInv, NEW p \in Proc, Bwrite(p)
  PROVE  IInv'
<1>. USE DEF IInv
<1>1. pc[p] = "use" /\ Top(p) = held[p][1] /\ Top(p) \in Buf
  BY TailFacts, Shapes DEF Bwrite, PlaceInv, Top, TypeOK
<1>2. data[Top(p)] + 1 \in Value /\ data' \in [Buf -> Value]
  BY <1>1, NBufAssumption DEF Bwrite, TypeOK, Value
<1>3. /\ Iderw(p, Top(p), TRUE, data[Top(p)] + 1)
      /\ dirty' = [dirty EXCEPT ![Top(p)] = TRUE]
      /\ UNCHANGED <<sector, busy, valid, rank, want, held, panicked>>
  BY DEF Bwrite
<1>. QED BY <1>1, <1>2, <1>3, RequestStep

LEMMA IderwAgainStep ==
  ASSUME IInv, NEW p \in Proc, IderwAgain(p)
  PROVE  IInv'
<1>. USE DEF IInv
<1>1. pc[p] = "iderw" /\ Top(p) = held[p][1] /\ Top(p) \in Buf /\ 1 \in 1 .. Len(held[p])
  BY TailFacts, Shapes DEF IderwAgain, PlaceInv, Top, TypeOK
<1>2. UNCHANGED <<sector, busy, valid, dirty, data, rank, queue, drive, irq, disk, want, held, panicked>>
  BY DEF IderwAgain, bufs, ide
<1>3. CASE Settled(Top(p))
  <2>1. pc' = [pc EXCEPT ![p] = "use"] /\ chan' = chan
    BY <1>3 DEF IderwAgain, Settled
  <2>2. TypeOK'
    BY <1>2, <2>1 DEF TypeOK, PCs
  <2>3. OneBufferPerSector' /\ HeldInv' /\ DriveOnHead' /\ PlaceInv'
    <3>1. OneBufferPerSector' /\ HeldInv' /\ DriveOnHead'
      BY <1>2 DEF OneBufferPerSector, HeldInv, Holds, DriveOnHead
    <3>2. held[p] # <<>>
      BY <1>1 DEF PlaceInv
    <3>. QED BY <1>2, <2>1, <3>1, <3>2 DEF PlaceInv, TypeOK
  <2>4. FlagInv'
    <3>1. \A c : (Settled(c)' <=> Settled(c)) /\ (Queued(c)' <=> Queued(c))
      BY <1>2 DEF Settled, Queued
    <3>2. \A i \in 1 .. Len(held[p]) : i > 1 \/ i = 1
      BY Shapes
    <3>. QED BY <1>1, <1>2, <1>3, <2>1, <3>1, <3>2 DEF FlagInv, TypeOK
  <2>5. QueueInv'
    <3>1. ASSUME NEW i \in 1 .. Len(queue)
          PROVE  \E q \in Proc : pc'[q] = "iderw" /\ held[q][1] = queue[i]
      <4>1. PICK q \in Proc : pc[q] = "iderw" /\ held[q][1] = queue[i]
        BY DEF QueueInv
      <4>2. q # p
        BY <1>1, <1>3, <4>1 DEF QueueInv
      <4>. QED BY <2>1, <4>1, <4>2 DEF TypeOK
    <3>. QED BY <1>2, <3>1 DEF QueueInv, Settled
  <2>. QED BY <2>2, <2>3, <2>4, <2>5
<1>4. CASE ~Settled(Top(p))
  <2>1. chan' = [chan EXCEPT ![p] = Top(p)] /\ pc' = pc
    BY <1>4 DEF IderwAgain, Settled
  <2>2. TypeOK'
    BY <1>1, <1>2, <2>1 DEF TypeOK
  <2>3. OneBufferPerSector' /\ HeldInv' /\ DriveOnHead' /\ PlaceInv'
    BY <1>2, <2>1 DEF OneBufferPerSector, HeldInv, Holds, DriveOnHead, PlaceInv
  <2>4. FlagInv' /\ QueueInv'
    BY <1>2, <2>1 DEF FlagInv, QueueInv, Settled, Queued
  <2>. QED BY <2>2, <2>3, <2>4
<1>. QED BY <1>3, <1>4

LEMMA KillStep ==
  ASSUME IInv, NEW p \in Proc, Kill(p)
  PROVE  IInv'
<1>. USE DEF IInv
<1>1. UNCHANGED <<sector, busy, valid, dirty, data, rank, queue, drive, irq, disk, pc, want, held, panicked>>
      /\ chan' = [chan EXCEPT ![p] = NoBuf]
  BY DEF Kill, bufs, ide
<1>2. TypeOK'
  BY <1>1 DEF TypeOK
<1>3. OneBufferPerSector' /\ HeldInv' /\ DriveOnHead' /\ PlaceInv'
  BY <1>1 DEF OneBufferPerSector, HeldInv, Holds, DriveOnHead, PlaceInv
<1>4. FlagInv' /\ QueueInv'
  BY <1>1 DEF FlagInv, QueueInv, Settled, Queued
<1>. QED BY <1>2, <1>3, <1>4

LEMMA DriveDoneStep ==
  ASSUME IInv, DriveDone
  PROVE  IInv'
<1>. USE DEF IInv
<1>1. UNCHANGED <<sector, busy, valid, dirty, data, rank, queue, pc, want, held, chan, panicked>>
      /\ irq' = TRUE
  BY DEF DriveDone, bufs, procs
<1>2. queue # <<>> /\ drive \in Request
  BY DEF DriveDone, DriveOnHead, TypeOK
<1>3. /\ drive' \in Request /\ drive'.buf = drive.buf /\ drive'.sector = drive.sector
      /\ drive'.write = drive.write /\ drive'.done = TRUE
      /\ disk' \in [Sector -> Value]
  <2>1. drive.data \in Value /\ disk[drive.sector] \in Value /\ disk \in [Sector -> Value]
    BY <1>2 DEF Request, TypeOK
  <2>2. CASE drive.write
    BY <1>2, <2>1, <2>2 DEF DriveDone, Request
  <2>3. CASE ~drive.write
    BY <1>2, <2>1, <2>3 DEF DriveDone, Request
  <2>. QED BY <2>2, <2>3
<1>4. TypeOK'
  BY <1>1, <1>3 DEF TypeOK
<1>5. OneBufferPerSector' /\ HeldInv' /\ PlaceInv'
  BY <1>1 DEF OneBufferPerSector, HeldInv, Holds, PlaceInv
<1>6. FlagInv' /\ QueueInv'
  BY <1>1 DEF FlagInv, QueueInv, Settled, Queued
<1>7. DriveOnHead'
  BY <1>1, <1>2, <1>3 DEF DriveOnHead
<1>. QED BY <1>4, <1>5, <1>6, <1>7

(* idestart gives the drive a well-formed command.                          *)
Command(c) ==
  [buf |-> c, sector |-> sector[c], write |-> dirty[c], data |-> data[c], done |-> FALSE]

LEMMA CommandFacts ==
  ASSUME TypeOK, NEW c \in Buf, sector[c] \in Sector
  PROVE  /\ Command(c) \in Request
         /\ Command(c).buf = c /\ Command(c).sector = sector[c] /\ Command(c).write = dirty[c]
         /\ Command(c).data = data[c] /\ Command(c).done = FALSE
<1>. dirty[c] \in BOOLEAN /\ data[c] \in Value
  BY DEF TypeOK
<1>. QED BY DEF Command, Request

LEMMA IdeintrStep ==
  ASSUME IInv, Ideintr
  PROVE  IInv'
<1>. USE DEF IInv
<1>. DEFINE b == Head(queue)
<1>1. queue # <<>> /\ drive \in Request /\ drive.done /\ drive.buf = b
  BY DEF Ideintr, DriveOnHead
<1>2. /\ b = queue[1] /\ b \in Buf /\ Len(queue) >= 1
      /\ queue' = Tail(queue) /\ queue' \in Seq(Buf) /\ Len(queue') = Len(queue) - 1
      /\ \A i \in 1 .. Len(queue) - 1 : queue'[i] = queue[i + 1]
      /\ queue' = <<>> <=> Len(queue) = 1
  <2>1. queue \in Seq(Buf) /\ queue' = Tail(queue)
    BY DEF Ideintr, TypeOK
  <2>2. /\ Head(queue) = queue[1] /\ queue[1] \in Buf /\ Len(queue) >= 1
        /\ Tail(queue) \in Seq(Buf) /\ Len(Tail(queue)) = Len(queue) - 1
        /\ \A i \in 1 .. Len(queue) - 1 : Tail(queue)[i] = queue[i + 1]
        /\ Tail(queue) = <<>> <=> Len(queue) = 1
    BY <1>1, <2>1, TailFacts
  <2>. QED BY <2>1, <2>2
<1>3. busy[b] /\ sector[b] \in Sector
  BY <1>2, QueuedBusy DEF HeldInv
<1>4. /\ UNCHANGED <<sector, busy, rank, disk, pc, want, held, panicked>>
      /\ valid' = [valid EXCEPT ![b] = TRUE] /\ dirty' = [dirty EXCEPT ![b] = FALSE]
      /\ irq' = FALSE /\ chan' = Woken(b)
  BY DEF Ideintr
<1>5. /\ valid'[b] /\ ~dirty'[b]
      /\ \A c \in Buf : c # b => (Settled(c)' <=> Settled(c)) /\ dirty'[c] = dirty[c]
  BY <1>2, <1>4 DEF Settled, TypeOK
<1>6. \A c : Queued(c)' <=> Queued(c) /\ c # b
  <2>1. ASSUME NEW c, Queued(c)' PROVE Queued(c) /\ c # b
    <3>1. PICK i \in 1 .. Len(queue') : queue'[i] = c
      BY <2>1 DEF Queued
    <3>2. i \in 1 .. Len(queue) - 1 /\ i + 1 \in 1 .. Len(queue) /\ queue[i + 1] = c /\ i + 1 # 1
      BY <1>2, <3>1, Shapes
    <3>. QED BY <1>2, <3>2, Shapes DEF Queued, QueueInv
  <2>2. ASSUME NEW c, Queued(c), c # b PROVE Queued(c)'
    <3>1. PICK i \in 1 .. Len(queue) : queue[i] = c
      BY <2>2 DEF Queued
    <3>2. i - 1 \in 1 .. Len(queue) - 1 /\ queue'[i - 1] = c
      BY <1>2, <2>2, <3>1, Shapes
    <3>. QED BY <1>2, <3>2 DEF Queued
  <2>. QED BY <2>1, <2>2
<1>7. Len(queue) > 1 =>
        /\ Head(queue') = queue[2] /\ queue[2] \in Buf /\ queue[2] # b
        /\ sector[queue[2]] \in Sector
        /\ drive' = Command(queue[2])
  <2>. SUFFICES ASSUME Len(queue) > 1
                PROVE  /\ Head(queue') = queue[2] /\ queue[2] \in Buf /\ queue[2] # b
                       /\ sector[queue[2]] \in Sector
                       /\ drive' = Command(queue[2])
    OBVIOUS
  <2>1. 2 \in 1 .. Len(queue) /\ 1 \in 1 .. Len(queue) /\ 1 \in 1 .. Len(queue) - 1
    BY Shapes
  <2>2. queue' # <<>>
    BY <1>2
  <2>3. Head(queue') = queue[2]
    BY <1>2, <2>1, <2>2, TailFacts
  <2>4. queue[2] \in Buf /\ queue[2] # b /\ busy[queue[2]]
    BY <1>2, <2>1, Shapes, QueuedBusy DEF QueueInv
  <2>5. drive' = Command(Head(Tail(queue)))
    BY <1>2, <2>2 DEF Ideintr, NextRequest, Idestart, Command
  <2>. QED BY <1>2, <2>3, <2>4, <2>5 DEF HeldInv
<1>8. Len(queue) = 1 => drive' = NoRequest
  BY <1>2 DEF Ideintr, NextRequest
<1>9. TypeOK'
  <2>1. data' \in [Buf -> Value]
    <3>1. drive.data \in Value
      BY <1>1 DEF Request
    <3>. QED BY <3>1 DEF Ideintr, TypeOK
  <2>2. drive' \in Request \cup {NoRequest}
    <3>1. CASE Len(queue) = 1
      BY <1>8, <3>1
    <3>2. CASE Len(queue) > 1
      BY <1>7, <3>2, CommandFacts
    <3>. QED BY <1>2, <3>1, <3>2, Shapes
  <2>3. chan' \in [Proc -> Buf \cup {NoBuf}]
    BY <1>4 DEF Woken, TypeOK
  <2>. QED BY <1>2, <1>4, <2>1, <2>2, <2>3 DEF TypeOK
<1>10. OneBufferPerSector' /\ HeldInv' /\ PlaceInv'
  BY <1>4 DEF OneBufferPerSector, HeldInv, Holds, PlaceInv
<1>11. FlagInv'
  <2>1. \A q \in Proc : \A i \in 1 .. Len(held[q]) :
          i > 1 \/ pc[q] \in {"use", "bget"} => valid'[held[q][i]] /\ ~dirty'[held[q][i]]
    BY <1>5, Shapes DEF FlagInv, Settled
  <2>2. ASSUME NEW q \in Proc, pc[q] = "iderw"
        PROVE  (valid'[held[q][1]] /\ ~dirty'[held[q][1]]) \/ Queued(held[q][1])'
    <3>1. 1 \in 1 .. Len(held[q])
      BY <2>2, Shapes DEF PlaceInv
    <3>2. Settled(held[q][1]) \/ Queued(held[q][1])
      BY <2>2 DEF FlagInv
    <3>3. held[q][1] \in Buf
      BY <3>1, Shapes
    <3>4. Queued(held[q][1]) /\ held[q][1] # b => Queued(held[q][1])'
      BY <1>4, <1>6
    <3>. QED BY <1>5, <3>2, <3>3, <3>4 DEF Settled
  <2>3. \A c \in Buf : dirty'[c] => Queued(c)'
    BY <1>5, <1>6 DEF FlagInv
  <2>4. \A q \in Proc : pc'[q] = "iderw" => Settled(held[q][1])' \/ Queued(held[q][1])'
    BY <1>4, <2>2 DEF Settled
  <2>5. \A q \in Proc : \A i \in 1 .. Len(held'[q]) :
          i > 1 \/ pc'[q] \in {"use", "bget"} => Settled(held[q][i])'
    BY <1>4, <2>1 DEF Settled
  <2>. QED BY <2>3, <2>4, <2>5 DEF FlagInv
<1>12. QueueInv'
  <2>1. ASSUME NEW i \in 1 .. Len(queue')
        PROVE  /\ ~(valid'[queue'[i]] /\ ~dirty'[queue'[i]])
               /\ \E q \in Proc : pc'[q] = "iderw" /\ held'[q][1] = queue'[i]
    <3>1. i \in 1 .. Len(queue) - 1 /\ i + 1 \in 1 .. Len(queue) /\ queue'[i] = queue[i + 1]
          /\ i + 1 # 1 /\ 1 \in 1 .. Len(queue)
      BY <1>2, Shapes
    <3>2. queue[i + 1] \in Buf /\ queue[i + 1] # b
      BY <1>2, <3>1, Shapes DEF QueueInv
    <3>3. ~Settled(queue[i + 1]) /\ \E q \in Proc : pc[q] = "iderw" /\ held[q][1] = queue[i + 1]
      BY <3>1 DEF QueueInv
    <3>4. ~(valid'[queue[i + 1]] /\ ~dirty'[queue[i + 1]])
      BY <1>4, <3>2, <3>3 DEF Settled, TypeOK
    <3>. QED BY <1>4, <3>1, <3>3, <3>4
  <2>2. \A i, j \in 1 .. Len(queue') : queue'[i] = queue'[j] => i = j
    <3>. SUFFICES ASSUME NEW i \in 1 .. Len(queue'), NEW j \in 1 .. Len(queue'), queue'[i] = queue'[j]
                  PROVE  i = j
      OBVIOUS
    <3>1. /\ i + 1 \in 1 .. Len(queue) /\ queue'[i] = queue[i + 1]
          /\ j + 1 \in 1 .. Len(queue) /\ queue'[j] = queue[j + 1]
      BY <1>2, Shapes
    <3>2. i + 1 = j + 1
      BY <3>1 DEF QueueInv
    <3>. QED BY <3>2
  <2>3. \A i \in 1 .. Len(queue') : ~Settled(queue[i])'
    BY <2>1 DEF Settled
  <2>. QED BY <2>1, <2>2, <2>3 DEF QueueInv
<1>13. DriveOnHead'
  <2>1. CASE Len(queue) = 1
    BY <1>2, <1>4, <1>8, <2>1 DEF DriveOnHead
  <2>2. CASE Len(queue) > 1
    <3>1. dirty'[queue[2]] = dirty[queue[2]] /\ queue' # <<>>
      BY <1>2, <1>5, <1>7, <2>2
    <3>3. /\ drive' \in Request /\ drive'.buf = queue[2] /\ drive'.sector = sector[queue[2]]
          /\ drive'.write = dirty[queue[2]] /\ drive'.done = FALSE
      <4>1. drive' = Command(queue[2]) /\ queue[2] \in Buf /\ sector[queue[2]] \in Sector
        BY <1>7, <2>2
      <4>2. TypeOK
        OBVIOUS
      <4>. HIDE DEF IInv
      <4>. QED BY <4>1, <4>2, CommandFacts
    <3>. QED BY <1>4, <1>7, <2>2, <3>1, <3>3 DEF DriveOnHead
  <2>. QED BY <1>2, <2>1, <2>2, Shapes
<1>. QED BY <1>9, <1>10, <1>11, <1>12, <1>13

LEMMA BrelseStep ==
  ASSUME IInv, NEW p \in Proc, Brelse(p)
  PROVE  IInv'
<1>. USE DEF IInv
<1>. DEFINE b == held[p][1]
<1>1. pc[p] = "use" /\ held[p] # <<>> /\ held[p] \in Seq(Buf)
  BY DEF Brelse, PlaceInv, TypeOK
<1>2. /\ Top(p) = b /\ b \in Buf /\ Len(held[p]) >= 1
      /\ Tail(held[p]) \in Seq(Buf) /\ Len(Tail(held[p])) = Len(held[p]) - 1
      /\ \A i \in 1 .. Len(held[p]) - 1 : Tail(held[p])[i] = held[p][i + 1]
      /\ Tail(held[p]) = <<>> <=> Len(held[p]) = 1
  BY <1>1, TailFacts DEF Top
<1>3. /\ UNCHANGED <<sector, valid, dirty, data, queue, drive, irq, disk, want, panicked>>
      /\ busy' = [busy EXCEPT ![b] = FALSE] /\ chan' = Woken(b) /\ rank' = ToFront(b)
  BY <1>2 DEF Brelse, ide
<1>4. /\ held' = [held EXCEPT ![p] = Tail(held[p])]
      /\ pc' = [pc EXCEPT ![p] = IF Tail(held[p]) = <<>> THEN "out" ELSE "use"]
  BY DEF Brelse
<1>5. /\ held'[p] = Tail(held[p]) /\ \A q \in Proc \ {p} : held'[q] = held[q] /\ pc'[q] = pc[q]
      /\ pc'[p] = IF Tail(held[p]) = <<>> THEN "out" ELSE "use"
  BY <1>4 DEF TypeOK
<1>6. 1 \in 1 .. Len(held[p]) /\ Len(held[p]) \in Nat /\ Settled(b)
  BY <1>1, <1>2, Shapes DEF FlagInv
<1>7. \A q \in Proc : \A i \in 1 .. Len(held'[q]) :
         \/ q # p /\ i \in 1 .. Len(held[q]) /\ held'[q][i] = held[q][i]
         \/ q = p /\ i + 1 \in 1 .. Len(held[p]) /\ i + 1 > 1 /\ held'[q][i] = held[p][i + 1]
  <2>1. ASSUME NEW i \in 1 .. Len(held'[p])
        PROVE  i + 1 \in 1 .. Len(held[p]) /\ i + 1 > 1 /\ held'[p][i] = held[p][i + 1]
    <3>1. i \in 1 .. Len(held[p]) - 1
      BY <1>2, <1>5
    <3>2. i + 1 \in 1 .. Len(held[p]) /\ i + 1 > 1
      BY <1>6, <3>1
    <3>. QED BY <1>2, <1>5, <3>1, <3>2
  <2>. QED BY <1>5, <2>1
<1>8. TypeOK'
  <2>1. held' \in [Proc -> Seq(Buf)]
    BY <1>2, <1>4 DEF TypeOK
  <2>2. rank' \in [Buf -> 1 .. NBUF]
    <3>1. ASSUME NEW c \in Buf PROVE ToFront(b)[c] \in 1 .. NBUF
      <4>1. rank[c] \in 1 .. NBUF /\ rank[b] \in 1 .. NBUF /\ NBUF \in Nat \ {0}
        BY <1>2, NBufAssumption DEF TypeOK
      <4>. QED BY <4>1 DEF ToFront
    <3>2. ToFront(b) \in [Buf -> 1 .. NBUF]
      BY <3>1 DEF ToFront
    <3>. QED BY <1>3, <3>2
  <2>3. chan' \in [Proc -> Buf \cup {NoBuf}]
    BY <1>3 DEF Woken, TypeOK
  <2>4. busy' \in [Buf -> BOOLEAN] /\ pc' \in [Proc -> PCs]
    BY <1>3, <1>4 DEF TypeOK, PCs
  <2>. QED BY <1>3, <2>1, <2>2, <2>3, <2>4 DEF TypeOK
<1>9. OneBufferPerSector' /\ DriveOnHead'
  BY <1>3 DEF OneBufferPerSector, DriveOnHead
<1>10. HeldInv'
  <2>1. \A q \in Proc : Len(held'[q]) <= 2
    <3>1. Len(held[p]) <= 2 /\ Len(held'[p]) = Len(held[p]) - 1
      BY <1>2, <1>5 DEF HeldInv
    <3>2. Len(held'[p]) <= 2
      BY <1>6, <3>1
    <3>. QED BY <1>5, <3>2 DEF HeldInv
  <2>2. ASSUME NEW q \in Proc, NEW i \in 1 .. Len(held'[q])
        PROVE  busy'[held'[q][i]]
    <3>1. CASE q # p
      <4>1. held'[q][i] = held[q][i] /\ i \in 1 .. Len(held[q]) /\ held[q][i] \in Buf
        BY <1>7, <3>1, Shapes
      <4>2. busy[held[q][i]] /\ held[q][i] # b
        BY <1>6, <3>1, <4>1 DEF HeldInv
      <4>. QED BY <1>3, <4>1, <4>2 DEF TypeOK
    <3>2. CASE q = p
      <4>1. held'[q][i] = held[p][i + 1] /\ i + 1 \in 1 .. Len(held[p]) /\ held[p][i + 1] \in Buf
            /\ i + 1 # 1
        BY <1>7, <3>2, Shapes
      <4>2. busy[held[p][i + 1]] /\ held[p][i + 1] # b
        BY <1>6, <4>1 DEF HeldInv
      <4>. QED BY <1>3, <4>1, <4>2 DEF TypeOK
    <3>. QED BY <3>1, <3>2
  <2>3. ASSUME NEW q \in Proc, NEW r \in Proc, NEW i \in 1 .. Len(held'[q]),
               NEW j \in 1 .. Len(held'[r]), held'[q][i] = held'[r][j]
        PROVE  q = r /\ i = j
    BY <1>7, <2>3 DEF HeldInv
  <2>4. ASSUME NEW c \in Buf, busy'[c]
        PROVE  sector'[c] \in Sector /\ \E q \in Proc : Holds(q, c)'
    <3>1. c # b /\ busy[c]
      BY <1>3, <2>4 DEF TypeOK
    <3>2. PICK q \in Proc : \E i \in 1 .. Len(held[q]) : held[q][i] = c
      BY <3>1 DEF HeldInv, Holds
    <3>3. PICK i \in 1 .. Len(held[q]) : held[q][i] = c
      BY <3>2
    <3>4. \E j \in 1 .. Len(held'[q]) : held'[q][j] = c
      <4>1. CASE q = p
        <5>1. i - 1 \in 1 .. Len(held[p]) - 1 /\ Tail(held[p])[i - 1] = c
          BY <1>2, <1>6, <3>1, <3>3, <4>1
        <5>. QED BY <1>2, <1>5, <4>1, <5>1
      <4>2. CASE q # p
        BY <1>5, <3>3, <4>2
      <4>. QED BY <4>1, <4>2
    <3>. QED BY <1>3, <3>1, <3>4 DEF HeldInv, Holds
  <2>. QED BY <2>1, <2>2, <2>3, <2>4 DEF HeldInv
<1>11. PlaceInv'
  BY <1>3, <1>5 DEF PlaceInv
<1>12. FlagInv' /\ QueueInv'
  <2>1. \A c : (Settled(c)' <=> Settled(c)) /\ (Queued(c)' <=> Queued(c))
    BY <1>3 DEF Settled, Queued
  <2>2. ASSUME NEW q \in Proc, NEW i \in 1 .. Len(held'[q]), i > 1 \/ pc'[q] \in {"use", "bget"}
        PROVE  Settled(held'[q][i])
    BY <1>5, <1>7, <2>2 DEF FlagInv
  <2>3. FlagInv'
    <3>1. \A q \in Proc : pc'[q] = "iderw" => q # p /\ pc[q] = "iderw" /\ held'[q] = held[q]
      BY <1>5
    <3>2. \A q \in Proc : pc'[q] = "iderw" => Settled(held'[q][1]) \/ Queued(held'[q][1])
      BY <3>1 DEF FlagInv
    <3>. QED BY <1>3, <2>2, <3>2 DEF FlagInv, Settled, Queued
  <2>4. QueueInv'
    <3>1. \A q \in Proc : pc[q] = "iderw" => pc'[q] = "iderw" /\ held'[q] = held[q]
      BY <1>1, <1>5
    <3>2. \A i \in 1 .. Len(queue) : \E q \in Proc : pc'[q] = "iderw" /\ held'[q][1] = queue[i]
      BY <3>1 DEF QueueInv
    <3>. QED BY <1>3, <3>2 DEF QueueInv, Settled
  <2>. QED BY <2>3, <2>4
<1>. QED BY <1>8, <1>9, <1>10, <1>11, <1>12

LEMMA IInvStep == IInv /\ [Next]_vars => IInv'
<1>. SUFFICES ASSUME IInv, [Next]_vars PROVE IInv'
  OBVIOUS
<1>1. ASSUME NEW p \in Proc, BgetAgain(p) \/ \E s \in Sector : Bget(p, s) PROVE IInv'
  <2>1. PICK s \in Sector : Entering(p, s)
    BY <1>1, Enters
  <2>. QED BY <2>1, BgetStep
<1>2. ASSUME NEW p \in Proc, Bread(p) \/ Bwrite(p) PROVE IInv'
  BY <1>2, BreadStep, BwriteStep
<1>3. ASSUME NEW p \in Proc, IderwAgain(p) \/ Brelse(p) \/ Kill(p) PROVE IInv'
  BY <1>3, IderwAgainStep, BrelseStep, KillStep
<1>4. CASE DriveDone \/ Ideintr
  BY <1>4, DriveDoneStep, IdeintrStep
<1>5. CASE UNCHANGED vars
  <2>1. UNCHANGED <<sector, busy, valid, dirty, data, rank, queue, drive, irq, disk,
                    pc, want, held, chan, panicked>>
    BY <1>5 DEF vars, bufs, ide, procs
  <2>2. TypeOK'
    BY <2>1 DEF IInv, TypeOK
  <2>3. OneBufferPerSector' /\ HeldInv' /\ DriveOnHead' /\ PlaceInv'
    BY <2>1 DEF IInv, OneBufferPerSector, HeldInv, Holds, DriveOnHead, PlaceInv
  <2>4. FlagInv' /\ QueueInv'
    BY <2>1 DEF IInv, FlagInv, QueueInv, Settled, Queued
  <2>. QED BY <2>2, <2>3, <2>4 DEF IInv
<1>. QED BY <1>1, <1>2, <1>3, <1>4, <1>5 DEF Next, Work

(* What is held, busy, queued and in the drive fits together, with failing  *)
(* reads too (bget, brelse, iderw, ideintr).                                *)
THEOREM Invariance == Spec => []IInv
<1>. QED BY InitIInv, IInvStep, PTL DEF Spec

(* No sector has two buffers (bget's scan and its recycling under one       *)
(* lock), and the drive works on the head of idequeue, with the command     *)
(* that buffer asks for (iderw, idestart, ideintr).                         *)
THEOREM QueueCorrect == Spec => [](OneBufferPerSector /\ DriveOnHead)
<1>1. IInv => OneBufferPerSector /\ DriveOnHead
  BY DEF IInv
<1>. QED BY <1>1, Invariance, PTL

(* Every field keeps its type, whoever reads, writes and is killed.         *)
THEOREM TypeCorrect == Spec => []TypeOK
<1>1. IInv => TypeOK
  BY DEF IInv
<1>. QED BY <1>1, Invariance, PTL

-----------------------------------------------------------------------------
(* The contents, when the drive fails no read.                              *)

(* The buffer whose request the drive has served.                           *)
Served(b) == queue # <<>> /\ Head(queue) = b /\ drive.done

(* A dirty buffer is one write ahead of the disk until it is served, and    *)
(* the drive has the data it must write, or what it read.                   *)
WriteInv ==
  /\ \A b \in Buf : dirty[b] =>
        data[b] = IF Served(b) THEN disk[sector[b]] ELSE disk[sector[b]] + 1
  /\ queue # <<>> /\ drive.write => drive.data = data[Head(queue)]
  /\ queue # <<>> /\ drive.done /\ ~drive.write => drive.data = disk[drive.sector]

DataInv == CleanIsCurrent /\ WriteInv

LEMMA InitDataInv == Init => DataInv
  BY DEF Init, DataInv, CleanIsCurrent, WriteInv

(* A pass of bget takes a buffer, recycles one or sleeps.                   *)
LEMMA BgetData ==
  ASSUME IInv, DataInv, NEW p \in Proc, NEW s \in Sector, Entering(p, s)
  PROVE  DataInv'
<1>. USE DEF IInv
<1>1. UNCHANGED <<rank, queue, drive, irq, disk, dirty, data>>
  BY DEF Entering, BgetPass, Take, bufs, ide
<1>2. CASE UNCHANGED <<sector, valid>>
  BY <1>1, <1>2 DEF DataInv, CleanIsCurrent, WriteInv, Served
<1>3. ASSUME NEW b \in Buf, ~busy[b], Recycled(b), sector' = [sector EXCEPT ![b] = s]
      PROVE  DataInv'
  <2>1. ~dirty[b] /\ \A i \in 1 .. Len(queue) : queue[i] # b
    BY <1>3, QueuedBusy DEF FlagInv, Queued
  <2>2. CleanIsCurrent'
    BY <1>1, <1>3 DEF DataInv, CleanIsCurrent, Recycled, TypeOK
  <2>3. WriteInv'
    BY <1>1, <1>3, <2>1 DEF DataInv, WriteInv, Served, TypeOK
  <2>. QED BY <2>2, <2>3 DEF DataInv
<1>. QED BY <1>2, <1>3 DEF Entering, BgetPass, Oldest, bufs, procs

(* A request that joins the queue.                                          *)
LEMMA RequestData ==
  ASSUME IInv, DataInv, IInv', NEW p \in Proc, pc[p] \in {"bread", "use"},
         NEW b \in Buf, b = held[p][1], NEW wr \in BOOLEAN, NEW d, Iderw(p, b, wr, d),
         ~dirty[b], dirty' = [dirty EXCEPT ![b] = wr], data' = [data EXCEPT ![b] = d],
         wr => Settled(b) /\ d = data[b] + 1, ~wr => ~valid[b] /\ d = data[b],
         UNCHANGED <<sector, busy, valid, rank, want, held, panicked>>
  PROVE  DataInv'
<1>. USE DEF IInv
<1>1. UNCHANGED <<irq, disk>> /\ queue' = Append(queue, b)
  BY DEF Iderw
<1>2. queue' # <<>> /\ Head(queue') = IF queue = <<>> THEN b ELSE Head(queue)
  BY <1>1, AppendFacts DEF TypeOK
<1>3. queue # <<>> => Head(queue) \in Buf /\ Head(queue) # b /\ drive' = drive
  <2>. SUFFICES ASSUME queue # <<>> PROVE Head(queue) \in Buf /\ Head(queue) # b /\ drive' = drive
    OBVIOUS
  <2>1. 1 \in 1 .. Len(queue) /\ Head(queue) = queue[1]
    BY Shapes
  <2>2. PICK q \in Proc : pc[q] = "iderw" /\ held[q][1] = queue[1]
    BY <2>1 DEF QueueInv
  <2>3. 1 \in 1 .. Len(held[q]) /\ 1 \in 1 .. Len(held[p])
    BY <2>2, Shapes DEF PlaceInv
  <2>. QED BY <2>1, <2>2, <2>3, Shapes DEF HeldInv, Iderw
<1>4. queue = <<>> =>
        drive' = [buf |-> b, sector |-> sector[b], write |-> wr, data |-> d, done |-> FALSE]
  BY DEF Iderw, Idestart
<1>5. CleanIsCurrent'
  BY <1>1 DEF DataInv, CleanIsCurrent, TypeOK
<1>6. WriteInv'
  <2>1. ASSUME NEW c \in Buf, dirty'[c]
        PROVE  data'[c] = IF Served(c)' THEN disk'[sector'[c]] ELSE disk'[sector'[c]] + 1
    <3>1. CASE c = b
      <4>1. ~Served(c)'
        BY <1>2, <1>3, <1>4, <3>1 DEF Served
      <4>2. d = disk[sector[b]] + 1
        BY <2>1, <3>1 DEF DataInv, CleanIsCurrent, Settled, TypeOK
      <4>. QED BY <1>1, <3>1, <4>1, <4>2 DEF TypeOK
    <3>2. CASE c # b
      <4>1. dirty[c] /\ data'[c] = data[c]
        BY <2>1, <3>2 DEF TypeOK
      <4>2. queue # <<>>
        BY <4>1, Shapes DEF FlagInv, Queued
      <4>3. Served(c)' <=> Served(c)
        BY <1>2, <1>3, <4>2 DEF Served
      <4>. QED BY <1>1, <4>1, <4>3 DEF DataInv, WriteInv
    <3>. QED BY <3>1, <3>2
  <2>2. drive'.write => drive'.data = data'[Head(queue')]
    <3>1. CASE queue = <<>>
      BY <1>2, <1>4, <3>1 DEF TypeOK
    <3>2. CASE queue # <<>>
      BY <1>2, <1>3, <3>2 DEF TypeOK, DataInv, WriteInv
    <3>. QED BY <3>1, <3>2
  <2>3. drive'.done /\ ~drive'.write => drive'.data = disk'[drive'.sector]
    BY <1>1, <1>3, <1>4 DEF DataInv, WriteInv
  <2>. QED BY <2>1, <2>2, <2>3 DEF WriteInv
<1>. QED BY <1>5, <1>6 DEF DataInv

LEMMA DriveDoneData ==
  ASSUME IInv, DataInv, DriveDone
  PROVE  DataInv'
<1>. USE DEF IInv
<1>. DEFINE h == Head(queue)
<1>1. UNCHANGED <<sector, busy, valid, dirty, data, rank, queue>>
  BY DEF DriveDone, bufs
<1>2. /\ queue # <<>> /\ drive \in Request /\ drive.sector = sector[h] /\ drive.write = dirty[h]
      /\ ~drive.done
  BY DEF DriveDone, DriveOnHead, TypeOK
<1>3. h \in Buf /\ sector[h] \in Sector
  <2>1. 1 \in 1 .. Len(queue) /\ h = queue[1] /\ h \in Buf
    BY <1>2, Shapes
  <2>. QED BY <2>1, QueuedBusy DEF HeldInv
<1>4. CASE drive.write
  <2>1. /\ disk' = [disk EXCEPT ![sector[h]] = data[h]]
        /\ drive' = [drive EXCEPT !.done = TRUE]
    BY <1>2, <1>4 DEF DriveDone, DataInv, WriteInv
  <2>2. disk'[sector[h]] = data[h] /\ \A t \in Sector : t # sector[h] => disk'[t] = disk[t]
    BY <1>3, <2>1 DEF TypeOK
  <2>3. drive'.write = TRUE /\ drive'.done = TRUE /\ drive'.data = drive.data
    BY <1>2, <1>4, <2>1 DEF Request
  <2>4. \A c \in Buf : c # h => sector[c] # sector[h]
    BY <1>3, NullAssumption DEF OneBufferPerSector
  <2>5. CleanIsCurrent'
    BY <1>1, <1>2, <1>4, <2>2, <2>4 DEF DataInv, CleanIsCurrent
  <2>6. ASSUME NEW c \in Buf, dirty[c]
        PROVE  data[c] = IF Served(c)' THEN disk'[sector[c]] ELSE disk'[sector[c]] + 1
    <3>1. CASE c = h
      BY <1>1, <1>2, <2>2, <2>3, <3>1 DEF Served
    <3>2. CASE c # h
      <4>1. sector[c] \in Sector
        <5>1. PICK i \in 1 .. Len(queue) : queue[i] = c
          BY <2>6 DEF FlagInv, Queued
        <5>. QED BY <5>1, QueuedBusy DEF HeldInv
      <4>2. ~Served(c) /\ ~Served(c)'
        BY <1>1, <3>2 DEF Served
      <4>. QED BY <2>2, <2>4, <2>6, <3>2, <4>1, <4>2 DEF DataInv, WriteInv
    <3>. QED BY <3>1, <3>2
  <2>7. WriteInv'
    BY <1>1, <1>2, <1>4, <2>3, <2>6 DEF WriteInv, DataInv
  <2>. QED BY <2>5, <2>7 DEF DataInv
<1>5. CASE ~drive.write
  <2>1. /\ disk' = disk
        /\ drive' = [drive EXCEPT !.done = TRUE, !.data = disk[drive.sector]]
    BY <1>5 DEF DriveDone
  <2>2. /\ drive'.write = drive.write /\ drive'.data = disk[drive.sector]
        /\ drive'.sector = drive.sector
    BY <1>2, <2>1 DEF Request
  <2>3. \A c \in Buf : dirty[c] => ~Served(c) /\ ~Served(c)'
    BY <1>1, <1>2, <1>5 DEF Served
  <2>. QED BY <1>1, <1>5, <2>1, <2>2, <2>3 DEF DataInv, CleanIsCurrent, WriteInv
<1>. QED BY <1>4, <1>5

LEMMA IdeintrData ==
  ASSUME IInv, DataInv, ~ReadErrors, IInv', Ideintr
  PROVE  DataInv'
<1>. USE DEF IInv
<1>. DEFINE h == Head(queue)
<1>1. /\ UNCHANGED <<sector, disk>>
      /\ valid' = [valid EXCEPT ![h] = TRUE] /\ dirty' = [dirty EXCEPT ![h] = FALSE]
      /\ data' = IF dirty[h] THEN data ELSE [data EXCEPT ![h] = drive.data]
  BY DEF Ideintr
<1>2. /\ queue # <<>> /\ drive \in Request /\ drive.sector = sector[h] /\ drive.write = dirty[h]
      /\ drive.done
  BY DEF Ideintr, DriveOnHead, TypeOK
<1>3. h \in Buf /\ sector[h] \in Sector
  <2>1. 1 \in 1 .. Len(queue) /\ h = queue[1] /\ h \in Buf
    BY <1>2, Shapes
  <2>. QED BY <2>1, QueuedBusy DEF HeldInv
<1>4. data'[h] = disk[sector[h]]
  BY <1>1, <1>2, <1>3 DEF DataInv, WriteInv, Served, TypeOK
<1>5. \A c \in Buf : c # h => valid'[c] = valid[c] /\ dirty'[c] = dirty[c] /\ data'[c] = data[c]
  BY <1>1 DEF TypeOK
<1>6. CleanIsCurrent'
  BY <1>1, <1>3, <1>4, <1>5 DEF DataInv, CleanIsCurrent
<1>7. queue' # <<>> =>
        /\ Head(queue') \in Buf /\ Head(queue') # h
        /\ drive'.done = FALSE /\ drive'.data = data[Head(queue')]
  <2>. SUFFICES ASSUME queue' # <<>>
                PROVE  /\ Head(queue') \in Buf /\ Head(queue') # h
                       /\ drive'.done = FALSE /\ drive'.data = data[Head(queue')]
    OBVIOUS
  <2>1. queue' = Tail(queue) /\ queue \in Seq(Buf)
    BY DEF Ideintr, TypeOK
  <2>2. /\ h = queue[1] /\ Tail(queue) \in Seq(Buf) /\ Len(Tail(queue)) = Len(queue) - 1
        /\ \A i \in 1 .. Len(queue) - 1 : Tail(queue)[i] = queue[i + 1]
    BY <1>2, <2>1, TailFacts
  <2>3. 1 \in 1 .. Len(queue) - 1 /\ 1 \in 1 .. Len(queue) /\ 2 \in 1 .. Len(queue)
    <3>1. Len(Tail(queue)) >= 1
      BY <2>1, <2>2, TailFacts
    <3>. QED BY <2>2, <3>1, Shapes
  <2>4. Head(queue') = queue[2] /\ queue[2] \in Buf /\ queue[2] # h
    <3>1. Head(Tail(queue)) = Tail(queue)[1]
      BY <2>1, <2>2, TailFacts
    <3>. QED BY <2>1, <2>2, <2>3, <3>1, Shapes DEF QueueInv
  <2>5. drive' = Command(Head(Tail(queue)))
    BY <2>1 DEF Ideintr, NextRequest, Idestart, Command
  <2>. QED BY <2>1, <2>4, <2>5 DEF Command
<1>8. WriteInv'
  <2>1. ASSUME NEW c \in Buf, dirty'[c]
        PROVE  data'[c] = IF Served(c)' THEN disk'[sector'[c]] ELSE disk'[sector'[c]] + 1
    <3>1. c # h /\ dirty[c] /\ data'[c] = data[c]
      BY <1>1, <1>3, <1>5, <2>1 DEF TypeOK
    <3>2. ~Served(c) /\ ~Served(c)'
      BY <1>7, <3>1 DEF Served
    <3>. QED BY <1>1, <3>1, <3>2 DEF DataInv, WriteInv
  <2>2. queue' # <<>> => drive'.data = data'[Head(queue')]
    BY <1>5, <1>7
  <2>. QED BY <1>7, <2>1, <2>2 DEF WriteInv
<1>. QED BY <1>6, <1>8 DEF DataInv

LEMMA DataInvStep == ~ReadErrors /\ IInv /\ DataInv /\ [Next]_vars => DataInv'
<1>. SUFFICES ASSUME ~ReadErrors, IInv, DataInv, [Next]_vars PROVE DataInv'
  OBVIOUS
<1>0. IInv'
  BY IInvStep
<1>1. ASSUME NEW p \in Proc, BgetAgain(p) \/ \E s \in Sector : Bget(p, s) PROVE DataInv'
  <2>1. PICK s \in Sector : Entering(p, s)
    BY <1>1, Enters
  <2>. QED BY <2>1, BgetData
<1>2. ASSUME NEW p \in Proc, Bread(p) PROVE DataInv'
  <2>1. pc[p] = "bread" /\ Top(p) = held[p][1] /\ Top(p) \in Buf /\ 1 \in 1 .. Len(held[p])
    BY <1>2, TailFacts, Shapes DEF IInv, Bread, PlaceInv, Top, TypeOK
  <2>2. CASE valid[Top(p)]
    BY <1>2, <2>2 DEF Bread, bufs, ide, DataInv, CleanIsCurrent, WriteInv, Served
  <2>3. CASE ~valid[Top(p)]
    <3>1. ~dirty[Top(p)]
      <4>. SUFFICES ASSUME dirty[Top(p)] PROVE FALSE
        BY <2>1 DEF IInv, TypeOK
      <4>1. PICK i \in 1 .. Len(queue) : queue[i] = Top(p)
        BY <2>1 DEF IInv, FlagInv, Queued
      <4>2. PICK q \in Proc : pc[q] = "iderw" /\ held[q][1] = Top(p)
        BY <4>1 DEF IInv, QueueInv
      <4>3. 1 \in 1 .. Len(held[q])
        BY <4>2, Shapes DEF IInv, PlaceInv
      <4>. QED BY <2>1, <4>2, <4>3 DEF IInv, HeldInv
    <3>2. /\ Iderw(p, Top(p), FALSE, data[Top(p)])
          /\ UNCHANGED <<sector, busy, valid, dirty, data, rank, want, held, panicked>>
      BY <1>2, <2>3 DEF Bread, bufs
    <3>3. /\ dirty' = [dirty EXCEPT ![Top(p)] = FALSE]
          /\ data' = [data EXCEPT ![Top(p)] = data[Top(p)]]
      BY <2>1, <3>1, <3>2 DEF IInv, TypeOK
    <3>. QED BY <1>0, <2>1, <2>3, <3>1, <3>2, <3>3, RequestData
  <2>. QED BY <2>2, <2>3
<1>3. ASSUME NEW p \in Proc, Bwrite(p) PROVE DataInv'
  <2>1. pc[p] = "use" /\ Top(p) = held[p][1] /\ Top(p) \in Buf /\ 1 \in 1 .. Len(held[p])
    BY <1>3, TailFacts, Shapes DEF IInv, Bwrite, PlaceInv, Top, TypeOK
  <2>2. Settled(Top(p))
    BY <2>1 DEF IInv, FlagInv
  <2>3. /\ Iderw(p, Top(p), TRUE, data[Top(p)] + 1)
        /\ dirty' = [dirty EXCEPT ![Top(p)] = TRUE]
        /\ data' = [data EXCEPT ![Top(p)] = data[Top(p)] + 1]
        /\ UNCHANGED <<sector, busy, valid, rank, want, held, panicked>>
    BY <1>3 DEF Bwrite
  <2>. QED BY <1>0, <2>1, <2>2, <2>3, RequestData DEF Settled
<1>4. ASSUME NEW p \in Proc, IderwAgain(p) \/ Brelse(p) \/ Kill(p) PROVE DataInv'
  BY <1>4 DEF IderwAgain, Brelse, Kill, bufs, ide, DataInv, CleanIsCurrent, WriteInv, Served
<1>5. CASE DriveDone \/ Ideintr
  BY <1>0, <1>5, DriveDoneData, IdeintrData
<1>6. CASE UNCHANGED vars
  BY <1>6 DEF vars, bufs, ide, DataInv, CleanIsCurrent, WriteInv, Served
<1>. QED BY <1>1, <1>2, <1>3, <1>4, <1>5, <1>6 DEF Next, Work

(* When no read fails, clean and dirty buffers and the drive agree with the *)
(* disk (iderw, ideintr, idestart).                                         *)
THEOREM DataInvariance == ASSUME ~ReadErrors PROVE Spec => [](IInv /\ DataInv)
<1>1. Init => IInv /\ DataInv
  BY InitIInv, InitDataInv
<1>2. (IInv /\ DataInv) /\ [Next]_vars => (IInv /\ DataInv)'
  BY IInvStep, DataInvStep
<1>. QED BY <1>1, <1>2, PTL DEF Spec

(* A valid buffer that is not dirty holds what the disk holds, through      *)
(* every interleaving of requests, interrupts, recycling and kills (bget,   *)
(* iderw, ideintr).                                                         *)
THEOREM CleanCorrect == ASSUME ~ReadErrors PROVE Spec => []CleanIsCurrent
<1>1. IInv /\ DataInv => CleanIsCurrent
  BY DEF DataInv
<1>. QED BY <1>1, DataInvariance, PTL

-----------------------------------------------------------------------------
(* The refinement of BlockStore: what the mapping says of each sector.      *)
Free(s) == \A b \in Buf : sector[b] = s => ~busy[b]

Mapped ==
  /\ ownerOf = [s \in Sector |-> ownerOf[s]] /\ viewOf = [s \in Sector |-> viewOf[s]]
  /\ \A s \in Sector : Free(s) => ownerOf[s] = NoProc /\ viewOf[s] = NoSector
  /\ \A b \in Buf : busy[b] =>
       viewOf[sector[b]] = IF Settled(b) THEN data[b] ELSE NoSector
  /\ \A b \in Buf, p \in Proc : busy[b] /\ Holds(p, b) => ownerOf[sector[b]] = p

LEMMA IsMapped == IInv => Mapped
<1>. SUFFICES ASSUME IInv PROVE Mapped
  OBVIOUS
<1>. USE DEF IInv
<1>1. ownerOf = [s \in Sector |-> ownerOf[s]] /\ viewOf = [s \in Sector |-> viewOf[s]]
  <2>1. ownerOf = [s \in Sector |-> ownerOf[s]]
    BY DEF ownerOf
  <2>2. viewOf = [s \in Sector |-> viewOf[s]]
    BY DEF viewOf
  <2>. QED BY <2>1, <2>2
<1>2. ASSUME NEW s \in Sector, Free(s) PROVE ownerOf[s] = NoProc /\ viewOf[s] = NoSector
  BY <1>2 DEF ownerOf, viewOf, Free
<1>3. ASSUME NEW b \in Buf, busy[b]
      PROVE  viewOf[sector[b]] = IF Settled(b) THEN data[b] ELSE NoSector
  <2>1. sector[b] \in Sector
    BY <1>3 DEF HeldInv
  <2>2. \A c \in Buf : sector[c] = sector[b] => c = b
    BY <2>1, NullAssumption DEF OneBufferPerSector
  <2>3. (CHOOSE c \in Buf : sector[c] = sector[b]) = b
    BY <2>2
  <2>. QED BY <1>3, <2>1, <2>2, <2>3 DEF viewOf, Settled
<1>4. ASSUME NEW b \in Buf, NEW p \in Proc, busy[b], Holds(p, b)
      PROVE  ownerOf[sector[b]] = p
  <2>1. sector[b] \in Sector
    BY <1>4 DEF HeldInv
  <2>2. \A c \in Buf : sector[c] = sector[b] => c = b
    BY <2>1, NullAssumption DEF OneBufferPerSector
  <2>3. \A q \in Proc : Holds(q, b) => q = p
    BY <1>4 DEF HeldInv, Holds
  <2>4. (CHOOSE q \in Proc : \E c \in Buf : sector[c] = sector[b] /\ Holds(q, c)) = p
    BY <1>4, <2>2, <2>3
  <2>. QED BY <1>4, <2>1, <2>4 DEF ownerOf
<1>. QED BY <1>1, <1>2, <1>3, <1>4 DEF Mapped

LEMMA Updated ==
  ASSUME NEW S, NEW f, NEW g, f = [x \in S |-> f[x]], g = [x \in S |-> g[x]],
         NEW s \in S, \A x \in S \ {s} : g[x] = f[x]
  PROVE  g = [f EXCEPT ![s] = g[s]]
  OBVIOUS

(* A step that changes no buffer of a sector changes nothing about it.      *)
LEMMA SameSector ==
  ASSUME IInv, Mapped, IInv', Mapped', NEW s \in Sector,
         \A b \in Buf : sector'[b] = s <=> sector[b] = s,
         \A b \in Buf : sector[b] = s =>
            /\ busy'[b] = busy[b] /\ valid'[b] = valid[b] /\ dirty'[b] = dirty[b]
            /\ data'[b] = data[b]
            /\ \A p \in Proc : Holds(p, b) => Holds(p, b)'
  PROVE  ownerOf'[s] = ownerOf[s] /\ viewOf'[s] = viewOf[s]
<1>1. CASE Free(s)
  <2>1. Free(s)'
    BY <1>1 DEF Free
  <2>. QED BY <1>1, <2>1 DEF Mapped
<1>2. CASE ~Free(s)
  <2>1. PICK b \in Buf : sector[b] = s /\ busy[b]
    BY <1>2 DEF Free
  <2>2. PICK p \in Proc : Holds(p, b)
    BY <2>1 DEF IInv, HeldInv
  <2>3. sector'[b] = s /\ busy'[b] /\ Holds(p, b)' /\ data'[b] = data[b]
        /\ (Settled(b)' <=> Settled(b))
    BY <2>1, <2>2 DEF Settled
  <2>4. ownerOf[s] = p /\ ownerOf'[s] = p
    BY <2>1, <2>2, <2>3 DEF Mapped
  <2>5. /\ viewOf[s] = IF Settled(b) THEN data[b] ELSE NoSector
        /\ viewOf'[s] = IF Settled(b)' THEN data'[b] ELSE NoSector
    BY <2>1, <2>3 DEF Mapped
  <2>. QED BY <2>3, <2>4, <2>5
<1>. QED BY <1>1, <1>2

(* The initial states of the cache are initial states of the store.         *)
LEMMA InitMaps == Init => Store!Init
  BY DEF Init, Store!Init, ownerOf, viewOf

LEMMA AllSame ==
  ASSUME UNCHANGED <<sector, busy, valid, dirty, data, held>>
  PROVE  UNCHANGED <<ownerOf, viewOf>>
<1>1. ownerOf' = ownerOf
  BY DEF ownerOf, Holds
<1>2. viewOf' = viewOf
  BY DEF viewOf
<1>. QED BY <1>1, <1>2

(* A process that takes a buffer takes its sector, and sees it if the       *)
(* buffer was valid.                                                        *)
LEMMA TakeMaps ==
  ASSUME IInv, Mapped, IInv', Mapped', CleanIsCurrent',
         NEW p \in Proc, NEW s \in Sector, Entering(p, s), NEW b \in Buf, ~busy[b],
         Take(p, b), sector' = [sector EXCEPT ![b] = s],
         \A c \in Buf : sector[c] = s => c = b,
         valid' = [valid EXCEPT ![b] = valid'[b]]
  PROVE  Store!Take(s)
<1>. USE DEF IInv
<1>1. /\ held'[p][1] = b /\ 1 \in 1 .. Len(held'[p])
      /\ \A q \in Proc, c \in Buf : Holds(q, c) => Holds(q, c)'
  <2>1. /\ Len(held'[p]) = Len(held[p]) + 1 /\ held'[p][1] = b
        /\ \A i \in 1 .. Len(held[p]) : held'[p][i + 1] = held[p][i]
        /\ \A q \in Proc \ {p} : held'[q] = held[q]
        /\ Len(held[p]) \in Nat
    BY PushFacts, Shapes DEF Take, TypeOK
  <2>2. \A i \in 1 .. Len(held[p]) : i + 1 \in 1 .. Len(held'[p])
    BY <2>1
  <2>3. ASSUME NEW q \in Proc, NEW c \in Buf, Holds(q, c) PROVE Holds(q, c)'
    <3>1. PICK i \in 1 .. Len(held[q]) : held[q][i] = c
      BY <2>3 DEF Holds
    <3>2. CASE q = p
      <4>1. i + 1 \in 1 .. Len(held'[p]) /\ held'[p][i + 1] = c
        BY <2>1, <2>2, <3>1, <3>2
      <4>. QED BY <3>2, <4>1 DEF Holds
    <3>3. CASE q # p
      BY <2>1, <3>1, <3>3 DEF Holds
    <3>. QED BY <3>2, <3>3
  <2>. QED BY <2>1, <2>2, <2>3
<1>2. UNCHANGED <<dirty, data, disk>> /\ busy' = [busy EXCEPT ![b] = TRUE]
  BY DEF Take, Entering, ide
<1>3. ownerOf[s] = NoProc /\ viewOf[s] = NoSector
  BY DEF Mapped, Free
<1>4. sector'[b] = s /\ busy'[b] /\ Holds(p, b)'
  BY <1>1, <1>2 DEF TypeOK, Holds
<1>5. ownerOf'[s] = p /\ viewOf'[s] \in {disk[s], NoSector}
  BY <1>2, <1>4 DEF Mapped, CleanIsCurrent, Settled
<1>6. ASSUME NEW t \in Sector \ {s} PROVE ownerOf'[t] = ownerOf[t] /\ viewOf'[t] = viewOf[t]
  <2>1. CASE sector[b] = t
    <3>1. \A c \in Buf : sector[c] = t => c = b
      BY <2>1, NullAssumption DEF OneBufferPerSector
    <3>2. Free(t) /\ Free(t)'
      BY <2>1, <3>1 DEF Free, TypeOK
    <3>. QED BY <3>2 DEF Mapped
  <2>2. CASE sector[b] # t
    <3>1. \A c \in Buf : sector'[c] = t <=> sector[c] = t
      BY <2>2 DEF TypeOK
    <3>2. \A c \in Buf : sector[c] = t =>
             /\ busy'[c] = busy[c] /\ valid'[c] = valid[c] /\ dirty'[c] = dirty[c]
             /\ data'[c] = data[c]
      BY <1>2, <2>2 DEF TypeOK
    <3>. QED BY <1>1, <3>1, <3>2, SameSector
  <2>. QED BY <2>1, <2>2
<1>7. ownerOf' = [ownerOf EXCEPT ![s] = p]
  <2>1. ownerOf = [x \in Sector |-> ownerOf[x]] /\ ownerOf' = [x \in Sector |-> ownerOf'[x]]
    BY DEF Mapped
  <2>. QED BY <1>5, <1>6, <2>1, Updated
<1>8. viewOf' = [viewOf EXCEPT ![s] = disk[s]] \/ viewOf' = viewOf
  <2>1. viewOf = [x \in Sector |-> viewOf[x]] /\ viewOf' = [x \in Sector |-> viewOf'[x]]
    BY DEF Mapped
  <2>2. viewOf' = [viewOf EXCEPT ![s] = viewOf'[s]]
    BY <1>6, <2>1, Updated
  <2>3. CASE viewOf'[s] = NoSector
    BY <1>3, <1>6, <2>1, <2>3
  <2>. QED BY <1>5, <2>2, <2>3
<1>. QED BY <1>2, <1>3, <1>7, <1>8 DEF Store!Take

LEMMA BgetMaps ==
  ASSUME IInv, Mapped, IInv', Mapped', CleanIsCurrent',
         NEW p \in Proc, NEW s \in Sector, Entering(p, s)
  PROVE  [Store!Next]_<<disk, ownerOf, viewOf>>
<1>. USE DEF IInv
<1>1. ASSUME NEW b \in Buf, Cached(b, s), ~busy[b], Take(p, b), UNCHANGED <<sector, valid>>
      PROVE  Store!Take(s)
  <2>1. sector' = [sector EXCEPT ![b] = s] /\ valid' = [valid EXCEPT ![b] = valid'[b]]
    BY <1>1 DEF TypeOK, Cached
  <2>2. \A c \in Buf : sector[c] = s => c = b
    BY <1>1, NullAssumption DEF OneBufferPerSector, Cached
  <2>. QED BY <1>1, <2>1, <2>2, TakeMaps
<1>2. ASSUME ~ \E b \in Buf : Cached(b, s), NEW b \in Buf, Oldest(b), Take(p, b), Recycled(b),
             sector' = [sector EXCEPT ![b] = s]
      PROVE  Store!Take(s)
  <2>1. valid' = [valid EXCEPT ![b] = valid'[b]]
    BY <1>2 DEF TypeOK, Recycled
  <2>2. \A c \in Buf : sector[c] # s
    <3>. SUFFICES ASSUME NEW c \in Buf, sector[c] = s PROVE FALSE
      OBVIOUS
    <3>1. \A e \in Buf : sector[e] = s => e = c
      BY NullAssumption DEF OneBufferPerSector
    <3>2. rank[c] <= rank[c]
      BY DEF TypeOK
    <3>. QED BY <1>2, <3>1, <3>2 DEF Cached
  <2>. QED BY <1>2, <2>1, <2>2, TakeMaps DEF Oldest
<1>3. CASE UNCHANGED <<bufs, held>>
  <2>1. UNCHANGED <<sector, busy, valid, dirty, data, held>> /\ disk' = disk
    BY <1>3 DEF bufs, Entering, ide
  <2>. QED BY <2>1, AllSame
<1>4. UNCHANGED <<bufs, held>> \/ Store!Take(s)
  BY <1>1, <1>2 DEF Entering, BgetPass, procs
<1>. QED BY <1>3, <1>4 DEF Store!Next

(* bwrite changes what the owner saw; the disk has it later.                *)
LEMMA BwriteMaps ==
  ASSUME IInv, Mapped, IInv', Mapped', CleanIsCurrent, NEW p \in Proc, Bwrite(p),
         NEW b \in Buf, b = Top(p), NEW s \in Sector, s = sector[b]
  PROVE  Store!Change(s)
<1>. USE DEF IInv
<1>1. pc[p] = "use" /\ b = held[p][1] /\ b \in Buf /\ 1 \in 1 .. Len(held[p])
  BY TailFacts, Shapes DEF Bwrite, PlaceInv, Top, TypeOK
<1>2. Settled(b) /\ busy[b] /\ s \in Sector /\ Holds(p, b)
  BY <1>1 DEF FlagInv, HeldInv, Holds
<1>3. /\ UNCHANGED <<sector, busy, valid, held, disk>>
      /\ data' = [data EXCEPT ![b] = @ + 1] /\ dirty' = [dirty EXCEPT ![b] = TRUE]
  BY DEF Bwrite, Iderw
<1>4. ~Settled(b)' /\ Holds(p, b)' /\ busy'[b] /\ sector'[b] = s
  <2>1. dirty'[b]
    BY <1>1, <1>3 DEF TypeOK
  <2>2. Holds(p, b)'
    BY <1>2, <1>3 DEF Holds
  <2>. QED BY <1>2, <1>3, <2>1, <2>2 DEF Settled
<1>5. ownerOf[s] = p /\ ownerOf'[s] = p /\ viewOf[s] = disk[s] /\ viewOf'[s] = NoSector
  <2>1. ownerOf[s] = p /\ ownerOf'[s] = p
    BY <1>2, <1>4 DEF Mapped
  <2>2. viewOf[s] = data[b] /\ data[b] = disk[s]
    BY <1>2 DEF Mapped, CleanIsCurrent, Settled
  <2>3. viewOf'[s] = NoSector
    BY <1>4 DEF Mapped
  <2>. QED BY <2>1, <2>2, <2>3
<1>6. ASSUME NEW t \in Sector \ {s} PROVE ownerOf'[t] = ownerOf[t] /\ viewOf'[t] = viewOf[t]
  <2>1. \A c \in Buf : sector[c] = t =>
           /\ busy'[c] = busy[c] /\ valid'[c] = valid[c] /\ dirty'[c] = dirty[c]
           /\ data'[c] = data[c] /\ \A q \in Proc : Holds(q, c) => Holds(q, c)'
    BY <1>3 DEF TypeOK, Holds
  <2>. QED BY <1>3, <2>1, SameSector
<1>7. viewOf' = [viewOf EXCEPT ![s] = NoSector] /\ ownerOf' = ownerOf
  <2>1. /\ viewOf = [x \in Sector |-> viewOf[x]] /\ viewOf' = [x \in Sector |-> viewOf'[x]]
        /\ ownerOf = [x \in Sector |-> ownerOf[x]] /\ ownerOf' = [x \in Sector |-> ownerOf'[x]]
    BY DEF Mapped
  <2>2. viewOf' = [viewOf EXCEPT ![s] = viewOf'[s]]
    BY <1>2, <1>6, <2>1, Updated
  <2>3. \A x \in Sector : ownerOf'[x] = ownerOf[x]
    BY <1>5, <1>6
  <2>4. ownerOf' = ownerOf
    BY <2>1, <2>3
  <2>. QED BY <1>5, <2>2, <2>4
<1>. QED BY <1>3, <1>5, <1>7, NullAssumption DEF Store!Change

(* The drive's write commits the change; a read changes nothing.            *)
LEMMA DriveDoneMaps ==
  ASSUME IInv, Mapped, DataInv, DriveDone
  PROVE  [Store!Next]_<<disk, ownerOf, viewOf>>
<1>. USE DEF IInv
<1>. DEFINE h == Head(queue)
            s == sector[h]
<1>1. UNCHANGED <<ownerOf, viewOf>>
  BY AllSame DEF DriveDone, bufs, procs
<1>2. /\ queue # <<>> /\ drive \in Request /\ drive.sector = s /\ drive.write = dirty[h]
      /\ ~drive.done
  BY DEF DriveDone, DriveOnHead, TypeOK
<1>3. h \in Buf /\ s \in Sector /\ busy[h]
  <2>1. 1 \in 1 .. Len(queue) /\ h = queue[1] /\ h \in Buf
    BY <1>2, Shapes
  <2>. QED BY <2>1, QueuedBusy DEF HeldInv
<1>4. CASE drive.write
  <2>1. disk' = [disk EXCEPT ![s] = @ + 1]
    <3>1. data[h] = disk[s] + 1 /\ drive.data = data[h]
      BY <1>2, <1>3, <1>4 DEF DataInv, WriteInv, Served
    <3>. QED BY <1>2, <1>4, <3>1 DEF DriveDone
  <2>2. ownerOf[s] # NoProc
    <3>1. PICK p \in Proc : Holds(p, h)
      BY <1>3 DEF HeldInv
    <3>. QED BY <1>3, <3>1, NullAssumption DEF Mapped
  <2>3. viewOf[s] = NoSector
    BY <1>2, <1>3, <1>4 DEF Mapped, Settled
  <2>4. Store!Commit(s)
    BY <1>1, <2>1, <2>2, <2>3 DEF Store!Commit
  <2>. QED BY <1>3, <2>4 DEF Store!Next
<1>5. CASE ~drive.write
  BY <1>1, <1>5 DEF DriveDone
<1>. QED BY <1>4, <1>5

(* The interrupt lets the owner see what the disk holds.                    *)
LEMMA IdeintrMaps ==
  ASSUME IInv, Mapped, IInv', Mapped', CleanIsCurrent', Ideintr,
         NEW h \in Buf, h = Head(queue), NEW s \in Sector, s = sector[h]
  PROVE  Store!See(s)
<1>. USE DEF IInv
<1>1. /\ UNCHANGED <<sector, busy, held, disk>>
      /\ valid' = [valid EXCEPT ![h] = TRUE] /\ dirty' = [dirty EXCEPT ![h] = FALSE]
      /\ \A c \in Buf : c # h => data'[c] = data[c]
  BY DEF Ideintr, TypeOK
<1>2. h \in Buf /\ s \in Sector /\ busy[h]
  <2>1. queue # <<>>
    BY DEF Ideintr, DriveOnHead
  <2>2. 1 \in 1 .. Len(queue) /\ h = queue[1] /\ h \in Buf
    BY <2>1, Shapes
  <2>. QED BY <2>2, QueuedBusy DEF HeldInv
<1>3. PICK p \in Proc : Holds(p, h)
  BY <1>2 DEF HeldInv
<1>4. Settled(h)' /\ Holds(p, h)' /\ busy'[h] /\ sector'[h] = s
  BY <1>1, <1>2, <1>3 DEF Settled, Holds, TypeOK
<1>5. ownerOf[s] = p /\ ownerOf'[s] = p /\ viewOf'[s] = disk[s]
  BY <1>1, <1>2, <1>3, <1>4 DEF Mapped, CleanIsCurrent, Settled
<1>6. ASSUME NEW t \in Sector \ {s} PROVE ownerOf'[t] = ownerOf[t] /\ viewOf'[t] = viewOf[t]
  <2>1. \A c \in Buf : sector[c] = t =>
           /\ busy'[c] = busy[c] /\ valid'[c] = valid[c] /\ dirty'[c] = dirty[c]
           /\ data'[c] = data[c] /\ \A q \in Proc : Holds(q, c) => Holds(q, c)'
    BY <1>1 DEF TypeOK, Holds
  <2>. QED BY <1>1, <2>1, SameSector
<1>7. viewOf' = [viewOf EXCEPT ![s] = disk[s]] /\ ownerOf' = ownerOf
  <2>1. /\ viewOf = [x \in Sector |-> viewOf[x]] /\ viewOf' = [x \in Sector |-> viewOf'[x]]
        /\ ownerOf = [x \in Sector |-> ownerOf[x]] /\ ownerOf' = [x \in Sector |-> ownerOf'[x]]
    BY DEF Mapped
  <2>2. viewOf' = [viewOf EXCEPT ![s] = viewOf'[s]]
    BY <1>2, <1>6, <2>1, Updated
  <2>3. \A x \in Sector : ownerOf'[x] = ownerOf[x]
    BY <1>5, <1>6
  <2>4. ownerOf' = ownerOf
    BY <2>1, <2>3
  <2>. QED BY <1>5, <2>2, <2>4
<1>. QED BY <1>1, <1>5, <1>7, NullAssumption DEF Store!See

(* brelse gives the sector back as the disk has it.                         *)
LEMMA BrelseMaps ==
  ASSUME IInv, Mapped, IInv', Mapped', CleanIsCurrent, NEW p \in Proc, Brelse(p),
         NEW b \in Buf, b = Top(p), NEW s \in Sector, s = sector[b]
  PROVE  Store!Give(s)
<1>. USE DEF IInv
<1>1. /\ held[p] \in Seq(Buf) /\ pc[p] = "use" /\ b = held[p][1] /\ b \in Buf
      /\ 1 \in 1 .. Len(held[p])
      /\ Len(Tail(held[p])) = Len(held[p]) - 1
      /\ \A i \in 1 .. Len(held[p]) - 1 : Tail(held[p])[i] = held[p][i + 1]
      /\ Len(held[p]) \in Nat
  BY TailFacts, Shapes DEF Brelse, PlaceInv, Top, TypeOK
<1>2. Settled(b) /\ busy[b] /\ s \in Sector
  BY <1>1 DEF FlagInv, HeldInv
<1>3. /\ UNCHANGED <<sector, valid, dirty, data, disk>>
      /\ busy' = [busy EXCEPT ![b] = FALSE]
      /\ held' = [held EXCEPT ![p] = Tail(held[p])]
  BY DEF Brelse, ide
<1>4. \A q \in Proc, c \in Buf \ {b} : Holds(q, c) => Holds(q, c)'
  <2>. SUFFICES ASSUME NEW q \in Proc, NEW c \in Buf \ {b}, NEW i \in 1 .. Len(held[q]),
                       held[q][i] = c
                PROVE  \E j \in 1 .. Len(held'[q]) : held'[q][j] = c
    BY DEF Holds
  <2>1. CASE q = p
    <3>1. i - 1 \in 1 .. Len(held[p]) - 1 /\ Tail(held[p])[i - 1] = c
      BY <1>1, <2>1
    <3>2. held'[p] = Tail(held[p])
      BY <1>3 DEF TypeOK
    <3>. QED BY <1>1, <2>1, <3>1, <3>2
  <2>2. CASE q # p
    BY <1>3, <2>2 DEF TypeOK
  <2>. QED BY <2>1, <2>2
<1>5. \A c \in Buf : sector[c] = s => c = b
  BY <1>1, <1>2, NullAssumption DEF OneBufferPerSector
<1>6. viewOf[s] = disk[s]
  BY <1>1, <1>2 DEF Mapped, CleanIsCurrent, Settled
<1>7. ownerOf'[s] = NoProc /\ viewOf'[s] = NoSector
  <2>1. Free(s)'
    BY <1>1, <1>3, <1>5 DEF Free, TypeOK
  <2>2. sector' = sector
    BY <1>3
  <2>. QED BY <1>2, <2>1, <2>2 DEF Mapped, Free
<1>8. ASSUME NEW t \in Sector \ {s} PROVE ownerOf'[t] = ownerOf[t] /\ viewOf'[t] = viewOf[t]
  <2>1. \A c \in Buf : sector[c] = t =>
           /\ busy'[c] = busy[c] /\ valid'[c] = valid[c] /\ dirty'[c] = dirty[c]
           /\ data'[c] = data[c] /\ \A q \in Proc : Holds(q, c) => Holds(q, c)'
    BY <1>1, <1>3, <1>4 DEF TypeOK
  <2>. QED BY <1>3, <2>1, SameSector
<1>9. viewOf' = [viewOf EXCEPT ![s] = NoSector] /\ ownerOf' = [ownerOf EXCEPT ![s] = NoProc]
  <2>1. /\ viewOf = [x \in Sector |-> viewOf[x]] /\ viewOf' = [x \in Sector |-> viewOf'[x]]
        /\ ownerOf = [x \in Sector |-> ownerOf[x]] /\ ownerOf' = [x \in Sector |-> ownerOf'[x]]
    BY DEF Mapped
  <2>2. viewOf' = [viewOf EXCEPT ![s] = viewOf'[s]]
    BY <1>2, <1>8, <2>1, Updated
  <2>3. ownerOf' = [ownerOf EXCEPT ![s] = ownerOf'[s]]
    BY <1>2, <1>8, <2>1, Updated
  <2>. QED BY <1>7, <2>2, <2>3
<1>. QED BY <1>3, <1>6, <1>9 DEF Store!Give

LEMMA IsMappedNext == (IInv => Mapped)'
  BY IsMapped, PTL

(* Every step of the cache is a step of the store, or changes nothing of it. *)
LEMMA StepMaps ==
  ASSUME IInv, DataInv, IInv', DataInv', [Next]_vars
  PROVE  [Store!Next]_<<disk, ownerOf, viewOf>>
<1>1. Mapped /\ Mapped' /\ CleanIsCurrent /\ CleanIsCurrent'
  BY IsMapped, IsMappedNext DEF DataInv
<1>2. ASSUME NEW p \in Proc, BgetAgain(p) \/ \E s \in Sector : Bget(p, s)
      PROVE  [Store!Next]_<<disk, ownerOf, viewOf>>
  <2>1. PICK s \in Sector : Entering(p, s)
    BY <1>2, Enters
  <2>. QED BY <1>1, <2>1, BgetMaps
<1>3. ASSUME NEW p \in Proc, Bread(p) \/ IderwAgain(p) \/ Kill(p)
      PROVE  [Store!Next]_<<disk, ownerOf, viewOf>>
  <2>1. UNCHANGED <<sector, busy, valid, dirty, data, held>> /\ disk' = disk
    BY <1>3 DEF Bread, IderwAgain, Kill, Iderw, bufs, ide
  <2>. QED BY <2>1, AllSame
<1>4. ASSUME NEW p \in Proc, Bwrite(p) \/ Brelse(p)
      PROVE  [Store!Next]_<<disk, ownerOf, viewOf>>
  <2>1. pc[p] = "use" /\ Top(p) = held[p][1] /\ Top(p) \in Buf /\ 1 \in 1 .. Len(held[p])
    <3>1. pc[p] = "use"
      BY <1>4 DEF Bwrite, Brelse
    <3>. QED BY <3>1, TailFacts, Shapes DEF IInv, PlaceInv, Top, TypeOK
  <2>2. sector[Top(p)] \in Sector
    BY <2>1 DEF IInv, HeldInv
  <2>3. PICK b \in Buf, s \in Sector : b = Top(p) /\ s = sector[b]
    BY <2>1, <2>2
  <2>4. Store!Change(s) \/ Store!Give(s)
    BY <1>1, <1>4, <2>3, BwriteMaps, BrelseMaps
  <2>. QED BY <2>4 DEF Store!Next
<1>5. CASE DriveDone
  BY <1>1, <1>5, DriveDoneMaps
<1>6. CASE Ideintr
  <2>1. queue # <<>>
    BY <1>6 DEF IInv, Ideintr, DriveOnHead
  <2>2. 1 \in 1 .. Len(queue) /\ Head(queue) = queue[1] /\ Head(queue) \in Buf
    BY <2>1, Shapes DEF IInv
  <2>3. sector[Head(queue)] \in Sector
    BY <2>2, QueuedBusy DEF IInv, HeldInv
  <2>4. PICK h \in Buf, s \in Sector : h = Head(queue) /\ s = sector[h]
    BY <2>2, <2>3
  <2>5. Store!See(s)
    BY <1>1, <1>6, <2>4, IdeintrMaps
  <2>. QED BY <2>5 DEF Store!Next
<1>7. CASE UNCHANGED vars
  BY <1>7, AllSame DEF vars, bufs, ide, procs
<1>. QED BY <1>2, <1>3, <1>4, <1>5, <1>6, <1>7 DEF Next, Work

(* The buffers, the queue and the drive together behave as a store of       *)
(* blocks: a sector has one owner at a time, who sees what the disk holds,  *)
(* and a change reaches the disk before it can be seen again (bread,        *)
(* bwrite, brelse over iderw and ideintr).                                  *)
THEOREM StoreRefined == ASSUME ~ReadErrors PROVE Spec => ImplementsStore
<1>1. Init => Store!Init
  BY InitMaps
<1>2. (IInv /\ DataInv) /\ (IInv /\ DataInv)' /\ [Next]_vars
         => [Store!Next]_<<disk, ownerOf, viewOf>>
  BY StepMaps
<1>. QED BY <1>1, <1>2, DataInvariance, PTL DEF Spec, ImplementsStore, Store!Spec
-----------------------------------------------------------------------------
(* Room in the cache.  A process may hold a second buffer only under one    *)
(* whose sector is the outer half of a nesting.                             *)
Outer == {s \in Sector : \E t \in Sector : <<s, t>> \in Nested}

(* Two buffers for each process, or one for each and one for each sector    *)
(* that another is read under.                                              *)
Plenty ==
  /\ IsFiniteSet(Proc)
  /\ \/ 2 * Cardinality(Proc) <= NBUF
     \/ IsFiniteSet(Outer) /\ Cardinality(Proc) + Cardinality(Outer) <= NBUF

(* The buffer below another, or below the one bget is looking for.          *)
Under(p, i) == i = 2 \/ pc[p] = "bget"
NestInv ==
  \A p \in Proc : \A i \in 1 .. Len(held[p]) : Under(p, i) => sector[held[p][i]] \in Outer

RoomInv == NestInv /\ ~panicked

(* A process that enters bget holds nothing, or an outer sector's buffer.   *)
LEMMA EntersOuter ==
  ASSUME IInv, NestInv, NEW p \in Proc, BgetAgain(p) \/ \E s \in Sector : Bget(p, s)
  PROVE  \A i \in 1 .. Len(held[p]) : i = 1 /\ sector[held[p][i]] \in Outer
<1>. USE DEF IInv
<1>. SUFFICES ASSUME NEW i \in 1 .. Len(held[p]) PROVE i = 1 /\ sector[held[p][i]] \in Outer
  OBVIOUS
<1>0. i = 1 /\ held[p] # <<>> /\ held[p][1] \in Buf
  <2>1. Len(held[p]) <= 1 /\ Len(held[p]) \in Nat
    BY Enters, Shapes DEF Entering
  <2>. QED BY <2>1, Shapes
<1>1. CASE BgetAgain(p)
  BY <1>0, <1>1 DEF BgetAgain, NestInv, Under
<1>2. CASE \E s \in Sector : Bget(p, s)
  <2>1. PICK s \in Sector : <<sector[Top(p)], s>> \in Nested
    BY <1>0, <1>2 DEF Bget, MayBread, Holder
  <2>2. Top(p) = held[p][1]
    BY <1>0, TailFacts DEF Top, TypeOK
  <2>3. sector[held[p][1]] \in Sector
    BY <1>0 DEF HeldInv
  <2>. QED BY <1>0, <2>1, <2>2, <2>3 DEF Outer
<1>. QED BY <1>1, <1>2

(* With plenty of buffers, not all are busy when a process enters bget: the *)
(* buffers under another map to their sectors, or to their holders, and     *)
(* each other busy buffer to a holder that is not this process.             *)
LEMMA NotAllBusy ==
  ASSUME Plenty, IInv, NestInv, NEW p \in Proc,
         \A i \in 1 .. Len(held[p]) : i = 1 /\ sector[held[p][i]] \in Outer
  PROVE  \E b \in Buf : ~busy[b]
<1>. USE DEF IInv
<1>. SUFFICES ASSUME \A b \in Buf : busy[b] PROVE FALSE
  OBVIOUS
<1>. DEFINE Low(b, q) == \E i \in 1 .. Len(held[q]) : held[q][i] = b /\ (i = 2 \/ q = p)
            A == {b \in Buf : \E q \in Proc : Low(b, q)}
            B == {b \in Buf : ~ \E q \in Proc : Low(b, q)}
<1>1. \A q \in Proc : \A i \in 1 .. Len(held[q]) : i = 1 \/ i = 2
  BY Shapes DEF HeldInv
<1>2. IsFiniteSet(B) /\ Cardinality(B) <= Cardinality(Proc) - 1
  <2>. DEFINE Tops(b, q) == 1 \in 1 .. Len(held[q]) /\ held[q][1] = b
              f == [b \in B |-> CHOOSE q \in Proc \ {p} : Tops(b, q)]
  <2>1. ASSUME NEW b \in B PROVE f[b] \in Proc \ {p} /\ held[f[b]][1] = b
    <3>1. PICK q \in Proc : \E i \in 1 .. Len(held[q]) : held[q][i] = b
      BY <2>1 DEF HeldInv, Holds
    <3>2. q \in Proc \ {p} /\ Tops(b, q)
      BY <1>1, <2>1, <3>1
    <3>3. f[b] = CHOOSE r \in Proc \ {p} : Tops(b, r)
      BY <2>1
    <3>4. f[b] \in Proc \ {p} /\ Tops(b, f[b])
      BY <3>2, <3>3
    <3>. QED BY <3>4
  <2>2. f \in Injection(B, Proc \ {p})
    <3>1. f \in [B -> Proc \ {p}]
      BY <2>1
    <3>2. \A b, c \in B : f[b] = f[c] => b = c
      BY <2>1
    <3>. QED BY <3>1, <3>2 DEF Injection, IsInjective
  <2>3. IsFiniteSet(Proc \ {p}) /\ Cardinality(Proc \ {p}) = Cardinality(Proc) - 1
    BY FS_RemoveElement DEF Plenty
  <2>. HIDE DEF f, B
  <2>4. IsFiniteSet(B) /\ Cardinality(B) <= Cardinality(Proc \ {p})
    BY <2>2, <2>3, FS_Injection, Zenon
  <2>. QED BY <2>3, <2>4
<1>3. \A b \in A : \E q \in Proc : Low(b, q)
  OBVIOUS
<1>4. ASSUME IsFiniteSet(Outer) PROVE IsFiniteSet(A) /\ Cardinality(A) <= Cardinality(Outer)
  <2>. DEFINE g == [b \in A |-> sector[b]]
  <2>1. ASSUME NEW b \in A PROVE sector[b] \in Outer
    <3>1. PICK q \in Proc : Low(b, q)
      BY <1>3
    <3>. QED BY <3>1 DEF NestInv, Under
  <2>2. \A b, c \in A : sector[b] = sector[c] => b = c
    BY <2>1, NullAssumption DEF OneBufferPerSector, Outer
  <2>3. g \in Injection(A, Outer)
    <3>1. g \in [A -> Outer]
      BY <2>1
    <3>. QED BY <2>2, <3>1 DEF Injection, IsInjective
  <2>. HIDE DEF g
  <2>. QED BY <1>4, <2>3, FS_Injection
<1>5. IsFiniteSet(A) /\ Cardinality(A) <= Cardinality(Proc)
  <2>. DEFINE g == [b \in A |-> CHOOSE q \in Proc : Low(b, q)]
  <2>1. ASSUME NEW b \in A PROVE g[b] \in Proc /\ Low(b, g[b])
    <3>1. PICK q \in Proc : Low(b, q)
      BY <1>3
    <3>2. g[b] = CHOOSE r \in Proc : Low(b, r)
      BY <2>1
    <3>. HIDE DEF Low
    <3>. QED BY <3>1, <3>2
  <2>2. ASSUME NEW b \in A, NEW c \in A, g[b] = g[c] PROVE b = c
    <3>. HIDE DEF g, Low
    <3>0. Low(b, g[b]) /\ Low(c, g[b])
      BY <2>1, <2>2
    <3>. USE DEF Low
    <3>1. PICK i \in 1 .. Len(held[g[b]]) : held[g[b]][i] = b /\ (i = 2 \/ g[b] = p)
      BY <3>0
    <3>2. PICK j \in 1 .. Len(held[g[b]]) : held[g[b]][j] = c /\ (j = 2 \/ g[b] = p)
      BY <3>0
    <3>3. g[b] = p => i = 1 /\ j = 1
      OBVIOUS
    <3>. QED BY <3>1, <3>2, <3>3
  <2>3. g \in Injection(A, Proc)
    <3>1. g \in [A -> Proc]
      BY <2>1
    <3>2. \A b, c \in A : g[b] = g[c] => b = c
      BY <2>2
    <3>. HIDE DEF g
    <3>. QED BY <3>1, <3>2 DEF Injection, IsInjective
  <2>. HIDE DEF g
  <2>. QED BY <2>3, FS_Injection DEF Plenty
<1>6. Cardinality(Buf) = NBUF
  BY NBufAssumption, FS_Interval DEF Buf
<1>7. Cardinality(Buf) <= Cardinality(A) + Cardinality(B)
  <2>1. Buf = A \cup B
    OBVIOUS
  <2>. HIDE DEF A, B
  <2>2. /\ Cardinality(A \cup B) = Cardinality(A) + Cardinality(B) - Cardinality(A \cap B)
        /\ IsFiniteSet(A \cap B)
    BY <1>2, <1>5, FS_Union, FS_Subset
  <2>3. Cardinality(A \cap B) \in Nat /\ Cardinality(A) \in Nat /\ Cardinality(B) \in Nat
    BY <1>2, <1>5, <2>2, FS_CardinalityType
  <2>. QED BY <2>1, <2>2, <2>3
<1>8. /\ Cardinality(A) \in Nat /\ Cardinality(B) \in Nat /\ Cardinality(Proc) \in Nat
      /\ IsFiniteSet(Outer) => Cardinality(Outer) \in Nat
  BY <1>2, <1>5, FS_CardinalityType DEF Plenty
<1>. HIDE DEF A, B
<1>. QED BY <1>2, <1>4, <1>5, <1>6, <1>7, <1>8, NBufAssumption DEF Plenty

(* While buffers are plenty bget finds a free one, and never panics.        *)
LEMMA RoomStep == Plenty /\ IInv /\ RoomInv /\ [Next]_vars => RoomInv'
<1>. SUFFICES ASSUME Plenty, IInv, RoomInv, [Next]_vars PROVE RoomInv'
  OBVIOUS
<1>. USE DEF IInv, RoomInv
<1>0. IInv'
  BY IInvStep
<1>1. ASSUME NEW p \in Proc, BgetAgain(p) \/ \E s \in Sector : Bget(p, s) PROVE RoomInv'
  <2>1. PICK s \in Sector : Entering(p, s)
    BY <1>1, Enters
  <2>2. \A i \in 1 .. Len(held[p]) : i = 1 /\ sector[held[p][i]] \in Outer
    BY <1>1, EntersOuter
  <2>3. \E b \in Buf : ~busy[b]
    BY <2>2, NotAllBusy
  <2>4. ASSUME NEW b \in Buf, ~busy[b], Take(p, b), sector' = [sector EXCEPT ![b] = sector'[b]]
        PROVE  RoomInv'
    <3>1. /\ Len(held'[p]) = Len(held[p]) + 1
          /\ \A i \in 1 .. Len(held[p]) : held'[p][i + 1] = held[p][i]
          /\ \A q \in Proc \ {p} : held'[q] = held[q] /\ pc'[q] = pc[q]
          /\ pc'[p] = "bread" /\ panicked' = panicked
      BY <2>4, PushFacts DEF Take, TypeOK
    <3>2. \A q \in Proc : \A i \in 1 .. Len(held[q]) : sector'[held[q][i]] = sector[held[q][i]]
      BY <2>4, Shapes DEF HeldInv, TypeOK
    <3>3. ASSUME NEW q \in Proc, NEW i \in 1 .. Len(held'[q]), Under(q, i)'
          PROVE  sector'[held'[q][i]] \in Outer
      <4>1. CASE q = p
        <5>1. i = 2
          BY <3>1, <3>3, <4>1 DEF Under
        <5>2. 1 \in 1 .. Len(held[p])
          BY <3>1, <3>3, <4>1, <5>1, Shapes
        <5>3. held'[p][1 + 1] = held[p][1] /\ 1 + 1 = 2
          BY <3>1, <5>2
        <5>. QED BY <2>2, <3>2, <4>1, <5>1, <5>2, <5>3
      <4>2. CASE q # p
        BY <3>1, <3>2, <3>3, <4>2 DEF NestInv, Under
      <4>. QED BY <4>1, <4>2
    <3>. QED BY <3>1, <3>3 DEF NestInv
  <2>5. ASSUME NEW b \in Buf, pc' = [pc EXCEPT ![p] = "bget"], UNCHANGED <<bufs, held, panicked>>
        PROVE  RoomInv'
    BY <2>2, <2>5 DEF NestInv, Under, TypeOK, bufs
  <2>6. ~ \A b \in Buf : busy[b]
    BY <2>3
  <2>7. ASSUME NEW b \in Buf, Cached(b, s), ~busy[b], Take(p, b), UNCHANGED <<sector, valid>>
        PROVE  RoomInv'
    BY <2>4, <2>7 DEF TypeOK
  <2>8. ASSUME NEW b \in Buf, Oldest(b), Take(p, b), sector' = [sector EXCEPT ![b] = s]
        PROVE  RoomInv'
    <3>1. sector' = [sector EXCEPT ![b] = sector'[b]]
      BY <2>8 DEF TypeOK
    <3>. QED BY <2>4, <2>8, <3>1 DEF Oldest
  <2>. QED BY <2>1, <2>5, <2>6, <2>7, <2>8 DEF Entering, BgetPass
<1>2. ASSUME NEW p \in Proc, Bread(p) \/ Bwrite(p) \/ IderwAgain(p) \/ Kill(p) PROVE RoomInv'
  <2>1. /\ UNCHANGED <<sector, held, panicked>>
        /\ \A q \in Proc : pc'[q] = "bget" => pc[q] = "bget"
    BY <1>2 DEF Bread, Bwrite, IderwAgain, Kill, Iderw, bufs, TypeOK
  <2>. QED BY <2>1 DEF NestInv, Under
<1>3. ASSUME NEW p \in Proc, Brelse(p) PROVE RoomInv'
  <2>1. /\ UNCHANGED <<sector, panicked>> /\ held[p] \in Seq(Buf) /\ held[p] # <<>>
        /\ \A q \in Proc \ {p} : held'[q] = held[q] /\ pc'[q] = pc[q]
        /\ held'[p] = Tail(held[p]) /\ pc'[p] # "bget"
    BY <1>3 DEF Brelse, PlaceInv, TypeOK
  <2>2. Len(held'[p]) = Len(held[p]) - 1 /\ Len(held[p]) <= 2 /\ Len(held[p]) \in Nat
    BY <2>1, TailFacts, Shapes DEF HeldInv
  <2>3. \A i \in 1 .. Len(held'[p]) : ~Under(p, i)'
    BY <2>1, <2>2 DEF Under
  <2>. QED BY <2>1, <2>3 DEF NestInv, Under
<1>4. CASE DriveDone \/ Ideintr \/ UNCHANGED vars
  <2>1. UNCHANGED <<sector, held, pc, panicked>>
    BY <1>4 DEF DriveDone, Ideintr, vars, bufs, procs
  <2>. QED BY <2>1 DEF NestInv, Under
<1>. QED BY <1>1, <1>2, <1>3, <1>4 DEF Next, Work

(* The cache as a whole is sound when the drive fails no read and there are *)
(* buffers enough: bget never panics, no sector has two buffers, a clean    *)
(* one holds what the disk holds, and the drive serves the queue's head     *)
(* (bget, iderw, ideintr, brelse).                                          *)
THEOREM CacheCorrect == ASSUME ~ReadErrors, Plenty PROVE Spec => []CacheSound
<1>1. Init => IInv /\ DataInv /\ RoomInv
  <2>1. Init => RoomInv
    BY DEF Init, RoomInv, NestInv
  <2>. QED BY <2>1, InitIInv, InitDataInv
<1>2. (IInv /\ DataInv /\ RoomInv) /\ [Next]_vars => (IInv /\ DataInv /\ RoomInv)'
  BY IInvStep, DataInvStep, RoomStep
<1>3. IInv /\ DataInv /\ RoomInv => CacheSound
  BY DEF IInv, DataInv, RoomInv, CacheSound, EnoughBuffers
<1>. QED BY <1>1, <1>2, <1>3, PTL DEF Spec
===============================================================================

----------------------------- MODULE ByteStream -----------------------------
(***************************************************************************)
(* What a pipe promises: the bytes come out in the order they went in, none *)
(* is lost or made up, at most Cap are in transit, and a reader sees the    *)
(* end of the stream only when all has been read and no writer is left.     *)
(***************************************************************************)
EXTENDS Naturals, Sequences
CONSTANTS Byte, Proc, Cap
VARIABLES stream, readers, writers, eof
vars == <<stream, readers, writers, eof>>

Init ==
  /\ stream = <<>> /\ eof = {}
  /\ readers \in SUBSET Proc /\ writers \in SUBSET Proc

Send ==
  /\ writers # {}
  /\ \E k \in 1 .. Cap - Len(stream) : \E s \in [1 .. k -> Byte] : stream' = stream \o s
  /\ UNCHANGED <<readers, writers, eof>>
Receive ==
  /\ readers # {}
  /\ \E k \in 1 .. Len(stream) : stream' = SubSeq(stream, k + 1, Len(stream))
  /\ UNCHANGED <<readers, writers, eof>>
Start(p) == p \in eof /\ eof' = eof \ {p} /\ UNCHANGED <<stream, readers, writers>>
SeeEnd(p) ==
  /\ p \in readers /\ stream = <<>> /\ writers = {}
  /\ eof' = eof \cup {p}
  /\ UNCHANGED <<stream, readers, writers>>
Close(p) ==
  /\ \/ readers' = readers \ {p} /\ UNCHANGED writers
     \/ writers' = writers \ {p} /\ UNCHANGED readers
  /\ UNCHANGED <<stream, eof>>

Next == Send \/ Receive \/ \E p \in Proc : Start(p) \/ SeeEnd(p) \/ Close(p)
Spec == Init /\ [][Next]_vars
=============================================================================

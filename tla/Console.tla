------------------------------ MODULE Console ------------------------------
(* The console's input of K4 (console.c): a ring of INPUT_BUF characters with  *)
(* three unsigned indices, the interrupt handler that edits the last line and  *)
(* commits it, and the processes that read lines and sleep on &input.r.        *)
(* input.lock makes a character typed, or taken, one step; kill does not take  *)
(* that lock.                                                                  *)
EXTENDS Naturals, Sequences

CONSTANTS
    INPUT_BUF,
    WIDTH,        \* the indices are taken modulo WIDTH: 2^32 in the code
    Plain,        \* characters without a meaning of their own
    Proc,         \* the processes that read
    NoProc,
    MaxN,         \* bound: the most characters one call asks for
    Killable      \* processes that kill may hit

ASSUME ConsoleAssumption ==
    /\ INPUT_BUF \in Nat \ {0} /\ MaxN \in Nat
    /\ WIDTH \in Nat /\ INPUT_BUF < WIDTH /\ WIDTH % INPUT_BUF = 0
    /\ Plain \cap {"newline", "eof"} = {}
    /\ NoProc \notin Proc /\ Killable \subseteq Proc

VARIABLES
    buf, r, w, e,     \* input
    pc,               \* of each reader: "idle", "enter" (wants input.lock), "read",
                      \* "empty" (tested killed, still has the lock), "asleep"
    left,             \* the characters its call still asks for (n)
    given,            \* what its call has stored so far
    lock,             \* the reader that has input.lock
    killed

ring == <<buf, r, w, e>>
vars == <<ring, pc, left, given, lock, killed>>

Char == Plain \cup {"newline", "eof"}

(* Unsigned arithmetic on the indices.                                         *)
Inc(x) == IF x + 1 = WIDTH THEN 0 ELSE x + 1
Dec(x) == IF x = 0 THEN WIDTH - 1 ELSE x - 1
Plus(x, n) == IF x + n < WIDTH THEN x + n ELSE x + n - WIDTH
Sub(x, y) == IF y <= x THEN x - y ELSE x + WIDTH - y
At(x) == buf[x % INPUT_BUF]

Init ==
    /\ buf \in [0 .. INPUT_BUF - 1 -> {"newline"}]
    /\ r = 0 /\ w = 0 /\ e = 0
    /\ pc = [p \in Proc |-> "idle"] /\ left = [p \in Proc |-> 0]
    /\ given = [p \in Proc |-> <<>>]
    /\ lock = NoProc /\ killed = {}
-----------------------------------------------------------------------------
(* Slip: the line is committed and the readers are not woken.                  *)
WokenNobody == pc

(* wakeup(&input.r)                                                            *)
Woken == [p \in Proc |-> IF pc[p] = "asleep" THEN "enter" ELSE pc[p]]

(* consoleintr: a character is stored while there is room, and a line ends at  *)
(* a newline, an end of file or a full ring.                                   *)
EndsLine(c) == c \in {"newline", "eof"} \/ Inc(e) = Plus(r, INPUT_BUF)
HasRoom == Sub(e, r) < INPUT_BUF
KeyChar(c) ==
    /\ lock = NoProc /\ HasRoom
    /\ buf' = [buf EXCEPT ![e % INPUT_BUF] = c]
    /\ e' = Inc(e)
    /\ IF EndsLine(c) THEN w' = Inc(e) /\ pc' = Woken ELSE UNCHANGED <<w, pc>>
    /\ UNCHANGED <<r, left, given, lock, killed>>

(* Slip: a line that was ended can be taken back too.                          *)
CanEraseAll == e # r

(* ... ^H takes back a character, and ^U the line, of what is not committed.   *)
CanErase == e # w
KeyBackspace ==
    /\ lock = NoProc /\ CanErase
    /\ e' = Dec(e)
    /\ UNCHANGED <<buf, r, w, pc, left, given, lock, killed>>

(* The e that ^U leaves: its loop stops at w, or behind a newline.             *)
KillStops(x) ==
    /\ Sub(x, w) <= Sub(e, w)
    /\ x = w \/ At(Dec(x)) = "newline"
    /\ \A y \in 0 .. WIDTH - 1 :
          Sub(x, w) < Sub(y, w) /\ Sub(y, w) <= Sub(e, w) => At(Dec(y)) # "newline"
KeyKill ==
    /\ lock = NoProc /\ e # w
    /\ \E x \in 0 .. WIDTH - 1 : KillStops(x) /\ e' = x
    /\ UNCHANGED <<buf, r, w, pc, left, given, lock, killed>>
-----------------------------------------------------------------------------
(* consoleread: the call, ...                                                  *)
ReadCall(p, n) ==
    /\ pc[p] = "idle" /\ p \notin killed
    /\ pc' = [pc EXCEPT ![p] = "enter"]
    /\ left' = [left EXCEPT ![p] = n]
    /\ given' = [given EXCEPT ![p] = <<>>]
    /\ UNCHANGED <<ring, lock, killed>>

(* ... acquire(&input.lock), ...                                               *)
ReadEnter(p) ==
    /\ pc[p] = "enter" /\ lock = NoProc
    /\ lock' = p
    /\ pc' = [pc EXCEPT ![p] = "read"]
    /\ UNCHANGED <<ring, left, given, killed>>

Leave(p) == pc' = [pc EXCEPT ![p] = "idle"] /\ lock' = NoProc
Stay == UNCHANGED <<pc, lock>>

(* Slip: an end of file behind a part of a line is swallowed.                  *)
EofLost(p) == FALSE

(* ... a character: an end of file is put back unless it is the first, ...     *)
EofKept(p) == given[p] # <<>>
ReadChar(p) ==
    /\ pc[p] = "read" /\ left[p] > 0 /\ r # w
    /\ IF At(r) = "eof"
       THEN /\ r' = IF EofKept(p) THEN r ELSE Inc(r)
            /\ Leave(p) /\ UNCHANGED <<given, left>>
       ELSE /\ r' = Inc(r)
            /\ given' = [given EXCEPT ![p] = Append(@, At(r))]
            /\ left' = [left EXCEPT ![p] = @ - 1]
            /\ IF At(r) = "newline" THEN Leave(p) ELSE Stay
    /\ UNCHANGED <<buf, w, e, killed>>

(* ... the return when n characters are stored, ...                            *)
ReadFull(p) ==
    /\ pc[p] = "read" /\ left[p] = 0
    /\ Leave(p)
    /\ UNCHANGED <<ring, left, given, killed>>

(* ... and, with no line to read, the test of killed and the sleep.            *)
ReadEmpty(p) ==
    /\ pc[p] = "read" /\ left[p] > 0 /\ r = w
    /\ IF p \in killed THEN Leave(p)
       ELSE pc' = [pc EXCEPT ![p] = "empty"] /\ UNCHANGED lock
    /\ UNCHANGED <<ring, left, given, killed>>

ReadSleep(p) ==
    /\ pc[p] = "empty"
    /\ pc' = [pc EXCEPT ![p] = "asleep"]
    /\ lock' = NoProc
    /\ UNCHANGED <<ring, left, given, killed>>

Kill(p) ==
    /\ p \in Killable \ killed
    /\ killed' = killed \cup {p}
    /\ pc' = [pc EXCEPT ![p] = IF @ = "asleep" THEN "enter" ELSE @]
    /\ UNCHANGED <<ring, left, given, lock>>

Key == KeyBackspace \/ KeyKill \/ \E c \in Char : KeyChar(c)
Read(p) == ReadEnter(p) \/ ReadChar(p) \/ ReadFull(p) \/ ReadEmpty(p) \/ ReadSleep(p)
Next ==
    \/ Key
    \/ \E p \in Proc : Read(p) \/ Kill(p) \/ \E n \in 0 .. MaxN : ReadCall(p, n)
Spec == Init /\ [][Next]_vars

(* A process that has the lock goes on; one that wants it gets it in the end.  *)
Fairness ==
    \A p \in Proc :
        /\ SF_vars(ReadEnter(p))
        /\ WF_vars(ReadChar(p) \/ ReadFull(p) \/ ReadEmpty(p) \/ ReadSleep(p))
FairSpec == Spec /\ Fairness
-----------------------------------------------------------------------------
TypeOK ==
    /\ buf \in [0 .. INPUT_BUF - 1 -> Char]
    /\ r \in 0 .. WIDTH - 1 /\ w \in 0 .. WIDTH - 1 /\ e \in 0 .. WIDTH - 1
    /\ pc \in [Proc -> {"idle", "enter", "read", "empty", "asleep"}]
    /\ left \in [Proc -> 0 .. MaxN]
    /\ given \in [Proc -> Seq(Char)]
    /\ lock \in Proc \cup {NoProc}
    /\ killed \subseteq Killable

(* Across the wraparound of the indices the ring holds at most INPUT_BUF       *)
(* characters, r to w to e in this order, and a ring that is full is all       *)
(* committed: nobody waits for a line that cannot end (console.c:206,210).     *)
RingSound ==
    /\ TypeOK
    /\ Sub(w, r) + Sub(e, w) = Sub(e, r)
    /\ Sub(e, r) <= INPUT_BUF
    /\ Sub(e, r) = INPUT_BUF => w = e

(* The console is a stream of lines.                                           *)
Chars(x, y) == [i \in 1 .. Sub(y, x) |-> At((x + i - 1) % WIDTH)]
Stream == INSTANCE LineStream WITH Cap <- INPUT_BUF, stream <- Chars(r, w), edit <- Chars(w, e)
ImplementsLines == Stream!Spec

(* A line that was ended is read if a process reads, and a reader that kill    *)
(* finds asleep or before its test of killed returns: only one that has tested *)
(* and not yet slept stays for the next line (console.c:232).                  *)
ReaderServed ==
    \A p \in Proc :
        /\ (pc[p] # "idle" /\ r # w) ~> (pc[p] = "idle" \/ r = w)
        /\ (pc[p] \in {"enter", "read"} /\ p \in killed) ~> (pc[p] = "idle")
=============================================================================

---------------------------- MODULE ConsoleProofs ----------------------------
(* Proofs about Console for every size of the ring, width of the indices and   *)
(* number of readers: the indices stay in order when they wrap around, and     *)
(* what the readers get are the committed lines.  And, from the bar "Spinlock", *)
(* proofs about the locks its handler and its readers take, for every number   *)
(* of CPUs and processes.                                                      *)
EXTENDS Console, Spinlock, SequenceTheorems, TLAPS

Index == 0 .. WIDTH - 1

(* The distances between the indices, all the invariant is about.              *)
Ordered ==
    /\ Sub(w, r) + Sub(e, w) = Sub(e, r)
    /\ Sub(e, r) <= INPUT_BUF
    /\ Sub(e, r) = INPUT_BUF => w = e

LEMMA IndexType ==
    ASSUME NEW x \in Index
    PROVE  Inc(x) \in Index /\ Dec(x) \in Index
BY ConsoleAssumption DEF Index, Inc, Dec

LEMMA SlotInRing ==
    ASSUME NEW x \in Nat
    PROVE  x % INPUT_BUF \in 0 .. INPUT_BUF - 1
BY ConsoleAssumption

LEMMA CharType ==
    ASSUME TypeOK, NEW x \in Index
    PROVE  At(x) \in Char
<1>1. x % INPUT_BUF \in 0 .. INPUT_BUF - 1
    <2>1. x \in Nat
        BY ConsoleAssumption DEF Index
    <2>. QED BY <2>1, SlotInRing
<1>. QED BY <1>1 DEF At, TypeOK

(* What a step may do to the indices.                                          *)
Typed ==
    /\ HasRoom /\ e' = Inc(e) /\ r' = r
    /\ \/ w' = Inc(e)
       \/ w' = w /\ Inc(e) # Plus(r, INPUT_BUF)
Erased == Sub(e', w) <= Sub(e, w) /\ e' \in Index /\ r' = r /\ w' = w
Taken == r # w /\ r' = Inc(r) /\ w' = w /\ e' = e

LEMMA TypedKeeps ==
    ASSUME TypeOK, Ordered, Typed
    PROVE  Ordered'
<1>. DEFINE N == 0 .. WIDTH - 1
<1>1. /\ r \in N /\ w \in N /\ e \in N /\ WIDTH \in Nat /\ INPUT_BUF \in Nat
      /\ 0 < INPUT_BUF /\ INPUT_BUF < WIDTH
    BY ConsoleAssumption DEF TypeOK
<1>2. Sub(e', r') = Sub(e, r) + 1
    BY <1>1 DEF Typed, HasRoom, Inc, Sub
<1>3. CASE w' = Inc(e)
    <2>1. w' = e' /\ Sub(e', w') = 0
        BY <1>1, <1>3 DEF Typed, Inc, Sub
    <2>. QED BY <1>1, <1>2, <1>3, <2>1 DEF Ordered, Typed, HasRoom, Inc, Sub
<1>4. CASE w' = w /\ Inc(e) # Plus(r, INPUT_BUF)
    <2>1. Sub(e', w') = Sub(e, w) + 1
        BY <1>1, <1>4 DEF Ordered, Typed, HasRoom, Inc, Sub
    <2>2. Sub(e', r') # INPUT_BUF
        BY <1>1, <1>4 DEF Typed, HasRoom, Inc, Plus, Sub
    <2>. QED BY <1>1, <1>2, <1>4, <2>1, <2>2 DEF Ordered, Typed, HasRoom, Sub
<1>. QED BY <1>3, <1>4 DEF Typed

LEMMA ErasedKeeps ==
    ASSUME TypeOK, Ordered, Erased
    PROVE  Ordered'
<1>. DEFINE N == 0 .. WIDTH - 1
<1>1. /\ r \in N /\ w \in N /\ e \in N /\ e' \in N /\ WIDTH \in Nat /\ INPUT_BUF \in Nat
      /\ INPUT_BUF < WIDTH
    BY ConsoleAssumption DEF TypeOK, Erased, Index
<1>2. Sub(e', w) <= Sub(e, w) /\ r' = r /\ w' = w
    BY DEF Erased
<1>3. ASSUME NEW a \in N, NEW b \in N, NEW c \in N, NEW d \in N,
             Sub(b, a) + Sub(c, b) = Sub(c, a), Sub(c, a) <= INPUT_BUF,
             Sub(d, b) <= Sub(c, b)
      PROVE  /\ Sub(b, a) + Sub(d, b) = Sub(d, a) /\ Sub(d, a) <= Sub(c, a)
             /\ Sub(d, a) = Sub(c, a) /\ b = c => d = b
    BY <1>1, <1>3 DEF Sub
<1>4. Sub(w, r) + Sub(e', w) = Sub(e', r) /\ Sub(e', r) <= Sub(e, r)
      /\ (Sub(e', r) = Sub(e, r) /\ w = e => e' = w)
    <2>1. Sub(w, r) + Sub(e, w) = Sub(e, r) /\ Sub(e, r) <= INPUT_BUF
        BY DEF Ordered
    <2>. QED BY <1>1, <1>2, <1>3, <2>1
<1>5. \A a, b \in N : Sub(a, b) \in Nat
    BY <1>1 DEF Sub
<1>. QED BY <1>1, <1>2, <1>4, <1>5 DEF Ordered

LEMMA TakenKeeps ==
    ASSUME TypeOK, Ordered, Taken
    PROVE  Ordered'
BY ConsoleAssumption DEF TypeOK, Ordered, Taken, Inc, Sub

LEMMA InitSound == Init => RingSound
<1>. SUFFICES ASSUME Init PROVE RingSound
    OBVIOUS
<1>1. 0 \in Index /\ "newline" \in Char
    BY ConsoleAssumption DEF Index, Char
<1>2. <<>> \in Seq(Char)
    OBVIOUS
<1>3. TypeOK
    <2>1. buf \in [0 .. INPUT_BUF - 1 -> Char]
        BY <1>1 DEF Init
    <2>2. left \in [Proc -> 0 .. MaxN] /\ given \in [Proc -> Seq(Char)]
        BY <1>2, ConsoleAssumption DEF Init
    <2>. QED BY <1>1, <2>1, <2>2 DEF Init, TypeOK, Index
<1>4. Ordered
    BY ConsoleAssumption DEF Init, Ordered, Sub
<1>. QED BY <1>3, <1>4 DEF RingSound, Ordered

LEMMA TypeStep ==
    ASSUME TypeOK, [Next]_vars
    PROVE  TypeOK'
<1>1. CASE \E c \in Char : KeyChar(c)
    <2>. PICK c \in Char : KeyChar(c)
        BY <1>1
    <2>0. e \in Index /\ e \in Nat
        BY ConsoleAssumption DEF TypeOK, Index
    <2>1. e % INPUT_BUF \in 0 .. INPUT_BUF - 1 /\ Inc(e) \in Index
        BY <2>0, SlotInRing, IndexType
    <2>2. buf' \in [0 .. INPUT_BUF - 1 -> Char]
        BY <2>1 DEF KeyChar, TypeOK
    <2>3. w' \in Index /\ e' \in Index
        BY <2>1 DEF KeyChar, TypeOK, Index
    <2>4. pc' \in [Proc -> {"idle", "enter", "read", "empty", "asleep"}]
        BY DEF KeyChar, TypeOK, Woken
    <2>. QED BY <2>2, <2>3, <2>4 DEF KeyChar, TypeOK, Index
<1>2. CASE KeyBackspace \/ KeyKill
    <2>1. e' \in Index
        BY <1>2, IndexType DEF KeyBackspace, KeyKill, TypeOK, Index
    <2>. QED BY <1>2, <2>1 DEF KeyBackspace, KeyKill, TypeOK, Index
<1>3. CASE \E p \in Proc, n \in 0 .. MaxN : ReadCall(p, n)
    BY <1>3 DEF ReadCall, TypeOK, ring
<1>4. CASE \E p \in Proc : ReadEnter(p) \/ ReadFull(p) \/ ReadEmpty(p) \/ ReadSleep(p)
    BY <1>4 DEF ReadEnter, ReadFull, ReadEmpty, ReadSleep, Leave, TypeOK, ring
<1>5. CASE \E p \in Proc : ReadChar(p)
    <2>. PICK p \in Proc : ReadChar(p)
        BY <1>5
    <2>1. At(r) \in Char /\ Inc(r) \in Index
        BY CharType, IndexType DEF TypeOK, Index
    <2>2. r' \in Index
        BY <2>1 DEF ReadChar, TypeOK, Index
    <2>3. left' \in [Proc -> 0 .. MaxN]
        <3>1. left[p] \in 0 .. MaxN /\ left[p] > 0
            BY DEF ReadChar, TypeOK
        <3>2. left[p] - 1 \in 0 .. MaxN
            BY <3>1, ConsoleAssumption
        <3>. QED BY <3>2 DEF ReadChar, TypeOK
    <2>4. given' \in [Proc -> Seq(Char)]
        <3>1. given[p] \in Seq(Char)
            BY DEF TypeOK
        <3>2. Append(given[p], At(r)) \in Seq(Char)
            BY <2>1, <3>1
        <3>. QED BY <3>2 DEF ReadChar, TypeOK
    <2>5. pc' \in [Proc -> {"idle", "enter", "read", "empty", "asleep"}] /\ lock' \in Proc \cup {NoProc}
        BY DEF ReadChar, TypeOK, Leave, Stay
    <2>. QED BY <2>2, <2>3, <2>4, <2>5 DEF ReadChar, TypeOK, Index
<1>6. CASE \E p \in Proc : Kill(p)
    BY <1>6 DEF Kill, TypeOK, ring
<1>7. CASE UNCHANGED vars
    BY <1>7 DEF vars, ring, TypeOK
<1>. QED BY <1>1, <1>2, <1>3, <1>4, <1>5, <1>6, <1>7 DEF Next, Key, Read

LEMMA OrderStep ==
    ASSUME TypeOK, Ordered, [Next]_vars
    PROVE  Ordered'
<1>. USE DEF TypeOK
<1>1. CASE \E c \in Char : KeyChar(c)
    <2>1. Typed
        BY <1>1 DEF KeyChar, EndsLine, Typed
    <2>. QED BY <2>1, TypedKeeps
<1>2. CASE KeyBackspace
    <2>1. Erased
        BY <1>2, ConsoleAssumption DEF KeyBackspace, CanErase, Erased, Sub, Dec, Index
    <2>. QED BY <2>1, ErasedKeeps
<1>3. CASE KeyKill
    <2>1. Erased
        BY <1>3 DEF KeyKill, KillStops, Erased, Index
    <2>. QED BY <2>1, ErasedKeeps
<1>4. CASE \E p \in Proc : ReadChar(p)
    <2>1. Taken \/ UNCHANGED <<r, w, e>>
        BY <1>4 DEF ReadChar, Taken
    <2>2. CASE UNCHANGED <<r, w, e>>
        BY <2>2 DEF Ordered, Sub
    <2>. QED BY <2>1, <2>2, TakenKeeps
<1>5. CASE UNCHANGED <<r, w, e>>
    BY <1>5 DEF Ordered, Sub
<1>6. \/ \E c \in Char : KeyChar(c)
      \/ KeyBackspace \/ KeyKill
      \/ \E p \in Proc : ReadChar(p)
      \/ UNCHANGED <<r, w, e>>
    BY DEF Next, vars, ring, Key, Read, ReadCall, ReadEnter, ReadFull, ReadEmpty, ReadSleep, Kill
<1>. QED BY <1>1, <1>2, <1>3, <1>4, <1>5, <1>6

(* The ring never overflows, its indices stay in order when they wrap around,  *)
(* and a full ring is a line somebody can read (console.c), for any INPUT_BUF. *)
THEOREM RingCorrect == Spec => []RingSound
<1>1. Init => RingSound
    BY InitSound
<1>2. RingSound /\ [Next]_vars => RingSound'
    BY TypeStep, OrderStep DEF RingSound, Ordered
<1>. QED BY <1>1, <1>2, PTL DEF Spec
-----------------------------------------------------------------------------
(* The ring as a stream of lines.  Division: a number is in one slot, and two  *)
(* numbers in one slot that are less than a turn apart are the same.           *)
LEMMA DivMod ==
    ASSUME NEW a \in Nat, NEW P \in Nat \ {0}
    PROVE  a % P \in 0 .. P - 1 /\ a \div P \in Int /\ a = (P * (a \div P)) + (a % P)
<1>1. a % P \in 0 .. P - 1
    OBVIOUS
<1>2. a = (P * (a \div P)) + (a % P)
    OBVIOUS
<1>3. a \div P \in Int
    OBVIOUS
<1>. QED BY <1>1, <1>2, <1>3

LEMMA Multiple ==
    ASSUME NEW P \in Nat \ {0}, NEW q \in Int, NEW d \in Nat, d < P, d = P * q
    PROVE  d = 0
<1>1. CASE q = 0
    BY <1>1
<1>2. CASE q > 0
    <2>1. P * q >= P
        BY <1>2
    <2>. QED BY <2>1
<1>3. CASE q < 0
    <2>1. P * q < 0
        BY <1>3
    <2>. QED BY <2>1
<1>. QED BY <1>1, <1>2, <1>3

LEMMA SameSlot ==
    ASSUME NEW P \in Nat \ {0}, NEW a \in Nat, NEW b \in Nat, NEW d \in Nat, d < P,
         NEW m \in Int, b = a + d + (P * m), a % P = b % P
    PROVE  d = 0
<1>1. PICK i \in Int, x \in Int : a % P = x /\ a = (P * i) + x
    <2>1. a % P \in Int /\ a \div P \in Int /\ a = (P * (a \div P)) + (a % P)
        BY DivMod
    <2>. QED BY <2>1
<1>2. PICK j \in Int : b = (P * j) + x
    <2>1. b \div P \in Int /\ b = (P * (b \div P)) + (b % P)
        BY DivMod
    <2>. QED BY <1>1, <2>1
<1>3. d = (P * j) - (P * i) - (P * m)
    <2>1. P * i \in Int /\ P * j \in Int /\ P * m \in Int
        OBVIOUS
    <2>. QED BY <1>1, <1>2, <2>1
<1>4. (P * j) - (P * i) - (P * m) = P * (j - i - m)
    OBVIOUS
<1>5. j - i - m \in Int
    OBVIOUS
<1>. QED BY <1>3, <1>4, <1>5, Multiple

LEMMA OneRemainder ==
    ASSUME NEW P \in Nat \ {0}, NEW a \in Nat, NEW b \in 0 .. P - 1, NEW q \in Int,
           a = b + (P * q)
    PROVE  a % P = b
<1>1. PICK x \in 0 .. P - 1, i \in Int : a % P = x /\ a = (P * i) + x
    <2>1. a % P \in 0 .. P - 1 /\ a \div P \in Int /\ a = (P * (a \div P)) + (a % P)
        BY DivMod
    <2>. QED BY <2>1
<1>2. x - b = P * (q - i) /\ b - x = P * (i - q) /\ q - i \in Int /\ i - q \in Int
    BY <1>1
<1>3. CASE x >= b
    <2>1. x - b \in Nat /\ x - b < P
        BY <1>3
    <2>2. x - b = 0
        BY <1>2, <2>1, Multiple, Zenon
    <2>. QED BY <1>1, <2>2
<1>4. CASE x < b
    <2>1. b - x \in Nat /\ b - x < P
        BY <1>4
    <2>2. b - x = 0
        BY <1>2, <2>1, Multiple, Zenon
    <2>. QED BY <1>1, <2>2
<1>. QED BY <1>3, <1>4

(* What the operators on sequences do, cell by cell.                           *)
LEMMA Joined ==
    ASSUME NEW S, NEW s \in Seq(S), NEW t \in Seq(S), NEW u \in Seq(S),
           Len(u) = Len(s) + Len(t),
           \A i \in 1 .. Len(s) : u[i] = s[i],
           \A i \in 1 .. Len(t) : u[Len(s) + i] = t[i]
    PROVE  u = s \o t
<1>1. s \o t \in Seq(S) /\ Len(s \o t) = Len(s) + Len(t)
    OBVIOUS
<1>2. ASSUME NEW i \in 1 .. Len(u) PROVE u[i] = (s \o t)[i]
    <2>1. CASE i <= Len(s)
        BY <2>1
    <2>2. CASE i > Len(s)
        <3>1. i - Len(s) \in 1 .. Len(t) /\ i = Len(s) + (i - Len(s))
            BY <2>2
        <3>. QED BY <2>2, <3>1
    <2>. QED BY <2>1, <2>2
<1>. QED BY <1>1, <1>2, SeqEqual

LEMMA Appended ==
    ASSUME NEW S, NEW s \in Seq(S), NEW c \in S, NEW u \in Seq(S),
           Len(u) = Len(s) + 1, \A i \in 1 .. Len(s) : u[i] = s[i], u[Len(s) + 1] = c
    PROVE  u = Append(s, c)
<1>1. /\ Append(s, c) \in Seq(S) /\ Len(Append(s, c)) = Len(s) + 1
      /\ \A i \in 1 .. Len(s) : Append(s, c)[i] = s[i]
      /\ Append(s, c)[Len(s) + 1] = c
    OBVIOUS
<1>2. \A i \in 1 .. Len(s) + 1 : i \in 1 .. Len(s) \/ i = Len(s) + 1
    OBVIOUS
<1>. QED BY <1>1, <1>2, SeqEqual

LEMMA Shortened ==
    ASSUME NEW S, NEW s \in Seq(S), NEW u \in Seq(S), Len(s) > 0,
           Len(u) = Len(s) - 1, \A i \in 1 .. Len(u) : u[i] = s[i]
    PROVE  u = SubSeq(s, 1, Len(s) - 1)
<1>1. /\ SubSeq(s, 1, Len(s) - 1) \in Seq(S)
      /\ Len(SubSeq(s, 1, Len(s) - 1)) = Len(s) - 1
      /\ \A i \in 1 .. Len(s) - 1 : SubSeq(s, 1, Len(s) - 1)[i] = s[i]
    OBVIOUS
<1>. QED BY <1>1, SeqEqual

LEMMA Behind ==
    ASSUME NEW S, NEW s \in Seq(S), NEW u \in Seq(S), s # <<>>,
           Len(u) = Len(s) - 1, \A i \in 1 .. Len(u) : u[i] = s[i + 1]
    PROVE  u = Tail(s) /\ Head(s) = s[1]
<1>1. /\ Tail(s) \in Seq(S) /\ Len(Tail(s)) = Len(s) - 1 /\ Head(s) = s[1]
      /\ \A i \in 1 .. Len(s) - 1 : Tail(s)[i] = s[i + 1]
    OBVIOUS
<1>. QED BY <1>1, SeqEqual

(* The i-th cell from x, and the characters from x to before y.                *)
Cell(x, i) == Plus(x, i) % INPUT_BUF
Line(b, x, y) == [i \in 1 .. Sub(y, x) |-> b[Cell(x, i - 1)]]
Ring == [0 .. INPUT_BUF - 1 -> Char]

LEMMA PlusType ==
    ASSUME NEW x \in Index, NEW i \in Index
    PROVE  Plus(x, i) \in Index
BY ConsoleAssumption DEF Index, Plus

LEMMA CellType ==
    ASSUME NEW x \in Index, NEW i \in Index
    PROVE  Cell(x, i) \in 0 .. INPUT_BUF - 1
<1>1. Plus(x, i) \in Nat
    BY PlusType, ConsoleAssumption DEF Index
<1>. QED BY <1>1, SlotInRing DEF Cell

LEMMA IsLine ==
    ASSUME NEW x \in Index, NEW y \in Index
    PROVE  Chars(x, y) = Line(buf, x, y)
<1>1. ASSUME NEW i \in 1 .. Sub(y, x) PROVE (x + i - 1) % WIDTH = Plus(x, i - 1)
    <2>1. /\ Plus(x, i - 1) \in 0 .. WIDTH - 1 /\ x + i - 1 \in Nat /\ WIDTH \in Nat \ {0}
          /\ x + i - 1 = Plus(x, i - 1) \/ x + i - 1 = Plus(x, i - 1) + WIDTH
        BY ConsoleAssumption DEF Index, Plus, Sub
    <2>2. x + i - 1 = Plus(x, i - 1) + (WIDTH * 0) \/ x + i - 1 = Plus(x, i - 1) + (WIDTH * 1)
        BY <2>1
    <2>3. 0 \in Int /\ 1 \in Int
        OBVIOUS
    <2>. QED BY <2>1, <2>2, <2>3, OneRemainder, Zenon
<1>. QED BY <1>1 DEF Chars, Line, At, Cell

(* The indices wrap at a multiple of INPUT_BUF, so a turn of the ring has no   *)
(* cell twice.                                                                 *)
LEMMA CellApart ==
    ASSUME NEW x \in Index, NEW j \in 0 .. INPUT_BUF - 1, NEW k \in 0 .. INPUT_BUF - 1,
           Cell(x, j) = Cell(x, k)
    PROVE  j = k
<1>1. ASSUME NEW i \in 0 .. INPUT_BUF - 1, NEW l \in 0 .. INPUT_BUF - 1, i <= l,
             Cell(x, i) = Cell(x, l)
      PROVE  i = l
    <2>0. i \in Index /\ l \in Index
        BY ConsoleAssumption DEF Index
    <2>1. PICK a \in Nat : a = Plus(x, i)
        BY <2>0, PlusType, ConsoleAssumption DEF Index
    <2>2. PICK b \in Nat : b = Plus(x, l)
        BY <2>0, PlusType, ConsoleAssumption DEF Index
    <2>3. PICK d \in Nat : d = l - i /\ d < INPUT_BUF
        BY <1>1, ConsoleAssumption
    <2>4. PICK turns \in Int : WIDTH = INPUT_BUF * turns
        <3>1. WIDTH \div INPUT_BUF \in Int
              /\ WIDTH = (INPUT_BUF * (WIDTH \div INPUT_BUF)) + (WIDTH % INPUT_BUF)
            BY DivMod, ConsoleAssumption
        <3>2. WIDTH = INPUT_BUF * (WIDTH \div INPUT_BUF)
            BY <3>1, ConsoleAssumption
        <3>. QED BY <3>1, <3>2
    <2>5. b = a + d \/ b = a + d - WIDTH
        BY <2>1, <2>2, <2>3, ConsoleAssumption DEF Plus, Index
    <2>6. PICK m \in Int : b = a + d + (INPUT_BUF * m)
        <3>1. /\ INPUT_BUF * 0 = 0 /\ INPUT_BUF * (0 - turns) = 0 - WIDTH
              /\ 0 - turns \in Int
            BY <2>4, ConsoleAssumption
        <3>2. CASE b = a + d
            BY <3>1, <3>2
        <3>3. CASE b = a + d - WIDTH
            <4>1. b = a + d + (INPUT_BUF * (0 - turns))
                BY <3>1, <3>3, ConsoleAssumption
            <4>. QED BY <3>1, <4>1
        <3>. QED BY <2>5, <3>2, <3>3
    <2>7. a % INPUT_BUF = b % INPUT_BUF
        BY <1>1, <2>1, <2>2 DEF Cell
    <2>8. INPUT_BUF \in Nat \ {0}
        BY ConsoleAssumption
    <2>9. d = 0
        BY <2>3, <2>6, <2>7, <2>8, SameSlot, Zenon
    <2>. QED BY <2>3, <2>9
<1>2. j <= k \/ k <= j
    BY ConsoleAssumption
<1>. QED BY <1>1, <1>2

LEMMA LineFacts ==
    ASSUME NEW b \in Ring, NEW x \in Index, NEW y \in Index
    PROVE  /\ Line(b, x, y) \in Seq(Char) /\ Len(Line(b, x, y)) = Sub(y, x)
           /\ Sub(y, x) \in Index /\ Sub(y, x) \in Nat
           /\ \A i \in 1 .. Sub(y, x) : Line(b, x, y)[i] = b[Cell(x, i - 1)]
<1>1. Sub(y, x) \in Index /\ Sub(y, x) \in Nat
    BY ConsoleAssumption DEF Index, Sub
<1>2. ASSUME NEW i \in 1 .. Sub(y, x) PROVE b[Cell(x, i - 1)] \in Char
    <2>1. i - 1 \in Index
        BY <1>1, ConsoleAssumption DEF Index
    <2>. QED BY <2>1, CellType DEF Ring
<1>3. Line(b, x, y) \in [1 .. Sub(y, x) -> Char]
    BY <1>2 DEF Line
<1>4. Line(b, x, y) \in Seq(Char) /\ Len(Line(b, x, y)) = Sub(y, x)
    BY <1>1, <1>3
<1>. QED BY <1>1, <1>4 DEF Line

LEMMA LineEmpty ==
    ASSUME NEW b \in Ring, NEW x \in Index, NEW y \in Index
    PROVE  Line(b, x, y) = <<>> <=> x = y
<1>1. Sub(y, x) = 0 <=> x = y
    BY ConsoleAssumption DEF Index, Sub
<1>. QED BY <1>1, LineFacts, EmptySeq

(* A character typed at z stays off the cells before it.                       *)
LEMMA LineKeeps ==
    ASSUME NEW b \in Ring, NEW x \in Index, NEW y \in Index, NEW z \in Index, NEW c \in Char,
           Sub(z, x) < INPUT_BUF, Sub(y, x) <= Sub(z, x)
    PROVE  /\ [b EXCEPT ![z % INPUT_BUF] = c] \in Ring
           /\ Line([b EXCEPT ![z % INPUT_BUF] = c], x, y) = Line(b, x, y)
<1>1. /\ z = Plus(x, Sub(z, x)) /\ Sub(z, x) \in 0 .. INPUT_BUF - 1 /\ z \in Nat
      /\ Sub(y, x) \in Nat
    BY ConsoleAssumption DEF Index, Plus, Sub
<1>2. z % INPUT_BUF = Cell(x, Sub(z, x)) /\ z % INPUT_BUF \in 0 .. INPUT_BUF - 1
    BY <1>1, SlotInRing DEF Cell
<1>3. ASSUME NEW i \in 1 .. Sub(y, x)
      PROVE  [b EXCEPT ![z % INPUT_BUF] = c][Cell(x, i - 1)] = b[Cell(x, i - 1)]
    <2>1. i - 1 \in 0 .. INPUT_BUF - 1 /\ i - 1 # Sub(z, x) /\ i - 1 \in Index
        BY <1>1, ConsoleAssumption DEF Index
    <2>2. Cell(x, i - 1) # z % INPUT_BUF /\ Cell(x, i - 1) \in 0 .. INPUT_BUF - 1
        BY <1>1, <1>2, <2>1, CellApart, CellType
    <2>. QED BY <2>2 DEF Ring
<1>4. [b EXCEPT ![z % INPUT_BUF] = c] \in Ring
    BY <1>2 DEF Ring
<1>. QED BY <1>3, <1>4 DEF Line

LEMMA LineGrows ==
    ASSUME NEW b \in Ring, NEW x \in Index, NEW y \in Index, NEW c \in Char,
           Sub(y, x) < INPUT_BUF
    PROVE  Line([b EXCEPT ![y % INPUT_BUF] = c], x, Inc(y)) = Append(Line(b, x, y), c)
<1>. DEFINE d == [b EXCEPT ![y % INPUT_BUF] = c]
<1>1. d \in Ring /\ Line(d, x, y) = Line(b, x, y)
    <2>1. Sub(y, x) <= Sub(y, x)
        BY LineFacts
    <2>. QED BY <2>1, LineKeeps
<1>2. Inc(y) \in Index /\ Sub(Inc(y), x) = Sub(y, x) + 1 /\ y = Plus(x, Sub(y, x))
    BY ConsoleAssumption DEF Index, Inc, Sub, Plus
<1>3. d[Cell(x, Sub(y, x))] = c
    <2>1. y % INPUT_BUF = Cell(x, Sub(y, x)) /\ y \in Nat
        BY <1>2, ConsoleAssumption DEF Cell, Index
    <2>2. y % INPUT_BUF \in 0 .. INPUT_BUF - 1
        BY <2>1, SlotInRing
    <2>. QED BY <2>1, <2>2 DEF Ring
<1>. HIDE DEF d
<1>4. /\ Line(d, x, Inc(y)) \in Seq(Char) /\ Len(Line(d, x, Inc(y))) = Sub(y, x) + 1
      /\ \A i \in 1 .. Sub(y, x) + 1 : Line(d, x, Inc(y))[i] = d[Cell(x, i - 1)]
    BY <1>1, <1>2, LineFacts
<1>5. /\ Line(d, x, y) \in Seq(Char) /\ Len(Line(d, x, y)) = Sub(y, x) /\ Sub(y, x) \in Nat
      /\ \A i \in 1 .. Sub(y, x) : Line(d, x, y)[i] = d[Cell(x, i - 1)]
    BY <1>1, LineFacts
<1>6. \A i \in 1 .. Sub(y, x) : Line(d, x, Inc(y))[i] = Line(d, x, y)[i]
    BY <1>4, <1>5
<1>7. Line(d, x, Inc(y))[Sub(y, x) + 1] = c
    <2>1. Sub(y, x) + 1 \in 1 .. Sub(y, x) + 1 /\ Sub(y, x) + 1 - 1 = Sub(y, x)
        BY <1>5
    <2>2. PICK n \in 1 .. Sub(y, x) + 1 : n = Sub(y, x) + 1
        BY <2>1
    <2>3. Line(d, x, Inc(y))[n] = d[Cell(x, n - 1)]
        BY <1>4
    <2>4. n - 1 = Sub(y, x)
        BY <1>5, <2>2
    <2>. QED BY <1>3, <2>2, <2>3, <2>4
<1>8. Line(d, x, Inc(y)) = Append(Line(d, x, y), c)
    BY <1>4, <1>5, <1>6, <1>7, Appended
<1>. QED BY <1>1, <1>8 DEF d

LEMMA LineShrinks ==
    ASSUME NEW b \in Ring, NEW x \in Index, NEW y \in Index, x # y
    PROVE  Line(b, x, Dec(y)) = SubSeq(Line(b, x, y), 1, Len(Line(b, x, y)) - 1)
<1>1. Dec(y) \in Index /\ Sub(Dec(y), x) = Sub(y, x) - 1 /\ Sub(y, x) > 0
    BY ConsoleAssumption DEF Index, Dec, Sub
<1>2. /\ Line(b, x, Dec(y)) \in Seq(Char) /\ Len(Line(b, x, Dec(y))) = Sub(y, x) - 1
      /\ \A i \in 1 .. Sub(y, x) - 1 : Line(b, x, Dec(y))[i] = b[Cell(x, i - 1)]
    BY <1>1, LineFacts
<1>3. /\ Line(b, x, y) \in Seq(Char) /\ Len(Line(b, x, y)) = Sub(y, x) /\ Sub(y, x) \in Nat
      /\ \A i \in 1 .. Sub(y, x) : Line(b, x, y)[i] = b[Cell(x, i - 1)]
    BY LineFacts
<1>4. \A i \in 1 .. Sub(y, x) - 1 : Line(b, x, Dec(y))[i] = Line(b, x, y)[i]
    BY <1>2, <1>3
<1>. QED BY <1>1, <1>2, <1>3, <1>4, Shortened

LEMMA LineTail ==
    ASSUME NEW b \in Ring, NEW x \in Index, NEW y \in Index, x # y
    PROVE  /\ Line(b, x, y) # <<>>
           /\ Head(Line(b, x, y)) = b[x % INPUT_BUF]
           /\ Line(b, Inc(x), y) = Tail(Line(b, x, y))
<1>1. /\ Inc(x) \in Index /\ Sub(y, Inc(x)) = Sub(y, x) - 1 /\ Sub(y, x) > 0
      /\ Plus(x, 0) = x /\ \A i \in 1 .. Sub(y, x) - 1 : Plus(Inc(x), i - 1) = Plus(x, i)
    BY ConsoleAssumption DEF Index, Inc, Sub, Plus
<1>2. /\ Line(b, Inc(x), y) \in Seq(Char) /\ Len(Line(b, Inc(x), y)) = Sub(y, x) - 1
      /\ \A i \in 1 .. Sub(y, x) - 1 : Line(b, Inc(x), y)[i] = b[Cell(Inc(x), i - 1)]
    <2>1. /\ Line(b, Inc(x), y) \in Seq(Char) /\ Len(Line(b, Inc(x), y)) = Sub(y, Inc(x))
          /\ \A i \in 1 .. Sub(y, Inc(x)) : Line(b, Inc(x), y)[i] = b[Cell(Inc(x), i - 1)]
        BY <1>1, LineFacts
    <2>. QED BY <1>1, <2>1
<1>3. /\ Line(b, x, y) \in Seq(Char) /\ Len(Line(b, x, y)) = Sub(y, x) /\ Sub(y, x) \in Nat
      /\ \A i \in 1 .. Sub(y, x) : Line(b, x, y)[i] = b[Cell(x, i - 1)]
    BY LineFacts
<1>4. Line(b, x, y) # <<>> /\ Line(b, x, y)[1] = b[x % INPUT_BUF]
    <2>1. 1 \in 1 .. Sub(y, x) /\ 1 - 1 = 0
        BY <1>1, <1>3
    <2>. QED BY <1>1, <1>3, <2>1, EmptySeq DEF Cell
<1>5. \A i \in 1 .. Sub(y, x) - 1 : Line(b, Inc(x), y)[i] = Line(b, x, y)[i + 1]
    <2>. SUFFICES ASSUME NEW i \in 1 .. Sub(y, x) - 1
                  PROVE  Line(b, Inc(x), y)[i] = Line(b, x, y)[i + 1]
        OBVIOUS
    <2>1. i + 1 \in 1 .. Sub(y, x) /\ (i + 1) - 1 = i
        BY <1>3
    <2>. QED BY <1>1, <1>2, <1>3, <2>1 DEF Cell
<1>. QED BY <1>1, <1>2, <1>3, <1>4, <1>5, Behind

LEMMA LineJoins ==
    ASSUME NEW b \in Ring, NEW x \in Index, NEW y \in Index, NEW z \in Index,
           Sub(y, x) + Sub(z, y) = Sub(z, x)
    PROVE  Line(b, x, z) = Line(b, x, y) \o Line(b, y, z)
<1>1. \A i \in 1 .. Sub(z, y), n \in Nat :
         n = Sub(y, x) + i => Plus(x, n - 1) = Plus(y, i - 1)
    BY ConsoleAssumption DEF Index, Sub, Plus
<1>2. /\ Line(b, x, z) \in Seq(Char) /\ Len(Line(b, x, z)) = Sub(z, x)
      /\ \A i \in 1 .. Sub(z, x) : Line(b, x, z)[i] = b[Cell(x, i - 1)]
    BY LineFacts
<1>3. /\ Line(b, x, y) \in Seq(Char) /\ Len(Line(b, x, y)) = Sub(y, x) /\ Sub(y, x) \in Nat
      /\ \A i \in 1 .. Sub(y, x) : Line(b, x, y)[i] = b[Cell(x, i - 1)]
    BY LineFacts
<1>4. /\ Line(b, y, z) \in Seq(Char) /\ Len(Line(b, y, z)) = Sub(z, y) /\ Sub(z, y) \in Nat
      /\ \A i \in 1 .. Sub(z, y) : Line(b, y, z)[i] = b[Cell(y, i - 1)]
    BY LineFacts
<1>5. \A i \in 1 .. Sub(y, x) : Line(b, x, z)[i] = Line(b, x, y)[i]
    <2>1. \A i \in 1 .. Sub(y, x) : i \in 1 .. Sub(z, x)
        BY <1>3, <1>4
    <2>. QED BY <1>2, <1>3, <2>1
<1>6. ASSUME NEW i \in 1 .. Sub(z, y) PROVE Line(b, x, z)[Sub(y, x) + i] = Line(b, y, z)[i]
    <2>1. Sub(y, x) + i \in 1 .. Sub(z, x)
        BY <1>3, <1>4
    <2>2. PICK n \in 1 .. Sub(z, x) : n = Sub(y, x) + i
        BY <2>1
    <2>3. Line(b, x, z)[n] = b[Cell(x, n - 1)]
        BY <1>2
    <2>4. Cell(x, n - 1) = Cell(y, i - 1)
        BY <1>1, <1>2, <1>3, <2>2, LineFacts DEF Cell
    <2>. QED BY <1>4, <2>2, <2>3, <2>4
<1>7. /\ Len(Line(b, x, z)) = Len(Line(b, x, y)) + Len(Line(b, y, z))
      /\ \A i \in 1 .. Len(Line(b, x, y)) : Line(b, x, z)[i] = Line(b, x, y)[i]
      /\ \A i \in 1 .. Len(Line(b, y, z)) :
            Line(b, x, z)[Len(Line(b, x, y)) + i] = Line(b, y, z)[i]
    BY <1>2, <1>3, <1>4, <1>5, <1>6
<1>. QED BY <1>2, <1>3, <1>4, <1>7, Joined
-----------------------------------------------------------------------------
(* What is not committed has no newline, which is where ^U would stop, and a   *)
(* call that goes on has stored none.                                          *)
EditInv == \A i \in 1 .. Len(Chars(w, e)) : Chars(w, e)[i] # "newline"
GivenInv ==
    \A p \in Proc : pc[p] # "idle" => \A i \in 1 .. Len(given[p]) : given[p][i] # "newline"
LineInv == RingSound /\ EditInv /\ GivenInv

LEMMA InRing ==
    ASSUME TypeOK
    PROVE  buf \in Ring /\ r \in Index /\ w \in Index /\ e \in Index
BY DEF TypeOK, Ring, Index

(* The two parts of the ring, now and after a step.                            *)
Parts ==
    /\ buf \in Ring /\ r \in Index /\ w \in Index /\ e \in Index
    /\ Chars(r, w) = Line(buf, r, w) /\ Chars(w, e) = Line(buf, w, e)

LEMMA HasParts == TypeOK => Parts
BY InRing, IsLine DEF Parts

LEMMA HasPartsNext == (TypeOK => Parts)'
BY HasParts, PTL

(* A character typed goes on the line, and is committed with it if it ends it. *)
LEMMA TypedMaps ==
    ASSUME LineInv, TypeOK', NEW c \in Char, KeyChar(c)
    PROVE  /\ EditInv'
           /\ Stream!Next
<1>1. Parts /\ Parts' /\ TypeOK
    BY HasParts, HasPartsNext DEF LineInv, RingSound
<1>. DEFINE stream == Line(buf, r, w)
            edit == Line(buf, w, e)
<1>2. /\ Sub(w, r) + Sub(e, w) = Sub(e, r) /\ Sub(e, r) < INPUT_BUF
      /\ Sub(w, r) \in Nat /\ Sub(e, w) \in Nat /\ Sub(e, r) \in Nat
      /\ Len(stream) = Sub(w, r) /\ Len(edit) = Sub(e, w)
      /\ stream \in Seq(Char) /\ edit \in Seq(Char)
    BY <1>1, LineFacts DEF Parts, LineInv, RingSound, KeyChar, HasRoom
<1>0. /\ buf \in Ring /\ r \in Index /\ w \in Index /\ e \in Index
      /\ Sub(w, r) <= Sub(e, r) /\ Sub(e, w) < INPUT_BUF
    <2>1. INPUT_BUF \in Nat
        BY ConsoleAssumption
    <2>. QED BY <1>1, <1>2, <2>1 DEF Parts
<1>3. buf' = [buf EXCEPT ![e % INPUT_BUF] = c] /\ e' = Inc(e) /\ UNCHANGED <<r, given>>
    BY DEF KeyChar
<1>4. Line(buf', r, w) = stream
    <2>1. Sub(e, r) < INPUT_BUF
        BY <1>2
    <2>2. Line([buf EXCEPT ![e % INPUT_BUF] = c], r, w) = Line(buf, r, w)
        BY <1>0, <2>1, LineKeeps
    <2>. QED BY <1>3, <2>2
<1>5. Line(buf', w, e') = Append(edit, c)
    BY <1>0, <1>3, LineGrows
<1>6. Stream!Room
    BY <1>1, <1>2 DEF Stream!Room, Parts
<1>7. CASE EndsLine(c)
    <2>1. w' = e'
        BY <1>3, <1>7 DEF KeyChar
    <2>2. Chars(w, e)' = <<>>
        BY <1>1, <2>1, LineEmpty DEF Parts
    <2>3. Chars(r, w)' = Append(stream \o edit, c)
        <3>1. Line(buf', r, e') = Append(Line(buf, r, e), c)
            BY <1>0, <1>2, <1>3, LineGrows
        <3>2. Line(buf, r, e) = stream \o edit
            BY <1>0, <1>2, LineJoins
        <3>. QED BY <1>1, <1>3, <2>1, <3>1, <3>2 DEF Parts
    <2>4. c \in {"newline", "eof"} \/ Len(stream) + Len(edit) + 1 = INPUT_BUF
        <3>1. Inc(e) = Plus(r, INPUT_BUF) => Sub(e, r) + 1 = INPUT_BUF
            BY <1>1, <1>2, ConsoleAssumption DEF Parts, Index, Inc, Plus, Sub
        <3>. QED BY <1>2, <1>7, <3>1 DEF EndsLine
    <2>5. Stream!Commit(c)
        BY <1>1, <1>3, <1>6, <2>2, <2>3, <2>4 DEF Stream!Commit, Stream!Ends, Parts
    <2>6. EditInv'
        BY <2>2, EmptySeq DEF EditInv
    <2>. QED BY <2>5, <2>6 DEF Stream!Next, Stream!Ends, Char
<1>8. CASE ~EndsLine(c)
    <2>1. w' = w
        BY <1>8 DEF KeyChar
    <2>2. c \in Plain /\ c # "newline"
        BY <1>8 DEF EndsLine, Char
    <2>3. Stream!Type(c)
        BY <1>1, <1>3, <1>4, <1>5, <1>6, <2>1 DEF Stream!Type, Parts
    <2>4. EditInv'
        <3>1. Chars(w, e)' = Append(edit, c)
            BY <1>1, <1>5, <2>1 DEF Parts
        <3>2. \A i \in 1 .. Len(edit) : edit[i] # "newline"
            BY <1>1 DEF LineInv, EditInv, Parts
        <3>3. /\ Len(Append(edit, c)) = Len(edit) + 1 /\ Append(edit, c)[Len(edit) + 1] = c
              /\ \A i \in 1 .. Len(edit) : Append(edit, c)[i] = edit[i]
              /\ \A i \in 1 .. Len(edit) + 1 : i \in 1 .. Len(edit) \/ i = Len(edit) + 1
            BY <1>2
        <3>. HIDE DEF edit
        <3>. QED BY <2>2, <3>1, <3>2, <3>3 DEF EditInv
    <2>. QED BY <2>2, <2>3, <2>4 DEF Stream!Next
<1>. QED BY <1>7, <1>8
(* ^H takes the last character back, and ^U the line: nothing in it stops it.  *)
LEMMA ErasedMaps ==
    ASSUME LineInv, TypeOK', KeyBackspace \/ KeyKill
    PROVE  /\ EditInv'
           /\ Stream!Erase
<1>1. Parts /\ Parts' /\ TypeOK
    BY HasParts, HasPartsNext DEF LineInv, RingSound
<1>2. UNCHANGED <<buf, r, w, given>> /\ e # w
    BY DEF KeyBackspace, KeyKill, CanErase
<1>3. buf \in Ring /\ r \in Index /\ w \in Index /\ e \in Index /\ e' \in Index
    BY <1>1 DEF Parts
<1>. DEFINE edit == Line(buf, w, e)
<1>4. edit \in Seq(Char) /\ Len(edit) = Sub(e, w) /\ edit # <<>> /\ Len(edit) \in Nat
    BY <1>2, <1>3, LineFacts, LineEmpty
<1>5. \A i \in 1 .. Len(edit) : edit[i] # "newline"
    BY <1>1 DEF LineInv, EditInv, Parts
<1>6. Chars(r, w)' = Chars(r, w) /\ Chars(w, e) = edit /\ Chars(w, e)' = Line(buf, w, e')
    BY <1>1, <1>2 DEF Parts
<1>7. CASE e' = w
    <2>1. Chars(w, e)' = <<>>
        BY <1>3, <1>6, <1>7, LineEmpty
    <2>2. EditInv'
        BY <2>1, EmptySeq DEF EditInv
    <2>. QED BY <1>2, <1>4, <1>6, <2>1, <2>2 DEF Stream!Erase
<1>8. CASE e' = Dec(e)
    <2>1. Chars(w, e)' = SubSeq(edit, 1, Len(edit) - 1)
        BY <1>2, <1>3, <1>6, <1>8, LineShrinks
    <2>. HIDE DEF edit
    <2>2. /\ Len(SubSeq(edit, 1, Len(edit) - 1)) = Len(edit) - 1
          /\ \A i \in 1 .. Len(edit) - 1 : SubSeq(edit, 1, Len(edit) - 1)[i] = edit[i]
        BY <1>4, EmptySeq
    <2>3. EditInv'
        BY <1>4, <1>5, <2>1, <2>2 DEF EditInv
    <2>. QED BY <1>2, <1>4, <1>6, <2>1, <2>3 DEF Stream!Erase, Stream!Front
<1>9. ASSUME KeyKill PROVE e' = w
    <2>1. KillStops(e')
        BY <1>9 DEF KeyKill
    <2>. SUFFICES ASSUME e' # w PROVE FALSE
        OBVIOUS
    <2>2. PICK x \in Index : x = e'
        BY <1>3
    <2>3. At(Dec(x)) = "newline" /\ Sub(x, w) <= Sub(e, w) /\ x # w
        BY <2>1, <2>2 DEF KillStops
    <2>4. PICK n \in Nat : n = Sub(x, w)
        BY <1>3, LineFacts
    <2>5. n \in 1 .. Sub(e, w) /\ Dec(x) = Plus(w, n - 1)
        BY <1>3, <1>4, <2>3, <2>4, ConsoleAssumption DEF Index, Dec, Plus, Sub
    <2>6. edit[n] = buf[Cell(w, n - 1)]
        BY <1>3, <2>5, LineFacts
    <2>7. edit[n] = At(Dec(x))
        BY <2>5, <2>6 DEF Cell, At
    <2>. QED BY <1>4, <1>5, <2>3, <2>5, <2>7
<1>. QED BY <1>7, <1>8, <1>9 DEF KeyBackspace

(* A reader takes the first character of the first line, or an end of file.    *)
LEMMA ReadMaps ==
    ASSUME LineInv, TypeOK', NEW p \in Proc, ReadChar(p)
    PROVE  /\ GivenInv'
           /\ [Stream!Next]_<<Chars(r, w), Chars(w, e), given>>
<1>1. Parts /\ Parts' /\ TypeOK
    BY HasParts, HasPartsNext DEF LineInv, RingSound
<1>2. pc[p] = "read" /\ r # w /\ UNCHANGED <<buf, w, e>>
    BY DEF ReadChar
<1>3. buf \in Ring /\ r \in Index /\ w \in Index /\ e \in Index /\ r' \in Index
    BY <1>1 DEF Parts
<1>4. /\ Chars(r, w) # <<>> /\ Head(Chars(r, w)) = At(r)
      /\ Line(buf, Inc(r), w) = Tail(Chars(r, w))
    BY <1>1, <1>2, <1>3, LineTail DEF Parts, At
<1>5. Chars(w, e)' = Chars(w, e) /\ Chars(r, w)' = Line(buf, r', w)
    BY <1>1, <1>2 DEF Parts
<1>6. given[p] \in Seq(Char) /\ At(r) \in Char /\ \A i \in 1 .. Len(given[p]) : given[p][i] # "newline"
    BY <1>1, <1>2, <1>3, CharType DEF LineInv, GivenInv, TypeOK
<1>7. "newline" \notin Stream!ToSet(given[p])
    BY <1>6 DEF Stream!ToSet
<1>8. CASE At(r) = "eof" /\ given[p] # <<>>
    <2>1. r' = r /\ given' = given /\ \A q \in Proc : pc'[q] # "idle" => pc[q] # "idle"
        BY <1>1, <1>8 DEF ReadChar, EofKept, Leave, TypeOK
    <2>2. GivenInv'
        BY <2>1 DEF LineInv, GivenInv
    <2>3. Chars(r, w)' = Chars(r, w)
        BY <1>1, <1>5, <2>1 DEF Parts
    <2>. QED BY <1>5, <2>1, <2>2, <2>3
<1>9. CASE At(r) = "eof" /\ given[p] = <<>>
    <2>1. r' = Inc(r) /\ given' = given /\ \A q \in Proc : pc'[q] # "idle" => pc[q] # "idle"
        BY <1>1, <1>9 DEF ReadChar, EofKept, Leave, TypeOK
    <2>2. GivenInv'
        BY <2>1 DEF LineInv, GivenInv
    <2>3. Stream!SeeEnd(p)
        BY <1>4, <1>5, <1>9, <2>1 DEF Stream!SeeEnd
    <2>. QED BY <2>2, <2>3 DEF Stream!Next
<1>10. CASE At(r) # "eof"
    <2>1. r' = Inc(r) /\ given' = [given EXCEPT ![p] = Append(@, At(r))]
        BY <1>10 DEF ReadChar
    <2>2. Stream!Take(p)
        BY <1>4, <1>5, <1>7, <1>10, <2>1 DEF Stream!Take
    <2>3. CASE At(r) = "newline"
        <3>1. pc' = [pc EXCEPT ![p] = "idle"]
            BY <1>10, <2>3 DEF ReadChar, Leave
        <3>2. GivenInv'
            BY <1>1, <2>1, <3>1 DEF LineInv, GivenInv, TypeOK
        <3>. QED BY <2>2, <3>2 DEF Stream!Next
    <2>4. CASE At(r) # "newline"
        <3>1. pc' = pc
            BY <1>10, <2>4 DEF ReadChar, Stay
        <3>2. /\ Len(Append(given[p], At(r))) = Len(given[p]) + 1 /\ Len(given[p]) \in Nat
              /\ Append(given[p], At(r))[Len(given[p]) + 1] = At(r)
              /\ \A i \in 1 .. Len(given[p]) : Append(given[p], At(r))[i] = given[p][i]
            BY <1>6
        <3>3. \A i \in 1 .. Len(given[p]) + 1 : i \in 1 .. Len(given[p]) \/ i = Len(given[p]) + 1
            BY <3>2
        <3>4. given'[p] = Append(given[p], At(r)) /\ \A q \in Proc \ {p} : given'[q] = given[q]
            BY <1>1, <2>1 DEF TypeOK
        <3>5. \A i \in 1 .. Len(given'[p]) : given'[p][i] # "newline"
            BY <1>6, <2>4, <3>2, <3>3, <3>4
        <3>6. GivenInv'
            BY <3>1, <3>4, <3>5 DEF LineInv, GivenInv
        <3>. QED BY <2>2, <3>6 DEF Stream!Next
    <2>. QED BY <2>3, <2>4
<1>. QED BY <1>8, <1>9, <1>10

LEMMA SameChars ==
    ASSUME UNCHANGED ring
    PROVE  Chars(r, w)' = Chars(r, w) /\ Chars(w, e)' = Chars(w, e) /\ (EditInv => EditInv')
<1>1. Chars(r, w)' = Chars(r, w) /\ Chars(w, e)' = Chars(w, e)
    BY DEF ring, Chars, At
<1>. QED BY <1>1 DEF EditInv

(* Every step of the console is one of the stream of lines.                    *)
LEMMA LineStep ==
    ASSUME LineInv, [Next]_vars
    PROVE  LineInv' /\ [Stream!Next]_<<Chars(r, w), Chars(w, e), given>>
<1>1. TypeOK /\ RingSound' /\ TypeOK' /\ EditInv /\ GivenInv
    BY TypeStep, OrderStep DEF LineInv, RingSound, Ordered
<1>2. ASSUME NEW c \in Char, KeyChar(c)
      PROVE  LineInv' /\ [Stream!Next]_<<Chars(r, w), Chars(w, e), given>>
    <2>1. \A p \in Proc : given'[p] = given[p] /\ (pc'[p] # "idle" => pc[p] # "idle")
        BY <1>1, <1>2 DEF KeyChar, Woken, TypeOK
    <2>2. GivenInv'
        BY <1>1, <2>1 DEF GivenInv
    <2>. QED BY <1>1, <1>2, <2>2, TypedMaps DEF LineInv
<1>3. CASE KeyBackspace \/ KeyKill
    <2>1. GivenInv'
        BY <1>1, <1>3 DEF KeyBackspace, KeyKill, GivenInv
    <2>. QED BY <1>1, <1>3, <2>1, ErasedMaps DEF LineInv, Stream!Next
<1>4. ASSUME NEW p \in Proc, ReadChar(p)
      PROVE  LineInv' /\ [Stream!Next]_<<Chars(r, w), Chars(w, e), given>>
    <2>1. UNCHANGED <<buf, w, e>>
        BY <1>4 DEF ReadChar
    <2>2. EditInv'
        BY <1>1, <2>1 DEF EditInv, Chars, At
    <2>. QED BY <1>1, <1>4, <2>2, ReadMaps DEF LineInv
<1>5. ASSUME NEW p \in Proc, NEW n \in 0 .. MaxN, ReadCall(p, n)
      PROVE  LineInv' /\ [Stream!Next]_<<Chars(r, w), Chars(w, e), given>>
    <2>1. Stream!Ask(p) /\ EditInv'
        BY <1>1, <1>5, SameChars DEF ReadCall, Stream!Ask
    <2>2. Len(<<>>) = 0
        BY EmptySeq
    <2>3. GivenInv'
        BY <1>1, <1>5, <2>2 DEF ReadCall, GivenInv, TypeOK
    <2>. QED BY <1>1, <2>1, <2>3 DEF LineInv, Stream!Next
<1>6. ASSUME NEW p \in Proc,
             ReadEnter(p) \/ ReadFull(p) \/ ReadEmpty(p) \/ ReadSleep(p) \/ Kill(p)
      PROVE  LineInv' /\ [Stream!Next]_<<Chars(r, w), Chars(w, e), given>>
    <2>1. UNCHANGED ring /\ given' = given
        BY <1>6 DEF ReadEnter, ReadFull, ReadEmpty, ReadSleep, Kill
    <2>2. \A q \in Proc : pc'[q] # "idle" => pc[q] # "idle"
        BY <1>1, <1>6 DEF ReadEnter, ReadFull, ReadEmpty, ReadSleep, Kill, Leave, TypeOK
    <2>3. GivenInv'
        BY <1>1, <2>1, <2>2 DEF GivenInv
    <2>. QED BY <1>1, <2>1, <2>3, SameChars DEF LineInv
<1>7. CASE UNCHANGED vars
    <2>1. UNCHANGED ring /\ UNCHANGED <<pc, given>>
        BY <1>7 DEF vars
    <2>2. GivenInv'
        BY <1>1, <2>1 DEF GivenInv
    <2>. QED BY <1>1, <2>1, <2>2, SameChars DEF LineInv
<1>. QED BY <1>2, <1>3, <1>4, <1>5, <1>6, <1>7 DEF Next, Key, Read

(* The console is a stream of lines for any INPUT_BUF, across the wrap of its  *)
(* indices: only what is not committed can be taken back, and a character      *)
(* committed is read once, in order, no read going past the end of its line    *)
(* (consoleintr, consoleread).                                                 *)
THEOREM LinesRefined == Spec => ImplementsLines
<1>1. Init => LineInv /\ Stream!Init
    <2>. SUFFICES ASSUME Init PROVE LineInv /\ Stream!Init
        OBVIOUS
    <2>1. RingSound /\ Parts
        BY InitSound, HasParts DEF RingSound
    <2>2. Chars(r, w) = <<>> /\ Chars(w, e) = <<>>
        BY <2>1, LineEmpty DEF Parts, Init
    <2>3. Len(<<>>) = 0
        BY EmptySeq
    <2>. QED BY <2>1, <2>2, <2>3 DEF Init, LineInv, EditInv, GivenInv, Stream!Init
<1>2. LineInv /\ [Next]_vars => LineInv' /\ [Stream!Next]_<<Chars(r, w), Chars(w, e), given>>
    BY LineStep
<1>. QED BY <1>1, <1>2, PTL DEF Spec, ImplementsLines, Stream!Spec, Stream!vars

-----------------------------------------------------------------------------
(* Spinlock: every thread of control is at a step of one of seven pieces of    *)
(* code, with what an interrupt found below it.  What locks its CPU has, how   *)
(* deep its interrupts are off and what intena is are functions of that place: *)
(* PlaceInv says so of who runs and of who waits to be dispatched.  LockInv    *)
(* says that a lock is taken by the one CPU whose place has it, ReadyInv that  *)
(* a process on its way to sleep has a wakeup coming.                          *)

(* A step of the code, and the lock it is about.                               *)
Op == {"pushcli", "xchg", "own", "disown", "clear", "popcli", "test", "ret", "iret", "sleep",
       "yield", "sched", "resume", "sti", "pick", "event", "wakeup1"}
Item == Op \X {"device", "ptable", "none"}

CallCode == Acquire("device") \o Do("test")
RetCode == Release("device") \o Do("ret")
ForkCode == Release("ptable") \o Do("ret")
ScanCode == Release("ptable") \o Scheduler
DeviceCode == Handler \o Do("iret")
TimerCode == Yield \o Do("iret")

(* The pieces of code a thread of control runs, ...                            *)
Piece(n) ==
    CASE n = "call" -> CallCode [] n = "ret" -> RetCode [] n = "sleep" -> Sleep
      [] n = "fork" -> ForkCode [] n = "scan" -> ScanCode
      [] n = "device" -> DeviceCode [] n = "timer" -> TimerCode
Steps(n) ==
    CASE n = "sleep" -> 16 [] n = "scan" -> 8 [] n = "device" -> 15 [] n = "timer" -> 10
      [] OTHER -> 4
Pieces == {"call", "ret", "sleep", "fork", "scan", "device", "timer"}
Handlers == {"device", "timer"}

(* ... what an interrupt finds below its handler, ...                          *)
Below(t) == IF t \in CPU THEN {Scheduler, Tail(Scheduler)} ELSE {<<>>, CallCode, Do("ret")}

Bottoms == {<<>>, CallCode, Do("ret"), Scheduler, Tail(Scheduler)}

(* ... and the thread t is at step i of the piece n, with b below it: s is what *)
(* it has still to do.                                                         *)
Place(t, n, i, b) ==
    /\ IF t \in CPU THEN n \in {"scan", "device"}
       ELSE n \in {"call", "ret", "sleep", "fork", "device", "timer"}
    /\ i \in 1 .. Steps(n) \/ (n \in {"ret", "fork"} /\ i = 5)
    /\ IF n \in Handlers THEN b \in Below(t) ELSE b = <<>>
Whole(n, b) == Piece(n) \o b
Stands(s, t, n, i, b) == Place(t, n, i, b) /\ s = SubSeq(Whole(n, b), i, Len(Whole(n, b)))

(* What a CPU is in at a place: how often its interrupts are off, ...          *)
Depth(n, i) ==
    CASE n = "call" -> IF i = 1 THEN 0 ELSE 1
      [] n \in {"ret", "fork"} -> IF i <= 3 THEN 1 ELSE 0
      [] n = "sleep" -> IF i = 13 THEN 0 ELSE IF i \in 2 .. 6 THEN 2 ELSE 1
      [] n = "scan" -> IF i \in {4, 5} THEN 0 ELSE 1
      [] n = "device" -> IF i \in {1, 15} THEN 0 ELSE IF i \in 6 .. 11 THEN 2 ELSE 1
      [] n = "timer" -> IF i \in {1, 10} THEN 0 ELSE 1

(* ... and the locks it has.                                                   *)
HasDevice(n, i) ==
    \/ n = "call" /\ i \in 3 .. 4
    \/ n = "ret" /\ i <= 2
    \/ n = "sleep" /\ (i <= 5 \/ i >= 15)
    \/ n = "device" /\ i \in 3 .. 13
HasPtable(n, i) ==
    \/ n = "sleep" /\ i \in 3 .. 11
    \/ n = "fork" /\ i <= 2
    \/ n = "scan" /\ (i <= 2 \/ i >= 7)
    \/ n = "device" /\ i \in 7 .. 10
    \/ n = "timer" /\ i \in 3 .. 8
Owns(n, i, l) == IF l = "device" THEN HasDevice(n, i) ELSE HasPtable(n, i)

(* The places outside the locks where interrupts are on, and where they may be. *)
Open(n, i) ==
    \/ n = "call" /\ i = 1
    \/ n \in {"ret", "fork"} /\ i = 5
    \/ n = "sleep" /\ i = 13
    \/ n = "scan" /\ i = 5
Loose(n, i) == n \in {"ret", "fork", "scan"} /\ i = 4

Flags(c, n, i) ==
    /\ ncli[c] = Depth(n, i)
    /\ ~Loose(n, i) => fl[c] = Open(n, i)
    /\ Depth(n, i) > 0 =>
         /\ n = "call" \/ (n = "sleep" /\ i # 9) => intena[c]
         /\ n = "device" \/ (n = "timer" /\ i # 6) => ~intena[c]

Switching(n, i) == <<n, i>> \in {<<"sleep", 8>>, <<"timer", 5>>}
Switched(n, i) == <<n, i>> \in {<<"sleep", 9>>, <<"timer", 6>>, <<"fork", 1>>}

Mood(p, n, i) ==
    /\ (state[p] = "RUNNING") <=> ~Switching(n, i)
    /\ n = "sleep" /\ i = 9 => saved[p]
    /\ n = "timer" /\ i = 6 => ~saved[p]
Here(c, n, i, b) ==
    /\ Stands(code[Running(c)], Running(c), n, i, b) /\ Flags(c, n, i)
    /\ on[c] # None => Mood(on[c], n, i)
There(p, n, i, b) ==
    /\ Stands(code[p], p, n, i, b) /\ Switched(n, i) /\ state[p] # "RUNNING"
    /\ n = "sleep" => saved[p]
    /\ n = "timer" => ~saved[p]

PlaceInv ==
    /\ code \in [Thread -> Seq(Item)]
    /\ \A c \in CPU : \E n, i, b : Here(c, n, i, b)
    /\ \A p \in Process : (\A c \in CPU : on[c] # p) => \E n, i, b : There(p, n, i, b)
    /\ \A c \in CPU : on[c] # None => code[c] = Do("pick")
    /\ \A c, d \in CPU : on[c] = on[d] /\ on[c] # None => c = d

(* What follows in s lets the lock go before it takes it.                      *)
Guards(s, l) ==
    \E i \in 1 .. Len(s) :
        /\ s[i] \in {<<"clear", l>>, <<IF l = "ptable" THEN "pick" ELSE "test", "none">>}
        /\ \A j \in 1 .. i : s[j] # <<"xchg", l>>

(* The lock is at the store of its CPU, or behind its removal.                 *)
Unnamed(c, l) ==
    code[Running(c)] # <<>> /\ Head(code[Running(c)]) \in {<<"own", l>>, <<"clear", l>>}
Lone(l) ==
    \/ locked[l] = 0 /\ holder[l] = None /\ \A c \in CPU : ~Inside(c, l)
    \/ \E c \in CPU :
         /\ locked[l] = 1 /\ Inside(c, l) /\ \A d \in CPU \ {c} : ~Inside(d, l)
         /\ holder[l] = IF Unnamed(c, l) THEN None ELSE c
LockInv == \A l \in Locks : Lone(l)

(* Whoever is about to sleep has seen nothing to wait for; once it has let go  *)
(* of the device's lock, whoever makes it ready has yet to wake the sleepers.  *)
Pending == \E t \in Thread : Has(t, "wakeup1") /\ ~Has(t, "event")
ReadyInv ==
    /\ \A p \in Process : ready /\ Has(p, "sleep") => Pending /\ ~Guards(code[p], "device")
    /\ NoLostWakeup

SpinInv == SpinTypeOK /\ NoPanic /\ PlaceInv /\ LockInv /\ ReadyInv
-----------------------------------------------------------------------------
(* Code                                                                        *)

LEMMA Three ==
  ASSUME NEW S, NEW x \in S, NEW y \in S, NEW z \in S
  PROVE  /\ <<x, y, z>> \in Seq(S) /\ Len(<<x, y, z>>) = 3
         /\ <<x, y, z>>[1] = x /\ <<x, y, z>>[2] = y /\ <<x, y, z>>[3] = z
OBVIOUS

LEMMA One ==
  ASSUME NEW S, NEW x \in S
  PROVE  <<x>> \in Seq(S) /\ Len(<<x>>) = 1 /\ <<x>>[1] = x
OBVIOUS

LEMMA Items == \A o \in Op, l \in Locks \cup {"none"} : <<o, l>> \in Item
BY DEF Item, Locks

LEMMA AcquireIs ==
  ASSUME NEW l \in Locks
  PROVE  /\ Acquire(l) \in Seq(Item) /\ Len(Acquire(l)) = 3
         /\ Acquire(l)[1] = <<"pushcli", l>> /\ Acquire(l)[2] = <<"xchg", l>> /\ Acquire(l)[3] = <<"own", l>>
<1>. DEFINE x == <<"pushcli", l>>
            y == <<"xchg", l>>
            z == <<"own", l>>
<1>1. x \in Item /\ y \in Item /\ z \in Item
  BY Items DEF Op
<1>2. Acquire(l) = <<x, y, z>>
  BY DEF Acquire
<1>. HIDE DEF x, y, z
<1>3. /\ <<x, y, z>> \in Seq(Item) /\ Len(<<x, y, z>>) = 3
      /\ <<x, y, z>>[1] = x /\ <<x, y, z>>[2] = y /\ <<x, y, z>>[3] = z
  BY <1>1, Three
<1>. QED BY <1>2, <1>3 DEF x, y, z

LEMMA ReleaseIs ==
  ASSUME NEW l \in Locks
  PROVE  /\ Release(l) \in Seq(Item) /\ Len(Release(l)) = 3
         /\ Release(l)[1] = <<"disown", l>> /\ Release(l)[2] = <<"clear", l>> /\ Release(l)[3] = <<"popcli", l>>
<1>. DEFINE x == <<"disown", l>>
            y == <<"clear", l>>
            z == <<"popcli", l>>
<1>1. x \in Item /\ y \in Item /\ z \in Item
  BY Items DEF Op
<1>2. Release(l) = <<x, y, z>>
  BY DEF Release
<1>. HIDE DEF x, y, z
<1>3. /\ <<x, y, z>> \in Seq(Item) /\ Len(<<x, y, z>>) = 3
      /\ <<x, y, z>>[1] = x /\ <<x, y, z>>[2] = y /\ <<x, y, z>>[3] = z
  BY <1>1, Three
<1>. QED BY <1>2, <1>3 DEF x, y, z

LEMMA DoIs ==
  ASSUME NEW o \in Op
  PROVE  Do(o) \in Seq(Item) /\ Len(Do(o)) = 1 /\ Do(o)[1] = <<o, "none">>
<1>. DEFINE x == <<o, "none">>
<1>1. x \in Item
  BY Items
<1>2. Do(o) = <<x>>
  BY DEF Do
<1>. HIDE DEF x
<1>3. <<x>> \in Seq(Item) /\ Len(<<x>>) = 1 /\ <<x>>[1] = x
  BY <1>1, One
<1>. QED BY <1>2, <1>3 DEF x

LEMMA Joins ==
  ASSUME NEW s \in Seq(Item), NEW u \in Seq(Item)
  PROVE  /\ s \o u \in Seq(Item) /\ Len(s \o u) = Len(s) + Len(u)
         /\ \A k \in 1 .. Len(s) : (s \o u)[k] = s[k]
         /\ \A k \in 1 .. Len(u) : (s \o u)[Len(s) + k] = u[k]
OBVIOUS

LEMMA LocksAre == "device" \in Locks /\ "ptable" \in Locks
BY DEF Locks

LEMMA CallCodeIs ==
  /\ CallCode \in Seq(Item) /\ Len(CallCode) = 4
  /\ CallCode[1] = <<"pushcli", "device">> /\ CallCode[2] = <<"xchg", "device">> /\ CallCode[3] = <<"own", "device">>
  /\ CallCode[4] = <<"test", "none">>
<1>. DEFINE a == Acquire("device")
            t == Do("test")
            q1 == a \o t
<1>1. a \in Seq(Item) /\ Len(a) = 3
  BY AcquireIs, LocksAre
<1>2. /\ a[1] = <<"pushcli", "device">> /\ a[2] = <<"xchg", "device">> /\ a[3] = <<"own", "device">>
  BY AcquireIs, LocksAre
<1>3. t \in Seq(Item) /\ Len(t) = 1
  BY DoIs DEF Op
<1>4. /\ t[1] = <<"test", "none">>
  BY DoIs DEF Op
<1>5. CallCode = q1
  BY DEF CallCode
<1>. HIDE DEF a, t, q1
<1>6. /\ q1 \in Seq(Item) /\ Len(q1) = Len(a) + Len(t)
      /\ \A k \in 1 .. Len(a) : q1[k] = a[k]
      /\ \A k \in 1 .. Len(t) : q1[Len(a) + k] = t[k]
  BY <1>1, <1>3, Joins DEF q1
<1>7. q1 \in Seq(Item) /\ Len(q1) = 4
  BY <1>6, <1>1, <1>3
<1>8. /\ \A k \in 1 .. 3 : q1[k] = a[k]
      /\ q1[4] = t[1]
  BY <1>6, <1>1, <1>3
<1>9. /\ q1[1] = <<"pushcli", "device">> /\ q1[2] = <<"xchg", "device">> /\ q1[3] = <<"own", "device">>
      /\ q1[4] = <<"test", "none">>
  BY <1>8, <1>2, <1>4
<1>. QED BY <1>5, <1>7, <1>9

LEMMA RetCodeIs ==
  /\ RetCode \in Seq(Item) /\ Len(RetCode) = 4
  /\ RetCode[1] = <<"disown", "device">> /\ RetCode[2] = <<"clear", "device">> /\ RetCode[3] = <<"popcli", "device">>
  /\ RetCode[4] = <<"ret", "none">>
<1>. DEFINE a == Release("device")
            t == Do("ret")
            q1 == a \o t
<1>1. a \in Seq(Item) /\ Len(a) = 3
  BY ReleaseIs, LocksAre
<1>2. /\ a[1] = <<"disown", "device">> /\ a[2] = <<"clear", "device">> /\ a[3] = <<"popcli", "device">>
  BY ReleaseIs, LocksAre
<1>3. t \in Seq(Item) /\ Len(t) = 1
  BY DoIs DEF Op
<1>4. /\ t[1] = <<"ret", "none">>
  BY DoIs DEF Op
<1>5. RetCode = q1
  BY DEF RetCode
<1>. HIDE DEF a, t, q1
<1>6. /\ q1 \in Seq(Item) /\ Len(q1) = Len(a) + Len(t)
      /\ \A k \in 1 .. Len(a) : q1[k] = a[k]
      /\ \A k \in 1 .. Len(t) : q1[Len(a) + k] = t[k]
  BY <1>1, <1>3, Joins DEF q1
<1>7. q1 \in Seq(Item) /\ Len(q1) = 4
  BY <1>6, <1>1, <1>3
<1>8. /\ \A k \in 1 .. 3 : q1[k] = a[k]
      /\ q1[4] = t[1]
  BY <1>6, <1>1, <1>3
<1>9. /\ q1[1] = <<"disown", "device">> /\ q1[2] = <<"clear", "device">> /\ q1[3] = <<"popcli", "device">>
      /\ q1[4] = <<"ret", "none">>
  BY <1>8, <1>2, <1>4
<1>. QED BY <1>5, <1>7, <1>9

LEMMA ForkCodeIs ==
  /\ ForkCode \in Seq(Item) /\ Len(ForkCode) = 4
  /\ ForkCode[1] = <<"disown", "ptable">> /\ ForkCode[2] = <<"clear", "ptable">> /\ ForkCode[3] = <<"popcli", "ptable">>
  /\ ForkCode[4] = <<"ret", "none">>
<1>. DEFINE a == Release("ptable")
            t == Do("ret")
            q1 == a \o t
<1>1. a \in Seq(Item) /\ Len(a) = 3
  BY ReleaseIs, LocksAre
<1>2. /\ a[1] = <<"disown", "ptable">> /\ a[2] = <<"clear", "ptable">> /\ a[3] = <<"popcli", "ptable">>
  BY ReleaseIs, LocksAre
<1>3. t \in Seq(Item) /\ Len(t) = 1
  BY DoIs DEF Op
<1>4. /\ t[1] = <<"ret", "none">>
  BY DoIs DEF Op
<1>5. ForkCode = q1
  BY DEF ForkCode
<1>. HIDE DEF a, t, q1
<1>6. /\ q1 \in Seq(Item) /\ Len(q1) = Len(a) + Len(t)
      /\ \A k \in 1 .. Len(a) : q1[k] = a[k]
      /\ \A k \in 1 .. Len(t) : q1[Len(a) + k] = t[k]
  BY <1>1, <1>3, Joins DEF q1
<1>7. q1 \in Seq(Item) /\ Len(q1) = 4
  BY <1>6, <1>1, <1>3
<1>8. /\ \A k \in 1 .. 3 : q1[k] = a[k]
      /\ q1[4] = t[1]
  BY <1>6, <1>1, <1>3
<1>9. /\ q1[1] = <<"disown", "ptable">> /\ q1[2] = <<"clear", "ptable">> /\ q1[3] = <<"popcli", "ptable">>
      /\ q1[4] = <<"ret", "none">>
  BY <1>8, <1>2, <1>4
<1>. QED BY <1>5, <1>7, <1>9

LEMMA SleepIs ==
  /\ Sleep \in Seq(Item) /\ Len(Sleep) = 16
  /\ Sleep[1] = <<"pushcli", "ptable">> /\ Sleep[2] = <<"xchg", "ptable">> /\ Sleep[3] = <<"own", "ptable">>
  /\ Sleep[4] = <<"disown", "device">> /\ Sleep[5] = <<"clear", "device">> /\ Sleep[6] = <<"popcli", "device">>
  /\ Sleep[7] = <<"sleep", "none">> /\ Sleep[8] = <<"sched", "none">> /\ Sleep[9] = <<"resume", "none">>
  /\ Sleep[10] = <<"disown", "ptable">> /\ Sleep[11] = <<"clear", "ptable">> /\ Sleep[12] = <<"popcli", "ptable">>
  /\ Sleep[13] = <<"pushcli", "device">> /\ Sleep[14] = <<"xchg", "device">> /\ Sleep[15] = <<"own", "device">>
  /\ Sleep[16] = <<"test", "none">>
<1>. DEFINE ap == Acquire("ptable")
            rd == Release("device")
            s == Do("sleep")
            u == Do("sched")
            v == Do("resume")
            rp == Release("ptable")
            ad == Acquire("device")
            t == Do("test")
            q1 == ap \o rd
            q2 == q1 \o s
            q3 == q2 \o u
            q4 == q3 \o v
            q5 == q4 \o rp
            q6 == q5 \o ad
            q7 == q6 \o t
<1>1. ap \in Seq(Item) /\ Len(ap) = 3
  BY AcquireIs, LocksAre
<1>2. /\ ap[1] = <<"pushcli", "ptable">> /\ ap[2] = <<"xchg", "ptable">> /\ ap[3] = <<"own", "ptable">>
  BY AcquireIs, LocksAre
<1>3. rd \in Seq(Item) /\ Len(rd) = 3
  BY ReleaseIs, LocksAre
<1>4. /\ rd[1] = <<"disown", "device">> /\ rd[2] = <<"clear", "device">> /\ rd[3] = <<"popcli", "device">>
  BY ReleaseIs, LocksAre
<1>5. s \in Seq(Item) /\ Len(s) = 1
  BY DoIs DEF Op
<1>6. /\ s[1] = <<"sleep", "none">>
  BY DoIs DEF Op
<1>7. u \in Seq(Item) /\ Len(u) = 1
  BY DoIs DEF Op
<1>8. /\ u[1] = <<"sched", "none">>
  BY DoIs DEF Op
<1>9. v \in Seq(Item) /\ Len(v) = 1
  BY DoIs DEF Op
<1>10. /\ v[1] = <<"resume", "none">>
  BY DoIs DEF Op
<1>11. rp \in Seq(Item) /\ Len(rp) = 3
  BY ReleaseIs, LocksAre
<1>12. /\ rp[1] = <<"disown", "ptable">> /\ rp[2] = <<"clear", "ptable">> /\ rp[3] = <<"popcli", "ptable">>
  BY ReleaseIs, LocksAre
<1>13. ad \in Seq(Item) /\ Len(ad) = 3
  BY AcquireIs, LocksAre
<1>14. /\ ad[1] = <<"pushcli", "device">> /\ ad[2] = <<"xchg", "device">> /\ ad[3] = <<"own", "device">>
  BY AcquireIs, LocksAre
<1>15. t \in Seq(Item) /\ Len(t) = 1
  BY DoIs DEF Op
<1>16. /\ t[1] = <<"test", "none">>
  BY DoIs DEF Op
<1>17. Sleep = q7
  BY DEF Sleep
<1>. HIDE DEF ap, rd, s, u, v, rp, ad, t, q1, q2, q3, q4, q5, q6, q7
<1>18. /\ q1 \in Seq(Item) /\ Len(q1) = Len(ap) + Len(rd)
       /\ \A k \in 1 .. Len(ap) : q1[k] = ap[k]
       /\ \A k \in 1 .. Len(rd) : q1[Len(ap) + k] = rd[k]
  BY <1>1, <1>3, Joins DEF q1
<1>19. q1 \in Seq(Item) /\ Len(q1) = 6
  BY <1>18, <1>1, <1>3
<1>20. /\ \A k \in 1 .. 3 : q1[k] = ap[k]
       /\ q1[4] = rd[1] /\ q1[5] = rd[2] /\ q1[6] = rd[3]
  BY <1>18, <1>1, <1>3
<1>21. /\ q1[1] = <<"pushcli", "ptable">> /\ q1[2] = <<"xchg", "ptable">> /\ q1[3] = <<"own", "ptable">>
       /\ q1[4] = <<"disown", "device">> /\ q1[5] = <<"clear", "device">> /\ q1[6] = <<"popcli", "device">>
  BY <1>20, <1>2, <1>4
<1>22. /\ q2 \in Seq(Item) /\ Len(q2) = Len(q1) + Len(s)
       /\ \A k \in 1 .. Len(q1) : q2[k] = q1[k]
       /\ \A k \in 1 .. Len(s) : q2[Len(q1) + k] = s[k]
  BY <1>19, <1>5, Joins DEF q2
<1>23. q2 \in Seq(Item) /\ Len(q2) = 7
  BY <1>22, <1>19, <1>5
<1>24. /\ \A k \in 1 .. 6 : q2[k] = q1[k]
       /\ q2[7] = s[1]
  BY <1>22, <1>19, <1>5
<1>25. /\ q2[1] = <<"pushcli", "ptable">> /\ q2[2] = <<"xchg", "ptable">> /\ q2[3] = <<"own", "ptable">>
       /\ q2[4] = <<"disown", "device">> /\ q2[5] = <<"clear", "device">> /\ q2[6] = <<"popcli", "device">>
       /\ q2[7] = <<"sleep", "none">>
  BY <1>24, <1>21, <1>6
<1>26. /\ q3 \in Seq(Item) /\ Len(q3) = Len(q2) + Len(u)
       /\ \A k \in 1 .. Len(q2) : q3[k] = q2[k]
       /\ \A k \in 1 .. Len(u) : q3[Len(q2) + k] = u[k]
  BY <1>23, <1>7, Joins DEF q3
<1>27. q3 \in Seq(Item) /\ Len(q3) = 8
  BY <1>26, <1>23, <1>7
<1>28. /\ \A k \in 1 .. 7 : q3[k] = q2[k]
       /\ q3[8] = u[1]
  BY <1>26, <1>23, <1>7
<1>29. /\ q3[1] = <<"pushcli", "ptable">> /\ q3[2] = <<"xchg", "ptable">> /\ q3[3] = <<"own", "ptable">>
       /\ q3[4] = <<"disown", "device">> /\ q3[5] = <<"clear", "device">> /\ q3[6] = <<"popcli", "device">>
       /\ q3[7] = <<"sleep", "none">> /\ q3[8] = <<"sched", "none">>
  BY <1>28, <1>25, <1>8
<1>30. /\ q4 \in Seq(Item) /\ Len(q4) = Len(q3) + Len(v)
       /\ \A k \in 1 .. Len(q3) : q4[k] = q3[k]
       /\ \A k \in 1 .. Len(v) : q4[Len(q3) + k] = v[k]
  BY <1>27, <1>9, Joins DEF q4
<1>31. q4 \in Seq(Item) /\ Len(q4) = 9
  BY <1>30, <1>27, <1>9
<1>32. /\ \A k \in 1 .. 8 : q4[k] = q3[k]
       /\ q4[9] = v[1]
  BY <1>30, <1>27, <1>9
<1>33. /\ q4[1] = <<"pushcli", "ptable">> /\ q4[2] = <<"xchg", "ptable">> /\ q4[3] = <<"own", "ptable">>
       /\ q4[4] = <<"disown", "device">> /\ q4[5] = <<"clear", "device">> /\ q4[6] = <<"popcli", "device">>
       /\ q4[7] = <<"sleep", "none">> /\ q4[8] = <<"sched", "none">> /\ q4[9] = <<"resume", "none">>
  BY <1>32, <1>29, <1>10
<1>34. /\ q5 \in Seq(Item) /\ Len(q5) = Len(q4) + Len(rp)
       /\ \A k \in 1 .. Len(q4) : q5[k] = q4[k]
       /\ \A k \in 1 .. Len(rp) : q5[Len(q4) + k] = rp[k]
  BY <1>31, <1>11, Joins DEF q5
<1>35. q5 \in Seq(Item) /\ Len(q5) = 12
  BY <1>34, <1>31, <1>11
<1>36. /\ \A k \in 1 .. 9 : q5[k] = q4[k]
       /\ q5[10] = rp[1] /\ q5[11] = rp[2] /\ q5[12] = rp[3]
  BY <1>34, <1>31, <1>11
<1>37. /\ q5[1] = <<"pushcli", "ptable">> /\ q5[2] = <<"xchg", "ptable">> /\ q5[3] = <<"own", "ptable">>
       /\ q5[4] = <<"disown", "device">> /\ q5[5] = <<"clear", "device">> /\ q5[6] = <<"popcli", "device">>
       /\ q5[7] = <<"sleep", "none">> /\ q5[8] = <<"sched", "none">> /\ q5[9] = <<"resume", "none">>
       /\ q5[10] = <<"disown", "ptable">> /\ q5[11] = <<"clear", "ptable">> /\ q5[12] = <<"popcli", "ptable">>
  BY <1>36, <1>33, <1>12
<1>38. /\ q6 \in Seq(Item) /\ Len(q6) = Len(q5) + Len(ad)
       /\ \A k \in 1 .. Len(q5) : q6[k] = q5[k]
       /\ \A k \in 1 .. Len(ad) : q6[Len(q5) + k] = ad[k]
  BY <1>35, <1>13, Joins DEF q6
<1>39. q6 \in Seq(Item) /\ Len(q6) = 15
  BY <1>38, <1>35, <1>13
<1>40. /\ \A k \in 1 .. 12 : q6[k] = q5[k]
       /\ q6[13] = ad[1] /\ q6[14] = ad[2] /\ q6[15] = ad[3]
  BY <1>38, <1>35, <1>13
<1>41. /\ q6[1] = <<"pushcli", "ptable">> /\ q6[2] = <<"xchg", "ptable">> /\ q6[3] = <<"own", "ptable">>
       /\ q6[4] = <<"disown", "device">> /\ q6[5] = <<"clear", "device">> /\ q6[6] = <<"popcli", "device">>
       /\ q6[7] = <<"sleep", "none">> /\ q6[8] = <<"sched", "none">> /\ q6[9] = <<"resume", "none">>
       /\ q6[10] = <<"disown", "ptable">> /\ q6[11] = <<"clear", "ptable">> /\ q6[12] = <<"popcli", "ptable">>
       /\ q6[13] = <<"pushcli", "device">> /\ q6[14] = <<"xchg", "device">> /\ q6[15] = <<"own", "device">>
  BY <1>40, <1>37, <1>14
<1>42. /\ q7 \in Seq(Item) /\ Len(q7) = Len(q6) + Len(t)
       /\ \A k \in 1 .. Len(q6) : q7[k] = q6[k]
       /\ \A k \in 1 .. Len(t) : q7[Len(q6) + k] = t[k]
  BY <1>39, <1>15, Joins DEF q7
<1>43. q7 \in Seq(Item) /\ Len(q7) = 16
  BY <1>42, <1>39, <1>15
<1>44. /\ \A k \in 1 .. 15 : q7[k] = q6[k]
       /\ q7[16] = t[1]
  BY <1>42, <1>39, <1>15
<1>45. /\ q7[1] = <<"pushcli", "ptable">> /\ q7[2] = <<"xchg", "ptable">> /\ q7[3] = <<"own", "ptable">>
       /\ q7[4] = <<"disown", "device">> /\ q7[5] = <<"clear", "device">> /\ q7[6] = <<"popcli", "device">>
       /\ q7[7] = <<"sleep", "none">> /\ q7[8] = <<"sched", "none">> /\ q7[9] = <<"resume", "none">>
       /\ q7[10] = <<"disown", "ptable">> /\ q7[11] = <<"clear", "ptable">> /\ q7[12] = <<"popcli", "ptable">>
       /\ q7[13] = <<"pushcli", "device">> /\ q7[14] = <<"xchg", "device">> /\ q7[15] = <<"own", "device">>
       /\ q7[16] = <<"test", "none">>
  BY <1>44, <1>41, <1>16
<1>. QED BY <1>17, <1>43, <1>45

LEMMA SchedulerIs ==
  /\ Scheduler \in Seq(Item) /\ Len(Scheduler) = 5
  /\ Scheduler[1] = <<"sti", "none">> /\ Scheduler[2] = <<"pushcli", "ptable">> /\ Scheduler[3] = <<"xchg", "ptable">>
  /\ Scheduler[4] = <<"own", "ptable">> /\ Scheduler[5] = <<"pick", "none">>
<1>. DEFINE s == Do("sti")
            a == Acquire("ptable")
            t == Do("pick")
            q1 == s \o a
            q2 == q1 \o t
<1>1. s \in Seq(Item) /\ Len(s) = 1
  BY DoIs DEF Op
<1>2. /\ s[1] = <<"sti", "none">>
  BY DoIs DEF Op
<1>3. a \in Seq(Item) /\ Len(a) = 3
  BY AcquireIs, LocksAre
<1>4. /\ a[1] = <<"pushcli", "ptable">> /\ a[2] = <<"xchg", "ptable">> /\ a[3] = <<"own", "ptable">>
  BY AcquireIs, LocksAre
<1>5. t \in Seq(Item) /\ Len(t) = 1
  BY DoIs DEF Op
<1>6. /\ t[1] = <<"pick", "none">>
  BY DoIs DEF Op
<1>7. Scheduler = q2
  BY DEF Scheduler
<1>. HIDE DEF s, a, t, q1, q2
<1>8. /\ q1 \in Seq(Item) /\ Len(q1) = Len(s) + Len(a)
      /\ \A k \in 1 .. Len(s) : q1[k] = s[k]
      /\ \A k \in 1 .. Len(a) : q1[Len(s) + k] = a[k]
  BY <1>1, <1>3, Joins DEF q1
<1>9. q1 \in Seq(Item) /\ Len(q1) = 4
  BY <1>8, <1>1, <1>3
<1>10. /\ \A k \in 1 .. 1 : q1[k] = s[k]
       /\ q1[2] = a[1] /\ q1[3] = a[2] /\ q1[4] = a[3]
  BY <1>8, <1>1, <1>3
<1>11. /\ q1[1] = <<"sti", "none">> /\ q1[2] = <<"pushcli", "ptable">> /\ q1[3] = <<"xchg", "ptable">>
       /\ q1[4] = <<"own", "ptable">>
  BY <1>10, <1>2, <1>4
<1>12. /\ q2 \in Seq(Item) /\ Len(q2) = Len(q1) + Len(t)
       /\ \A k \in 1 .. Len(q1) : q2[k] = q1[k]
       /\ \A k \in 1 .. Len(t) : q2[Len(q1) + k] = t[k]
  BY <1>9, <1>5, Joins DEF q2
<1>13. q2 \in Seq(Item) /\ Len(q2) = 5
  BY <1>12, <1>9, <1>5
<1>14. /\ \A k \in 1 .. 4 : q2[k] = q1[k]
       /\ q2[5] = t[1]
  BY <1>12, <1>9, <1>5
<1>15. /\ q2[1] = <<"sti", "none">> /\ q2[2] = <<"pushcli", "ptable">> /\ q2[3] = <<"xchg", "ptable">>
       /\ q2[4] = <<"own", "ptable">> /\ q2[5] = <<"pick", "none">>
  BY <1>14, <1>11, <1>6
<1>. QED BY <1>7, <1>13, <1>15

LEMMA ScanCodeIs ==
  /\ ScanCode \in Seq(Item) /\ Len(ScanCode) = 8
  /\ ScanCode[1] = <<"disown", "ptable">> /\ ScanCode[2] = <<"clear", "ptable">> /\ ScanCode[3] = <<"popcli", "ptable">>
  /\ ScanCode[4] = <<"sti", "none">> /\ ScanCode[5] = <<"pushcli", "ptable">> /\ ScanCode[6] = <<"xchg", "ptable">>
  /\ ScanCode[7] = <<"own", "ptable">> /\ ScanCode[8] = <<"pick", "none">>
<1>. DEFINE rel == Release("ptable")
            s == Scheduler
            q1 == rel \o s
<1>1. rel \in Seq(Item) /\ Len(rel) = 3
  BY ReleaseIs, LocksAre
<1>2. /\ rel[1] = <<"disown", "ptable">> /\ rel[2] = <<"clear", "ptable">> /\ rel[3] = <<"popcli", "ptable">>
  BY ReleaseIs, LocksAre
<1>3. s \in Seq(Item) /\ Len(s) = 5
  BY SchedulerIs
<1>4. /\ s[1] = <<"sti", "none">> /\ s[2] = <<"pushcli", "ptable">> /\ s[3] = <<"xchg", "ptable">>
      /\ s[4] = <<"own", "ptable">> /\ s[5] = <<"pick", "none">>
  BY SchedulerIs
<1>5. ScanCode = q1
  BY DEF ScanCode
<1>. HIDE DEF rel, s, q1
<1>6. /\ q1 \in Seq(Item) /\ Len(q1) = Len(rel) + Len(s)
      /\ \A k \in 1 .. Len(rel) : q1[k] = rel[k]
      /\ \A k \in 1 .. Len(s) : q1[Len(rel) + k] = s[k]
  BY <1>1, <1>3, Joins DEF q1
<1>7. q1 \in Seq(Item) /\ Len(q1) = 8
  BY <1>6, <1>1, <1>3
<1>8. /\ \A k \in 1 .. 3 : q1[k] = rel[k]
      /\ q1[4] = s[1] /\ q1[5] = s[2] /\ q1[6] = s[3] /\ q1[7] = s[4] /\ q1[8] = s[5]
  BY <1>6, <1>1, <1>3
<1>9. /\ q1[1] = <<"disown", "ptable">> /\ q1[2] = <<"clear", "ptable">> /\ q1[3] = <<"popcli", "ptable">>
      /\ q1[4] = <<"sti", "none">> /\ q1[5] = <<"pushcli", "ptable">> /\ q1[6] = <<"xchg", "ptable">>
      /\ q1[7] = <<"own", "ptable">> /\ q1[8] = <<"pick", "none">>
  BY <1>8, <1>2, <1>4
<1>. QED BY <1>5, <1>7, <1>9

LEMMA WakeupIs ==
  /\ Wakeup \in Seq(Item) /\ Len(Wakeup) = 7
  /\ Wakeup[1] = <<"pushcli", "ptable">> /\ Wakeup[2] = <<"xchg", "ptable">> /\ Wakeup[3] = <<"own", "ptable">>
  /\ Wakeup[4] = <<"wakeup1", "none">> /\ Wakeup[5] = <<"disown", "ptable">> /\ Wakeup[6] = <<"clear", "ptable">>
  /\ Wakeup[7] = <<"popcli", "ptable">>
<1>. DEFINE a == Acquire("ptable")
            g == Do("wakeup1")
            rel == Release("ptable")
            q1 == a \o g
            q2 == q1 \o rel
<1>1. a \in Seq(Item) /\ Len(a) = 3
  BY AcquireIs, LocksAre
<1>2. /\ a[1] = <<"pushcli", "ptable">> /\ a[2] = <<"xchg", "ptable">> /\ a[3] = <<"own", "ptable">>
  BY AcquireIs, LocksAre
<1>3. g \in Seq(Item) /\ Len(g) = 1
  BY DoIs DEF Op
<1>4. /\ g[1] = <<"wakeup1", "none">>
  BY DoIs DEF Op
<1>5. rel \in Seq(Item) /\ Len(rel) = 3
  BY ReleaseIs, LocksAre
<1>6. /\ rel[1] = <<"disown", "ptable">> /\ rel[2] = <<"clear", "ptable">> /\ rel[3] = <<"popcli", "ptable">>
  BY ReleaseIs, LocksAre
<1>7. Wakeup = q2
  BY DEF Wakeup
<1>. HIDE DEF a, g, rel, q1, q2
<1>8. /\ q1 \in Seq(Item) /\ Len(q1) = Len(a) + Len(g)
      /\ \A k \in 1 .. Len(a) : q1[k] = a[k]
      /\ \A k \in 1 .. Len(g) : q1[Len(a) + k] = g[k]
  BY <1>1, <1>3, Joins DEF q1
<1>9. q1 \in Seq(Item) /\ Len(q1) = 4
  BY <1>8, <1>1, <1>3
<1>10. /\ \A k \in 1 .. 3 : q1[k] = a[k]
       /\ q1[4] = g[1]
  BY <1>8, <1>1, <1>3
<1>11. /\ q1[1] = <<"pushcli", "ptable">> /\ q1[2] = <<"xchg", "ptable">> /\ q1[3] = <<"own", "ptable">>
       /\ q1[4] = <<"wakeup1", "none">>
  BY <1>10, <1>2, <1>4
<1>12. /\ q2 \in Seq(Item) /\ Len(q2) = Len(q1) + Len(rel)
       /\ \A k \in 1 .. Len(q1) : q2[k] = q1[k]
       /\ \A k \in 1 .. Len(rel) : q2[Len(q1) + k] = rel[k]
  BY <1>9, <1>5, Joins DEF q2
<1>13. q2 \in Seq(Item) /\ Len(q2) = 7
  BY <1>12, <1>9, <1>5
<1>14. /\ \A k \in 1 .. 4 : q2[k] = q1[k]
       /\ q2[5] = rel[1] /\ q2[6] = rel[2] /\ q2[7] = rel[3]
  BY <1>12, <1>9, <1>5
<1>15. /\ q2[1] = <<"pushcli", "ptable">> /\ q2[2] = <<"xchg", "ptable">> /\ q2[3] = <<"own", "ptable">>
       /\ q2[4] = <<"wakeup1", "none">> /\ q2[5] = <<"disown", "ptable">> /\ q2[6] = <<"clear", "ptable">>
       /\ q2[7] = <<"popcli", "ptable">>
  BY <1>14, <1>11, <1>6
<1>. QED BY <1>7, <1>13, <1>15

LEMMA HandlerIs ==
  /\ Handler \in Seq(Item) /\ Len(Handler) = 14
  /\ Handler[1] = <<"pushcli", "device">> /\ Handler[2] = <<"xchg", "device">> /\ Handler[3] = <<"own", "device">>
  /\ Handler[4] = <<"event", "none">> /\ Handler[5] = <<"pushcli", "ptable">> /\ Handler[6] = <<"xchg", "ptable">>
  /\ Handler[7] = <<"own", "ptable">> /\ Handler[8] = <<"wakeup1", "none">> /\ Handler[9] = <<"disown", "ptable">>
  /\ Handler[10] = <<"clear", "ptable">> /\ Handler[11] = <<"popcli", "ptable">> /\ Handler[12] = <<"disown", "device">>
  /\ Handler[13] = <<"clear", "device">> /\ Handler[14] = <<"popcli", "device">>
<1>. DEFINE a == Acquire("device")
            v == Do("event")
            g == Wakeup
            rel == Release("device")
            q1 == a \o v
            q2 == q1 \o g
            q3 == q2 \o rel
<1>1. a \in Seq(Item) /\ Len(a) = 3
  BY AcquireIs, LocksAre
<1>2. /\ a[1] = <<"pushcli", "device">> /\ a[2] = <<"xchg", "device">> /\ a[3] = <<"own", "device">>
  BY AcquireIs, LocksAre
<1>3. v \in Seq(Item) /\ Len(v) = 1
  BY DoIs DEF Op
<1>4. /\ v[1] = <<"event", "none">>
  BY DoIs DEF Op
<1>5. g \in Seq(Item) /\ Len(g) = 7
  BY WakeupIs
<1>6. /\ g[1] = <<"pushcli", "ptable">> /\ g[2] = <<"xchg", "ptable">> /\ g[3] = <<"own", "ptable">>
      /\ g[4] = <<"wakeup1", "none">> /\ g[5] = <<"disown", "ptable">> /\ g[6] = <<"clear", "ptable">>
      /\ g[7] = <<"popcli", "ptable">>
  BY WakeupIs
<1>7. rel \in Seq(Item) /\ Len(rel) = 3
  BY ReleaseIs, LocksAre
<1>8. /\ rel[1] = <<"disown", "device">> /\ rel[2] = <<"clear", "device">> /\ rel[3] = <<"popcli", "device">>
  BY ReleaseIs, LocksAre
<1>9. Handler = q3
  BY DEF Handler
<1>. HIDE DEF a, v, g, rel, q1, q2, q3
<1>10. /\ q1 \in Seq(Item) /\ Len(q1) = Len(a) + Len(v)
       /\ \A k \in 1 .. Len(a) : q1[k] = a[k]
       /\ \A k \in 1 .. Len(v) : q1[Len(a) + k] = v[k]
  BY <1>1, <1>3, Joins DEF q1
<1>11. q1 \in Seq(Item) /\ Len(q1) = 4
  BY <1>10, <1>1, <1>3
<1>12. /\ \A k \in 1 .. 3 : q1[k] = a[k]
       /\ q1[4] = v[1]
  BY <1>10, <1>1, <1>3
<1>13. /\ q1[1] = <<"pushcli", "device">> /\ q1[2] = <<"xchg", "device">> /\ q1[3] = <<"own", "device">>
       /\ q1[4] = <<"event", "none">>
  BY <1>12, <1>2, <1>4
<1>14. /\ q2 \in Seq(Item) /\ Len(q2) = Len(q1) + Len(g)
       /\ \A k \in 1 .. Len(q1) : q2[k] = q1[k]
       /\ \A k \in 1 .. Len(g) : q2[Len(q1) + k] = g[k]
  BY <1>11, <1>5, Joins DEF q2
<1>15. q2 \in Seq(Item) /\ Len(q2) = 11
  BY <1>14, <1>11, <1>5
<1>16. /\ \A k \in 1 .. 4 : q2[k] = q1[k]
       /\ q2[5] = g[1] /\ q2[6] = g[2] /\ q2[7] = g[3] /\ q2[8] = g[4] /\ q2[9] = g[5] /\ q2[10] = g[6] /\ q2[11] = g[7]
  BY <1>14, <1>11, <1>5
<1>17. /\ q2[1] = <<"pushcli", "device">> /\ q2[2] = <<"xchg", "device">> /\ q2[3] = <<"own", "device">>
       /\ q2[4] = <<"event", "none">> /\ q2[5] = <<"pushcli", "ptable">> /\ q2[6] = <<"xchg", "ptable">>
       /\ q2[7] = <<"own", "ptable">> /\ q2[8] = <<"wakeup1", "none">> /\ q2[9] = <<"disown", "ptable">>
       /\ q2[10] = <<"clear", "ptable">> /\ q2[11] = <<"popcli", "ptable">>
  BY <1>16, <1>13, <1>6
<1>18. /\ q3 \in Seq(Item) /\ Len(q3) = Len(q2) + Len(rel)
       /\ \A k \in 1 .. Len(q2) : q3[k] = q2[k]
       /\ \A k \in 1 .. Len(rel) : q3[Len(q2) + k] = rel[k]
  BY <1>15, <1>7, Joins DEF q3
<1>19. q3 \in Seq(Item) /\ Len(q3) = 14
  BY <1>18, <1>15, <1>7
<1>20. /\ \A k \in 1 .. 11 : q3[k] = q2[k]
       /\ q3[12] = rel[1] /\ q3[13] = rel[2] /\ q3[14] = rel[3]
  BY <1>18, <1>15, <1>7
<1>21. /\ q3[1] = <<"pushcli", "device">> /\ q3[2] = <<"xchg", "device">> /\ q3[3] = <<"own", "device">>
       /\ q3[4] = <<"event", "none">> /\ q3[5] = <<"pushcli", "ptable">> /\ q3[6] = <<"xchg", "ptable">>
       /\ q3[7] = <<"own", "ptable">> /\ q3[8] = <<"wakeup1", "none">> /\ q3[9] = <<"disown", "ptable">>
       /\ q3[10] = <<"clear", "ptable">> /\ q3[11] = <<"popcli", "ptable">> /\ q3[12] = <<"disown", "device">>
       /\ q3[13] = <<"clear", "device">> /\ q3[14] = <<"popcli", "device">>
  BY <1>20, <1>17, <1>8
<1>. QED BY <1>9, <1>19, <1>21

LEMMA DeviceCodeIs ==
  /\ DeviceCode \in Seq(Item) /\ Len(DeviceCode) = 15
  /\ DeviceCode[1] = <<"pushcli", "device">> /\ DeviceCode[2] = <<"xchg", "device">> /\ DeviceCode[3] = <<"own", "device">>
  /\ DeviceCode[4] = <<"event", "none">> /\ DeviceCode[5] = <<"pushcli", "ptable">> /\ DeviceCode[6] = <<"xchg", "ptable">>
  /\ DeviceCode[7] = <<"own", "ptable">> /\ DeviceCode[8] = <<"wakeup1", "none">> /\ DeviceCode[9] = <<"disown", "ptable">>
  /\ DeviceCode[10] = <<"clear", "ptable">> /\ DeviceCode[11] = <<"popcli", "ptable">> /\ DeviceCode[12] = <<"disown", "device">>
  /\ DeviceCode[13] = <<"clear", "device">> /\ DeviceCode[14] = <<"popcli", "device">> /\ DeviceCode[15] = <<"iret", "none">>
<1>. DEFINE h == Handler
            t == Do("iret")
            q1 == h \o t
<1>1. h \in Seq(Item) /\ Len(h) = 14
  BY HandlerIs
<1>2. /\ h[1] = <<"pushcli", "device">> /\ h[2] = <<"xchg", "device">> /\ h[3] = <<"own", "device">>
      /\ h[4] = <<"event", "none">> /\ h[5] = <<"pushcli", "ptable">> /\ h[6] = <<"xchg", "ptable">>
      /\ h[7] = <<"own", "ptable">> /\ h[8] = <<"wakeup1", "none">> /\ h[9] = <<"disown", "ptable">>
      /\ h[10] = <<"clear", "ptable">> /\ h[11] = <<"popcli", "ptable">> /\ h[12] = <<"disown", "device">>
      /\ h[13] = <<"clear", "device">> /\ h[14] = <<"popcli", "device">>
  BY HandlerIs
<1>3. t \in Seq(Item) /\ Len(t) = 1
  BY DoIs DEF Op
<1>4. /\ t[1] = <<"iret", "none">>
  BY DoIs DEF Op
<1>5. DeviceCode = q1
  BY DEF DeviceCode
<1>. HIDE DEF h, t, q1
<1>6. /\ q1 \in Seq(Item) /\ Len(q1) = Len(h) + Len(t)
      /\ \A k \in 1 .. Len(h) : q1[k] = h[k]
      /\ \A k \in 1 .. Len(t) : q1[Len(h) + k] = t[k]
  BY <1>1, <1>3, Joins DEF q1
<1>7. q1 \in Seq(Item) /\ Len(q1) = 15
  BY <1>6, <1>1, <1>3
<1>8. /\ \A k \in 1 .. 14 : q1[k] = h[k]
      /\ q1[15] = t[1]
  BY <1>6, <1>1, <1>3
<1>9. /\ q1[1] = <<"pushcli", "device">> /\ q1[2] = <<"xchg", "device">> /\ q1[3] = <<"own", "device">>
      /\ q1[4] = <<"event", "none">> /\ q1[5] = <<"pushcli", "ptable">> /\ q1[6] = <<"xchg", "ptable">>
      /\ q1[7] = <<"own", "ptable">> /\ q1[8] = <<"wakeup1", "none">> /\ q1[9] = <<"disown", "ptable">>
      /\ q1[10] = <<"clear", "ptable">> /\ q1[11] = <<"popcli", "ptable">> /\ q1[12] = <<"disown", "device">>
      /\ q1[13] = <<"clear", "device">> /\ q1[14] = <<"popcli", "device">> /\ q1[15] = <<"iret", "none">>
  BY <1>8, <1>2, <1>4
<1>. QED BY <1>5, <1>7, <1>9

LEMMA YieldIs ==
  /\ Yield \in Seq(Item) /\ Len(Yield) = 9
  /\ Yield[1] = <<"pushcli", "ptable">> /\ Yield[2] = <<"xchg", "ptable">> /\ Yield[3] = <<"own", "ptable">>
  /\ Yield[4] = <<"yield", "none">> /\ Yield[5] = <<"sched", "none">> /\ Yield[6] = <<"resume", "none">>
  /\ Yield[7] = <<"disown", "ptable">> /\ Yield[8] = <<"clear", "ptable">> /\ Yield[9] = <<"popcli", "ptable">>
<1>. DEFINE a == Acquire("ptable")
            y == Do("yield")
            u == Do("sched")
            v == Do("resume")
            rel == Release("ptable")
            q1 == a \o y
            q2 == q1 \o u
            q3 == q2 \o v
            q4 == q3 \o rel
<1>1. a \in Seq(Item) /\ Len(a) = 3
  BY AcquireIs, LocksAre
<1>2. /\ a[1] = <<"pushcli", "ptable">> /\ a[2] = <<"xchg", "ptable">> /\ a[3] = <<"own", "ptable">>
  BY AcquireIs, LocksAre
<1>3. y \in Seq(Item) /\ Len(y) = 1
  BY DoIs DEF Op
<1>4. /\ y[1] = <<"yield", "none">>
  BY DoIs DEF Op
<1>5. u \in Seq(Item) /\ Len(u) = 1
  BY DoIs DEF Op
<1>6. /\ u[1] = <<"sched", "none">>
  BY DoIs DEF Op
<1>7. v \in Seq(Item) /\ Len(v) = 1
  BY DoIs DEF Op
<1>8. /\ v[1] = <<"resume", "none">>
  BY DoIs DEF Op
<1>9. rel \in Seq(Item) /\ Len(rel) = 3
  BY ReleaseIs, LocksAre
<1>10. /\ rel[1] = <<"disown", "ptable">> /\ rel[2] = <<"clear", "ptable">> /\ rel[3] = <<"popcli", "ptable">>
  BY ReleaseIs, LocksAre
<1>11. Yield = q4
  BY DEF Yield
<1>. HIDE DEF a, y, u, v, rel, q1, q2, q3, q4
<1>12. /\ q1 \in Seq(Item) /\ Len(q1) = Len(a) + Len(y)
       /\ \A k \in 1 .. Len(a) : q1[k] = a[k]
       /\ \A k \in 1 .. Len(y) : q1[Len(a) + k] = y[k]
  BY <1>1, <1>3, Joins DEF q1
<1>13. q1 \in Seq(Item) /\ Len(q1) = 4
  BY <1>12, <1>1, <1>3
<1>14. /\ \A k \in 1 .. 3 : q1[k] = a[k]
       /\ q1[4] = y[1]
  BY <1>12, <1>1, <1>3
<1>15. /\ q1[1] = <<"pushcli", "ptable">> /\ q1[2] = <<"xchg", "ptable">> /\ q1[3] = <<"own", "ptable">>
       /\ q1[4] = <<"yield", "none">>
  BY <1>14, <1>2, <1>4
<1>16. /\ q2 \in Seq(Item) /\ Len(q2) = Len(q1) + Len(u)
       /\ \A k \in 1 .. Len(q1) : q2[k] = q1[k]
       /\ \A k \in 1 .. Len(u) : q2[Len(q1) + k] = u[k]
  BY <1>13, <1>5, Joins DEF q2
<1>17. q2 \in Seq(Item) /\ Len(q2) = 5
  BY <1>16, <1>13, <1>5
<1>18. /\ \A k \in 1 .. 4 : q2[k] = q1[k]
       /\ q2[5] = u[1]
  BY <1>16, <1>13, <1>5
<1>19. /\ q2[1] = <<"pushcli", "ptable">> /\ q2[2] = <<"xchg", "ptable">> /\ q2[3] = <<"own", "ptable">>
       /\ q2[4] = <<"yield", "none">> /\ q2[5] = <<"sched", "none">>
  BY <1>18, <1>15, <1>6
<1>20. /\ q3 \in Seq(Item) /\ Len(q3) = Len(q2) + Len(v)
       /\ \A k \in 1 .. Len(q2) : q3[k] = q2[k]
       /\ \A k \in 1 .. Len(v) : q3[Len(q2) + k] = v[k]
  BY <1>17, <1>7, Joins DEF q3
<1>21. q3 \in Seq(Item) /\ Len(q3) = 6
  BY <1>20, <1>17, <1>7
<1>22. /\ \A k \in 1 .. 5 : q3[k] = q2[k]
       /\ q3[6] = v[1]
  BY <1>20, <1>17, <1>7
<1>23. /\ q3[1] = <<"pushcli", "ptable">> /\ q3[2] = <<"xchg", "ptable">> /\ q3[3] = <<"own", "ptable">>
       /\ q3[4] = <<"yield", "none">> /\ q3[5] = <<"sched", "none">> /\ q3[6] = <<"resume", "none">>
  BY <1>22, <1>19, <1>8
<1>24. /\ q4 \in Seq(Item) /\ Len(q4) = Len(q3) + Len(rel)
       /\ \A k \in 1 .. Len(q3) : q4[k] = q3[k]
       /\ \A k \in 1 .. Len(rel) : q4[Len(q3) + k] = rel[k]
  BY <1>21, <1>9, Joins DEF q4
<1>25. q4 \in Seq(Item) /\ Len(q4) = 9
  BY <1>24, <1>21, <1>9
<1>26. /\ \A k \in 1 .. 6 : q4[k] = q3[k]
       /\ q4[7] = rel[1] /\ q4[8] = rel[2] /\ q4[9] = rel[3]
  BY <1>24, <1>21, <1>9
<1>27. /\ q4[1] = <<"pushcli", "ptable">> /\ q4[2] = <<"xchg", "ptable">> /\ q4[3] = <<"own", "ptable">>
       /\ q4[4] = <<"yield", "none">> /\ q4[5] = <<"sched", "none">> /\ q4[6] = <<"resume", "none">>
       /\ q4[7] = <<"disown", "ptable">> /\ q4[8] = <<"clear", "ptable">> /\ q4[9] = <<"popcli", "ptable">>
  BY <1>26, <1>23, <1>10
<1>. QED BY <1>11, <1>25, <1>27

LEMMA TimerCodeIs ==
  /\ TimerCode \in Seq(Item) /\ Len(TimerCode) = 10
  /\ TimerCode[1] = <<"pushcli", "ptable">> /\ TimerCode[2] = <<"xchg", "ptable">> /\ TimerCode[3] = <<"own", "ptable">>
  /\ TimerCode[4] = <<"yield", "none">> /\ TimerCode[5] = <<"sched", "none">> /\ TimerCode[6] = <<"resume", "none">>
  /\ TimerCode[7] = <<"disown", "ptable">> /\ TimerCode[8] = <<"clear", "ptable">> /\ TimerCode[9] = <<"popcli", "ptable">>
  /\ TimerCode[10] = <<"iret", "none">>
<1>. DEFINE y == Yield
            t == Do("iret")
            q1 == y \o t
<1>1. y \in Seq(Item) /\ Len(y) = 9
  BY YieldIs
<1>2. /\ y[1] = <<"pushcli", "ptable">> /\ y[2] = <<"xchg", "ptable">> /\ y[3] = <<"own", "ptable">>
      /\ y[4] = <<"yield", "none">> /\ y[5] = <<"sched", "none">> /\ y[6] = <<"resume", "none">>
      /\ y[7] = <<"disown", "ptable">> /\ y[8] = <<"clear", "ptable">> /\ y[9] = <<"popcli", "ptable">>
  BY YieldIs
<1>3. t \in Seq(Item) /\ Len(t) = 1
  BY DoIs DEF Op
<1>4. /\ t[1] = <<"iret", "none">>
  BY DoIs DEF Op
<1>5. TimerCode = q1
  BY DEF TimerCode
<1>. HIDE DEF y, t, q1
<1>6. /\ q1 \in Seq(Item) /\ Len(q1) = Len(y) + Len(t)
      /\ \A k \in 1 .. Len(y) : q1[k] = y[k]
      /\ \A k \in 1 .. Len(t) : q1[Len(y) + k] = t[k]
  BY <1>1, <1>3, Joins DEF q1
<1>7. q1 \in Seq(Item) /\ Len(q1) = 10
  BY <1>6, <1>1, <1>3
<1>8. /\ \A k \in 1 .. 9 : q1[k] = y[k]
      /\ q1[10] = t[1]
  BY <1>6, <1>1, <1>3
<1>9. /\ q1[1] = <<"pushcli", "ptable">> /\ q1[2] = <<"xchg", "ptable">> /\ q1[3] = <<"own", "ptable">>
      /\ q1[4] = <<"yield", "none">> /\ q1[5] = <<"sched", "none">> /\ q1[6] = <<"resume", "none">>
      /\ q1[7] = <<"disown", "ptable">> /\ q1[8] = <<"clear", "ptable">> /\ q1[9] = <<"popcli", "ptable">>
      /\ q1[10] = <<"iret", "none">>
  BY <1>8, <1>2, <1>4
<1>. QED BY <1>5, <1>7, <1>9

-----------------------------------------------------------------------------
(* Places                                                                      *)

LEMMA PieceIs ==
  ASSUME NEW n \in Pieces
  PROVE  Piece(n) \in Seq(Item) /\ Len(Piece(n)) = Steps(n) /\ Steps(n) \in 4 .. 16
<1>1. CASE n = "call"
  BY <1>1, CallCodeIs DEF Piece, Steps
<1>2. CASE n = "ret"
  BY <1>2, RetCodeIs DEF Piece, Steps
<1>3. CASE n = "sleep"
  BY <1>3, SleepIs DEF Piece, Steps
<1>4. CASE n = "fork"
  BY <1>4, ForkCodeIs DEF Piece, Steps
<1>5. CASE n = "scan"
  BY <1>5, ScanCodeIs DEF Piece, Steps
<1>6. CASE n = "device"
  BY <1>6, DeviceCodeIs DEF Piece, Steps
<1>7. CASE n = "timer"
  BY <1>7, TimerCodeIs DEF Piece, Steps
<1>. QED BY <1>1, <1>2, <1>3, <1>4, <1>5, <1>6, <1>7 DEF Pieces

LEMMA EmptyIs == <<>> \in Seq(Item) /\ Len(<<>>) = 0
OBVIOUS

LEMMA TailIs ==
  ASSUME NEW s \in Seq(Item), s # <<>>
  PROVE  Tail(s) \in Seq(Item) /\ Len(Tail(s)) = Len(s) - 1 /\ \A k \in 1 .. Len(s) - 1 : Tail(s)[k] = s[k + 1]
OBVIOUS

LEMMA SameSeq ==
  ASSUME NEW s \in Seq(Item), NEW u \in Seq(Item), Len(s) = Len(u), \A k \in 1 .. Len(u) : s[k] = u[k]
  PROVE  s = u
OBVIOUS

LEMMA HeadIs ==
  ASSUME NEW s \in Seq(Item), Len(s) >= 1
  PROVE  s # <<>> /\ Head(s) = s[1]
OBVIOUS

LEMMA BottomIs ==
  ASSUME NEW b \in Bottoms
  PROVE  b \in Seq(Item) /\ Len(b) \in 0 .. 5
<1>1. CASE b = <<>>
  BY <1>1, EmptyIs
<1>2. CASE b = CallCode
  BY <1>2, CallCodeIs
<1>3. CASE b = Do("ret")
  BY <1>3, DoIs DEF Op
<1>4. CASE b = Scheduler
  BY <1>4, SchedulerIs
<1>5. CASE b = Tail(Scheduler)
  <2>1. Scheduler # <<>>
    BY SchedulerIs, EmptyIs
  <2>. QED BY <1>5, <2>1, SchedulerIs, TailIs
<1>. QED BY <1>1, <1>2, <1>3, <1>4, <1>5 DEF Bottoms

LEMMA PlaceIs ==
  ASSUME NEW t \in Thread, NEW n, NEW i, NEW b, Place(t, n, i, b)
  PROVE  /\ n \in Pieces /\ b \in Bottoms
         /\ i \in 1 .. Steps(n) + 1 /\ i \in 1 .. 16
         /\ i > Steps(n) => n \in {"ret", "fork"} /\ b = <<>>
BY DEF Place, Pieces, Bottoms, Below, Steps, Handlers

LEMMA WholeIs ==
  ASSUME NEW n \in Pieces, NEW b \in Bottoms
  PROVE  /\ Whole(n, b) \in Seq(Item) /\ Len(Whole(n, b)) = Steps(n) + Len(b)
         /\ \A k \in 1 .. Steps(n) : Whole(n, b)[k] = Piece(n)[k]
         /\ \A k \in 1 .. Len(b) : Whole(n, b)[Steps(n) + k] = b[k]
<1>1. Piece(n) \in Seq(Item) /\ Len(Piece(n)) = Steps(n) /\ b \in Seq(Item)
  BY PieceIs, BottomIs
<1>2. /\ Whole(n, b) \in Seq(Item) /\ Len(Whole(n, b)) = Len(Piece(n)) + Len(b)
      /\ \A k \in 1 .. Len(Piece(n)) : Whole(n, b)[k] = Piece(n)[k]
      /\ \A k \in 1 .. Len(b) : Whole(n, b)[Len(Piece(n)) + k] = b[k]
  BY <1>1, Joins DEF Whole
<1>. QED BY <1>1, <1>2

LEMMA Suffix ==
  ASSUME NEW g \in Seq(Item), NEW i \in 1 .. Len(g) + 1, NEW s, s = SubSeq(g, i, Len(g))
  PROVE  /\ s \in Seq(Item) /\ Len(s) = Len(g) + 1 - i
         /\ \A k \in 1 .. Len(s) : s[k] = g[i + k - 1]
         /\ i = Len(g) + 1 => s = <<>>
         /\ i = 1 => s = g
         /\ i <= Len(g) => s # <<>> /\ Head(s) = g[i] /\ Tail(s) = SubSeq(g, i + 1, Len(g))
<1>1. s \in Seq(Item) /\ Len(s) = Len(g) + 1 - i /\ \A k \in 1 .. Len(s) : s[k] = g[i + k - 1]
  OBVIOUS
<1>2. i = Len(g) + 1 => s = <<>>
  BY <1>1
<1>3. i = 1 => s = g
  OBVIOUS
<1>4. ASSUME i <= Len(g)
      PROVE  s # <<>> /\ Head(s) = g[i] /\ Tail(s) = SubSeq(g, i + 1, Len(g))
  <2>1. Len(s) >= 1
    BY <1>1, <1>4
  <2>2. s # <<>> /\ Head(s) = g[i]
    <3>1. s # <<>> /\ Head(s) = s[1]
      BY <1>1, <2>1, HeadIs
    <3>2. 1 \in 1 .. Len(s) /\ i + 1 - 1 = i
      BY <1>1, <2>1
    <3>. QED BY <1>1, <3>1, <3>2
  <2>3. /\ Tail(s) \in Seq(Item) /\ Len(Tail(s)) = Len(s) - 1
        /\ \A k \in 1 .. Len(s) - 1 : Tail(s)[k] = s[k + 1]
    BY <1>1, <2>2, TailIs
  <2>. DEFINE u == SubSeq(g, i + 1, Len(g))
  <2>4. u \in Seq(Item) /\ Len(u) = Len(g) - i /\ \A k \in 1 .. Len(u) : u[k] = g[i + 1 + k - 1]
    BY <1>4
  <2>. HIDE DEF u
  <2>5. Len(Tail(s)) = Len(u)
    BY <1>1, <2>3, <2>4
  <2>6. ASSUME NEW k \in 1 .. Len(u) PROVE Tail(s)[k] = u[k]
    BY <1>1, <2>3, <2>4, <2>6
  <2>7. Tail(s) = u
    BY <2>3, <2>4, <2>5, <2>6, SameSeq
  <2>. QED BY <2>2, <2>7 DEF u
<1>. QED BY <1>1, <1>2, <1>3, <1>4

LEMMA StandsIs ==
  ASSUME NEW s, NEW t \in Thread, NEW n, NEW i, NEW b, Stands(s, t, n, i, b)
  PROVE  /\ n \in Pieces /\ b \in Bottoms /\ i \in 1 .. Steps(n) + 1 /\ i \in 1 .. 16
         /\ i \in 1 .. Len(Whole(n, b)) + 1
         /\ i <= Steps(n) => i <= Len(Whole(n, b)) /\ Whole(n, b)[i] = Piece(n)[i]
         /\ i > Steps(n) => b = <<>> /\ i = Len(Whole(n, b)) + 1
         /\ s = SubSeq(Whole(n, b), i, Len(Whole(n, b)))
         /\ s \in Seq(Item)
<1>1. /\ n \in Pieces /\ b \in Bottoms /\ i \in 1 .. Steps(n) + 1 /\ i \in 1 .. 16
      /\ i > Steps(n) => b = <<>>
  BY PlaceIs DEF Stands
<1>2. /\ Whole(n, b) \in Seq(Item) /\ Len(Whole(n, b)) = Steps(n) + Len(b)
      /\ \A k \in 1 .. Steps(n) : Whole(n, b)[k] = Piece(n)[k]
  BY <1>1, WholeIs
<1>3. Len(b) \in Nat /\ Steps(n) \in Nat /\ Len(<<>>) = 0
  BY <1>1, BottomIs, PieceIs, EmptyIs
<1>4. i \in 1 .. Len(Whole(n, b)) + 1
  BY <1>1, <1>2, <1>3
<1>5. s = SubSeq(Whole(n, b), i, Len(Whole(n, b)))
  BY DEF Stands
<1>6. i <= Steps(n) => i <= Len(Whole(n, b)) /\ i \in 1 .. Steps(n)
  BY <1>1, <1>2, <1>3
<1>7. i > Steps(n) => b = <<>> /\ i = Len(Whole(n, b)) + 1
  BY <1>1, <1>2, <1>3
<1>8. s \in Seq(Item)
  BY <1>2, <1>4, <1>5, Suffix
<1>. QED BY <1>1, <1>2, <1>4, <1>5, <1>6, <1>7, <1>8

(* The next step of t, and what is behind it.                                  *)
LEMMA NextOf ==
  ASSUME NEW s, NEW t \in Thread, NEW n, NEW i, NEW b, Stands(s, t, n, i, b)
  PROVE  /\ i <= Steps(n) => /\ s # <<>> /\ Head(s) = Piece(n)[i]
                             /\ Tail(s) = SubSeq(Whole(n, b), i + 1, Len(Whole(n, b)))
         /\ i > Steps(n) => s = <<>>
<1>1. /\ n \in Pieces /\ b \in Bottoms /\ i \in 1 .. Len(Whole(n, b)) + 1
      /\ i <= Steps(n) => i <= Len(Whole(n, b)) /\ Whole(n, b)[i] = Piece(n)[i]
      /\ i > Steps(n) => i = Len(Whole(n, b)) + 1
      /\ s = SubSeq(Whole(n, b), i, Len(Whole(n, b)))
  BY StandsIs
<1>2. Whole(n, b) \in Seq(Item)
  BY <1>1, WholeIs
<1>4. /\ s \in Seq(Item) /\ Len(s) = Len(Whole(n, b)) + 1 - i
      /\ \A k \in 1 .. Len(s) : s[k] = Whole(n, b)[i + k - 1]
      /\ i = Len(Whole(n, b)) + 1 => s = <<>>
      /\ i = 1 => s = Whole(n, b)
      /\ i <= Len(Whole(n, b)) => /\ s # <<>> /\ Head(s) = Whole(n, b)[i]
                                  /\ Tail(s) = SubSeq(Whole(n, b), i + 1, Len(Whole(n, b)))
  BY <1>1, <1>2, Suffix
<1>3. /\ i = Len(Whole(n, b)) + 1 => s = <<>>
      /\ i <= Len(Whole(n, b)) => s # <<>> /\ Head(s) = Whole(n, b)[i]
                                  /\ Tail(s) = SubSeq(Whole(n, b), i + 1, Len(Whole(n, b)))
  BY <1>4
<1>. QED BY <1>1, <1>3

LEMMA NothingLeft ==
  ASSUME NEW n \in Pieces, NEW b \in Bottoms, NEW i, i = Steps(n) + 1
  PROVE  SubSeq(Whole(n, b), i, Len(Whole(n, b))) = b
<1>1. /\ Whole(n, b) \in Seq(Item) /\ Len(Whole(n, b)) = Steps(n) + Len(b)
      /\ \A k \in 1 .. Len(b) : Whole(n, b)[Steps(n) + k] = b[k]
      /\ b \in Seq(Item) /\ Len(b) \in Nat /\ Steps(n) \in Nat
  BY WholeIs, BottomIs, PieceIs
<1>. DEFINE s == SubSeq(Whole(n, b), i, Len(Whole(n, b)))
<1>2. i \in 1 .. Len(Whole(n, b)) + 1
  BY <1>1
<1>3. /\ s \in Seq(Item) /\ Len(s) = Len(Whole(n, b)) + 1 - i
      /\ \A k \in 1 .. Len(s) : s[k] = Whole(n, b)[i + k - 1]
  BY <1>1, <1>2, Suffix
<1>. HIDE DEF s
<1>4. Len(s) = Len(b)
  BY <1>1, <1>3
<1>5. ASSUME NEW k \in 1 .. Len(b) PROVE s[k] = b[k]
  <2>1. k \in 1 .. Len(s) /\ i + k - 1 = Steps(n) + k
    BY <1>1, <1>4
  <2>. QED BY <1>1, <1>3, <2>1
<1>6. s = b
  BY <1>1, <1>3, <1>4, <1>5, SameSeq
<1>. QED BY <1>6 DEF s

(* Where each step of the code is.                                             *)
Where(n, i, o, l) ==
    /\ o = "pushcli" =>
         \/ l = "device" /\ <<n, i>> \in {<<"call", 1>>, <<"sleep", 13>>, <<"device", 1>>}
         \/ l = "ptable" /\ <<n, i>> \in {<<"sleep", 1>>, <<"scan", 5>>, <<"device", 5>>, <<"timer", 1>>}
    /\ o = "xchg" =>
         \/ l = "device" /\ <<n, i>> \in {<<"call", 2>>, <<"sleep", 14>>, <<"device", 2>>}
         \/ l = "ptable" /\ <<n, i>> \in {<<"sleep", 2>>, <<"scan", 6>>, <<"device", 6>>, <<"timer", 2>>}
    /\ o = "own" =>
         \/ l = "device" /\ <<n, i>> \in {<<"call", 3>>, <<"sleep", 15>>, <<"device", 3>>}
         \/ l = "ptable" /\ <<n, i>> \in {<<"sleep", 3>>, <<"scan", 7>>, <<"device", 7>>, <<"timer", 3>>}
    /\ o = "test" => l = "none" /\ <<n, i>> \in {<<"call", 4>>, <<"sleep", 16>>}
    /\ o = "disown" =>
         \/ l = "device" /\ <<n, i>> \in {<<"ret", 1>>, <<"sleep", 4>>, <<"device", 12>>}
         \/ l = "ptable" /\ <<n, i>> \in {<<"sleep", 10>>, <<"fork", 1>>, <<"scan", 1>>, <<"device", 9>>, <<"timer", 7>>}
    /\ o = "clear" =>
         \/ l = "device" /\ <<n, i>> \in {<<"ret", 2>>, <<"sleep", 5>>, <<"device", 13>>}
         \/ l = "ptable" /\ <<n, i>> \in {<<"sleep", 11>>, <<"fork", 2>>, <<"scan", 2>>, <<"device", 10>>, <<"timer", 8>>}
    /\ o = "popcli" =>
         \/ l = "device" /\ <<n, i>> \in {<<"ret", 3>>, <<"sleep", 6>>, <<"device", 14>>}
         \/ l = "ptable" /\ <<n, i>> \in {<<"sleep", 12>>, <<"fork", 3>>, <<"scan", 3>>, <<"device", 11>>, <<"timer", 9>>}
    /\ o = "ret" => l = "none" /\ <<n, i>> \in {<<"ret", 4>>, <<"fork", 4>>}
    /\ o = "sleep" => l = "none" /\ <<n, i>> \in {<<"sleep", 7>>}
    /\ o = "sched" => l = "none" /\ <<n, i>> \in {<<"sleep", 8>>, <<"timer", 5>>}
    /\ o = "resume" => l = "none" /\ <<n, i>> \in {<<"sleep", 9>>, <<"timer", 6>>}
    /\ o = "sti" => l = "none" /\ <<n, i>> \in {<<"scan", 4>>}
    /\ o = "pick" => l = "none" /\ <<n, i>> \in {<<"scan", 8>>}
    /\ o = "event" => l = "none" /\ <<n, i>> \in {<<"device", 4>>}
    /\ o = "wakeup1" => l = "none" /\ <<n, i>> \in {<<"device", 8>>}
    /\ o = "iret" => l = "none" /\ <<n, i>> \in {<<"device", 15>>, <<"timer", 10>>}
    /\ o = "yield" => l = "none" /\ <<n, i>> \in {<<"timer", 4>>}

LEMMA WhereIs ==
  ASSUME NEW n \in Pieces, NEW i \in 1 .. Steps(n)
  PROVE  Where(n, i, Piece(n)[i][1], Piece(n)[i][2])
<1>1. CASE n = "call"
  <2>1. Piece(n) = CallCode /\ i \in 1 .. 4
    BY <1>1 DEF Piece, Steps
  <2>2. i = 1 \/ i = 2 \/ i = 3 \/ i = 4
    BY <2>1
  <2>3. CASE i = 1
    <3>1. CallCode[i][1] = "pushcli" /\ CallCode[i][2] = "device"
      BY <2>3, CallCodeIs
    <3>. QED BY <1>1, <2>1, <2>3, <3>1 DEF Where
  <2>4. CASE i = 2
    <3>1. CallCode[i][1] = "xchg" /\ CallCode[i][2] = "device"
      BY <2>4, CallCodeIs
    <3>. QED BY <1>1, <2>1, <2>4, <3>1 DEF Where
  <2>5. CASE i = 3
    <3>1. CallCode[i][1] = "own" /\ CallCode[i][2] = "device"
      BY <2>5, CallCodeIs
    <3>. QED BY <1>1, <2>1, <2>5, <3>1 DEF Where
  <2>6. CASE i = 4
    <3>1. CallCode[i][1] = "test" /\ CallCode[i][2] = "none"
      BY <2>6, CallCodeIs
    <3>. QED BY <1>1, <2>1, <2>6, <3>1 DEF Where
  <2>. QED BY <2>2, <2>3, <2>4, <2>5, <2>6
<1>2. CASE n = "ret"
  <2>1. Piece(n) = RetCode /\ i \in 1 .. 4
    BY <1>2 DEF Piece, Steps
  <2>2. i = 1 \/ i = 2 \/ i = 3 \/ i = 4
    BY <2>1
  <2>3. CASE i = 1
    <3>1. RetCode[i][1] = "disown" /\ RetCode[i][2] = "device"
      BY <2>3, RetCodeIs
    <3>. QED BY <1>2, <2>1, <2>3, <3>1 DEF Where
  <2>4. CASE i = 2
    <3>1. RetCode[i][1] = "clear" /\ RetCode[i][2] = "device"
      BY <2>4, RetCodeIs
    <3>. QED BY <1>2, <2>1, <2>4, <3>1 DEF Where
  <2>5. CASE i = 3
    <3>1. RetCode[i][1] = "popcli" /\ RetCode[i][2] = "device"
      BY <2>5, RetCodeIs
    <3>. QED BY <1>2, <2>1, <2>5, <3>1 DEF Where
  <2>6. CASE i = 4
    <3>1. RetCode[i][1] = "ret" /\ RetCode[i][2] = "none"
      BY <2>6, RetCodeIs
    <3>. QED BY <1>2, <2>1, <2>6, <3>1 DEF Where
  <2>. QED BY <2>2, <2>3, <2>4, <2>5, <2>6
<1>3. CASE n = "sleep"
  <2>1. Piece(n) = Sleep /\ i \in 1 .. 16
    BY <1>3 DEF Piece, Steps
  <2>2. i = 1 \/ i = 2 \/ i = 3 \/ i = 4 \/ i = 5 \/ i = 6 \/ i = 7 \/ i = 8 \/ i = 9 \/ i = 10 \/ i = 11 \/ i = 12 \/ i = 13 \/ i = 14 \/ i = 15 \/ i = 16
    BY <2>1
  <2>3. CASE i = 1
    <3>1. Sleep[i][1] = "pushcli" /\ Sleep[i][2] = "ptable"
      BY <2>3, SleepIs
    <3>. QED BY <1>3, <2>1, <2>3, <3>1 DEF Where
  <2>4. CASE i = 2
    <3>1. Sleep[i][1] = "xchg" /\ Sleep[i][2] = "ptable"
      BY <2>4, SleepIs
    <3>. QED BY <1>3, <2>1, <2>4, <3>1 DEF Where
  <2>5. CASE i = 3
    <3>1. Sleep[i][1] = "own" /\ Sleep[i][2] = "ptable"
      BY <2>5, SleepIs
    <3>. QED BY <1>3, <2>1, <2>5, <3>1 DEF Where
  <2>6. CASE i = 4
    <3>1. Sleep[i][1] = "disown" /\ Sleep[i][2] = "device"
      BY <2>6, SleepIs
    <3>. QED BY <1>3, <2>1, <2>6, <3>1 DEF Where
  <2>7. CASE i = 5
    <3>1. Sleep[i][1] = "clear" /\ Sleep[i][2] = "device"
      BY <2>7, SleepIs
    <3>. QED BY <1>3, <2>1, <2>7, <3>1 DEF Where
  <2>8. CASE i = 6
    <3>1. Sleep[i][1] = "popcli" /\ Sleep[i][2] = "device"
      BY <2>8, SleepIs
    <3>. QED BY <1>3, <2>1, <2>8, <3>1 DEF Where
  <2>9. CASE i = 7
    <3>1. Sleep[i][1] = "sleep" /\ Sleep[i][2] = "none"
      BY <2>9, SleepIs
    <3>. QED BY <1>3, <2>1, <2>9, <3>1 DEF Where
  <2>10. CASE i = 8
    <3>1. Sleep[i][1] = "sched" /\ Sleep[i][2] = "none"
      BY <2>10, SleepIs
    <3>. QED BY <1>3, <2>1, <2>10, <3>1 DEF Where
  <2>11. CASE i = 9
    <3>1. Sleep[i][1] = "resume" /\ Sleep[i][2] = "none"
      BY <2>11, SleepIs
    <3>. QED BY <1>3, <2>1, <2>11, <3>1 DEF Where
  <2>12. CASE i = 10
    <3>1. Sleep[i][1] = "disown" /\ Sleep[i][2] = "ptable"
      BY <2>12, SleepIs
    <3>. QED BY <1>3, <2>1, <2>12, <3>1 DEF Where
  <2>13. CASE i = 11
    <3>1. Sleep[i][1] = "clear" /\ Sleep[i][2] = "ptable"
      BY <2>13, SleepIs
    <3>. QED BY <1>3, <2>1, <2>13, <3>1 DEF Where
  <2>14. CASE i = 12
    <3>1. Sleep[i][1] = "popcli" /\ Sleep[i][2] = "ptable"
      BY <2>14, SleepIs
    <3>. QED BY <1>3, <2>1, <2>14, <3>1 DEF Where
  <2>15. CASE i = 13
    <3>1. Sleep[i][1] = "pushcli" /\ Sleep[i][2] = "device"
      BY <2>15, SleepIs
    <3>. QED BY <1>3, <2>1, <2>15, <3>1 DEF Where
  <2>16. CASE i = 14
    <3>1. Sleep[i][1] = "xchg" /\ Sleep[i][2] = "device"
      BY <2>16, SleepIs
    <3>. QED BY <1>3, <2>1, <2>16, <3>1 DEF Where
  <2>17. CASE i = 15
    <3>1. Sleep[i][1] = "own" /\ Sleep[i][2] = "device"
      BY <2>17, SleepIs
    <3>. QED BY <1>3, <2>1, <2>17, <3>1 DEF Where
  <2>18. CASE i = 16
    <3>1. Sleep[i][1] = "test" /\ Sleep[i][2] = "none"
      BY <2>18, SleepIs
    <3>. QED BY <1>3, <2>1, <2>18, <3>1 DEF Where
  <2>. QED BY <2>2, <2>3, <2>4, <2>5, <2>6, <2>7, <2>8, <2>9, <2>10, <2>11, <2>12, <2>13, <2>14, <2>15, <2>16, <2>17, <2>18
<1>4. CASE n = "fork"
  <2>1. Piece(n) = ForkCode /\ i \in 1 .. 4
    BY <1>4 DEF Piece, Steps
  <2>2. i = 1 \/ i = 2 \/ i = 3 \/ i = 4
    BY <2>1
  <2>3. CASE i = 1
    <3>1. ForkCode[i][1] = "disown" /\ ForkCode[i][2] = "ptable"
      BY <2>3, ForkCodeIs
    <3>. QED BY <1>4, <2>1, <2>3, <3>1 DEF Where
  <2>4. CASE i = 2
    <3>1. ForkCode[i][1] = "clear" /\ ForkCode[i][2] = "ptable"
      BY <2>4, ForkCodeIs
    <3>. QED BY <1>4, <2>1, <2>4, <3>1 DEF Where
  <2>5. CASE i = 3
    <3>1. ForkCode[i][1] = "popcli" /\ ForkCode[i][2] = "ptable"
      BY <2>5, ForkCodeIs
    <3>. QED BY <1>4, <2>1, <2>5, <3>1 DEF Where
  <2>6. CASE i = 4
    <3>1. ForkCode[i][1] = "ret" /\ ForkCode[i][2] = "none"
      BY <2>6, ForkCodeIs
    <3>. QED BY <1>4, <2>1, <2>6, <3>1 DEF Where
  <2>. QED BY <2>2, <2>3, <2>4, <2>5, <2>6
<1>5. CASE n = "scan"
  <2>1. Piece(n) = ScanCode /\ i \in 1 .. 8
    BY <1>5 DEF Piece, Steps
  <2>2. i = 1 \/ i = 2 \/ i = 3 \/ i = 4 \/ i = 5 \/ i = 6 \/ i = 7 \/ i = 8
    BY <2>1
  <2>3. CASE i = 1
    <3>1. ScanCode[i][1] = "disown" /\ ScanCode[i][2] = "ptable"
      BY <2>3, ScanCodeIs
    <3>. QED BY <1>5, <2>1, <2>3, <3>1 DEF Where
  <2>4. CASE i = 2
    <3>1. ScanCode[i][1] = "clear" /\ ScanCode[i][2] = "ptable"
      BY <2>4, ScanCodeIs
    <3>. QED BY <1>5, <2>1, <2>4, <3>1 DEF Where
  <2>5. CASE i = 3
    <3>1. ScanCode[i][1] = "popcli" /\ ScanCode[i][2] = "ptable"
      BY <2>5, ScanCodeIs
    <3>. QED BY <1>5, <2>1, <2>5, <3>1 DEF Where
  <2>6. CASE i = 4
    <3>1. ScanCode[i][1] = "sti" /\ ScanCode[i][2] = "none"
      BY <2>6, ScanCodeIs
    <3>. QED BY <1>5, <2>1, <2>6, <3>1 DEF Where
  <2>7. CASE i = 5
    <3>1. ScanCode[i][1] = "pushcli" /\ ScanCode[i][2] = "ptable"
      BY <2>7, ScanCodeIs
    <3>. QED BY <1>5, <2>1, <2>7, <3>1 DEF Where
  <2>8. CASE i = 6
    <3>1. ScanCode[i][1] = "xchg" /\ ScanCode[i][2] = "ptable"
      BY <2>8, ScanCodeIs
    <3>. QED BY <1>5, <2>1, <2>8, <3>1 DEF Where
  <2>9. CASE i = 7
    <3>1. ScanCode[i][1] = "own" /\ ScanCode[i][2] = "ptable"
      BY <2>9, ScanCodeIs
    <3>. QED BY <1>5, <2>1, <2>9, <3>1 DEF Where
  <2>10. CASE i = 8
    <3>1. ScanCode[i][1] = "pick" /\ ScanCode[i][2] = "none"
      BY <2>10, ScanCodeIs
    <3>. QED BY <1>5, <2>1, <2>10, <3>1 DEF Where
  <2>. QED BY <2>2, <2>3, <2>4, <2>5, <2>6, <2>7, <2>8, <2>9, <2>10
<1>6. CASE n = "device"
  <2>1. Piece(n) = DeviceCode /\ i \in 1 .. 15
    BY <1>6 DEF Piece, Steps
  <2>2. i = 1 \/ i = 2 \/ i = 3 \/ i = 4 \/ i = 5 \/ i = 6 \/ i = 7 \/ i = 8 \/ i = 9 \/ i = 10 \/ i = 11 \/ i = 12 \/ i = 13 \/ i = 14 \/ i = 15
    BY <2>1
  <2>3. CASE i = 1
    <3>1. DeviceCode[i][1] = "pushcli" /\ DeviceCode[i][2] = "device"
      BY <2>3, DeviceCodeIs
    <3>. QED BY <1>6, <2>1, <2>3, <3>1 DEF Where
  <2>4. CASE i = 2
    <3>1. DeviceCode[i][1] = "xchg" /\ DeviceCode[i][2] = "device"
      BY <2>4, DeviceCodeIs
    <3>. QED BY <1>6, <2>1, <2>4, <3>1 DEF Where
  <2>5. CASE i = 3
    <3>1. DeviceCode[i][1] = "own" /\ DeviceCode[i][2] = "device"
      BY <2>5, DeviceCodeIs
    <3>. QED BY <1>6, <2>1, <2>5, <3>1 DEF Where
  <2>6. CASE i = 4
    <3>1. DeviceCode[i][1] = "event" /\ DeviceCode[i][2] = "none"
      BY <2>6, DeviceCodeIs
    <3>. QED BY <1>6, <2>1, <2>6, <3>1 DEF Where
  <2>7. CASE i = 5
    <3>1. DeviceCode[i][1] = "pushcli" /\ DeviceCode[i][2] = "ptable"
      BY <2>7, DeviceCodeIs
    <3>. QED BY <1>6, <2>1, <2>7, <3>1 DEF Where
  <2>8. CASE i = 6
    <3>1. DeviceCode[i][1] = "xchg" /\ DeviceCode[i][2] = "ptable"
      BY <2>8, DeviceCodeIs
    <3>. QED BY <1>6, <2>1, <2>8, <3>1 DEF Where
  <2>9. CASE i = 7
    <3>1. DeviceCode[i][1] = "own" /\ DeviceCode[i][2] = "ptable"
      BY <2>9, DeviceCodeIs
    <3>. QED BY <1>6, <2>1, <2>9, <3>1 DEF Where
  <2>10. CASE i = 8
    <3>1. DeviceCode[i][1] = "wakeup1" /\ DeviceCode[i][2] = "none"
      BY <2>10, DeviceCodeIs
    <3>. QED BY <1>6, <2>1, <2>10, <3>1 DEF Where
  <2>11. CASE i = 9
    <3>1. DeviceCode[i][1] = "disown" /\ DeviceCode[i][2] = "ptable"
      BY <2>11, DeviceCodeIs
    <3>. QED BY <1>6, <2>1, <2>11, <3>1 DEF Where
  <2>12. CASE i = 10
    <3>1. DeviceCode[i][1] = "clear" /\ DeviceCode[i][2] = "ptable"
      BY <2>12, DeviceCodeIs
    <3>. QED BY <1>6, <2>1, <2>12, <3>1 DEF Where
  <2>13. CASE i = 11
    <3>1. DeviceCode[i][1] = "popcli" /\ DeviceCode[i][2] = "ptable"
      BY <2>13, DeviceCodeIs
    <3>. QED BY <1>6, <2>1, <2>13, <3>1 DEF Where
  <2>14. CASE i = 12
    <3>1. DeviceCode[i][1] = "disown" /\ DeviceCode[i][2] = "device"
      BY <2>14, DeviceCodeIs
    <3>. QED BY <1>6, <2>1, <2>14, <3>1 DEF Where
  <2>15. CASE i = 13
    <3>1. DeviceCode[i][1] = "clear" /\ DeviceCode[i][2] = "device"
      BY <2>15, DeviceCodeIs
    <3>. QED BY <1>6, <2>1, <2>15, <3>1 DEF Where
  <2>16. CASE i = 14
    <3>1. DeviceCode[i][1] = "popcli" /\ DeviceCode[i][2] = "device"
      BY <2>16, DeviceCodeIs
    <3>. QED BY <1>6, <2>1, <2>16, <3>1 DEF Where
  <2>17. CASE i = 15
    <3>1. DeviceCode[i][1] = "iret" /\ DeviceCode[i][2] = "none"
      BY <2>17, DeviceCodeIs
    <3>. QED BY <1>6, <2>1, <2>17, <3>1 DEF Where
  <2>. QED BY <2>2, <2>3, <2>4, <2>5, <2>6, <2>7, <2>8, <2>9, <2>10, <2>11, <2>12, <2>13, <2>14, <2>15, <2>16, <2>17
<1>7. CASE n = "timer"
  <2>1. Piece(n) = TimerCode /\ i \in 1 .. 10
    BY <1>7 DEF Piece, Steps
  <2>2. i = 1 \/ i = 2 \/ i = 3 \/ i = 4 \/ i = 5 \/ i = 6 \/ i = 7 \/ i = 8 \/ i = 9 \/ i = 10
    BY <2>1
  <2>3. CASE i = 1
    <3>1. TimerCode[i][1] = "pushcli" /\ TimerCode[i][2] = "ptable"
      BY <2>3, TimerCodeIs
    <3>. QED BY <1>7, <2>1, <2>3, <3>1 DEF Where
  <2>4. CASE i = 2
    <3>1. TimerCode[i][1] = "xchg" /\ TimerCode[i][2] = "ptable"
      BY <2>4, TimerCodeIs
    <3>. QED BY <1>7, <2>1, <2>4, <3>1 DEF Where
  <2>5. CASE i = 3
    <3>1. TimerCode[i][1] = "own" /\ TimerCode[i][2] = "ptable"
      BY <2>5, TimerCodeIs
    <3>. QED BY <1>7, <2>1, <2>5, <3>1 DEF Where
  <2>6. CASE i = 4
    <3>1. TimerCode[i][1] = "yield" /\ TimerCode[i][2] = "none"
      BY <2>6, TimerCodeIs
    <3>. QED BY <1>7, <2>1, <2>6, <3>1 DEF Where
  <2>7. CASE i = 5
    <3>1. TimerCode[i][1] = "sched" /\ TimerCode[i][2] = "none"
      BY <2>7, TimerCodeIs
    <3>. QED BY <1>7, <2>1, <2>7, <3>1 DEF Where
  <2>8. CASE i = 6
    <3>1. TimerCode[i][1] = "resume" /\ TimerCode[i][2] = "none"
      BY <2>8, TimerCodeIs
    <3>. QED BY <1>7, <2>1, <2>8, <3>1 DEF Where
  <2>9. CASE i = 7
    <3>1. TimerCode[i][1] = "disown" /\ TimerCode[i][2] = "ptable"
      BY <2>9, TimerCodeIs
    <3>. QED BY <1>7, <2>1, <2>9, <3>1 DEF Where
  <2>10. CASE i = 8
    <3>1. TimerCode[i][1] = "clear" /\ TimerCode[i][2] = "ptable"
      BY <2>10, TimerCodeIs
    <3>. QED BY <1>7, <2>1, <2>10, <3>1 DEF Where
  <2>11. CASE i = 9
    <3>1. TimerCode[i][1] = "popcli" /\ TimerCode[i][2] = "ptable"
      BY <2>11, TimerCodeIs
    <3>. QED BY <1>7, <2>1, <2>11, <3>1 DEF Where
  <2>12. CASE i = 10
    <3>1. TimerCode[i][1] = "iret" /\ TimerCode[i][2] = "none"
      BY <2>12, TimerCodeIs
    <3>. QED BY <1>7, <2>1, <2>12, <3>1 DEF Where
  <2>. QED BY <2>2, <2>3, <2>4, <2>5, <2>6, <2>7, <2>8, <2>9, <2>10, <2>11, <2>12
<1>. QED BY <1>1, <1>2, <1>3, <1>4, <1>5, <1>6, <1>7 DEF Pieces

-----------------------------------------------------------------------------
(* Steps from place to place                                                   *)

LEMMA OpIs ==
  ASSUME NEW s, NEW t \in Thread, NEW n, NEW i, NEW b, Stands(s, t, n, i, b), s # <<>>
  PROVE  i \in 1 .. Steps(n) /\ Head(s) = Piece(n)[i] /\ Where(n, i, Head(s)[1], Head(s)[2])
<1>1. n \in Pieces /\ i \in 1 .. Steps(n) + 1 /\ Steps(n) \in 4 .. 16
  BY StandsIs, PieceIs
<1>2. /\ i <= Steps(n) => Head(s) = Piece(n)[i]
      /\ i > Steps(n) => s = <<>>
  BY NextOf
<1>3. i \in 1 .. Steps(n)
  BY <1>1, <1>2
<1>4. Where(n, i, Piece(n)[i][1], Piece(n)[i][2])
  BY <1>1, <1>3, WhereIs
<1>. QED BY <1>2, <1>3, <1>4

LEMMA StepsOn ==
  ASSUME NEW s, NEW t \in Thread, NEW n, NEW i, NEW b, Stands(s, t, n, i, b),
         i < Steps(n) \/ (i = 4 /\ n \in {"ret", "fork"})
  PROVE  Stands(Tail(s), t, n, i + 1, b)
<1>1. n \in Pieces /\ i \in 1 .. Steps(n) + 1 /\ Steps(n) \in 4 .. 16
  BY StandsIs, PieceIs
<1>2. n \in {"ret", "fork"} => Steps(n) = 4
  BY DEF Steps
<1>3. i <= Steps(n)
  BY <1>1, <1>2
<1>8. /\ i <= Steps(n) => /\ s # <<>> /\ Head(s) = Piece(n)[i]
                       /\ Tail(s) = SubSeq(Whole(n, b), i + 1, Len(Whole(n, b)))
      /\ i > Steps(n) => s = <<>>
  BY NextOf
<1>4. Tail(s) = SubSeq(Whole(n, b), i + 1, Len(Whole(n, b)))
  BY <1>3, <1>8
<1>5. Place(t, n, i, b)
  BY DEF Stands
<1>6. i + 1 \in 1 .. Steps(n) \/ (n \in {"ret", "fork"} /\ i + 1 = 5)
  BY <1>1
<1>7. Place(t, n, i + 1, b)
  BY <1>5, <1>6 DEF Place
<1>. QED BY <1>4, <1>7 DEF Stands

LEMMA NoneBelow ==
  ASSUME NEW n \in Pieces
  PROVE  Whole(n, <<>>) = Piece(n) /\ <<>> \in Bottoms
<1>1. Piece(n) \in Seq(Item)
  BY PieceIs
<1>. DEFINE g == Piece(n)
<1>2. g \o <<>> = g
  <2>. HIDE DEF g
  <2>1. g \in Seq(Item)
    BY <1>1 DEF g
  <2>. QED BY <2>1
<1>. QED BY <1>2 DEF Whole, Bottoms

LEMMA StartsAt ==
  ASSUME NEW t \in Thread, NEW n, NEW b, Place(t, n, 1, b)
  PROVE  Stands(Whole(n, b), t, n, 1, b)
<1>1. n \in Pieces /\ b \in Bottoms
  BY PlaceIs
<1>2. Whole(n, b) \in Seq(Item) /\ Len(Whole(n, b)) = Steps(n) + Len(b) /\ Len(b) \in 0 .. 5 /\ Steps(n) \in 4 .. 16
  BY <1>1, WholeIs, BottomIs, PieceIs
<1>. DEFINE g == Whole(n, b)
<1>3. g = SubSeq(g, 1, Len(g))
  <2>. HIDE DEF g
  <2>1. g \in Seq(Item)
    BY <1>2 DEF g
  <2>. QED BY <2>1
<1>. QED BY <1>3 DEF Stands

LEMMA SuffixIs ==
  ASSUME NEW g \in Seq(Item), NEW u \in Seq(Item), NEW i \in 1 .. Len(g) + 1, Len(u) = Len(g) + 1 - i,
         \A k \in 1 .. Len(u) : u[k] = g[i + k - 1]
  PROVE  SubSeq(g, i, Len(g)) = u
<1>. DEFINE s == SubSeq(g, i, Len(g))
<1>1. s \in Seq(Item) /\ Len(s) = Len(g) + 1 - i /\ \A k \in 1 .. Len(s) : s[k] = g[i + k - 1]
  OBVIOUS
<1>. HIDE DEF s
<1>. QED BY <1>1, SameSeq DEF s

LEMMA Last1 ==
  ASSUME NEW g \in Seq(Item), Len(g) = 4, NEW u \in Seq(Item), Len(u) = 1, u[1] = g[4]
  PROVE  SubSeq(g, 4, Len(g)) = u
<1>1. 4 \in 1 .. Len(g) + 1 /\ Len(u) = Len(g) + 1 - 4
  OBVIOUS
<1>2. ASSUME NEW k \in 1 .. Len(u) PROVE u[k] = g[4 + k - 1]
  <2>1. k = 1 /\ 4 + k - 1 = 4
    OBVIOUS
  <2>. QED BY <2>1
<1>. QED BY <1>1, <1>2, SuffixIs

LEMMA Last5 ==
  ASSUME NEW g \in Seq(Item), Len(g) = 8, NEW u \in Seq(Item), Len(u) = 5,
         u[1] = g[4], u[2] = g[5], u[3] = g[6], u[4] = g[7], u[5] = g[8]
  PROVE  SubSeq(g, 4, Len(g)) = u
<1>1. 4 \in 1 .. Len(g) + 1 /\ Len(u) = Len(g) + 1 - 4
  OBVIOUS
<1>2. ASSUME NEW k \in 1 .. Len(u) PROVE u[k] = g[4 + k - 1]
  <2>1. k = 1 \/ k = 2 \/ k = 3 \/ k = 4 \/ k = 5
    OBVIOUS
  <2>2. 4 + 1 - 1 = 4 /\ 4 + 2 - 1 = 5 /\ 4 + 3 - 1 = 6 /\ 4 + 4 - 1 = 7 /\ 4 + 5 - 1 = 8
    OBVIOUS
  <2>. QED BY <2>1, <2>2
<1>. QED BY <1>1, <1>2, SuffixIs

LEMMA Last4 ==
  ASSUME NEW g \in Seq(Item), NEW m \in {8, 16}, Len(g) = m, NEW u \in Seq(Item), Len(u) = 4,
         u[1] = g[m - 3], u[2] = g[m - 2], u[3] = g[m - 1], u[4] = g[m]
  PROVE  SubSeq(g, m - 3, Len(g)) = u
<1>. DEFINE s == SubSeq(g, m - 3, Len(g))
<1>1. s \in Seq(Item) /\ Len(s) = 4 /\ s[1] = g[m - 3] /\ s[2] = g[m - 2] /\ s[3] = g[m - 1] /\ s[4] = g[m]
  OBVIOUS
<1>. HIDE DEF s
<1>. QED BY <1>1, SameSeq DEF s

LEMMA TailOf5 ==
  ASSUME NEW u \in Seq(Item), Len(u) = 5
  PROVE  Tail(u) \in Seq(Item) /\ Len(Tail(u)) = 4 /\ Tail(u)[1] = u[2] /\ Tail(u)[2] = u[3] /\ Tail(u)[3] = u[4] /\ Tail(u)[4] = u[5]
<1>1. u # <<>>
  BY EmptyIs
<1>3. /\ Tail(u) \in Seq(Item) /\ Len(Tail(u)) = Len(u) - 1
      /\ \A k \in 1 .. Len(u) - 1 : Tail(u)[k] = u[k + 1]
  BY <1>1, TailIs
<1>2. 1 \in 1 .. Len(u) - 1 /\ 2 \in 1 .. Len(u) - 1 /\ 3 \in 1 .. Len(u) - 1 /\ 4 \in 1 .. Len(u) - 1
  OBVIOUS
<1>4. /\ Tail(u)[1] = u[1 + 1] /\ Tail(u)[2] = u[2 + 1]
      /\ Tail(u)[3] = u[3 + 1] /\ Tail(u)[4] = u[4 + 1]
  BY <1>3, <1>2
<1>5. 1 + 1 = 2 /\ 2 + 1 = 3 /\ 3 + 1 = 4 /\ 4 + 1 = 5
  OBVIOUS
<1>6. Len(Tail(u)) = 4
  BY <1>3
<1>. QED BY <1>3, <1>4, <1>5, <1>6

(* What a handler is put in front of: ...                                      *)
LEMMA Found ==
  ASSUME NEW s, NEW t \in Thread, NEW n, NEW i, NEW b, Stands(s, t, n, i, b), Open(n, i) \/ Loose(n, i)
  PROVE  s \in Below(t) /\ b = <<>>
<1>1. b = <<>> /\ n \in Pieces /\ b \in Bottoms
  BY StandsIs DEF Stands, Place, Open, Loose, Handlers
<1>2. Whole(n, b) = Piece(n) /\ Piece(n) \in Seq(Item) /\ Len(Piece(n)) = Steps(n)
  BY <1>1, NoneBelow, PieceIs
<1>3. s = SubSeq(Piece(n), i, Len(Piece(n)))
  BY <1>2 DEF Stands
<1>4. t \in CPU <=> n = "scan"
  BY NoneAssumption DEF Stands, Place, Open, Loose
<1>5. CASE n = "call"
  <2>1. i = 1 /\ Piece(n) = CallCode
    BY <1>5 DEF Open, Loose, Piece
  <2>. DEFINE g == CallCode
  <2>2. s = g
    <3>1. g \in Seq(Item) /\ s = SubSeq(g, 1, Len(g))
      BY <1>2, <1>3, <2>1
    <3>. HIDE DEF g
    <3>. QED BY <3>1
  <2>. QED BY <1>1, <1>4, <1>5, <2>2 DEF Below
<1>6. CASE n = "sleep"
  <2>1. i = 13 /\ Piece(n) = Sleep
    BY <1>6 DEF Open, Loose, Piece
  <2>2. s = CallCode
    <3>. DEFINE g == Sleep
                u == CallCode
    <3>1. /\ g \in Seq(Item) /\ Len(g) = 16
          /\ u \in Seq(Item) /\ Len(u) = 4
          /\ s = SubSeq(g, 13, Len(g))
      BY <1>3, <2>1, SleepIs, CallCodeIs
    <3>2. u[1] = g[13] /\ u[2] = g[14] /\ u[3] = g[15] /\ u[4] = g[16]
      BY SleepIs, CallCodeIs
    <3>. HIDE DEF g, u
    <3>3. 16 - 3 = 13 /\ 16 - 2 = 14 /\ 16 - 1 = 15
      OBVIOUS
    <3>4. SubSeq(g, 16 - 3, Len(g)) = u
      BY <3>1, <3>2, <3>3, Last4
    <3>. QED BY <3>1, <3>3, <3>4 DEF u
  <2>. QED BY <1>1, <1>4, <1>6, <2>2 DEF Below
<1>7. CASE i = 5 /\ n \in {"ret", "fork"}
  <2>1. Len(Piece(n)) = 4
    BY <1>2, <1>7 DEF Steps
  <2>2. s = <<>>
    BY <1>2, <1>3, <1>7, <2>1
  <2>. QED BY <1>1, <1>4, <1>7, <2>2 DEF Below
<1>8. CASE i = 4 /\ n \in {"ret", "fork"}
  <2>. DEFINE g == Piece(n)
              u == Do("ret")
  <2>1. /\ g \in Seq(Item) /\ Len(g) = 4
        /\ u \in Seq(Item) /\ Len(u) = 1
        /\ s = SubSeq(g, 4, Len(g))
    BY <1>2, <1>3, <1>8, DoIs DEF Steps, Op
  <2>2. g[4] = u[1]
    BY <1>8, RetCodeIs, ForkCodeIs, DoIs DEF Piece, Op
  <2>3. s = u
    <3>. HIDE DEF g, u
    <3>. QED BY <2>1, <2>2, Last1
  <2>. QED BY <1>1, <1>4, <1>8, <2>3 DEF Below
<1>9. CASE n = "scan" /\ i \in {4, 5}
  <2>. DEFINE g == ScanCode
              u == Scheduler
  <2>1. Piece(n) = g
    BY <1>9 DEF Piece
  <2>2. /\ g \in Seq(Item) /\ Len(g) = 8
        /\ u \in Seq(Item) /\ Len(u) = 5
        /\ s = SubSeq(g, i, Len(g))
    BY <1>3, <2>1, ScanCodeIs, SchedulerIs
  <2>3. g[4] = u[1] /\ g[5] = u[2] /\ g[6] = u[3] /\ g[7] = u[4] /\ g[8] = u[5]
    BY ScanCodeIs, SchedulerIs
  <2>4. u # <<>>
    BY SchedulerIs, EmptyIs
  <2>. HIDE DEF g, u
  <2>5. SubSeq(g, 4, Len(g)) = u
    BY <2>2, <2>3, Last5
  <2>6. SubSeq(g, 8 - 3, Len(g)) = Tail(u)
    <3>1. /\ Tail(u) \in Seq(Item) /\ Len(Tail(u)) = 4 /\ Tail(u)[1] = u[2] /\ Tail(u)[2] = u[3]
          /\ Tail(u)[3] = u[4] /\ Tail(u)[4] = u[5]
      BY <2>2, TailOf5
    <3>2. 8 - 3 = 5 /\ 8 - 2 = 6 /\ 8 - 1 = 7
      OBVIOUS
    <3>. QED BY <2>2, <2>3, <3>1, <3>2, Last4
  <2>7. 8 - 3 = 5
    OBVIOUS
  <2>8. s \in {u, Tail(u)}
    BY <1>9, <2>2, <2>5, <2>6, <2>7
  <2>. QED BY <1>1, <1>4, <1>9, <2>8 DEF Below, u
<1>. QED BY <1>5, <1>6, <1>7, <1>8, <1>9 DEF Open, Loose

(* ... and where the thread is when the handler returns to it.                 *)
LEMMA Returns ==
  ASSUME NEW t \in Thread, NEW b \in Below(t)
  PROVE  \E n, i : Stands(b, t, n, i, <<>>) /\ <<n, i>> \in
            {<<"ret", 5>>, <<"ret", 4>>, <<"call", 1>>, <<"scan", 4>>, <<"scan", 5>>}
<1>1. CASE b = <<>> /\ t \notin CPU
  <2>1. Place(t, "ret", 5, <<>>)
    BY <1>1 DEF Place, Handlers
  <2>2. "ret" \in Pieces /\ <<>> \in Bottoms /\ Steps("ret") = 4
    BY DEF Pieces, Bottoms, Steps
  <2>3. SubSeq(Whole("ret", <<>>), 5, Len(Whole("ret", <<>>))) = <<>>
    BY <2>2, NothingLeft
  <2>. QED BY <1>1, <2>1, <2>3 DEF Stands
<1>2. CASE b = CallCode /\ t \notin CPU
  <2>1. Place(t, "call", 1, <<>>)
    BY <1>2 DEF Place, Handlers, Steps
  <2>2. Whole("call", <<>>) = CallCode
    BY NoneBelow DEF Pieces, Piece
  <2>3. Stands(CallCode, t, "call", 1, <<>>)
    BY <2>1, <2>2, StartsAt
  <2>. QED BY <1>2, <2>3
<1>3. CASE b = Do("ret") /\ t \notin CPU
  <2>1. Place(t, "ret", 4, <<>>)
    BY <1>3 DEF Place, Handlers, Steps
  <2>2. Whole("ret", <<>>) = RetCode
    BY NoneBelow DEF Pieces, Piece
  <2>3. SubSeq(RetCode, 4, Len(RetCode)) = Do("ret")
    <3>. DEFINE g == RetCode
                u == Do("ret")
    <3>1. /\ g \in Seq(Item) /\ Len(g) = 4
          /\ u \in Seq(Item) /\ Len(u) = 1 /\ u[1] = g[4]
      BY RetCodeIs, DoIs DEF Op
    <3>. HIDE DEF g, u
    <3>2. SubSeq(g, 4, Len(g)) = u
      BY <3>1, Last1
    <3>. QED BY <3>2 DEF g, u
  <2>. QED BY <1>3, <2>1, <2>2, <2>3 DEF Stands
<1>4. CASE t \in CPU /\ b \in {Scheduler, Tail(Scheduler)}
  <2>1. Whole("scan", <<>>) = ScanCode
    BY NoneBelow DEF Pieces, Piece
  <2>. DEFINE g == ScanCode
              u == Scheduler
  <2>2. /\ g \in Seq(Item) /\ Len(g) = 8
        /\ u \in Seq(Item) /\ Len(u) = 5 /\ u # <<>>
    BY ScanCodeIs, SchedulerIs, EmptyIs
  <2>3. g[4] = u[1] /\ g[5] = u[2] /\ g[6] = u[3] /\ g[7] = u[4] /\ g[8] = u[5]
    BY ScanCodeIs, SchedulerIs
  <2>4. Place(t, "scan", 4, <<>>) /\ Place(t, "scan", 5, <<>>)
    BY <1>4 DEF Place, Handlers, Steps
  <2>5. SubSeq(g, 4, Len(g)) = u
    <3>. HIDE DEF g, u
    <3>. QED BY <2>2, <2>3, Last5
  <2>6. SubSeq(g, 5, Len(g)) = Tail(u)
    <3>. HIDE DEF g, u
    <3>1. /\ Tail(u) \in Seq(Item) /\ Len(Tail(u)) = 4 /\ Tail(u)[1] = u[2] /\ Tail(u)[2] = u[3]
          /\ Tail(u)[3] = u[4] /\ Tail(u)[4] = u[5]
      BY <2>2, TailOf5
    <3>2. 8 - 3 = 5 /\ 8 - 2 = 6 /\ 8 - 1 = 7
      OBVIOUS
    <3>3. SubSeq(g, 8 - 3, Len(g)) = Tail(u)
      BY <2>2, <2>3, <3>1, <3>2, Last4
    <3>. QED BY <3>2, <3>3
  <2>7. Stands(Scheduler, t, "scan", 4, <<>>) /\ Stands(Tail(Scheduler), t, "scan", 5, <<>>)
    BY <2>1, <2>4, <2>5, <2>6 DEF Stands
  <2>. QED BY <1>4, <2>7
<1>. QED BY <1>1, <1>2, <1>3, <1>4 DEF Below

LEMMA Ends ==
  ASSUME NEW s, NEW t \in Thread, NEW n \in Handlers, NEW i, NEW b, Stands(s, t, n, i, b), i = Steps(n)
  PROVE  Tail(s) = b /\ b \in Below(t)
<1>1. n \in Pieces /\ b \in Bottoms /\ Steps(n) \in 4 .. 16
  BY StandsIs, PieceIs
<1>4. /\ i <= Steps(n) => /\ s # <<>> /\ Head(s) = Piece(n)[i]
                       /\ Tail(s) = SubSeq(Whole(n, b), i + 1, Len(Whole(n, b)))
      /\ i > Steps(n) => s = <<>>
  BY NextOf
<1>5. i <= Steps(n)
  BY <1>1
<1>2. Tail(s) = SubSeq(Whole(n, b), i + 1, Len(Whole(n, b)))
  BY <1>5, <1>4
<1>3. Tail(s) = b
  BY <1>1, <1>2, NothingLeft
<1>. QED BY <1>3 DEF Stands, Place

LEMMA Interrupted ==
  ASSUME NEW s, NEW t \in Thread, NEW n, NEW i, NEW b, Stands(s, t, n, i, b), Open(n, i) \/ Loose(n, i)
  PROVE  /\ Stands(Handler \o Do("iret") \o s, t, "device", 1, s)
         /\ t \notin CPU => Stands(Yield \o Do("iret") \o s, t, "timer", 1, s)
<1>1. s \in Below(t)
  BY Found
<1>2. /\ Whole("device", s) = Handler \o Do("iret") \o s
      /\ Whole("timer", s) = Yield \o Do("iret") \o s
  BY DEF Whole, Piece, DeviceCode, TimerCode
<1>3. Place(t, "device", 1, s) /\ (t \notin CPU => Place(t, "timer", 1, s))
  BY <1>1 DEF Place, Handlers, Steps
<1>. QED BY <1>2, <1>3, StartsAt

-----------------------------------------------------------------------------
(* What a thread of control has still to do                                    *)

Mark(x, l) == x \in {<<"clear", l>>, <<IF l = "ptable" THEN "pick" ELSE "test", "none">>}
Marked(n, k, l) ==
    IF l = "device" THEN <<n, k>> \in {<<"call", 4>>, <<"ret", 2>>, <<"sleep", 5>>, <<"sleep", 16>>, <<"device", 13>>}
    ELSE <<n, k>> \in {<<"sleep", 11>>, <<"fork", 2>>, <<"scan", 2>>, <<"scan", 8>>, <<"device", 10>>, <<"timer", 8>>}
Spins(n, k, l) ==
    IF l = "device" THEN <<n, k>> \in {<<"call", 2>>, <<"sleep", 14>>, <<"device", 2>>}
    ELSE <<n, k>> \in {<<"sleep", 2>>, <<"scan", 6>>, <<"device", 6>>, <<"timer", 2>>}

LEMMA MarksAt ==
  ASSUME NEW n \in Pieces, NEW k \in 1 .. Steps(n), NEW l \in Locks
  PROVE  /\ Mark(Piece(n)[k], l) <=> Marked(n, k, l)
         /\ Piece(n)[k] = <<"xchg", l>> <=> Spins(n, k, l)
<1>1. Where(n, k, Piece(n)[k][1], Piece(n)[k][2])
  BY WhereIs
<1>2. ASSUME Mark(Piece(n)[k], l) PROVE Marked(n, k, l)
  <2>1. CASE l = "device"
    <3>1. \/ Piece(n)[k][1] = "clear" /\ Piece(n)[k][2] = "device"
          \/ Piece(n)[k][1] = "test" /\ Piece(n)[k][2] = "none"
      BY <1>2, <2>1 DEF Mark
    <3>. QED BY <1>1, <2>1, <3>1 DEF Where, Marked
  <2>2. CASE l = "ptable"
    <3>1. \/ Piece(n)[k][1] = "clear" /\ Piece(n)[k][2] = "ptable"
          \/ Piece(n)[k][1] = "pick" /\ Piece(n)[k][2] = "none"
      BY <1>2, <2>2 DEF Mark
    <3>. QED BY <1>1, <2>2, <3>1 DEF Where, Marked
  <2>. QED BY <2>1, <2>2 DEF Locks
<1>3. ASSUME Piece(n)[k] = <<"xchg", l>> PROVE Spins(n, k, l)
  <2>1. Piece(n)[k][1] = "xchg" /\ Piece(n)[k][2] = l
    BY <1>3
  <2>. QED BY <1>1, <2>1 DEF Where, Spins, Locks
<1>4. ASSUME Marked(n, k, l) PROVE Mark(Piece(n)[k], l)
  <2>1. CASE l = "device"
    <3>1. Piece(n)[k] \in {<<"clear", "device">>, <<"test", "none">>}
      BY <1>4, <2>1, CallCodeIs, RetCodeIs, SleepIs, DeviceCodeIs DEF Marked, Piece
    <3>. QED BY <2>1, <3>1 DEF Mark
  <2>2. CASE l = "ptable"
    <3>1. Piece(n)[k] \in {<<"clear", "ptable">>, <<"pick", "none">>}
      BY <1>4, <2>2, ForkCodeIs, ScanCodeIs, SleepIs, DeviceCodeIs, TimerCodeIs DEF Marked, Piece
    <3>. QED BY <2>2, <3>1 DEF Mark
  <2>. QED BY <2>1, <2>2 DEF Locks
<1>5. ASSUME Spins(n, k, l) PROVE Piece(n)[k] = <<"xchg", l>>
  BY <1>5, CallCodeIs, SleepIs, ScanCodeIs, DeviceCodeIs, TimerCodeIs DEF Spins, Piece, Locks
<1>. QED BY <1>2, <1>3, <1>4, <1>5

(* What an interrupt finds guards no lock, ...                                 *)
LEMMA BottomOps ==
  ASSUME NEW b \in Bottoms, NEW m \in 1 .. Len(b)
  PROVE  /\ b[m][1] \notin {"iret", "wakeup1", "event", "sleep"}
         /\ b[m][1] = "test" => b = CallCode
         /\ \A l \in Locks : Mark(b[m], l) => \E j \in 1 .. m : b[j] = <<"xchg", l>>
<1>1. CASE b = <<>>
  BY <1>1, EmptyIs
<1>2. CASE b = CallCode
  <2>1. m \in 1 .. 4 /\ (m = 1 \/ m = 2 \/ m = 3 \/ m = 4)
    BY <1>2, CallCodeIs
  <2>2. /\ b[1] = <<"pushcli", "device">> /\ b[2] = <<"xchg", "device">> /\ b[3] = <<"own", "device">>
        /\ b[4] = <<"test", "none">>
    BY <1>2, CallCodeIs
  <2>3. b[m][1] \in {"pushcli", "xchg", "own", "test"} /\ (m = 4 => b[m][1] = "test")
    BY <2>1, <2>2
  <2>4. ASSUME NEW l \in Locks, Mark(b[m], l) PROVE \E j \in 1 .. m : b[j] = <<"xchg", l>>
    <3>1. b[m][1] \in {"clear", "test", "pick"} /\ (b[m][1] = "test" => l # "ptable")
      BY <2>4 DEF Mark
    <3>2. m = 4 /\ l = "device"
      BY <2>1, <2>2, <3>1 DEF Locks
    <3>. QED BY <2>2, <3>2
  <2>. QED BY <1>2, <2>3, <2>4
<1>3. CASE b = Do("ret")
  <2>2. Len(b) = 1 /\ b[1] = <<"ret", "none">>
    BY <1>3, DoIs DEF Op
  <2>1. m = 1 /\ b[1] = <<"ret", "none">>
    BY <2>2
  <2>. QED BY <2>1 DEF Mark
<1>4. CASE b = Scheduler
  <2>1. m = 1 \/ m = 2 \/ m = 3 \/ m = 4 \/ m = 5
    BY <1>4, SchedulerIs
  <2>2. /\ b[1] = <<"sti", "none">> /\ b[2] = <<"pushcli", "ptable">> /\ b[3] = <<"xchg", "ptable">>
        /\ b[4] = <<"own", "ptable">> /\ b[5] = <<"pick", "none">>
    BY <1>4, SchedulerIs
  <2>3. b[m][1] \in {"sti", "pushcli", "xchg", "own", "pick"}
    BY <2>1, <2>2
  <2>4. ASSUME NEW l \in Locks, Mark(b[m], l) PROVE \E j \in 1 .. m : b[j] = <<"xchg", l>>
    <3>1. b[m][1] \in {"clear", "test", "pick"} /\ (b[m][1] = "pick" => l = "ptable")
      BY <2>4 DEF Mark
    <3>2. m = 5 /\ l = "ptable"
      BY <2>1, <2>2, <3>1
    <3>. QED BY <2>2, <3>2
  <2>. QED BY <2>3, <2>4
<1>5. CASE b = Tail(Scheduler)
  <2>1. /\ b \in Seq(Item) /\ Len(b) = 4 /\ b[1] = Scheduler[2] /\ b[2] = Scheduler[3]
        /\ b[3] = Scheduler[4] /\ b[4] = Scheduler[5]
    BY <1>5, SchedulerIs, TailOf5
  <2>2. /\ b[1] = <<"pushcli", "ptable">> /\ b[2] = <<"xchg", "ptable">>
        /\ b[3] = <<"own", "ptable">> /\ b[4] = <<"pick", "none">>
    BY <2>1, SchedulerIs
  <2>3. m = 1 \/ m = 2 \/ m = 3 \/ m = 4
    BY <2>1
  <2>4. b[m][1] \in {"sti", "pushcli", "xchg", "own", "pick"}
    BY <2>2, <2>3
  <2>5. ASSUME NEW l \in Locks, Mark(b[m], l) PROVE \E j \in 1 .. m : b[j] = <<"xchg", l>>
    <3>1. b[m][1] \in {"clear", "test", "pick"} /\ (b[m][1] = "pick" => l = "ptable")
      BY <2>5 DEF Mark
    <3>2. m = 4 /\ l = "ptable"
      BY <2>2, <2>3, <3>1
    <3>. QED BY <2>2, <3>2
  <2>. QED BY <2>4, <2>5
<1>. QED BY <1>1, <1>2, <1>3, <1>4, <1>5 DEF Bottoms

LEMMA Places ==
  ASSUME NEW L, NEW S \in Nat, NEW B \in Nat, NEW i \in 1 .. S + 1, L = S + B + 1 - i
  PROVE  /\ \A k \in i .. S : k + 1 - i \in 1 .. L /\ i + (k + 1 - i) - 1 = k /\ k \in 1 .. S
         /\ \A m \in 1 .. B : S + m + 1 - i \in 1 .. L /\ i + (S + m + 1 - i) - 1 = S + m
         /\ \A k \in 1 .. L : k + i - 1 > S =>
              k + i - 1 - S \in 1 .. B /\ S + (k + i - 1 - S) + 1 - i = k
OBVIOUS

LEMMA Counts ==
  ASSUME NEW S \in Nat, NEW i \in Nat, NEW k \in Nat, 1 <= k
  PROVE  /\ k + i - 1 <= S \/ k + i - 1 > S
         /\ k + i - 1 <= S => /\ k + i - 1 \in i .. S /\ (k + i - 1) + 1 - i = k
                              /\ \A j \in i .. k + i - 1 : j + 1 - i \in 1 .. k /\ j \in i .. S
         /\ \A j \in Int : j <= k + i - 1 - S => S + j + 1 - i <= k
OBVIOUS

LEMMA CountsBack ==
  ASSUME NEW S \in Nat, NEW i \in Nat, NEW k \in i .. S, NEW j \in 1 .. k + 1 - i
  PROVE  j + i - 1 \in i .. k /\ j + i - 1 \in i .. S /\ (j + i - 1) + 1 - i = j
OBVIOUS

(* ... and a step of s is one of the piece or of what is below it.             *)
LEMMA StepIs ==
  ASSUME NEW s, NEW t \in Thread, NEW n, NEW i, NEW b, Stands(s, t, n, i, b)
  PROVE  /\ s \in Seq(Item) /\ Len(s) = Steps(n) + Len(b) + 1 - i
         /\ i \in 1 .. Steps(n) + 1 /\ Steps(n) \in 4 .. 16 /\ Len(b) \in 0 .. 5 /\ n \in Pieces /\ b \in Bottoms
         /\ \A k \in i .. Steps(n) : s[k + 1 - i] = Piece(n)[k]
         /\ \A m \in 1 .. Len(b) : s[Steps(n) + m + 1 - i] = b[m]
<1>1. /\ n \in Pieces /\ b \in Bottoms /\ i \in 1 .. Steps(n) + 1
      /\ i \in 1 .. Len(Whole(n, b)) + 1
      /\ s = SubSeq(Whole(n, b), i, Len(Whole(n, b)))
  BY StandsIs
<1>2. /\ Whole(n, b) \in Seq(Item) /\ Len(Whole(n, b)) = Steps(n) + Len(b)
      /\ \A k \in 1 .. Steps(n) : Whole(n, b)[k] = Piece(n)[k]
      /\ \A k \in 1 .. Len(b) : Whole(n, b)[Steps(n) + k] = b[k]
      /\ Steps(n) \in 4 .. 16 /\ Len(b) \in 0 .. 5
  BY <1>1, WholeIs, PieceIs, BottomIs
<1>7. Whole(n, b) \in Seq(Item)
  BY <1>2
<1>3. /\ s \in Seq(Item) /\ Len(s) = Len(Whole(n, b)) + 1 - i
      /\ \A k \in 1 .. Len(s) : s[k] = Whole(n, b)[i + k - 1]
      /\ i = Len(Whole(n, b)) + 1 => s = <<>>
      /\ i = 1 => s = Whole(n, b)
      /\ i <= Len(Whole(n, b)) => /\ s # <<>> /\ Head(s) = Whole(n, b)[i]
                                  /\ Tail(s) = SubSeq(Whole(n, b), i + 1, Len(Whole(n, b)))
  BY <1>1, <1>7, Suffix
<1>6. Len(s) = Steps(n) + Len(b) + 1 - i
  BY <1>2, <1>3
<1>0. /\ Len(s) = Steps(n) + Len(b) + 1 - i
      /\ i \in 1 .. Steps(n) + 1 /\ Steps(n) \in 4 .. 16 /\ Len(b) \in 0 .. 5
  BY <1>1, <1>2, <1>6
<1>20. /\ \A k \in i .. Steps(n) : k + 1 - i \in 1 .. Len(s) /\ i + (k + 1 - i) - 1 = k /\ k \in 1 .. Steps(n)
       /\ \A m \in 1 .. Len(b) : /\ Steps(n) + m + 1 - i \in 1 .. Len(s)
                                 /\ i + (Steps(n) + m + 1 - i) - 1 = Steps(n) + m
       /\ \A k \in 1 .. Len(s) : k + i - 1 > Steps(n) =>
            /\ k + i - 1 - Steps(n) \in 1 .. Len(b)
            /\ Steps(n) + (k + i - 1 - Steps(n)) + 1 - i = k
  <2>1. PICK L, S, B : L = Len(s) /\ S = Steps(n) /\ B = Len(b)
    OBVIOUS
  <2>2. S \in Nat /\ B \in Nat /\ i \in 1 .. S + 1 /\ L = S + B + 1 - i
    BY <1>0, <2>1
  <2>3. /\ \A k \in i .. S : k + 1 - i \in 1 .. L /\ i + (k + 1 - i) - 1 = k /\ k \in 1 .. S
        /\ \A m \in 1 .. B : S + m + 1 - i \in 1 .. L /\ i + (S + m + 1 - i) - 1 = S + m
        /\ \A k \in 1 .. L : k + i - 1 > S =>
             k + i - 1 - S \in 1 .. B /\ S + (k + i - 1 - S) + 1 - i = k
    BY <2>2, Places
  <2>. QED BY <2>1, <2>3
<1>4. ASSUME NEW k \in i .. Steps(n) PROVE s[k + 1 - i] = Piece(n)[k]
  <2>1. k + 1 - i \in 1 .. Len(s) /\ i + (k + 1 - i) - 1 = k /\ k \in 1 .. Steps(n)
    BY <1>20
  <2>. QED BY <1>2, <1>3, <2>1
<1>5. ASSUME NEW m \in 1 .. Len(b) PROVE s[Steps(n) + m + 1 - i] = b[m]
  <2>1. Steps(n) + m + 1 - i \in 1 .. Len(s) /\ i + (Steps(n) + m + 1 - i) - 1 = Steps(n) + m
    BY <1>20
  <2>. QED BY <1>2, <1>3, <2>1
<1>. QED BY <1>1, <1>2, <1>3, <1>4, <1>5, <1>6

LEMMA OwnsIs ==
  ASSUME NEW n \in Pieces, NEW i \in 1 .. Steps(n) + 1, i <= Steps(n) \/ n \in {"ret", "fork"}, NEW l \in Locks
  PROVE  Owns(n, i, l) <=> \E k \in i .. Steps(n) : Marked(n, k, l) /\ \A j \in i .. k : ~Spins(n, j, l)
<1>1. CASE n = "call"
  BY <1>1 DEF Steps, Owns, HasDevice, HasPtable, Marked, Spins, Locks
<1>2. CASE n = "ret"
  BY <1>2 DEF Steps, Owns, HasDevice, HasPtable, Marked, Spins, Locks
<1>3. CASE n = "sleep"
  <2>1. i \in 1 .. 16 /\ Steps(n) = 16
    BY <1>3 DEF Steps
  <2>2. CASE l = "device"
    <3>1. Owns(n, i, l) <=> i <= 5 \/ i >= 15
      BY <1>3, <2>1, <2>2 DEF Owns, HasDevice
    <3>2. \A k : Marked(n, k, l) <=> k \in {5, 16}
      BY <1>3, <2>2 DEF Marked
    <3>3. \A k : Spins(n, k, l) <=> k = 14
      BY <1>3, <2>2 DEF Spins
    <3>. QED BY <2>1, <3>1, <3>2, <3>3
  <2>3. CASE l = "ptable"
    <3>1. Owns(n, i, l) <=> i \in 3 .. 11
      BY <1>3, <2>1, <2>3 DEF Owns, HasPtable
    <3>2. \A k : Marked(n, k, l) <=> k = 11
      BY <1>3, <2>3 DEF Marked
    <3>3. \A k : Spins(n, k, l) <=> k = 2
      BY <1>3, <2>3 DEF Spins
    <3>. QED BY <2>1, <3>1, <3>2, <3>3
  <2>. QED BY <2>2, <2>3 DEF Locks
<1>4. CASE n = "fork"
  BY <1>4 DEF Steps, Owns, HasDevice, HasPtable, Marked, Spins, Locks
<1>5. CASE n = "scan"
  <2>1. i \in 1 .. 8 /\ Steps(n) = 8
    BY <1>5 DEF Steps
  <2>2. CASE l = "device"
    BY <1>5, <2>2 DEF Owns, HasDevice, Marked, Spins
  <2>3. CASE l = "ptable"
    <3>1. Owns(n, i, l) <=> i <= 2 \/ i >= 7
      BY <1>5, <2>1, <2>3 DEF Owns, HasPtable
    <3>2. \A k : Marked(n, k, l) <=> k \in {2, 8}
      BY <1>5, <2>3 DEF Marked
    <3>3. \A k : Spins(n, k, l) <=> k = 6
      BY <1>5, <2>3 DEF Spins
    <3>. QED BY <2>1, <3>1, <3>2, <3>3
  <2>. QED BY <2>2, <2>3 DEF Locks
<1>6. CASE n = "device"
  BY <1>6 DEF Steps, Owns, HasDevice, HasPtable, Marked, Spins, Locks
<1>7. CASE n = "timer"
  BY <1>7 DEF Steps, Owns, HasDevice, HasPtable, Marked, Spins, Locks
<1>. QED BY <1>1, <1>2, <1>3, <1>4, <1>5, <1>6, <1>7 DEF Pieces

(* Guards at a place.                                                          *)
LEMMA GuardsIs ==
  ASSUME NEW s, NEW t \in Thread, NEW n, NEW i, NEW b, Stands(s, t, n, i, b), NEW l \in Locks
  PROVE  Guards(s, l) <=> Owns(n, i, l)
<1>1. /\ s \in Seq(Item) /\ Len(s) = Steps(n) + Len(b) + 1 - i
      /\ i \in 1 .. Steps(n) + 1 /\ Steps(n) \in 4 .. 16 /\ Len(b) \in 0 .. 5 /\ n \in Pieces /\ b \in Bottoms
      /\ \A k \in i .. Steps(n) : s[k + 1 - i] = Piece(n)[k]
      /\ \A m \in 1 .. Len(b) : s[Steps(n) + m + 1 - i] = b[m]
  BY StepIs
<1>0. /\ Len(s) = Steps(n) + Len(b) + 1 - i
      /\ i \in 1 .. Steps(n) + 1 /\ Steps(n) \in 4 .. 16 /\ Len(b) \in 0 .. 5
  BY <1>1
<1>20. /\ \A k \in i .. Steps(n) : k + 1 - i \in 1 .. Len(s) /\ i + (k + 1 - i) - 1 = k /\ k \in 1 .. Steps(n)
       /\ \A m \in 1 .. Len(b) : /\ Steps(n) + m + 1 - i \in 1 .. Len(s)
                                 /\ i + (Steps(n) + m + 1 - i) - 1 = Steps(n) + m
       /\ \A k \in 1 .. Len(s) : k + i - 1 > Steps(n) =>
            /\ k + i - 1 - Steps(n) \in 1 .. Len(b)
            /\ Steps(n) + (k + i - 1 - Steps(n)) + 1 - i = k
  <2>1. PICK L, S, B : L = Len(s) /\ S = Steps(n) /\ B = Len(b)
    OBVIOUS
  <2>2. S \in Nat /\ B \in Nat /\ i \in 1 .. S + 1 /\ L = S + B + 1 - i
    BY <1>0, <2>1
  <2>3. /\ \A k \in i .. S : k + 1 - i \in 1 .. L /\ i + (k + 1 - i) - 1 = k /\ k \in 1 .. S
        /\ \A m \in 1 .. B : S + m + 1 - i \in 1 .. L /\ i + (S + m + 1 - i) - 1 = S + m
        /\ \A k \in 1 .. L : k + i - 1 > S =>
             k + i - 1 - S \in 1 .. B /\ S + (k + i - 1 - S) + 1 - i = k
    BY <2>2, Places
  <2>. QED BY <2>1, <2>3
<1>2. i <= Steps(n) \/ n \in {"ret", "fork"}
  BY <1>1 DEF Stands, Place
<1>3. Owns(n, i, l) <=> \E k \in i .. Steps(n) : Marked(n, k, l) /\ \A j \in i .. k : ~Spins(n, j, l)
  BY <1>1, <1>2, OwnsIs
<1>4. Guards(s, l) <=> \E k \in 1 .. Len(s) : Mark(s[k], l) /\ \A j \in 1 .. k : s[j] # <<"xchg", l>>
  BY DEF Guards, Mark
<1>5. \A k \in i .. Steps(n) : /\ Mark(s[k + 1 - i], l) <=> Marked(n, k, l)
                               /\ s[k + 1 - i] = <<"xchg", l>> <=> Spins(n, k, l)
  <2>1. \A k \in i .. Steps(n) : k \in 1 .. Steps(n)
    BY <1>1
  <2>. QED BY <1>1, <2>1, MarksAt
<1>6. ASSUME Owns(n, i, l) PROVE Guards(s, l)
  <2>1. PICK k \in i .. Steps(n) : Marked(n, k, l) /\ \A j \in i .. k : ~Spins(n, j, l)
    BY <1>3, <1>6
  <2>4. k + 1 - i \in 1 .. Len(s)
    BY <1>20, <2>1
  <2>2. k + 1 - i \in 1 .. Len(s) /\ Mark(s[k + 1 - i], l)
    BY <1>5, <2>1, <2>4
  <2>3. ASSUME NEW j \in 1 .. k + 1 - i PROVE s[j] # <<"xchg", l>>
    <3>1. j + i - 1 \in i .. k /\ j + i - 1 \in i .. Steps(n) /\ (j + i - 1) + 1 - i = j
      <4>1. k \in i .. Steps(n) /\ i \in Nat /\ Steps(n) \in Nat
        BY <1>0, <2>1
      <4>. QED BY <2>3, <4>1, CountsBack
    <3>. QED BY <1>5, <2>1, <3>1
  <2>. QED BY <1>4, <2>2, <2>3
<1>7. ASSUME Guards(s, l) PROVE Owns(n, i, l)
  <2>1. PICK k \in 1 .. Len(s) : Mark(s[k], l) /\ \A j \in 1 .. k : s[j] # <<"xchg", l>>
    BY <1>4, <1>7
  <2>4. k \in 1 .. Len(s)
    BY <2>1
  <2>5. Steps(n) \in Nat /\ i \in Nat /\ k \in Nat /\ 1 <= k
    BY <1>0, <2>4
  <2>6. /\ k + i - 1 <= Steps(n) \/ k + i - 1 > Steps(n)
        /\ k + i - 1 <= Steps(n) =>
             /\ k + i - 1 \in i .. Steps(n) /\ (k + i - 1) + 1 - i = k
             /\ \A j \in i .. k + i - 1 : j + 1 - i \in 1 .. k /\ j \in i .. Steps(n)
        /\ \A j \in Int : j <= k + i - 1 - Steps(n) => Steps(n) + j + 1 - i <= k
    BY <2>5, Counts
  <2>2. CASE k + i - 1 <= Steps(n)
    <3>1. k + i - 1 \in i .. Steps(n) /\ (k + i - 1) + 1 - i = k
      BY <2>6, <2>2
    <3>2. Marked(n, k + i - 1, l)
      BY <1>5, <2>1, <3>1
    <3>3. ASSUME NEW j \in i .. k + i - 1 PROVE ~Spins(n, j, l)
      <4>1. j + 1 - i \in 1 .. k /\ j \in i .. Steps(n)
        BY <2>6, <2>2
      <4>. QED BY <1>5, <2>1, <4>1
    <3>. QED BY <1>3, <3>1, <3>2, <3>3
  <2>3. CASE k + i - 1 > Steps(n)
    <3>. DEFINE m == k + i - 1 - Steps(n)
    <3>1. m \in 1 .. Len(b) /\ Steps(n) + m + 1 - i = k
      BY <1>20, <2>4, <2>3
    <3>2. s[k] = b[m]
      BY <1>1, <3>1
    <3>3. Mark(b[m], l) => \E j \in 1 .. m : b[j] = <<"xchg", l>>
      BY <1>1, <3>1, BottomOps
    <3>4. PICK j \in 1 .. m : b[j] = <<"xchg", l>>
      BY <2>1, <3>2, <3>3
    <3>7. m \in 1 .. Len(b) /\ m = k + i - 1 - Steps(n)
      BY <3>1
    <3>8. j \in 1 .. Len(b) /\ j <= m /\ j \in Int
      <4>. HIDE DEF m
      <4>. QED BY <1>0, <3>7
    <3>5. j \in 1 .. Len(b) /\ Steps(n) + j + 1 - i \in 1 .. k
      <4>1. Steps(n) + j + 1 - i \in 1 .. Len(s)
        BY <1>20, <3>8
      <4>2. Steps(n) + j + 1 - i <= k
        <5>. HIDE DEF m
        <5>1. j \in Int /\ j <= k + i - 1 - Steps(n)
          BY <3>7, <3>8
        <5>. QED BY <2>6, <5>1
      <4>. QED BY <1>0, <2>4, <3>8, <4>1, <4>2
    <3>6. s[Steps(n) + j + 1 - i] = <<"xchg", l>>
      BY <1>1, <3>4, <3>5
    <3>. QED BY <2>1, <3>5, <3>6
  <2>. QED BY <2>6, <2>2, <2>3
<1>. QED BY <1>6, <1>7

In(s, op) == op \in {s[i][1] : i \in 1 .. Len(s)}

LEMMA InIs ==
  ASSUME NEW s, NEW t \in Thread, NEW n, NEW i, NEW b, Stands(s, t, n, i, b), NEW op
  PROVE  In(s, op) <=> \/ \E k \in i .. Steps(n) : Piece(n)[k][1] = op
                       \/ \E m \in 1 .. Len(b) : b[m][1] = op
<1>1. /\ s \in Seq(Item) /\ Len(s) = Steps(n) + Len(b) + 1 - i
      /\ i \in 1 .. Steps(n) + 1 /\ Steps(n) \in 4 .. 16 /\ Len(b) \in 0 .. 5 /\ n \in Pieces /\ b \in Bottoms
      /\ \A k \in i .. Steps(n) : s[k + 1 - i] = Piece(n)[k]
      /\ \A m \in 1 .. Len(b) : s[Steps(n) + m + 1 - i] = b[m]
  BY StepIs
<1>0. /\ Len(s) = Steps(n) + Len(b) + 1 - i
      /\ i \in 1 .. Steps(n) + 1 /\ Steps(n) \in 4 .. 16 /\ Len(b) \in 0 .. 5
  BY <1>1
<1>20. /\ \A k \in i .. Steps(n) : k + 1 - i \in 1 .. Len(s) /\ i + (k + 1 - i) - 1 = k /\ k \in 1 .. Steps(n)
       /\ \A m \in 1 .. Len(b) : /\ Steps(n) + m + 1 - i \in 1 .. Len(s)
                                 /\ i + (Steps(n) + m + 1 - i) - 1 = Steps(n) + m
       /\ \A k \in 1 .. Len(s) : k + i - 1 > Steps(n) =>
            /\ k + i - 1 - Steps(n) \in 1 .. Len(b)
            /\ Steps(n) + (k + i - 1 - Steps(n)) + 1 - i = k
  <2>1. PICK L, S, B : L = Len(s) /\ S = Steps(n) /\ B = Len(b)
    OBVIOUS
  <2>2. S \in Nat /\ B \in Nat /\ i \in 1 .. S + 1 /\ L = S + B + 1 - i
    BY <1>0, <2>1
  <2>3. /\ \A k \in i .. S : k + 1 - i \in 1 .. L /\ i + (k + 1 - i) - 1 = k /\ k \in 1 .. S
        /\ \A m \in 1 .. B : S + m + 1 - i \in 1 .. L /\ i + (S + m + 1 - i) - 1 = S + m
        /\ \A k \in 1 .. L : k + i - 1 > S =>
             k + i - 1 - S \in 1 .. B /\ S + (k + i - 1 - S) + 1 - i = k
    BY <2>2, Places
  <2>. QED BY <2>1, <2>3
<1>2. In(s, op) <=> \E k \in 1 .. Len(s) : s[k][1] = op
  BY DEF In
<1>3. ASSUME NEW k \in 1 .. Len(s), s[k][1] = op
      PROVE  \/ \E j \in i .. Steps(n) : Piece(n)[j][1] = op
             \/ \E m \in 1 .. Len(b) : b[m][1] = op
  <2>5. Steps(n) \in Nat /\ i \in Nat /\ k \in Nat /\ 1 <= k
    BY <1>0
  <2>6. /\ k + i - 1 <= Steps(n) \/ k + i - 1 > Steps(n)
        /\ k + i - 1 <= Steps(n) => k + i - 1 \in i .. Steps(n) /\ (k + i - 1) + 1 - i = k
    BY <2>5, Counts
  <2>1. CASE k + i - 1 <= Steps(n)
    <3>1. k + i - 1 \in i .. Steps(n) /\ (k + i - 1) + 1 - i = k
      BY <2>6, <2>1
    <3>2. Piece(n)[k + i - 1] = s[k]
      BY <1>1, <3>1
    <3>. QED BY <1>3, <3>1, <3>2
  <2>2. CASE k + i - 1 > Steps(n)
    <3>1. k + i - 1 - Steps(n) \in 1 .. Len(b) /\ Steps(n) + (k + i - 1 - Steps(n)) + 1 - i = k
      BY <1>20, <2>2
    <3>2. b[k + i - 1 - Steps(n)] = s[k]
      BY <1>1, <3>1
    <3>. QED BY <1>3, <3>1, <3>2
  <2>. QED BY <2>6, <2>1, <2>2
<1>4. ASSUME NEW k \in i .. Steps(n), Piece(n)[k][1] = op PROVE \E j \in 1 .. Len(s) : s[j][1] = op
  <2>2. k + 1 - i \in 1 .. Len(s)
    BY <1>20
  <2>1. k + 1 - i \in 1 .. Len(s) /\ s[k + 1 - i][1] = op
    BY <1>1, <1>4, <2>2
  <2>. QED BY <2>1
<1>5. ASSUME NEW m \in 1 .. Len(b), b[m][1] = op PROVE \E j \in 1 .. Len(s) : s[j][1] = op
  <2>2. Steps(n) + m + 1 - i \in 1 .. Len(s)
    BY <1>20
  <2>1. Steps(n) + m + 1 - i \in 1 .. Len(s) /\ s[Steps(n) + m + 1 - i][1] = op
    BY <1>1, <1>5, <2>2
  <2>. QED BY <2>1
<1>. QED BY <1>2, <1>3, <1>4, <1>5

LEMMA HasIs ==
  ASSUME NEW s, NEW t \in Thread, NEW n, NEW i, NEW b, Stands(s, t, n, i, b)
  PROVE  /\ In(s, "iret") <=> n \in Handlers
         /\ In(s, "wakeup1") <=> n = "device" /\ i <= 8
         /\ In(s, "event") <=> n = "device" /\ i <= 4
         /\ In(s, "sleep") <=> n = "sleep" /\ i <= 7
         /\ In(s, "test") <=> n \in {"call", "sleep"} \/ b = CallCode
<1>0. /\ i \in 1 .. Steps(n) + 1 /\ n \in Pieces /\ b \in Bottoms
      /\ i <= Steps(n) \/ n \in {"ret", "fork"}
  <2>1. n \in Pieces /\ b \in Bottoms /\ i \in 1 .. Steps(n) + 1
    BY StandsIs
  <2>2. Steps(n) \in 4 .. 16
    BY <2>1, PieceIs
  <2>. QED BY <2>1, <2>2 DEF Stands, Place
<1>1. /\ i \in 1 .. Steps(n) + 1 /\ Steps(n) \in 4 .. 16 /\ n \in Pieces /\ b \in Bottoms
      /\ i <= Steps(n) \/ n \in {"ret", "fork"}
  BY <1>0, PieceIs
<1>2. ASSUME NEW op
      PROVE  In(s, op) <=> \/ \E k \in i .. Steps(n) : Piece(n)[k][1] = op
                           \/ \E m \in 1 .. Len(b) : b[m][1] = op
  BY InIs
<1>3. \A m \in 1 .. Len(b) : /\ b[m][1] \notin {"iret", "wakeup1", "event", "sleep"}
                             /\ b[m][1] = "test" => b = CallCode
  BY <1>1, BottomOps
<1>4. b = CallCode => 4 \in 1 .. Len(b) /\ b[4][1] = "test"
  <2>1. Len(CallCode) = 4 /\ CallCode[4] = <<"test", "none">>
    BY CallCodeIs
  <2>2. 4 \in 1 .. Len(CallCode) /\ CallCode[4][1] = "test"
    BY <2>1
  <2>. QED BY <2>2
<1>5. \A k \in 1 .. Steps(n) : Where(n, k, Piece(n)[k][1], Piece(n)[k][2])
  BY <1>1, WhereIs
<1>6. /\ n = "device" => Piece(n)[15][1] = "iret" /\ Piece(n)[8][1] = "wakeup1" /\ Piece(n)[4][1] = "event"
      /\ n = "timer" => Piece(n)[10][1] = "iret"
      /\ n = "sleep" => Piece(n)[7][1] = "sleep" /\ Piece(n)[16][1] = "test"
      /\ n = "call" => Piece(n)[4][1] = "test"
  BY CallCodeIs, SleepIs, DeviceCodeIs, TimerCodeIs DEF Piece
<1>7. /\ n = "device" => Steps(n) = 15
      /\ n = "timer" => Steps(n) = 10
      /\ n = "sleep" => Steps(n) = 16
      /\ n = "call" => Steps(n) = 4
  BY DEF Steps
<1>8. \A k \in i .. Steps(n) :
        /\ Piece(n)[k][1] = "iret" => n \in Handlers
        /\ Piece(n)[k][1] = "wakeup1" => n = "device" /\ k = 8
        /\ Piece(n)[k][1] = "event" => n = "device" /\ k = 4
        /\ Piece(n)[k][1] = "sleep" => n = "sleep" /\ k = 7
        /\ Piece(n)[k][1] = "test" => n \in {"call", "sleep"}
  <2>1. \A k \in i .. Steps(n) : k \in 1 .. Steps(n)
    BY <1>1
  <2>. QED BY <1>5, <2>1 DEF Where, Handlers
<1>9. In(s, "iret") <=> n \in Handlers
  <2>1. n \in Handlers => Steps(n) \in i .. Steps(n) /\ Piece(n)[Steps(n)][1] = "iret"
    BY <1>1, <1>6, <1>7 DEF Handlers
  <2>. QED BY <1>2, <1>3, <1>8, <2>1
<1>10. In(s, "wakeup1") <=> n = "device" /\ i <= 8
  <2>1. n = "device" /\ i <= 8 => 8 \in i .. Steps(n)
    BY <1>1, <1>7
  <2>2. \A k \in i .. Steps(n) : k = 8 => i <= 8
    BY <1>1
  <2>. QED BY <1>2, <1>3, <1>6, <1>8, <2>1, <2>2
<1>11. In(s, "event") <=> n = "device" /\ i <= 4
  <2>1. n = "device" /\ i <= 4 => 4 \in i .. Steps(n)
    BY <1>1, <1>7
  <2>2. \A k \in i .. Steps(n) : k = 4 => i <= 4
    BY <1>1
  <2>. QED BY <1>2, <1>3, <1>6, <1>8, <2>1, <2>2
<1>12. In(s, "sleep") <=> n = "sleep" /\ i <= 7
  <2>1. n = "sleep" /\ i <= 7 => 7 \in i .. Steps(n)
    BY <1>1, <1>7
  <2>2. \A k \in i .. Steps(n) : k = 7 => i <= 7
    BY <1>1
  <2>. QED BY <1>2, <1>3, <1>6, <1>8, <2>1, <2>2
<1>13. In(s, "test") <=> n \in {"call", "sleep"} \/ b = CallCode
  <2>1. n \in {"call", "sleep"} => Steps(n) \in i .. Steps(n) /\ Piece(n)[Steps(n)][1] = "test"
    BY <1>1, <1>6, <1>7
  <2>. QED BY <1>2, <1>3, <1>4, <1>8, <2>1
<1>. QED BY <1>9, <1>10, <1>11, <1>12, <1>13

Nameless(n, i, l) ==
    IF l = "device"
    THEN <<n, i>> \in {<<"call", 3>>, <<"sleep", 15>>, <<"device", 3>>, <<"ret", 2>>, <<"sleep", 5>>, <<"device", 13>>}
    ELSE <<n, i>> \in {<<"sleep", 3>>, <<"scan", 7>>, <<"device", 7>>, <<"timer", 3>>, <<"sleep", 11>>,
                       <<"fork", 2>>, <<"scan", 2>>, <<"device", 10>>, <<"timer", 8>>}

LEMMA NamelessIs ==
  ASSUME NEW s, NEW t \in Thread, NEW n, NEW i, NEW b, Stands(s, t, n, i, b), NEW l \in Locks
  PROVE  s # <<>> /\ Head(s) \in {<<"own", l>>, <<"clear", l>>} <=> Nameless(n, i, l)
<1>1. n \in Pieces /\ i \in 1 .. Steps(n) + 1
  BY StandsIs
<1>2. ASSUME s # <<>>, Head(s) \in {<<"own", l>>, <<"clear", l>>} PROVE Nameless(n, i, l)
  <2>1. Where(n, i, Head(s)[1], Head(s)[2])
    BY <1>2, OpIs
  <2>2. Head(s)[1] \in {"own", "clear"} /\ Head(s)[2] = l
    BY <1>2
  <2>3. Where(n, i, "own", l) \/ Where(n, i, "clear", l)
    BY <2>1, <2>2
  <2>. QED BY <2>3 DEF Where, Nameless, Locks
<1>3. ASSUME Nameless(n, i, l) PROVE s # <<>> /\ Head(s) \in {<<"own", l>>, <<"clear", l>>}
  <2>1. i <= Steps(n)
    BY <1>3 DEF Nameless, Steps
  <2>2. s # <<>> /\ Head(s) = Piece(n)[i]
    <3>1. /\ i <= Steps(n) => /\ s # <<>> /\ Head(s) = Piece(n)[i]
                              /\ Tail(s) = SubSeq(Whole(n, b), i + 1, Len(Whole(n, b)))
          /\ i > Steps(n) => s = <<>>
      BY NextOf
    <3>. QED BY <2>1, <3>1
  <2>3. CASE l = "device"
    <3>1. Piece(n)[i] \in {<<"own", "device">>, <<"clear", "device">>}
      BY <1>3, <2>3, CallCodeIs, RetCodeIs, SleepIs, DeviceCodeIs DEF Nameless, Piece
    <3>. QED BY <2>2, <2>3, <3>1
  <2>4. CASE l = "ptable"
    <3>1. Piece(n)[i] \in {<<"own", "ptable">>, <<"clear", "ptable">>}
      BY <1>3, <2>4, ForkCodeIs, ScanCodeIs, SleepIs, DeviceCodeIs, TimerCodeIs DEF Nameless, Piece
    <3>. QED BY <2>2, <2>4, <3>1
  <2>. QED BY <2>3, <2>4 DEF Locks
<1>. QED BY <1>2, <1>3

-----------------------------------------------------------------------------
(* What the places say of the state                                            *)

LEMMA RunningIs ==
  ASSUME SpinTypeOK, NEW c \in CPU
  PROVE  /\ Running(c) \in Thread /\ on[c] \in Process \cup {None}
         /\ on[c] = None => Running(c) = c
         /\ on[c] # None => Running(c) = on[c] /\ on[c] \in Process /\ Running(c) \notin CPU
<1>1. on[c] \in Process \cup {None}
  BY DEF SpinTypeOK
<1>. QED BY <1>1, NoneAssumption DEF Running, Thread

LEMMA Others ==
  ASSUME SpinTypeOK, PlaceInv, NEW c \in CPU, NEW d \in CPU, c # d
  PROVE  Running(c) # Running(d)
<1>1. /\ on[c] = None => Running(c) = c
      /\ on[c] # None => Running(c) = on[c] /\ Running(c) \notin CPU
      /\ on[d] = None => Running(d) = d
      /\ on[d] # None => Running(d) = on[d] /\ Running(d) \notin CPU
  BY RunningIs
<1>2. on[c] = on[d] /\ on[c] # None => c = d
  BY DEF PlaceInv
<1>. QED BY <1>1, <1>2

View(c, n, i, b) ==
    \A l \in Locks : /\ Inside(c, l) <=> Owns(n, i, l)
                     /\ Unnamed(c, l) <=> Nameless(n, i, l)

LEMMA ViewIs ==
  \A c \in CPU : \A n, i, b :
     Running(c) \in Thread /\ Stands(code[Running(c)], Running(c), n, i, b) => View(c, n, i, b)
<1>. SUFFICES ASSUME NEW c \in CPU, NEW n, NEW i, NEW b, NEW l \in Locks,
                     Running(c) \in Thread, Stands(code[Running(c)], Running(c), n, i, b)
              PROVE  /\ Inside(c, l) <=> Owns(n, i, l)
                     /\ Unnamed(c, l) <=> Nameless(n, i, l)
  BY DEF View
<1>1. Guards(code[Running(c)], l) <=> Owns(n, i, l)
  BY GuardsIs
<1>2. Inside(c, l) <=> Guards(code[Running(c)], l)
  BY DEF Inside, Guards
<1>3. code[Running(c)] # <<>> /\ Head(code[Running(c)]) \in {<<"own", l>>, <<"clear", l>>} <=> Nameless(n, i, l)
  BY NamelessIs
<1>. QED BY <1>1, <1>2, <1>3 DEF Unnamed

LEMMA ViewNext ==
  (\A c \in CPU : \A n, i, b :
     Running(c) \in Thread /\ Stands(code[Running(c)], Running(c), n, i, b) => View(c, n, i, b))'
BY ViewIs, PTL

(* The step a CPU is about to take.                                            *)
LEMMA DoesIs ==
  ASSUME SpinTypeOK, NEW c \in CPU, NEW n, NEW i, NEW b, Here(c, n, i, b), NEW op, Does(c, op)
  PROVE  /\ Where(n, i, op, Lock(c)) /\ i \in 1 .. Steps(n) /\ n \in Pieces
         /\ on[c] = None <=> Running(c) \in CPU
<1>1. Running(c) \in Thread /\ Stands(code[Running(c)], Running(c), n, i, b)
  BY RunningIs DEF Here
<1>2. code[Running(c)] # <<>> /\ Head(code[Running(c)])[1] = op /\ Head(code[Running(c)])[2] = Lock(c)
  BY DEF Does, Lock
<1>3. /\ i \in 1 .. Steps(n) /\ Head(code[Running(c)]) = Piece(n)[i]
      /\ Where(n, i, Head(code[Running(c)])[1], Head(code[Running(c)])[2])
  BY <1>1, <1>2, OpIs
<1>4. n \in Pieces
  BY <1>1, StandsIs
<1>5. on[c] = None <=> Running(c) \in CPU
  BY RunningIs
<1>. QED BY <1>2, <1>3, <1>4, <1>5

-----------------------------------------------------------------------------
(* One thread of control moves to another place                                *)

LEMMA PlaceStep ==
  ASSUME SpinTypeOK, PlaceInv, NEW c \in CPU, on' = on,
         NEW s, s \in Seq(Item), code' = [code EXCEPT ![Running(c)] = s],
         \A d \in CPU \ {c} : fl'[d] = fl[d] /\ ncli'[d] = ncli[d] /\ intena'[d] = intena[d],
         \A p \in Process : p # on[c] => ((state'[p] = "RUNNING") <=> (state[p] = "RUNNING")),
         saved' = saved,
         NEW n, NEW i, NEW b, Stands(s, Running(c), n, i, b), Flags(c, n, i)',
         on[c] # None => Mood(on[c], n, i)'
  PROVE  PlaceInv'
<1>1. Running(c) \in Thread /\ code \in [Thread -> Seq(Item)]
  BY RunningIs DEF PlaceInv
<1>2. /\ code' \in [Thread -> Seq(Item)] /\ code'[Running(c)] = s
      /\ \A t \in Thread : t # Running(c) => code'[t] = code[t]
  BY <1>1
<1>3. \A d \in CPU : Running(d)' = Running(d)
  BY DEF Running
<1>4. \A d \in CPU : \E m, j, f : Here(d, m, j, f)'
  <2>1. SUFFICES ASSUME NEW d \in CPU PROVE \E m, j, f : Here(d, m, j, f)'
    OBVIOUS
  <2>2. CASE d = c
    <3>1. Here(c, n, i, b)'
      BY <1>2, <1>3 DEF Here
    <3>. QED BY <2>2, <3>1
  <2>3. CASE d # c
    <3>1. PICK m, j, f : Here(d, m, j, f)
      BY DEF PlaceInv
    <3>2. Running(d) # Running(c) /\ Running(d) \in Thread /\ code'[Running(d)] = code[Running(d)]
      BY <1>2, <2>3, Others, RunningIs
    <3>3. Stands(code[Running(d)], Running(d), m, j, f)'
      BY <1>3, <3>1, <3>2 DEF Here
    <3>4. Flags(d, m, j)'
      BY <2>3, <3>1 DEF Here, Flags
    <3>5. ASSUME on[d] # None PROVE Mood(on[d], m, j)'
      <4>1. Mood(on[d], m, j)
        BY <3>1, <3>5 DEF Here
      <4>2. on[d] \in Process /\ on[d] # on[c]
        BY <2>3, <3>5, RunningIs DEF PlaceInv
      <4>3. (state'[on[d]] = "RUNNING") <=> (state[on[d]] = "RUNNING")
        BY <4>2
      <4>. QED BY <4>1, <4>3 DEF Mood
    <3>6. Here(d, m, j, f)'
      BY <3>3, <3>4, <3>5 DEF Here
    <3>. QED BY <3>6
  <2>. QED BY <2>2, <2>3
<1>5. \A p \in Process : (\A d \in CPU : on'[d] # p) => \E m, j, f : There(p, m, j, f)'
  <2>1. SUFFICES ASSUME NEW p \in Process, \A d \in CPU : on[d] # p
                 PROVE  \E m, j, f : There(p, m, j, f)'
    OBVIOUS
  <2>2. PICK m, j, f : There(p, m, j, f)
    BY <2>1 DEF PlaceInv
  <2>3. p # Running(c) /\ p \in Thread
    BY <2>1, NoneAssumption DEF Running, Thread
  <2>4. code'[p] = code[p] /\ ((state'[p] = "RUNNING") <=> (state[p] = "RUNNING"))
    BY <1>2, <2>1, <2>3
  <2>5. There(p, m, j, f)'
    BY <2>2, <2>4 DEF There
  <2>. QED BY <2>5
<1>6. \A d \in CPU : on'[d] # None => code'[d] = Do("pick")
  <2>1. SUFFICES ASSUME NEW d \in CPU, on[d] # None PROVE code'[d] = code[d]
    BY DEF PlaceInv
  <2>2. d # Running(c)
    BY <2>1, RunningIs
  <2>. QED BY <1>2, <2>2 DEF Thread
<1>7. \A d, f \in CPU : on'[d] = on'[f] /\ on'[d] # None => d = f
  BY DEF PlaceInv
<1>. QED BY <1>2, <1>4, <1>5, <1>6, <1>7 DEF PlaceInv

(* ... with the locks as they are, ...                                         *)
LEMMA LockStays ==
  ASSUME NEW l \in Locks, Lone(l), locked'[l] = locked[l], holder'[l] = holder[l],
         \A d \in CPU : /\ Inside(d, l)' <=> Inside(d, l)
                        /\ Inside(d, l) => (Unnamed(d, l)' <=> Unnamed(d, l))
  PROVE  Lone(l)'
<1>1. CASE locked[l] = 0 /\ holder[l] = None /\ \A c \in CPU : ~Inside(c, l)
  BY <1>1 DEF Lone
<1>2. ASSUME NEW c \in CPU, locked[l] = 1, Inside(c, l), \A d \in CPU \ {c} : ~Inside(d, l),
             holder[l] = IF Unnamed(c, l) THEN None ELSE c
      PROVE  Lone(l)'
  BY <1>2 DEF Lone
<1>. QED BY <1>1, <1>2 DEF Lone

LEMMA OthersStay ==
  ASSUME SpinTypeOK, PlaceInv, NEW c \in CPU, on' = on, NEW s, code' = [code EXCEPT ![Running(c)] = s],
         NEW d \in CPU, d # c, NEW l \in Locks
  PROVE  (Inside(d, l)' <=> Inside(d, l)) /\ (Unnamed(d, l)' <=> Unnamed(d, l))
<1>1. Running(d) \in Thread /\ Running(d) # Running(c) /\ code \in [Thread -> Seq(Item)]
  BY RunningIs, Others DEF PlaceInv
<1>2. Running(d)' = Running(d) /\ code'[Running(d)] = code[Running(d)]
  BY <1>1 DEF Running
<1>. QED BY <1>2 DEF Inside, Unnamed

LEMMA LockStep ==
  ASSUME SpinTypeOK, PlaceInv, NEW c \in CPU, on' = on, NEW s, code' = [code EXCEPT ![Running(c)] = s],
         NEW n, NEW i, NEW b, Here(c, n, i, b),
         NEW m, NEW j, NEW f, Stands(s, Running(c), m, j, f),
         NEW l \in Locks, Lone(l), locked'[l] = locked[l], holder'[l] = holder[l],
         Owns(n, i, l) <=> Owns(m, j, l), Owns(n, i, l) => (Nameless(n, i, l) <=> Nameless(m, j, l))
  PROVE  Lone(l)'
<1>1. Running(c) \in Thread /\ Running(c)' = Running(c) /\ code'[Running(c)] = s
  BY RunningIs DEF Running, PlaceInv
<1>2. View(c, n, i, b)
  BY <1>1, ViewIs DEF Here
<1>3. View(c, m, j, f)'
  BY <1>1, ViewNext
<1>4. /\ Inside(c, l)' <=> Inside(c, l)
      /\ Inside(c, l) => (Unnamed(c, l)' <=> Unnamed(c, l))
  BY <1>2, <1>3 DEF View
<1>5. \A d \in CPU : d # c => (Inside(d, l)' <=> Inside(d, l)) /\ (Unnamed(d, l)' <=> Unnamed(d, l))
  BY OthersStay
<1>. QED BY <1>4, <1>5, LockStays

LEMMA HasOf == \A t, op : Has(t, op) <=> In(code[t], op)
BY DEF Has, In

LEMMA HasNext == (\A t, op : Has(t, op) <=> In(code[t], op))'
BY HasOf, PTL

LEMMA ReadyStep ==
  ASSUME SpinTypeOK, PlaceInv, ReadyInv, NEW c \in CPU, NEW s, code' = [code EXCEPT ![Running(c)] = s],
         \A p \in Process : (state'[p] = "SLEEPING") <=> (state[p] = "SLEEPING"),
         ready' => /\ ready
                   /\ In(s, "sleep") => /\ In(code[Running(c)], "sleep")
                                        /\ Guards(s, "device") => Guards(code[Running(c)], "device")
                   /\ In(code[Running(c)], "wakeup1") /\ ~In(code[Running(c)], "event") =>
                        In(s, "wakeup1") /\ ~In(s, "event")
                   /\ In(code[Running(c)], "test") => In(s, "test")
  PROVE  ReadyInv'
<1>. SUFFICES ASSUME ready' PROVE ReadyInv'
  BY DEF ReadyInv, NoLostWakeup
<1>. DEFINE t == Running(c)
<1>1. t \in Thread /\ code \in [Thread -> Seq(Item)]
  BY RunningIs DEF PlaceInv
<1>2. code'[t] = s /\ \A u \in Thread : u # t => code'[u] = code[u]
  BY <1>1
<1>3. /\ In(s, "sleep") => In(code[t], "sleep") /\ (Guards(s, "device") => Guards(code[t], "device"))
      /\ In(code[t], "wakeup1") /\ ~In(code[t], "event") => In(s, "wakeup1") /\ ~In(s, "event")
      /\ In(code[t], "test") => In(s, "test")
      /\ ready
  OBVIOUS
<1>. HIDE DEF t
<1>4. /\ \A u, op : Has(u, op) <=> In(code[u], op)
      /\ \A u, op : Has(u, op)' <=> In(code'[u], op)
  BY HasOf, HasNext
<1>5. Pending => Pending'
  <2>1. SUFFICES ASSUME NEW u \in Thread, In(code[u], "wakeup1"), ~In(code[u], "event")
                 PROVE  In(code'[u], "wakeup1") /\ ~In(code'[u], "event")
    BY <1>4 DEF Pending
  <2>. QED BY <1>2, <1>3, <2>1
<1>6. ASSUME NEW p \in Process, Has(p, "sleep")' PROVE Pending' /\ ~Guards(code'[p], "device")
  <2>1. p \in Thread /\ In(code'[p], "sleep")
    BY <1>4, <1>6 DEF Thread
  <2>2. In(code[p], "sleep") /\ (Guards(code'[p], "device") => Guards(code[p], "device"))
    BY <1>2, <1>3, <2>1
  <2>3. Pending /\ ~Guards(code[p], "device")
    BY <1>3, <1>4, <2>2 DEF ReadyInv
  <2>. QED BY <1>5, <2>2, <2>3
<1>7. NoLostWakeup'
  <2>1. SUFFICES ASSUME \E p \in Process : state'[p] = "SLEEPING"
                 PROVE  \/ Pending'
                        \/ \E q \in Process : state'[q] # "SLEEPING" /\ Has(q, "test")'
    BY DEF NoLostWakeup, Pending
  <2>2. Pending \/ \E q \in Process : state[q] # "SLEEPING" /\ Has(q, "test")
    BY <1>3, <2>1 DEF ReadyInv, NoLostWakeup, Pending
  <2>3. ASSUME NEW q \in Process, state[q] # "SLEEPING", Has(q, "test")
        PROVE  state'[q] # "SLEEPING" /\ Has(q, "test")'
    <3>1. q \in Thread /\ In(code[q], "test")
      BY <1>4, <2>3 DEF Thread
    <3>2. In(code'[q], "test")
      BY <1>2, <1>3, <3>1
    <3>. QED BY <1>4, <2>3, <3>2
  <2>. QED BY <1>5, <2>2, <2>3
<1>8. \A p \in Process : ready' /\ Has(p, "sleep")' => Pending' /\ ~Guards(code'[p], "device")
  BY <1>6
<1>. QED BY <1>7, <1>8 DEF ReadyInv

(* ... and the same of two places.                                             *)
Follows(n, i, b, m, j, f) ==
    /\ m = "sleep" /\ j <= 7 => n = "sleep" /\ i <= 7 /\ (HasDevice(m, j) => HasDevice(n, i))
    /\ n = "device" /\ i \in 5 .. 8 => m = "device" /\ j \in 5 .. 8
    /\ n \in {"call", "sleep"} \/ b = CallCode => m \in {"call", "sleep"} \/ f = CallCode

LEMMA ReadyMove ==
  ASSUME SpinTypeOK, PlaceInv, ReadyInv, NEW c \in CPU, NEW s, code' = [code EXCEPT ![Running(c)] = s],
         \A p \in Process : (state'[p] = "SLEEPING") <=> (state[p] = "SLEEPING"),
         NEW n, NEW i, NEW b, Here(c, n, i, b),
         NEW m, NEW j, NEW f, Stands(s, Running(c), m, j, f),
         ready' => ready /\ Follows(n, i, b, m, j, f)
  PROVE  ReadyInv'
<1>1. Running(c) \in Thread /\ Stands(code[Running(c)], Running(c), n, i, b)
  BY RunningIs DEF Here
<1>2. /\ In(code[Running(c)], "wakeup1") <=> n = "device" /\ i <= 8
      /\ In(code[Running(c)], "event") <=> n = "device" /\ i <= 4
      /\ In(code[Running(c)], "sleep") <=> n = "sleep" /\ i <= 7
      /\ In(code[Running(c)], "test") <=> n \in {"call", "sleep"} \/ b = CallCode
  BY <1>1, HasIs
<1>3. /\ In(s, "wakeup1") <=> m = "device" /\ j <= 8
      /\ In(s, "event") <=> m = "device" /\ j <= 4
      /\ In(s, "sleep") <=> m = "sleep" /\ j <= 7
      /\ In(s, "test") <=> m \in {"call", "sleep"} \/ f = CallCode
  <2>1. Running(c) \in Thread /\ Stands(s, Running(c), m, j, f)
    BY <1>1
  <2>. HIDE <1>1
  <2>. QED BY <2>1, HasIs
<1>4. /\ Guards(code[Running(c)], "device") <=> HasDevice(n, i)
      /\ Guards(s, "device") <=> HasDevice(m, j)
  BY <1>1, GuardsIs, LocksAre DEF Owns
<1>5. i \in Nat /\ j \in Nat
  <2>1. i \in 1 .. 16 /\ j \in 1 .. 16
    BY <1>1, StandsIs
  <2>. QED BY <2>1
<1>6. ready' => /\ In(s, "sleep") => /\ In(code[Running(c)], "sleep")
                                     /\ Guards(s, "device") => Guards(code[Running(c)], "device")
                /\ In(code[Running(c)], "wakeup1") /\ ~In(code[Running(c)], "event") =>
                     In(s, "wakeup1") /\ ~In(s, "event")
                /\ In(code[Running(c)], "test") => In(s, "test")
  BY <1>2, <1>3, <1>4, <1>5 DEF Follows
<1>. QED BY <1>6, ReadyStep

-----------------------------------------------------------------------------
(* The steps                                                                   *)

(* The next step of a thread, in the same piece: ...                           *)
LEMMA Advances ==
  ASSUME SpinTypeOK, NEW c \in CPU, NEW n, NEW i, NEW b, Here(c, n, i, b),
         i < Steps(n) \/ (i = 4 /\ n \in {"ret", "fork"})
  PROVE  Stands(Rest(c), Running(c), n, i + 1, b) /\ Rest(c) \in Seq(Item)
<1>1. Running(c) \in Thread /\ Stands(code[Running(c)], Running(c), n, i, b)
  BY RunningIs DEF Here
<1>2. Stands(Rest(c), Running(c), n, i + 1, b)
  BY <1>1, StepsOn DEF Rest
<1>3. Rest(c) \in Seq(Item)
  BY <1>1, <1>2, StandsIs
<1>. QED BY <1>2, <1>3

LEMMA PushcliStep ==
  ASSUME SpinInv, NEW c \in CPU, Pushcli(c)
  PROVE  SpinInv'
<1>1. SpinTypeOK /\ NoPanic /\ PlaceInv /\ LockInv /\ ReadyInv
  BY DEF SpinInv
<1>2. PICK n, i, b : Here(c, n, i, b)
  BY <1>1 DEF PlaceInv
<1>3. Does(c, "pushcli")
  BY DEF Pushcli
<1>4. Where(n, i, "pushcli", Lock(c)) /\ i \in 1 .. Steps(n) /\ n \in Pieces
  BY <1>1, <1>2, <1>3, DoesIs
<1>5. /\ Lock(c) = "device" /\ <<n, i>> \in {<<"call", 1>>, <<"sleep", 13>>, <<"device", 1>>}
      \/ /\ Lock(c) = "ptable"
         /\ <<n, i>> \in {<<"sleep", 1>>, <<"scan", 5>>, <<"device", 5>>, <<"timer", 1>>}
  BY <1>4 DEF Where
<1>6. Lock(c) \in Locks /\ ~Owns(n, i, Lock(c))
  BY <1>5 DEF Locks, Owns, HasDevice, HasPtable
<1>7. Running(c) \in Thread /\ Stands(code[Running(c)], Running(c), n, i, b) /\ Flags(c, n, i)
  BY <1>1, <1>2, RunningIs DEF Here
<1>8. ~Holding(c, Lock(c))
  <2>1. ~Inside(c, Lock(c))
    BY <1>6, <1>7, ViewIs DEF View
  <2>2. Lone(Lock(c))
    BY <1>1, <1>6 DEF LockInv
  <2>. QED BY <2>1, <2>2, NoneAssumption DEF Lone, Holding
<1>9. /\ fl' = [fl EXCEPT ![c] = FALSE] /\ ncli' = [ncli EXCEPT ![c] = @ + 1] /\ intena' = Intena(c)
      /\ code' = [code EXCEPT ![Running(c)] = Rest(c)]
      /\ locked' = locked /\ holder' = holder /\ on' = on /\ state' = state /\ saved' = saved
      /\ ready' = ready /\ panicked' = panicked
  BY <1>8 DEF Pushcli, Goto, locks, procs
<1>10. i < Steps(n)
  BY <1>5 DEF Steps
<1>11. Stands(Rest(c), Running(c), n, i + 1, b) /\ Rest(c) \in Seq(Item)
  BY <1>1, <1>2, <1>10, Advances
<1>12. ncli[c] = Depth(n, i) /\ ncli \in [CPU -> 0 .. 2] /\ fl \in [CPU -> BOOLEAN] /\ intena \in [CPU -> BOOLEAN]
  BY <1>1, <1>7 DEF Flags, SpinTypeOK
<1>13. Flags(c, n, i + 1)' /\ ncli'[c] \in 0 .. 2
  <2>1. Depth(n, i) \in 0 .. 1 /\ Depth(n, i + 1) = Depth(n, i) + 1
    BY <1>5 DEF Depth
  <2>2. ~Loose(n, i) /\ ~Open(n, i + 1)
    BY <1>5 DEF Open, Loose
  <2>3. /\ n = "call" \/ n = "sleep" => (Depth(n, i) = 0 => Open(n, i)) /\ ~(n = "sleep" /\ i = 9)
        /\ n = "device" \/ n = "timer" => (Depth(n, i) = 0 => ~Open(n, i)) /\ ~(n = "timer" /\ i = 6)
    BY <1>5 DEF Depth, Open
  <2>4. ncli'[c] = ncli[c] + 1 /\ fl'[c] = FALSE /\ intena'[c] = IF ncli[c] = 0 THEN fl[c] ELSE intena[c]
    BY <1>9, <1>12 DEF Intena
  <2>5. fl[c] = Open(n, i)
    BY <1>7, <2>2 DEF Flags
  <2>6. /\ n = "call" \/ n = "sleep" => intena'[c]
        /\ n = "device" \/ n = "timer" => ~intena'[c]
    BY <1>7, <1>12, <2>1, <2>3, <2>4, <2>5 DEF Flags
  <2>7. ncli'[c] = Depth(n, i + 1) /\ ncli'[c] \in 0 .. 2
    BY <1>12, <2>1, <2>4
  <2>8. fl'[c] = Open(n, i + 1)
    BY <2>2, <2>4 DEF Open
  <2>. HIDE <2>2, <2>4
  <2>9. Flags(c, n, i + 1)'
    BY <2>6, <2>7, <2>8 DEF Flags
  <2>. QED BY <2>7, <2>9
<1>14. on[c] # None => Mood(on[c], n, i + 1)'
  BY <1>2, <1>5, <1>9 DEF Here, Mood, Switching
<1>15. SpinTypeOK'
  BY <1>1, <1>9, <1>12, <1>13 DEF SpinTypeOK, Intena
<1>16. PlaceInv'
  <2>1. \A d \in CPU \ {c} : fl'[d] = fl[d] /\ ncli'[d] = ncli[d] /\ intena'[d] = intena[d]
    BY <1>9, <1>12 DEF Intena
  <2>. QED BY <1>1, <1>9, <1>11, <1>13, <1>14, <2>1, PlaceStep
<1>17. LockInv'
  <2>1. ASSUME NEW l \in Locks PROVE Lone(l)'
    <3>1. /\ Owns(n, i, l) <=> Owns(n, i + 1, l)
          /\ Owns(n, i, l) => (Nameless(n, i, l) <=> Nameless(n, i + 1, l))
      BY <1>5 DEF Owns, HasDevice, HasPtable, Nameless
    <3>2. Lone(l) /\ locked'[l] = locked[l] /\ holder'[l] = holder[l]
      BY <1>1, <1>9 DEF LockInv
    <3>. QED BY <1>1, <1>2, <1>9, <1>11, <3>1, <3>2, LockStep
  <2>. QED BY <2>1 DEF LockInv
<1>18. ReadyInv'
  <2>1. Follows(n, i, b, n, i + 1, b)
    BY <1>5 DEF Follows, HasDevice
  <2>. QED BY <1>1, <1>2, <1>9, <1>11, <2>1, ReadyMove
<1>. QED BY <1>1, <1>9, <1>15, <1>16, <1>17, <1>18 DEF SpinInv, NoPanic

(* A thread at a place that has a lock is the one that has it.                 *)
LEMMA HoldsIs ==
  ASSUME SpinTypeOK, PlaceInv, NEW c \in CPU, NEW n, NEW i, NEW b, Here(c, n, i, b), NEW l \in Locks, Lone(l)
  PROVE  /\ Inside(c, l) <=> Owns(n, i, l)
         /\ Owns(n, i, l) => /\ locked[l] = 1 /\ \A d \in CPU \ {c} : ~Inside(d, l)
                             /\ holder[l] = IF Nameless(n, i, l) THEN None ELSE c
<1>1. Running(c) \in Thread /\ Stands(code[Running(c)], Running(c), n, i, b)
  BY RunningIs DEF Here
<1>2. (Inside(c, l) <=> Owns(n, i, l)) /\ (Unnamed(c, l) <=> Nameless(n, i, l))
  BY <1>1, ViewIs DEF View
<1>3. ASSUME Inside(c, l)
      PROVE  /\ locked[l] = 1 /\ \A d \in CPU \ {c} : ~Inside(d, l)
             /\ holder[l] = IF Unnamed(c, l) THEN None ELSE c
  <2>1. PICK a \in CPU : /\ locked[l] = 1 /\ Inside(a, l) /\ \A d \in CPU \ {a} : ~Inside(d, l)
                         /\ holder[l] = IF Unnamed(a, l) THEN None ELSE a
    BY <1>3 DEF Lone
  <2>2. a = c
    BY <1>3, <2>1
  <2>. QED BY <2>1, <2>2
<1>. QED BY <1>2, <1>3

(* A step of acquire or release moves a lock.                                  *)
LEMMA LockMoves ==
  ASSUME SpinTypeOK, PlaceInv, NEW c \in CPU, on' = on, NEW s, code' = [code EXCEPT ![Running(c)] = s],
         NEW n, NEW i, NEW b, Here(c, n, i, b),
         NEW m, NEW j, NEW f, Stands(s, Running(c), m, j, f),
         NEW l \in Locks, Lone(l),
         \/ /\ locked[l] = 0 /\ locked'[l] = 1 /\ holder'[l] = holder[l]
            /\ Owns(m, j, l) /\ Nameless(m, j, l)
         \/ /\ Owns(n, i, l) /\ locked'[l] = locked[l] /\ Owns(m, j, l)
            /\ holder'[l] = IF Nameless(m, j, l) THEN None ELSE c
         \/ Owns(n, i, l) /\ ~Owns(m, j, l) /\ locked'[l] = 0 /\ holder'[l] = None
  PROVE  Lone(l)'
<1>1. Running(c) \in Thread /\ Running(c)' = Running(c) /\ code'[Running(c)] = s
  BY RunningIs DEF Running, PlaceInv
<1>2. View(c, m, j, f)'
  BY <1>1, ViewNext
<1>3. (Inside(c, l)' <=> Owns(m, j, l)) /\ (Unnamed(c, l)' <=> Nameless(m, j, l))
  BY <1>2 DEF View
<1>4. \A d \in CPU : d # c => (Inside(d, l)' <=> Inside(d, l)) /\ (Unnamed(d, l)' <=> Unnamed(d, l))
  BY OthersStay
<1>5. Owns(n, i, l) => locked[l] = 1 /\ \A d \in CPU \ {c} : ~Inside(d, l)
  BY HoldsIs
<1>6. locked[l] = 0 => holder[l] = None /\ \A d \in CPU : ~Inside(d, l)
  BY DEF Lone
<1>7. CASE /\ locked[l] = 0 /\ locked'[l] = 1 /\ holder'[l] = holder[l]
           /\ Owns(m, j, l) /\ Nameless(m, j, l)
  <2>1. /\ locked'[l] = 1 /\ Inside(c, l)' /\ \A d \in CPU \ {c} : ~Inside(d, l)'
        /\ holder'[l] = None /\ Unnamed(c, l)'
    BY <1>3, <1>4, <1>6, <1>7
  <2>. QED BY <2>1 DEF Lone
<1>8. CASE /\ Owns(n, i, l) /\ locked'[l] = locked[l] /\ Owns(m, j, l)
           /\ holder'[l] = IF Nameless(m, j, l) THEN None ELSE c
  <2>1. /\ locked'[l] = 1 /\ Inside(c, l)' /\ \A d \in CPU \ {c} : ~Inside(d, l)'
        /\ holder'[l] = IF Unnamed(c, l)' THEN None ELSE c
    BY <1>3, <1>4, <1>5, <1>8
  <2>. QED BY <2>1 DEF Lone
<1>9. CASE Owns(n, i, l) /\ ~Owns(m, j, l) /\ locked'[l] = 0 /\ holder'[l] = None
  <2>1. locked'[l] = 0 /\ holder'[l] = None /\ \A d \in CPU : ~Inside(d, l)'
    BY <1>3, <1>4, <1>5, <1>9
  <2>. QED BY <2>1 DEF Lone
<1>. QED BY <1>7, <1>8, <1>9

(* A step that leaves the flags alone.                                         *)
Calm(n, i, m, j) ==
    /\ Depth(m, j) = Depth(n, i) /\ ~Loose(n, i) /\ Open(m, j) = Open(n, i)
    /\ Depth(n, i) > 0 =>
         /\ m = "call" \/ (m = "sleep" /\ j # 9) => n = "call" \/ (n = "sleep" /\ i # 9)
         /\ m = "device" \/ (m = "timer" /\ j # 6) => n = "device" \/ (n = "timer" /\ i # 6)
    /\ ~Switching(n, i) /\ ~Switching(m, j)
    /\ <<m, j>> \notin {<<"sleep", 9>>, <<"timer", 6>>}

LEMMA FlagsStay ==
  ASSUME NEW c \in CPU, NEW n, NEW i, NEW m, NEW j, Flags(c, n, i), Calm(n, i, m, j),
         fl' = fl, ncli' = ncli, intena' = intena
  PROVE  Flags(c, m, j)'
BY DEF Flags, Calm

LEMMA MoodStays ==
  ASSUME NEW c \in CPU, NEW n, NEW i, NEW b, NEW m, NEW j, Here(c, n, i, b), Calm(n, i, m, j),
         on' = on, state' = state, saved' = saved, on[c] # None
  PROVE  Mood(on[c], m, j)'
<1>1. Mood(on[c], n, i)
  BY DEF Here
<1>. QED BY <1>1 DEF Mood, Calm

LEMMA XchgStep ==
  ASSUME SpinInv, NEW c \in CPU, Xchg(c)
  PROVE  SpinInv'
<1>1. SpinTypeOK /\ NoPanic /\ PlaceInv /\ LockInv /\ ReadyInv
  BY DEF SpinInv
<1>2. PICK n, i, b : Here(c, n, i, b)
  BY <1>1 DEF PlaceInv
<1>3. Does(c, "xchg")
  BY DEF Xchg
<1>4. Where(n, i, "xchg", Lock(c)) /\ i \in 1 .. Steps(n) /\ n \in Pieces /\ (on[c] = None <=> Running(c) \in CPU)
  BY <1>1, <1>2, <1>3, DoesIs
<1>5. \/ Lock(c) = "device" /\ <<n, i>> \in {<<"call", 2>>, <<"sleep", 14>>, <<"device", 2>>}
      \/ /\ Lock(c) = "ptable"
         /\ <<n, i>> \in {<<"sleep", 2>>, <<"scan", 6>>, <<"device", 6>>, <<"timer", 2>>}
  BY <1>4 DEF Where
<1>6. Running(c) \in Thread /\ Stands(code[Running(c)], Running(c), n, i, b) /\ Flags(c, n, i)
  BY <1>1, <1>2, RunningIs DEF Here
<1>9. /\ locked[Lock(c)] = 0 /\ locked' = [locked EXCEPT ![Lock(c)] = 1]
      /\ code' = [code EXCEPT ![Running(c)] = Rest(c)]
      /\ holder' = holder /\ fl' = fl /\ ncli' = ncli /\ intena' = intena /\ on' = on /\ state' = state /\ saved' = saved /\ ready' = ready /\ panicked' = panicked
  BY DEF Xchg, Goto, Free, flags, procs
<1>10. i < Steps(n)
  BY <1>5 DEF Steps
<1>11. Stands(Rest(c), Running(c), n, i + 1, b) /\ Rest(c) \in Seq(Item)
  BY <1>1, <1>2, <1>10, Advances
<1>12. Calm(n, i, n, i + 1)
  BY <1>5 DEF Calm, Depth, Open, Loose, Switching
<1>13. Flags(c, n, i + 1)'
  BY <1>6, <1>9, <1>12, FlagsStay
<1>14. on[c] # None => Mood(on[c], n, i + 1)'
  BY <1>2, <1>9, <1>12, MoodStays
<1>16. PlaceInv'
  BY <1>1, <1>9, <1>11, <1>13, <1>14, PlaceStep
<1>15. SpinTypeOK'
  BY <1>1, <1>9 DEF SpinTypeOK
<1>17. LockInv'
  <2>1. ASSUME NEW l \in Locks PROVE Lone(l)'
    <3>1. Lone(l)
      BY <1>1 DEF LockInv
    <3>2. CASE l # Lock(c)
      <4>1. /\ Owns(n, i, l) <=> Owns(n, i + 1, l)
            /\ Owns(n, i, l) => (Nameless(n, i, l) <=> Nameless(n, i + 1, l))
        BY <1>5, <3>2 DEF Owns, HasDevice, HasPtable, Nameless, Locks
      <4>2. locked'[l] = locked[l] /\ holder'[l] = holder[l]
        BY <1>1, <1>9, <3>2 DEF SpinTypeOK
      <4>. QED BY <1>1, <1>2, <1>9, <1>11, <3>1, <4>1, <4>2, LockStep
    <3>3. CASE l = Lock(c)
      <4>1. Owns(n, i + 1, l) /\ Nameless(n, i + 1, l)
        BY <1>5, <3>3 DEF Owns, HasDevice, HasPtable, Nameless
      <4>2. locked[l] = 0 /\ locked'[l] = 1 /\ holder'[l] = holder[l]
        BY <1>1, <1>9, <3>3 DEF SpinTypeOK
      <4>. QED BY <1>1, <1>2, <1>9, <1>11, <3>1, <4>1, <4>2, LockMoves
    <3>. QED BY <3>2, <3>3
  <2>. QED BY <2>1 DEF LockInv
<1>18. ReadyInv'
  <2>1. Follows(n, i, b, n, i + 1, b)
    BY <1>5 DEF Follows, HasDevice
  <2>. QED BY <1>1, <1>2, <1>9, <1>11, <2>1, ReadyMove
<1>. QED BY <1>1, <1>9, <1>15, <1>16, <1>17, <1>18 DEF SpinInv, NoPanic

LEMMA OwnStep ==
  ASSUME SpinInv, NEW c \in CPU, Own(c)
  PROVE  SpinInv'
<1>1. SpinTypeOK /\ NoPanic /\ PlaceInv /\ LockInv /\ ReadyInv
  BY DEF SpinInv
<1>2. PICK n, i, b : Here(c, n, i, b)
  BY <1>1 DEF PlaceInv
<1>3. Does(c, "own")
  BY DEF Own
<1>4. Where(n, i, "own", Lock(c)) /\ i \in 1 .. Steps(n) /\ n \in Pieces /\ (on[c] = None <=> Running(c) \in CPU)
  BY <1>1, <1>2, <1>3, DoesIs
<1>5. \/ Lock(c) = "device" /\ <<n, i>> \in {<<"call", 3>>, <<"sleep", 15>>, <<"device", 3>>}
      \/ /\ Lock(c) = "ptable"
         /\ <<n, i>> \in {<<"sleep", 3>>, <<"scan", 7>>, <<"device", 7>>, <<"timer", 3>>}
  BY <1>4 DEF Where
<1>6. Running(c) \in Thread /\ Stands(code[Running(c)], Running(c), n, i, b) /\ Flags(c, n, i)
  BY <1>1, <1>2, RunningIs DEF Here
<1>9. /\ holder' = [holder EXCEPT ![Lock(c)] = c]
      /\ code' = [code EXCEPT ![Running(c)] = Rest(c)]
      /\ locked' = locked /\ fl' = fl /\ ncli' = ncli /\ intena' = intena /\ on' = on /\ state' = state /\ saved' = saved /\ ready' = ready /\ panicked' = panicked
  BY DEF Own, Goto, flags, procs
<1>10. i < Steps(n)
  BY <1>5 DEF Steps
<1>11. Stands(Rest(c), Running(c), n, i + 1, b) /\ Rest(c) \in Seq(Item)
  BY <1>1, <1>2, <1>10, Advances
<1>12. Calm(n, i, n, i + 1)
  BY <1>5 DEF Calm, Depth, Open, Loose, Switching
<1>13. Flags(c, n, i + 1)'
  BY <1>6, <1>9, <1>12, FlagsStay
<1>14. on[c] # None => Mood(on[c], n, i + 1)'
  BY <1>2, <1>9, <1>12, MoodStays
<1>16. PlaceInv'
  BY <1>1, <1>9, <1>11, <1>13, <1>14, PlaceStep
<1>15. SpinTypeOK'
  BY <1>1, <1>9 DEF SpinTypeOK
<1>17. LockInv'
  <2>1. ASSUME NEW l \in Locks PROVE Lone(l)'
    <3>1. Lone(l)
      BY <1>1 DEF LockInv
    <3>2. CASE l # Lock(c)
      <4>1. /\ Owns(n, i, l) <=> Owns(n, i + 1, l)
            /\ Owns(n, i, l) => (Nameless(n, i, l) <=> Nameless(n, i + 1, l))
        BY <1>5, <3>2 DEF Owns, HasDevice, HasPtable, Nameless, Locks
      <4>2. locked'[l] = locked[l] /\ holder'[l] = holder[l]
        BY <1>1, <1>9, <3>2 DEF SpinTypeOK
      <4>. QED BY <1>1, <1>2, <1>9, <1>11, <3>1, <4>1, <4>2, LockStep
    <3>3. CASE l = Lock(c)
      <4>1. Owns(n, i, l) /\ Owns(n, i + 1, l) /\ ~Nameless(n, i + 1, l)
        BY <1>5, <3>3 DEF Owns, HasDevice, HasPtable, Nameless
      <4>2. locked'[l] = locked[l] /\ holder'[l] = c
        BY <1>1, <1>9, <3>3 DEF SpinTypeOK
      <4>. QED BY <1>1, <1>2, <1>9, <1>11, <3>1, <4>1, <4>2, LockMoves
    <3>. QED BY <3>2, <3>3
  <2>. QED BY <2>1 DEF LockInv
<1>18. ReadyInv'
  <2>1. Follows(n, i, b, n, i + 1, b)
    BY <1>5 DEF Follows, HasDevice
  <2>. QED BY <1>1, <1>2, <1>9, <1>11, <2>1, ReadyMove
<1>. QED BY <1>1, <1>9, <1>15, <1>16, <1>17, <1>18 DEF SpinInv, NoPanic

LEMMA DisownStep ==
  ASSUME SpinInv, NEW c \in CPU, Disown(c)
  PROVE  SpinInv'
<1>1. SpinTypeOK /\ NoPanic /\ PlaceInv /\ LockInv /\ ReadyInv
  BY DEF SpinInv
<1>2. PICK n, i, b : Here(c, n, i, b)
  BY <1>1 DEF PlaceInv
<1>3. Does(c, "disown")
  BY DEF Disown
<1>4. Where(n, i, "disown", Lock(c)) /\ i \in 1 .. Steps(n) /\ n \in Pieces /\ (on[c] = None <=> Running(c) \in CPU)
  BY <1>1, <1>2, <1>3, DoesIs
<1>5. \/ Lock(c) = "device" /\ <<n, i>> \in {<<"ret", 1>>, <<"sleep", 4>>, <<"device", 12>>}
      \/ /\ Lock(c) = "ptable"
         /\ <<n, i>> \in {<<"sleep", 10>>, <<"fork", 1>>, <<"scan", 1>>, <<"device", 9>>, <<"timer", 7>>}
  BY <1>4 DEF Where
<1>6. Running(c) \in Thread /\ Stands(code[Running(c)], Running(c), n, i, b) /\ Flags(c, n, i)
  BY <1>1, <1>2, RunningIs DEF Here
<1>7. Lock(c) \in Locks /\ Owns(n, i, Lock(c)) /\ ~Nameless(n, i, Lock(c))
  BY <1>5 DEF Locks, Owns, HasDevice, HasPtable, Nameless
<1>8. Holding(c, Lock(c))
  <2>1. Lone(Lock(c))
    BY <1>1, <1>7 DEF LockInv
  <2>. QED BY <1>1, <1>2, <1>7, <2>1, HoldsIs DEF Holding
<1>9. /\ holder' = [holder EXCEPT ![Lock(c)] = None]
      /\ code' = [code EXCEPT ![Running(c)] = Rest(c)]
      /\ locked' = locked /\ fl' = fl /\ ncli' = ncli /\ intena' = intena /\ on' = on /\ state' = state /\ saved' = saved /\ ready' = ready /\ panicked' = panicked
  BY <1>8 DEF Disown, Goto, flags, procs
<1>10. i < Steps(n)
  BY <1>5 DEF Steps
<1>11. Stands(Rest(c), Running(c), n, i + 1, b) /\ Rest(c) \in Seq(Item)
  BY <1>1, <1>2, <1>10, Advances
<1>12. Calm(n, i, n, i + 1)
  BY <1>5 DEF Calm, Depth, Open, Loose, Switching
<1>13. Flags(c, n, i + 1)'
  BY <1>6, <1>9, <1>12, FlagsStay
<1>14. on[c] # None => Mood(on[c], n, i + 1)'
  BY <1>2, <1>9, <1>12, MoodStays
<1>16. PlaceInv'
  BY <1>1, <1>9, <1>11, <1>13, <1>14, PlaceStep
<1>15. SpinTypeOK'
  BY <1>1, <1>9 DEF SpinTypeOK
<1>17. LockInv'
  <2>1. ASSUME NEW l \in Locks PROVE Lone(l)'
    <3>1. Lone(l)
      BY <1>1 DEF LockInv
    <3>2. CASE l # Lock(c)
      <4>1. /\ Owns(n, i, l) <=> Owns(n, i + 1, l)
            /\ Owns(n, i, l) => (Nameless(n, i, l) <=> Nameless(n, i + 1, l))
        BY <1>5, <3>2 DEF Owns, HasDevice, HasPtable, Nameless, Locks
      <4>2. locked'[l] = locked[l] /\ holder'[l] = holder[l]
        BY <1>1, <1>9, <3>2 DEF SpinTypeOK
      <4>. QED BY <1>1, <1>2, <1>9, <1>11, <3>1, <4>1, <4>2, LockStep
    <3>3. CASE l = Lock(c)
      <4>1. Owns(n, i, l) /\ Owns(n, i + 1, l) /\ Nameless(n, i + 1, l)
        BY <1>5, <3>3 DEF Owns, HasDevice, HasPtable, Nameless
      <4>2. locked'[l] = locked[l] /\ holder'[l] = None
        BY <1>1, <1>9, <3>3 DEF SpinTypeOK
      <4>. QED BY <1>1, <1>2, <1>9, <1>11, <3>1, <4>1, <4>2, LockMoves
    <3>. QED BY <3>2, <3>3
  <2>. QED BY <2>1 DEF LockInv
<1>18. ReadyInv'
  <2>1. Follows(n, i, b, n, i + 1, b)
    BY <1>5 DEF Follows, HasDevice
  <2>. QED BY <1>1, <1>2, <1>9, <1>11, <2>1, ReadyMove
<1>. QED BY <1>1, <1>9, <1>15, <1>16, <1>17, <1>18 DEF SpinInv, NoPanic

LEMMA ClearStep ==
  ASSUME SpinInv, NEW c \in CPU, Clear(c)
  PROVE  SpinInv'
<1>1. SpinTypeOK /\ NoPanic /\ PlaceInv /\ LockInv /\ ReadyInv
  BY DEF SpinInv
<1>2. PICK n, i, b : Here(c, n, i, b)
  BY <1>1 DEF PlaceInv
<1>3. Does(c, "clear")
  BY DEF Clear
<1>4. Where(n, i, "clear", Lock(c)) /\ i \in 1 .. Steps(n) /\ n \in Pieces /\ (on[c] = None <=> Running(c) \in CPU)
  BY <1>1, <1>2, <1>3, DoesIs
<1>5. \/ Lock(c) = "device" /\ <<n, i>> \in {<<"ret", 2>>, <<"sleep", 5>>, <<"device", 13>>}
      \/ /\ Lock(c) = "ptable"
         /\ <<n, i>> \in {<<"sleep", 11>>, <<"fork", 2>>, <<"scan", 2>>, <<"device", 10>>, <<"timer", 8>>}
  BY <1>4 DEF Where
<1>6. Running(c) \in Thread /\ Stands(code[Running(c)], Running(c), n, i, b) /\ Flags(c, n, i)
  BY <1>1, <1>2, RunningIs DEF Here
<1>9. /\ locked' = [locked EXCEPT ![Lock(c)] = 0]
      /\ code' = [code EXCEPT ![Running(c)] = Rest(c)]
      /\ holder' = holder /\ fl' = fl /\ ncli' = ncli /\ intena' = intena /\ on' = on /\ state' = state /\ saved' = saved /\ ready' = ready /\ panicked' = panicked
  BY DEF Clear, Goto, flags, procs
<1>10. i < Steps(n)
  BY <1>5 DEF Steps
<1>11. Stands(Rest(c), Running(c), n, i + 1, b) /\ Rest(c) \in Seq(Item)
  BY <1>1, <1>2, <1>10, Advances
<1>12. Calm(n, i, n, i + 1)
  BY <1>5 DEF Calm, Depth, Open, Loose, Switching
<1>13. Flags(c, n, i + 1)'
  BY <1>6, <1>9, <1>12, FlagsStay
<1>14. on[c] # None => Mood(on[c], n, i + 1)'
  BY <1>2, <1>9, <1>12, MoodStays
<1>16. PlaceInv'
  BY <1>1, <1>9, <1>11, <1>13, <1>14, PlaceStep
<1>15. SpinTypeOK'
  BY <1>1, <1>9 DEF SpinTypeOK
<1>17. LockInv'
  <2>1. ASSUME NEW l \in Locks PROVE Lone(l)'
    <3>1. Lone(l)
      BY <1>1 DEF LockInv
    <3>2. CASE l # Lock(c)
      <4>1. /\ Owns(n, i, l) <=> Owns(n, i + 1, l)
            /\ Owns(n, i, l) => (Nameless(n, i, l) <=> Nameless(n, i + 1, l))
        BY <1>5, <3>2 DEF Owns, HasDevice, HasPtable, Nameless, Locks
      <4>2. locked'[l] = locked[l] /\ holder'[l] = holder[l]
        BY <1>1, <1>9, <3>2 DEF SpinTypeOK
      <4>. QED BY <1>1, <1>2, <1>9, <1>11, <3>1, <4>1, <4>2, LockStep
    <3>3. CASE l = Lock(c)
      <4>1. Owns(n, i, l) /\ ~Owns(n, i + 1, l) /\ Nameless(n, i, l)
        BY <1>5, <3>3 DEF Owns, HasDevice, HasPtable, Nameless
      <4>2. locked'[l] = 0 /\ holder'[l] = holder[l]
        BY <1>1, <1>9, <3>3 DEF SpinTypeOK
      <4>3. holder[l] = None
        BY <1>1, <1>2, <3>1, <4>1, HoldsIs
      <4>. QED BY <1>1, <1>2, <1>9, <1>11, <3>1, <4>1, <4>2, <4>3, LockMoves
    <3>. QED BY <3>2, <3>3
  <2>. QED BY <2>1 DEF LockInv
<1>18. ReadyInv'
  <2>1. Follows(n, i, b, n, i + 1, b)
    BY <1>5 DEF Follows, HasDevice
  <2>. QED BY <1>1, <1>2, <1>9, <1>11, <2>1, ReadyMove
<1>. QED BY <1>1, <1>9, <1>15, <1>16, <1>17, <1>18 DEF SpinInv, NoPanic

LEMMA PopcliStep ==
  ASSUME SpinInv, NEW c \in CPU, Popcli(c)
  PROVE  SpinInv'
<1>1. SpinTypeOK /\ NoPanic /\ PlaceInv /\ LockInv /\ ReadyInv
  BY DEF SpinInv
<1>2. PICK n, i, b : Here(c, n, i, b)
  BY <1>1 DEF PlaceInv
<1>3. Does(c, "popcli")
  BY DEF Popcli
<1>4. Where(n, i, "popcli", Lock(c)) /\ i \in 1 .. Steps(n) /\ n \in Pieces /\ (on[c] = None <=> Running(c) \in CPU)
  BY <1>1, <1>2, <1>3, DoesIs
<1>5. \/ Lock(c) = "device" /\ <<n, i>> \in {<<"ret", 3>>, <<"sleep", 6>>, <<"device", 14>>}
      \/ /\ Lock(c) = "ptable"
         /\ <<n, i>> \in {<<"sleep", 12>>, <<"fork", 3>>, <<"scan", 3>>, <<"device", 11>>, <<"timer", 9>>}
  BY <1>4 DEF Where
<1>6. Running(c) \in Thread /\ Stands(code[Running(c)], Running(c), n, i, b) /\ Flags(c, n, i)
  BY <1>1, <1>2, RunningIs DEF Here
<1>7. /\ Depth(n, i) \in 1 .. 2 /\ Depth(n, i + 1) = Depth(n, i) - 1 /\ ~Loose(n, i) /\ ~Open(n, i)
      /\ Depth(n, i + 1) > 0 => ~Open(n, i + 1)
  BY <1>5 DEF Depth, Open, Loose
<1>8. /\ ncli \in [CPU -> 0 .. 2] /\ fl \in [CPU -> BOOLEAN] /\ intena \in [CPU -> BOOLEAN]
      /\ ncli[c] = Depth(n, i) /\ ~fl[c]
  BY <1>1, <1>6, <1>7 DEF SpinTypeOK, Flags
<1>20. ~(fl[c] \/ ncli[c] = 0)
  BY <1>7, <1>8
<1>9. /\ ncli' = [ncli EXCEPT ![c] = @ - 1] /\ fl' = [fl EXCEPT ![c] = Enables(c)]
      /\ code' = [code EXCEPT ![Running(c)] = Rest(c)]
      /\ locked' = locked /\ holder' = holder /\ intena' = intena /\ on' = on /\ state' = state /\ saved' = saved
      /\ ready' = ready /\ panicked' = panicked
  BY <1>20 DEF Popcli, Goto, locks, procs
<1>10. i < Steps(n)
  BY <1>5 DEF Steps
<1>11. Stands(Rest(c), Running(c), n, i + 1, b) /\ Rest(c) \in Seq(Item)
  BY <1>1, <1>2, <1>10, Advances
<1>12. ncli'[c] = Depth(n, i + 1) /\ fl'[c] = (ncli[c] = 1 /\ intena[c]) /\ fl'[c] \in BOOLEAN
  BY <1>7, <1>8, <1>9 DEF Enables
<1>13. Flags(c, n, i + 1)'
  <2>1. /\ Depth(n, i) = 1 /\ ~Loose(n, i + 1) => (Open(n, i + 1) <=> n \notin {"device", "timer"})
        /\ Depth(n, i) = 1 /\ ~Loose(n, i + 1) => n \in {"sleep", "device", "timer"}
        /\ ~(n = "sleep" /\ i = 9) /\ ~(n = "timer" /\ i = 6)
        /\ n = "timer" => Depth(n, i) = 1
    BY <1>5 DEF Depth, Open, Loose
  <2>2. /\ n = "call" \/ n = "sleep" => intena[c]
        /\ n = "device" \/ n = "timer" => ~intena[c]
    BY <1>6, <1>7, <2>1 DEF Flags
  <2>3. ~Loose(n, i + 1) => (fl'[c] <=> Open(n, i + 1))
    BY <1>7, <1>8, <1>12, <2>1, <2>2
  <2>4. ~Loose(n, i + 1) => fl'[c] = Open(n, i + 1)
    BY <1>12, <2>3 DEF Open
  <2>5. intena'[c] = intena[c] /\ ncli'[c] = Depth(n, i + 1)
    BY <1>9, <1>12
  <2>. QED BY <2>2, <2>4, <2>5 DEF Flags
<1>14. on[c] # None => Mood(on[c], n, i + 1)'
  BY <1>2, <1>5, <1>9 DEF Here, Mood, Switching
<1>15. SpinTypeOK'
  <2>1. ncli'[c] \in 0 .. 2 /\ ncli' \in [CPU -> 0 .. 2]
    BY <1>7, <1>8, <1>9, <1>12
  <2>2. fl' \in [CPU -> BOOLEAN]
    BY <1>8, <1>9 DEF Enables
  <2>. QED BY <1>1, <1>9, <2>1, <2>2 DEF SpinTypeOK
<1>16. PlaceInv'
  <2>1. \A d \in CPU \ {c} : fl'[d] = fl[d] /\ ncli'[d] = ncli[d] /\ intena'[d] = intena[d]
    BY <1>8, <1>9
  <2>. QED BY <1>1, <1>9, <1>11, <1>13, <1>14, <2>1, PlaceStep
<1>17. LockInv'
  <2>1. ASSUME NEW l \in Locks PROVE Lone(l)'
    <3>1. /\ Owns(n, i, l) <=> Owns(n, i + 1, l)
          /\ Owns(n, i, l) => (Nameless(n, i, l) <=> Nameless(n, i + 1, l))
      BY <1>5 DEF Owns, HasDevice, HasPtable, Nameless
    <3>2. Lone(l) /\ locked'[l] = locked[l] /\ holder'[l] = holder[l]
      BY <1>1, <1>9 DEF LockInv
    <3>. QED BY <1>1, <1>2, <1>9, <1>11, <3>1, <3>2, LockStep
  <2>. QED BY <2>1 DEF LockInv
<1>18. ReadyInv'
  <2>1. Follows(n, i, b, n, i + 1, b)
    BY <1>5 DEF Follows, HasDevice
  <2>. QED BY <1>1, <1>2, <1>9, <1>11, <2>1, ReadyMove
<1>. QED BY <1>1, <1>9, <1>15, <1>16, <1>17, <1>18 DEF SpinInv, NoPanic

LEMMA EventStep ==
  ASSUME SpinInv, NEW c \in CPU, Event(c)
  PROVE  SpinInv'
<1>1. SpinTypeOK /\ NoPanic /\ PlaceInv /\ LockInv /\ ReadyInv
  BY DEF SpinInv
<1>2. PICK n, i, b : Here(c, n, i, b)
  BY <1>1 DEF PlaceInv
<1>3. Does(c, "event")
  BY DEF Event
<1>4. Where(n, i, "event", Lock(c)) /\ i \in 1 .. Steps(n) /\ n \in Pieces /\ (on[c] = None <=> Running(c) \in CPU)
  BY <1>1, <1>2, <1>3, DoesIs
<1>5. <<n, i>> \in {<<"device", 4>>}
  BY <1>4 DEF Where
<1>6. Running(c) \in Thread /\ Stands(code[Running(c)], Running(c), n, i, b) /\ Flags(c, n, i)
  BY <1>1, <1>2, RunningIs DEF Here
<1>9. /\ ready' = TRUE
      /\ code' = [code EXCEPT ![Running(c)] = Rest(c)]
      /\ locked' = locked /\ holder' = holder /\ fl' = fl /\ ncli' = ncli /\ intena' = intena /\ on' = on /\ state' = state /\ saved' = saved /\ panicked' = panicked
  BY DEF Event, Goto, locks, flags, procs
<1>10. i < Steps(n)
  BY <1>5 DEF Steps
<1>11. Stands(Rest(c), Running(c), n, i + 1, b) /\ Rest(c) \in Seq(Item)
  BY <1>1, <1>2, <1>10, Advances
<1>12. Calm(n, i, n, i + 1)
  BY <1>5 DEF Calm, Depth, Open, Loose, Switching
<1>13. Flags(c, n, i + 1)'
  BY <1>6, <1>9, <1>12, FlagsStay
<1>14. on[c] # None => Mood(on[c], n, i + 1)'
  BY <1>2, <1>9, <1>12, MoodStays
<1>16. PlaceInv'
  BY <1>1, <1>9, <1>11, <1>13, <1>14, PlaceStep
<1>15. SpinTypeOK'
  BY <1>1, <1>9 DEF SpinTypeOK
<1>17. LockInv'
  <2>1. ASSUME NEW l \in Locks PROVE Lone(l)'
    <3>1. /\ Owns(n, i, l) <=> Owns(n, i + 1, l)
          /\ Owns(n, i, l) => (Nameless(n, i, l) <=> Nameless(n, i + 1, l))
      BY <1>5 DEF Owns, HasDevice, HasPtable, Nameless
    <3>2. Lone(l) /\ locked'[l] = locked[l] /\ holder'[l] = holder[l]
      BY <1>1, <1>9 DEF LockInv
    <3>. QED BY <1>1, <1>2, <1>9, <1>11, <3>1, <3>2, LockStep
  <2>. QED BY <2>1 DEF LockInv
<1>18. ReadyInv'
  <2>. DEFINE t == Running(c)
  <2>1. t \in Thread /\ code \in [Thread -> Seq(Item)]
    BY <1>1, <1>6 DEF PlaceInv
  <2>2. code'[t] = Rest(c) /\ \A u \in Thread : u # t => code'[u] = code[u]
    BY <1>9, <2>1
  <2>3. Stands(Rest(c), t, "device", 5, b)
    BY <1>5, <1>11
  <2>4. In(Rest(c), "wakeup1") /\ ~In(Rest(c), "event") /\ ~In(Rest(c), "sleep")
    <3>1. /\ In(Rest(c), "wakeup1") <=> "device" = "device" /\ 5 <= 8
          /\ In(Rest(c), "event") <=> "device" = "device" /\ 5 <= 4
          /\ In(Rest(c), "sleep") <=> "device" = "sleep" /\ 5 <= 7
      BY <1>6, <2>3, HasIs
    <3>. QED BY <3>1
  <2>5. Pending'
    <3>1. PICK u \in Thread : u = t
      BY <2>1
    <3>2. In(code'[u], "wakeup1") /\ ~In(code'[u], "event")
      BY <2>2, <2>4, <3>1
    <3>3. Has(u, "wakeup1")' /\ ~Has(u, "event")'
      BY <3>2, HasNext
    <3>. QED BY <3>3 DEF Pending
  <2>6. ASSUME NEW p \in Process, Has(p, "sleep")' PROVE ~Guards(code'[p], "device")
    <3>1. In(code'[p], "sleep") /\ p \in Thread
      BY <2>6, HasNext DEF Thread
    <3>2. p # t /\ code'[p] = code[p]
      BY <2>2, <2>4, <3>1
    <3>3. CASE \A d \in CPU : on[d] # p
      <4>1. PICK m, j, f : There(p, m, j, f)
        BY <1>1, <3>3 DEF PlaceInv
      <4>2. Stands(code[p], p, m, j, f) /\ (m = "sleep" => j = 9)
        BY <4>1 DEF There, Switched
      <4>3. In(code[p], "sleep") <=> m = "sleep" /\ j <= 7
        BY <3>1, <4>2, HasIs
      <4>. QED BY <3>1, <3>2, <4>2, <4>3
    <3>4. ASSUME NEW d \in CPU, on[d] = p PROVE ~Guards(code'[p], "device")
      <4>1. Running(d) = p /\ d # c
        BY <1>1, <3>2, <3>4, NoneAssumption DEF Running
      <4>2. Lone("device")
        BY <1>1, LocksAre DEF LockInv
      <4>3. Owns(n, i, "device")
        BY <1>5 DEF Owns, HasDevice
      <4>4. ~Inside(d, "device")
        BY <1>1, <1>2, <4>1, <4>2, <4>3, LocksAre, HoldsIs
      <4>. QED BY <3>2, <4>1, <4>4 DEF Inside, Guards
    <3>. QED BY <3>3, <3>4
  <2>7. NoLostWakeup'
    BY <2>5 DEF NoLostWakeup, Pending
  <2>. QED BY <2>5, <2>6, <2>7 DEF ReadyInv
<1>. QED BY <1>1, <1>9, <1>15, <1>16, <1>17, <1>18 DEF SpinInv, NoPanic

LEMMA Wakeup1Step ==
  ASSUME SpinInv, NEW c \in CPU, Wakeup1(c)
  PROVE  SpinInv'
<1>1. SpinTypeOK /\ NoPanic /\ PlaceInv /\ LockInv /\ ReadyInv
  BY DEF SpinInv
<1>2. PICK n, i, b : Here(c, n, i, b)
  BY <1>1 DEF PlaceInv
<1>3. Does(c, "wakeup1")
  BY DEF Wakeup1
<1>4. Where(n, i, "wakeup1", Lock(c)) /\ i \in 1 .. Steps(n) /\ n \in Pieces /\ (on[c] = None <=> Running(c) \in CPU)
  BY <1>1, <1>2, <1>3, DoesIs
<1>5. <<n, i>> \in {<<"device", 8>>}
  BY <1>4 DEF Where
<1>6. Running(c) \in Thread /\ Stands(code[Running(c)], Running(c), n, i, b) /\ Flags(c, n, i)
  BY <1>1, <1>2, RunningIs DEF Here
<1>9. /\ state' = [p \in Process |-> IF state[p] = "SLEEPING" THEN "RUNNABLE" ELSE state[p]]
      /\ code' = [code EXCEPT ![Running(c)] = Rest(c)]
      /\ locked' = locked /\ holder' = holder /\ fl' = fl /\ ncli' = ncli /\ intena' = intena /\ on' = on /\ saved' = saved /\ ready' = ready /\ panicked' = panicked
  BY DEF Wakeup1, Goto, locks, flags
<1>10. i < Steps(n)
  BY <1>5 DEF Steps
<1>11. Stands(Rest(c), Running(c), n, i + 1, b) /\ Rest(c) \in Seq(Item)
  BY <1>1, <1>2, <1>10, Advances
<1>12. Calm(n, i, n, i + 1)
  BY <1>5 DEF Calm, Depth, Open, Loose, Switching
<1>13. Flags(c, n, i + 1)'
  BY <1>6, <1>9, <1>12, FlagsStay
<1>14. on[c] # None => Mood(on[c], n, i + 1)'
  <2>1. SUFFICES ASSUME on[c] # None PROVE Mood(on[c], n, i + 1)'
    OBVIOUS
  <2>2. Mood(on[c], n, i) /\ on[c] \in Process
    BY <1>1, <1>2, <2>1, RunningIs DEF Here
  <2>3. (state'[on[c]] = "RUNNING") <=> (state[on[c]] = "RUNNING")
    BY <1>9, <2>2
  <2>. QED BY <1>9, <1>12, <2>2, <2>3 DEF Mood, Calm
<1>15. SpinTypeOK'
  BY <1>1, <1>9 DEF SpinTypeOK
<1>16. PlaceInv'
  <2>1. \A p \in Process : p # on[c] => ((state'[p] = "RUNNING") <=> (state[p] = "RUNNING"))
    BY <1>9
  <2>. QED BY <1>1, <1>9, <1>11, <1>13, <1>14, <2>1, PlaceStep
<1>17. LockInv'
  <2>1. ASSUME NEW l \in Locks PROVE Lone(l)'
    <3>1. /\ Owns(n, i, l) <=> Owns(n, i + 1, l)
          /\ Owns(n, i, l) => (Nameless(n, i, l) <=> Nameless(n, i + 1, l))
      BY <1>5 DEF Owns, HasDevice, HasPtable, Nameless
    <3>2. Lone(l) /\ locked'[l] = locked[l] /\ holder'[l] = holder[l]
      BY <1>1, <1>9 DEF LockInv
    <3>. QED BY <1>1, <1>2, <1>9, <1>11, <3>1, <3>2, LockStep
  <2>. QED BY <2>1 DEF LockInv
<1>18. ReadyInv'
  <2>. DEFINE t == Running(c)
  <2>1. t \in Thread /\ code \in [Thread -> Seq(Item)]
    BY <1>1, <1>6 DEF PlaceInv
  <2>2. code'[t] = Rest(c) /\ \A u \in Thread : u # t => code'[u] = code[u]
    BY <1>9, <2>1
  <2>3. Stands(Rest(c), t, "device", 9, b)
    BY <1>5, <1>11
  <2>4. ~In(Rest(c), "sleep")
    <3>1. In(Rest(c), "sleep") <=> "device" = "sleep" /\ 9 <= 7
      BY <1>6, <2>3, HasIs
    <3>. QED BY <3>1
  <2>5. ASSUME NEW p \in Process, Has(p, "sleep")', ready' PROVE FALSE
    <3>1. In(code'[p], "sleep") /\ p \in Thread
      BY <2>5, HasNext DEF Thread
    <3>2. p # t /\ code'[p] = code[p]
      BY <2>2, <2>4, <3>1
    <3>3. ~Guards(code[p], "device")
      BY <1>1, <1>9, <2>5, <3>1, <3>2, HasOf DEF ReadyInv
    <3>4. ASSUME NEW m, NEW j, NEW f, Stands(code[p], p, m, j, f) PROVE m = "sleep" /\ j \in 6 .. 7
      <4>1. j \in 1 .. 16
        BY <3>1, <3>4, StandsIs
      <4>2. In(code[p], "sleep") <=> m = "sleep" /\ j <= 7
        BY <3>1, <3>4, HasIs
      <4>3. Guards(code[p], "device") <=> Owns(m, j, "device")
        BY <3>1, <3>4, LocksAre, GuardsIs
      <4>. QED BY <3>1, <3>2, <3>3, <4>1, <4>2, <4>3 DEF Owns, HasDevice
    <3>5. CASE \A d \in CPU : on[d] # p
      <4>1. PICK m, j, f : There(p, m, j, f)
        BY <1>1, <3>5 DEF PlaceInv
      <4>2. Stands(code[p], p, m, j, f) /\ (m = "sleep" => j = 9)
        BY <4>1 DEF There, Switched
      <4>. QED BY <3>4, <4>2
    <3>6. ASSUME NEW d \in CPU, on[d] = p PROVE FALSE
      <4>1. Running(d) = p /\ d # c
        BY <1>1, <3>2, <3>6, NoneAssumption DEF Running
      <4>2. PICK m, j, f : Here(d, m, j, f)
        BY <1>1 DEF PlaceInv
      <4>3. m = "sleep" /\ j \in 6 .. 7
        BY <3>4, <4>1, <4>2 DEF Here
      <4>4. Lone("ptable")
        BY <1>1, LocksAre DEF LockInv
      <4>5. Owns(n, i, "ptable") /\ Owns(m, j, "ptable")
        BY <1>5, <4>3 DEF Owns, HasPtable
      <4>6. ~Inside(d, "ptable")
        BY <1>1, <1>2, <4>1, <4>4, <4>5, LocksAre, HoldsIs
      <4>7. Inside(d, "ptable")
        BY <1>1, <4>2, <4>4, <4>5, LocksAre, HoldsIs
      <4>. QED BY <4>6, <4>7
    <3>. QED BY <3>5, <3>6
  <2>6. \A p \in Process : state'[p] # "SLEEPING"
    BY <1>9
  <2>. QED BY <2>5, <2>6 DEF ReadyInv, NoLostWakeup
<1>. QED BY <1>1, <1>9, <1>15, <1>16, <1>17, <1>18 DEF SpinInv, NoPanic

LEMMA ResumeStep ==
  ASSUME SpinInv, NEW c \in CPU, Resume(c)
  PROVE  SpinInv'
<1>1. SpinTypeOK /\ NoPanic /\ PlaceInv /\ LockInv /\ ReadyInv
  BY DEF SpinInv
<1>2. PICK n, i, b : Here(c, n, i, b)
  BY <1>1 DEF PlaceInv
<1>3. Does(c, "resume")
  BY DEF Resume
<1>4. Where(n, i, "resume", Lock(c)) /\ i \in 1 .. Steps(n) /\ n \in Pieces /\ (on[c] = None <=> Running(c) \in CPU)
  BY <1>1, <1>2, <1>3, DoesIs
<1>5. <<n, i>> \in {<<"sleep", 9>>, <<"timer", 6>>}
  BY <1>4 DEF Where
<1>6. Running(c) \in Thread /\ Stands(code[Running(c)], Running(c), n, i, b) /\ Flags(c, n, i)
  BY <1>1, <1>2, RunningIs DEF Here
<1>7. on[c] # None /\ on[c] \in Process /\ Mood(on[c], n, i)
  <2>1. Running(c) \notin CPU
    BY <1>5, <1>6 DEF Stands, Place
  <2>. QED BY <1>1, <1>2, <1>4, <2>1, RunningIs DEF Here
<1>9. /\ intena' = [intena EXCEPT ![c] = saved[on[c]]]
      /\ code' = [code EXCEPT ![Running(c)] = Rest(c)]
      /\ locked' = locked /\ holder' = holder /\ fl' = fl /\ ncli' = ncli /\ on' = on /\ state' = state /\ saved' = saved
      /\ ready' = ready /\ panicked' = panicked
  BY DEF Resume, Goto, locks, procs
<1>10. i < Steps(n)
  BY <1>5 DEF Steps
<1>11. Stands(Rest(c), Running(c), n, i + 1, b) /\ Rest(c) \in Seq(Item)
  BY <1>1, <1>2, <1>10, Advances
<1>12. intena \in [CPU -> BOOLEAN] /\ saved \in [Process -> BOOLEAN]
  BY <1>1 DEF SpinTypeOK
<1>13. Flags(c, n, i + 1)'
  <2>1. /\ Depth(n, i) = 1 /\ Depth(n, i + 1) = 1 /\ ~Loose(n, i) /\ Open(n, i) = Open(n, i + 1)
        /\ (n = "sleep" /\ i = 9) \/ (n = "timer" /\ i = 6)
    BY <1>5 DEF Depth, Open, Loose
  <2>2. intena'[c] = saved[on[c]] /\ (n = "sleep" => intena'[c]) /\ (n = "timer" => ~intena'[c])
    BY <1>7, <1>9, <1>12, <2>1 DEF Mood
  <2>. QED BY <1>6, <1>9, <2>1, <2>2 DEF Flags
<1>14. on[c] # None => Mood(on[c], n, i + 1)'
  BY <1>5, <1>7, <1>9 DEF Mood, Switching
<1>15. SpinTypeOK'
  BY <1>1, <1>7, <1>9, <1>12 DEF SpinTypeOK
<1>16. PlaceInv'
  <2>1. \A d \in CPU \ {c} : fl'[d] = fl[d] /\ ncli'[d] = ncli[d] /\ intena'[d] = intena[d]
    BY <1>9, <1>12
  <2>. QED BY <1>1, <1>9, <1>11, <1>13, <1>14, <2>1, PlaceStep
<1>17. LockInv'
  <2>1. ASSUME NEW l \in Locks PROVE Lone(l)'
    <3>1. /\ Owns(n, i, l) <=> Owns(n, i + 1, l)
          /\ Owns(n, i, l) => (Nameless(n, i, l) <=> Nameless(n, i + 1, l))
      BY <1>5 DEF Owns, HasDevice, HasPtable, Nameless
    <3>2. Lone(l) /\ locked'[l] = locked[l] /\ holder'[l] = holder[l]
      BY <1>1, <1>9 DEF LockInv
    <3>. QED BY <1>1, <1>2, <1>9, <1>11, <3>1, <3>2, LockStep
  <2>. QED BY <2>1 DEF LockInv
<1>18. ReadyInv'
  <2>1. Follows(n, i, b, n, i + 1, b)
    BY <1>5 DEF Follows, HasDevice
  <2>. QED BY <1>1, <1>2, <1>9, <1>11, <2>1, ReadyMove
<1>. QED BY <1>1, <1>9, <1>15, <1>16, <1>17, <1>18 DEF SpinInv, NoPanic

LEMMA StiStep ==
  ASSUME SpinInv, NEW c \in CPU, Sti(c)
  PROVE  SpinInv'
<1>1. SpinTypeOK /\ NoPanic /\ PlaceInv /\ LockInv /\ ReadyInv
  BY DEF SpinInv
<1>2. PICK n, i, b : Here(c, n, i, b)
  BY <1>1 DEF PlaceInv
<1>3. Does(c, "sti")
  BY DEF Sti
<1>4. Where(n, i, "sti", Lock(c)) /\ i \in 1 .. Steps(n) /\ n \in Pieces /\ (on[c] = None <=> Running(c) \in CPU)
  BY <1>1, <1>2, <1>3, DoesIs
<1>5. <<n, i>> \in {<<"scan", 4>>}
  BY <1>4 DEF Where
<1>6. Running(c) \in Thread /\ Stands(code[Running(c)], Running(c), n, i, b) /\ Flags(c, n, i)
  BY <1>1, <1>2, RunningIs DEF Here
<1>9. /\ fl' = [fl EXCEPT ![c] = TRUE]
      /\ code' = [code EXCEPT ![Running(c)] = Rest(c)]
      /\ locked' = locked /\ holder' = holder /\ ncli' = ncli /\ intena' = intena /\ on' = on /\ state' = state
      /\ saved' = saved /\ ready' = ready /\ panicked' = panicked
  BY DEF Sti, Goto, locks, procs
<1>10. i < Steps(n)
  BY <1>5 DEF Steps
<1>11. Stands(Rest(c), Running(c), n, i + 1, b) /\ Rest(c) \in Seq(Item)
  BY <1>1, <1>2, <1>10, Advances
<1>12. fl \in [CPU -> BOOLEAN] /\ fl'[c] = TRUE
  BY <1>1, <1>9 DEF SpinTypeOK
<1>13. Flags(c, n, i + 1)'
  <2>1. Depth(n, i) = 0 /\ Depth(n, i + 1) = 0 /\ Open(n, i + 1)
    BY <1>5 DEF Depth, Open
  <2>2. ncli[c] = 0
    BY <1>6, <2>1 DEF Flags
  <2>3. fl'[c] = Open(n, i + 1)
    BY <1>12, <2>1 DEF Open
  <2>4. ncli'[c] = Depth(n, i + 1) /\ ~(Depth(n, i + 1) > 0)
    BY <1>9, <2>1, <2>2
  <2>. QED BY <2>3, <2>4 DEF Flags
<1>14. on[c] # None => Mood(on[c], n, i + 1)'
  BY <1>2, <1>5, <1>9 DEF Here, Mood, Switching
<1>15. SpinTypeOK'
  BY <1>1, <1>9, <1>12 DEF SpinTypeOK
<1>16. PlaceInv'
  <2>1. \A d \in CPU \ {c} : fl'[d] = fl[d] /\ ncli'[d] = ncli[d] /\ intena'[d] = intena[d]
    BY <1>9, <1>12
  <2>. QED BY <1>1, <1>9, <1>11, <1>13, <1>14, <2>1, PlaceStep
<1>17. LockInv'
  <2>1. ASSUME NEW l \in Locks PROVE Lone(l)'
    <3>1. /\ Owns(n, i, l) <=> Owns(n, i + 1, l)
          /\ Owns(n, i, l) => (Nameless(n, i, l) <=> Nameless(n, i + 1, l))
      BY <1>5 DEF Owns, HasDevice, HasPtable, Nameless
    <3>2. Lone(l) /\ locked'[l] = locked[l] /\ holder'[l] = holder[l]
      BY <1>1, <1>9 DEF LockInv
    <3>. QED BY <1>1, <1>2, <1>9, <1>11, <3>1, <3>2, LockStep
  <2>. QED BY <2>1 DEF LockInv
<1>18. ReadyInv'
  <2>1. Follows(n, i, b, n, i + 1, b)
    BY <1>5 DEF Follows, HasDevice
  <2>. QED BY <1>1, <1>2, <1>9, <1>11, <2>1, ReadyMove
<1>. QED BY <1>1, <1>9, <1>15, <1>16, <1>17, <1>18 DEF SpinInv, NoPanic

LEMMA ScanEndsStep ==
  ASSUME SpinInv, NEW c \in CPU, ScanEnds(c)
  PROVE  SpinInv'
<1>1. SpinTypeOK /\ NoPanic /\ PlaceInv /\ LockInv /\ ReadyInv
  BY DEF SpinInv
<1>2. PICK n, i, b : Here(c, n, i, b)
  BY <1>1 DEF PlaceInv
<1>3. Does(c, "pick")
  BY DEF ScanEnds
<1>4. Where(n, i, "pick", Lock(c)) /\ i \in 1 .. Steps(n) /\ n \in Pieces /\ (on[c] = None <=> Running(c) \in CPU)
  BY <1>1, <1>2, <1>3, DoesIs
<1>5. <<n, i>> \in {<<"scan", 8>>}
  BY <1>4 DEF Where
<1>6. Running(c) \in Thread /\ Stands(code[Running(c)], Running(c), n, i, b) /\ Flags(c, n, i)
  BY <1>1, <1>2, RunningIs DEF Here
<1>7. Running(c) \in CPU /\ b = <<>>
  BY <1>5, <1>6 DEF Stands, Place, Handlers
<1>9. /\ code' = [code EXCEPT ![Running(c)] = ScanCode]
      /\ locked' = locked /\ holder' = holder /\ fl' = fl /\ ncli' = ncli /\ intena' = intena /\ on' = on
      /\ state' = state /\ saved' = saved /\ ready' = ready /\ panicked' = panicked
  BY DEF ScanEnds, Goto, ScanCode, locks, flags, procs
<1>11. Stands(ScanCode, Running(c), "scan", 1, <<>>) /\ ScanCode \in Seq(Item)
  <2>1. Place(Running(c), "scan", 1, <<>>)
    BY <1>7 DEF Place, Handlers, Steps
  <2>2. Whole("scan", <<>>) = ScanCode
    BY NoneBelow DEF Pieces, Piece
  <2>. QED BY <1>6, <2>1, <2>2, StartsAt, ScanCodeIs
<1>12. Calm(n, i, "scan", 1)
  BY <1>5 DEF Calm, Depth, Open, Loose, Switching
<1>13. Flags(c, "scan", 1)'
  BY <1>6, <1>9, <1>12, FlagsStay
<1>14. on[c] # None => Mood(on[c], "scan", 1)'
  BY <1>2, <1>9, <1>12, MoodStays
<1>16. PlaceInv'
  BY <1>1, <1>9, <1>11, <1>13, <1>14, PlaceStep
<1>15. SpinTypeOK'
  BY <1>1, <1>9 DEF SpinTypeOK
<1>17. LockInv'
  <2>1. ASSUME NEW l \in Locks PROVE Lone(l)'
    <3>1. /\ Owns(n, i, l) <=> Owns("scan", 1, l)
          /\ Owns(n, i, l) => (Nameless(n, i, l) <=> Nameless("scan", 1, l))
      BY <1>5 DEF Owns, HasDevice, HasPtable, Nameless
    <3>2. Lone(l) /\ locked'[l] = locked[l] /\ holder'[l] = holder[l]
      BY <1>1, <1>9 DEF LockInv
    <3>. QED BY <1>1, <1>2, <1>9, <1>11, <3>1, <3>2, LockStep
  <2>. QED BY <2>1 DEF LockInv
<1>18. ReadyInv'
  <2>2. b # CallCode
    BY <1>7, CallCodeIs, EmptyIs
  <2>1. Follows(n, i, b, "scan", 1, <<>>)
    BY <1>5, <2>2 DEF Follows, HasDevice
  <2>. QED BY <1>1, <1>2, <1>9, <1>11, <2>1, ReadyMove
<1>. QED BY <1>1, <1>9, <1>15, <1>16, <1>17, <1>18 DEF SpinInv, NoPanic

LEMMA TestStep ==
  ASSUME SpinInv, NEW c \in CPU, Test(c)
  PROVE  SpinInv'
<1>1. SpinTypeOK /\ NoPanic /\ PlaceInv /\ LockInv /\ ReadyInv
  BY DEF SpinInv
<1>2. PICK n, i, b : Here(c, n, i, b)
  BY <1>1 DEF PlaceInv
<1>3. Does(c, "test")
  BY DEF Test
<1>4. Where(n, i, "test", Lock(c)) /\ i \in 1 .. Steps(n) /\ n \in Pieces /\ (on[c] = None <=> Running(c) \in CPU)
  BY <1>1, <1>2, <1>3, DoesIs
<1>5. <<n, i>> \in {<<"call", 4>>, <<"sleep", 16>>}
  BY <1>4 DEF Where
<1>6. Running(c) \in Thread /\ Stands(code[Running(c)], Running(c), n, i, b) /\ Flags(c, n, i)
  BY <1>1, <1>2, RunningIs DEF Here
<1>7. Running(c) \notin CPU /\ b = <<>>
  BY <1>5, <1>6 DEF Stands, Place, Handlers
<1>8. /\ Stands(RetCode, Running(c), "ret", 1, <<>>) /\ RetCode \in Seq(Item)
      /\ Stands(Sleep, Running(c), "sleep", 1, <<>>) /\ Sleep \in Seq(Item)
  <2>1. Place(Running(c), "ret", 1, <<>>) /\ Place(Running(c), "sleep", 1, <<>>)
    BY <1>7 DEF Place, Handlers, Steps
  <2>2. Whole("ret", <<>>) = RetCode /\ Whole("sleep", <<>>) = Sleep
    BY NoneBelow DEF Pieces, Piece
  <2>3. Stands(Whole("ret", <<>>), Running(c), "ret", 1, <<>>)
    BY <1>6, <2>1, StartsAt
  <2>4. Stands(Whole("sleep", <<>>), Running(c), "sleep", 1, <<>>)
    BY <1>6, <2>1, StartsAt
  <2>. QED BY <2>2, <2>3, <2>4, RetCodeIs, SleepIs
<1>20. /\ locked' = locked /\ holder' = holder /\ fl' = fl /\ ncli' = ncli /\ intena' = intena /\ on' = on
       /\ state' = state /\ saved' = saved /\ panicked' = panicked
  BY DEF Test, locks, flags, procs
<1>21. ready \in BOOLEAN
  BY <1>1 DEF SpinTypeOK
<1>22. CASE ready
  <2>9. code' = [code EXCEPT ![Running(c)] = RetCode] /\ ready' = FALSE
    BY <1>22 DEF Test, Goto, RetCode
  <2>11. Stands(RetCode, Running(c), "ret", 1, <<>>) /\ RetCode \in Seq(Item)
    BY <1>8
  <2>12. Calm(n, i, "ret", 1)
    BY <1>5 DEF Calm, Depth, Open, Loose, Switching
  <2>13. Flags(c, "ret", 1)'
    BY <1>6, <1>20, <2>9, <2>12, FlagsStay
  <2>14. on[c] # None => Mood(on[c], "ret", 1)'
    BY <1>2, <1>20, <2>9, <2>12, MoodStays
  <2>16. PlaceInv'
    BY <1>1, <1>20, <2>9, <2>11, <2>13, <2>14, PlaceStep
  <2>15. SpinTypeOK'
    BY <1>1, <1>20, <2>9 DEF SpinTypeOK
  <2>17. LockInv'
    <3>1. ASSUME NEW l \in Locks PROVE Lone(l)'
      <4>1. /\ Owns(n, i, l) <=> Owns("ret", 1, l)
            /\ Owns(n, i, l) => (Nameless(n, i, l) <=> Nameless("ret", 1, l))
        BY <1>5 DEF Owns, HasDevice, HasPtable, Nameless
      <4>2. Lone(l) /\ locked'[l] = locked[l] /\ holder'[l] = holder[l]
        BY <1>1, <1>20, <2>9 DEF LockInv
      <4>. QED BY <1>1, <1>2, <1>20, <2>9, <2>11, <4>1, <4>2, LockStep
    <3>. QED BY <3>1 DEF LockInv
  <2>18. ReadyInv'
    BY <1>1, <1>2, <1>20, <2>9, <2>11, <1>22, ReadyMove
  <2>. QED BY <1>1, <1>20, <2>9, <2>15, <2>16, <2>17, <2>18 DEF SpinInv, NoPanic
<1>23. CASE ~ready
  <2>9. code' = [code EXCEPT ![Running(c)] = Sleep] /\ ready' = ready
    BY <1>23 DEF Test, Goto, RetCode
  <2>11. Stands(Sleep, Running(c), "sleep", 1, <<>>) /\ Sleep \in Seq(Item)
    BY <1>8
  <2>12. Calm(n, i, "sleep", 1)
    BY <1>5 DEF Calm, Depth, Open, Loose, Switching
  <2>13. Flags(c, "sleep", 1)'
    BY <1>6, <1>20, <2>9, <2>12, FlagsStay
  <2>14. on[c] # None => Mood(on[c], "sleep", 1)'
    BY <1>2, <1>20, <2>9, <2>12, MoodStays
  <2>16. PlaceInv'
    BY <1>1, <1>20, <2>9, <2>11, <2>13, <2>14, PlaceStep
  <2>15. SpinTypeOK'
    BY <1>1, <1>20, <2>9 DEF SpinTypeOK
  <2>17. LockInv'
    <3>1. ASSUME NEW l \in Locks PROVE Lone(l)'
      <4>1. /\ Owns(n, i, l) <=> Owns("sleep", 1, l)
            /\ Owns(n, i, l) => (Nameless(n, i, l) <=> Nameless("sleep", 1, l))
        BY <1>5 DEF Owns, HasDevice, HasPtable, Nameless
      <4>2. Lone(l) /\ locked'[l] = locked[l] /\ holder'[l] = holder[l]
        BY <1>1, <1>20, <2>9 DEF LockInv
      <4>. QED BY <1>1, <1>2, <1>20, <2>9, <2>11, <4>1, <4>2, LockStep
    <3>. QED BY <3>1 DEF LockInv
  <2>18. ReadyInv'
    BY <1>1, <1>2, <1>20, <2>9, <2>11, <1>23, ReadyMove
  <2>. QED BY <1>1, <1>20, <2>9, <2>15, <2>16, <2>17, <2>18 DEF SpinInv, NoPanic
<1>. QED BY <1>21, <1>22, <1>23

(* What an interrupt finds that has yet to test.                               *)
LEMMA FoundTest ==
  ASSUME NEW s, NEW t \in Thread, NEW n, NEW i, NEW b, Stands(s, t, n, i, b), Open(n, i) \/ Loose(n, i),
         n \in {"call", "sleep"} \/ b = CallCode
  PROVE  s = CallCode
<1>1. s \in Below(t)
  BY Found
<1>2. s \in Bottoms
  BY <1>1 DEF Below, Bottoms
<1>3. In(s, "test")
  BY HasIs
<1>4. PICK m \in 1 .. Len(s) : s[m][1] = "test"
  BY <1>3 DEF In
<1>. QED BY <1>2, <1>4, BottomOps

LEMMA DeviceInterruptStep ==
  ASSUME SpinInv, NEW c \in CPU, DeviceInterrupt(c)
  PROVE  SpinInv'
<1>. DEFINE old == code[Running(c)]
            new == Handler \o Do("iret") \o old
<1>1. SpinTypeOK /\ NoPanic /\ PlaceInv /\ LockInv /\ ReadyInv
  BY DEF SpinInv
<1>2. PICK n, i, b : Here(c, n, i, b)
  BY <1>1 DEF PlaceInv
<1>6. Running(c) \in Thread /\ Stands(old, Running(c), n, i, b) /\ Flags(c, n, i)
  BY <1>1, <1>2, RunningIs DEF Here
<1>9. /\ fl[c] /\ fl' = [fl EXCEPT ![c] = FALSE]
      /\ code' = [code EXCEPT ![Running(c)] = new]
      /\ locked' = locked /\ holder' = holder /\ ncli' = ncli /\ intena' = intena /\ on' = on /\ state' = state
      /\ saved' = saved /\ ready' = ready /\ panicked' = panicked
  BY DEF DeviceInterrupt, Interrupt, Goto, locks, procs
<1>. HIDE DEF new
<1>7. Open(n, i) \/ Loose(n, i)
  BY <1>6, <1>9 DEF Flags
<1>11. Stands(new, Running(c), "device", 1, old) /\ new \in Seq(Item)
  <2>1. Stands(new, Running(c), "device", 1, old)
    BY <1>6, <1>7, Interrupted DEF new
  <2>. QED BY <1>6, <2>1, StandsIs
<1>12. fl \in [CPU -> BOOLEAN] /\ fl'[c] = FALSE
  BY <1>1, <1>9 DEF SpinTypeOK
<1>13. Flags(c, "device", 1)'
  <2>1. Depth(n, i) = 0 /\ Depth("device", 1) = 0 /\ Open("device", 1) = FALSE
    BY <1>7 DEF Depth, Open, Loose
  <2>2. ncli'[c] = 0 /\ fl'[c] = Open("device", 1)
    BY <1>6, <1>9, <1>12, <2>1 DEF Flags
  <2>. QED BY <2>1, <2>2 DEF Flags
<1>14. on[c] # None => Mood(on[c], "device", 1)'
  BY <1>2, <1>7, <1>9 DEF Here, Mood, Switching, Open, Loose
<1>15. SpinTypeOK'
  BY <1>1, <1>9, <1>12 DEF SpinTypeOK
<1>16. PlaceInv'
  <2>1. \A d \in CPU \ {c} : fl'[d] = fl[d] /\ ncli'[d] = ncli[d] /\ intena'[d] = intena[d]
    BY <1>9, <1>12
  <2>. QED BY <1>1, <1>9, <1>11, <1>13, <1>14, <2>1, PlaceStep
<1>17. LockInv'
  <2>1. ASSUME NEW l \in Locks PROVE Lone(l)'
    <3>1. /\ Owns(n, i, l) <=> Owns("device", 1, l)
          /\ Owns(n, i, l) => (Nameless(n, i, l) <=> Nameless("device", 1, l))
      BY <1>7 DEF Open, Loose, Owns, HasDevice, HasPtable, Nameless
    <3>2. Lone(l) /\ locked'[l] = locked[l] /\ holder'[l] = holder[l]
      BY <1>1, <1>9 DEF LockInv
    <3>. QED BY <1>1, <1>2, <1>9, <1>11, <3>1, <3>2, LockStep
  <2>. QED BY <2>1 DEF LockInv
<1>18. ReadyInv'
  <2>1. n \in {"call", "sleep"} \/ b = CallCode => old = CallCode
    BY <1>6, <1>7, FoundTest
  <2>2. Follows(n, i, b, "device", 1, old)
    BY <1>7, <2>1 DEF Follows, Open, Loose
  <2>. QED BY <1>1, <1>2, <1>9, <1>11, <2>2, ReadyMove
<1>. QED BY <1>1, <1>9, <1>15, <1>16, <1>17, <1>18 DEF SpinInv, NoPanic

LEMMA TimerInterruptStep ==
  ASSUME SpinInv, NEW c \in CPU, TimerInterrupt(c)
  PROVE  SpinInv'
<1>. DEFINE old == code[Running(c)]
            new == Yield \o Do("iret") \o old
<1>1. SpinTypeOK /\ NoPanic /\ PlaceInv /\ LockInv /\ ReadyInv
  BY DEF SpinInv
<1>2. PICK n, i, b : Here(c, n, i, b)
  BY <1>1 DEF PlaceInv
<1>6. Running(c) \in Thread /\ Stands(old, Running(c), n, i, b) /\ Flags(c, n, i)
  BY <1>1, <1>2, RunningIs DEF Here
<1>9. /\ fl[c] /\ fl' = [fl EXCEPT ![c] = FALSE]
      /\ code' = [code EXCEPT ![Running(c)] = new]
      /\ locked' = locked /\ holder' = holder /\ ncli' = ncli /\ intena' = intena /\ on' = on /\ state' = state
      /\ saved' = saved /\ ready' = ready /\ panicked' = panicked
  BY DEF TimerInterrupt, Interrupt, Goto, locks, procs
<1>. HIDE DEF new
<1>7. Open(n, i) \/ Loose(n, i)
  BY <1>6, <1>9 DEF Flags
<1>8. Running(c) \notin CPU
  BY <1>1, RunningIs DEF TimerInterrupt
<1>11. Stands(new, Running(c), "timer", 1, old) /\ new \in Seq(Item)
  <2>1. Stands(new, Running(c), "timer", 1, old)
    BY <1>6, <1>7, <1>8, Interrupted DEF new
  <2>. QED BY <1>6, <2>1, StandsIs
<1>12. fl \in [CPU -> BOOLEAN] /\ fl'[c] = FALSE
  BY <1>1, <1>9 DEF SpinTypeOK
<1>13. Flags(c, "timer", 1)'
  <2>1. Depth(n, i) = 0 /\ Depth("timer", 1) = 0 /\ Open("timer", 1) = FALSE
    BY <1>7 DEF Depth, Open, Loose
  <2>2. ncli'[c] = 0 /\ fl'[c] = Open("timer", 1)
    BY <1>6, <1>9, <1>12, <2>1 DEF Flags
  <2>. QED BY <2>1, <2>2 DEF Flags
<1>14. on[c] # None => Mood(on[c], "timer", 1)'
  BY <1>2, <1>7, <1>9 DEF Here, Mood, Switching, Open, Loose
<1>15. SpinTypeOK'
  BY <1>1, <1>9, <1>12 DEF SpinTypeOK
<1>16. PlaceInv'
  <2>1. \A d \in CPU \ {c} : fl'[d] = fl[d] /\ ncli'[d] = ncli[d] /\ intena'[d] = intena[d]
    BY <1>9, <1>12
  <2>. QED BY <1>1, <1>9, <1>11, <1>13, <1>14, <2>1, PlaceStep
<1>17. LockInv'
  <2>1. ASSUME NEW l \in Locks PROVE Lone(l)'
    <3>1. /\ Owns(n, i, l) <=> Owns("timer", 1, l)
          /\ Owns(n, i, l) => (Nameless(n, i, l) <=> Nameless("timer", 1, l))
      BY <1>7 DEF Open, Loose, Owns, HasDevice, HasPtable, Nameless
    <3>2. Lone(l) /\ locked'[l] = locked[l] /\ holder'[l] = holder[l]
      BY <1>1, <1>9 DEF LockInv
    <3>. QED BY <1>1, <1>2, <1>9, <1>11, <3>1, <3>2, LockStep
  <2>. QED BY <2>1 DEF LockInv
<1>18. ReadyInv'
  <2>1. n \in {"call", "sleep"} \/ b = CallCode => old = CallCode
    BY <1>6, <1>7, FoundTest
  <2>2. Follows(n, i, b, "timer", 1, old)
    BY <1>7, <2>1 DEF Follows, Open, Loose
  <2>. QED BY <1>1, <1>2, <1>9, <1>11, <2>2, ReadyMove
<1>. QED BY <1>1, <1>9, <1>15, <1>16, <1>17, <1>18 DEF SpinInv, NoPanic

LEMMA SyscallStep ==
  ASSUME SpinInv, NEW c \in CPU, Syscall(c)
  PROVE  SpinInv'
<1>1. SpinTypeOK /\ NoPanic /\ PlaceInv /\ LockInv /\ ReadyInv
  BY DEF SpinInv
<1>2. PICK n, i, b : Here(c, n, i, b)
  BY <1>1 DEF PlaceInv
<1>6. Running(c) \in Thread /\ Stands(code[Running(c)], Running(c), n, i, b) /\ Flags(c, n, i)
  BY <1>1, <1>2, RunningIs DEF Here
<1>7. on[c] # None /\ code[Running(c)] = <<>> /\ Running(c) \notin CPU
  BY <1>1, RunningIs DEF Syscall
<1>5. <<n, i>> \in {<<"ret", 5>>, <<"fork", 5>>} /\ b = <<>>
  <2>1. n \in Pieces /\ i \in 1 .. Steps(n) + 1
    BY <1>6, StandsIs
  <2>2. /\ i <= Steps(n) => /\ code[Running(c)] # <<>> /\ Head(code[Running(c)]) = Piece(n)[i]
                            /\ Tail(code[Running(c)]) = SubSeq(Whole(n, b), i + 1, Len(Whole(n, b)))
        /\ i > Steps(n) => code[Running(c)] = <<>>
    BY <1>6, NextOf
  <2>3. Steps(n) \in 4 .. 16
    BY <2>1, PieceIs
  <2>4. i > Steps(n)
    BY <1>7, <2>1, <2>2, <2>3
  <2>. QED BY <1>6, <2>1, <2>3, <2>4 DEF Stands, Place, Handlers
<1>9. /\ code' = [code EXCEPT ![Running(c)] = CallCode]
      /\ locked' = locked /\ holder' = holder /\ fl' = fl /\ ncli' = ncli /\ intena' = intena /\ on' = on
      /\ state' = state /\ saved' = saved /\ ready' = ready /\ panicked' = panicked
  BY DEF Syscall, Goto, CallCode, locks, flags, procs
<1>11. Stands(CallCode, Running(c), "call", 1, <<>>) /\ CallCode \in Seq(Item)
  <2>1. Place(Running(c), "call", 1, <<>>)
    BY <1>7 DEF Place, Handlers, Steps
  <2>2. Whole("call", <<>>) = CallCode
    BY NoneBelow DEF Pieces, Piece
  <2>. QED BY <1>6, <2>1, <2>2, StartsAt, CallCodeIs
<1>12. Calm(n, i, "call", 1)
  BY <1>5 DEF Calm, Depth, Open, Loose, Switching
<1>13. Flags(c, "call", 1)'
  BY <1>6, <1>9, <1>12, FlagsStay
<1>14. on[c] # None => Mood(on[c], "call", 1)'
  BY <1>2, <1>9, <1>12, MoodStays
<1>16. PlaceInv'
  BY <1>1, <1>9, <1>11, <1>13, <1>14, PlaceStep
<1>15. SpinTypeOK'
  BY <1>1, <1>9 DEF SpinTypeOK
<1>17. LockInv'
  <2>1. ASSUME NEW l \in Locks PROVE Lone(l)'
    <3>1. /\ Owns(n, i, l) <=> Owns("call", 1, l)
          /\ Owns(n, i, l) => (Nameless(n, i, l) <=> Nameless("call", 1, l))
      BY <1>5 DEF Owns, HasDevice, HasPtable, Nameless
    <3>2. Lone(l) /\ locked'[l] = locked[l] /\ holder'[l] = holder[l]
      BY <1>1, <1>9 DEF LockInv
    <3>. QED BY <1>1, <1>2, <1>9, <1>11, <3>1, <3>2, LockStep
  <2>. QED BY <2>1 DEF LockInv
<1>18. ReadyInv'
  <2>1. Follows(n, i, b, "call", 1, <<>>)
    BY <1>5 DEF Follows, HasDevice
  <2>. QED BY <1>1, <1>2, <1>9, <1>11, <2>1, ReadyMove
<1>. QED BY <1>1, <1>9, <1>15, <1>16, <1>17, <1>18 DEF SpinInv, NoPanic

LEMMA IretStep ==
  ASSUME SpinInv, NEW c \in CPU, Iret(c)
  PROVE  SpinInv'
<1>1. SpinTypeOK /\ NoPanic /\ PlaceInv /\ LockInv /\ ReadyInv
  BY DEF SpinInv
<1>2. PICK n, i, b : Here(c, n, i, b)
  BY <1>1 DEF PlaceInv
<1>6. Running(c) \in Thread /\ Stands(code[Running(c)], Running(c), n, i, b) /\ Flags(c, n, i)
  BY <1>1, <1>2, RunningIs DEF Here
<1>9. /\ fl' = [fl EXCEPT ![c] = TRUE]
      /\ code' = [code EXCEPT ![Running(c)] = Rest(c)]
      /\ locked' = locked /\ holder' = holder /\ ncli' = ncli /\ intena' = intena /\ on' = on /\ state' = state
      /\ saved' = saved /\ ready' = ready /\ panicked' = panicked
  BY DEF Iret, Goto, locks, procs
<1>5. /\ <<n, i>> \in {<<"ret", 4>>, <<"fork", 4>>, <<"device", 15>>, <<"timer", 10>>}
      /\ n \in Pieces
  <2>1. CASE Does(c, "ret")
    <3>1. Where(n, i, "ret", Lock(c)) /\ n \in Pieces
      BY <1>1, <1>2, <2>1, DoesIs
    <3>. QED BY <3>1 DEF Where
  <2>2. CASE Does(c, "iret")
    <3>1. Where(n, i, "iret", Lock(c)) /\ n \in Pieces
      BY <1>1, <1>2, <2>2, DoesIs
    <3>. QED BY <3>1 DEF Where
  <2>. QED BY <2>1, <2>2 DEF Iret
<1>7. \E m, j, f :
         /\ Stands(Rest(c), Running(c), m, j, f) /\ Rest(c) \in Seq(Item)
         /\ <<m, j>> \in {<<"ret", 5>>, <<"fork", 5>>, <<"ret", 4>>, <<"call", 1>>, <<"scan", 4>>, <<"scan", 5>>}
         /\ b = CallCode => m = "call"
  <2>1. CASE <<n, i>> \in {<<"ret", 4>>, <<"fork", 4>>}
    <3>1. Stands(Rest(c), Running(c), n, i + 1, b) /\ Rest(c) \in Seq(Item)
      BY <1>1, <1>2, <2>1, Advances
    <3>2. b = <<>> /\ b # CallCode
      BY <1>6, <2>1, CallCodeIs, EmptyIs DEF Stands, Place, Handlers
    <3>3. <<n, i + 1>> \in {<<"ret", 5>>, <<"fork", 5>>}
      BY <2>1
    <3>. QED BY <3>1, <3>2, <3>3
  <2>2. CASE <<n, i>> \in {<<"device", 15>>, <<"timer", 10>>}
    <3>1. n \in Handlers /\ i = Steps(n)
      BY <2>2 DEF Handlers, Steps
    <3>2. Rest(c) = b /\ b \in Below(Running(c))
      BY <1>6, <3>1, Ends DEF Rest
    <3>3. PICK m, j : Stands(b, Running(c), m, j, <<>>) /\ <<m, j>> \in
             {<<"ret", 5>>, <<"ret", 4>>, <<"call", 1>>, <<"scan", 4>>, <<"scan", 5>>}
      BY <1>6, <3>2, Returns
    <3>4. b \in Seq(Item)
      BY <1>6, <3>3, StandsIs
    <3>5. b = CallCode => m = "call"
      <4>1. SUFFICES ASSUME b = CallCode PROVE m = "call"
        OBVIOUS
      <4>2. In(b, "test") <=> m \in {"call", "sleep"} \/ <<>> = CallCode
        BY <1>6, <3>3, HasIs
      <4>3. 4 \in 1 .. Len(b) /\ b[4][1] = "test"
        <5>1. Len(CallCode) = 4 /\ CallCode[4] = <<"test", "none">>
          BY CallCodeIs
        <5>2. 4 \in 1 .. Len(CallCode) /\ CallCode[4][1] = "test"
          BY <5>1
        <5>. QED BY <4>1, <5>2
      <4>4. In(b, "test") /\ <<>> # CallCode
        BY <4>3, CallCodeIs, EmptyIs DEF In
      <4>. QED BY <3>3, <4>2, <4>4
    <3>. QED BY <3>2, <3>3, <3>4, <3>5
  <2>. QED BY <1>5, <2>1, <2>2
<1>11. PICK m, j, f :
         /\ Stands(Rest(c), Running(c), m, j, f) /\ Rest(c) \in Seq(Item)
         /\ <<m, j>> \in {<<"ret", 5>>, <<"fork", 5>>, <<"ret", 4>>, <<"call", 1>>, <<"scan", 4>>, <<"scan", 5>>}
         /\ b = CallCode => m = "call"
  BY <1>7
<1>12. fl \in [CPU -> BOOLEAN] /\ fl'[c] = TRUE
  BY <1>1, <1>9 DEF SpinTypeOK
<1>13. Flags(c, m, j)'
  <2>1. Depth(n, i) = 0 /\ Depth(m, j) = 0 /\ (~Loose(m, j) => Open(m, j) = TRUE)
    BY <1>5, <1>11 DEF Depth, Open, Loose
  <2>2. ncli'[c] = 0 /\ (~Loose(m, j) => fl'[c] = Open(m, j))
    BY <1>6, <1>9, <1>12, <2>1 DEF Flags
  <2>. QED BY <2>1, <2>2 DEF Flags
<1>14. on[c] # None => Mood(on[c], m, j)'
  BY <1>2, <1>5, <1>9, <1>11 DEF Here, Mood, Switching
<1>15. SpinTypeOK'
  BY <1>1, <1>9, <1>12 DEF SpinTypeOK
<1>16. PlaceInv'
  <2>1. \A d \in CPU \ {c} : fl'[d] = fl[d] /\ ncli'[d] = ncli[d] /\ intena'[d] = intena[d]
    BY <1>9, <1>12
  <2>. QED BY <1>1, <1>9, <1>11, <1>13, <1>14, <2>1, PlaceStep
<1>17. LockInv'
  <2>1. ASSUME NEW l \in Locks PROVE Lone(l)'
    <3>1. /\ Owns(n, i, l) <=> Owns(m, j, l)
          /\ Owns(n, i, l) => (Nameless(n, i, l) <=> Nameless(m, j, l))
      BY <1>5, <1>11 DEF Owns, HasDevice, HasPtable, Nameless
    <3>2. Lone(l) /\ locked'[l] = locked[l] /\ holder'[l] = holder[l]
      BY <1>1, <1>9 DEF LockInv
    <3>. QED BY <1>1, <1>2, <1>9, <1>11, <3>1, <3>2, LockStep
  <2>. QED BY <2>1 DEF LockInv
<1>18. ReadyInv'
  <2>1. Follows(n, i, b, m, j, f)
    BY <1>5, <1>11 DEF Follows
  <2>. QED BY <1>1, <1>2, <1>9, <1>11, <2>1, ReadyMove
<1>. QED BY <1>1, <1>9, <1>15, <1>16, <1>17, <1>18 DEF SpinInv, NoPanic

(* Both sides of a swtch have interrupts off once.                             *)
LEMMA SwitchFlags ==
  /\ \A n, i : <<n, i>> \in {<<"sleep", 8>>, <<"timer", 5>>, <<"scan", 8>>, <<"sleep", 9>>, <<"timer", 6>>, <<"fork", 1>>} =>
       Depth(n, i) = 1 /\ ~Loose(n, i) /\ Open(n, i) = FALSE
  /\ Depth("scan", 8) = 1 /\ ~Loose("scan", 8) /\ Open("scan", 8) = FALSE
<1>1. ASSUME NEW n, NEW i,
             <<n, i>> \in {<<"sleep", 8>>, <<"timer", 5>>, <<"scan", 8>>, <<"sleep", 9>>, <<"timer", 6>>, <<"fork", 1>>}
      PROVE  Depth(n, i) = 1 /\ ~Loose(n, i) /\ Open(n, i) = FALSE
  <2>1. \/ n = "sleep" /\ i \in {8, 9}
        \/ n = "timer" /\ i \in {5, 6}
        \/ n = "scan" /\ i = 8
        \/ n = "fork" /\ i = 1
    BY <1>1
  <2>2. Depth(n, i) = 1
    BY <2>1 DEF Depth
  <2>3. ~Loose(n, i)
    BY <2>1 DEF Loose
  <2>4. Open(n, i) = FALSE
    BY <2>1 DEF Open
  <2>. QED BY <2>2, <2>3, <2>4
<1>2. Depth("scan", 8) = 1
  BY DEF Depth
<1>3. ~Loose("scan", 8)
  BY DEF Loose
<1>4. Open("scan", 8) = FALSE
  BY DEF Open
<1>. QED BY <1>1, <1>2, <1>3, <1>4

LEMMA SetStateStep ==
  ASSUME SpinInv, NEW c \in CPU, SetState(c)
  PROVE  SpinInv'
<1>1. SpinTypeOK /\ NoPanic /\ PlaceInv /\ LockInv /\ ReadyInv
  BY DEF SpinInv
<1>2. PICK n, i, b : Here(c, n, i, b)
  BY <1>1 DEF PlaceInv
<1>6. Running(c) \in Thread /\ Stands(code[Running(c)], Running(c), n, i, b) /\ Flags(c, n, i)
  BY <1>1, <1>2, RunningIs DEF Here
<1>5. \/ <<n, i>> = <<"sleep", 7>> /\ Does(c, "sleep")
      \/ <<n, i>> = <<"timer", 4>> /\ ~Does(c, "sleep")
  <2>1. CASE Does(c, "sleep")
    <3>1. Where(n, i, "sleep", Lock(c))
      BY <1>1, <1>2, <2>1, DoesIs
    <3>. QED BY <2>1, <3>1 DEF Where
  <2>2. CASE Does(c, "yield")
    <3>1. Where(n, i, "yield", Lock(c))
      BY <1>1, <1>2, <2>2, DoesIs
    <3>2. ~Does(c, "sleep")
      BY <2>2 DEF Does
    <3>. QED BY <3>1, <3>2 DEF Where
  <2>. QED BY <2>1, <2>2 DEF SetState
<1>7. on[c] # None /\ on[c] \in Process /\ Running(c) = on[c] /\ Mood(on[c], n, i)
  <2>1. Running(c) \notin CPU
    BY <1>5, <1>6 DEF Stands, Place
  <2>. QED BY <1>1, <1>2, <2>1, RunningIs DEF Here
<1>9. /\ state' = [state EXCEPT ![on[c]] = IF Does(c, "sleep") THEN "SLEEPING" ELSE "RUNNABLE"]
      /\ code' = [code EXCEPT ![Running(c)] = Rest(c)]
      /\ locked' = locked /\ holder' = holder /\ fl' = fl /\ ncli' = ncli /\ intena' = intena /\ on' = on
      /\ saved' = saved /\ ready' = ready /\ panicked' = panicked
  BY DEF SetState, Goto, locks, flags
<1>10. i < Steps(n)
  BY <1>5 DEF Steps
<1>11. Stands(Rest(c), Running(c), n, i + 1, b) /\ Rest(c) \in Seq(Item)
  BY <1>1, <1>2, <1>10, Advances
<1>12. state \in [Process -> {"RUNNABLE", "RUNNING", "SLEEPING"}] /\ state[on[c]] = "RUNNING"
  BY <1>1, <1>5, <1>7 DEF SpinTypeOK, Mood, Switching
<1>13. Flags(c, n, i + 1)'
  <2>1. Depth(n, i + 1) = 1 /\ ~Loose(n, i + 1) /\ Open(n, i + 1) = FALSE
    <3>1. <<n, i + 1>> \in {<<"sleep", 8>>, <<"timer", 5>>}
      BY <1>5
    <3>. QED BY <3>1, SwitchFlags
  <2>2. (n = "sleep" /\ i = 7) \/ (n = "timer" /\ i = 4)
    BY <1>5
  <2>3. Depth(n, i) = 1 /\ ~Loose(n, i) /\ Open(n, i) = FALSE
    <3>1. Depth(n, i) = 1
      BY <2>2 DEF Depth
    <3>2. ~Loose(n, i)
      BY <2>2 DEF Loose
    <3>3. Open(n, i) = FALSE
      BY <2>2 DEF Open
    <3>. QED BY <3>1, <3>2, <3>3
  <2>4. ncli[c] = 1 /\ fl[c] = FALSE
    BY <1>6, <2>3 DEF Flags
  <2>5. (n = "sleep" => intena[c]) /\ (n = "timer" => ~intena[c])
    BY <1>6, <2>2, <2>3 DEF Flags
  <2>6. ncli'[c] = Depth(n, i + 1) /\ fl'[c] = Open(n, i + 1)
    BY <1>9, <2>1, <2>4
  <2>7. (n = "sleep" => intena'[c]) /\ (n = "timer" => ~intena'[c]) /\ n # "call" /\ n # "device"
    BY <1>9, <2>2, <2>5
  <2>. QED BY <2>6, <2>7 DEF Flags
<1>14. Mood(on[c], n, i + 1)'
  BY <1>5, <1>7, <1>9, <1>12 DEF Mood, Switching
<1>15. SpinTypeOK'
  BY <1>1, <1>9, <1>12 DEF SpinTypeOK
<1>16. PlaceInv'
  <2>1. \A p \in Process : p # on[c] => ((state'[p] = "RUNNING") <=> (state[p] = "RUNNING"))
    BY <1>9, <1>12
  <2>. QED BY <1>1, <1>9, <1>11, <1>13, <1>14, <2>1, PlaceStep
<1>17. LockInv'
  <2>1. ASSUME NEW l \in Locks PROVE Lone(l)'
    <3>1. /\ Owns(n, i, l) <=> Owns(n, i + 1, l)
          /\ Owns(n, i, l) => (Nameless(n, i, l) <=> Nameless(n, i + 1, l))
      BY <1>5 DEF Owns, HasDevice, HasPtable, Nameless
    <3>2. Lone(l) /\ locked'[l] = locked[l] /\ holder'[l] = holder[l]
      BY <1>1, <1>9 DEF LockInv
    <3>. QED BY <1>1, <1>2, <1>9, <1>11, <3>1, <3>2, LockStep
  <2>. QED BY <2>1 DEF LockInv
<1>18. ReadyInv'
  <2>1. CASE <<n, i>> = <<"timer", 4>> /\ ~Does(c, "sleep")
    <3>1. Follows(n, i, b, n, i + 1, b)
      BY <2>1 DEF Follows
    <3>2. \A p \in Process : (state'[p] = "SLEEPING") <=> (state[p] = "SLEEPING")
      BY <1>9, <1>12, <2>1
    <3>. QED BY <1>1, <1>2, <1>9, <1>11, <3>1, <3>2, ReadyMove
  <2>2. CASE <<n, i>> = <<"sleep", 7>>
    <3>. DEFINE t == Running(c)
    <3>. SUFFICES ASSUME ready' PROVE ReadyInv'
      BY DEF ReadyInv, NoLostWakeup
    <3>1. t \in Thread /\ code \in [Thread -> Seq(Item)] /\ t \in Process
      BY <1>1, <1>6, <1>7 DEF PlaceInv
    <3>2. code'[t] = Rest(c) /\ \A u \in Thread : u # t => code'[u] = code[u]
      BY <1>9, <3>1
    <3>3. Stands(code[t], t, "sleep", 7, b) /\ Stands(Rest(c), t, "sleep", 8, b)
      BY <1>6, <1>11, <2>2
    <3>4. In(code[t], "sleep") /\ ~In(code[t], "wakeup1")
      <4>1. /\ In(code[t], "sleep") <=> "sleep" = "sleep" /\ 7 <= 7
            /\ In(code[t], "wakeup1") <=> "sleep" = "device" /\ 7 <= 8
        BY <3>1, <3>3, HasIs
      <4>. QED BY <4>1
    <3>5. ~In(Rest(c), "sleep")
      <4>1. In(Rest(c), "sleep") <=> "sleep" = "sleep" /\ 8 <= 7
        BY <3>1, <3>3, HasIs
      <4>. QED BY <4>1
    <3>6. Pending
      BY <1>1, <1>9, <3>1, <3>4, HasOf DEF ReadyInv
    <3>7. Pending'
      <4>1. PICK u \in Thread : Has(u, "wakeup1") /\ ~Has(u, "event")
        BY <3>6 DEF Pending
      <4>2. code'[u] = code[u]
        BY <3>2, <3>4, <4>1, HasOf
      <4>3. Has(u, "wakeup1")' /\ ~Has(u, "event")'
        BY <4>1, <4>2, HasOf, HasNext
      <4>. QED BY <4>3 DEF Pending
    <3>8. ASSUME NEW p \in Process, Has(p, "sleep")' PROVE ~Guards(code'[p], "device")
      <4>1. In(code'[p], "sleep") /\ p \in Thread
        BY <3>8, HasNext DEF Thread
      <4>2. code'[p] = code[p]
        BY <3>2, <3>5, <4>1
      <4>. QED BY <1>1, <1>9, <4>1, <4>2, HasOf DEF ReadyInv
    <3>9. NoLostWakeup'
      BY <3>7 DEF NoLostWakeup, Pending
    <3>. QED BY <3>7, <3>8, <3>9 DEF ReadyInv
  <2>. QED BY <1>5, <2>1, <2>2
<1>. QED BY <1>1, <1>9, <1>15, <1>16, <1>17, <1>18 DEF SpinInv, NoPanic

LEMMA LastOfScan == SubSeq(ScanCode, 8, Len(ScanCode)) = Do("pick")
<1>. DEFINE g == ScanCode
            u == Do("pick")
<1>1. /\ g \in Seq(Item) /\ Len(g) = 8
      /\ u \in Seq(Item) /\ Len(u) = 1 /\ u[1] = g[8]
  BY ScanCodeIs, DoIs DEF Op
<1>. HIDE DEF g, u
<1>2. 8 \in 1 .. Len(g) + 1 /\ Len(u) = Len(g) + 1 - 8
  BY <1>1
<1>3. ASSUME NEW k \in 1 .. Len(u) PROVE u[k] = g[8 + k - 1]
  <2>1. k = 1 /\ 8 + k - 1 = 8
    BY <1>1
  <2>. QED BY <1>1, <2>1
<1>4. SubSeq(g, 8, Len(g)) = u
  BY <1>1, <1>2, <1>3, SuffixIs
<1>. QED BY <1>4 DEF g, u

(* The scheduler in its scan.                                                  *)
LEMMA PickIs ==
  ASSUME NEW c \in CPU
  PROVE  Stands(Do("pick"), c, "scan", 8, <<>>)
<1>1. Place(c, "scan", 8, <<>>)
  BY DEF Place, Handlers, Steps
<1>2. Whole("scan", <<>>) = ScanCode
  BY NoneBelow DEF Pieces, Piece
<1>. QED BY <1>1, <1>2, LastOfScan DEF Stands

LEMMA SchedStep ==
  ASSUME SpinInv, NEW c \in CPU, Sched(c)
  PROVE  SpinInv'
<1>1. SpinTypeOK /\ NoPanic /\ PlaceInv /\ LockInv /\ ReadyInv
  BY DEF SpinInv
<1>2. PICK n, i, b : Here(c, n, i, b)
  BY <1>1 DEF PlaceInv
<1>3. Does(c, "sched")
  BY DEF Sched
<1>4. Where(n, i, "sched", Lock(c))
  BY <1>1, <1>2, <1>3, DoesIs
<1>5. <<n, i>> \in {<<"sleep", 8>>, <<"timer", 5>>}
  BY <1>4 DEF Where
<1>6. Running(c) \in Thread /\ Stands(code[Running(c)], Running(c), n, i, b) /\ Flags(c, n, i)
  BY <1>1, <1>2, RunningIs DEF Here
<1>7. on[c] # None /\ on[c] \in Process /\ Running(c) = on[c] /\ Mood(on[c], n, i)
  <2>1. Running(c) \notin CPU
    BY <1>5, <1>6 DEF Stands, Place
  <2>. QED BY <1>1, <1>2, <2>1, RunningIs DEF Here
<1>20. /\ ncli[c] = 1 /\ fl[c] = FALSE /\ state[on[c]] # "RUNNING"
       /\ n = "sleep" => intena[c]
       /\ n = "timer" => ~intena[c]
  <2>1. Depth(n, i) = 1 /\ ~Loose(n, i) /\ Open(n, i) = FALSE
    BY <1>5, SwitchFlags
  <2>2. ncli[c] = Depth(n, i) /\ fl[c] = Open(n, i)
    BY <1>6, <2>1 DEF Flags
  <2>3. state[on[c]] # "RUNNING"
    BY <1>5, <1>7 DEF Mood, Switching
  <2>4. (n = "sleep" /\ i # 9 => intena[c]) /\ (n = "timer" /\ i # 6 => ~intena[c])
    BY <1>6, <2>1 DEF Flags
  <2>. QED BY <1>5, <2>1, <2>2, <2>3, <2>4
<1>8. ~SchedPanics(c)
  <2>1. Lone("ptable")
    BY <1>1, LocksAre DEF LockInv
  <2>2. Owns(n, i, "ptable") /\ ~Nameless(n, i, "ptable")
    BY <1>5 DEF Owns, HasPtable, Nameless
  <2>3. Holding(c, "ptable")
    BY <1>1, <1>2, <2>1, <2>2, LocksAre, HoldsIs DEF Holding
  <2>. QED BY <1>20, <2>3 DEF SchedPanics
<1>9. /\ saved' = [saved EXCEPT ![on[c]] = intena[c]] /\ on' = [on EXCEPT ![c] = None]
      /\ code' = [code EXCEPT ![Running(c)] = Rest(c)]
      /\ locked' = locked /\ holder' = holder /\ fl' = fl /\ ncli' = ncli /\ intena' = intena
      /\ state' = state /\ ready' = ready /\ panicked' = panicked
  BY <1>8 DEF Sched, Goto, locks, flags
<1>10. i < Steps(n)
  BY <1>5 DEF Steps
<1>11. Stands(Rest(c), Running(c), n, i + 1, b) /\ Rest(c) \in Seq(Item)
  BY <1>1, <1>2, <1>10, Advances
<1>12. /\ on \in [CPU -> Process \cup {None}] /\ saved \in [Process -> BOOLEAN] /\ intena \in [CPU -> BOOLEAN]
       /\ code \in [Thread -> Seq(Item)]
  BY <1>1 DEF SpinTypeOK, PlaceInv
<1>13. /\ on'[c] = None /\ \A d \in CPU : d # c => on'[d] = on[d]
       /\ saved'[on[c]] = intena[c] /\ \A p \in Process : p # on[c] => saved'[p] = saved[p]
       /\ code'[on[c]] = Rest(c) /\ \A t \in Thread : t # on[c] => code'[t] = code[t]
  BY <1>6, <1>7, <1>9, <1>12
<1>14. \A d \in CPU : /\ d # on[c] /\ d \in Thread
                      /\ d # c => Running(d) # on[c] /\ Running(d) \in Thread /\ Running(d)' = Running(d)
                                  /\ (on[d] # None => on[d] # on[c] /\ on[d] \in Process)
  <2>1. SUFFICES ASSUME NEW d \in CPU
                 PROVE  /\ d # on[c] /\ d \in Thread
                        /\ d # c => Running(d) # on[c] /\ Running(d) \in Thread /\ Running(d)' = Running(d)
                                    /\ (on[d] # None => on[d] # on[c] /\ on[d] \in Process)
    OBVIOUS
  <2>2. d # on[c] /\ d \in Thread
    BY <1>7, NoneAssumption DEF Thread
  <2>3. ASSUME d # c PROVE Running(d) # on[c] /\ Running(d) \in Thread /\ Running(d)' = Running(d)
    <3>1. Running(d) # on[c] /\ Running(d) \in Thread
      BY <1>1, <1>7, <2>3, Others, RunningIs
    <3>2. Running(d)' = Running(d)
      BY <1>13, <2>3 DEF Running
    <3>. QED BY <3>1, <3>2
  <2>4. d # c /\ on[d] # None => on[d] # on[c] /\ on[d] \in Process
    BY <1>1, RunningIs DEF PlaceInv
  <2>. QED BY <2>2, <2>3, <2>4
<1>15. SpinTypeOK'
  BY <1>1, <1>7, <1>9, <1>12 DEF SpinTypeOK
<1>16. PlaceInv'
  <2>1. code' \in [Thread -> Seq(Item)]
    BY <1>9, <1>11, <1>12
  <2>2. ASSUME NEW d \in CPU PROVE \E m, j, f : Here(d, m, j, f)'
    <3>1. CASE d = c
      <4>1. Running(c)' = c /\ code'[c] = Do("pick")
        BY <1>1, <1>7, <1>13, <1>14 DEF Running, PlaceInv
      <4>2. Stands(code[Running(c)], Running(c), "scan", 8, <<>>)'
        BY <4>1, PickIs
      <4>3. Flags(c, "scan", 8)'
        <5>1. Depth("scan", 8) = 1 /\ ~Loose("scan", 8) /\ Open("scan", 8) = FALSE
          BY SwitchFlags
        <5>2. ncli'[c] = 1 /\ fl'[c] = FALSE
          BY <1>9, <1>20
        <5>3. ncli'[c] = Depth("scan", 8) /\ fl'[c] = Open("scan", 8)
          BY <5>1, <5>2
        <5>. QED BY <5>3 DEF Flags
      <4>4. Here(c, "scan", 8, <<>>)'
        BY <1>13, <4>2, <4>3 DEF Here
      <4>. QED BY <3>1, <4>4
    <3>2. CASE d # c
      <4>1. PICK m, j, f : Here(d, m, j, f)
        BY <1>1 DEF PlaceInv
      <4>2. Stands(code[Running(d)], Running(d), m, j, f)'
        BY <1>13, <1>14, <3>2, <4>1 DEF Here
      <4>3. Flags(d, m, j)'
        BY <1>9, <4>1 DEF Here, Flags
      <4>4. ASSUME on'[d] # None PROVE Mood(on[d], m, j)'
        <5>1. on[d] # None /\ on[d] # on[c] /\ on[d] \in Process /\ on'[d] = on[d]
          BY <1>13, <1>14, <3>2, <4>4
        <5>2. Mood(on[d], m, j) /\ saved'[on[d]] = saved[on[d]]
          BY <1>13, <4>1, <5>1 DEF Here
        <5>. QED BY <1>9, <5>1, <5>2 DEF Mood
      <4>5. Here(d, m, j, f)'
        BY <4>2, <4>3, <4>4 DEF Here
      <4>. QED BY <4>5
    <3>. QED BY <3>1, <3>2
  <2>3. ASSUME NEW p \in Process, \A d \in CPU : on'[d] # p PROVE \E m, j, f : There(p, m, j, f)'
    <3>1. CASE p = on[c]
      <4>1. Stands(code[p], p, n, i + 1, b)'
        BY <1>7, <1>11, <1>13, <3>1
      <4>2. Switched(n, i + 1)
        BY <1>5 DEF Switched
      <4>3. state'[p] # "RUNNING" /\ (n = "sleep" => saved'[p]) /\ (n = "timer" => ~saved'[p])
        BY <1>9, <1>13, <1>20, <3>1
      <4>4. There(p, n, i + 1, b)'
        BY <4>1, <4>2, <4>3 DEF There
      <4>. QED BY <4>4
    <3>2. CASE p # on[c]
      <4>1. \A d \in CPU : on[d] # p
        BY <1>13, <2>3, <3>2
      <4>2. PICK m, j, f : There(p, m, j, f)
        BY <1>1, <4>1 DEF PlaceInv
      <4>3. code'[p] = code[p] /\ state'[p] = state[p] /\ saved'[p] = saved[p]
        BY <1>9, <1>13, <3>2 DEF Thread
      <4>4. There(p, m, j, f)'
        BY <4>2, <4>3 DEF There
      <4>. QED BY <4>4
    <3>. QED BY <3>1, <3>2
  <2>4. \A d \in CPU : on'[d] # None => code'[d] = Do("pick")
    BY <1>1, <1>13, <1>14 DEF PlaceInv
  <2>5. \A d, f \in CPU : on'[d] = on'[f] /\ on'[d] # None => d = f
    BY <1>1, <1>13 DEF PlaceInv
  <2>. QED BY <2>1, <2>2, <2>3, <2>4, <2>5 DEF PlaceInv
<1>17. LockInv'
  <2>1. ASSUME NEW l \in Locks PROVE Lone(l)'
    <3>1. View(c, n, i, b)
      BY <1>6, ViewIs
    <3>2. PICK s : Running(c)' = c /\ code'[c] = s /\ Stands(s, c, "scan", 8, <<>>)
      BY <1>1, <1>7, <1>13, <1>14, PickIs DEF Running, PlaceInv
    <3>3. View(c, "scan", 8, <<>>)'
      BY <1>14, <3>2, ViewNext
    <3>4. /\ Owns(n, i, l) <=> Owns("scan", 8, l)
          /\ ~Nameless(n, i, l) /\ ~Nameless("scan", 8, l)
      BY <1>5 DEF Owns, HasDevice, HasPtable, Nameless, Locks
    <3>5. (Inside(c, l)' <=> Inside(c, l)) /\ (Unnamed(c, l)' <=> Unnamed(c, l))
      BY <3>1, <3>3, <3>4 DEF View
    <3>6. ASSUME NEW d \in CPU, d # c PROVE (Inside(d, l)' <=> Inside(d, l)) /\ (Unnamed(d, l)' <=> Unnamed(d, l))
      <4>1. Running(d)' = Running(d) /\ code'[Running(d)] = code[Running(d)]
        BY <1>13, <1>14, <3>6
      <4>. QED BY <4>1 DEF Inside, Unnamed
    <3>7. Lone(l) /\ locked'[l] = locked[l] /\ holder'[l] = holder[l]
      BY <1>1, <1>9 DEF LockInv
    <3>. QED BY <3>5, <3>6, <3>7, LockStays
  <2>. QED BY <2>1 DEF LockInv
<1>18. ReadyInv'
  <2>1. Follows(n, i, b, n, i + 1, b)
    BY <1>5 DEF Follows
  <2>. QED BY <1>1, <1>2, <1>9, <1>11, <2>1, ReadyMove
<1>. QED BY <1>1, <1>9, <1>15, <1>16, <1>17, <1>18 DEF SpinInv, NoPanic

LEMMA SwitchedIs ==
  ASSUME NEW n, NEW i, Switched(n, i)
  PROVE  /\ ~Switching(n, i) /\ Depth(n, i) = 1 /\ ~Loose(n, i) /\ Open(n, i) = FALSE
         /\ \A l \in Locks : (Owns(n, i, l) <=> l = "ptable") /\ ~Nameless(n, i, l)
         /\ n \in {"sleep", "timer", "fork"} /\ (n = "sleep" => i = 9) /\ (n = "timer" => i = 6)
<1>0. <<n, i>> \in {<<"sleep", 9>>, <<"timer", 6>>, <<"fork", 1>>}
  BY DEF Switched
<1>1. \/ n = "sleep" /\ i = 9
      \/ n = "timer" /\ i = 6
      \/ n = "fork" /\ i = 1
  BY <1>0
<1>2. ~Switching(n, i)
  BY <1>1 DEF Switching
<1>3. Depth(n, i) = 1 /\ ~Loose(n, i) /\ Open(n, i) = FALSE
  <2>1. <<n, i>> \in {<<"sleep", 8>>, <<"timer", 5>>, <<"scan", 8>>, <<"sleep", 9>>, <<"timer", 6>>, <<"fork", 1>>}
    BY <1>0
  <2>. QED BY <2>1, SwitchFlags
<1>4. ASSUME NEW l \in Locks PROVE (Owns(n, i, l) <=> l = "ptable") /\ ~Nameless(n, i, l)
  <2>1. CASE l = "device"
    BY <1>1, <2>1 DEF Owns, HasDevice, Nameless
  <2>2. CASE l = "ptable"
    BY <1>1, <2>2 DEF Owns, HasPtable, Nameless
  <2>. QED BY <2>1, <2>2 DEF Locks
<1>. QED BY <1>1, <1>2, <1>3, <1>4

LEMMA DispatchStep ==
  ASSUME SpinInv, NEW c \in CPU, NEW p \in Process, Dispatch(c, p)
  PROVE  SpinInv'
<1>1. SpinTypeOK /\ NoPanic /\ PlaceInv /\ LockInv /\ ReadyInv
  BY DEF SpinInv
<1>2. PICK n, i, b : Here(c, n, i, b)
  BY <1>1 DEF PlaceInv
<1>3. Does(c, "pick") /\ on[c] = None /\ state[p] = "RUNNABLE"
  BY DEF Dispatch
<1>4. Where(n, i, "pick", Lock(c)) /\ Running(c) = c
  BY <1>1, <1>2, <1>3, DoesIs, RunningIs
<1>5. n = "scan" /\ i = 8
  <2>1. <<n, i>> \in {<<"scan", 8>>}
    BY <1>4 DEF Where
  <2>. QED BY <2>1
<1>6. c \in Thread /\ Stands(code[c], c, "scan", 8, b) /\ Flags(c, "scan", 8)
  BY <1>2, <1>4, <1>5 DEF Here, Thread
<1>7. b = <<>>
  BY <1>6 DEF Stands, Place, Handlers
<1>8. code[c] = Do("pick")
  <2>1. code[c] = SubSeq(Whole("scan", <<>>), 8, Len(Whole("scan", <<>>)))
    BY <1>6, <1>7 DEF Stands
  <2>2. Whole("scan", <<>>) = ScanCode
    BY NoneBelow DEF Pieces, Piece
  <2>. QED BY <2>1, <2>2, LastOfScan
<1>9. /\ state' = [state EXCEPT ![p] = "RUNNING"] /\ on' = [on EXCEPT ![c] = p]
      /\ locked' = locked /\ holder' = holder /\ fl' = fl /\ ncli' = ncli /\ intena' = intena
      /\ saved' = saved /\ code' = code /\ ready' = ready /\ panicked' = panicked
  BY DEF Dispatch, locks, flags
<1>10. /\ on \in [CPU -> Process \cup {None}] /\ state \in [Process -> {"RUNNABLE", "RUNNING", "SLEEPING"}]
       /\ code \in [Thread -> Seq(Item)]
  BY <1>1 DEF SpinTypeOK, PlaceInv
<1>11. /\ on'[c] = p /\ \A d \in CPU : d # c => on'[d] = on[d]
       /\ state'[p] = "RUNNING" /\ \A q \in Process : q # p => state'[q] = state[q]
       /\ p # None /\ p \notin CPU /\ p \in Thread
  BY <1>9, <1>10, NoneAssumption DEF Thread
<1>12. ncli[c] = 1 /\ fl[c] = FALSE
  <2>1. Depth("scan", 8) = 1 /\ ~Loose("scan", 8) /\ Open("scan", 8) = FALSE
    BY SwitchFlags
  <2>2. ncli[c] = Depth("scan", 8) /\ fl[c] = Open("scan", 8)
    BY <1>6, <2>1 DEF Flags
  <2>. QED BY <2>1, <2>2
<1>13. \A d \in CPU : on[d] # p
  <2>1. SUFFICES ASSUME NEW d \in CPU, on[d] = p PROVE FALSE
    OBVIOUS
  <2>2. PICK m, j, f : Here(d, m, j, f)
    BY <1>1 DEF PlaceInv
  <2>3. Mood(p, m, j)
    BY <1>11, <2>1, <2>2 DEF Here
  <2>4. Switching(m, j)
    BY <1>3, <2>3 DEF Mood
  <2>5. Owns(m, j, "ptable")
    BY <2>4 DEF Switching, Owns, HasPtable
  <2>6. Lone("ptable") /\ "ptable" \in Locks
    BY <1>1, LocksAre DEF LockInv
  <2>7. Inside(d, "ptable") /\ \A a \in CPU \ {d} : ~Inside(a, "ptable")
    BY <1>1, <2>2, <2>5, <2>6, HoldsIs
  <2>8. Owns("scan", 8, "ptable")
    BY DEF Owns, HasPtable
  <2>9. Inside(c, "ptable")
    BY <1>1, <1>2, <1>5, <2>6, <2>8, HoldsIs
  <2>10. c # d
    BY <1>3, <1>11, <2>1
  <2>. QED BY <2>7, <2>9, <2>10
<1>14. PICK m, j, f : There(p, m, j, f)
  BY <1>1, <1>13 DEF PlaceInv
<1>15. Stands(code[p], p, m, j, f) /\ Switched(m, j) /\ (m = "sleep" => saved[p]) /\ (m = "timer" => ~saved[p])
  BY <1>14 DEF There
<1>16. /\ ~Switching(m, j) /\ Depth(m, j) = 1 /\ ~Loose(m, j) /\ Open(m, j) = FALSE
       /\ \A l \in Locks : (Owns(m, j, l) <=> l = "ptable") /\ ~Nameless(m, j, l)
       /\ m \in {"sleep", "timer", "fork"} /\ (m = "sleep" => j = 9) /\ (m = "timer" => j = 6)
  BY <1>15, SwitchedIs
<1>17. Running(c)' = p /\ \A d \in CPU : d # c => Running(d)' = Running(d)
  BY <1>11 DEF Running
<1>18. SpinTypeOK'
  BY <1>1, <1>9, <1>10 DEF SpinTypeOK
<1>19. PlaceInv'
  <2>2. ASSUME NEW d \in CPU PROVE \E k, x, y : Here(d, k, x, y)'
    <3>1. CASE d = c
      <4>1. Stands(code[Running(c)], Running(c), m, j, f)'
        BY <1>9, <1>15, <1>17
      <4>2. Flags(c, m, j)'
        <5>1. ncli'[c] = Depth(m, j) /\ fl'[c] = Open(m, j)
          BY <1>9, <1>12, <1>16
        <5>2. /\ m = "call" \/ (m = "sleep" /\ j # 9) => intena'[c]
              /\ m = "device" \/ (m = "timer" /\ j # 6) => ~intena'[c]
          BY <1>16
        <5>. QED BY <5>1, <5>2 DEF Flags
      <4>3. Mood(on[c], m, j)'
        BY <1>9, <1>11, <1>15, <1>16 DEF Mood
      <4>4. Here(c, m, j, f)'
        BY <4>1, <4>2, <4>3 DEF Here
      <4>. QED BY <3>1, <4>4
    <3>2. CASE d # c
      <4>1. PICK k, x, y : Here(d, k, x, y)
        BY <1>1 DEF PlaceInv
      <4>2. Stands(code[Running(d)], Running(d), k, x, y)'
        BY <1>9, <1>17, <3>2, <4>1 DEF Here
      <4>3. Flags(d, k, x)'
        BY <1>9, <4>1 DEF Here, Flags
      <4>4. ASSUME on'[d] # None PROVE Mood(on[d], k, x)'
        <5>1. on[d] # None /\ on[d] # p /\ on[d] \in Process /\ on'[d] = on[d]
          BY <1>1, <1>11, <1>13, <3>2, <4>4, RunningIs
        <5>2. Mood(on[d], k, x) /\ state'[on[d]] = state[on[d]]
          BY <1>11, <4>1, <5>1 DEF Here
        <5>. QED BY <1>9, <5>1, <5>2 DEF Mood
      <4>5. Here(d, k, x, y)'
        BY <4>2, <4>3, <4>4 DEF Here
      <4>. QED BY <4>5
    <3>. QED BY <3>1, <3>2
  <2>3. ASSUME NEW q \in Process, \A d \in CPU : on'[d] # q PROVE \E k, x, y : There(q, k, x, y)'
    <3>1. q # p
      BY <1>11, <2>3
    <3>2. \A d \in CPU : on[d] # q
      <4>1. SUFFICES ASSUME NEW d \in CPU PROVE on[d] # q
        OBVIOUS
      <4>2. CASE d = c
        BY <1>3, <4>2, NoneAssumption
      <4>3. CASE d # c
        BY <1>11, <2>3, <4>3
      <4>. QED BY <4>2, <4>3
    <3>3. PICK k, x, y : There(q, k, x, y)
      BY <1>1, <3>2 DEF PlaceInv
    <3>4. There(q, k, x, y)'
      BY <1>9, <1>11, <3>1, <3>3 DEF There
    <3>. QED BY <3>4
  <2>4. \A d \in CPU : on'[d] # None => code'[d] = Do("pick")
    BY <1>1, <1>8, <1>9, <1>11 DEF PlaceInv
  <2>5. \A d, a \in CPU : on'[d] = on'[a] /\ on'[d] # None => d = a
    BY <1>1, <1>11, <1>13 DEF PlaceInv
  <2>6. code' \in [Thread -> Seq(Item)]
    BY <1>9, <1>10
  <2>. QED BY <2>2, <2>3, <2>4, <2>5, <2>6 DEF PlaceInv
<1>20. LockInv'
  <2>1. ASSUME NEW l \in Locks PROVE Lone(l)'
    <3>1. View(c, n, i, b)
      BY <1>2, <1>4, <1>6, ViewIs DEF Here
    <3>2. PICK s : code'[p] = s /\ Stands(s, p, m, j, f)
      BY <1>9, <1>15
    <3>3. View(c, m, j, f)'
      BY <1>11, <1>17, <3>2, ViewNext
    <3>4. (Owns("scan", 8, l) <=> l = "ptable") /\ ~Nameless("scan", 8, l)
      <4>1. CASE l = "device"
        BY <4>1 DEF Owns, HasDevice, Nameless
      <4>2. CASE l = "ptable"
        BY <4>2 DEF Owns, HasPtable, Nameless
      <4>. QED BY <4>1, <4>2 DEF Locks
    <3>5. (Inside(c, l)' <=> Inside(c, l)) /\ (Unnamed(c, l)' <=> Unnamed(c, l))
      BY <1>5, <1>16, <3>1, <3>3, <3>4 DEF View
    <3>6. ASSUME NEW d \in CPU, d # c PROVE (Inside(d, l)' <=> Inside(d, l)) /\ (Unnamed(d, l)' <=> Unnamed(d, l))
      <4>1. Running(d)' = Running(d) /\ code'[Running(d)] = code[Running(d)]
        BY <1>9, <1>17, <3>6
      <4>. QED BY <4>1 DEF Inside, Unnamed
    <3>7. Lone(l) /\ locked'[l] = locked[l] /\ holder'[l] = holder[l]
      BY <1>1, <1>9 DEF LockInv
    <3>. QED BY <3>5, <3>6, <3>7, LockStays
  <2>. QED BY <2>1 DEF LockInv
<1>21. ReadyInv'
  <2>. DEFINE s == code[c]
  <2>1. code' = [code EXCEPT ![Running(c)] = s]
    BY <1>4, <1>6, <1>9, <1>10
  <2>2. \A q \in Process : (state'[q] = "SLEEPING") <=> (state[q] = "SLEEPING")
    BY <1>3, <1>11
  <2>3. Running(c) = c
    BY <1>4
  <2>. QED BY <1>1, <1>9, <2>1, <2>2, <2>3, ReadyStep
<1>. QED BY <1>1, <1>9, <1>18, <1>19, <1>20, <1>21 DEF SpinInv, NoPanic

-----------------------------------------------------------------------------
LEMMA SpinStart == SpinInit => SpinInv
<1>. SUFFICES ASSUME SpinInit PROVE SpinInv
  OBVIOUS
<1>1. SpinTypeOK /\ NoPanic
  <2>1. 0 \in {0, 1} /\ 0 \in 0 .. 2 /\ TRUE \in BOOLEAN /\ FALSE \in BOOLEAN
    OBVIOUS
  <2>2. locked \in [Locks -> {0, 1}] /\ holder \in [Locks -> CPU \cup {None}]
    BY DEF SpinInit
  <2>3. fl \in [CPU -> BOOLEAN] /\ intena \in [CPU -> BOOLEAN] /\ ncli \in [CPU -> 0 .. 2]
    BY <2>1 DEF SpinInit
  <2>4. /\ on \in [CPU -> Process \cup {None}] /\ state \in [Process -> {"RUNNABLE", "RUNNING", "SLEEPING"}]
        /\ saved \in [Process -> BOOLEAN] /\ ready \in BOOLEAN /\ panicked \in BOOLEAN /\ ~panicked
    BY DEF SpinInit
  <2>. QED BY <2>2, <2>3, <2>4 DEF SpinTypeOK, NoPanic
<1>2. /\ \A c \in CPU : on[c] = None /\ Running(c) = c /\ c \in Thread /\ fl[c] = TRUE /\ ncli[c] = 0
      /\ \A c \in CPU : code[c] = Scheduler
      /\ \A p \in Process : code[p] = ForkCode /\ state[p] = "RUNNABLE" /\ p \in Thread /\ p \notin CPU
      /\ \A l \in Locks : locked[l] = 0 /\ holder[l] = None
      /\ ready = FALSE
  BY NoneAssumption DEF SpinInit, Running, Thread, ForkCode
<1>3. code \in [Thread -> Seq(Item)]
  <2>1. Scheduler \in Seq(Item) /\ ForkCode \in Seq(Item)
    BY SchedulerIs, ForkCodeIs
  <2>. QED BY <2>1 DEF SpinInit, ForkCode
<1>4. ASSUME NEW c \in CPU PROVE Stands(Scheduler, c, "scan", 4, <<>>)
  <2>1. Place(c, "scan", 4, <<>>)
    BY DEF Place, Handlers, Steps
  <2>2. Whole("scan", <<>>) = ScanCode
    BY NoneBelow DEF Pieces, Piece
  <2>. DEFINE g == ScanCode
              u == Scheduler
  <2>3. /\ g \in Seq(Item) /\ Len(g) = 8 /\ u \in Seq(Item) /\ Len(u) = 5
        /\ g[4] = u[1] /\ g[5] = u[2] /\ g[6] = u[3] /\ g[7] = u[4] /\ g[8] = u[5]
    BY ScanCodeIs, SchedulerIs
  <2>4. SubSeq(g, 4, Len(g)) = u
    <3>. HIDE DEF g, u
    <3>. QED BY <2>3, Last5
  <2>. QED BY <2>1, <2>2, <2>4 DEF Stands
<1>5. ASSUME NEW p \in Process PROVE Stands(ForkCode, p, "fork", 1, <<>>)
  <2>1. Place(p, "fork", 1, <<>>) /\ p \in Thread
    BY <1>2 DEF Place, Handlers, Steps
  <2>2. Whole("fork", <<>>) = ForkCode
    BY NoneBelow DEF Pieces, Piece
  <2>. QED BY <2>1, <2>2, StartsAt
<1>6. ASSUME NEW c \in CPU PROVE Here(c, "scan", 4, <<>>)
  <2>1. Depth("scan", 4) = 0 /\ Loose("scan", 4)
    BY DEF Depth, Loose
  <2>2. Flags(c, "scan", 4)
    BY <1>2, <2>1 DEF Flags
  <2>. QED BY <1>2, <1>4, <2>2 DEF Here
<1>7. ASSUME NEW p \in Process PROVE There(p, "fork", 1, <<>>)
  <2>1. Switched("fork", 1)
    BY DEF Switched
  <2>. QED BY <1>2, <1>5, <2>1 DEF There
<1>8. PlaceInv
  BY <1>2, <1>3, <1>6, <1>7 DEF PlaceInv
<1>9. LockInv
  <2>1. ASSUME NEW l \in Locks, NEW c \in CPU PROVE ~Inside(c, l)
    <3>1. View(c, "scan", 4, <<>>)
      BY <1>2, <1>4, ViewIs
    <3>2. ~Owns("scan", 4, l)
      BY DEF Owns, HasDevice, HasPtable, Locks
    <3>. QED BY <3>1, <3>2 DEF View
  <2>. QED BY <1>2, <2>1 DEF LockInv, Lone
<1>10. ReadyInv
  BY <1>2 DEF ReadyInv, NoLostWakeup
<1>. QED BY <1>1, <1>8, <1>9, <1>10 DEF SpinInv

LEMMA SpinStutters ==
  ASSUME SpinInv, UNCHANGED spins
  PROVE  SpinInv'
<1>1. /\ locked' = locked /\ holder' = holder /\ fl' = fl /\ ncli' = ncli /\ intena' = intena
      /\ on' = on /\ state' = state /\ saved' = saved /\ code' = code /\ ready' = ready /\ panicked' = panicked
  BY DEF spins
<1>2. SpinTypeOK' /\ NoPanic'
  BY <1>1 DEF SpinInv, SpinTypeOK, NoPanic
<1>3. PlaceInv'
  <2>1. PlaceInv
    BY DEF SpinInv
  <2>. QED BY <1>1, <2>1 DEF PlaceInv, Here, There, Flags, Mood, Running
<1>4. LockInv'
  <2>1. LockInv
    BY DEF SpinInv
  <2>2. ASSUME NEW l \in Locks, NEW c \in CPU
        PROVE  (Inside(c, l)' <=> Inside(c, l)) /\ (Unnamed(c, l)' <=> Unnamed(c, l))
    <3>1. Running(c)' = Running(c) /\ code'[Running(c)] = code[Running(c)]
      BY <1>1 DEF Running
    <3>. QED BY <3>1 DEF Inside, Unnamed
  <2>3. ASSUME NEW l \in Locks PROVE Lone(l)'
    <3>1. Lone(l) /\ locked'[l] = locked[l] /\ holder'[l] = holder[l]
      BY <1>1, <2>1 DEF LockInv
    <3>. QED BY <2>2, <3>1, LockStays
  <2>. QED BY <2>3 DEF LockInv
<1>5. ReadyInv'
  <2>1. ReadyInv
    BY DEF SpinInv
  <2>2. \A t, op : Has(t, op)' <=> Has(t, op)
    BY <1>1, HasOf, HasNext
  <2>3. Pending' <=> Pending
    BY <2>2 DEF Pending
  <2>4. NoLostWakeup' <=> NoLostWakeup
    BY <1>1, <2>2, <2>3 DEF NoLostWakeup, Pending
  <2>. QED BY <1>1, <2>1, <2>2, <2>3, <2>4 DEF ReadyInv
<1>. QED BY <1>2, <1>3, <1>4, <1>5 DEF SpinInv

LEMMA SpinKeeps == SpinInv /\ [SpinNext]_spins => SpinInv'
<1>. SUFFICES ASSUME SpinInv, [SpinNext]_spins PROVE SpinInv'
  OBVIOUS
<1>1. CASE UNCHANGED spins
  BY <1>1, SpinStutters
<1>2. ASSUME NEW c \in CPU, Step(c) PROVE SpinInv'
  BY <1>2, PushcliStep, OwnStep, DisownStep, ClearStep, PopcliStep, TestStep, IretStep, SetStateStep, SchedStep,
     ResumeStep, StiStep, ScanEndsStep, EventStep, Wakeup1Step DEF Step
<1>3. ASSUME NEW c \in CPU, Xchg(c) \/ Syscall(c) \/ DeviceInterrupt(c) \/ TimerInterrupt(c) PROVE SpinInv'
  BY <1>3, XchgStep, SyscallStep, DeviceInterruptStep, TimerInterruptStep
<1>4. ASSUME NEW c \in CPU, NEW p \in Process, Dispatch(c, p) PROVE SpinInv'
  BY <1>4, DispatchStep
<1>. QED BY <1>1, <1>2, <1>3, <1>4 DEF SpinNext

LEMMA SpinInvariant == SpinSpec => []SpinInv
BY SpinStart, SpinKeeps, PTL DEF SpinSpec

(* What the invariant says of a lock and of the interrupts.                    *)
LEMMA OwnersAreOff ==
  ASSUME SpinInv, NEW c \in CPU, NEW n, NEW i, NEW b, Here(c, n, i, b), NEW l \in Locks, Owns(n, i, l)
  PROVE  ncli[c] > 0 /\ ~fl[c]
<1>1. Running(c) \in Thread /\ Stands(code[Running(c)], Running(c), n, i, b) /\ Flags(c, n, i)
  BY RunningIs DEF Here, SpinInv
<1>2. i \in 1 .. Steps(n) + 1 /\ n \in Pieces
  BY <1>1, StandsIs
<1>3. i \in Nat /\ (n = "scan" => i <= 9) /\ n \in Pieces
  BY <1>2, PieceIs DEF Steps
<1>4. Depth(n, i) > 0
  BY <1>3 DEF Depth, Owns, HasDevice, HasPtable, Pieces
<1>5. ~Loose(n, i)
  BY <1>3 DEF Loose, Owns, HasDevice, HasPtable
<1>6. Open(n, i) = FALSE
  BY <1>3 DEF Open, Owns, HasDevice, HasPtable
<1>. QED BY <1>1, <1>4, <1>5, <1>6 DEF Flags

LEMMA SpinSound == SpinInv => LocksSound
<1>. SUFFICES ASSUME SpinInv PROVE LocksSound
  OBVIOUS
<1>1. SpinTypeOK /\ NoPanic /\ PlaceInv /\ LockInv /\ ReadyInv
  BY DEF SpinInv
<1>2. LocksHeld
  <2>1. SUFFICES ASSUME NEW l \in Locks
                 PROVE  /\ locked[l] = 1 <=> \E c \in CPU : Inside(c, l)
                        /\ \A c \in CPU : Inside(c, l) => ~fl[c] /\ ncli[c] > 0 /\ \A d \in CPU \ {c} : ~Inside(d, l)
    BY DEF LocksHeld
  <2>2. Lone(l)
    BY <1>1 DEF LockInv
  <2>3. locked[l] = 1 <=> \E c \in CPU : Inside(c, l)
    BY <2>2 DEF Lone
  <2>4. ASSUME NEW c \in CPU, Inside(c, l) PROVE ~fl[c] /\ ncli[c] > 0 /\ \A d \in CPU \ {c} : ~Inside(d, l)
    <3>1. PICK n, i, b : Here(c, n, i, b)
      BY <1>1 DEF PlaceInv
    <3>2. Owns(n, i, l) /\ \A d \in CPU \ {c} : ~Inside(d, l)
      BY <1>1, <2>2, <2>4, <3>1, HoldsIs
    <3>. QED BY <3>1, <3>2, OwnersAreOff
  <2>. QED BY <2>3, <2>4
<1>3. InterruptsRestored
  <2>1. SUFFICES ASSUME NEW c \in CPU
                 PROVE  /\ Handling(c) => ~fl[c]
                        /\ on[c] # None /\ ncli[c] = 0 /\ ~Handling(c) /\ ~Does(c, "ret") => fl[c]
    BY DEF InterruptsRestored
  <2>2. PICK n, i, b : Here(c, n, i, b)
    BY <1>1 DEF PlaceInv
  <2>3. Running(c) \in Thread /\ Stands(code[Running(c)], Running(c), n, i, b) /\ Flags(c, n, i)
    BY <1>1, <2>2, RunningIs DEF Here
  <2>4. Handling(c) <=> n \in Handlers
    <3>1. In(code[Running(c)], "iret") <=> n \in Handlers
      BY <2>3, HasIs
    <3>. QED BY <3>1, HasOf DEF Handling
  <2>5. ASSUME n \in Handlers PROVE ~fl[c]
    <3>1. ~Loose(n, i)
      BY <2>5 DEF Loose, Handlers
    <3>2. Open(n, i) = FALSE
      BY <2>5 DEF Open, Handlers
    <3>. QED BY <2>3, <3>1, <3>2 DEF Flags
  <2>6. ASSUME on[c] # None, ncli[c] = 0, n \notin Handlers, ~Does(c, "ret") PROVE fl[c]
    <3>1. Running(c) \notin CPU
      BY <1>1, <2>6, RunningIs
    <3>2. n \in {"call", "ret", "sleep", "fork"} /\ (i \in 1 .. Steps(n) \/ (n \in {"ret", "fork"} /\ i = 5))
      BY <2>3, <2>6, <3>1 DEF Stands, Place, Handlers
    <3>3. Depth(n, i) = 0
      BY <2>3, <2>6 DEF Flags
    <3>4. \/ n = "call" /\ i = 1
          \/ n = "sleep" /\ i = 13
          \/ n \in {"ret", "fork"} /\ i \in {4, 5}
      BY <3>2, <3>3 DEF Depth, Steps
    <3>5. ~Loose(n, i)
      <4>1. SUFFICES ASSUME n \in {"ret", "fork"}, i = 4 PROVE FALSE
        BY <3>2 DEF Loose
      <4>2. i <= Steps(n) /\ n \in Pieces
        BY <4>1 DEF Steps, Pieces
      <4>3. code[Running(c)] # <<>> /\ Head(code[Running(c)]) = Piece(n)[i]
        BY <2>3, <4>2, NextOf
      <4>4. Piece(n)[4] = <<"ret", "none">>
        BY <4>1, RetCodeIs, ForkCodeIs DEF Piece
      <4>5. Head(code[Running(c)])[1] = "ret"
        BY <4>1, <4>3, <4>4
      <4>. QED BY <1>1, <2>6, <4>3, <4>5 DEF Does, NoPanic
    <3>6. Open(n, i) = TRUE
      BY <3>4, <3>5 DEF Open, Loose
    <3>. QED BY <2>3, <3>5, <3>6 DEF Flags
  <2>. QED BY <2>4, <2>5, <2>6
<1>. QED BY <1>1, <1>2, <1>3 DEF LocksSound

(* No assertion of acquire, release, popcli or sched (spinlock.c, proc.c) is   *)
(* met; a lock is taken exactly while one CPU is inside it, with interrupts    *)
(* off; and a system call has them on again outside the locks, whatever CPU    *)
(* it slept on.                                                                *)
THEOREM LocksAreSound == SpinSpec => []LocksSound
BY SpinInvariant, SpinSound, PTL

(* sleep takes ptable.lock before it lets go of the lock it was called with    *)
(* (proc.c), so that wakeup1 finds every process whose wait is over.           *)
THEOREM NoWakeupIsLost == SpinSpec => []NoLostWakeup
<1>1. SpinInv => NoLostWakeup
  BY DEF SpinInv, ReadyInv
<1>. QED BY <1>1, SpinInvariant, PTL
=============================================================================

----------------------------- MODULE SpaceProofs -----------------------------
(* Proofs about AddressSpace and, in the second half, about OpenFiles: what    *)
(* processes have of memory and of open files is exact, for any number of      *)
(* processes, frames, files and inodes.                                        *)
EXTENDS AddressSpace, OpenFiles, FiniteSetTheorems, SequenceTheorems, WellFoundedInduction, TLAPS

(* What the programs of section 3 keep to: every rule there is.             *)
Ruled == {"main grows", "one call", "keep memory", "threads do not clone", "exits fit"} \subseteq Rules

Placed == {s \in Slot : state[s] \in {"LIVE", "ZOMBIE"}}
Forking(p) == pc[p] \in {"copy", "publish"}
Sizing(p) == pc[p] \in {"grow", "undo", "shrink", "size", "share"}
Sharing(p, q) == p \in Placed /\ q \in Placed /\ pgdir[p] = pgdir[q]
Thread(p) == parent[p] \in Slot /\ pgdir[parent[p]] = pgdir[p]
Owner(p) == IF Thread(p) THEN parent[p] ELSE p

SlotInv ==
  /\ state[InitProc] = "LIVE" /\ parent[InitProc] = NoProc /\ ~Sizing(InitProc)
  /\ \A s \in Slot :
       /\ pc[s] # "user" => state[s] = "LIVE"
       /\ s \in Placed => pgdir[s] \in dirs
       /\ s \notin Placed => pgdir[s] = NoDir /\ parent[s] = NoProc
       /\ parent[s] \in Slot => state[parent[s]] = "LIVE"

ForkOf(p) ==
       /\ Forking(p) =>
            /\ np[p] \in Slot /\ state[np[p]] = "EMBRYO"
            /\ d[p] \in dirs /\ \A s \in Slot : pgdir[s] # d[p]
            /\ goal[p] = sz[p]
            /\ pc[p] = "copy" => a[p] < Up(sz[p])
            /\ pt[d[p]] = IF pc[p] = "copy" THEN 0 .. a[p] - 1 ELSE Below(sz[p])
       /\ ~Forking(p) => np[p] = NoProc /\ d[p] = NoDir
ForkInv ==
  /\ \A p \in Slot : ForkOf(p)
  /\ \A p, q \in Slot : Forking(p) /\ Forking(q) /\ p # q => np[p] # np[q] /\ d[p] # d[q]
  /\ \A s \in Slot : state[s] = "EMBRYO" => \E p \in Slot : np[p] = s

ShareInv ==
  /\ \A s \in Slot \ {InitProc} : ~Sharing(s, InitProc)
  /\ \A s, r \in Slot : Thread(s) /\ parent[s] = r => ~Thread(r)
  /\ \A p, q \in Slot : Sharing(p, q) => Owner(p) = Owner(q)

CallInv ==
  /\ \A p, q \in Slot : Sharing(p, q) /\ p # q /\ pc[p] # "user" => pc[q] = "user"
  /\ \A p \in Slot : Sizing(p) => ~Thread(p)

(* The pages of the space of p by the place of its call.                    *)
Held(p) == pt[pgdir[p]]
PagesOf(p) ==
    /\ pc[p] = "grow" =>
         Up(sz[p]) <= a[p] /\ a[p] < Up(goal[p]) /\ Held(p) = 0 .. a[p] - 1
    /\ pc[p] = "undo" =>
         /\ Up(sz[p]) <= a[p] /\ a[p] < Up(goal[p])
         /\ Below(sz[p]) \subseteq Held(p)
         /\ \A i \in Held(p) : i < Up(sz[p]) \/ (a[p] <= i /\ i < Up(goal[p]))
    /\ pc[p] = "shrink" =>
         /\ Up(goal[p]) <= a[p] /\ a[p] < Up(sz[p]) /\ goal[p] > 0
         /\ Held(p) = Below(goal[p]) \cup (a[p] .. Up(sz[p]) - 1)
    /\ pc[p] = "size" => Held(p) = Below(goal[p])
    /\ pc[p] = "share" => Held(p) = Below(sz[p])
    /\ ~Sizing(p) => (\E q \in Slot : Sharing(p, q) /\ Sizing(q)) \/ Held(p) = Below(sz[p])
PagesInv == \A p \in Slot : state[p] = "LIVE" => PagesOf(p)

SizeInv == \A p, q \in Slot : Sharing(p, q) => sz[p] = sz[q] \/ pc[p] = "share" \/ pc[q] = "share"

DirInv ==
  /\ \A t \in dirs : (\E s \in Placed : pgdir[s] = t) \/ (\E p \in Slot : Forking(p) /\ d[p] = t)
  /\ \A t \in Dir \ dirs : pt[t] = {}

CountInv == NFrame = free + Cardinality(dirs) + Cardinality(Mapped)

SpaceInv ==
  TypeOK /\ SlotInv /\ ForkInv /\ ShareInv /\ CallInv /\ PagesInv /\ SizeInv /\ DirInv /\ CountInv /\ NoPanic

-----------------------------------------------------------------------------
(* Pages and loops                                                          *)

LEMMA Consts ==
  /\ NPROC \in Nat /\ NPROC > 0 /\ NFrame \in Nat /\ PGSIZE \in Nat /\ PGSIZE > 0
  /\ USERTOP \in Nat /\ NPAGE \in Nat /\ NPAGE > 0 /\ USERTOP = PGSIZE * NPAGE
  /\ InitProc \in Slot /\ NoProc \notin Slot /\ NoDir \notin Dir /\ 1 \in Dir
<1>1. \A P \in Nat \ {0}, u \in Nat : u \div P \in Nat /\ (u % P = 0 => u = P * (u \div P))
  OBVIOUS
<1>2. NPAGE \in Nat /\ USERTOP = PGSIZE * NPAGE
  BY <1>1, SpaceAssumption DEF NPAGE
<1>. QED BY <1>2, SpaceAssumption DEF InitProc, Slot, NoProc, NoDir, Dir

LEMMA Times ==
  ASSUME NEW P \in Nat \ {0}, NEW i \in Int, NEW j \in Int, i <= j
  PROVE  P * i <= P * j /\ P * i \in Int /\ P * j \in Int
<1>1. PICK n \in Nat : j = i + n
  <2>1. j - i \in Nat /\ j = i + (j - i)
    OBVIOUS
  <2>. QED BY <2>1
<1>2. P * j = P * i + P * n /\ P * n \in Nat /\ P * i \in Int
  BY <1>1
<1>. QED BY <1>2

(* Up rounds up: page i starts below x just when i is below Up(x).          *)
LEMMA UpFacts ==
  ASSUME NEW x \in 0 .. USERTOP
  PROVE  /\ Up(x) \in 0 .. NPAGE
         /\ \A i \in Nat : i * PGSIZE < x <=> i < Up(x)
<1>. DEFINE k == (x + PGSIZE - 1) \div PGSIZE
<1>1. \A P \in Nat \ {0}, y \in Nat : y \div P \in Nat /\ P * (y \div P) <= y /\ y < P * (y \div P) + P
  OBVIOUS
<1>2. x + PGSIZE - 1 \in Nat /\ PGSIZE \in Nat \ {0}
  BY Consts
<1>3. k \in Nat /\ PGSIZE * k <= x + PGSIZE - 1 /\ x + PGSIZE - 1 < PGSIZE * k + PGSIZE
  BY <1>1, <1>2
<1>4. PGSIZE * k \in Nat /\ PGSIZE * (k - 1) = PGSIZE * k - PGSIZE
  BY <1>2, <1>3
<1>5. k = Up(x)
  BY DEF Up
<1>. HIDE DEF k
<1>6. k <= NPAGE
  <2>1. SUFFICES ASSUME NPAGE <= k - 1 PROVE FALSE
    BY <1>3, Consts
  <2>2. PGSIZE * NPAGE <= PGSIZE * (k - 1)
    BY <2>1, <1>2, <1>3, Consts, Times
  <2>. QED BY <2>2, <1>2, <1>3, <1>4, Consts
<1>7. ASSUME NEW i \in Nat PROVE i * PGSIZE < x <=> i < k
  <2>1. i * PGSIZE = PGSIZE * i /\ PGSIZE * i \in Int
    BY <1>2
  <2>2. CASE i < k
    <3>1. PGSIZE * i <= PGSIZE * (k - 1)
      BY <2>2, <1>2, <1>3, Times
    <3>. QED BY <3>1, <2>1, <2>2, <1>2, <1>3, <1>4
  <2>3. CASE k <= i
    <3>1. PGSIZE * k <= PGSIZE * i
      BY <2>3, <1>2, <1>3, Times
    <3>. QED BY <3>1, <2>1, <2>3, <1>2, <1>3, <1>4
  <2>. QED BY <2>2, <2>3, <1>3
<1>. QED BY <1>3, <1>5, <1>6, <1>7

LEMMA UpOrder ==
  ASSUME NEW x \in 0 .. USERTOP, NEW y \in 0 .. USERTOP, x <= y
  PROVE  Up(x) <= Up(y)
<1>1. SUFFICES ASSUME Up(y) < Up(x) PROVE FALSE
  BY UpFacts
<1>2. Up(y) \in Nat /\ Up(y) * PGSIZE < x
  BY <1>1, UpFacts
<1>3. Up(y) * PGSIZE \in Int
  BY <1>2, Consts
<1>4. Up(y) * PGSIZE < y
  BY <1>2, <1>3
<1>5. Up(y) < Up(y)
  BY <1>2, <1>4, UpFacts
<1>. QED BY <1>2, <1>5

LEMMA LoopIs ==
  ASSUME NEW p, NEW place, NEW i \in Nat, NEW y \in 0 .. USERTOP, NEW after, NEW size
  PROVE  Loop(p, place, i, y, after, size) <=> Goto(p, IF i < Up(y) THEN place ELSE after, i, size)
<1>1. i * PGSIZE < y <=> i < Up(y)
  BY UpFacts
<1>. QED BY <1>1 DEF Loop

-----------------------------------------------------------------------------
(* Counting mapped pages                                                    *)

Pairs(D, P) == {m \in D \X Page : m[2] \in P[m[1]]}

LEMMA PairsFinite ==
  ASSUME NEW D \in SUBSET Dir, NEW P
  PROVE  /\ IsFiniteSet(D) /\ Cardinality(D) \in Nat
         /\ IsFiniteSet(Pairs(D, P)) /\ Cardinality(Pairs(D, P)) \in Nat
<1>1. IsFiniteSet(Dir) /\ IsFiniteSet(Page)
  BY Consts, FS_Interval DEF Dir, Page
<1>2. IsFiniteSet(D)
  BY <1>1, FS_Subset
<1>3. IsFiniteSet(D \X Page)
  BY <1>1, <1>2, FS_Product
<1>4. Pairs(D, P) \in SUBSET (D \X Page)
  BY DEF Pairs
<1>5. IsFiniteSet(Pairs(D, P))
  BY <1>3, <1>4, FS_Subset
<1>. QED BY <1>2, <1>5, FS_CardinalityType

LEMMA PairsAdd ==
  ASSUME NEW D \in SUBSET Dir, NEW P \in [Dir -> SUBSET Page], NEW t \in D, NEW i \in Page \ P[t]
  PROVE  Cardinality(Pairs(D, [P EXCEPT ![t] = @ \cup {i}])) = Cardinality(Pairs(D, P)) + 1
<1>1. Pairs(D, [P EXCEPT ![t] = @ \cup {i}]) = Pairs(D, P) \cup {<<t, i>>} /\ <<t, i>> \notin Pairs(D, P)
  BY DEF Pairs
<1>. QED BY <1>1, PairsFinite, FS_AddElement

LEMMA PairsRemove ==
  ASSUME NEW D \in SUBSET Dir, NEW P \in [Dir -> SUBSET Page], NEW t \in D, NEW i \in P[t]
  PROVE  Cardinality(Pairs(D, [P EXCEPT ![t] = @ \ {i}])) = Cardinality(Pairs(D, P)) - 1
<1>1. Pairs(D, [P EXCEPT ![t] = @ \ {i}]) = Pairs(D, P) \ {<<t, i>>} /\ <<t, i>> \in Pairs(D, P)
  BY DEF Pairs
<1>2. IsFiniteSet(Pairs(D, P))
  BY PairsFinite
<1>3. Cardinality(Pairs(D, P) \ {<<t, i>>}) = Cardinality(Pairs(D, P)) - 1
  <2>. DEFINE A == Pairs(D, P)
              m == <<t, i>>
  <2>1. m \in A /\ IsFiniteSet(A)
    BY <1>1, <1>2
  <2>. HIDE DEF A, m
  <2>2. Cardinality(A \ {m}) = Cardinality(A) - 1
    BY <2>1, FS_RemoveElement
  <2>. QED BY <2>2 DEF A, m
<1>. QED BY <1>1, <1>3

LEMMA PairsNew ==
  ASSUME NEW D \in SUBSET Dir, NEW P \in [Dir -> SUBSET Page], NEW t \in Dir \ D
  PROVE  Pairs(D \cup {t}, [P EXCEPT ![t] = {}]) = Pairs(D, P)
BY DEF Pairs

LEMMA PairsFill ==
  ASSUME NEW D \in SUBSET Dir, NEW P \in [Dir -> SUBSET Page],
         NEW N \in SUBSET (Dir \ D), NEW S \in SUBSET Page
  PROVE  Cardinality(Pairs(D \cup N, [t \in Dir |-> IF t \in N THEN S ELSE P[t]]))
           = Cardinality(Pairs(D, P)) + Cardinality(N) * Cardinality(S)
<1>. DEFINE Q == [t \in Dir |-> IF t \in N THEN S ELSE P[t]]
<1>1. Pairs(D \cup N, Q) = Pairs(D, P) \cup (N \X S) /\ Pairs(D, P) \cap (N \X S) = {}
  BY DEF Pairs
<1>2. IsFiniteSet(N) /\ IsFiniteSet(S)
  <2>1. IsFiniteSet(Dir) /\ IsFiniteSet(Page)
    BY Consts, FS_Interval DEF Dir, Page
  <2>. QED BY <2>1, FS_Subset
<1>3. IsFiniteSet(N \X S) /\ Cardinality(N \X S) = Cardinality(N) * Cardinality(S)
  BY <1>2, FS_Product
<1>4. Cardinality(N \X S) \in Nat
  BY <1>3, FS_CardinalityType
<1>5. Cardinality(Pairs(D, P) \cup (N \X S))
        = Cardinality(Pairs(D, P)) + Cardinality(N \X S) - Cardinality(Pairs(D, P) \cap (N \X S))
  BY <1>3, PairsFinite, FS_Union
<1>6. Cardinality(Pairs(D, P) \cap (N \X S)) = 0
  BY <1>1, FS_EmptySet
<1>. HIDE DEF Q
<1>7. Cardinality(Pairs(D \cup N, Q)) = Cardinality(Pairs(D, P)) + Cardinality(N \X S)
  <2>. DEFINE A == Pairs(D, P)
              B == N \X S
              C == Pairs(D \cup N, Q)
  <2>1. Cardinality(A) \in Nat
    BY PairsFinite
  <2>2. C = A \cup B
    BY <1>1
  <2>3. Cardinality(A \cup B) = Cardinality(A) + Cardinality(B) - Cardinality(A \cap B)
    BY <1>5
  <2>4. Cardinality(A \cap B) = 0 /\ Cardinality(B) \in Nat
    BY <1>4, <1>6
  <2>. HIDE DEF A, B, C
  <2>5. Cardinality(C) = Cardinality(A) + Cardinality(B)
    BY <2>1, <2>2, <2>3, <2>4
  <2>. QED BY <2>5 DEF A, B, C
<1>. QED BY <1>3, <1>7 DEF Q

LEMMA PairsDrop ==
  ASSUME NEW D \in SUBSET Dir, NEW P \in [Dir -> SUBSET Page], NEW t \in D
  PROVE  /\ Cardinality(P[t]) \in Nat
         /\ Cardinality(Pairs(D \ {t}, [P EXCEPT ![t] = {}])) = Cardinality(Pairs(D, P)) - Cardinality(P[t])
         /\ Cardinality(P[t]) <= Cardinality(Pairs(D, P))
<1>. DEFINE E == D \ {t}
            Q == [P EXCEPT ![t] = {}]
            R == [u \in Dir |-> IF u \in {t} THEN P[t] ELSE Q[u]]
<1>1. Pairs(E \cup {t}, R) = Pairs(D, P)
  BY DEF Pairs
<1>2. E \in SUBSET Dir /\ Q \in [Dir -> SUBSET Page] /\ {t} \in SUBSET (Dir \ E) /\ P[t] \in SUBSET Page
  OBVIOUS
<1>3. Cardinality(Pairs(E \cup {t}, R)) = Cardinality(Pairs(E, Q)) + Cardinality({t}) * Cardinality(P[t])
  <2>. HIDE DEF E, Q
  <2>. QED BY <1>2, PairsFill DEF R
<1>4. Cardinality({t}) = 1
  BY FS_Singleton
<1>5. Cardinality(P[t]) \in Nat
  <2>1. IsFiniteSet(Page)
    BY Consts, FS_Interval DEF Page
  <2>. QED BY <2>1, <1>2, FS_Subset, FS_CardinalityType
<1>6. Cardinality(Pairs(E, Q)) \in Nat /\ Cardinality(Pairs(D, P)) \in Nat
  BY <1>2, PairsFinite
<1>. HIDE DEF E, Q, R
<1>7. Cardinality(Pairs(E, Q)) = Cardinality(Pairs(D, P)) - Cardinality(P[t])
  BY <1>1, <1>3, <1>4, <1>5, <1>6
<1>. QED BY <1>5, <1>6, <1>7 DEF E, Q

(* There is a directory for everyone: fewer are allocated than there are.   *)
LEMMA NewDirIs ==
  ASSUME SpaceInv
  PROVE  NewDir \in Dir \ dirs
<1>. USE Consts
<1>. DEFINE f == [s \in Slot |-> IF s \in Placed THEN pgdir[s]
                                ELSE IF \E p \in Slot : np[p] = s THEN d[CHOOSE p \in Slot : np[p] = s] ELSE 1]
            R == {f[s] : s \in Slot}
<1>1. f \in Surjection(Slot, R)
  BY DEF Surjection
<1>2. IsFiniteSet(Slot) /\ Cardinality(Slot) = NPROC
  BY FS_Interval DEF Slot
<1>3. IsFiniteSet(R) /\ Cardinality(R) <= NPROC
  BY <1>1, <1>2, FS_Surjection
<1>4. ASSUME NEW t \in dirs PROVE t \in R
  <2>1. CASE \E s \in Placed : pgdir[s] = t
    BY <2>1 DEF Placed
  <2>2. CASE \E p \in Slot : Forking(p) /\ d[p] = t
    <3>1. PICK p \in Slot : Forking(p) /\ d[p] = t
      BY <2>2
    <3>2. np[p] \in Slot /\ np[p] \notin Placed
      BY <3>1 DEF SpaceInv, ForkInv, ForkOf, Placed
    <3>3. \A q \in Slot : np[q] = np[p] => q = p
      BY <3>1, <3>2 DEF SpaceInv, ForkInv, ForkOf
    <3>4. (CHOOSE q \in Slot : np[q] = np[p]) = p
      BY <3>3
    <3>5. f[np[p]] = t
      BY <3>1, <3>2, <3>4
    <3>. QED BY <3>2, <3>5
  <2>. QED BY <2>1, <2>2 DEF SpaceInv, DirInv
<1>. HIDE DEF f, R
<1>5. Cardinality(dirs) <= NPROC
  <2>1. dirs \in SUBSET R
    BY <1>4
  <2>2. Cardinality(dirs) <= Cardinality(R) /\ IsFiniteSet(dirs)
    BY <2>1, <1>3, FS_Subset
  <2>. QED BY <2>2, <1>3, FS_CardinalityType
<1>6. IsFiniteSet(Dir) /\ Cardinality(Dir) = NPROC + 1
  BY FS_Interval DEF Dir
<1>7. dirs \subseteq Dir /\ dirs # Dir
  BY <1>5, <1>6 DEF SpaceInv, TypeOK
<1>. QED BY <1>7 DEF NewDir

-----------------------------------------------------------------------------
(* The steps                                                                *)

LEMMA NextCases ==
  ASSUME [Next]_vars
  PROVE  \/ \E p \in Slot :
              \/ \E n \in Deltas : SbrkCall(p, n)
              \/ GrowPage(p) \/ FreePage(p) \/ SetSize(p) \/ ShareSize(p)
              \/ ForkPage(p) \/ ForkPublish(p) \/ Exec(p) \/ Exit(p)
              \/ \E q \in Slot : ForkCall(p, q) \/ Clone(p, q) \/ Wait(p, q) \/ Join(p, q)
         \/ UNCHANGED vars
BY DEF Next

(* What a step does to who shares a space: nothing, for those that leave    *)
(* the slots in use, their parents and directories alone.                   *)
LEMMA Steady ==
  ASSUME SpaceInv, NEW p \in Slot,
         \/ \E n \in Deltas : SbrkCall(p, n)
         \/ GrowPage(p) \/ FreePage(p) \/ SetSize(p) \/ ShareSize(p) \/ ForkPage(p)
         \/ \E q \in Slot : ForkCall(p, q)
         \/ UNCHANGED vars
  PROVE  /\ parent' = parent /\ pgdir' = pgdir /\ Placed' = Placed
         /\ \A s \in Slot : state'[s] = "LIVE" <=> state[s] = "LIVE"
<1>1. CASE \E n \in Deltas : SbrkCall(p, n)
  BY <1>1 DEF SbrkCall, procs, Placed
<1>2. CASE GrowPage(p) \/ FreePage(p) \/ SetSize(p) \/ ShareSize(p) \/ UNCHANGED vars
  BY <1>2 DEF GrowPage, FreePage, SetSize, ShareSize, procs, vars, Placed
<1>3. CASE ForkPage(p)
  <2>1. Forking(p)
    BY <1>3 DEF ForkPage, Forking
  <2>2. state[np[p]] = "EMBRYO"
    BY <2>1 DEF SpaceInv, ForkInv, ForkOf
  <2>3. state' = state \/ state' = [state EXCEPT ![np[p]] = "UNUSED"]
    BY <1>3 DEF ForkPage
  <2>4. parent' = parent /\ pgdir' = pgdir
    BY <1>3 DEF ForkPage
  <2>. QED BY <2>2, <2>3, <2>4 DEF Placed, SpaceInv, TypeOK
<1>4. CASE \E q \in Slot : ForkCall(p, q)
  <2>1. PICK q \in Slot : ForkCall(p, q)
    BY <1>4
  <2>2. /\ state[q] = "UNUSED" /\ state' = [state EXCEPT ![q] = "EMBRYO"]
        /\ parent' = parent /\ pgdir' = pgdir
    BY <2>1 DEF ForkCall, Unused
  <2>. QED BY <2>2 DEF Placed, SpaceInv, TypeOK
<1>. QED BY <1>1, <1>2, <1>3, <1>4

LEMMA PublishShape ==
  ASSUME SpaceInv, NEW p \in Slot, ForkPublish(p)
  PROVE  \E c \in Slot :
         /\ c = np[p] /\ c \notin Placed /\ Placed' = Placed \cup {c} /\ p # c /\ p \in Placed
         /\ \A x, y \in Slot : Sharing(x, y)' <=> (x = c /\ y = c) \/ Sharing(x, y)
         /\ ~Thread(c)' /\ \A x \in Slot \ {c} : (Thread(x)' <=> Thread(x)) /\ parent'[x] = parent[x]
<1>. USE DEF SpaceInv, Placed
<1>1. Forking(p) /\ state[p] = "LIVE"
  BY DEF ForkPublish, Forking, SlotInv
<1>2. PICK c \in Slot : c = np[p] /\ state[c] = "EMBRYO" /\ \A s \in Slot : pgdir[s] # d[p]
  BY <1>1 DEF ForkInv, ForkOf
<1>3. /\ state' = [state EXCEPT ![c] = "LIVE"] /\ parent' = [parent EXCEPT ![c] = p]
      /\ pgdir' = [pgdir EXCEPT ![c] = d[p]]
  BY <1>2 DEF ForkPublish
<1>4. /\ state'[c] = "LIVE" /\ parent'[c] = p /\ pgdir'[c] = d[p]
      /\ \A s \in Slot \ {c} : state'[s] = state[s] /\ parent'[s] = parent[s] /\ pgdir'[s] = pgdir[s]
  BY <1>2, <1>3 DEF TypeOK
<1>5. c \notin Placed /\ Placed' = Placed \cup {c} /\ p # c /\ p \in Placed
  BY <1>1, <1>2, <1>4
<1>6. ASSUME NEW x \in Slot, NEW y \in Slot PROVE Sharing(x, y)' <=> (x = c /\ y = c) \/ Sharing(x, y)
  BY <1>2, <1>4, <1>5 DEF Sharing
<1>7. ~Thread(c)'
  BY <1>2, <1>4, <1>5 DEF Thread
<1>8. ASSUME NEW x \in Slot \ {c} PROVE Thread(x)' <=> Thread(x)
  <2>1. parent[x] \in Slot => parent[x] # c
    BY <1>2 DEF SlotInv
  <2>. QED BY <2>1, <1>4 DEF Thread
<1>. QED BY <1>2, <1>4, <1>5, <1>6, <1>7, <1>8

LEMMA CloneShape ==
  ASSUME SpaceInv, Ruled, NEW p \in Slot, NEW q \in Slot, Clone(p, q)
  PROVE  /\ q \notin Placed /\ Placed' = Placed \cup {q} /\ p # q /\ p \in Placed
         /\ p # InitProc /\ ~Thread(p) /\ parent'[q] = p
         /\ \A x, y \in Slot : Sharing(x, y)' <=>
              \/ x = q /\ y = q
              \/ x = q /\ Sharing(p, y)
              \/ y = q /\ Sharing(x, p)
              \/ Sharing(x, y)
         /\ Thread(q)' /\ \A x \in Slot \ {q} : (Thread(x)' <=> Thread(x)) /\ parent'[x] = parent[x]
<1>. USE DEF SpaceInv, Placed
<1>1. state[p] = "LIVE" /\ state[q] = "UNUSED" /\ p # InitProc /\ ~IsThread(p)
  BY DEF Clone, Calls, Unused, Ruled
<1>2. ~Thread(p)
  BY <1>1 DEF IsThread, Threads, Thread
<1>3. /\ state' = [state EXCEPT ![q] = "LIVE"] /\ parent' = [parent EXCEPT ![q] = p]
      /\ pgdir' = [pgdir EXCEPT ![q] = pgdir[p]]
  BY DEF Clone
<1>4. /\ state'[q] = "LIVE" /\ parent'[q] = p /\ pgdir'[q] = pgdir[p]
      /\ \A s \in Slot \ {q} : state'[s] = state[s] /\ parent'[s] = parent[s] /\ pgdir'[s] = pgdir[s]
  BY <1>3 DEF TypeOK
<1>5. q \notin Placed /\ Placed' = Placed \cup {q} /\ p # q /\ p \in Placed
  BY <1>1, <1>4
<1>6. ASSUME NEW x \in Slot, NEW y \in Slot
      PROVE Sharing(x, y)' <=>
              \/ x = q /\ y = q
              \/ x = q /\ Sharing(p, y)
              \/ y = q /\ Sharing(x, p)
              \/ Sharing(x, y)
  <2>1. CASE x = q /\ y = q
    <3>1. Sharing(q, q)'
      BY <1>4, <1>5 DEF Sharing
    <3>. QED BY <2>1, <3>1
  <2>2. CASE x = q /\ y # q
    BY <2>2, <1>4, <1>5 DEF Sharing
  <2>3. CASE x # q /\ y = q
    BY <2>3, <1>4, <1>5 DEF Sharing
  <2>4. CASE x # q /\ y # q
    BY <2>4, <1>4, <1>5 DEF Sharing
  <2>. QED BY <2>1, <2>2, <2>3, <2>4
<1>7. Thread(q)'
  BY <1>4, <1>5 DEF Thread
<1>8. ASSUME NEW x \in Slot \ {q} PROVE Thread(x)' <=> Thread(x)
  <2>1. parent[x] \in Slot => parent[x] # q
    BY <1>1 DEF SlotInv
  <2>. QED BY <2>1, <1>4 DEF Thread
<1>9. \A x \in Slot \ {q} : (Thread(x)' <=> Thread(x)) /\ parent'[x] = parent[x]
  BY <1>4, <1>8
<1>. HIDE DEF SpaceInv, Placed
<1>10. p # InitProc /\ parent'[q] = p
  BY <1>1, <1>4
<1>. QED BY <1>2, <1>5, <1>6, <1>7, <1>9, <1>10

LEMMA ExecShape ==
  ASSUME SpaceInv, NEW p \in Slot, Exec(p)
  PROVE  /\ Placed' = Placed /\ p \in Placed /\ p # InitProc /\ parent' = parent /\ state' = state
         /\ \A q \in Slot : Sharing(p, q) => q = p
         /\ \A x, y \in Slot : Sharing(x, y)' <=> Sharing(x, y)
         /\ \A x \in Slot : Thread(x)' <=> Thread(x)
         /\ ~Thread(p)
<1>. USE DEF SpaceInv, Placed
<1>1. state[p] = "LIVE" /\ p # InitProc /\ Sharers(p) = {} /\ parent' = parent /\ state' = state
  BY DEF Exec, Calls
<1>2. \A q \in Slot : Sharing(p, q) => q = p
  BY <1>1 DEF Sharing, Sharers
<1>3. NewDir \in Dir \ dirs
  BY NewDirIs
<1>4. pgdir'[p] = NewDir /\ \A s \in Slot \ {p} : pgdir'[s] = pgdir[s]
  BY DEF Exec, TypeOK
<1>5. \A s \in Slot : pgdir[s] # NewDir
  BY <1>3, Consts DEF SlotInv
<1>6. ASSUME NEW x \in Slot, NEW y \in Slot PROVE Sharing(x, y)' <=> Sharing(x, y)
  BY <1>1, <1>2, <1>4, <1>5 DEF Sharing
<1>7. ~Thread(p)
  <2>1. SUFFICES ASSUME Thread(p) PROVE FALSE
    OBVIOUS
  <2>2. parent[p] \in Placed /\ Sharing(p, parent[p])
    BY <1>1, <2>1 DEF SlotInv, Thread, Sharing
  <2>3. parent[p] = p
    BY <1>2, <2>1, <2>2 DEF Thread
  <2>. QED BY <2>1, <2>3 DEF ShareInv
<1>8. ASSUME NEW x \in Slot PROVE Thread(x)' <=> Thread(x)
  <2>1. CASE x = p
    BY <2>1, <1>1, <1>4, <1>5, <1>7 DEF Thread
  <2>2. CASE x # p /\ parent[x] = p
    <3>1. x \in Placed
      BY <2>2, Consts DEF SlotInv
    <3>2. pgdir[x] # pgdir[p]
      BY <1>1, <1>2, <2>2, <3>1 DEF Sharing
    <3>. QED BY <2>2, <3>2, <1>1, <1>4, <1>5 DEF Thread
  <2>3. CASE x # p /\ parent[x] # p
    BY <2>3, <1>1, <1>4 DEF Thread
  <2>. QED BY <2>1, <2>2, <2>3
<1>. QED BY <1>1, <1>2, <1>6, <1>7, <1>8


LEMMA ReapShape ==
  ASSUME SpaceInv, NEW p \in Slot, NEW z \in Slot, Wait(p, z) \/ Join(p, z)
  PROVE  /\ z \in Placed /\ Placed' = Placed \ {z} /\ p # z /\ z # InitProc /\ state[z] = "ZOMBIE"
         /\ \A s \in Slot : parent[s] # z
         /\ \A x, y \in Slot : Sharing(x, y)' <=> Sharing(x, y) /\ x # z /\ y # z
         /\ ~Thread(z)' /\ \A x \in Slot \ {z} : (Thread(x)' <=> Thread(x)) /\ parent'[x] = parent[x]
         /\ \A s \in Slot \ {z} : state'[s] = state[s] /\ pgdir'[s] = pgdir[s] /\ sz'[s] = sz[s]
         /\ state'[z] = "UNUSED" /\ parent'[z] = NoProc /\ pgdir'[z] = NoDir
         /\ UNCHANGED local /\ UNCHANGED panicked
<1>. USE DEF SpaceInv, Placed
<1>1. /\ state[p] = "LIVE" /\ state[z] = "ZOMBIE"
      /\ state' = [state EXCEPT ![z] = "UNUSED"] /\ parent' = [parent EXCEPT ![z] = NoProc]
      /\ pgdir' = [pgdir EXCEPT ![z] = NoDir] /\ sz' = [sz EXCEPT ![z] = 0]
      /\ UNCHANGED local /\ UNCHANGED panicked
  BY DEF Wait, Join, Reaped
<1>2. p # z /\ z # InitProc /\ z \in Placed
  BY <1>1 DEF SlotInv
<1>3. /\ state'[z] = "UNUSED" /\ parent'[z] = NoProc /\ pgdir'[z] = NoDir
      /\ \A s \in Slot \ {z} : /\ state'[s] = state[s] /\ pgdir'[s] = pgdir[s]
                              /\ sz'[s] = sz[s] /\ parent'[s] = parent[s]
  BY <1>1 DEF TypeOK
<1>4. Placed' = Placed \ {z}
  BY <1>3
<1>5. \A s \in Slot : parent[s] # z
  BY <1>1 DEF SlotInv
<1>6. ASSUME NEW x \in Slot, NEW y \in Slot PROVE Sharing(x, y)' <=> Sharing(x, y) /\ x # z /\ y # z
  BY <1>3, <1>4 DEF Sharing
<1>7. ~Thread(z)'
  BY <1>3, Consts DEF Thread
<1>8. ASSUME NEW x \in Slot \ {z} PROVE (Thread(x)' <=> Thread(x)) /\ parent'[x] = parent[x]
  BY <1>3, <1>5 DEF Thread
<1>. HIDE DEF SpaceInv, Placed
<1>. QED BY <1>1, <1>2, <1>3, <1>4, <1>5, <1>6, <1>7, <1>8

(* A caller is alone in its space or finds it at rest.                      *)
LEMMA AtRest ==
  ASSUME SpaceInv, Ruled, NEW p \in Slot, Calls(p)
  PROVE  /\ state[p] = "LIVE" /\ pc[p] = "user" /\ p \in Placed
         /\ \A q \in Slot : Sharing(p, q) => pc[q] = "user"
         /\ Held(p) = Below(sz[p])
<1>1. state[p] = "LIVE" /\ pc[p] = "user" /\ p \in Placed
  BY DEF Calls, Placed
<1>2. ASSUME NEW q \in Slot, Sharing(p, q) PROVE pc[q] = "user"
  <2>1. q # p => q \in Sharers(p)
    BY <1>2 DEF Sharing, Sharers, Placed
  <2>. QED BY <2>1, <1>1 DEF Calls, Ruled
<1>3. ~Sizing(p) /\ \A q \in Slot : Sharing(p, q) => ~Sizing(q)
  BY <1>1, <1>2 DEF Sizing
<1>. QED BY <1>1, <1>2, <1>3 DEF SpaceInv, PagesInv, PagesOf

Copied(p, copy, new) ==
  /\ copy \in [Threads(p) -> Dir \ dirs] /\ new \in SUBSET (Dir \ dirs)
  /\ new = {copy[q] : q \in Threads(p)} /\ Cardinality(new) = Cardinality(Threads(p))
  /\ \A q, r \in Threads(p) : copy[q] = copy[r] => q = r
  /\ \A q \in Slot : pgdir'[q] = IF q \in Threads(p) THEN copy[q] ELSE pgdir[q]
  /\ dirs' = dirs \cup new /\ pt' = [t \in Dir |-> IF t \in new THEN Below(sz[p]) ELSE pt[t]]
  /\ free' = free - Cardinality(Threads(p)) * (1 + Up(sz[p]))
  /\ Cardinality(Threads(p)) * (1 + Up(sz[p])) <= free

LEMMA ExitShape ==
  ASSUME SpaceInv, Ruled, NEW p \in Slot, Exit(p)
  PROVE  /\ \E copy, new : Copied(p, copy, new)
         /\ p # InitProc /\ p \in Placed /\ state[p] = "LIVE" /\ panicked' = panicked
         /\ \A q \in Slot : parent'[q] = IF parent[q] = p THEN InitProc ELSE parent[q]
         /\ state' = [state EXCEPT ![p] = "ZOMBIE"] /\ Placed' = Placed /\ sz' = sz /\ UNCHANGED local
         /\ Threads(p) \subseteq Placed \ {InitProc, p}
         /\ \A q \in Slot : q \in Threads(p) <=> Thread(q) /\ parent[q] = p
         /\ \A x, y \in Slot : Sharing(x, y)' <=>
              (x \in Placed /\ x = y) \/ (Sharing(x, y) /\ x \notin Threads(p) /\ y \notin Threads(p))
         /\ \A x \in Slot : Thread(x)' <=> Thread(x) /\ x \notin Threads(p)
<1>. DEFINE ts == Threads(p)
            need == Cardinality(ts) * (1 + Up(sz[p]))
<1>1. state[p] = "LIVE" /\ pc[p] = "user" /\ p \in Placed /\ Held(p) = Below(sz[p]) /\ p # InitProc
  BY AtRest DEF Exit
<1>2. "exits fit" \in Rules
  BY DEF Ruled
<1>3. \A q \in Slot : q \in Threads(p) <=> Thread(q) /\ parent[q] = p
  BY DEF Thread, Threads
<1>4. ts \subseteq Placed \ {InitProc, p}
  <2>1. ASSUME NEW q \in ts PROVE q \in Placed /\ q # InitProc /\ q # p
    <3>1. q \in Slot /\ parent[q] = p /\ Thread(q) /\ ~Thread(p)
      BY <1>3 DEF Threads, SpaceInv, ShareInv
    <3>. QED BY <3>1, Consts DEF SpaceInv, SlotInv
  <2>. QED BY <2>1
<1>5. /\ need <= free
      /\ ~(need > free \/ ~(Below(sz[p]) \subseteq pt[pgdir[p]]))
  <2>1. need <= free
    BY <1>2 DEF Exit
  <2>2. Up(sz[p]) \in Nat /\ free \in Nat
    BY UpFacts DEF SpaceInv, TypeOK
  <2>3. IsFiniteSet(ts)
    <3>1. IsFiniteSet(Slot) /\ ts \in SUBSET Slot
      BY Consts, FS_Interval DEF Slot, Threads
    <3>. QED BY <3>1, FS_Subset
  <2>4. Cardinality(ts) \in Nat
    BY <2>3, FS_CardinalityType
  <2>5. need \in Nat
    BY <2>2, <2>4
  <2>. HIDE DEF need
  <2>. QED BY <2>1, <2>2, <2>5, <1>1 DEF Held
<1>6. PICK copy \in [ts -> Dir \ dirs] :
        /\ \A q, r \in ts : q # r => copy[q] # copy[r]
        /\ pgdir' = [q \in Slot |-> IF q \in ts THEN copy[q] ELSE pgdir[q]]
        /\ dirs' = dirs \cup {copy[q] : q \in ts}
        /\ pt' = [t \in Dir |-> IF t \in {copy[q] : q \in ts} THEN Below(sz[p]) ELSE pt[t]]
        /\ free' = free - need
        /\ parent' = [q \in Slot |-> IF parent[q] = p THEN InitProc ELSE parent[q]]
        /\ state' = [state EXCEPT ![p] = "ZOMBIE"]
        /\ UNCHANGED <<sz, panicked>>
  BY <1>5 DEF Exit
<1>. DEFINE new == {copy[q] : q \in ts}
<1>7. new \in SUBSET (Dir \ dirs)
  BY <1>6
<1>8. Cardinality(new) = Cardinality(ts)
  <2>1. IsFiniteSet(ts)
    <3>1. IsFiniteSet(Slot) /\ ts \in SUBSET Slot
      BY Consts, FS_Interval DEF Slot, Threads
    <3>. QED BY <3>1, FS_Subset
  <2>2. copy \in Surjection(ts, new)
    BY <1>6 DEF Surjection
  <2>3. copy \in Injection(ts, new)
    <3>1. copy \in [ts -> new] /\ \A q, r \in ts : copy[q] = copy[r] => q = r
      BY <1>6
    <3>. HIDE DEF ts, new
    <3>. QED BY <3>1 DEF Injection, IsInjective
  <2>. QED BY <2>1, <2>2, <2>3, FS_Surjection
<1>9. Placed' = Placed /\ UNCHANGED local
  <2>1. UNCHANGED local
    BY DEF Exit
  <2>. QED BY <2>1, <1>1, <1>6 DEF Placed, SpaceInv, TypeOK
<1>10. \A x \in Slot : pgdir[x] \notin new
  BY <1>7, Consts DEF SpaceInv, SlotInv
<1>11. \A q \in ts : copy[q] \in new
  OBVIOUS
<1>12. \A q \in Slot : pgdir'[q] = IF q \in ts THEN copy[q] ELSE pgdir[q]
  BY <1>6
<1>13. \A q \in Slot : parent'[q] = IF parent[q] = p THEN InitProc ELSE parent[q]
  BY <1>6
<1>. HIDE DEF new, ts, need
<1>14. ASSUME NEW x \in Slot, NEW y \in Slot
       PROVE Sharing(x, y)' <=> (x \in Placed /\ x = y) \/ (Sharing(x, y) /\ x \notin ts /\ y \notin ts)
  <2>1. CASE x \in ts /\ y \in ts
    <3>1. x \in Placed /\ y \in Placed
      BY <2>1, <1>4
    <3>2. pgdir'[x] = pgdir'[y] <=> x = y
      BY <2>1, <1>6, <1>12
    <3>. QED BY <2>1, <3>1, <3>2, <1>9 DEF Sharing
  <2>2. CASE x \in ts /\ y \notin ts
    BY <2>2, <1>4, <1>9, <1>10, <1>11, <1>12 DEF Sharing
  <2>3. CASE x \notin ts /\ y \in ts
    BY <2>3, <1>4, <1>9, <1>10, <1>11, <1>12 DEF Sharing
  <2>4. CASE x \notin ts /\ y \notin ts
    BY <2>4, <1>9, <1>12 DEF Sharing
  <2>. QED BY <2>1, <2>2, <2>3, <2>4
<1>15. ASSUME NEW x \in Slot PROVE Thread(x)' <=> Thread(x) /\ x \notin ts
  <2>0. InitProc \in Slot /\ InitProc \notin ts /\ InitProc \in Placed
    BY <1>4, Consts DEF SpaceInv, SlotInv, Placed
  <2>1. CASE x \in ts
    <3>1. parent'[x] = InitProc /\ pgdir'[x] = copy[x] /\ pgdir'[InitProc] = pgdir[InitProc]
      BY <2>0, <2>1, <1>3, <1>12, <1>13 DEF ts
    <3>. QED BY <2>0, <2>1, <3>1, <1>10, <1>11 DEF Thread
  <2>2. CASE x \notin ts /\ parent[x] = p
    <3>1. parent'[x] = InitProc /\ pgdir'[x] = pgdir[x] /\ pgdir'[InitProc] = pgdir[InitProc] /\ ~Thread(x)
      BY <2>0, <2>2, <1>3, <1>12, <1>13 DEF ts
    <3>2. x \in Placed /\ x # InitProc
      BY <2>2, Consts DEF SpaceInv, SlotInv
    <3>3. ~Sharing(x, InitProc)
      BY <3>2 DEF SpaceInv, ShareInv
    <3>. QED BY <2>0, <3>1, <3>2, <3>3 DEF Thread, Sharing
  <2>3. CASE x \notin ts /\ parent[x] # p
    <3>1. parent'[x] = parent[x] /\ pgdir'[x] = pgdir[x]
      BY <2>3, <1>12, <1>13
    <3>2. CASE parent[x] \in ts
      <4>1. Thread(parent[x]) /\ ~Thread(x)
        BY <3>2, <1>3, <1>4 DEF ts, SpaceInv, ShareInv, Placed
      <4>2. parent[x] \in Slot /\ pgdir'[parent[x]] \in new
        BY <3>2, <1>4, <1>11, <1>12 DEF Placed
      <4>. QED BY <4>1, <4>2, <3>1, <1>10 DEF Thread
    <3>3. CASE parent[x] \notin ts
      BY <3>1, <3>3, <2>3, <1>12 DEF Thread
    <3>. QED BY <3>2, <3>3
  <2>. QED BY <2>1, <2>2, <2>3
<1>16. copy \in [Threads(p) -> Dir \ dirs]
  BY DEF ts
<1>17. Copied(p, copy, new) /\ Threads(p) \subseteq Placed \ {InitProc, p} /\ panicked' = panicked /\ sz' = sz
  BY <1>4, <1>5, <1>6, <1>7, <1>8, <1>12, <1>16 DEF new, ts, need, Copied
<1>18. \A x, y \in Slot : Sharing(x, y)' <=>
              (x \in Placed /\ x = y) \/ (Sharing(x, y) /\ x \notin Threads(p) /\ y \notin Threads(p))
  BY <1>14 DEF ts
<1>19. \A x \in Slot : Thread(x)' <=> Thread(x) /\ x \notin Threads(p)
  BY <1>15 DEF ts
<1>. QED BY <1>1, <1>3, <1>6, <1>7, <1>9, <1>13, <1>16, <1>17, <1>18, <1>19

-----------------------------------------------------------------------------
(* Places                                                                   *)

(* A step of p that leaves the slots in use alone.                          *)
Step(p) ==
  \/ \E n \in Deltas : SbrkCall(p, n)
  \/ GrowPage(p) \/ FreePage(p) \/ SetSize(p) \/ ShareSize(p) \/ ForkPage(p)
  \/ \E q \in Slot : ForkCall(p, q)

(* The values of the locals of p and of the others after a Goto.            *)
LEMMA GotoIs ==
  ASSUME TypeOK, NEW p \in Slot, NEW place, NEW i, NEW size, Goto(p, place, i, size)
  PROVE  /\ pc'[p] = place /\ goal'[p] = IF place = "user" THEN 0 ELSE size
         /\ a'[p] = IF place \in {"grow", "undo", "shrink", "copy"} THEN i ELSE 0
         /\ \A s \in Slot \ {p} : pc'[s] = pc[s] /\ a'[s] = a[s] /\ goal'[s] = goal[s]
         /\ pc' = [pc EXCEPT ![p] = place]
         /\ a' = [a EXCEPT ![p] = IF place \in {"grow", "undo", "shrink", "copy"} THEN i ELSE 0]
         /\ goal' = [goal EXCEPT ![p] = IF place = "user" THEN 0 ELSE size]
BY DEF Goto, TypeOK

(* Where sbrk begins.                                                       *)
LEMMA SbrkIs ==
  ASSUME SpaceInv, Ruled, NEW p \in Slot, NEW n \in Deltas, SbrkCall(p, n)
  PROVE  /\ Calls(p) /\ p # InitProc /\ ~Thread(p)
         /\ UNCHANGED <<procs, np, d, memory, panicked>>
         /\ \/ /\ sz[p] + n \in 0 .. USERTOP /\ sz[p] < sz[p] + n
               /\ Goto(p, IF Up(sz[p]) < Up(sz[p] + n) THEN "grow" ELSE "size", Up(sz[p]), sz[p] + n)
            \/ /\ sz[p] + n \in 1 .. USERTOP /\ sz[p] + n < sz[p]
               /\ Goto(p, IF Up(sz[p] + n) < Up(sz[p]) THEN "shrink" ELSE "size", Up(sz[p] + n), sz[p] + n)
            \/ Goto(p, "size", 0, sz[p])
<1>1. /\ Calls(p) /\ p # InitProc /\ ~IsThread(p) /\ sz[p] + n # 0 /\ sz[p] + n <= USERTOP
      /\ UNCHANGED <<procs, np, d, memory, panicked>>
  BY DEF SbrkCall, Ruled
<1>2. ~Thread(p)
  BY <1>1 DEF IsThread, Threads, Thread
<1>3. n \in Int /\ sz[p] \in 0 .. USERTOP /\ USERTOP \in Nat
  BY SpaceAssumption DEF SpaceInv, TypeOK
<1>4. CASE n > 0
  <2>1. sz[p] + n \in 0 .. USERTOP /\ sz[p] < sz[p] + n
    BY <1>1, <1>3, <1>4
  <2>2. Loop(p, "grow", Up(sz[p]), sz[p] + n, "size", sz[p] + n)
    <3>1. n > 0 /\ ~(n < 0 /\ sz[p] + n >= 0)
      BY <1>3, <1>4
    <3>. QED BY <3>1 DEF SbrkCall
  <2>3. Up(sz[p]) \in Nat
    BY <1>3, UpFacts
  <2>. QED BY <2>1, <2>2, <2>3, <1>1, <1>2, LoopIs
<1>5. CASE n < 0 /\ sz[p] + n >= 0
  <2>1. sz[p] + n \in 1 .. USERTOP /\ sz[p] + n < sz[p] /\ sz[p] + n \in 0 .. USERTOP
    BY <1>1, <1>3, <1>5
  <2>2. Loop(p, "shrink", Up(sz[p] + n), sz[p], AfterFree(sz[p] + n), sz[p] + n)
    <3>1. ~(n > 0) /\ n < 0 /\ sz[p] + n >= 0
      BY <1>3, <1>5
    <3>. QED BY <3>1 DEF SbrkCall
  <2>3. AfterFree(sz[p] + n) = "size"
    BY <1>1 DEF AfterFree
  <2>4. Up(sz[p] + n) \in Nat
    BY <2>1, UpFacts
  <2>. QED BY <2>1, <2>2, <2>3, <2>4, <1>1, <1>2, <1>3, LoopIs
<1>6. CASE ~(n > 0) /\ ~(n < 0 /\ sz[p] + n >= 0)
  <2>1. Goto(p, "size", 0, sz[p])
    BY <1>6 DEF SbrkCall
  <2>. QED BY <2>1, <1>1, <1>2
<1>. QED BY <1>4, <1>5, <1>6

(* A step of growth: of a page, or to giving back what the call allocated.  *)
LEMMA GrowIs ==
  ASSUME SpaceInv, NEW p \in Slot, GrowPage(p)
  PROVE  /\ pc[p] = "grow" /\ state[p] = "LIVE" /\ p \in Placed /\ UNCHANGED <<procs, np, d, dirs>>
         /\ panicked' = panicked
         /\ \/ /\ Goto(p, IF Up(sz[p]) < Up(goal[p]) THEN "undo" ELSE "user", Up(sz[p]), goal[p])
               /\ UNCHANGED <<pt, free>>
            \/ /\ free > 0 /\ a[p] \notin Held(p) /\ a[p] \in Page
               /\ pt' = [pt EXCEPT ![pgdir[p]] = @ \cup {a[p]}] /\ free' = free - 1
               /\ Goto(p, IF a[p] + 1 < Up(goal[p]) THEN "grow" ELSE "size", a[p] + 1, goal[p])
<1>1. pc[p] = "grow" /\ UNCHANGED <<procs, np, d, dirs>>
  BY DEF GrowPage
<1>2. state[p] = "LIVE" /\ p \in Placed
  BY <1>1 DEF SpaceInv, SlotInv, Placed
<1>3. /\ sz[p] \in 0 .. USERTOP /\ goal[p] \in 0 .. USERTOP /\ a[p] \in Nat /\ free \in Nat
      /\ Up(sz[p]) \in Nat /\ Up(goal[p]) \in 0 .. NPAGE
  BY UpFacts DEF SpaceInv, TypeOK
<1>4. a[p] < Up(goal[p]) /\ Held(p) = 0 .. a[p] - 1
  BY <1>1, <1>2 DEF SpaceInv, PagesInv, PagesOf
<1>5. a[p] \notin Held(p) /\ a[p] \in Page
  BY <1>3, <1>4, Consts DEF Page
<1>6. CASE free = 0
  <2>1. Loop(p, "undo", Up(sz[p]), goal[p], "user", goal[p]) /\ UNCHANGED <<pt, free, panicked>>
    BY <1>6 DEF GrowPage, UndoFrom
  <2>. QED BY <2>1, <1>1, <1>2, <1>3, LoopIs
<1>7. CASE free > 0
  <2>1. ~(free = 0) /\ ~(free > 0 /\ a[p] \in pt[pgdir[p]])
    BY <1>3, <1>5, <1>7 DEF Held
  <2>2. /\ pt' = [pt EXCEPT ![pgdir[p]] = @ \cup {a[p]}]
        /\ free' = free - 1
        /\ Loop(p, "grow", a[p] + 1, goal[p], "size", goal[p])
        /\ UNCHANGED panicked
    BY <2>1 DEF GrowPage
  <2>. QED BY <2>2, <1>1, <1>2, <1>3, <1>5, <1>7, LoopIs
<1>. QED BY <1>3, <1>6, <1>7

LEMMA FreeIs ==
  ASSUME SpaceInv, NEW p \in Slot, FreePage(p)
  PROVE  /\ state[p] = "LIVE" /\ p \in Placed /\ UNCHANGED <<procs, np, d, dirs, panicked>>
         /\ pt' = [pt EXCEPT ![pgdir[p]] = @ \ {a[p]}]
         /\ free' = IF a[p] \in pt[pgdir[p]] THEN free + 1 ELSE free
         /\ \/ /\ pc[p] = "undo"
               /\ Goto(p, IF a[p] + 1 < Up(goal[p]) THEN "undo" ELSE "user", a[p] + 1, goal[p])
            \/ /\ pc[p] = "shrink"
               /\ Goto(p, IF a[p] + 1 < Up(sz[p]) THEN "shrink" ELSE "size", a[p] + 1, goal[p])
<1>1. /\ pc[p] \in {"shrink", "undo"} /\ UNCHANGED <<procs, np, d, dirs, panicked>>
      /\ pt' = [pt EXCEPT ![pgdir[p]] = @ \ {a[p]}]
      /\ free' = IF a[p] \in pt[pgdir[p]] THEN free + 1 ELSE free
      /\ Loop(p, pc[p], a[p] + 1, FreeLimit(p),
              IF pc[p] = "undo" THEN "user" ELSE AfterFree(goal[p]), goal[p])
  BY DEF FreePage
<1>2. state[p] = "LIVE" /\ p \in Placed
  BY <1>1 DEF SpaceInv, SlotInv, Placed
<1>3. sz[p] \in 0 .. USERTOP /\ goal[p] \in 0 .. USERTOP /\ a[p] + 1 \in Nat
  BY DEF SpaceInv, TypeOK
<1>4. CASE pc[p] = "undo"
  <2>1. Loop(p, "undo", a[p] + 1, goal[p], "user", goal[p])
    BY <1>1, <1>4 DEF FreeLimit
  <2>. QED BY <2>1, <1>1, <1>2, <1>3, <1>4, LoopIs
<1>5. CASE pc[p] = "shrink"
  <2>1. goal[p] > 0
    BY <1>2, <1>5 DEF SpaceInv, PagesInv, PagesOf
  <2>2. AfterFree(goal[p]) = "size"
    BY <2>1, <1>3 DEF AfterFree
  <2>3. Loop(p, "shrink", a[p] + 1, sz[p], "size", goal[p])
    BY <2>2, <1>1, <1>5 DEF FreeLimit
  <2>. QED BY <2>3, <1>1, <1>2, <1>3, <1>5, LoopIs
<1>. QED BY <1>1, <1>4, <1>5

LEMMA ForkCallIs ==
  ASSUME SpaceInv, Ruled, NEW p \in Slot, NEW q \in Slot, ForkCall(p, q)
  PROVE  /\ Calls(p) /\ state[q] = "UNUSED" /\ free > 0 /\ NewDir \in Dir \ dirs
         /\ state' = [state EXCEPT ![q] = "EMBRYO"]
         /\ np' = [np EXCEPT ![p] = q] /\ d' = [d EXCEPT ![p] = NewDir]
         /\ dirs' = dirs \cup {NewDir} /\ pt' = [pt EXCEPT ![NewDir] = {}] /\ free' = free - 1
         /\ Goto(p, IF 0 < Up(sz[p]) THEN "copy" ELSE "publish", 0, sz[p])
         /\ UNCHANGED <<parent, pgdir, sz, panicked>>
<1>1. Loop(p, "copy", 0, sz[p], "publish", sz[p]) /\ sz[p] \in 0 .. USERTOP
  BY DEF ForkCall, SpaceInv, TypeOK
<1>2. Goto(p, IF 0 < Up(sz[p]) THEN "copy" ELSE "publish", 0, sz[p])
  BY <1>1, LoopIs
<1>3. NewDir \in Dir \ dirs
  BY NewDirIs
<1>. QED BY <1>2, <1>3 DEF ForkCall, Unused

LEMMA ForkPageIs ==
  ASSUME SpaceInv, NEW p \in Slot, ForkPage(p)
  PROVE  /\ pc[p] = "copy" /\ Forking(p) /\ state[p] = "LIVE" /\ p \in Placed
         /\ UNCHANGED <<parent, pgdir, sz, panicked>>
         /\ np[p] \in Slot /\ state[np[p]] = "EMBRYO" /\ d[p] \in dirs /\ d[p] \in Dir
         /\ a[p] \in Nat /\ a[p] \in Page /\ a[p] < Up(sz[p]) /\ goal[p] = sz[p] /\ pt[d[p]] = 0 .. a[p] - 1
         /\ \/ /\ free' = Freed(d[p])
               /\ free = 0 /\ dirs' = dirs \ {d[p]} /\ pt' = [pt EXCEPT ![d[p]] = {}]
               /\ state' = [state EXCEPT ![np[p]] = "UNUSED"]
               /\ np' = [np EXCEPT ![p] = NoProc] /\ d' = [d EXCEPT ![p] = NoDir]
               /\ Goto(p, "user", 0, 0)
            \/ /\ pt' = [pt EXCEPT ![d[p]] = @ \cup {a[p]}]
               /\ free > 0 /\ free' = free - 1
               /\ Goto(p, IF a[p] + 1 < Up(goal[p]) THEN "copy" ELSE "publish", a[p] + 1, goal[p])
               /\ UNCHANGED <<state, np, d, dirs>>
<1>1. pc[p] = "copy" /\ Forking(p) /\ UNCHANGED <<parent, pgdir, sz>>
  BY DEF ForkPage, Forking
<1>2. state[p] = "LIVE" /\ p \in Placed
  BY <1>1 DEF SpaceInv, SlotInv, Placed
<1>3. /\ np[p] \in Slot /\ state[np[p]] = "EMBRYO" /\ d[p] \in dirs /\ d[p] \in Dir
      /\ a[p] < Up(sz[p]) /\ goal[p] = sz[p] /\ pt[d[p]] = 0 .. a[p] - 1
  BY <1>1 DEF SpaceInv, ForkInv, ForkOf, TypeOK
<1>4. a[p] \in Nat /\ sz[p] \in 0 .. USERTOP /\ Up(sz[p]) \in 0 .. NPAGE /\ free \in Nat
  BY UpFacts DEF SpaceInv, TypeOK
<1>5. a[p] \in Page /\ a[p] \in Below(sz[p])
  BY <1>3, <1>4, Consts DEF Page, Below
<1>6. ~Sizing(p) /\ \A q \in Slot : Sharing(p, q) => ~Sizing(q)
  BY <1>1 DEF SpaceInv, CallInv, Sizing
<1>7. Held(p) = Below(sz[p])
  BY <1>2, <1>6 DEF SpaceInv, PagesInv, PagesOf
<1>8. a[p] \in pt[pgdir[p]]
  BY <1>5, <1>7 DEF Held
<1>9. CASE free = 0
  <2>1. /\ free' = Freed(d[p])
        /\ dirs' = dirs \ {d[p]} /\ pt' = [pt EXCEPT ![d[p]] = {}]
        /\ state' = [state EXCEPT ![np[p]] = "UNUSED"]
        /\ np' = [np EXCEPT ![p] = NoProc] /\ d' = [d EXCEPT ![p] = NoDir]
        /\ Goto(p, "user", 0, 0) /\ UNCHANGED panicked
    BY <1>8, <1>9 DEF ForkPage
  <2>. QED BY <2>1, <1>1, <1>2, <1>3, <1>4, <1>5, <1>9
<1>10. CASE free > 0
  <2>1. /\ pt' = [pt EXCEPT ![d[p]] = @ \cup {a[p]}]
        /\ free' = free - 1
        /\ Loop(p, "copy", a[p] + 1, goal[p], "publish", goal[p])
        /\ UNCHANGED <<state, np, d, dirs, panicked>>
    BY <1>4, <1>8, <1>10 DEF ForkPage
  <2>. QED BY <2>1, <1>1, <1>2, <1>3, <1>4, <1>5, <1>10, LoopIs
<1>. QED BY <1>4, <1>9, <1>10

LEMMA SizeIs ==
  ASSUME SpaceInv, NEW p \in Slot, SetSize(p) \/ ShareSize(p)
  PROVE  /\ state[p] = "LIVE" /\ p \in Placed /\ Sizing(p)
         /\ UNCHANGED <<state, parent, pgdir, np, d, memory, panicked>>
         /\ \/ pc[p] = "size" /\ sz' = [sz EXCEPT ![p] = goal[p]] /\ Goto(p, "share", 0, 0)
            \/ /\ pc[p] = "share" /\ Goto(p, "user", 0, 0)
               /\ sz' = [q \in Slot |-> IF q \in Threads(p) THEN sz[p] ELSE sz[q]]
<1>1. pc[p] \in {"size", "share"} /\ UNCHANGED <<state, parent, pgdir, np, d, memory, panicked>>
  BY DEF SetSize, ShareSize
<1>2. state[p] = "LIVE" /\ p \in Placed /\ Sizing(p)
  BY <1>1 DEF SpaceInv, SlotInv, Placed, Sizing
<1>. QED BY <1>1, <1>2 DEF SetSize, ShareSize

(* A step of p is of p alone: the others are where they were, and those     *)
(* that share its space are in no call.                                     *)
LEMMA PcStep ==
  ASSUME SpaceInv, Ruled, NEW p \in Slot, Step(p)
  PROVE  /\ state[p] = "LIVE" /\ p \in Placed
         /\ \A s \in Slot \ {p} : /\ pc'[s] = pc[s] /\ a'[s] = a[s] /\ goal'[s] = goal[s]
                             /\ np'[s] = np[s] /\ d'[s] = d[s]
         /\ \A s \in Slot \ {p} : Sharing(p, s) => pc[s] = "user"
         /\ Sizing(p)' => p # InitProc /\ ~Thread(p)
         /\ pc'[p] = "share" => SetSize(p)
         /\ pc[p] = "share" => ShareSize(p)
         /\ panicked' = panicked
<1>. USE DEF Sizing
<1>0. TypeOK /\ (Sizing(p) => p # InitProc /\ ~Thread(p))
  BY DEF SpaceInv, SlotInv, CallInv
<1>1. ASSUME pc[p] # "user" PROVE \A s \in Slot \ {p} : Sharing(p, s) => pc[s] = "user"
  BY <1>1 DEF SpaceInv, CallInv
<1>2. CASE \E n \in Deltas : SbrkCall(p, n)
  <2>1. PICK n \in Deltas : SbrkCall(p, n)
    BY <1>2
  <2>2. Calls(p) /\ p # InitProc /\ ~Thread(p) /\ np' = np /\ d' = d /\ panicked' = panicked
    BY <2>1, SbrkIs
  <2>3. \E place \in {"grow", "shrink", "size"}, i, size \in Int : Goto(p, place, i, size)
    <3>1. sz[p] \in 0 .. USERTOP
      BY <1>0 DEF TypeOK
    <3>2. sz[p] \in Int /\ Up(sz[p]) \in Int /\ n \in Int
      BY <3>1, UpFacts, SpaceAssumption
    <3>3. sz[p] + n \in 0 .. USERTOP => Up(sz[p] + n) \in Int
      BY UpFacts
    <3>. QED BY <2>1, <3>2, <3>3, SbrkIs
  <2>4. PICK place \in {"grow", "shrink", "size"}, i \in Int, size \in Int : Goto(p, place, i, size)
    BY <2>3
  <2>5. /\ pc'[p] \in {"grow", "shrink", "size"}
        /\ \A s \in Slot \ {p} : pc'[s] = pc[s] /\ a'[s] = a[s] /\ goal'[s] = goal[s]
    BY <2>4, <1>0, GotoIs
  <2>6. /\ state[p] = "LIVE" /\ p \in Placed /\ pc[p] = "user"
        /\ \A s \in Slot \ {p} : Sharing(p, s) => pc[s] = "user"
    BY <2>2, AtRest
  <2>. QED BY <2>2, <2>5, <2>6
<1>3. CASE GrowPage(p)
  <2>1. /\ pc[p] = "grow" /\ state[p] = "LIVE" /\ p \in Placed /\ np' = np /\ d' = d /\ panicked' = panicked
    BY <1>3, GrowIs
  <2>2. /\ pc'[p] \in {"undo", "user", "grow", "size"}
        /\ \A s \in Slot \ {p} : pc'[s] = pc[s] /\ a'[s] = a[s] /\ goal'[s] = goal[s]
    BY <1>0, <1>3, GrowIs, GotoIs
  <2>. QED BY <2>1, <2>2, <1>0, <1>1
<1>4. CASE FreePage(p)
  <2>1. /\ state[p] = "LIVE" /\ p \in Placed /\ np' = np /\ d' = d /\ panicked' = panicked
        /\ pc[p] \in {"undo", "shrink"}
    BY <1>4, FreeIs
  <2>2. /\ pc'[p] \in {"undo", "user", "shrink", "size"}
        /\ \A s \in Slot \ {p} : pc'[s] = pc[s] /\ a'[s] = a[s] /\ goal'[s] = goal[s]
    BY <1>0, <1>4, FreeIs, GotoIs
  <2>. QED BY <2>1, <2>2, <1>0, <1>1
<1>5. CASE SetSize(p) \/ ShareSize(p)
  <2>1. /\ state[p] = "LIVE" /\ p \in Placed /\ np' = np /\ d' = d /\ panicked' = panicked /\ Sizing(p)
    BY <1>5, SizeIs
  <2>2. /\ pc'[p] \in {"share", "user"} /\ (pc'[p] = "share" => SetSize(p))
        /\ \A s \in Slot \ {p} : pc'[s] = pc[s] /\ a'[s] = a[s] /\ goal'[s] = goal[s]
    BY <1>0, <1>5, SizeIs, GotoIs DEF ShareSize
  <2>3. pc[p] = "share" => ShareSize(p)
    BY <1>5 DEF SetSize
  <2>. QED BY <2>1, <2>2, <2>3, <1>0, <1>1
<1>6. CASE ForkPage(p)
  <2>1. /\ pc[p] = "copy" /\ state[p] = "LIVE" /\ p \in Placed /\ panicked' = panicked
        /\ \A s \in Slot \ {p} : np'[s] = np[s] /\ d'[s] = d[s]
    BY <1>0, <1>6, ForkPageIs DEF TypeOK
  <2>2. /\ pc'[p] \in {"user", "copy", "publish"}
        /\ \A s \in Slot \ {p} : pc'[s] = pc[s] /\ a'[s] = a[s] /\ goal'[s] = goal[s]
    BY <1>0, <1>6, ForkPageIs, GotoIs
  <2>. QED BY <2>1, <2>2, <1>0, <1>1
<1>7. CASE \E q \in Slot : ForkCall(p, q)
  <2>1. PICK q \in Slot : ForkCall(p, q)
    BY <1>7
  <2>2. /\ Calls(p) /\ panicked' = panicked /\ \A s \in Slot \ {p} : np'[s] = np[s] /\ d'[s] = d[s]
    BY <1>0, <2>1, ForkCallIs DEF TypeOK
  <2>3. /\ pc'[p] \in {"copy", "publish"}
        /\ \A s \in Slot \ {p} : pc'[s] = pc[s] /\ a'[s] = a[s] /\ goal'[s] = goal[s]
    BY <1>0, <2>1, ForkCallIs, GotoIs
  <2>4. /\ state[p] = "LIVE" /\ p \in Placed /\ pc[p] = "user"
        /\ \A s \in Slot \ {p} : Sharing(p, s) => pc[s] = "user"
    BY <2>2, AtRest
  <2>. QED BY <2>2, <2>3, <2>4
<1>. QED BY <1>2, <1>3, <1>4, <1>5, <1>6, <1>7 DEF Step

LEMMA NextKinds ==
  ASSUME [Next]_vars
  PROVE  \/ \E p \in Slot : \/ Step(p) \/ ForkPublish(p) \/ Exec(p) \/ Exit(p)
                            \/ \E q \in Slot : Clone(p, q) \/ Wait(p, q) \/ Join(p, q)
         \/ UNCHANGED vars
BY DEF Next, Step

-----------------------------------------------------------------------------
(* Who shares a space                                                       *)

LEMMA StepShare ==
  ASSUME SpaceInv, NEW p \in Slot, Step(p) \/ UNCHANGED vars
  PROVE  /\ parent' = parent /\ pgdir' = pgdir /\ Placed' = Placed
         /\ \A s \in Slot : state'[s] = "LIVE" <=> state[s] = "LIVE"
         /\ \A x, y \in Slot : Sharing(x, y)' <=> Sharing(x, y)
         /\ \A x \in Slot : Thread(x)' <=> Thread(x)
<1>1. /\ parent' = parent /\ pgdir' = pgdir /\ Placed' = Placed
      /\ \A s \in Slot : state'[s] = "LIVE" <=> state[s] = "LIVE"
  BY Steady DEF Step
<1>. QED BY <1>1 DEF Sharing, Thread

LEMMA ShareStep ==
  ASSUME SpaceInv, Ruled, [Next]_vars
  PROVE  ShareInv'
<1>0. ShareInv
  BY DEF SpaceInv
<1>1. ASSUME NEW p \in Slot, Step(p) \/ UNCHANGED vars PROVE ShareInv'
  <2>1. /\ parent' = parent /\ \A x, y \in Slot : Sharing(x, y)' <=> Sharing(x, y)
        /\ \A x \in Slot : Thread(x)' <=> Thread(x)
    BY <1>1, StepShare
  <2>. QED BY <2>1, <1>0, Consts DEF ShareInv, Owner
<1>2. ASSUME NEW p \in Slot, ForkPublish(p) PROVE ShareInv'
  <2>1. PICK c \in Slot :
        /\ c \notin Placed /\ p \in Placed
        /\ \A x, y \in Slot : Sharing(x, y)' <=> (x = c /\ y = c) \/ Sharing(x, y)
        /\ ~Thread(c)' /\ \A x \in Slot \ {c} : (Thread(x)' <=> Thread(x)) /\ parent'[x] = parent[x]
    BY <1>2, PublishShape
  <2>2. InitProc \in Placed /\ \A x \in Slot : parent[x] # c
    BY <2>1, Consts DEF SpaceInv, SlotInv, Placed
  <2>3. \A s \in Slot \ {InitProc} : ~Sharing(s, InitProc)'
    BY <2>1, <2>2, <1>0, Consts DEF ShareInv
  <2>4. \A x \in Slot : Thread(x)' => x # c /\ Thread(x) /\ parent'[x] = parent[x]
    BY <2>1
  <2>5. \A x \in Slot : Thread(x) => parent[x] \in Slot /\ parent[x] # c
    BY <2>2 DEF Thread
  <2>6. \A s, r \in Slot : Thread(s)' /\ parent'[s] = r => ~Thread(r)'
    BY <2>1, <2>4, <2>5, <1>0 DEF ShareInv
  <2>7. \A x, y \in Slot : Sharing(x, y)' => Owner(x)' = Owner(y)'
    <3>1. ASSUME NEW x \in Slot, NEW y \in Slot, Sharing(x, y), x # y PROVE Owner(x)' = Owner(y)'
      <4>1. x # c /\ y # c
        BY <3>1, <2>1 DEF Sharing
      <4>. QED BY <3>1, <4>1, <2>1, <1>0 DEF ShareInv, Owner
    <3>. QED BY <3>1, <2>1
  <2>. QED BY <2>3, <2>6, <2>7 DEF ShareInv
<1>3. ASSUME NEW p \in Slot, NEW q \in Slot, Clone(p, q) PROVE ShareInv'
  <2>1. /\ q \notin Placed /\ p # q /\ p \in Placed /\ p # InitProc /\ ~Thread(p) /\ parent'[q] = p
        /\ \A x, y \in Slot : Sharing(x, y)' <=>
              \/ x = q /\ y = q
              \/ x = q /\ Sharing(p, y)
              \/ y = q /\ Sharing(x, p)
              \/ Sharing(x, y)
        /\ Thread(q)' /\ \A x \in Slot \ {q} : (Thread(x)' <=> Thread(x)) /\ parent'[x] = parent[x]
    BY <1>3, CloneShape
  <2>2. InitProc \in Placed /\ \A x \in Slot : parent[x] # q
    BY <2>1, Consts DEF SpaceInv, SlotInv, Placed
  <2>3. \A s \in Slot \ {InitProc} : ~Sharing(s, InitProc)'
    BY <2>1, <2>2, <1>0, Consts DEF ShareInv
  <2>4. \A x \in Slot : Thread(x) => parent[x] \in Slot /\ parent[x] # q
    BY <2>2 DEF Thread
  <2>5. \A s, r \in Slot : Thread(s)' /\ parent'[s] = r => ~Thread(r)'
    BY <2>1, <2>4, <1>0 DEF ShareInv
  <2>6. \A x \in Slot \ {q} : Owner(x)' = Owner(x)
    BY <2>1 DEF Owner
  <2>7. Owner(q)' = p /\ Owner(p) = p
    BY <2>1 DEF Owner
  <2>8. ASSUME NEW x \in Slot, NEW y \in Slot, Sharing(x, y)' PROVE Owner(x)' = Owner(y)'
    <3>1. ~Sharing(x, q) /\ ~Sharing(q, y) /\ ~Sharing(p, q) /\ ~Sharing(q, p)
      BY <2>1 DEF Sharing
    <3>2. CASE x = q /\ y = q
      BY <3>2
    <3>3. CASE x = q /\ y # q
      BY <3>1, <3>3, <2>1, <2>6, <2>7, <2>8, <1>0 DEF ShareInv
    <3>4. CASE x # q /\ y = q
      BY <3>1, <3>4, <2>1, <2>6, <2>7, <2>8, <1>0 DEF ShareInv
    <3>5. CASE x # q /\ y # q
      BY <3>5, <2>1, <2>6, <2>8, <1>0 DEF ShareInv
    <3>. QED BY <3>2, <3>3, <3>4, <3>5
  <2>. QED BY <2>3, <2>5, <2>8 DEF ShareInv
<1>4. ASSUME NEW p \in Slot, Exec(p) PROVE ShareInv'
  <2>1. /\ parent' = parent /\ \A x, y \in Slot : Sharing(x, y)' <=> Sharing(x, y)
        /\ \A x \in Slot : Thread(x)' <=> Thread(x)
    BY <1>4, ExecShape
  <2>2. \A x \in Slot : Thread(x) => parent[x] \in Slot
    BY DEF Thread
  <2>. QED BY <2>1, <2>2, <1>0, Consts DEF ShareInv, Owner
<1>5. ASSUME NEW p \in Slot, Exit(p) PROVE ShareInv'
  <2>1. /\ \A x \in Slot : parent'[x] = IF parent[x] = p THEN InitProc ELSE parent[x]
        /\ \A x \in Slot : x \in Threads(p) <=> Thread(x) /\ parent[x] = p
        /\ \A x, y \in Slot : Sharing(x, y)' <=>
              (x \in Placed /\ x = y) \/ (Sharing(x, y) /\ x \notin Threads(p) /\ y \notin Threads(p))
        /\ \A x \in Slot : Thread(x)' <=> Thread(x) /\ x \notin Threads(p)
    BY <1>5, ExitShape
  <2>2. \A x \in Slot : Thread(x)' => Thread(x) /\ parent'[x] = parent[x]
    BY <2>1
  <2>3. \A x \in Slot : Thread(x) => parent[x] \in Slot
    BY DEF Thread
  <2>4. \A s, r \in Slot : Thread(s)' /\ parent'[s] = r => ~Thread(r)'
    BY <2>1, <2>2, <2>3, <1>0 DEF ShareInv
  <2>5. ASSUME NEW x \in Slot, x \notin Threads(p) PROVE Owner(x)' = Owner(x)
    BY <2>1, <2>5 DEF Owner
  <2>6. \A x, y \in Slot : Sharing(x, y)' => Owner(x)' = Owner(y)'
    BY <2>1, <2>5, <1>0 DEF ShareInv
  <2>7. \A s \in Slot \ {InitProc} : ~Sharing(s, InitProc)'
    BY <2>1, <1>0, Consts DEF ShareInv
  <2>. QED BY <2>4, <2>6, <2>7 DEF ShareInv
<1>6. ASSUME NEW p \in Slot, NEW z \in Slot, Wait(p, z) \/ Join(p, z) PROVE ShareInv'
  <2>1. /\ \A s \in Slot : parent[s] # z
        /\ \A x, y \in Slot : Sharing(x, y)' <=> Sharing(x, y) /\ x # z /\ y # z
        /\ ~Thread(z)' /\ \A x \in Slot \ {z} : (Thread(x)' <=> Thread(x)) /\ parent'[x] = parent[x]
    BY <1>6, ReapShape
  <2>2. \A x \in Slot : Thread(x) => parent[x] \in Slot
    BY DEF Thread
  <2>3. \A s, r \in Slot : Thread(s)' /\ parent'[s] = r => ~Thread(r)'
    BY <2>1, <2>2, <1>0 DEF ShareInv
  <2>. QED BY <2>1, <2>3, <1>0, Consts DEF ShareInv, Owner
<1>. QED BY <1>1, <1>2, <1>3, <1>4, <1>5, <1>6, NextKinds, Consts

-----------------------------------------------------------------------------
(* Slots and calls                                                          *)

LEMMA CallStep ==
  ASSUME SpaceInv, Ruled, [Next]_vars
  PROVE  CallInv'
<1>0. CallInv /\ ForkInv
  BY DEF SpaceInv
<1>1. ASSUME NEW p \in Slot, Step(p) PROVE CallInv'
  <2>1. /\ \A x, y \in Slot : Sharing(x, y)' <=> Sharing(x, y)
        /\ \A x \in Slot : Thread(x)' <=> Thread(x)
    BY <1>1, StepShare
  <2>2. /\ \A s \in Slot \ {p} : pc'[s] = pc[s]
        /\ \A s \in Slot \ {p} : Sharing(p, s) => pc[s] = "user"
        /\ Sizing(p)' => ~Thread(p)
    BY <1>1, PcStep
  <2>3. \A s \in Slot \ {p} : Sharing(s, p) => pc[s] = "user"
    BY <2>2 DEF Sharing
  <2>4. ASSUME NEW x \in Slot, NEW y \in Slot, Sharing(x, y), x # y, pc'[x] # "user" PROVE pc'[y] = "user"
    BY <2>2, <2>3, <2>4, <1>0 DEF CallInv
  <2>5. \A s \in Slot \ {p} : Sizing(s)' <=> Sizing(s)
    BY <2>2 DEF Sizing
  <2>. QED BY <2>1, <2>2, <2>4, <2>5, <1>0 DEF CallInv
<1>2. ASSUME NEW p \in Slot, ForkPublish(p) PROVE CallInv'
  <2>1. PICK c \in Slot :
        /\ c = np[p] /\ c \notin Placed /\ p # c
        /\ \A x, y \in Slot : Sharing(x, y)' <=> (x = c /\ y = c) \/ Sharing(x, y)
        /\ ~Thread(c)' /\ \A x \in Slot \ {c} : (Thread(x)' <=> Thread(x)) /\ parent'[x] = parent[x]
    BY <1>2, PublishShape
  <2>2. pc'[p] = "user" /\ \A s \in Slot \ {p} : pc'[s] = pc[s]
    BY <1>2, GotoIs DEF ForkPublish, SpaceInv
  <2>3. \A s \in Slot : Sizing(s)' => Sizing(s)
    BY <2>2 DEF Sizing
  <2>4. \A x, y \in Slot : Sharing(x, y)' /\ x # y /\ pc'[x] # "user" => pc'[y] = "user"
    BY <2>1, <2>2, <1>0 DEF CallInv
  <2>5. \A s \in Slot : Sizing(s)' => ~Thread(s)'
    BY <2>1, <2>3, <1>0 DEF CallInv
  <2>. QED BY <2>4, <2>5 DEF CallInv
<1>3. ASSUME NEW p \in Slot, NEW q \in Slot, Clone(p, q) PROVE CallInv'
  <2>1. /\ q \notin Placed /\ p # q
        /\ \A x, y \in Slot : Sharing(x, y)' <=>
              \/ x = q /\ y = q
              \/ x = q /\ Sharing(p, y)
              \/ y = q /\ Sharing(x, p)
              \/ Sharing(x, y)
        /\ \A x \in Slot \ {q} : (Thread(x)' <=> Thread(x)) /\ parent'[x] = parent[x]
    BY <1>3, CloneShape
  <2>2. pc' = pc /\ Calls(p)
    BY <1>3 DEF Clone, local
  <2>3. pc[q] = "user"
    BY <2>1 DEF SpaceInv, SlotInv, Placed
  <2>4. \A s \in Slot : Sharing(p, s) \/ Sharing(s, p) => pc[s] = "user"
    BY <2>2, AtRest DEF Sharing
  <2>5. \A x, y \in Slot : Sharing(x, y)' /\ x # y /\ pc[x] # "user" => pc[y] = "user"
    BY <2>1, <2>3, <2>4, <1>0 DEF CallInv
  <2>6. \A s \in Slot : (Sizing(s)' <=> Sizing(s)) /\ (Sizing(s) => s # q)
    BY <2>2, <2>3 DEF Sizing
  <2>. QED BY <2>1, <2>2, <2>5, <2>6, <1>0 DEF CallInv
<1>4. ASSUME NEW p \in Slot, Exec(p) PROVE CallInv'
  <2>1. /\ \A x, y \in Slot : Sharing(x, y)' <=> Sharing(x, y)
        /\ \A x \in Slot : Thread(x)' <=> Thread(x)
    BY <1>4, ExecShape
  <2>2. pc' = pc
    BY <1>4 DEF Exec, local
  <2>. QED BY <2>1, <2>2, <1>0 DEF CallInv, Sizing
<1>5. ASSUME NEW p \in Slot, Exit(p) PROVE CallInv'
  <2>1. /\ \A x, y \in Slot : Sharing(x, y)' => x = y \/ Sharing(x, y)
        /\ \A x \in Slot : Thread(x)' => Thread(x)
        /\ pc' = pc
    BY <1>5, ExitShape DEF local
  <2>. QED BY <2>1, <1>0 DEF CallInv, Sizing
<1>6. ASSUME NEW p \in Slot, NEW z \in Slot, Wait(p, z) \/ Join(p, z) PROVE CallInv'
  <2>1. /\ \A x, y \in Slot : Sharing(x, y)' => Sharing(x, y)
        /\ \A x \in Slot : Thread(x)' => Thread(x)
        /\ pc' = pc
    BY <1>6, ReapShape DEF local
  <2>. QED BY <2>1, <1>0 DEF CallInv, Sizing
<1>7. CASE UNCHANGED vars
  <2>1. /\ \A x, y \in Slot : Sharing(x, y)' <=> Sharing(x, y)
        /\ \A x \in Slot : Thread(x)' <=> Thread(x)
    BY <1>7, StepShare, Consts
  <2>2. pc' = pc
    BY <1>7 DEF vars, local
  <2>. QED BY <2>1, <2>2, <1>0 DEF CallInv, Sizing
<1>. QED BY <1>1, <1>2, <1>3, <1>4, <1>5, <1>6, <1>7, NextKinds

(* A zombie that wait reaps shares its space with nobody.                   *)
LEMMA WaitAlone ==
  ASSUME SpaceInv, NEW p \in Slot, NEW z \in Slot, Wait(p, z)
  PROVE  \A s \in Slot \ {z} : ~Sharing(z, s)
<1>1. state[z] = "ZOMBIE" /\ parent[z] = p /\ z \notin Threads(p)
  BY DEF Wait
<1>2. ~Thread(z) /\ \A s \in Slot : parent[s] # z
  BY <1>1 DEF Thread, Threads, SpaceInv, SlotInv
<1>3. ASSUME NEW s \in Slot \ {z}, Sharing(z, s) PROVE FALSE
  <2>1. Owner(z) = Owner(s)
    BY <1>3 DEF SpaceInv, ShareInv
  <2>. QED BY <2>1, <1>2, <1>3 DEF Owner
<1>. QED BY <1>3

LEMMA SlotStep ==
  ASSUME SpaceInv, Ruled, [Next]_vars
  PROVE  SlotInv'
<1>0. SlotInv /\ InitProc \in Placed /\ TypeOK
  BY Consts DEF SpaceInv, SlotInv, Placed
<1>1. ASSUME NEW p \in Slot, Step(p) PROVE SlotInv'
  <2>1. /\ parent' = parent /\ pgdir' = pgdir /\ Placed' = Placed
        /\ \A s \in Slot : state'[s] = "LIVE" <=> state[s] = "LIVE"
    BY <1>1, StepShare
  <2>2. /\ state[p] = "LIVE" /\ \A s \in Slot \ {p} : pc'[s] = pc[s]
        /\ Sizing(p)' => p # InitProc
    BY <1>1, PcStep
  <2>3. dirs' = dirs \/ dirs' = dirs \cup {NewDir} \/ (dirs' = dirs \ {d[p]} /\ Forking(p))
    <3>1. CASE \E n \in Deltas : SbrkCall(p, n)
      BY <3>1 DEF SbrkCall, memory
    <3>2. CASE GrowPage(p) \/ FreePage(p) \/ SetSize(p) \/ ShareSize(p)
      BY <3>2 DEF GrowPage, FreePage, SetSize, ShareSize, memory
    <3>3. CASE ForkPage(p)
      BY <3>3, ForkPageIs
    <3>4. CASE \E q \in Slot : ForkCall(p, q)
      BY <3>4, ForkCallIs
    <3>. QED BY <1>1, <3>1, <3>2, <3>3, <3>4 DEF Step
  <2>4. \A s \in Placed : pgdir[s] \in dirs'
    BY <2>3, <1>0 DEF SpaceInv, ForkInv, ForkOf, SlotInv, Placed
  <2>5. \A s \in Slot \ {p} : Sizing(s)' <=> Sizing(s)
    BY <2>2 DEF Sizing
  <2>6. state'[InitProc] = "LIVE" /\ parent'[InitProc] = NoProc /\ ~Sizing(InitProc)'
    BY <2>1, <2>2, <2>5, <1>0, Consts DEF SlotInv
  <2>7. ASSUME NEW s \in Slot
        PROVE /\ pc'[s] # "user" => state'[s] = "LIVE"
              /\ s \in Placed' => pgdir'[s] \in dirs'
              /\ s \notin Placed' => pgdir'[s] = NoDir /\ parent'[s] = NoProc
              /\ parent'[s] \in Slot => state'[parent'[s]] = "LIVE"
    BY <2>1, <2>2, <2>4, <1>0 DEF SlotInv
  <2>. QED BY <2>6, <2>7 DEF SlotInv
<1>2. ASSUME NEW p \in Slot, ForkPublish(p) PROVE SlotInv'
  <2>1. PICK c \in Slot :
        /\ c = np[p] /\ c \notin Placed /\ Placed' = Placed \cup {c} /\ p # c /\ p \in Placed
    BY <1>2, PublishShape
  <2>2. /\ pc'[p] = "user" /\ \A s \in Slot \ {p} : pc'[s] = pc[s]
    BY <1>2, <1>0, GotoIs DEF ForkPublish
  <2>3. /\ state'[c] = "LIVE" /\ parent'[c] = p /\ pgdir'[c] = d[p] /\ dirs' = dirs
        /\ \A s \in Slot \ {c} : state'[s] = state[s] /\ parent'[s] = parent[s] /\ pgdir'[s] = pgdir[s]
    BY <1>2, <2>1, <1>0 DEF ForkPublish, TypeOK, memory
  <2>4. Forking(p) /\ d[p] \in dirs /\ state[p] = "LIVE"
    BY <1>2 DEF SpaceInv, ForkInv, ForkOf, SlotInv, ForkPublish, Forking
  <2>5. state'[InitProc] = "LIVE" /\ parent'[InitProc] = NoProc /\ ~Sizing(InitProc)'
    BY <2>1, <2>2, <2>3, <1>0, Consts DEF SlotInv, Sizing
  <2>6. ASSUME NEW s \in Slot
        PROVE /\ pc'[s] # "user" => state'[s] = "LIVE"
              /\ s \in Placed' => pgdir'[s] \in dirs'
              /\ s \notin Placed' => pgdir'[s] = NoDir /\ parent'[s] = NoProc
              /\ parent'[s] \in Slot => state'[parent'[s]] = "LIVE"
    BY <2>1, <2>2, <2>3, <2>4, <1>0 DEF SlotInv
  <2>. QED BY <2>5, <2>6 DEF SlotInv
<1>3. ASSUME NEW p \in Slot, NEW q \in Slot, Clone(p, q) PROVE SlotInv'
  <2>1. /\ q \notin Placed /\ Placed' = Placed \cup {q} /\ p # q /\ p \in Placed
    BY <1>3, CloneShape
  <2>2. /\ state'[q] = "LIVE" /\ parent'[q] = p /\ pgdir'[q] = pgdir[p] /\ dirs' = dirs /\ pc' = pc
        /\ \A s \in Slot \ {q} : state'[s] = state[s] /\ parent'[s] = parent[s] /\ pgdir'[s] = pgdir[s]
        /\ state[p] = "LIVE"
    BY <1>3, <1>0 DEF Clone, TypeOK, memory, local, Calls
  <2>3. state'[InitProc] = "LIVE" /\ parent'[InitProc] = NoProc /\ ~Sizing(InitProc)'
    BY <2>1, <2>2, <1>0, Consts DEF SlotInv, Sizing
  <2>4. ASSUME NEW s \in Slot
        PROVE /\ pc'[s] # "user" => state'[s] = "LIVE"
              /\ s \in Placed' => pgdir'[s] \in dirs'
              /\ s \notin Placed' => pgdir'[s] = NoDir /\ parent'[s] = NoProc
              /\ parent'[s] \in Slot => state'[parent'[s]] = "LIVE"
    BY <2>1, <2>2, <1>0 DEF SlotInv
  <2>. QED BY <2>3, <2>4 DEF SlotInv
<1>4. ASSUME NEW p \in Slot, Exec(p) PROVE SlotInv'
  <2>1. /\ Placed' = Placed /\ p \in Placed /\ parent' = parent /\ state' = state
        /\ \A q \in Slot : Sharing(p, q) => q = p
    BY <1>4, ExecShape
  <2>2. /\ pgdir'[p] = NewDir /\ \A s \in Slot \ {p} : pgdir'[s] = pgdir[s]
        /\ dirs' = (dirs \cup {NewDir}) \ {pgdir[p]} /\ pc' = pc /\ NewDir \notin dirs /\ pgdir[p] \in dirs
    BY <1>4, <2>1, <1>0, NewDirIs DEF Exec, TypeOK, local, SlotInv
  <2>3. \A s \in Placed : pgdir'[s] \in dirs'
    BY <2>1, <2>2, <1>0 DEF Sharing, SlotInv, Placed
  <2>. QED BY <2>1, <2>2, <2>3, <1>0 DEF SlotInv, Sizing
<1>5. ASSUME NEW p \in Slot, Exit(p) PROVE SlotInv'
  <2>0. PICK copy, new : Copied(p, copy, new)
    BY <1>5, ExitShape
  <2>1. /\ p # InitProc /\ p \in Placed /\ state[p] = "LIVE"
        /\ \A q \in Slot : parent'[q] = IF parent[q] = p THEN InitProc ELSE parent[q]
        /\ state' = [state EXCEPT ![p] = "ZOMBIE"] /\ Placed' = Placed /\ UNCHANGED local
        /\ Threads(p) \subseteq Placed \ {InitProc, p}
    BY <1>5, ExitShape
  <2>2. pc' = pc /\ pc[p] = "user" /\ state' = [state EXCEPT ![p] = "ZOMBIE"]
    BY <2>1, <1>5 DEF local, Exit, Calls
  <2>3. \A s \in Slot \ {p} : state'[s] = state[s]
    BY <2>2, <1>0 DEF TypeOK
  <2>4. \A s \in Placed : pgdir'[s] \in dirs'
    BY <2>0, <1>0 DEF SlotInv, Placed, Copied
  <2>5. \A s \in Slot : parent'[s] \in Slot => state'[parent'[s]] = "LIVE"
    BY <2>1, <2>3, <1>0, Consts DEF SlotInv
  <2>6. \A s \in Slot : s \notin Placed' => pgdir'[s] = NoDir /\ parent'[s] = NoProc
    BY <2>0, <2>1, <1>0, Consts DEF SlotInv, Copied
  <2>7. \A s \in Slot : pc'[s] # "user" => state'[s] = "LIVE"
    BY <2>2, <2>3, <1>0 DEF SlotInv
  <2>8. state'[InitProc] = "LIVE" /\ parent'[InitProc] = NoProc /\ ~Sizing(InitProc)'
    BY <2>1, <2>2, <2>3, <1>0, Consts DEF SlotInv, Sizing
  <2>. QED BY <2>1, <2>4, <2>5, <2>6, <2>7, <2>8 DEF SlotInv
<1>6. ASSUME NEW p \in Slot, NEW z \in Slot, Wait(p, z) \/ Join(p, z) PROVE SlotInv'
  <2>1. /\ z \in Placed /\ Placed' = Placed \ {z} /\ z # InitProc /\ state[z] = "ZOMBIE"
        /\ \A s \in Slot : parent[s] # z
        /\ \A x \in Slot \ {z} : parent'[x] = parent[x]
        /\ \A s \in Slot \ {z} : state'[s] = state[s] /\ pgdir'[s] = pgdir[s]
        /\ state'[z] = "UNUSED" /\ parent'[z] = NoProc /\ pgdir'[z] = NoDir
        /\ pc' = pc
    BY <1>6, ReapShape DEF local
  <2>2. dirs' = dirs \/ (dirs' = dirs \ {pgdir[z]} /\ Wait(p, z))
    BY <1>6 DEF Wait, Join, memory
  <2>3. Wait(p, z) => \A s \in Slot \ {z} : ~Sharing(z, s)
    BY <2>1, WaitAlone
  <2>4. \A s \in Placed \ {z} : pgdir[s] \in dirs'
    BY <2>1, <2>2, <2>3, <1>0 DEF SlotInv, Sharing, Placed
  <2>. QED BY <2>1, <2>4, <1>0, Consts DEF SlotInv, Sizing
<1>7. CASE UNCHANGED vars
  <2>1. parent' = parent /\ pgdir' = pgdir /\ Placed' = Placed /\ state' = state /\ pc' = pc /\ dirs' = dirs
    BY <1>7, StepShare, Consts DEF vars, procs, local, memory
  <2>. QED BY <2>1, <1>0 DEF SlotInv, Sizing
<1>. QED BY <1>1, <1>2, <1>3, <1>4, <1>5, <1>6, <1>7, NextKinds

-----------------------------------------------------------------------------
(* Sizes                                                                    *)

LEMMA ThreadsShare ==
  ASSUME SpaceInv, NEW p \in Slot, p \in Placed, NEW q \in Threads(p)
  PROVE  Sharing(p, q)
<1>1. q \in Slot /\ parent[q] = p /\ pgdir[q] = pgdir[p]
  BY DEF Threads
<1>2. q \in Placed
  BY <1>1, Consts DEF SpaceInv, SlotInv
<1>. QED BY <1>1, <1>2 DEF Sharing

(* Only SetSize and ShareSize change a size, and of the sharers only.       *)
LEMMA SizesOf ==
  ASSUME SpaceInv, Ruled, NEW p \in Slot, Step(p)
  PROVE  /\ SetSize(p) \/ ShareSize(p) \/ sz' = sz
         /\ \A s \in Slot : ~Sharing(p, s) => sz'[s] = sz[s]
<1>1. SetSize(p) \/ ShareSize(p) \/ sz' = sz
  BY DEF Step, SbrkCall, GrowPage, FreePage, ForkPage, ForkCall, procs
<1>2. p \in Placed /\ Sharing(p, p)
  BY PcStep DEF Sharing
<1>3. ASSUME NEW s \in Slot, ~Sharing(p, s), SetSize(p) \/ ShareSize(p) PROVE sz'[s] = sz[s]
  <2>1. s # p /\ s \notin Threads(p)
    BY <1>2, <1>3, ThreadsShare
  <2>. QED BY <1>3, <2>1 DEF SetSize, ShareSize, SpaceInv, TypeOK
<1>. QED BY <1>1, <1>3

LEMMA SizeStep ==
  ASSUME SpaceInv, Ruled, [Next]_vars
  PROVE  SizeInv'
<1>0. SizeInv /\ TypeOK
  BY DEF SpaceInv
<1>1. ASSUME NEW p \in Slot, Step(p) PROVE SizeInv'
  <2>1. \A x, y \in Slot : Sharing(x, y)' <=> Sharing(x, y)
    BY <1>1, StepShare
  <2>2. /\ \A s \in Slot \ {p} : pc'[s] = pc[s]
        /\ pc'[p] = "share" => SetSize(p)
        /\ pc[p] = "share" => ShareSize(p)
    BY <1>1, PcStep
  <2>3. CASE SetSize(p)
    <3>1. pc'[p] = "share" /\ pc[p] # "share" /\ \A s \in Slot \ {p} : sz'[s] = sz[s]
      BY <2>3, <1>0, GotoIs DEF SetSize, TypeOK
    <3>. QED BY <3>1, <2>1, <2>2, <1>0 DEF SizeInv
  <2>4. CASE ShareSize(p)
    <3>1. /\ \A s \in Slot : sz'[s] = IF s \in Threads(p) THEN sz[p] ELSE sz[s]
          /\ p \in Placed /\ ~Thread(p)
      <4>1. ~Thread(p)
        BY <2>4, SizeIs DEF SpaceInv, CallInv
      <4>. QED BY <4>1, <2>4, SizeIs DEF ShareSize
    <3>2. ASSUME NEW s \in Slot, Sharing(p, s) PROVE sz'[s] = sz[p]
      <4>1. Owner(p) = p /\ Owner(s) = p
        BY <3>1, <3>2 DEF Owner, SpaceInv, ShareInv
      <4>2. s = p \/ (parent[s] = p /\ Thread(s))
        BY <4>1 DEF Owner
      <4>3. s = p \/ s \in Threads(p)
        BY <4>2 DEF Thread, Threads
      <4>. QED BY <3>1, <4>3
    <3>3. ASSUME NEW x \in Slot, NEW y \in Slot, Sharing(x, y), ~Sharing(p, x)
          PROVE  sz'[x] = sz'[y] \/ pc'[x] = "share" \/ pc'[y] = "share"
      <4>1. ~Sharing(p, y) /\ Sharing(p, p)
        BY <3>3, <3>1 DEF Sharing
      <4>2. sz'[x] = sz[x] /\ sz'[y] = sz[y] /\ x # p /\ y # p
        BY <4>1, <3>3, <1>1, SizesOf
      <4>. QED BY <4>2, <3>3, <2>2, <1>0 DEF SizeInv
    <3>4. \A x, y \in Slot : Sharing(x, y) /\ Sharing(p, x) => Sharing(p, y)
      BY DEF Sharing
    <3>. QED BY <3>2, <3>3, <3>4, <2>1 DEF SizeInv
  <2>5. CASE ~SetSize(p) /\ ~ShareSize(p)
    <3>1. sz' = sz
      BY <1>1, <2>5, SizesOf
    <3>2. \A s \in Slot : pc[s] = "share" => pc'[s] = "share"
      BY <2>2, <2>5
    <3>. QED BY <3>1, <3>2, <2>1, <1>0 DEF SizeInv
  <2>. QED BY <2>3, <2>4, <2>5
<1>2. ASSUME NEW p \in Slot, ForkPublish(p) PROVE SizeInv'
  <2>1. PICK c \in Slot :
        /\ c = np[p] /\ c \notin Placed
        /\ \A x, y \in Slot : Sharing(x, y)' <=> (x = c /\ y = c) \/ Sharing(x, y)
    BY <1>2, PublishShape
  <2>2. pc[p] = "publish" /\ \A s \in Slot \ {p} : pc'[s] = pc[s]
    BY <1>2, <1>0, GotoIs DEF ForkPublish
  <2>3. \A s \in Slot \ {c} : sz'[s] = sz[s]
    BY <1>2, <2>1, <1>0 DEF ForkPublish, TypeOK
  <2>4. \A x, y \in Slot : Sharing(x, y) => x # c /\ y # c
    BY <2>1 DEF Sharing
  <2>. QED BY <2>1, <2>2, <2>3, <2>4, <1>0 DEF SizeInv
<1>3. ASSUME NEW p \in Slot, NEW q \in Slot, Clone(p, q) PROVE SizeInv'
  <2>1. /\ q \notin Placed /\ p # q
        /\ \A x, y \in Slot : Sharing(x, y)' <=>
              \/ x = q /\ y = q
              \/ x = q /\ Sharing(p, y)
              \/ y = q /\ Sharing(x, p)
              \/ Sharing(x, y)
    BY <1>3, CloneShape
  <2>2. pc' = pc /\ Calls(p) /\ sz'[q] = sz[p] /\ \A s \in Slot \ {q} : sz'[s] = sz[s]
    BY <1>3, <1>0 DEF Clone, local, TypeOK
  <2>3. pc[p] = "user" /\ \A s \in Slot : Sharing(p, s) => pc[s] = "user"
    BY <2>2, AtRest
  <2>4. \A s \in Slot : Sharing(p, s) => sz[s] = sz[p]
    BY <2>3, <1>0 DEF SizeInv
  <2>5. \A x, y \in Slot : (Sharing(x, y) => x # q /\ y # q) /\ (Sharing(x, y) => Sharing(y, x))
    BY <2>1 DEF Sharing
  <2>. QED BY <2>1, <2>2, <2>4, <2>5, <1>0 DEF SizeInv
<1>4. ASSUME NEW p \in Slot, Exec(p) PROVE SizeInv'
  <2>1. /\ \A x, y \in Slot : Sharing(x, y)' <=> Sharing(x, y)
        /\ \A q \in Slot : Sharing(p, q) => q = p
    BY <1>4, ExecShape
  <2>2. pc' = pc /\ \A s \in Slot \ {p} : sz'[s] = sz[s]
    BY <1>4, <1>0 DEF Exec, local, TypeOK
  <2>3. \A x, y \in Slot : Sharing(x, y) => Sharing(y, x)
    BY DEF Sharing
  <2>. QED BY <2>1, <2>2, <2>3, <1>0 DEF SizeInv
<1>5. ASSUME NEW p \in Slot, Exit(p) PROVE SizeInv'
  <2>1. /\ \A x, y \in Slot : Sharing(x, y)' => x = y \/ Sharing(x, y)
        /\ pc' = pc /\ sz' = sz
    BY <1>5, ExitShape DEF local
  <2>. QED BY <2>1, <1>0 DEF SizeInv
<1>6. ASSUME NEW p \in Slot, NEW z \in Slot, Wait(p, z) \/ Join(p, z) PROVE SizeInv'
  <2>1. /\ \A x, y \in Slot : Sharing(x, y)' <=> Sharing(x, y) /\ x # z /\ y # z
        /\ pc' = pc /\ \A s \in Slot \ {z} : sz'[s] = sz[s]
    BY <1>6, ReapShape DEF local
  <2>. QED BY <2>1, <1>0 DEF SizeInv
<1>7. CASE UNCHANGED vars
  <2>1. \A x, y \in Slot : Sharing(x, y)' <=> Sharing(x, y)
    BY <1>7, StepShare, Consts
  <2>2. pc' = pc /\ sz' = sz
    BY <1>7 DEF vars, local, procs
  <2>. QED BY <2>1, <2>2, <1>0 DEF SizeInv
<1>. QED BY <1>1, <1>2, <1>3, <1>4, <1>5, <1>6, <1>7, NextKinds

-----------------------------------------------------------------------------
(* Pages                                                                    *)

LEMMA SbrkPages ==
  ASSUME SpaceInv, Ruled, NEW p \in Slot, NEW n \in Deltas, SbrkCall(p, n)
  PROVE  PagesOf(p)'
<1>1. /\ TypeOK /\ sz[p] \in 0 .. USERTOP /\ Held(p)' = Held(p) /\ sz' = sz
      /\ Held(p) = 0 .. Up(sz[p]) - 1 /\ Up(sz[p]) \in Nat
  <2>1. TypeOK /\ sz[p] \in 0 .. USERTOP
    BY DEF SpaceInv, TypeOK
  <2>2. Calls(p) /\ UNCHANGED <<procs, memory>>
    BY SbrkIs
  <2>3. Held(p) = Below(sz[p]) /\ Up(sz[p]) \in Nat
    BY <2>1, <2>2, AtRest, UpFacts
  <2>. QED BY <2>1, <2>2, <2>3 DEF procs, memory, Held, Below
<1>2. CASE /\ sz[p] + n \in 0 .. USERTOP /\ sz[p] < sz[p] + n
           /\ Goto(p, IF Up(sz[p]) < Up(sz[p] + n) THEN "grow" ELSE "size", Up(sz[p]), sz[p] + n)
  <2>1. Up(sz[p] + n) \in Nat /\ Up(sz[p]) <= Up(sz[p] + n)
    BY <1>1, <1>2, UpFacts, UpOrder
  <2>2. CASE Up(sz[p]) < Up(sz[p] + n)
    <3>1. pc'[p] = "grow" /\ a'[p] = Up(sz[p]) /\ goal'[p] = sz[p] + n
      BY <1>1, <1>2, <2>2, GotoIs
    <3>. QED BY <3>1, <1>1, <2>1, <2>2 DEF PagesOf, Sizing
  <2>3. CASE ~(Up(sz[p]) < Up(sz[p] + n))
    <3>1. pc'[p] = "size" /\ goal'[p] = sz[p] + n
      BY <1>1, <1>2, <2>3, GotoIs
    <3>2. Up(sz[p] + n) = Up(sz[p])
      BY <1>1, <2>1, <2>3
    <3>. QED BY <3>1, <3>2, <1>1 DEF PagesOf, Sizing, Below
  <2>. QED BY <2>2, <2>3
<1>3. CASE /\ sz[p] + n \in 1 .. USERTOP /\ sz[p] + n < sz[p]
           /\ Goto(p, IF Up(sz[p] + n) < Up(sz[p]) THEN "shrink" ELSE "size", Up(sz[p] + n), sz[p] + n)
  <2>1. Up(sz[p] + n) \in Nat /\ Up(sz[p] + n) <= Up(sz[p])
    BY <1>1, <1>3, UpFacts, UpOrder
  <2>2. CASE Up(sz[p] + n) < Up(sz[p])
    <3>1. pc'[p] = "shrink" /\ a'[p] = Up(sz[p] + n) /\ goal'[p] = sz[p] + n /\ goal'[p] > 0
      BY <1>1, <1>3, <2>2, GotoIs
    <3>2. Held(p) = Below(sz[p] + n) \cup (Up(sz[p] + n) .. Up(sz[p]) - 1)
      BY <1>1, <2>1, <2>2 DEF Below
    <3>. QED BY <3>1, <3>2, <1>1, <2>1, <2>2 DEF PagesOf, Sizing
  <2>3. CASE ~(Up(sz[p] + n) < Up(sz[p]))
    <3>1. pc'[p] = "size" /\ goal'[p] = sz[p] + n
      BY <1>1, <1>3, <2>3, GotoIs
    <3>2. Up(sz[p] + n) = Up(sz[p])
      BY <1>1, <2>1, <2>3
    <3>. QED BY <3>1, <3>2, <1>1 DEF PagesOf, Sizing, Below
  <2>. QED BY <2>2, <2>3
<1>4. CASE Goto(p, "size", 0, sz[p])
  <2>1. pc'[p] = "size" /\ goal'[p] = sz[p]
    BY <1>1, <1>4, GotoIs
  <2>. QED BY <2>1, <1>1 DEF PagesOf, Sizing, Below
<1>. QED BY <1>2, <1>3, <1>4, SbrkIs

LEMMA GrowPages ==
  ASSUME SpaceInv, NEW p \in Slot, GrowPage(p)
  PROVE  PagesOf(p)'
<1>1. /\ TypeOK /\ sz' = sz /\ pgdir' = pgdir /\ pgdir[p] \in Dir
      /\ sz[p] \in 0 .. USERTOP /\ goal[p] \in 0 .. USERTOP /\ a[p] \in Nat
      /\ Up(sz[p]) \in Nat /\ Up(goal[p]) \in Nat
  BY GrowIs, UpFacts DEF SpaceInv, TypeOK, procs, SlotInv
<1>2. Up(sz[p]) <= a[p] /\ a[p] < Up(goal[p]) /\ Held(p) = 0 .. a[p] - 1
  BY GrowIs DEF SpaceInv, PagesInv, PagesOf
<1>3. CASE /\ Goto(p, IF Up(sz[p]) < Up(goal[p]) THEN "undo" ELSE "user", Up(sz[p]), goal[p])
           /\ UNCHANGED <<pt, free>>
  <2>1. pc'[p] = "undo" /\ a'[p] = Up(sz[p]) /\ goal'[p] = goal[p]
    BY <1>1, <1>2, <1>3, GotoIs
  <2>2. Held(p)' = 0 .. a[p] - 1
    BY <1>1, <1>2, <1>3 DEF Held
  <2>3. 0 .. Up(sz[p]) - 1 \subseteq 0 .. a[p] - 1
    BY <1>1, <1>2
  <2>4. \A i \in 0 .. a[p] - 1 : i < Up(sz[p]) \/ (Up(sz[p]) <= i /\ i < Up(goal[p]))
    BY <1>1, <1>2
  <2>. QED BY <2>1, <2>2, <2>3, <2>4, <1>1, <1>2 DEF PagesOf, Sizing, Below
<1>4. CASE /\ free > 0 /\ a[p] \notin Held(p) /\ a[p] \in Page
           /\ pt' = [pt EXCEPT ![pgdir[p]] = @ \cup {a[p]}] /\ free' = free - 1
           /\ Goto(p, IF a[p] + 1 < Up(goal[p]) THEN "grow" ELSE "size", a[p] + 1, goal[p])
  <2>1. Held(p)' = Held(p) \cup {a[p]}
    BY <1>1, <1>4 DEF Held, TypeOK
  <2>2. Held(p)' = 0 .. a[p]
    BY <2>1, <1>1, <1>2
  <2>3. CASE a[p] + 1 < Up(goal[p])
    <3>1. pc'[p] = "grow" /\ a'[p] = a[p] + 1 /\ goal'[p] = goal[p]
      BY <1>1, <1>4, <2>3, GotoIs
    <3>2. Held(p)' = 0 .. a'[p] - 1
      BY <2>2, <3>1, <1>1
    <3>. QED BY <3>1, <3>2, <2>3, <1>1, <1>2 DEF PagesOf, Sizing
  <2>4. CASE ~(a[p] + 1 < Up(goal[p]))
    <3>1. pc'[p] = "size" /\ goal'[p] = goal[p]
      BY <1>1, <1>4, <2>4, GotoIs
    <3>2. Held(p)' = 0 .. Up(goal[p]) - 1
      BY <2>2, <2>4, <1>1, <1>2
    <3>. QED BY <3>1, <3>2 DEF PagesOf, Sizing, Below
  <2>. QED BY <2>3, <2>4
<1>. QED BY <1>3, <1>4, GrowIs

LEMMA FreePages ==
  ASSUME SpaceInv, NEW p \in Slot, FreePage(p)
  PROVE  PagesOf(p)'
<1>1. /\ TypeOK /\ sz' = sz /\ pgdir' = pgdir /\ pgdir[p] \in Dir
      /\ sz[p] \in 0 .. USERTOP /\ goal[p] \in 0 .. USERTOP /\ a[p] \in Nat
      /\ Up(sz[p]) \in Nat /\ Up(goal[p]) \in Nat
  BY FreeIs, UpFacts DEF SpaceInv, TypeOK, procs, SlotInv
<1>2. Held(p)' = Held(p) \ {a[p]} /\ Held(p) \subseteq Nat
  BY <1>1, FreeIs, Consts DEF Held, TypeOK, Page
<1>3. CASE /\ pc[p] = "undo"
           /\ Goto(p, IF a[p] + 1 < Up(goal[p]) THEN "undo" ELSE "user", a[p] + 1, goal[p])
  <2>1. /\ Up(sz[p]) <= a[p] /\ a[p] < Up(goal[p]) /\ 0 .. Up(sz[p]) - 1 \subseteq Held(p)
        /\ \A i \in Held(p) : i < Up(sz[p]) \/ (a[p] <= i /\ i < Up(goal[p]))
    BY <1>3, FreeIs DEF SpaceInv, PagesInv, PagesOf, Below
  <2>2. /\ 0 .. Up(sz[p]) - 1 \subseteq Held(p)'
        /\ \A i \in Held(p)' : i < Up(sz[p]) \/ (a[p] + 1 <= i /\ i < Up(goal[p]))
    BY <1>1, <1>2, <2>1
  <2>3. CASE a[p] + 1 < Up(goal[p])
    <3>1. pc'[p] = "undo" /\ a'[p] = a[p] + 1 /\ goal'[p] = goal[p]
      BY <1>1, <1>3, <2>3, GotoIs
    <3>. QED BY <3>1, <2>1, <2>2, <2>3, <1>1 DEF PagesOf, Sizing, Below
  <2>4. CASE ~(a[p] + 1 < Up(goal[p]))
    <3>1. pc'[p] = "user"
      BY <1>1, <1>3, <2>4, GotoIs
    <3>2. \A i \in Held(p)' : i < Up(sz[p]) /\ i \in Nat
      BY <2>2, <2>4, <1>1, <1>2
    <3>3. Held(p)' = 0 .. Up(sz[p]) - 1
      <4>1. Held(p)' \subseteq 0 .. Up(sz[p]) - 1
        BY <3>2, <1>1
      <4>2. 0 .. Up(sz[p]) - 1 \subseteq Held(p)'
        BY <2>2
      <4>. QED BY <4>1, <4>2
    <3>. QED BY <3>1, <3>3, <1>1 DEF PagesOf, Sizing, Below
  <2>. QED BY <2>3, <2>4
<1>4. CASE /\ pc[p] = "shrink"
           /\ Goto(p, IF a[p] + 1 < Up(sz[p]) THEN "shrink" ELSE "size", a[p] + 1, goal[p])
  <2>1. /\ Up(goal[p]) <= a[p] /\ a[p] < Up(sz[p]) /\ goal[p] > 0
        /\ Held(p) = 0 .. Up(goal[p]) - 1 \cup (a[p] .. Up(sz[p]) - 1)
    BY <1>4, FreeIs DEF SpaceInv, PagesInv, PagesOf, Below
  <2>2. Held(p)' = 0 .. Up(goal[p]) - 1 \cup (a[p] + 1 .. Up(sz[p]) - 1)
    BY <1>1, <1>2, <2>1
  <2>3. CASE a[p] + 1 < Up(sz[p])
    <3>1. pc'[p] = "shrink" /\ a'[p] = a[p] + 1 /\ goal'[p] = goal[p]
      BY <1>1, <1>4, <2>3, GotoIs
    <3>. QED BY <3>1, <2>1, <2>2, <2>3, <1>1 DEF PagesOf, Sizing, Below
  <2>4. CASE ~(a[p] + 1 < Up(sz[p]))
    <3>1. pc'[p] = "size" /\ goal'[p] = goal[p]
      BY <1>1, <1>4, <2>4, GotoIs
    <3>2. Held(p)' = 0 .. Up(goal[p]) - 1
      BY <2>2, <2>4, <1>1
    <3>. QED BY <3>1, <3>2 DEF PagesOf, Sizing, Below
  <2>. QED BY <2>3, <2>4
<1>. QED BY <1>3, <1>4, FreeIs

LEMMA SizePages ==
  ASSUME SpaceInv, NEW p \in Slot, SetSize(p) \/ ShareSize(p)
  PROVE  PagesOf(p)'
<1>1. TypeOK /\ Held(p)' = Held(p)
  BY SizeIs DEF SpaceInv, Held, memory
<1>2. CASE pc[p] = "size" /\ sz' = [sz EXCEPT ![p] = goal[p]] /\ Goto(p, "share", 0, 0)
  <2>1. pc'[p] = "share" /\ sz'[p] = goal[p]
    BY <1>1, <1>2, GotoIs DEF TypeOK
  <2>2. Held(p) = Below(goal[p])
    BY <1>2, SizeIs DEF SpaceInv, PagesInv, PagesOf
  <2>. QED BY <1>1, <2>1, <2>2 DEF PagesOf, Sizing, Below, Up
<1>3. CASE /\ pc[p] = "share" /\ Goto(p, "user", 0, 0)
           /\ sz' = [q \in Slot |-> IF q \in Threads(p) THEN sz[p] ELSE sz[q]]
  <2>1. pc'[p] = "user" /\ sz'[p] = sz[p]
    BY <1>1, <1>3, GotoIs
  <2>2. Held(p) = Below(sz[p])
    BY <1>3, SizeIs DEF SpaceInv, PagesInv, PagesOf
  <2>. QED BY <1>1, <2>1, <2>2 DEF PagesOf, Sizing, Below, Up
<1>. QED BY <1>2, <1>3, SizeIs

LEMMA UpImage ==
  ASSUME ImagePages <= NPAGE
  PROVE  ImagePages * PGSIZE \in 0 .. USERTOP /\ Up(ImagePages * PGSIZE) = ImagePages
<1>1. ImagePages * PGSIZE \in 0 .. USERTOP
  <2>1. PGSIZE * ImagePages <= PGSIZE * NPAGE /\ PGSIZE * ImagePages \in Int
    BY Consts, Times DEF ImagePages
  <2>2. ImagePages * PGSIZE = PGSIZE * ImagePages
    BY Consts DEF ImagePages
  <2>3. ImagePages * PGSIZE >= 0
    BY Consts DEF ImagePages
  <2>. QED BY <2>1, <2>2, <2>3, Consts
<1>2. \A i \in Nat : i * PGSIZE < ImagePages * PGSIZE <=> i < Up(ImagePages * PGSIZE)
  BY <1>1, UpFacts
<1>3. 2 * PGSIZE = ImagePages * PGSIZE /\ 1 * PGSIZE < ImagePages * PGSIZE
  BY Consts DEF ImagePages
<1>4. 1 < Up(ImagePages * PGSIZE)
  BY <1>2, <1>3
<1>5. ~(2 < Up(ImagePages * PGSIZE))
  BY <1>1, <1>2, <1>3, Consts
<1>6. Up(ImagePages * PGSIZE) \in Nat
  BY <1>1, UpFacts
<1>. QED BY <1>1, <1>4, <1>5, <1>6 DEF ImagePages

LEMMA ForkPages ==
  ASSUME SpaceInv, Ruled, NEW p \in Slot, ForkPage(p) \/ \E q \in Slot : ForkCall(p, q)
  PROVE  PagesOf(p)'
<1>1. TypeOK /\ sz' = sz /\ pgdir' = pgdir
  BY ForkPageIs, ForkCallIs DEF SpaceInv
<1>2. ~Sizing(p)'
  <2>1. pc'[p] \in {"user", "copy", "publish"}
    BY <1>1, ForkPageIs, ForkCallIs, GotoIs
  <2>. QED BY <2>1 DEF Sizing
<1>3. Held(p) = Below(sz[p]) /\ state[p] = "LIVE" /\ pgdir[p] \in dirs
  <2>1. CASE ForkPage(p)
    <3>1. pc[p] = "copy" /\ state[p] = "LIVE"
      BY <2>1, ForkPageIs
    <3>2. ~Sizing(p) /\ \A q \in Slot : Sharing(p, q) => ~Sizing(q)
      BY <3>1 DEF SpaceInv, CallInv, Sizing
    <3>. QED BY <3>1, <3>2 DEF SpaceInv, PagesInv, PagesOf, SlotInv, Placed
  <2>2. CASE \E q \in Slot : ForkCall(p, q)
    BY <2>2, ForkCallIs, AtRest DEF SpaceInv, SlotInv
  <2>. QED BY <2>1, <2>2
<1>4. Held(p)' = Held(p)
  <2>1. CASE ForkPage(p)
    <3>1. pgdir[p] # d[p] /\ (pt' = [pt EXCEPT ![d[p]] = {}] \/ pt' = [pt EXCEPT ![d[p]] = @ \cup {a[p]}])
      BY <2>1, ForkPageIs DEF SpaceInv, ForkInv, ForkOf
    <3>. QED BY <3>1, <1>1, <1>3 DEF Held, TypeOK
  <2>2. CASE \E q \in Slot : ForkCall(p, q)
    <3>1. NewDir \notin dirs /\ pt' = [pt EXCEPT ![NewDir] = {}]
      BY <2>2, ForkCallIs
    <3>. QED BY <3>1, <1>1, <1>3 DEF Held, TypeOK
  <2>. QED BY <2>1, <2>2
<1>. QED BY <1>1, <1>2, <1>3, <1>4 DEF PagesOf, Below, Up, Sizing

(* A step of p changes the pages of its own directory, or of none in use.   *)
LEMMA HeldElse ==
  ASSUME SpaceInv, Ruled, NEW p \in Slot, Step(p), NEW s \in Slot, state[s] = "LIVE", ~Sharing(p, s)
  PROVE  Held(s)' = Held(s)
<1>1. /\ TypeOK /\ pgdir' = pgdir /\ p \in Placed /\ s \in Placed /\ pgdir[s] # pgdir[p]
      /\ pgdir[s] \in dirs /\ pgdir[s] \in Dir
  <2>1. TypeOK /\ pgdir' = pgdir /\ p \in Placed
    BY StepShare, PcStep DEF SpaceInv
  <2>2. s \in Placed
    BY DEF Placed
  <2>3. pgdir[s] # pgdir[p] /\ pgdir[s] \in dirs
    BY <2>1, <2>2 DEF Sharing, SpaceInv, SlotInv
  <2>. QED BY <2>1, <2>2, <2>3 DEF TypeOK
<1>2. \/ pt' = pt
      \/ pt' = [pt EXCEPT ![pgdir[p]] = @ \cup {a[p]}]
      \/ pt' = [pt EXCEPT ![pgdir[p]] = @ \ {a[p]}]
      \/ Forking(p) /\ pt' = [pt EXCEPT ![d[p]] = {}]
      \/ Forking(p) /\ pt' = [pt EXCEPT ![d[p]] = @ \cup {a[p]}]
      \/ NewDir \notin dirs /\ pt' = [pt EXCEPT ![NewDir] = {}]
  <2>1. CASE \E n \in Deltas : SbrkCall(p, n)
    BY <2>1 DEF SbrkCall, memory
  <2>2. CASE GrowPage(p)
    BY <2>2, GrowIs
  <2>3. CASE FreePage(p)
    BY <2>3, FreeIs
  <2>4. CASE SetSize(p) \/ ShareSize(p)
    BY <2>4, SizeIs DEF memory
  <2>5. CASE ForkPage(p)
    BY <2>5, ForkPageIs
  <2>6. CASE \E q \in Slot : ForkCall(p, q)
    BY <2>6, ForkCallIs
  <2>. QED BY <2>1, <2>2, <2>3, <2>4, <2>5, <2>6 DEF Step
<1>3. Forking(p) => d[p] # pgdir[s]
  BY DEF SpaceInv, ForkInv, ForkOf
<1>. QED BY <1>1, <1>2, <1>3 DEF Held, TypeOK

LEMMA PagesStep ==
  ASSUME SpaceInv, Ruled, [Next]_vars
  PROVE  PagesInv'
<1>0. PagesInv /\ TypeOK /\ SizeInv' /\ CallInv'
  BY SizeStep, CallStep DEF SpaceInv
<1>1. ASSUME NEW p \in Slot, Step(p) PROVE PagesInv'
  <2>1. /\ pgdir' = pgdir
        /\ \A s \in Slot : state'[s] = "LIVE" <=> state[s] = "LIVE"
        /\ \A x, y \in Slot : Sharing(x, y)' <=> Sharing(x, y)
    BY <1>1, StepShare
  <2>2. /\ p \in Placed /\ state[p] = "LIVE"
        /\ \A s \in Slot \ {p} : pc'[s] = pc[s] /\ a'[s] = a[s] /\ goal'[s] = goal[s]
        /\ \A s \in Slot \ {p} : Sharing(p, s) => pc[s] = "user"
    BY <1>1, PcStep
  <2>3. PagesOf(p)'
    BY <1>1, SbrkPages, GrowPages, FreePages, SizePages, ForkPages DEF Step
  <2>4. \A s \in Slot \ {p} : Sizing(s)' <=> Sizing(s)
    BY <2>2 DEF Sizing
  <2>5. ASSUME NEW s \in Slot, state[s] = "LIVE", ~Sharing(p, s) PROVE PagesOf(s)'
    <3>1. s # p
      BY <2>2, <2>5 DEF Sharing
    <3>2. Held(s)' = Held(s) /\ sz'[s] = sz[s] /\ pc'[s] = pc[s] /\ a'[s] = a[s] /\ goal'[s] = goal[s]
      BY <3>1, <2>2, <2>5, <1>1, HeldElse, SizesOf
    <3>3. ASSUME NEW q \in Slot, Sharing(s, q), Sizing(q) PROVE Sharing(s, q)' /\ Sizing(q)'
      BY <3>3, <2>1, <2>4, <2>5 DEF Sharing
    <3>4. PagesOf(s)
      BY <2>5, <1>0 DEF PagesInv
    <3>5. Sizing(s)' <=> Sizing(s)
      BY <3>1, <2>4
    <3>. QED BY <3>2, <3>3, <3>4, <3>5 DEF PagesOf, Below, Up
  <2>6. ASSUME NEW s \in Slot, s # p, Sharing(p, s) PROVE PagesOf(s)'
    <3>1. pc'[s] = "user" /\ ~Sizing(s)' /\ Held(s)' = Held(p)'
      BY <2>1, <2>2, <2>6 DEF Sizing, Held, Sharing
    <3>2. Sharing(p, s)' /\ Sharing(s, p)'
      BY <2>1, <2>6 DEF Sharing
    <3>3. CASE Sizing(p)'
      BY <3>1, <3>2, <3>3 DEF PagesOf
    <3>4. CASE ~Sizing(p)'
      <4>1. sz'[s] = sz'[p]
        BY <3>1, <3>2, <3>4, <1>0 DEF SizeInv, Sizing
      <4>2. CASE Held(p)' = Below(sz[p])'
        BY <3>1, <4>1, <4>2 DEF PagesOf, Below, Up
      <4>3. CASE \E q \in Slot : Sharing(p, q)' /\ Sizing(q)'
        <5>1. \E q \in Slot : Sharing(s, q)' /\ Sizing(q)'
          BY <3>2, <4>3 DEF Sharing
        <5>. QED BY <3>1, <5>1 DEF PagesOf
      <4>. QED BY <3>4, <4>2, <4>3, <2>3 DEF PagesOf
    <3>. QED BY <3>3, <3>4
  <2>. QED BY <2>1, <2>3, <2>5, <2>6 DEF PagesInv
<1>2. ASSUME NEW p \in Slot, ForkPublish(p) PROVE PagesInv'
  <2>1. PICK c \in Slot :
        /\ c = np[p] /\ c \notin Placed /\ p # c /\ p \in Placed
        /\ \A x, y \in Slot : Sharing(x, y)' <=> (x = c /\ y = c) \/ Sharing(x, y)
    BY <1>2, PublishShape
  <2>2. /\ pc[p] = "publish" /\ pc'[p] = "user" /\ pt' = pt /\ state[p] = "LIVE"
        /\ \A s \in Slot \ {p} : pc'[s] = pc[s] /\ a'[s] = a[s] /\ goal'[s] = goal[s]
    BY <1>2, <1>0, GotoIs DEF ForkPublish, SpaceInv, SlotInv, memory
  <2>3. /\ \A s \in Slot \ {c} : sz'[s] = sz[s] /\ pgdir'[s] = pgdir[s] /\ state'[s] = state[s]
        /\ sz'[c] = sz[p] /\ pgdir'[c] = d[p]
    BY <1>2, <2>1, <1>0 DEF ForkPublish, TypeOK
  <2>4. \A s \in Slot : Sizing(s)' <=> Sizing(s)
    BY <2>2 DEF Sizing
  <2>5. PagesOf(c)'
    <3>1. pc'[c] = "user"
      BY <2>1, <2>2 DEF SpaceInv, SlotInv, Placed
    <3>2. pt[d[p]] = Below(sz[p])
      BY <2>2 DEF SpaceInv, ForkInv, ForkOf, Forking
    <3>. QED BY <3>1, <3>2, <2>2, <2>3 DEF PagesOf, Held, Below, Up, Sizing
  <2>6. ASSUME NEW s \in Slot \ {c}, state[s] = "LIVE" PROVE PagesOf(s)'
    <3>1. PagesOf(s) /\ Held(s)' = Held(s)
      BY <2>2, <2>3, <2>6, <1>0 DEF PagesInv, Held
    <3>2. ASSUME NEW q \in Slot, Sharing(s, q), Sizing(q) PROVE Sharing(s, q)' /\ Sizing(q)'
      BY <3>2, <2>1, <2>4
    <3>3. CASE s = p
      BY <3>1, <3>2, <3>3, <2>2, <2>3, <2>4 DEF PagesOf, Below, Up, Sizing
    <3>4. CASE s # p
      <4>1. pc'[s] = pc[s] /\ a'[s] = a[s] /\ goal'[s] = goal[s] /\ sz'[s] = sz[s] /\ (Sizing(s)' <=> Sizing(s))
        BY <3>4, <2>2, <2>3, <2>4
      <4>. QED BY <4>1, <3>1, <3>2 DEF PagesOf, Below, Up
    <3>. QED BY <3>3, <3>4
  <2>. QED BY <2>3, <2>5, <2>6 DEF PagesInv
<1>3. ASSUME NEW p \in Slot, NEW q \in Slot, Clone(p, q) PROVE PagesInv'
  <2>1. /\ q \notin Placed /\ p # q
        /\ \A x, y \in Slot : Sharing(x, y) => Sharing(x, y)'
    BY <1>3, CloneShape
  <2>2. /\ pc' = pc /\ a' = a /\ goal' = goal /\ pt' = pt /\ Calls(p)
        /\ sz'[q] = sz[p] /\ pgdir'[q] = pgdir[p]
        /\ \A s \in Slot \ {q} : sz'[s] = sz[s] /\ pgdir'[s] = pgdir[s] /\ state'[s] = state[s]
    BY <1>3, <1>0 DEF Clone, local, TypeOK, memory
  <2>3. PagesOf(q)'
    <3>1. pc[q] = "user"
      BY <2>1 DEF SpaceInv, SlotInv, Placed
    <3>2. Held(p) = Below(sz[p])
      BY <2>2, AtRest
    <3>. QED BY <3>1, <3>2, <2>2 DEF PagesOf, Held, Below, Up, Sizing
  <2>4. ASSUME NEW s \in Slot \ {q}, state[s] = "LIVE" PROVE PagesOf(s)'
    <3>1. PagesOf(s) /\ Held(s)' = Held(s) /\ sz'[s] = sz[s]
      BY <2>2, <2>4, <1>0 DEF PagesInv, Held
    <3>. QED BY <3>1, <2>1, <2>2 DEF PagesOf, Below, Up, Sizing
  <2>. QED BY <2>2, <2>3, <2>4 DEF PagesInv
<1>4. ASSUME NEW p \in Slot, Exec(p) PROVE PagesInv'
  <2>1. /\ p \in Placed /\ state' = state
        /\ \A q \in Slot : Sharing(p, q) => q = p
        /\ \A x, y \in Slot : Sharing(x, y)' <=> Sharing(x, y)
    BY <1>4, ExecShape
  <2>2. /\ pc' = pc /\ a' = a /\ goal' = goal /\ Calls(p) /\ NewDir \in Dir \ dirs
        /\ pt' = [pt EXCEPT ![pgdir[p]] = {}, ![NewDir] = 0 .. ImagePages - 1]
        /\ sz'[p] = ImagePages * PGSIZE /\ pgdir'[p] = NewDir
        /\ \A s \in Slot \ {p} : sz'[s] = sz[s] /\ pgdir'[s] = pgdir[s]
        /\ ImagePages <= NPAGE
    BY <1>4, <1>0, NewDirIs DEF Exec, local, TypeOK
  <2>3. PagesOf(p)'
    <3>1. pc[p] = "user"
      BY <2>2 DEF Calls
    <3>2. Held(p)' = 0 .. ImagePages - 1
      BY <2>2, <1>0 DEF Held, TypeOK
    <3>3. Up(ImagePages * PGSIZE) = ImagePages
      BY <2>2, UpImage
    <3>. QED BY <3>1, <3>2, <3>3, <2>2 DEF PagesOf, Below, Up, Sizing
  <2>4. ASSUME NEW s \in Slot \ {p}, state[s] = "LIVE" PROVE PagesOf(s)'
    <3>1. PagesOf(s) /\ sz'[s] = sz[s]
      BY <2>2, <2>4, <1>0 DEF PagesInv
    <3>2. s \in Placed /\ pgdir[s] # pgdir[p] /\ pgdir[s] \in dirs
      BY <2>1, <2>4 DEF Placed, Sharing, SpaceInv, SlotInv
    <3>3. Held(s)' = Held(s)
      BY <3>2, <2>2, <1>0 DEF Held, TypeOK
    <3>. QED BY <3>1, <3>3, <2>1, <2>2 DEF PagesOf, Below, Up, Sizing
  <2>. QED BY <2>1, <2>3, <2>4 DEF PagesInv
<1>5. ASSUME NEW p \in Slot, Exit(p) PROVE PagesInv'
  <2>0. PICK copy, new : Copied(p, copy, new)
    BY <1>5, ExitShape
  <2>1. /\ p \in Placed /\ state' = [state EXCEPT ![p] = "ZOMBIE"] /\ sz' = sz
        /\ pc' = pc /\ a' = a /\ goal' = goal
        /\ Threads(p) \subseteq Placed
        /\ \A x, y \in Slot : Sharing(x, y)' <=>
             (x \in Placed /\ x = y) \/ (Sharing(x, y) /\ x \notin Threads(p) /\ y \notin Threads(p))
    BY <1>5, ExitShape DEF local
  <2>2. Calls(p) /\ \A s \in Slot : state'[s] = "LIVE" => state[s] = "LIVE"
    BY <1>5, <2>1, <1>0 DEF Exit, TypeOK
  <2>3. ASSUME NEW s \in Threads(p) PROVE PagesOf(s)'
    <3>1. s \in Slot /\ Sharing(p, s)
      BY <2>1, ThreadsShare DEF Threads
    <3>2. /\ pc[p] = "user" /\ pc[s] = "user" /\ sz[s] = sz[p]
      BY <2>2, <3>1, AtRest DEF SpaceInv, SizeInv
    <3>3. pgdir'[s] = copy[s] /\ copy[s] \in new /\ copy[s] \in Dir
      BY <3>1, <2>0 DEF Copied
    <3>4. Held(s)' = Below(sz[p])
      BY <3>3, <2>0 DEF Held, Copied
    <3>. QED BY <3>1, <3>2, <3>4, <2>1 DEF PagesOf, Below, Up, Sizing
  <2>4. ASSUME NEW s \in Slot \ Threads(p), state[s] = "LIVE" PROVE PagesOf(s)'
    <3>1. PagesOf(s) /\ s \in Placed
      BY <2>4, <1>0 DEF PagesInv, Placed
    <3>2. pgdir[s] \in dirs /\ pgdir[s] \in Dir
      BY <3>1 DEF SpaceInv, SlotInv, TypeOK
    <3>3. Held(s)' = Held(s)
      <4>1. pgdir'[s] = pgdir[s] /\ pgdir[s] \notin new
        BY <3>2, <2>0 DEF Copied
      <4>. QED BY <3>2, <4>1, <2>0 DEF Held, Copied
    <3>4. ASSUME NEW q \in Slot, Sharing(s, q), Sizing(q) PROVE Sharing(s, q)'
      <4>1. q \in Threads(p) => pc[q] = "user"
        BY <2>1, <2>2, ThreadsShare, AtRest
      <4>2. q \notin Threads(p)
        BY <3>4, <4>1 DEF Sizing
      <4>. QED BY <3>4, <4>2, <2>1
    <3>. QED BY <3>1, <3>3, <3>4, <2>1 DEF PagesOf, Below, Up, Sizing
  <2>. QED BY <2>2, <2>3, <2>4 DEF PagesInv
<1>6. ASSUME NEW p \in Slot, NEW z \in Slot, Wait(p, z) \/ Join(p, z) PROVE PagesInv'
  <2>1. /\ z \in Placed /\ state[z] = "ZOMBIE" /\ state'[z] = "UNUSED"
        /\ \A x, y \in Slot : Sharing(x, y)' <=> Sharing(x, y) /\ x # z /\ y # z
        /\ \A s \in Slot \ {z} : state'[s] = state[s] /\ pgdir'[s] = pgdir[s] /\ sz'[s] = sz[s]
        /\ pc' = pc /\ a' = a /\ goal' = goal
    BY <1>6, ReapShape DEF local
  <2>2. pt' = pt \/ (pt' = [pt EXCEPT ![pgdir[z]] = {}] /\ Wait(p, z))
    BY <1>6 DEF Wait, Join, memory
  <2>3. ASSUME NEW s \in Slot \ {z}, state[s] = "LIVE" PROVE PagesOf(s)'
    <3>1. PagesOf(s) /\ s \in Placed
      BY <2>3, <1>0 DEF PagesInv, Placed
    <3>2. Wait(p, z) => pgdir[s] # pgdir[z]
      BY <3>1, <2>1, WaitAlone DEF Sharing
    <3>3. pgdir[s] \in Dir
      BY <3>1 DEF SpaceInv, SlotInv, TypeOK
    <3>4. Held(s)' = Held(s)
      BY <3>2, <3>3, <2>1, <2>2, <1>0 DEF Held, TypeOK
    <3>5. ASSUME NEW q \in Slot, Sharing(s, q), Sizing(q) PROVE Sharing(s, q)'
      <4>1. q # z
        BY <3>5, <2>1 DEF SpaceInv, SlotInv, Sizing
      <4>. QED BY <3>5, <4>1, <2>1
    <3>. QED BY <3>1, <3>4, <3>5, <2>1 DEF PagesOf, Below, Up, Sizing
  <2>. QED BY <2>1, <2>3 DEF PagesInv
<1>7. CASE UNCHANGED vars
  <2>1. \A x, y \in Slot : Sharing(x, y)' <=> Sharing(x, y)
    BY <1>7, StepShare, Consts
  <2>2. pc' = pc /\ sz' = sz /\ pt' = pt /\ pgdir' = pgdir /\ a' = a /\ goal' = goal /\ state' = state
    BY <1>7 DEF vars, local, procs, memory
  <2>3. \A s \in Slot : PagesOf(s) => PagesOf(s)'
    BY <2>1, <2>2 DEF PagesOf, Sizing, Held, Below, Up
  <2>. QED BY <2>2, <2>3, <1>0 DEF PagesInv
<1>. QED BY <1>1, <1>2, <1>3, <1>4, <1>5, <1>6, <1>7, NextKinds

-----------------------------------------------------------------------------
(* Forks in progress                                                        *)

LEMMA ForkKept ==
  ASSUME NEW x \in Slot, ForkOf(x),
         pc'[x] = pc[x], a'[x] = a[x], goal'[x] = goal[x], np'[x] = np[x], d'[x] = d[x],
         Forking(x) => /\ sz'[x] = sz[x] /\ state'[np[x]] = state[np[x]] /\ d[x] \in dirs'
                       /\ pt'[d[x]] = pt[d[x]] /\ \A s \in Slot : pgdir'[s] # d[x]
  PROVE  ForkOf(x)'
BY DEF ForkOf, Forking, Below, Up

LEMMA ForkStep ==
  ASSUME SpaceInv, Ruled, [Next]_vars
  PROVE  ForkInv'
<1>0. TypeOK /\ ForkInv /\ (\A x \in Slot : ForkOf(x)) /\ SlotInv
  BY DEF SpaceInv, ForkInv
<1>a. \A x, y \in Slot : Forking(x) /\ Forking(y) /\ x # y => np[x] # np[y] /\ d[x] # d[y]
  BY <1>0 DEF ForkInv
<1>b. \A x \in Slot : Forking(x) =>
        /\ np[x] \in Slot /\ state[np[x]] = "EMBRYO" /\ d[x] \in dirs /\ d[x] \in Dir
        /\ \A s \in Slot : pgdir[s] # d[x]
        /\ state[x] = "LIVE" /\ pc[x] # "user"
  BY <1>0 DEF ForkOf, SlotInv, Forking, TypeOK
<1>c. \A s \in Slot : state[s] = "EMBRYO" => \E x \in Slot : np[x] = s
  BY <1>0 DEF ForkInv
<1>d. \A x \in Slot : ~Forking(x) => np[x] = NoProc /\ d[x] = NoDir
  BY <1>0 DEF ForkOf
<1>1. ASSUME NEW p \in Slot, Step(p) PROVE ForkInv'
  <2>1. /\ pgdir' = pgdir /\ p \in Placed /\ pgdir[p] \in dirs /\ pgdir[p] \in Dir
    BY <1>1, <1>0, StepShare, PcStep DEF SlotInv, TypeOK
  <2>2. /\ state[p] = "LIVE"
        /\ \A s \in Slot \ {p} : /\ pc'[s] = pc[s] /\ a'[s] = a[s] /\ goal'[s] = goal[s]
                            /\ np'[s] = np[s] /\ d'[s] = d[s] /\ (Forking(s)' <=> Forking(s))
        /\ \A s \in Slot \ {p} : Sharing(p, s) => pc[s] = "user"
    BY <1>1, PcStep DEF Forking
  <2>3. \A x \in Slot \ {p} : Forking(x) => sz'[x] = sz[x]
    BY <2>2, <1>1, <1>b, SizesOf
  <2>4. CASE ~Forking(p) /\ ~Forking(p)' /\ UNCHANGED <<np, d, dirs, state>>
             /\ (\A t \in Dir : t # pgdir[p] => pt'[t] = pt[t])
    <3>1. ASSUME NEW x \in Slot \ {p} PROVE ForkOf(x)'
      BY <2>1, <2>2, <2>3, <2>4, <1>0, <1>b, ForkKept
    <3>2. ForkOf(p)'
      BY <2>4, <1>d DEF ForkOf
    <3>. QED BY <3>1, <3>2, <2>2, <2>4, <1>a, <1>c DEF ForkInv
  <2>5. CASE \E n \in Deltas : SbrkCall(p, n)
    <3>1. PICK n \in Deltas : SbrkCall(p, n)
      BY <2>5
    <3>2. pc[p] = "user" /\ UNCHANGED <<procs, np, d, memory>>
      BY <3>1, SbrkIs, AtRest
    <3>3. pc'[p] \in {"grow", "shrink", "size"}
      BY <3>1, <1>0, SbrkIs, GotoIs
    <3>. QED BY <3>2, <3>3, <2>4 DEF procs, memory, Forking
  <2>6. CASE GrowPage(p)
    <3>1. pc'[p] \in {"undo", "user", "grow", "size"}
      BY <2>6, <1>0, GrowIs, GotoIs
    <3>2. pc[p] = "grow" /\ UNCHANGED <<procs, np, d, dirs>>
          /\ (pt' = pt \/ pt' = [pt EXCEPT ![pgdir[p]] = @ \cup {a[p]}])
      BY <2>6, GrowIs
    <3>. QED BY <3>1, <3>2, <2>4, <1>0 DEF procs, Forking, TypeOK
  <2>7. CASE FreePage(p)
    <3>1. pc'[p] \in {"undo", "user", "shrink", "size"}
      BY <2>7, <1>0, FreeIs, GotoIs
    <3>2. pc[p] \in {"undo", "shrink"} /\ UNCHANGED <<procs, np, d, dirs>>
          /\ pt' = [pt EXCEPT ![pgdir[p]] = @ \ {a[p]}]
      BY <2>7, FreeIs
    <3>. QED BY <3>1, <3>2, <2>4, <1>0 DEF procs, Forking, TypeOK
  <2>8. CASE SetSize(p) \/ ShareSize(p)
    <3>1. pc'[p] \in {"share", "user"}
      BY <2>8, <1>0, SizeIs, GotoIs
    <3>2. pc[p] \in {"size", "share"} /\ UNCHANGED <<state, np, d, memory>>
      BY <2>8, SizeIs
    <3>. QED BY <3>1, <3>2, <2>4 DEF memory, Forking
  <2>9. CASE ForkPage(p)
    <3>1. /\ pc[p] = "copy" /\ Forking(p) /\ UNCHANGED <<parent, pgdir, sz>>
          /\ np[p] \in Slot /\ state[np[p]] = "EMBRYO" /\ d[p] \in dirs /\ d[p] \in Dir
          /\ a[p] \in Nat /\ a[p] < Up(sz[p]) /\ goal[p] = sz[p] /\ pt[d[p]] = 0 .. a[p] - 1
      BY <2>9, ForkPageIs
    <3>2. \A x \in Slot \ {p} : Forking(x) => np[x] # np[p] /\ d[x] # d[p]
      BY <3>1, <1>a
    <3>3. CASE /\ dirs' = dirs \ {d[p]} /\ pt' = [pt EXCEPT ![d[p]] = {}]
               /\ state' = [state EXCEPT ![np[p]] = "UNUSED"]
               /\ np' = [np EXCEPT ![p] = NoProc] /\ d' = [d EXCEPT ![p] = NoDir]
               /\ Goto(p, "user", 0, 0)
      <4>1. /\ pc'[p] = "user" /\ np'[p] = NoProc /\ d'[p] = NoDir /\ state'[np[p]] = "UNUSED"
            /\ \A s \in Slot \ {np[p]} : state'[s] = state[s]
            /\ \A t \in Dir \ {d[p]} : pt'[t] = pt[t]
        BY <3>1, <3>3, <1>0, GotoIs DEF TypeOK
      <4>2. ~Forking(p)' /\ ForkOf(p)'
        BY <4>1 DEF ForkOf, Forking
      <4>3. ASSUME NEW x \in Slot \ {p} PROVE ForkOf(x)'
        BY <4>1, <3>1, <3>2, <3>3, <2>2, <2>3, <1>0, <1>b, ForkKept
      <4>4. ASSUME NEW s \in Slot, state'[s] = "EMBRYO" PROVE \E x \in Slot : np'[x] = s
        <5>1. s # np[p] /\ state[s] = "EMBRYO"
          BY <4>1, <4>4
        <5>. QED BY <5>1, <2>2, <1>c
      <4>. QED BY <4>2, <4>3, <4>4, <2>2, <1>a DEF ForkInv
    <3>4. CASE /\ pt' = [pt EXCEPT ![d[p]] = @ \cup {a[p]}]
               /\ Goto(p, IF a[p] + 1 < Up(goal[p]) THEN "copy" ELSE "publish", a[p] + 1, goal[p])
               /\ UNCHANGED <<state, np, d, dirs>>
      <4>1. pt'[d[p]] = 0 .. a[p] /\ \A t \in Dir \ {d[p]} : pt'[t] = pt[t]
        <5>1. pt'[d[p]] = pt[d[p]] \cup {a[p]} /\ \A t \in Dir \ {d[p]} : pt'[t] = pt[t]
          BY <3>1, <3>4, <1>0 DEF TypeOK
        <5>. QED BY <5>1, <3>1
      <4>2. Forking(p)' /\ goal'[p] = goal[p]
        BY <3>4, <1>0, GotoIs DEF Forking
      <4>3. Up(sz[p]) \in Nat
        BY <1>0, UpFacts DEF TypeOK
      <4>4. ForkOf(p)'
        <5>1. CASE a[p] + 1 < Up(sz[p])
          <6>1. pc'[p] = "copy" /\ a'[p] = a[p] + 1
            BY <5>1, <3>1, <3>4, <1>0, GotoIs
          <6>. QED BY <6>1, <5>1, <4>1, <4>2, <4>3, <3>1, <3>4, <1>b DEF ForkOf, Up
        <5>2. CASE ~(a[p] + 1 < Up(sz[p]))
          <6>1. pc'[p] = "publish" /\ 0 .. a[p] = 0 .. Up(sz[p]) - 1
            BY <5>2, <3>1, <3>4, <4>3, <1>0, GotoIs
          <6>. QED BY <6>1, <4>1, <4>2, <4>3, <3>1, <3>4, <1>b DEF ForkOf, Below, Up
        <5>. QED BY <5>1, <5>2
      <4>5. ASSUME NEW x \in Slot \ {p} PROVE ForkOf(x)'
        BY <4>1, <3>1, <3>2, <3>4, <2>2, <2>3, <1>0, <1>b, ForkKept
      <4>6. \A s \in Slot : Forking(s)' <=> Forking(s)
        BY <4>2, <3>1, <2>2
      <4>. QED BY <4>4, <4>5, <4>6, <3>4, <1>a, <1>c DEF ForkInv
    <3>. QED BY <3>3, <3>4, <2>9, ForkPageIs
  <2>10. CASE \E q \in Slot : ForkCall(p, q)
    <3>1. PICK q \in Slot : ForkCall(p, q)
      BY <2>10
    <3>2. /\ Calls(p) /\ state[q] = "UNUSED" /\ NewDir \in Dir \ dirs
          /\ state' = [state EXCEPT ![q] = "EMBRYO"]
          /\ np' = [np EXCEPT ![p] = q] /\ d' = [d EXCEPT ![p] = NewDir]
          /\ dirs' = dirs \cup {NewDir} /\ pt' = [pt EXCEPT ![NewDir] = {}]
          /\ Goto(p, IF 0 < Up(sz[p]) THEN "copy" ELSE "publish", 0, sz[p])
          /\ UNCHANGED <<parent, pgdir, sz>>
      BY <3>1, ForkCallIs
    <3>3. PICK t \in Dir \ dirs : t = NewDir
      BY <3>2
    <3>4. /\ state'[q] = "EMBRYO" /\ \A s \in Slot \ {q} : state'[s] = state[s]
          /\ np'[p] = q /\ d'[p] = t /\ dirs' = dirs \cup {t}
          /\ pt'[t] = {} /\ \A u \in Dir \ {t} : pt'[u] = pt[u]
      BY <3>2, <3>3, <1>0 DEF TypeOK
    <3>5. Forking(p)' /\ goal'[p] = sz[p] /\ pc[p] = "user"
      <4>1. CASE 0 < Up(sz[p])
        <5>1. Goto(p, "copy", 0, sz[p]) /\ pc[p] = "user"
          BY <4>1, <3>2 DEF Calls
        <5>. QED BY <5>1, <1>0, GotoIs DEF Forking
      <4>2. CASE ~(0 < Up(sz[p]))
        <5>1. Goto(p, "publish", 0, sz[p]) /\ pc[p] = "user"
          BY <4>2, <3>2 DEF Calls
        <5>. QED BY <5>1, <1>0, GotoIs DEF Forking
      <4>. QED BY <4>1, <4>2
    <3>6. \A s \in Slot : pgdir[s] # t
      BY <3>3, Consts, <1>0 DEF SlotInv
    <3>7. Up(sz[p]) \in Nat
      BY <1>0, UpFacts DEF TypeOK
    <3>8. ForkOf(p)'
      <4>1. CASE 0 < Up(sz[p])
        <5>1. pc'[p] = "copy" /\ a'[p] = 0 /\ {} = 0 .. a'[p] - 1
          BY <4>1, <3>2, <1>0, GotoIs
        <5>. QED BY <5>1, <4>1, <3>2, <3>4, <3>5, <3>6 DEF ForkOf, Up
      <4>2. CASE ~(0 < Up(sz[p]))
        <5>1. pc'[p] = "publish" /\ {} = 0 .. Up(sz[p]) - 1
          BY <4>2, <3>2, <3>7, <1>0, GotoIs
        <5>. QED BY <5>1, <3>2, <3>4, <3>5, <3>6 DEF ForkOf, Below, Up
      <4>. QED BY <4>1, <4>2
    <3>9. ASSUME NEW x \in Slot \ {p} PROVE ForkOf(x)'
      BY <3>2, <3>3, <3>4, <2>2, <2>3, <1>0, <1>b, ForkKept
    <3>10. ASSUME NEW x \in Slot, NEW y \in Slot, Forking(x)', Forking(y)', x # y
           PROVE  np'[x] # np'[y] /\ d'[x] # d'[y]
      BY <3>10, <3>2, <3>3, <3>4, <2>2, <1>a, <1>b
    <3>11. ASSUME NEW s \in Slot, state'[s] = "EMBRYO" PROVE \E x \in Slot : np'[x] = s
      <4>1. CASE s = q
        BY <4>1, <3>4
      <4>2. CASE s # q
        <5>1. PICK x \in Slot : np[x] = s
          BY <4>2, <3>4, <3>11, <1>c
        <5>2. x # p
          BY <5>1, <3>5, <1>d, Consts DEF Forking
        <5>. QED BY <5>1, <5>2, <2>2
      <4>. QED BY <4>1, <4>2
    <3>. QED BY <3>8, <3>9, <3>10, <3>11 DEF ForkInv
  <2>. QED BY <1>1, <2>5, <2>6, <2>7, <2>8, <2>9, <2>10 DEF Step
<1>2. ASSUME NEW p \in Slot, ForkPublish(p) PROVE ForkInv'
  <2>1. PICK c \in Slot : c = np[p] /\ c \notin Placed /\ p # c
    BY <1>2, PublishShape
  <2>2. /\ Forking(p) /\ pc'[p] = "user" /\ np'[p] = NoProc /\ d'[p] = NoDir /\ UNCHANGED <<dirs, pt>>
        /\ \A s \in Slot \ {p} : /\ pc'[s] = pc[s] /\ a'[s] = a[s] /\ goal'[s] = goal[s]
                            /\ np'[s] = np[s] /\ d'[s] = d[s] /\ (Forking(s)' <=> Forking(s))
    BY <1>2, <1>0, GotoIs DEF ForkPublish, TypeOK, memory, Forking
  <2>3. /\ state'[c] = "LIVE" /\ pgdir'[c] = d[p]
        /\ \A s \in Slot \ {c} : state'[s] = state[s] /\ pgdir'[s] = pgdir[s] /\ sz'[s] = sz[s]
    BY <1>2, <2>1, <1>0 DEF ForkPublish, TypeOK
  <2>4. ~Forking(p)' /\ ForkOf(p)'
    BY <2>2 DEF ForkOf, Forking
  <2>5. \A x \in Slot \ {p} : Forking(x) => np[x] # c /\ d[x] # d[p] /\ x # c
    BY <2>1, <2>2, <1>a, <1>b DEF Placed
  <2>6. ASSUME NEW x \in Slot \ {p} PROVE ForkOf(x)'
    BY <2>2, <2>3, <2>5, <1>0, <1>b, ForkKept
  <2>7. ASSUME NEW s \in Slot, state'[s] = "EMBRYO" PROVE \E x \in Slot : np'[x] = s
    <3>1. s # c /\ state[s] = "EMBRYO"
      BY <2>3, <2>7
    <3>. QED BY <3>1, <2>1, <2>2, <1>c
  <2>. QED BY <2>2, <2>4, <2>6, <2>7, <1>a DEF ForkInv
<1>3. ASSUME UNCHANGED local,
             \A x \in Slot : Forking(x) =>
               /\ sz'[x] = sz[x] /\ state'[np[x]] = state[np[x]] /\ d[x] \in dirs'
               /\ pt'[d[x]] = pt[d[x]] /\ \A s \in Slot : pgdir'[s] # d[x],
             \A s \in Slot : state'[s] = "EMBRYO" => state[s] = "EMBRYO"
      PROVE  ForkInv'
  <2>1. pc' = pc /\ a' = a /\ goal' = goal /\ np' = np /\ d' = d
    BY <1>3 DEF local
  <2>2. ASSUME NEW x \in Slot PROVE ForkOf(x)'
    BY <1>0, <1>3, <2>1, ForkKept
  <2>3. \A x \in Slot : Forking(x)' <=> Forking(x)
    BY <2>1 DEF Forking
  <2>. QED BY <2>1, <2>2, <2>3, <1>3, <1>a, <1>c DEF ForkInv
<1>4. ASSUME NEW p \in Slot, NEW q \in Slot, Clone(p, q) PROVE ForkInv'
  <2>1. /\ UNCHANGED local /\ dirs' = dirs /\ pt' = pt /\ state[q] = "UNUSED" /\ state'[q] = "LIVE"
        /\ \A s \in Slot \ {q} : state'[s] = state[s] /\ pgdir'[s] = pgdir[s] /\ sz'[s] = sz[s]
        /\ pgdir'[q] = pgdir[p]
    BY <1>4, <1>0 DEF Clone, Unused, TypeOK, memory
  <2>2. \A x \in Slot : Forking(x) => np[x] # q /\ x # q
    BY <2>1, <1>b
  <2>. QED BY <2>1, <2>2, <1>3, <1>b
<1>5. ASSUME NEW p \in Slot, Exec(p) PROVE ForkInv'
  <2>1. /\ UNCHANGED local /\ state' = state /\ NewDir \in Dir \ dirs /\ pc[p] = "user"
        /\ pgdir'[p] = NewDir /\ dirs' = (dirs \cup {NewDir}) \ {pgdir[p]}
        /\ pt' = [pt EXCEPT ![pgdir[p]] = {}, ![NewDir] = 0 .. ImagePages - 1]
        /\ \A s \in Slot \ {p} : pgdir'[s] = pgdir[s] /\ sz'[s] = sz[s]
    BY <1>5, <1>0, NewDirIs DEF Exec, Calls, TypeOK
  <2>2. \A x \in Slot : Forking(x) => x # p /\ d[x] # NewDir /\ d[x] # pgdir[p]
    BY <2>1, <1>b
  <2>3. \A x \in Slot : Forking(x) => pt'[d[x]] = pt[d[x]]
    BY <2>1, <2>2, <1>0, <1>b DEF TypeOK
  <2>4. \A x, s \in Slot : Forking(x) => pgdir'[s] # d[x] /\ d[x] \in dirs' /\ sz'[x] = sz[x]
    BY <2>1, <2>2, <1>b
  <2>. QED BY <2>1, <2>3, <2>4, <1>3
<1>6. ASSUME NEW p \in Slot, Exit(p) PROVE ForkInv'
  <2>0. PICK copy, new : Copied(p, copy, new)
    BY <1>6, ExitShape
  <2>1. /\ p \in Placed /\ state' = [state EXCEPT ![p] = "ZOMBIE"] /\ sz' = sz /\ UNCHANGED local
    BY <1>6, ExitShape
  <2>2. state'[p] = "ZOMBIE" /\ \A s \in Slot \ {p} : state'[s] = state[s]
    BY <2>1, <1>0 DEF TypeOK
  <2>3. \A x \in Slot : Forking(x) => np[x] # p /\ d[x] \notin new
    BY <2>0, <2>1, <1>b DEF Placed, Copied
  <2>4. \A x, s \in Slot : Forking(x) => pgdir'[s] # d[x]
    BY <2>0, <1>b DEF Copied
  <2>5. \A x \in Slot : Forking(x) => pt'[d[x]] = pt[d[x]] /\ d[x] \in dirs'
    BY <2>0, <2>3, <1>b DEF Copied
  <2>. QED BY <2>1, <2>2, <2>3, <2>4, <2>5, <1>3, <1>b
<1>7. ASSUME NEW p \in Slot, NEW z \in Slot, Wait(p, z) \/ Join(p, z) PROVE ForkInv'
  <2>1. /\ z \in Placed /\ state[z] = "ZOMBIE" /\ state'[z] = "UNUSED" /\ pgdir'[z] = NoDir
        /\ \A s \in Slot \ {z} : state'[s] = state[s] /\ pgdir'[s] = pgdir[s] /\ sz'[s] = sz[s]
        /\ UNCHANGED local
    BY <1>7, ReapShape
  <2>2. \/ pt' = pt /\ dirs' = dirs
        \/ pt' = [pt EXCEPT ![pgdir[z]] = {}] /\ dirs' = dirs \ {pgdir[z]}
    BY <1>7 DEF Wait, Join, memory
  <2>3. \A x \in Slot : Forking(x) => x # z /\ np[x] # z /\ d[x] # pgdir[z] /\ d[x] # NoDir
    BY <2>1, <1>b, Consts
  <2>4. \A x \in Slot : Forking(x) => pt'[d[x]] = pt[d[x]] /\ d[x] \in dirs'
    BY <2>2, <2>3, <1>0, <1>b DEF TypeOK
  <2>. QED BY <2>1, <2>3, <2>4, <1>3, <1>b
<1>8. CASE UNCHANGED vars
  BY <1>8, <1>3, <1>b DEF vars, procs, memory
<1>. QED BY <1>1, <1>2, <1>4, <1>5, <1>6, <1>7, <1>8, NextKinds

-----------------------------------------------------------------------------
(* Directories and frames                                                   *)

LEMMA DirStep ==
  ASSUME SpaceInv, Ruled, [Next]_vars
  PROVE  DirInv'
<1>0. TypeOK /\ ForkInv /\ SlotInv /\ DirInv
  BY DEF SpaceInv
<1>a. \A t \in Dir \ dirs : pt[t] = {}
  BY <1>0 DEF DirInv
<1>b. \A t \in dirs : (\E s \in Placed : pgdir[s] = t) \/ (\E p \in Slot : Forking(p) /\ d[p] = t)
  BY <1>0 DEF DirInv
<1>1. ASSUME NEW p \in Slot, Step(p) PROVE DirInv'
  <2>1. /\ pgdir' = pgdir /\ Placed' = Placed /\ pgdir[p] \in dirs /\ p \in Placed
    BY <1>1, <1>0, StepShare, PcStep DEF SlotInv
  <2>2. \A s \in Slot \ {p} : (Forking(s)' <=> Forking(s)) /\ d'[s] = d[s]
    BY <1>1, PcStep DEF Forking
  <2>3. CASE ~ForkPage(p) /\ ~(\E q \in Slot : ForkCall(p, q))
    <3>1. dirs' = dirs /\ (\A t \in Dir : t # pgdir[p] => pt'[t] = pt[t])
      <4>1. CASE \E n \in Deltas : SbrkCall(p, n)
        BY <4>1 DEF SbrkCall, memory
      <4>2. CASE GrowPage(p)
        BY <4>2, <1>0, GrowIs DEF TypeOK
      <4>3. CASE FreePage(p)
        BY <4>3, <1>0, FreeIs DEF TypeOK
      <4>4. CASE SetSize(p) \/ ShareSize(p)
        BY <4>4, SizeIs DEF memory
      <4>. QED BY <2>3, <1>1, <4>1, <4>2, <4>3, <4>4 DEF Step
    <3>2. ~Forking(p)
      BY <2>3, <1>1 DEF Step, SbrkCall, Calls, GrowPage, FreePage, SetSize, ShareSize, Forking
    <3>. QED BY <3>1, <3>2, <2>1, <2>2, <1>a, <1>b DEF DirInv
  <2>4. CASE ForkPage(p)
    <3>1. Forking(p) /\ d[p] \in dirs /\ d[p] \in Dir
      BY <2>4, ForkPageIs
    <3>2. CASE /\ dirs' = dirs \ {d[p]} /\ pt' = [pt EXCEPT ![d[p]] = {}]
               /\ d' = [d EXCEPT ![p] = NoDir]
      <4>1. \A t \in Dir \ dirs' : pt'[t] = {}
        BY <3>1, <3>2, <1>0, <1>a DEF TypeOK
      <4>2. ASSUME NEW t \in dirs'
            PROVE (\E s \in Placed : pgdir[s] = t) \/ (\E x \in Slot : Forking(x)' /\ d'[x] = t)
        <5>1. t \in dirs /\ t # d[p]
          BY <3>2
        <5>. QED BY <5>1, <2>2, <1>b
      <4>. QED BY <4>1, <4>2, <2>1 DEF DirInv
    <3>3. CASE /\ pt' = [pt EXCEPT ![d[p]] = @ \cup {a[p]}]
               /\ Goto(p, IF a[p] + 1 < Up(goal[p]) THEN "copy" ELSE "publish", a[p] + 1, goal[p])
               /\ UNCHANGED <<state, np, d, dirs>>
      <4>1. \A t \in Dir \ dirs' : pt'[t] = {}
        BY <3>1, <3>3, <1>0, <1>a DEF TypeOK
      <4>2. Forking(p)'
        BY <3>3, <1>0, GotoIs DEF Forking
      <4>. QED BY <4>1, <4>2, <3>3, <2>1, <2>2, <1>b DEF DirInv
    <3>. QED BY <3>2, <3>3, <2>4, ForkPageIs
  <2>5. CASE \E q \in Slot : ForkCall(p, q)
    <3>1. PICK q \in Slot : ForkCall(p, q)
      BY <2>5
    <3>2. PICK t \in Dir \ dirs : t = NewDir
      BY NewDirIs
    <3>3. /\ Calls(p) /\ d' = [d EXCEPT ![p] = t] /\ dirs' = dirs \cup {t} /\ pt' = [pt EXCEPT ![t] = {}]
          /\ Goto(p, IF 0 < Up(sz[p]) THEN "copy" ELSE "publish", 0, sz[p])
      BY <3>1, <3>2, ForkCallIs
    <3>4. ~Forking(p) /\ d'[p] = t
      BY <3>3, <1>0 DEF Calls, Forking, TypeOK
    <3>5. Forking(p)'
      <4>1. CASE 0 < Up(sz[p])
        <5>1. Goto(p, "copy", 0, sz[p])
          BY <4>1, <3>3
        <5>. QED BY <5>1, <1>0, GotoIs DEF Forking
      <4>2. CASE ~(0 < Up(sz[p]))
        <5>1. Goto(p, "publish", 0, sz[p])
          BY <4>2, <3>3
        <5>. QED BY <5>1, <1>0, GotoIs DEF Forking
      <4>. QED BY <4>1, <4>2
    <3>6. \A u \in Dir \ dirs' : pt'[u] = {}
      BY <3>3, <1>0, <1>a DEF TypeOK
    <3>7. \A u \in dirs' : (\E s \in Placed : pgdir[s] = u) \/ (\E x \in Slot : Forking(x)' /\ d'[x] = u)
      BY <3>3, <3>4, <3>5, <2>2, <1>b
    <3>. QED BY <3>6, <3>7, <2>1 DEF DirInv
  <2>. QED BY <2>3, <2>4, <2>5
<1>2. ASSUME NEW p \in Slot, ForkPublish(p) PROVE DirInv'
  <2>1. PICK c \in Slot : c = np[p] /\ c \notin Placed /\ Placed' = Placed \cup {c} /\ p # c
    BY <1>2, PublishShape
  <2>2. /\ UNCHANGED <<dirs, pt>>
        /\ \A s \in Slot \ {p} : d'[s] = d[s] /\ (Forking(s)' <=> Forking(s))
    BY <1>2, <1>0, GotoIs DEF ForkPublish, TypeOK, memory, Forking
  <2>3. pgdir'[c] = d[p] /\ \A s \in Slot \ {c} : pgdir'[s] = pgdir[s]
    BY <1>2, <2>1, <1>0 DEF ForkPublish, TypeOK
  <2>4. Placed \subseteq Slot
    BY DEF Placed
  <2>. QED BY <2>1, <2>2, <2>3, <2>4, <1>a, <1>b DEF DirInv
<1>3. ASSUME NEW p \in Slot, NEW q \in Slot, Clone(p, q) PROVE DirInv'
  <2>1. /\ q \notin Placed /\ Placed' = Placed \cup {q}
    BY <1>3, CloneShape
  <2>2. pc' = pc /\ d' = d /\ dirs' = dirs /\ pt' = pt /\ \A s \in Slot \ {q} : pgdir'[s] = pgdir[s]
    BY <1>3, <1>0 DEF Clone, TypeOK, memory, local
  <2>3. Placed \subseteq Slot
    BY DEF Placed
  <2>. QED BY <2>1, <2>2, <2>3, <1>a, <1>b DEF DirInv, Forking
<1>4. ASSUME NEW p \in Slot, Exec(p) PROVE DirInv'
  <2>1. Placed' = Placed /\ p \in Placed
    BY <1>4, ExecShape
  <2>2. PICK t \in Dir \ dirs : t = NewDir
    BY NewDirIs
  <2>3. /\ pc' = pc /\ d' = d /\ pgdir'[p] = t /\ dirs' = (dirs \cup {t}) \ {pgdir[p]}
        /\ pt' = [pt EXCEPT ![pgdir[p]] = {}, ![t] = 0 .. ImagePages - 1]
        /\ \A s \in Slot \ {p} : pgdir'[s] = pgdir[s]
        /\ pgdir[p] \in dirs
    BY <1>4, <2>1, <2>2, <1>0 DEF Exec, TypeOK, local, SlotInv
  <2>4. \A u \in Dir \ dirs' : pt'[u] = {}
    BY <2>2, <2>3, <1>0, <1>a DEF TypeOK
  <2>5. ASSUME NEW u \in dirs'
        PROVE (\E s \in Placed : pgdir'[s] = u) \/ (\E x \in Slot : Forking(x) /\ d[x] = u)
    <3>1. CASE u = t
      BY <3>1, <2>1, <2>3
    <3>2. CASE u # t
      <4>1. u \in dirs /\ u # pgdir[p] /\ Placed \subseteq Slot
        BY <3>2, <2>3 DEF Placed
      <4>. QED BY <4>1, <2>3, <1>b
    <3>. QED BY <3>1, <3>2
  <2>. QED BY <2>1, <2>3, <2>4, <2>5 DEF DirInv, Forking
<1>5. ASSUME NEW p \in Slot, Exit(p) PROVE DirInv'
  <2>0. PICK copy, new : Copied(p, copy, new)
    BY <1>5, ExitShape
  <2>1. /\ p \in Placed /\ Placed' = Placed /\ pc' = pc /\ d' = d /\ Threads(p) \subseteq Placed \ {InitProc, p}
        /\ Placed \subseteq Slot
    BY <1>5, ExitShape DEF local, Placed
  <2>2. \A u \in Dir \ dirs' : pt'[u] = {}
    BY <2>0, <1>a DEF Copied
  <2>3. ASSUME NEW u \in dirs'
        PROVE (\E s \in Placed : pgdir'[s] = u) \/ (\E x \in Slot : Forking(x) /\ d[x] = u)
    <3>1. CASE u \in new
      BY <3>1, <2>0, <2>1 DEF Copied
    <3>2. CASE u \notin new
      <4>1. u \in dirs
        BY <3>2, <2>0 DEF Copied
      <4>2. ASSUME NEW s \in Placed, pgdir[s] = u PROVE \E x \in Placed : pgdir'[x] = u
        <5>1. CASE s \in Threads(p)
          <6>1. pgdir[p] = u /\ p \notin Threads(p)
            BY <5>1, <4>2, <2>1 DEF Threads
          <6>. QED BY <6>1, <2>0, <2>1 DEF Copied
        <5>2. CASE s \notin Threads(p)
          BY <5>2, <4>2, <2>0, <2>1 DEF Copied
        <5>. QED BY <5>1, <5>2
      <4>. QED BY <4>1, <4>2, <1>b
    <3>. QED BY <3>1, <3>2
  <2>. QED BY <2>1, <2>2, <2>3 DEF DirInv, Forking
<1>6. ASSUME NEW p \in Slot, NEW z \in Slot, Wait(p, z) \/ Join(p, z) PROVE DirInv'
  <2>1. /\ z \in Placed /\ Placed' = Placed \ {z} /\ p # z
        /\ \A s \in Slot \ {z} : pgdir'[s] = pgdir[s]
        /\ pc' = pc /\ d' = d /\ Placed \subseteq Slot
    BY <1>6, ReapShape DEF local, Placed
  <2>2. CASE Wait(p, z)
    <3>1. dirs' = dirs \ {pgdir[z]} /\ pt' = [pt EXCEPT ![pgdir[z]] = {}]
      BY <2>2 DEF Wait
    <3>2. \A u \in Dir \ dirs' : pt'[u] = {}
      BY <3>1, <1>0, <1>a DEF TypeOK
    <3>. QED BY <3>1, <3>2, <2>1, <1>b DEF DirInv, Forking
  <2>3. CASE Join(p, z)
    <3>1. dirs' = dirs /\ pt' = pt /\ state[p] = "LIVE" /\ pgdir[z] = pgdir[p]
      BY <2>3 DEF Join, memory, Threads
    <3>2. p \in Placed \ {z}
      BY <3>1, <2>1 DEF Placed
    <3>3. ASSUME NEW u \in dirs
          PROVE (\E s \in Placed \ {z} : pgdir'[s] = u) \/ (\E x \in Slot : Forking(x) /\ d[x] = u)
      BY <3>1, <3>2, <2>1, <1>b
    <3>. QED BY <3>1, <3>3, <2>1, <1>a DEF DirInv, Forking
  <2>. QED BY <1>6, <2>2, <2>3
<1>7. CASE UNCHANGED vars
  <2>1. pgdir' = pgdir /\ Placed' = Placed /\ pc' = pc /\ d' = d /\ dirs' = dirs /\ pt' = pt
    BY <1>7, StepShare, Consts DEF vars, local, memory
  <2>. QED BY <2>1, <1>a, <1>b DEF DirInv, Forking
<1>. QED BY <1>1, <1>2, <1>3, <1>4, <1>5, <1>6, <1>7, NextKinds

(* What a step takes from the free list is what it adds to the directories  *)
(* and their pages, and what it gives back it removes.                      *)
LEMMA CountStep ==
  ASSUME SpaceInv, Ruled, [Next]_vars
  PROVE  free' \in 0 .. NFrame /\ CountInv'
<1>. DEFINE N(D) == Cardinality(D)
            K(D, P) == Cardinality(Pairs(D, P))
<1>0. TypeOK /\ dirs \in SUBSET Dir /\ pt \in [Dir -> SUBSET Page] /\ free \in Nat
  BY DEF SpaceInv, TypeOK
<1>a. NFrame = free + N(dirs) + K(dirs, pt) /\ N(dirs) \in Nat /\ K(dirs, pt) \in Nat
  BY <1>0, PairsFinite DEF SpaceInv, CountInv, Mapped, Pairs
<1>b. ASSUME free' \in Nat, NFrame = free' + N(dirs') + K(dirs', pt'), dirs' \in SUBSET Dir
      PROVE  free' \in 0 .. NFrame /\ CountInv'
  <2>1. N(dirs') \in Nat /\ K(dirs', pt') \in Nat
    BY <1>b, PairsFinite
  <2>2. Mapped' = Pairs(dirs', pt')
    BY DEF Mapped, Pairs
  <2>3. free' \in 0 .. NFrame
    <3>. HIDE DEF N, K
    <3>. QED BY <2>1, <1>b, Consts
  <2>. QED BY <2>2, <2>3, <1>b DEF CountInv
<1>c. ASSUME NEW t \in dirs, NEW i \in Page \ pt[t], dirs' = dirs, free > 0,
             pt' = [pt EXCEPT ![t] = @ \cup {i}], free' = free - 1
      PROVE  free' \in 0 .. NFrame /\ CountInv'
  <2>1. K(dirs, pt') = K(dirs, pt) + 1
    <3>1. Cardinality(Pairs(dirs, [pt EXCEPT ![t] = @ \cup {i}])) = Cardinality(Pairs(dirs, pt)) + 1
      <4>1. dirs \in SUBSET Dir /\ pt \in [Dir -> SUBSET Page] /\ t \in dirs /\ i \in Page \ pt[t]
        BY <1>0, <1>c
      <4>. QED BY <4>1, PairsAdd, ZenonT(60)
    <3>. QED BY <3>1, <1>c
  <2>2. free' \in Nat /\ NFrame = free' + N(dirs') + K(dirs', pt')
    <3>. HIDE DEF N, K
    <3>. QED BY <2>1, <1>0, <1>a, <1>c
  <2>. QED BY <2>2, <1>0, <1>b, <1>c
<1>d. ASSUME NEW t \in dirs, NEW D \in SUBSET Dir, NEW P \in [Dir -> SUBSET Page],
             D = dirs \ {t}, P = [pt EXCEPT ![t] = {}]
      PROVE  Freed(t) \in Nat /\ N(D) + K(D, P) + Freed(t) = N(dirs) + K(dirs, pt)
             /\ N(D) \in Nat /\ K(D, P) \in Nat
  <2>1. /\ Cardinality(pt[t]) \in Nat /\ K(D, P) = K(dirs, pt) - Cardinality(pt[t])
    <3>1. /\ Cardinality(pt[t]) \in Nat
          /\ Cardinality(Pairs(dirs \ {t}, [pt EXCEPT ![t] = {}])) = Cardinality(Pairs(dirs, pt)) - Cardinality(pt[t])
      BY <1>0, PairsDrop
    <3>. QED BY <3>1, <1>d
  <2>2. N(D) = N(dirs) - 1
    <3>1. IsFiniteSet(dirs)
      BY <1>0, PairsFinite
    <3>. QED BY <3>1, <1>d, FS_RemoveElement
  <2>3. N(D) \in Nat /\ K(D, P) \in Nat
    BY <1>d, PairsFinite
  <2>4. Freed(t) = 1 + Cardinality(pt[t])
    BY DEF Freed
  <2>. HIDE DEF N, K
  <2>. QED BY <2>1, <2>2, <2>3, <2>4, <1>a
<1>e. ASSUME UNCHANGED memory PROVE free' \in 0 .. NFrame /\ CountInv'
  <2>1. free' = free /\ dirs' = dirs /\ pt' = pt
    BY <1>e DEF memory
  <2>. QED BY <2>1, <1>0, <1>a, <1>b
<1>1. ASSUME NEW p \in Slot, SetSize(p) \/ ShareSize(p) \/ ForkPublish(p) PROVE UNCHANGED memory
  BY <1>1 DEF SetSize, ShareSize, ForkPublish
<1>2. ASSUME NEW p \in Slot, NEW n \in Deltas, SbrkCall(p, n) PROVE UNCHANGED memory
  BY <1>2 DEF SbrkCall
<1>3. ASSUME NEW p \in Slot, NEW q \in Slot, Clone(p, q) \/ Join(p, q) PROVE UNCHANGED memory
  BY <1>3 DEF Clone, Join
<1>4. ASSUME NEW p \in Slot, GrowPage(p) PROVE free' \in 0 .. NFrame /\ CountInv'
  <2>1. p \in Placed /\ pgdir[p] \in dirs
    BY <1>4, GrowIs DEF SpaceInv, SlotInv
  <2>. QED BY <2>1, <1>4, <1>c, <1>e, GrowIs DEF Held, memory
<1>5. ASSUME NEW p \in Slot, FreePage(p) PROVE free' \in 0 .. NFrame /\ CountInv'
  <2>1. p \in Placed /\ pgdir[p] \in dirs /\ dirs' = dirs
    BY <1>5, FreeIs DEF SpaceInv, SlotInv
  <2>2. CASE a[p] \in pt[pgdir[p]]
    <3>1. K(dirs, pt') = K(dirs, pt) - 1 /\ free' = free + 1
      BY <2>1, <2>2, <1>5, <1>0, FreeIs, PairsRemove
    <3>2. free' \in Nat /\ NFrame = free' + N(dirs') + K(dirs', pt')
      <4>. HIDE DEF N, K
      <4>. QED BY <3>1, <2>1, <1>0, <1>a
    <3>. QED BY <3>2, <2>1, <1>0, <1>b
  <2>3. CASE a[p] \notin pt[pgdir[p]]
    <3>1. free' = free /\ pt' = pt
      BY <2>3, <1>5, <1>0, FreeIs
    <3>. QED BY <3>1, <2>1, <1>e DEF memory
  <2>. QED BY <2>2, <2>3
<1>6. ASSUME NEW p \in Slot, NEW q \in Slot, ForkCall(p, q) PROVE free' \in 0 .. NFrame /\ CountInv'
  <2>1. PICK t \in Dir \ dirs : t = NewDir
    BY NewDirIs
  <2>2. free > 0 /\ dirs' = dirs \cup {t} /\ pt' = [pt EXCEPT ![t] = {}] /\ free' = free - 1
    BY <2>1, <1>6, ForkCallIs
  <2>3. K(dirs', pt') = K(dirs, pt)
    BY <2>2, <1>0, PairsNew
  <2>4. N(dirs') = N(dirs) + 1
    <3>1. IsFiniteSet(dirs)
      BY <1>0, PairsFinite
    <3>. QED BY <3>1, <2>2, FS_AddElement
  <2>5. free' \in Nat /\ NFrame = free' + N(dirs') + K(dirs', pt')
    <3>. HIDE DEF N, K
    <3>. QED BY <2>2, <2>3, <2>4, <1>0, <1>a
  <2>. QED BY <2>2, <2>5, <1>0, <1>b
<1>7. ASSUME NEW p \in Slot, ForkPage(p) PROVE free' \in 0 .. NFrame /\ CountInv'
  <2>1. d[p] \in dirs /\ a[p] \in Page \ pt[d[p]]
    <3>1. d[p] \in dirs /\ a[p] \in Page /\ a[p] \in Nat /\ pt[d[p]] = 0 .. a[p] - 1
      BY <1>7, ForkPageIs
    <3>. QED BY <3>1
  <2>2. CASE free' = Freed(d[p]) /\ free = 0 /\ dirs' = dirs \ {d[p]} /\ pt' = [pt EXCEPT ![d[p]] = {}]
    <3>1. dirs' \in SUBSET Dir /\ pt' \in [Dir -> SUBSET Page]
      BY <2>2, <1>0
    <3>2. Freed(d[p]) \in Nat /\ N(dirs') + K(dirs', pt') + Freed(d[p]) = N(dirs) + K(dirs, pt)
          /\ N(dirs') \in Nat /\ K(dirs', pt') \in Nat
      BY <2>1, <2>2, <3>1, <1>d
    <3>3. free' \in Nat /\ NFrame = free' + N(dirs') + K(dirs', pt')
      <4>. HIDE DEF N, K
      <4>. QED BY <2>2, <3>2, <1>a
    <3>. QED BY <3>1, <3>3, <1>b
  <2>3. CASE pt' = [pt EXCEPT ![d[p]] = @ \cup {a[p]}] /\ free > 0 /\ free' = free - 1 /\ dirs' = dirs
    BY <2>1, <2>3, <1>c
  <2>. QED BY <2>2, <2>3, <1>7, ForkPageIs
<1>8. ASSUME NEW p \in Slot, Exec(p) PROVE free' \in 0 .. NFrame /\ CountInv'
  <2>1. p \in Placed /\ pgdir[p] \in dirs
    BY <1>8, ExecShape DEF SpaceInv, SlotInv
  <2>2. PICK t \in Dir \ dirs : t = NewDir
    BY NewDirIs
  <2>3. /\ dirs' = (dirs \cup {t}) \ {pgdir[p]} /\ free > ImagePages /\ ImagePages <= NPAGE
        /\ pt' = [pt EXCEPT ![pgdir[p]] = {}, ![t] = 0 .. ImagePages - 1]
        /\ free' = (free - ImagePages - 1) + Freed(pgdir[p])
    BY <1>8, <2>2 DEF Exec
  <2>. DEFINE D == dirs \ {pgdir[p]}
              P == [pt EXCEPT ![pgdir[p]] = {}]
              T == {t}
              S == 0 .. ImagePages - 1
  <2>4. D \in SUBSET Dir /\ P \in [Dir -> SUBSET Page] /\ T \in SUBSET (Dir \ D) /\ S \in SUBSET Page
    BY <2>1, <2>2, <2>3, <1>0, Consts DEF ImagePages, Page
  <2>5. dirs' = D \cup T /\ pt' = [u \in Dir |-> IF u \in T THEN S ELSE P[u]]
    BY <2>1, <2>2, <2>3, <1>0
  <2>6. Freed(pgdir[p]) \in Nat /\ N(D) + K(D, P) + Freed(pgdir[p]) = N(dirs) + K(dirs, pt)
        /\ N(D) \in Nat /\ K(D, P) \in Nat
    BY <2>1, <2>4, <1>d
  <2>7. IsFiniteSet(D) /\ t \notin D
    BY <2>2, <2>4, PairsFinite
  <2>. HIDE DEF D, P, T, S
  <2>8. K(D \cup T, [u \in Dir |-> IF u \in T THEN S ELSE P[u]]) = K(D, P) + Cardinality(T) * Cardinality(S)
    BY <2>4, PairsFill
  <2>9. Cardinality(T) = 1 /\ Cardinality(S) = ImagePages
    <3>1. 0 \in Int /\ 1 \in Int /\ ImagePages = 2
      BY DEF ImagePages
    <3>2. Cardinality(0 .. 1) = 2
      <4>1. Cardinality(0 .. 1) = IF 0 > 1 THEN 0 ELSE 1 - 0 + 1
        BY <3>1, FS_Interval, Zenon
      <4>. QED BY <4>1
    <3>3. S = 0 .. 1
      BY <3>1 DEF S
    <3>. QED BY <3>1, <3>2, <3>3, FS_Singleton DEF T
  <2>10. N(dirs') = N(D) + 1
    <3>1. N(D \cup {t}) = N(D) + 1
      BY <2>7, FS_AddElement
    <3>. QED BY <3>1, <2>5 DEF T
  <2>11. K(dirs', pt') = K(D, P) + ImagePages
    BY <2>5, <2>8, <2>9 DEF ImagePages
  <2>12. free' \in Nat /\ NFrame = free' + N(dirs') + K(dirs', pt')
    <3>. HIDE DEF N, K
    <3>. QED BY <2>3, <2>6, <2>10, <2>11, <1>0, <1>a DEF ImagePages
  <2>. QED BY <2>2, <2>3, <2>12, <1>0, <1>b
<1>9. ASSUME NEW p \in Slot, Exit(p) PROVE free' \in 0 .. NFrame /\ CountInv'
  <2>1. PICK copy, new : Copied(p, copy, new)
    BY <1>9, ExitShape
  <2>. DEFINE S == Below(sz[p])
              c == Cardinality(Threads(p))
              u == Up(sz[p])
  <2>2. /\ new \in SUBSET (Dir \ dirs) /\ Cardinality(new) = c /\ dirs' = dirs \cup new
        /\ pt' = [t \in Dir |-> IF t \in new THEN S ELSE pt[t]]
        /\ free' = free - c * (1 + u) /\ c * (1 + u) <= free
    BY <2>1 DEF Copied
  <2>3. u \in 0 .. NPAGE
    BY <1>0, UpFacts DEF TypeOK
  <2>4. S \in SUBSET Page /\ Cardinality(S) = u
    <3>. HIDE DEF u
    <3>1. S = 0 .. u - 1
      BY DEF Below, u
    <3>2. 0 \in Int /\ u - 1 \in Int
      BY <2>3, Consts
    <3>3. Cardinality(0 .. u - 1) = IF 0 > u - 1 THEN 0 ELSE (u - 1) - 0 + 1
      BY <3>2, FS_Interval
    <3>. QED BY <2>3, <3>1, <3>3, Consts DEF Page
  <2>5. K(dirs \cup new, [t \in Dir |-> IF t \in new THEN S ELSE pt[t]]) = K(dirs, pt) + Cardinality(new) * Cardinality(S)
    BY <2>2, <2>4, <1>0, PairsFill
  <2>6. K(dirs', pt') = K(dirs, pt) + c * u
    BY <2>2, <2>4, <2>5
  <2>7. c \in Nat /\ N(dirs') = N(dirs) + c
    <3>1. IsFiniteSet(new) /\ IsFiniteSet(dirs)
      <4>1. new \in SUBSET Dir
        BY <2>2
      <4>. QED BY <4>1, <1>0, PairsFinite
    <3>2. dirs \cap new = {}
      BY <2>2
    <3>3. Cardinality(dirs \cup new) = N(dirs) + Cardinality(new) - Cardinality({})
      BY <3>1, <3>2, FS_Union
    <3>4. Cardinality(new) \in Nat /\ Cardinality({}) = 0
      BY <3>1, FS_CardinalityType, FS_EmptySet
    <3>. QED BY <3>3, <3>4, <2>2, <1>a
  <2>. HIDE DEF S, c, u
  <2>8. c * (1 + u) = c + c * u /\ c * u \in Nat
    BY <2>3, <2>7, Consts
  <2>9. free' \in Nat /\ NFrame = free' + N(dirs') + K(dirs', pt')
    <3>. DEFINE m == c * u
                e == c * (1 + u)
    <3>1. e = c + m /\ m \in Nat /\ free' = free - e /\ e <= free /\ K(dirs', pt') = K(dirs, pt) + m
      BY <2>2, <2>6, <2>8
    <3>. HIDE DEF N, K, m, e
    <3>. QED BY <3>1, <2>7, <1>0, <1>a
  <2>10. dirs' \in SUBSET Dir
    BY <2>2, <1>0
  <2>. QED BY <2>9, <2>10, <1>b
<1>10. ASSUME NEW p \in Slot, NEW z \in Slot, Wait(p, z) PROVE free' \in 0 .. NFrame /\ CountInv'
  <2>1. /\ pgdir[z] \in dirs /\ free' = free + Freed(pgdir[z])
        /\ dirs' = dirs \ {pgdir[z]} /\ pt' = [pt EXCEPT ![pgdir[z]] = {}]
    BY <1>10 DEF Wait, SpaceInv, SlotInv, Placed
  <2>2. dirs' \in SUBSET Dir /\ pt' \in [Dir -> SUBSET Page]
    BY <2>1, <1>0
  <2>3. Freed(pgdir[z]) \in Nat /\ N(dirs') + K(dirs', pt') + Freed(pgdir[z]) = N(dirs) + K(dirs, pt)
        /\ N(dirs') \in Nat /\ K(dirs', pt') \in Nat
    BY <2>1, <2>2, <1>d
  <2>4. free' \in Nat /\ NFrame = free' + N(dirs') + K(dirs', pt')
    <3>. HIDE DEF N, K
    <3>. QED BY <2>1, <2>3, <1>0, <1>a
  <2>. QED BY <2>2, <2>4, <1>b
<1>11. CASE UNCHANGED vars
  BY <1>11, <1>e DEF vars
<1>. HIDE DEF N, K
<1>. QED BY <1>1, <1>2, <1>3, <1>4, <1>5, <1>6, <1>7, <1>8, <1>9, <1>10, <1>11, <1>e, NextCases

-----------------------------------------------------------------------------
(* Types                                                                    *)

LEMMA TypeStep ==
  ASSUME SpaceInv, Ruled, [Next]_vars
  PROVE  TypeOK'
<1>0. TypeOK /\ free' \in 0 .. NFrame
  BY CountStep DEF SpaceInv
<1>. DEFINE Places == {"user", "grow", "undo", "shrink", "size", "share", "copy", "publish"}
            Locals == /\ pc' \in [Slot -> Places] /\ a' \in [Slot -> 0 .. NPAGE]
                      /\ goal' \in [Slot -> 0 .. USERTOP]
            Rest == /\ state' \in [Slot -> {"UNUSED", "EMBRYO", "LIVE", "ZOMBIE"}]
                    /\ parent' \in [Slot -> Slot \cup {NoProc}]
                    /\ pgdir' \in [Slot -> Dir \cup {NoDir}] /\ sz' \in [Slot -> 0 .. USERTOP]
                    /\ np' \in [Slot -> Slot \cup {NoProc}] /\ d' \in [Slot -> Dir \cup {NoDir}]
                    /\ dirs' \subseteq Dir /\ pt' \in [Dir -> SUBSET Page] /\ panicked' \in BOOLEAN
<1>a. ASSUME NEW p \in Slot, NEW place \in Places, NEW i, NEW size \in 0 .. USERTOP,
             place \in {"grow", "undo", "shrink", "copy"} => i \in 0 .. NPAGE,
             Goto(p, place, i, size)
      PROVE  Locals
  <2>1. /\ pc' = [pc EXCEPT ![p] = place]
        /\ a' = [a EXCEPT ![p] = IF place \in {"grow", "undo", "shrink", "copy"} THEN i ELSE 0]
        /\ goal' = [goal EXCEPT ![p] = IF place = "user" THEN 0 ELSE size]
    BY <1>a, <1>0, GotoIs
  <2>2. (IF place \in {"grow", "undo", "shrink", "copy"} THEN i ELSE 0) \in 0 .. NPAGE
    BY <1>a, Consts
  <2>3. (IF place = "user" THEN 0 ELSE size) \in 0 .. USERTOP
    BY Consts
  <2>. QED BY <2>1, <2>2, <2>3, <1>0 DEF TypeOK
<1>b. ASSUME UNCHANGED <<pc, a, goal>> PROVE Locals
  BY <1>0, <1>b DEF TypeOK
<1>c. \A x \in 0 .. USERTOP : Up(x) \in 0 .. NPAGE
  BY UpFacts
<1>d. \A s \in Slot : sz[s] \in 0 .. USERTOP /\ goal[s] \in 0 .. USERTOP /\ a[s] \in 0 .. NPAGE
                      /\ Up(sz[s]) \in 0 .. NPAGE /\ Up(goal[s]) \in 0 .. NPAGE
  BY <1>0, <1>c DEF TypeOK
<1>e. 0 \in 0 .. USERTOP /\ 0 \in 0 .. NPAGE
  BY Consts
<1>f. \A s \in Slot, i \in 0 .. NPAGE : i + 1 < Up(goal[s]) \/ i + 1 < Up(sz[s]) => i + 1 \in 0 .. NPAGE
  BY <1>d, Consts
<1>1. ASSUME NEW p \in Slot, NEW n \in Deltas, SbrkCall(p, n) PROVE Locals /\ Rest
  <2>1. Rest
    BY <1>1, <1>0, SbrkIs DEF procs, memory, TypeOK
  <2>2. CASE /\ sz[p] + n \in 0 .. USERTOP /\ sz[p] < sz[p] + n
             /\ Goto(p, IF Up(sz[p]) < Up(sz[p] + n) THEN "grow" ELSE "size", Up(sz[p]), sz[p] + n)
    <3>. HIDE DEF Locals, Rest
    <3>. QED BY <2>1, <2>2, <1>a, <1>d
  <2>3. CASE /\ sz[p] + n \in 1 .. USERTOP /\ sz[p] + n < sz[p]
             /\ Goto(p, IF Up(sz[p] + n) < Up(sz[p]) THEN "shrink" ELSE "size", Up(sz[p] + n), sz[p] + n)
    <3>. HIDE DEF Locals, Rest
    <3>1. sz[p] + n \in 0 .. USERTOP /\ Up(sz[p] + n) \in 0 .. NPAGE
      BY <2>3, <1>c
    <3>. QED BY <2>1, <2>3, <3>1, <1>a
  <2>4. CASE Goto(p, "size", 0, sz[p])
    <3>. HIDE DEF Locals, Rest
    <3>. QED BY <2>1, <2>4, <1>a, <1>d
  <2>. QED BY <2>2, <2>3, <2>4, <1>1, SbrkIs
<1>2. ASSUME NEW p \in Slot, GrowPage(p) PROVE Locals /\ Rest
  <2>1. Rest
    <3>1. /\ UNCHANGED <<procs, np, d, dirs, panicked>>
          /\ pt' = pt \/ (a[p] \in Page /\ pt' = [pt EXCEPT ![pgdir[p]] = @ \cup {a[p]}])
      BY <1>2, GrowIs
    <3>. QED BY <3>1, <1>0 DEF procs, TypeOK
  <2>2. CASE Goto(p, IF Up(sz[p]) < Up(goal[p]) THEN "undo" ELSE "user", Up(sz[p]), goal[p])
    <3>. HIDE DEF Locals, Rest
    <3>. QED BY <2>1, <2>2, <1>a, <1>d
  <2>3. CASE Goto(p, IF a[p] + 1 < Up(goal[p]) THEN "grow" ELSE "size", a[p] + 1, goal[p])
    <3>. HIDE DEF Locals, Rest
    <3>. QED BY <2>1, <2>3, <1>a, <1>d, <1>f
  <2>. QED BY <2>2, <2>3, <1>2, GrowIs
<1>3. ASSUME NEW p \in Slot, FreePage(p) PROVE Locals /\ Rest
  <2>1. Rest
    <3>1. /\ UNCHANGED <<procs, np, d, dirs, panicked>>
          /\ pt' = [pt EXCEPT ![pgdir[p]] = @ \ {a[p]}]
      BY <1>3, FreeIs
    <3>. QED BY <3>1, <1>0 DEF procs, TypeOK
  <2>2. CASE Goto(p, IF a[p] + 1 < Up(goal[p]) THEN "undo" ELSE "user", a[p] + 1, goal[p])
    <3>. HIDE DEF Locals, Rest
    <3>. QED BY <2>1, <2>2, <1>a, <1>d, <1>f
  <2>3. CASE Goto(p, IF a[p] + 1 < Up(sz[p]) THEN "shrink" ELSE "size", a[p] + 1, goal[p])
    <3>. HIDE DEF Locals, Rest
    <3>. QED BY <2>1, <2>3, <1>a, <1>d, <1>f
  <2>. QED BY <2>2, <2>3, <1>3, FreeIs
<1>4. ASSUME NEW p \in Slot, SetSize(p) \/ ShareSize(p) PROVE Locals /\ Rest
  <2>1. Rest
    <3>1. /\ UNCHANGED <<state, parent, pgdir, np, d, memory, panicked>>
          /\ \/ sz' = [sz EXCEPT ![p] = goal[p]]
             \/ sz' = [q \in Slot |-> IF q \in Threads(p) THEN sz[p] ELSE sz[q]]
      BY <1>4, SizeIs
    <3>. QED BY <3>1, <1>0, <1>d DEF memory, TypeOK
  <2>2. Goto(p, "share", 0, 0) \/ Goto(p, "user", 0, 0)
    BY <1>4, SizeIs
  <2>. HIDE DEF Locals, Rest
  <2>. QED BY <2>1, <2>2, <1>a, <1>e
<1>5. ASSUME NEW p \in Slot, ForkPage(p) PROVE Locals /\ Rest
  <2>1. Rest
    <3>1. /\ UNCHANGED <<parent, pgdir, sz, panicked>> /\ a[p] \in Page
          /\ \/ /\ dirs' = dirs \ {d[p]} /\ pt' = [pt EXCEPT ![d[p]] = {}]
                /\ state' = [state EXCEPT ![np[p]] = "UNUSED"]
                /\ np' = [np EXCEPT ![p] = NoProc] /\ d' = [d EXCEPT ![p] = NoDir]
             \/ pt' = [pt EXCEPT ![d[p]] = @ \cup {a[p]}] /\ UNCHANGED <<state, np, d, dirs>>
      BY <1>5, ForkPageIs
    <3>. QED BY <3>1, <1>0 DEF TypeOK
  <2>2. CASE Goto(p, "user", 0, 0)
    <3>. HIDE DEF Locals, Rest
    <3>. QED BY <2>1, <2>2, <1>a, <1>e
  <2>3. CASE Goto(p, IF a[p] + 1 < Up(goal[p]) THEN "copy" ELSE "publish", a[p] + 1, goal[p])
    <3>. HIDE DEF Locals, Rest
    <3>. QED BY <2>1, <2>3, <1>a, <1>d, <1>f
  <2>. QED BY <2>2, <2>3, <1>5, ForkPageIs
<1>6. ASSUME NEW p \in Slot, NEW q \in Slot, ForkCall(p, q) PROVE Locals /\ Rest
  <2>1. Rest
    <3>1. NewDir \in Dir /\ q \in Slot \cup {NoProc}
      BY <1>6, NewDirIs DEF ForkCall
    <3>2. /\ state' = [state EXCEPT ![q] = "EMBRYO"]
          /\ np' = [np EXCEPT ![p] = q] /\ d' = [d EXCEPT ![p] = NewDir]
          /\ dirs' = dirs \cup {NewDir} /\ pt' = [pt EXCEPT ![NewDir] = {}]
          /\ UNCHANGED <<parent, pgdir, sz, panicked>>
      BY <1>6, ForkCallIs
    <3>. QED BY <3>1, <3>2, <1>0 DEF TypeOK
  <2>2. Goto(p, IF 0 < Up(sz[p]) THEN "copy" ELSE "publish", 0, sz[p])
    BY <1>6, ForkCallIs
  <2>. HIDE DEF Locals, Rest
  <2>. QED BY <2>1, <2>2, <1>a, <1>d, <1>e
<1>7. ASSUME NEW p \in Slot, ForkPublish(p) PROVE Locals /\ Rest
  <2>1. Rest
    BY <1>7, <1>0, <1>d DEF ForkPublish, memory, TypeOK
  <2>2. Goto(p, "user", 0, 0)
    BY <1>7 DEF ForkPublish
  <2>. HIDE DEF Locals, Rest
  <2>. QED BY <2>1, <2>2, <1>a, <1>e
<1>8. ASSUME NEW p \in Slot, NEW q \in Slot, Clone(p, q) PROVE Locals /\ Rest
  BY <1>8, <1>0, <1>b, <1>d DEF Clone, local, memory, TypeOK
<1>9. ASSUME NEW p \in Slot, Exec(p) PROVE Locals /\ Rest
  <2>1. /\ ImagePages * PGSIZE \in 0 .. USERTOP /\ NewDir \in Dir
    BY <1>9, UpImage, NewDirIs DEF Exec
  <2>2. 0 .. ImagePages - 1 \subseteq Page
    BY <1>9, Consts DEF Exec, ImagePages, Page
  <2>3. UNCHANGED <<state, parent, local, panicked>>
    BY <1>9 DEF Exec
  <2>4. /\ pgdir' = [pgdir EXCEPT ![p] = NewDir] /\ sz' = [sz EXCEPT ![p] = ImagePages * PGSIZE]
        /\ dirs' = (dirs \cup {NewDir}) \ {pgdir[p]}
        /\ pt' = [pt EXCEPT ![pgdir[p]] = {}, ![NewDir] = 0 .. ImagePages - 1]
    BY <1>9 DEF Exec
  <2>. QED BY <2>1, <2>2, <2>3, <2>4, <1>0, <1>b DEF local, TypeOK
<1>10. ASSUME NEW p \in Slot, Exit(p) PROVE Locals /\ Rest
  <2>0. PICK copy, new : Copied(p, copy, new)
    BY <1>10, ExitShape
  <2>1. /\ state' = [state EXCEPT ![p] = "ZOMBIE"] /\ sz' = sz /\ UNCHANGED local /\ panicked' = panicked
        /\ Threads(p) \subseteq Slot
    BY <1>10, ExitShape DEF Threads
  <2>2. Below(sz[p]) \subseteq Page
    BY <1>d, Consts DEF Below, Page
  <2>3. Locals
    BY <2>1, <1>b DEF local
  <2>4. parent' \in [Slot -> Slot \cup {NoProc}] /\ pgdir' \in [Slot -> Dir \cup {NoDir}]
    <3>1. panicked = FALSE /\ panicked' = FALSE
      BY <2>1, <1>0 DEF SpaceInv, NoPanic, TypeOK
    <3>2. /\ parent' = [q \in Slot |-> IF parent[q] = p THEN InitProc ELSE parent[q]]
          /\ \E f \in [Threads(p) -> Dir \ dirs] :
               pgdir' = [q \in Slot |-> IF q \in Threads(p) THEN f[q] ELSE pgdir[q]]
      BY <1>10, <3>1 DEF Exit
    <3>. QED BY <3>2, <1>0, Consts DEF TypeOK
  <2>5. pt' \in [Dir -> SUBSET Page] /\ dirs' \subseteq Dir
    BY <2>0, <2>2, <1>0 DEF Copied, TypeOK
  <2>. QED BY <2>1, <2>3, <2>4, <2>5, <1>0 DEF local, TypeOK
<1>11. ASSUME NEW p \in Slot, NEW z \in Slot, Wait(p, z) \/ Join(p, z) PROVE Locals /\ Rest
  <2>1. /\ state' = [state EXCEPT ![z] = "UNUSED"] /\ parent' = [parent EXCEPT ![z] = NoProc]
        /\ pgdir' = [pgdir EXCEPT ![z] = NoDir] /\ sz' = [sz EXCEPT ![z] = 0]
        /\ UNCHANGED local /\ UNCHANGED panicked
    BY <1>11 DEF Wait, Join, Reaped
  <2>2. \/ pt' = pt /\ dirs' = dirs
        \/ pt' = [pt EXCEPT ![pgdir[z]] = {}] /\ dirs' = dirs \ {pgdir[z]}
    BY <1>11 DEF Wait, Join, memory
  <2>. QED BY <2>1, <2>2, <1>0, <1>b, <1>e DEF local, TypeOK
<1>12. ASSUME UNCHANGED vars PROVE Locals /\ Rest
  BY <1>12, <1>0, <1>b DEF vars, procs, local, memory, TypeOK
<1>13. Locals /\ Rest
  <2>. HIDE DEF Locals, Rest
  <2>1. CASE UNCHANGED vars
    BY <2>1, <1>12
  <2>2. ASSUME NEW p \in Slot,
               \/ \E n \in Deltas : SbrkCall(p, n)
               \/ GrowPage(p) \/ FreePage(p) \/ SetSize(p) \/ ShareSize(p)
               \/ ForkPage(p) \/ ForkPublish(p) \/ Exec(p) \/ Exit(p)
               \/ \E q \in Slot : ForkCall(p, q) \/ Clone(p, q) \/ Wait(p, q) \/ Join(p, q)
        PROVE  Locals /\ Rest
    BY <2>2, <1>1, <1>2, <1>3, <1>4, <1>5, <1>6, <1>7, <1>8, <1>9, <1>10, <1>11, ZenonT(60)
  <2>. QED BY <2>1, <2>2, NextCases
<1>. QED BY <1>13, <1>0 DEF TypeOK

LEMMA PanicStep ==
  ASSUME SpaceInv, Ruled, [Next]_vars
  PROVE  NoPanic'
<1>0. ~panicked
  BY DEF SpaceInv, NoPanic
<1>1. ASSUME NEW p \in Slot, Step(p) PROVE panicked' = panicked
  BY <1>1, PcStep
<1>2. ASSUME NEW p \in Slot, ForkPublish(p) \/ Exec(p) PROVE panicked' = panicked
  BY <1>2 DEF ForkPublish, Exec
<1>3. ASSUME NEW p \in Slot, Exit(p) PROVE panicked' = panicked
  BY <1>3, ExitShape
<1>4. ASSUME NEW p \in Slot, NEW q \in Slot, Clone(p, q) \/ Wait(p, q) \/ Join(p, q) PROVE panicked' = panicked
  BY <1>4 DEF Clone, Wait, Join
<1>5. CASE UNCHANGED vars
  BY <1>0, <1>5 DEF vars, NoPanic
<1>. QED BY <1>0, <1>1, <1>2, <1>3, <1>4, <1>5, NextKinds DEF NoPanic

LEMMA SpaceInit ==
  ASSUME Init
  PROVE  SpaceInv
<1>. USE Consts
<1>1. /\ \A s \in Slot : /\ state[s] = IF s = InitProc THEN "LIVE" ELSE "UNUSED"
                         /\ parent[s] = NoProc /\ pgdir[s] = IF s = InitProc THEN 1 ELSE NoDir
                         /\ sz[s] = IF s = InitProc THEN PGSIZE ELSE 0
                         /\ pc[s] = "user" /\ np[s] = NoProc /\ d[s] = NoDir
      /\ dirs = {1} /\ pt[1] = {0} /\ \A t \in Dir : t # 1 => pt[t] = {}
      /\ free = NFrame - 2 /\ panicked = FALSE
  BY DEF Init
<1>2. PGSIZE \in 0 .. USERTOP /\ Up(PGSIZE) = 1
  <2>1. PGSIZE * 1 <= PGSIZE * NPAGE /\ PGSIZE * 1 = PGSIZE
    <3>1. PGSIZE \in Nat \ {0} /\ 1 \in Int /\ 1 <= NPAGE
      OBVIOUS
    <3>. QED BY <3>1, Times
  <2>2. PGSIZE \in 0 .. USERTOP
    BY <2>1
  <2>3. \A i \in Nat : i * PGSIZE < PGSIZE <=> i < Up(PGSIZE)
    BY <2>2, UpFacts
  <2>4. 0 * PGSIZE < PGSIZE /\ ~(1 * PGSIZE < PGSIZE)
    OBVIOUS
  <2>5. 0 < Up(PGSIZE) /\ ~(1 < Up(PGSIZE)) /\ Up(PGSIZE) \in Int
    BY <2>2, <2>3, <2>4, UpFacts
  <2>. QED BY <2>2, <2>5
<1>3. TypeOK
  <2>1. NFrame - 2 \in 0 .. NFrame
    BY SpaceAssumption
  <2>2. {0} \subseteq Page /\ 0 \in 0 .. USERTOP /\ 0 \in 0 .. NPAGE
    BY DEF Page
  <2>. QED BY <1>2, <2>1, <2>2 DEF Init, TypeOK
<1>4. Placed = {InitProc}
  BY <1>1 DEF Placed
<1>5. SlotInv
  BY <1>1, <1>4 DEF SlotInv, Sizing
<1>6. ForkInv
  BY <1>1 DEF ForkInv, ForkOf, Forking
<1>7. ShareInv /\ CallInv /\ SizeInv
  BY <1>1, <1>4 DEF ShareInv, CallInv, SizeInv, Sharing, Thread, Owner, Sizing
<1>8. PagesInv
  <2>1. pt[1] = Below(PGSIZE)
    BY <1>1, <1>2 DEF Below
  <2>. QED BY <1>1, <2>1 DEF PagesInv, PagesOf, Held, Sizing
<1>9. DirInv
  BY <1>1, <1>4 DEF DirInv
<1>10. CountInv
  <2>1. Mapped = {<<1, 0>>}
    BY <1>1 DEF Mapped, Page
  <2>2. Cardinality(Mapped) = 1 /\ Cardinality(dirs) = 1
    BY <2>1, <1>1, FS_Singleton
  <2>. QED BY <2>2, <1>1 DEF CountInv
<1>. QED BY <1>1, <1>3, <1>5, <1>6, <1>7, <1>8, <1>9, <1>10 DEF SpaceInv, NoPanic

LEMMA SpaceInvHolds ==
  ASSUME Ruled
  PROVE  Spec => []SpaceInv
<1>1. Init => SpaceInv
  BY SpaceInit
<1>2. SpaceInv /\ [Next]_vars => SpaceInv'
  <2>1. SUFFICES ASSUME SpaceInv, [Next]_vars PROVE SpaceInv'
    OBVIOUS
  <2>. QED BY <2>1, TypeStep, SlotStep, ForkStep, ShareStep, CallStep, PagesStep, SizeStep, DirStep,
              CountStep, PanicStep DEF SpaceInv
<1>. QED BY <1>1, <1>2, PTL DEF Spec

(* No frame is lost or used twice, no space is freed under a process that   *)
(* uses it, and vm.c does not panic: while the programs keep to the rules   *)
(* of this module, for every number of slots and frames, every page size,   *)
(* and in every order of the page steps of sbrk and fork (K4 vm.c, proc.c). *)
THEOREM FramesAreSound ==
  ASSUME Ruled
  PROVE  Spec => []FramesSound
<1>1. SpaceInv => FramesSound
  <2>1. SUFFICES ASSUME SpaceInv PROVE FramesSound
    OBVIOUS
  <2>2. \A s \in Slot : IsThread(s) <=> Thread(s)
    BY DEF IsThread, Threads, Thread
  <2>3. ASSUME NEW s \in Users PROVE s \in Placed /\ pgdir[s] \in dirs /\ pgdir[s] # NoDir
    <3>1. s \in Slot /\ s \in Placed
      BY DEF Users, Placed
    <3>. QED BY <2>1, <3>1, Consts DEF SpaceInv, SlotInv, TypeOK
  <2>4. ASSUME NEW s \in Slot PROVE d[s] = NoDir \/ d[s] \in dirs
    BY <2>1 DEF SpaceInv, ForkInv, ForkOf
  <2>5. ASSUME NEW t \in dirs PROVE (\E s \in Users : pgdir[s] = t) \/ (\E s \in Slot : d[s] = t)
    <3>1. CASE \E s \in Placed : pgdir[s] = t
      <4>1. PICK s \in Placed : pgdir[s] = t
        BY <3>1
      <4>2. s \in Slot /\ (state[s] = "LIVE" \/ state[s] = "ZOMBIE")
        BY DEF Placed
      <4>3. CASE s \in Users
        BY <4>1, <4>3
      <4>4. CASE s \notin Users
        <5>1. Thread(s)
          BY <2>2, <4>2, <4>4 DEF Users
        <5>2. parent[s] \in Slot /\ state[parent[s]] = "LIVE" /\ pgdir[parent[s]] = t
          BY <2>1, <4>1, <4>2, <5>1 DEF Thread, SpaceInv, SlotInv
        <5>. QED BY <5>2 DEF Users
      <4>. QED BY <4>3, <4>4
    <3>. QED BY <3>1, <2>1 DEF SpaceInv, DirInv
  <2>6. NoDir \notin dirs
    BY <2>1, Consts DEF SpaceInv, TypeOK
  <2>7. dirs = ({pgdir[s] : s \in Users} \cup {d[s] : s \in Slot}) \ {NoDir}
    BY <2>3, <2>4, <2>5, <2>6
  <2>. QED BY <2>1, <2>3, <2>7 DEF FramesSound, SpaceInv, CountInv
<1>. QED BY <1>1, SpaceInvHolds, PTL

(* Outside of sbrk a space has exactly the pages below its size, and its    *)
(* threads agree on that size: what growproc, with its scan for the child   *)
(* threads of the caller (proc.c:122), and copyuvm restore after every call.*)
THEOREM PagesAreBelowSize ==
  ASSUME Ruled
  PROVE  Spec => []BelowSizeMapped
<1>1. SpaceInv => BelowSizeMapped
  <2>1. SUFFICES ASSUME SpaceInv, NEW p \in Slot, state[p] = "LIVE", ~Resizing(p)
                 PROVE  /\ pt[pgdir[p]] = Below(sz[p])
                        /\ \A q \in Sharers(p) : state[q] = "LIVE" => sz[q] = sz[p]
    BY DEF BelowSizeMapped
  <2>2. p \in Placed /\ \A q \in Slot : Sharing(p, q) => q = p \/ q \in Sharers(p)
    BY <2>1 DEF Placed, Sharing, Sharers
  <2>3. ~Sizing(p) /\ \A q \in Slot : Sharing(p, q) => ~Sizing(q)
    BY <2>1, <2>2 DEF Resizing, Sizing
  <2>4. pt[pgdir[p]] = Below(sz[p])
    BY <2>1, <2>3 DEF SpaceInv, PagesInv, PagesOf, Held
  <2>5. ASSUME NEW q \in Sharers(p), state[q] = "LIVE" PROVE sz[q] = sz[p]
    <3>1. q \in Slot /\ Sharing(p, q)
      BY <2>2, <2>5 DEF Sharers, Sharing, Placed
    <3>. QED BY <2>1, <2>3, <3>1 DEF SpaceInv, SizeInv, Sizing
  <2>. QED BY <2>4, <2>5
<1>. QED BY <1>1, SpaceInvHolds, PTL

(* The kernel's types and its panics on their own: whatever the programs'   *)
(* arguments to sbrk, no variable leaves its range and no loop of vm.c      *)
(* meets a page that is mapped twice or missing.                            *)
THEOREM SpaceTypes ==
  ASSUME Ruled
  PROVE  Spec => [](TypeOK /\ NoPanic)
<1>1. SpaceInv => TypeOK /\ NoPanic
  BY DEF SpaceInv
<1>. QED BY <1>1, SpaceInvHolds, PTL

-----------------------------------------------------------------------------
(* Open files: every count is that of a set.  A step of a process changes each *)
(* of these sets by one element at most, so that the proof of a step adds and  *)
(* subtracts bits.  What makes the last close the last is in ShownInv and      *)
(* TodoInv: a file that a call still has in hand is nobody else's.             *)

FileRec == [type : {"NONE", "INODE", "PIPE"}, obj : Inum \cup PipePage \cup {NoInum},
            mode : SUBSET {"r", "w"}, off : Nat]
TodoLists == {<<>>} \cup {<<f>> : f \in File} \cup {t \in File \X File : t[1] # t[2]}
CallRec == [name : {"none", "open", "chdir", "pipe", "close", "exit", "read", "write"},
            f : File \cup {NoFile}, ip : Inum \cup {NoInum}, n : Nat, buf : Seq(Proc),
            mode : SUBSET {"r", "w"}, todo : TodoLists, ff : FileRec, np : Proc \cup {Nobody}]
Places == {"user", "ilock", "open", "chdir", "opened", "dup", "pipe", "close", "drop", "fork",
           "read", "write", "answer"}
FileTypes ==
    /\ ref \in [File -> Nat] /\ file \in [File -> FileRec]
    /\ ofile \in [Proc -> [Fd -> File \cup {NoFile}]]
    /\ cwd \in [Proc -> Inum \cup {NoInum}] /\ alive \subseteq Proc
    /\ iref \in [Inum -> Nat] /\ ilock \in [Inum -> Proc \cup {Nobody}]
    /\ data \in [Inum -> Seq(Proc)] /\ ends \in [PipePage -> SUBSET {"r", "w"}]
    /\ step \in [Proc -> Places]
    /\ call \in [Proc -> CallRec]

(* What a process keeps in its call, by the place it is at.                    *)
Untyped(f) == file[f].type = "NONE"
Shows(p, f) == \E i \in Fd : ofile[p][i] = f
Calling(p) ==
    /\ p \notin alive => step[p] = "user" /\ cwd[p] = NoInum
    /\ p \in alive => cwd[p] \in Inum
    /\ step[p] \in {"user", "answer"} => call[p] = [NoCall EXCEPT !.buf = call[p].buf]
    /\ step[p] = "ilock" => call[p].name \in {"open", "chdir", "read", "write"}
    /\ step[p] \in {"open", "chdir", "read", "write"} => call[p].name = step[p]
    /\ call[p].name \in {"open", "chdir"} => call[p].ip \in Inum
    /\ call[p].name \in {"read", "write"} => call[p].f \in File /\ call[p].ip \in Inum
    /\ step[p] = "opened" =>
         /\ call[p].name = "open" /\ call[p].f \in File /\ Untyped(call[p].f)
         /\ Shows(p, call[p].f) /\ \A q \in Proc : Shows(q, call[p].f) => q = p
    /\ step[p] = "dup" =>
         /\ call[p] = [NoCall EXCEPT !.f = call[p].f] /\ call[p].f \in File
         /\ \E i, j \in Fd : i # j /\ ofile[p][i] = call[p].f /\ ofile[p][j] = call[p].f
    /\ step[p] = "pipe" => call[p].name = "pipe" /\ \A f \in ToSet(call[p].todo) : Untyped(f)
    /\ step[p] = "fork" => call[p] = [NoCall EXCEPT !.np = call[p].np] /\ call[p].np \in Proc \ alive
    /\ step[p] \in {"close", "drop"} => call[p].name \in {"open", "pipe", "close", "exit"}
    /\ call[p].todo # <<>> => step[p] \in {"pipe", "close", "drop"} /\ call[p].name # "exit"
    /\ call[p].np # Nobody => step[p] = "fork"
    /\ call[p].ff # NoneFile => step[p] = "drop"
CallsInv == \A p \in Proc : Calling(p)

(* A descriptor shows a file whose fields are set, but for the process that is *)
(* about to set them; who does not exist has none, but for a child in the      *)
(* making.                                                                     *)
ReadyInv ==
    \A p \in Proc, i \in Fd :
        ofile[p][i] # NoFile /\ Untyped(ofile[p][i]) => step[p] = "opened" /\ call[p].f = ofile[p][i]
HandedInv ==
    /\ \A p \in Proc \ alive : Descs(p) # {} => \E q \in alive : call[q].np = p
    /\ \A p, q \in Proc : p # q /\ call[p].np # Nobody => call[p].np # call[q].np

ShownInv == ReadyInv /\ HandedInv

(* A file that a call has taken and not shown is its own.                      *)
TodoInv ==
    \A p \in Proc : \A f \in ToSet(call[p].todo) :
        Showing(f) = {} /\ \A q \in Proc \ {p} : f \notin ToSet(call[q].todo)

(* The ends of a pipe are two, each in one open file or on its way out.        *)
FieldsOK(r) ==
    /\ r.type = "INODE" => r.obj \in Inum
    /\ r.type = "PIPE" => r.obj \in PipePage /\ r.mode \in {{"r"}, {"w"}}
SameEnd(r, s) == r.type = "PIPE" /\ s.type = "PIPE" /\ r.obj = s.obj /\ r.mode = s.mode
EndsInv ==
    /\ \A f \in File : FieldsOK(file[f]) /\ (ref[f] = 0 => Untyped(f))
    /\ \A p \in Proc : FieldsOK(call[p].ff)
    /\ \A f, g \in File : f # g => ~SameEnd(file[f], file[g])
    /\ \A f \in File, p \in Proc : ~SameEnd(file[f], call[p].ff)
    /\ \A p, q \in Proc : p # q => ~SameEnd(call[p].ff, call[q].ff)

FileCount(f) == ref[f] + Cardinality(Dups(f)) = Cardinality(Showing(f)) + Cardinality(Closings(f))
InodeCount(i) ==
    iref[i] = Cardinality(Opens("INODE", i)) + Cardinality(Dwellers(i))
              + Cardinality(Finders(i)) + Cardinality(Dropping("INODE", i))
PipeEnds(g) ==
    \A m \in {"r", "w"} :
        m \in ends[g] <=> \/ \E f \in File : ref[f] > 0 /\ file[f].type = "PIPE" /\ file[f].obj = g /\ m \in file[f].mode
                          \/ \E p \in alive : call[p].ff.type = "PIPE" /\ call[p].ff.obj = g /\ m \in call[p].ff.mode
CountsInv ==
    /\ \A f \in File : FileCount(f)
    /\ \A i \in Inum : InodeCount(i)
    /\ \A g \in PipePage : PipeEnds(g)

FilesInv == FileTypes /\ CallsInv /\ ShownInv /\ TodoInv /\ EndsInv /\ CountsInv /\ died = FALSE
-----------------------------------------------------------------------------
(* Counting                                                                    *)

LEMMA FileConsts ==
  /\ NFILE \in Nat \ {0} /\ NOFILE \in Nat \ {0} /\ MaxSize \in Nat
  /\ Counts \subseteq Nat \ {0} /\ First \in Proc /\ Nobody \notin Proc
  /\ Root \in Inum /\ NoInum \notin Inum
  /\ IsFiniteSet(Proc) /\ Inum \cap PipePage = {} /\ Modes \subseteq SUBSET {"r", "w"}
  /\ NoFile \notin File /\ NoFile = 0 /\ File \subseteq Nat /\ Fd \subseteq Nat
BY FilesAssumption DEF NoFile, File, Fd

Bit(b) == IF b THEN 1 ELSE 0

(* Two sets that differ by x at most.                                          *)
LEMMA BitStep ==
  ASSUME NEW S, IsFiniteSet(S), NEW T, NEW x, \A y : y # x => (y \in T <=> y \in S)
  PROVE  /\ IsFiniteSet(T) /\ Cardinality(S) \in Nat /\ Cardinality(T) \in Nat
         /\ Cardinality(T) = Cardinality(S) + Bit(x \in T) - Bit(x \in S)
<1>1. T = IF x \in T THEN S \cup {x} ELSE S \ {x}
  BY Zenon
<1>2. Cardinality(S) \in Nat
  BY FS_CardinalityType
<1>3. CASE x \in T
  <2>1. T = S \cup {x}
    BY <1>1, <1>3
  <2>2. IsFiniteSet(S \cup {x}) /\ Cardinality(S \cup {x}) = IF x \in S THEN Cardinality(S) ELSE Cardinality(S) + 1
    BY FS_AddElement
  <2>. QED BY <2>1, <2>2, <1>2, <1>3, FS_CardinalityType DEF Bit
<1>4. CASE x \notin T
  <2>1. T = S \ {x}
    BY <1>1, <1>4
  <2>2. IsFiniteSet(S \ {x}) /\ Cardinality(S \ {x}) = IF x \in S THEN Cardinality(S) - 1 ELSE Cardinality(S)
    BY FS_RemoveElement
  <2>. QED BY <2>1, <2>2, <1>2, <1>4, FS_CardinalityType DEF Bit
<1>. QED BY <1>3, <1>4

LEMMA FilesFinite ==
  ASSUME FileTypes
  PROVE  /\ IsFiniteSet(File) /\ IsFiniteSet(Proc \X Fd) /\ IsFiniteSet(alive)
         /\ \A f : IsFiniteSet(Showing(f)) /\ IsFiniteSet(Dups(f)) /\ IsFiniteSet(Closings(f))
         /\ \A t, o : IsFiniteSet(Opens(t, o)) /\ IsFiniteSet(Dropping(t, o))
         /\ \A i : IsFiniteSet(Dwellers(i)) /\ IsFiniteSet(Finders(i))
<1>1. IsFiniteSet(File) /\ IsFiniteSet(Fd)
  <2>1. 1 \in Int /\ NFILE \in Int /\ 0 \in Int /\ NOFILE - 1 \in Int
    BY FileConsts
  <2>. QED BY <2>1, FS_Interval DEF File, Fd
<1>2. IsFiniteSet(Proc \X Fd)
  BY <1>1, FileConsts, FS_Product
<1>3. IsFiniteSet(alive)
  BY FileConsts, FS_Subset DEF FileTypes
<1>4. ASSUME NEW f PROVE IsFiniteSet(Showing(f)) /\ IsFiniteSet(Dups(f)) /\ IsFiniteSet(Closings(f))
  <2>1. Showing(f) \subseteq Proc \X Fd /\ Dups(f) \subseteq alive /\ Closings(f) \subseteq alive
    BY DEF Showing, Dups, Closings
  <2>. QED BY <2>1, <1>2, <1>3, FS_Subset
<1>5. ASSUME NEW t, NEW o PROVE IsFiniteSet(Opens(t, o)) /\ IsFiniteSet(Dropping(t, o))
  <2>1. Opens(t, o) \subseteq File /\ Dropping(t, o) \subseteq alive
    BY DEF Opens, Dropping
  <2>. QED BY <2>1, <1>1, <1>3, FS_Subset
<1>6. ASSUME NEW i PROVE IsFiniteSet(Dwellers(i)) /\ IsFiniteSet(Finders(i))
  <2>1. Dwellers(i) \subseteq alive /\ Finders(i) \subseteq alive
    BY DEF Dwellers, Finders
  <2>. QED BY <2>1, <1>3, FS_Subset
<1>. QED BY <1>1, <1>2, <1>3, <1>4, <1>5, <1>6

LEMMA TodoFacts ==
  ASSUME NEW t \in TodoLists
  PROVE  /\ t \in Seq(File) /\ Len(t) \in 0 .. 2 /\ ToSet(t) \subseteq File
         /\ t = <<>> <=> ToSet(t) = {}
         /\ Len(t) = 0 <=> t = <<>>
         /\ t # <<>> => /\ Head(t) \in ToSet(t) /\ Tail(t) \in TodoLists
                        /\ ToSet(Tail(t)) = ToSet(t) \ {Head(t)}
         /\ Len(t) = 2 => t[1] # t[2] /\ ToSet(t) = {t[1], t[2]}
         /\ \A f \in File \ ToSet(t) : Len(t) < 2 =>
              Append(t, f) \in TodoLists /\ ToSet(Append(t, f)) = ToSet(t) \cup {f}
<1>1. CASE t = <<>>
  <2>1. ToSet(t) = {}
    BY <1>1 DEF ToSet
  <2>2. ASSUME NEW f \in File
        PROVE  Append(t, f) = <<f>> /\ ToSet(<<f>>) = {f} /\ <<f>> \in TodoLists
    <3>1. Append(t, f) = <<f>>
      BY <1>1
    <3>2. DOMAIN <<f>> = {1} /\ <<f>>[1] = f
      OBVIOUS
    <3>. QED BY <3>1, <3>2 DEF ToSet, TodoLists
  <2>3. t \in Seq(File) /\ Len(t) = 0
    BY <1>1
  <2>4. \A f \in File : Append(t, f) \in TodoLists /\ ToSet(Append(t, f)) = ToSet(t) \cup {f}
    BY <2>1, <2>2
  <2>. QED BY <1>1, <2>1, <2>3, <2>4
<1>2. ASSUME NEW f \in File, t = <<f>>
      PROVE  /\ t \in Seq(File) /\ Len(t) = 1 /\ ToSet(t) = {f} /\ t # <<>>
             /\ Head(t) = f /\ Tail(t) = <<>> /\ ToSet(<<>>) = {}
             /\ \A g \in File \ ToSet(t) :
                  Append(t, g) \in TodoLists /\ ToSet(Append(t, g)) = ToSet(t) \cup {g}
  <2>1. DOMAIN t = {1} /\ t[1] = f /\ t \in Seq(File) /\ Len(t) = 1 /\ Head(t) = f /\ Tail(t) = <<>> /\ t # <<>>
    BY <1>2
  <2>2. ToSet(t) = {f} /\ ToSet(<<>>) = {}
    BY <2>1 DEF ToSet
  <2>3. ASSUME NEW g \in File \ ToSet(t)
        PROVE  Append(t, g) \in TodoLists /\ ToSet(Append(t, g)) = ToSet(t) \cup {g}
    <3>1. Append(t, g) = <<f, g>> /\ g # f
      <4>1. Append(t, g) \in Seq(File) /\ <<f, g>> \in Seq(File)
        BY <2>1
      <4>2. Len(Append(t, g)) = 2 /\ Append(t, g)[1] = f /\ Append(t, g)[2] = g
        BY <2>1, SMTT(30)
      <4>3. Len(<<f, g>>) = 2 /\ <<f, g>>[1] = f /\ <<f, g>>[2] = g
        OBVIOUS
      <4>4. \A i \in 1 .. Len(Append(t, g)) : Append(t, g)[i] = <<f, g>>[i]
        BY <4>2, <4>3
      <4>. QED BY <4>1, <4>2, <4>3, <4>4, <2>2, SeqEqual
    <3>2. DOMAIN <<f, g>> = {1, 2} /\ <<f, g>>[1] = f /\ <<f, g>>[2] = g
      OBVIOUS
    <3>3. ToSet(<<f, g>>) = {f, g}
      BY <3>2 DEF ToSet
    <3>. QED BY <3>1, <3>2, <3>3, <2>2 DEF TodoLists
  <2>. QED BY <2>1, <2>2, <2>3
<1>3. ASSUME NEW f \in File, NEW g \in File, f # g, t = <<f, g>>
      PROVE  /\ t \in Seq(File) /\ Len(t) = 2 /\ ToSet(t) = {f, g} /\ t # <<>> /\ t[1] = f /\ t[2] = g
             /\ Head(t) = f /\ Tail(t) \in TodoLists /\ ToSet(Tail(t)) = {g}
  <2>1. /\ DOMAIN t = {1, 2} /\ t[1] = f /\ t[2] = g /\ t \in Seq(File) /\ Len(t) = 2 /\ t # <<>>
        /\ Head(t) = f /\ Tail(t) = <<g>>
    BY <1>3
  <2>2. DOMAIN <<g>> = {1} /\ <<g>>[1] = g
    OBVIOUS
  <2>. QED BY <2>1, <2>2 DEF ToSet, TodoLists
<1>4. t = <<>> \/ (\E f \in File : t = <<f>>) \/ (\E f, g \in File : f # g /\ t = <<f, g>>)
  BY DEF TodoLists
<1>5. CASE \E f \in File : t = <<f>>
  <2>1. PICK f \in File : t = <<f>>
    BY <1>5
  <2>2. <<>> \in TodoLists
    BY DEF TodoLists
  <2>. QED BY <1>2, <2>1, <2>2
<1>6. CASE \E f, g \in File : f # g /\ t = <<f, g>>
  <2>1. PICK f \in File, g \in File : f # g /\ t = <<f, g>>
    BY <1>6
  <2>. QED BY <1>3, <2>1
<1>. QED BY <1>1, <1>4, <1>5, <1>6

(* Who shows a file or has it in hand is counted; a descriptor is the only     *)
(* holder of a file that is counted once, unless its process is in dup.        *)
LEMMA Holders ==
  ASSUME FilesInv, NEW f \in File
  PROVE  /\ \A p \in Proc : Shows(p, f) => ref[f] > 0
         /\ \A p \in Proc : f \in ToSet(call[p].todo) => ref[f] = 1
         /\ ref[f] = 0 => Showing(f) = {} /\ Dups(f) = {} /\ Closings(f) = {}
         /\ \A p \in Proc, i \in Fd : p \notin Dups(f) /\ ofile[p][i] = f /\ ref[f] = 1 =>
              Showing(f) = {<<p, i>>} /\ Dups(f) = {} /\ Closings(f) = {}
<1>. DEFINE first == [p \in Dups(f) |-> <<p, CHOOSE i \in Fd : ofile[p][i] = f>>]
            U == {first[p] : p \in Dups(f)}
            V == Showing(f) \ U
<1>1. FileTypes /\ CallsInv /\ TodoInv /\ FileCount(f)
  BY DEF FilesInv, CountsInv
<1>2. /\ IsFiniteSet(Showing(f)) /\ IsFiniteSet(Dups(f)) /\ IsFiniteSet(Closings(f))
      /\ Cardinality(Showing(f)) \in Nat /\ Cardinality(Dups(f)) \in Nat /\ Cardinality(Closings(f)) \in Nat
      /\ ref[f] \in Nat
  BY <1>1, FilesFinite, FS_CardinalityType DEF FileTypes
<1>3. ASSUME NEW p \in Dups(f)
      PROVE  /\ p \in Proc /\ first[p] \in Showing(f) /\ first[p][1] = p
             /\ \E i \in Fd : <<p, i>> \in V
  <2>1. p \in Proc /\ \E i, j \in Fd : i # j /\ ofile[p][i] = f /\ ofile[p][j] = f
    BY <1>1 DEF Dups, CallsInv, Calling, FileTypes
  <2>2. PICK i \in Fd, j \in Fd : i # j /\ ofile[p][i] = f /\ ofile[p][j] = f
    BY <2>1
  <2>3. PICK k \in Fd : first[p] = <<p, k>> /\ ofile[p][k] = f
    BY <2>2
  <2>4. \A q \in Dups(f) : first[q][1] = q
    OBVIOUS
  <2>5. PICK h \in Fd : h # k /\ ofile[p][h] = f
    BY <2>2
  <2>6. <<p, h>> \in Showing(f) /\ <<p, h>> # first[p]
    BY <2>1, <2>3, <2>5 DEF Showing
  <2>7. <<p, h>> \notin U
    BY <2>4, <2>6
  <2>. QED BY <2>1, <2>3, <2>6, <2>7 DEF Showing
<1>4. Cardinality(U) = Cardinality(Dups(f)) /\ U \subseteq Showing(f)
  <2>1. first \in [Dups(f) -> U]
    OBVIOUS
  <2>2. first \in Bijection(Dups(f), U)
    <3>1. \A p, q \in Dups(f) : first[p] = first[q] => p = q
      BY <1>3, Zenon
    <3>2. \A u \in U : \E p \in Dups(f) : first[p] = u
      OBVIOUS
    <3>. HIDE DEF first, U
    <3>. QED BY <2>1, <3>1, <3>2 DEF Bijection, Injection, Surjection, IsInjective
  <2>3. ExistsBijection(Dups(f), U)
    BY <2>2 DEF ExistsBijection
  <2>. QED BY <1>2, <1>3, <2>3, FS_Bijection
<1>. HIDE DEF first
<1>5. IsFiniteSet(V) /\ Cardinality(V) = Cardinality(Showing(f)) - Cardinality(U) /\ Cardinality(V) \in Nat
  <2>1. Showing(f) \cap U = U
    BY <1>4
  <2>. QED BY <1>2, <2>1, FS_Difference, FS_CardinalityType
<1>6. ref[f] = Cardinality(V) + Cardinality(Closings(f))
  BY <1>1, <1>2, <1>4, <1>5 DEF FileCount
<1>7. ASSUME NEW e \in Showing(f) PROVE \E i \in Fd : <<e[1], i>> \in V
  <2>1. CASE e \in V
    BY <2>1 DEF Showing
  <2>2. CASE e \in U
    BY <1>3, <2>2
  <2>. QED BY <2>1, <2>2
<1>8. ASSUME NEW x \in V PROVE Cardinality(V) >= 1
  BY <1>5, FS_EmptySet
<1>9. ASSUME NEW p \in Proc, Shows(p, f) PROVE ref[f] > 0
  <2>1. PICK i \in Fd : <<p, i>> \in Showing(f)
    BY <1>9 DEF Shows, Showing
  <2>2. Cardinality(V) >= 1
    BY <1>7, <1>8, <2>1
  <2>. QED BY <2>2, <1>2, <1>5, <1>6
<1>10. ASSUME NEW p \in Proc, f \in ToSet(call[p].todo) PROVE ref[f] = 1
  <2>1. Showing(f) = {} /\ \A q \in Proc \ {p} : f \notin ToSet(call[q].todo)
    BY <1>1, <1>10 DEF TodoInv
  <2>2. p \in alive
    <3>1. ToSet(<<>>) = {}
      BY DEF ToSet
    <3>. QED BY <1>1, <1>10, <3>1 DEF CallsInv, Calling
  <2>3. Closings(f) = {p}
    BY <2>1, <2>2, <1>1, <1>10 DEF Closings, FileTypes
  <2>4. V = {}
    BY <2>1
  <2>5. Cardinality(V) = 0 /\ Cardinality(Closings(f)) = 1
    BY <2>3, <2>4, FS_EmptySet, FS_Singleton
  <2>. QED BY <2>5, <1>6
<1>11. ASSUME ref[f] = 0 PROVE Showing(f) = {} /\ Dups(f) = {} /\ Closings(f) = {}
  <2>1. Cardinality(V) = 0 /\ Cardinality(Closings(f)) = 0
    BY <1>11, <1>2, <1>5, <1>6
  <2>2. V = {} /\ Closings(f) = {}
    BY <2>1, <1>2, <1>5, FS_EmptySet
  <2>. QED BY <2>2, <1>3, <1>7
<1>12. ASSUME NEW p \in Proc, NEW i \in Fd, p \notin Dups(f), ofile[p][i] = f, ref[f] = 1
       PROVE  Showing(f) = {<<p, i>>} /\ Dups(f) = {} /\ Closings(f) = {}
  <2>1. <<p, i>> \in V
    <3>1. <<p, i>> \in Showing(f)
      BY <1>12 DEF Showing
    <3>2. \A q \in Dups(f) : first[q][1] = q
      BY <1>3
    <3>3. <<p, i>>[1] = p
      OBVIOUS
    <3>. QED BY <3>1, <3>2, <3>3, <1>12
  <2>2. Cardinality(V) >= 1
    BY <1>8, <2>1
  <2>3. Cardinality(V) = 1 /\ Cardinality(Closings(f)) = 0
    BY <2>2, <1>2, <1>5, <1>6, <1>12
  <2>4. Closings(f) = {}
    BY <2>3, <1>2, FS_EmptySet
  <2>5. V = {<<p, i>>}
    BY <2>1, <2>3, <1>5, FS_Singleton
  <2>6. Dups(f) = {}
    <3>1. SUFFICES ASSUME NEW q \in Dups(f) PROVE FALSE
      OBVIOUS
    <3>2. PICK j \in Fd : <<q, j>> \in V
      BY <1>3
    <3>3. <<q, j>> = <<p, i>>
      BY <3>2, <2>5
    <3>. QED BY <3>3, <1>12
  <2>7. U = {}
    BY <2>6
  <2>. QED BY <2>4, <2>5, <2>6, <2>7
<1>. QED BY <1>9, <1>10, <1>11, <1>12
-----------------------------------------------------------------------------
(* What a step of p leaves as it is                                            *)

Others(p) == \A q \in Proc \ {p} : step'[q] = step[q] /\ call'[q] = call[q] /\ cwd'[q] = cwd[q]
Kept(f) == file'[f].type = file[f].type /\ file'[f].obj = file[f].obj /\ file'[f].mode = file[f].mode

LEMMA OwnSets ==
  ASSUME FileTypes, NEW p \in alive, alive' = alive, Others(p)
  PROVE  /\ \A f \in File :
              /\ Cardinality(Dups(f)') = Cardinality(Dups(f)) + Bit(p \in Dups(f)') - Bit(p \in Dups(f))
              /\ Cardinality(Closings(f)') = Cardinality(Closings(f)) + Bit(p \in Closings(f)') - Bit(p \in Closings(f))
         /\ \A i \in Inum :
              /\ Cardinality(Dwellers(i)') = Cardinality(Dwellers(i)) + Bit(p \in Dwellers(i)') - Bit(p \in Dwellers(i))
              /\ Cardinality(Finders(i)') = Cardinality(Finders(i)) + Bit(p \in Finders(i)') - Bit(p \in Finders(i))
              /\ Cardinality(Dropping("INODE", i)')
                   = Cardinality(Dropping("INODE", i)) + Bit(p \in Dropping("INODE", i)') - Bit(p \in Dropping("INODE", i))
<1>. alive \subseteq Proc
  BY DEF FileTypes
<1>1. ASSUME NEW f \in File
      PROVE  /\ Cardinality(Dups(f)') = Cardinality(Dups(f)) + Bit(p \in Dups(f)') - Bit(p \in Dups(f))
             /\ Cardinality(Closings(f)') = Cardinality(Closings(f)) + Bit(p \in Closings(f)') - Bit(p \in Closings(f))
  <2>1. \A q : q # p => (q \in Dups(f)' <=> q \in Dups(f)) /\ (q \in Closings(f)' <=> q \in Closings(f))
    BY DEF Others, Dups, Closings
  <2>. QED BY <2>1, FilesFinite, BitStep
<1>2. ASSUME NEW i \in Inum
      PROVE  /\ Cardinality(Dwellers(i)') = Cardinality(Dwellers(i)) + Bit(p \in Dwellers(i)') - Bit(p \in Dwellers(i))
             /\ Cardinality(Finders(i)') = Cardinality(Finders(i)) + Bit(p \in Finders(i)') - Bit(p \in Finders(i))
             /\ Cardinality(Dropping("INODE", i)')
                  = Cardinality(Dropping("INODE", i)) + Bit(p \in Dropping("INODE", i)') - Bit(p \in Dropping("INODE", i))
  <2>1. \A q : q # p => /\ q \in Dwellers(i)' <=> q \in Dwellers(i)
                        /\ q \in Finders(i)' <=> q \in Finders(i)
                        /\ q \in Dropping("INODE", i)' <=> q \in Dropping("INODE", i)
    BY DEF Others, Dwellers, Finders, Dropping
  <2>. QED BY <2>1, FilesFinite, BitStep
<1>. QED BY <1>1, <1>2

LEMMA CardTypes ==
  ASSUME FileTypes
  PROVE  /\ \A f \in File : /\ Cardinality(Showing(f)) \in Nat /\ Cardinality(Dups(f)) \in Nat
                            /\ Cardinality(Closings(f)) \in Nat
         /\ \A i \in Inum : /\ Cardinality(Opens("INODE", i)) \in Nat /\ Cardinality(Dropping("INODE", i)) \in Nat
                            /\ Cardinality(Dwellers(i)) \in Nat /\ Cardinality(Finders(i)) \in Nat
BY FilesFinite, FS_CardinalityType

LEMMA ShowingStep ==
  ASSUME FileTypes, NEW p \in Proc, NEW i \in Fd, NEW g, ofile'[p][i] = g,
         \A q \in Proc, j \in Fd : q # p \/ j # i => ofile'[q][j] = ofile[q][j]
  PROVE  \A f \in File : Cardinality(Showing(f)') = Cardinality(Showing(f)) + Bit(g = f) - Bit(ofile[p][i] = f)
<1>. SUFFICES ASSUME NEW f \in File
              PROVE  Cardinality(Showing(f)') = Cardinality(Showing(f)) + Bit(g = f) - Bit(ofile[p][i] = f)
  OBVIOUS
<1>1. \A e : e # <<p, i>> => (e \in Showing(f)' <=> e \in Showing(f))
  <2>1. ASSUME NEW e \in Proc \X Fd, e # <<p, i>> PROVE ofile'[e[1]][e[2]] = ofile[e[1]][e[2]]
    <3>1. e[1] \in Proc /\ e[2] \in Fd /\ (e[1] # p \/ e[2] # i)
      BY <2>1
    <3>. QED BY <3>1
  <2>. QED BY <2>1 DEF Showing
<1>2. (<<p, i>> \in Showing(f)') = (g = f) /\ (<<p, i>> \in Showing(f)) = (ofile[p][i] = f)
  BY DEF Showing
<1>3. /\ Cardinality(Showing(f)')
         = Cardinality(Showing(f)) + Bit(<<p, i>> \in Showing(f)') - Bit(<<p, i>> \in Showing(f))
  BY <1>1, FilesFinite, BitStep
<1>. QED BY <1>2, <1>3 DEF Bit

LEMMA OpensStep ==
  ASSUME FileTypes, NEW h \in File,
         \A f \in File \ {h} : (ref'[f] > 0 <=> ref[f] > 0) /\ file'[f].type = file[f].type /\ file'[f].obj = file[f].obj
  PROVE  \A t, o : Cardinality(Opens(t, o)') = Cardinality(Opens(t, o)) + Bit(h \in Opens(t, o)') - Bit(h \in Opens(t, o))
<1>1. ASSUME NEW t, NEW o
      PROVE  Cardinality(Opens(t, o)') = Cardinality(Opens(t, o)) + Bit(h \in Opens(t, o)') - Bit(h \in Opens(t, o))
  <2>1. \A f : f # h => (f \in Opens(t, o)' <=> f \in Opens(t, o))
    BY DEF Opens
  <2>. QED BY <2>1, FilesFinite, BitStep
<1>. QED BY <1>1

LEMMA OpensSame ==
  ASSUME \A f \in File : ref'[f] > 0 <=> ref[f] > 0,
         \A f \in File : file'[f].type = file[f].type /\ file'[f].obj = file[f].obj
  PROVE  \A t, o : Opens(t, o)' = Opens(t, o)
BY DEF Opens

(* p comes to hold only what it held, or what nobody held.                     *)
Takes(p) ==
    /\ \A q \in Proc, f \in File : Shows(q, f)' =>
         \/ Shows(q, f) \/ Shows(p, f)
         \/ (ref[f] = 0 \/ f \in ToSet(call[p].todo)) /\ f \notin ToSet(call'[p].todo)
    /\ \A f \in ToSet(call'[p].todo) : f \in ToSet(call[p].todo) \/ (f \in File /\ ref[f] = 0)
    /\ \A f \in File : Untyped(f) => Untyped(f)' \/ Shows(p, f) \/ f \in ToSet(call[p].todo)

LEMMA TodoInFile ==
  ASSUME FileTypes, NEW p \in Proc
  PROVE  ToSet(call[p].todo) \subseteq File /\ call[p].todo \in TodoLists
<1>1. call[p].todo \in TodoLists
  BY DEF FileTypes, CallRec
<1>. QED BY <1>1, TodoFacts

LEMMA ShowingShows ==
  \A f \in File : Showing(f) = {} <=> \A q \in Proc : ~Shows(q, f)
<1>1. SUFFICES ASSUME NEW f \in File PROVE Showing(f) = {} <=> \A q \in Proc : ~Shows(q, f)
  OBVIOUS
<1>2. ASSUME NEW q \in Proc, Shows(q, f) PROVE Showing(f) # {}
  <2>1. PICK i \in Fd : ofile[q][i] = f
    BY <1>2 DEF Shows
  <2>2. <<q, i>> \in Showing(f)
    BY <2>1 DEF Showing
  <2>. QED BY <2>2
<1>3. ASSUME NEW e \in Showing(f) PROVE e[1] \in Proc /\ Shows(e[1], f)
  BY DEF Showing, Shows
<1>. QED BY <1>2, <1>3

LEMMA ShowingShowsNext ==
  (\A f \in File : Showing(f) = {} <=> \A q \in Proc : ~Shows(q, f))'
BY ShowingShows, PTL

LEMMA OthersCalling ==
  ASSUME FilesInv, NEW p \in alive, Others(p), alive' = alive, Takes(p),
         \A q \in alive \ {p} : ofile'[q] = ofile[q]
  PROVE  \A q \in Proc \ {p} : Calling(q)'
<1>1. SUFFICES ASSUME NEW q \in Proc \ {p} PROVE Calling(q)'
  OBVIOUS
<1>2. /\ p \in Proc /\ Calling(q) /\ step'[q] = step[q] /\ call'[q] = call[q] /\ cwd'[q] = cwd[q]
      /\ FileTypes /\ TodoInv /\ ToSet(call[q].todo) \subseteq File
  BY TodoInFile DEF FilesInv, CallsInv, Others, FileTypes
<1>3. CASE q \notin alive
  BY <1>2, <1>3 DEF Calling, NoCall, NoneFile
<1>4. CASE q \in alive
  <2>1. ofile'[q] = ofile[q] /\ \A f : Shows(q, f)' <=> Shows(q, f)
    BY <1>4 DEF Shows
  <2>2. ASSUME step[q] = "opened"
        PROVE  \E f \in File : f = call[q].f /\ Untyped(f)' /\ \A r \in Proc : Shows(r, f)' => r = q
    <3>0. PICK f \in File : f = call[q].f
      BY <1>2, <2>2 DEF Calling
    <3>1. /\ f \in File /\ Untyped(f) /\ Shows(q, f) /\ \A r \in Proc : Shows(r, f) => r = q
      BY <1>2, <2>2, <3>0 DEF Calling
    <3>2. ref[f] > 0 /\ ~Shows(p, f) /\ Showing(f) # {}
      BY <3>1, <1>2, Holders, ShowingShows
    <3>3. f \notin ToSet(call[p].todo)
      BY <3>1, <3>2, <1>2 DEF TodoInv
    <3>4. Untyped(f)'
      BY <3>1, <3>2, <3>3 DEF Takes
    <3>5. ref[f] # 0
      BY <3>1, <3>2, <1>2 DEF FileTypes
    <3>6. \A r \in Proc : Shows(r, f)' => r = q
      BY <3>1, <3>2, <3>3, <3>5 DEF Takes
    <3>. QED BY <3>0, <3>4, <3>6
  <2>3. ASSUME NEW f \in ToSet(call[q].todo), Untyped(f) PROVE Untyped(f)'
    <3>1. f \in File /\ Showing(f) = {} /\ f \notin ToSet(call[p].todo)
      BY <1>2 DEF TodoInv
    <3>2. ~Shows(p, f)
      BY <3>1, <1>2, ShowingShows
    <3>. QED BY <2>3, <3>1, <3>2 DEF Takes
  <2>5. step[q] = "opened" => (Untyped(call[q].f) /\ \A r \in Proc : Shows(r, call[q].f) => r = q)'
    BY <1>2, <2>2 DEF Untyped, Shows
  <2>. QED BY <1>2, <1>4, <2>1, <2>3, <2>5 DEF Calling
<1>. QED BY <1>3, <1>4

LEMMA TodoStep ==
  ASSUME FilesInv, NEW p \in alive, Others(p), alive' = alive, Takes(p)
  PROVE  TodoInv'
<1>. p \in Proc /\ alive \subseteq Proc /\ FileTypes /\ TodoInv
  BY DEF FilesInv, FileTypes
<1>1. \A q \in Proc : ToSet(call[q].todo) \subseteq File
  BY TodoInFile
<1>2. ASSUME NEW f \in File, ref[f] = 0 PROVE \A q \in Proc : ~Shows(q, f) /\ f \notin ToSet(call[q].todo)
  BY <1>2, Holders
<1>3. ASSUME NEW f \in ToSet(call'[p].todo)
      PROVE  Showing(f)' = {} /\ \A q \in Proc \ {p} : f \notin ToSet(call'[q].todo)
  <2>1. f \in ToSet(call[p].todo) \/ (f \in File /\ ref[f] = 0)
    BY <1>3 DEF Takes
  <2>2. CASE f \in ToSet(call[p].todo)
    <3>1. f \in File /\ \A q \in Proc : ~Shows(q, f)
      BY <2>2, <1>1, ShowingShows DEF TodoInv
    <3>2. \A q \in Proc : ~Shows(q, f)'
      BY <3>1, <1>3 DEF Takes
    <3>. QED BY <3>1, <3>2, <2>2, ShowingShowsNext DEF TodoInv, Others
  <2>3. CASE ref[f] = 0 /\ f \in File
    <3>2. \A q \in Proc : ~Shows(q, f)'
      BY <2>3, <1>2, <1>3 DEF Takes
    <3>. QED BY <3>2, <2>3, <1>2, ShowingShowsNext DEF Others
  <2>. QED BY <2>1, <2>2, <2>3
<1>4. ASSUME NEW q \in Proc \ {p}, NEW f \in ToSet(call'[q].todo)
      PROVE  Showing(f)' = {} /\ \A r \in Proc \ {q} : f \notin ToSet(call'[r].todo)
  <2>1. f \in ToSet(call[q].todo) /\ f \in File
    BY <1>1, <1>4 DEF Others
  <2>2. /\ \A r \in Proc : ~Shows(r, f)
        /\ \A r \in Proc \ {q} : f \notin ToSet(call[r].todo)
        /\ ref[f] # 0
    BY <2>1, <1>2, ShowingShows DEF TodoInv
  <2>3. \A r \in Proc : ~Shows(r, f)'
    BY <2>1, <2>2 DEF Takes
  <2>4. f \notin ToSet(call'[p].todo)
    BY <2>1, <2>2 DEF Takes
  <2>. QED BY <2>1, <2>2, <2>3, <2>4, ShowingShowsNext DEF Others
<1>. QED BY <1>3, <1>4 DEF TodoInv

Finding(c, i) == c.name \in {"open", "chdir"} /\ c.ip = i
Quiet(p) ==
    /\ UNCHANGED <<ref, iref, ends, ofile, cwd, alive>> /\ Others(p) /\ \A f \in File : Kept(f)
    /\ call'[p].todo = call[p].todo /\ call'[p].ff = call[p].ff
    /\ step[p] \notin {"dup", "opened"} /\ step'[p] \notin {"dup", "opened"}
    /\ \A i \in Inum : Finding(call'[p], i) <=> Finding(call[p], i)
    /\ call[p].np # Nobody => call'[p].np = call[p].np
    /\ call'[p].np \in Proc => \A q \in Proc \ {p} : call[q].np # call'[p].np
    /\ call'[p].np \in Proc \cup {Nobody}

LEMMA QuietStep ==
  ASSUME FilesInv, NEW p \in alive, Quiet(p)
  PROVE  (\A q \in Proc \ {p} : Calling(q)') /\ ShownInv' /\ TodoInv' /\ EndsInv' /\ CountsInv'
<1>. p \in Proc /\ alive \subseteq Proc /\ FileTypes /\ CallsInv /\ ShownInv /\ EndsInv /\ CountsInv
  BY DEF FilesInv, FileTypes
<1>1. Takes(p)
  <2>1. \A q, f : Shows(q, f)' <=> Shows(q, f)
    BY DEF Quiet, Shows
  <2>2. \A f \in File : Untyped(f)' <=> Untyped(f)
    BY DEF Quiet, Kept, Untyped
  <2>. QED BY <2>1, <2>2 DEF Takes, Quiet
<1>2. (\A q \in Proc \ {p} : Calling(q)') /\ TodoInv'
  BY <1>1, OthersCalling, TodoStep DEF Quiet
<1>3. ShownInv'
  <2>1. ASSUME NEW q \in Proc, NEW i \in Fd, ofile[q][i] # NoFile, Untyped(ofile[q][i])'
        PROVE  step'[q] = "opened" /\ call'[q].f = ofile[q][i]
    <3>1. PICK f \in File : f = ofile[q][i]
      BY <2>1 DEF FileTypes
    <3>2. Untyped(f)
      BY <2>1, <3>1 DEF Quiet, Kept, Untyped
    <3>3. step[q] = "opened" /\ call[q].f = f
      BY <2>1, <3>1, <3>2 DEF ShownInv, ReadyInv, HandedInv
    <3>4. q # p
      BY <3>3 DEF Quiet
    <3>. QED BY <3>1, <3>3, <3>4 DEF Quiet, Others
  <2>2. ASSUME NEW q \in Proc \ alive, Descs(q) # {} PROVE \E r \in alive : call'[r].np = q
    <3>1. PICK r \in alive : call[r].np = q
      BY <2>2 DEF ShownInv, ReadyInv, HandedInv
    <3>2. call[r].np # Nobody
      BY <3>1, FileConsts
    <3>. QED BY <3>1, <3>2 DEF Quiet, Others
  <2>3. ASSUME NEW q \in Proc, NEW r \in Proc, q # r, call'[q].np # Nobody PROVE call'[q].np # call'[r].np
    <3>1. \A s \in Proc : call[s].np \in Proc \cup {Nobody} /\ call'[s].np \in Proc \cup {Nobody}
      BY DEF FileTypes, CallRec, Quiet, Others
    <3>. QED BY <2>3, <3>1, FileConsts DEF Quiet, Others, ShownInv, ReadyInv, HandedInv
  <2>4. /\ \A q \in Proc, i \in Fd : (ofile[q][i] # NoFile /\ Untyped(ofile[q][i]) =>
                                       step[q] = "opened" /\ call[q].f = ofile[q][i])'
        /\ \A q \in Proc : (Descs(q) = {})' <=> Descs(q) = {}
    BY <2>1 DEF Quiet, Untyped, Descs
  <2>. QED BY <2>2, <2>3, <2>4 DEF ShownInv, ReadyInv, HandedInv, Quiet
<1>4. EndsInv'
  <2>1. \A q \in Proc : call'[q].ff = call[q].ff
    BY DEF Quiet, Others
  <2>2. \A f \in File : FieldsOK(file'[f]) /\ (ref'[f] = 0 => file'[f].type = "NONE")
    BY DEF EndsInv, FieldsOK, Quiet, Kept, Untyped
  <2>3. \A f \in File : \A r : (SameEnd(file'[f], r) <=> SameEnd(file[f], r)) /\ (SameEnd(r, file'[f]) <=> SameEnd(r, file[f]))
    BY DEF SameEnd, Quiet, Kept
  <2>4. \A q \in Proc : FieldsOK(call'[q].ff)
    BY <2>1 DEF EndsInv
  <2>5. \A f, g \in File : f # g => ~SameEnd(file'[f], file'[g])
    BY <2>3 DEF EndsInv
  <2>6. \A f \in File, q \in Proc : ~SameEnd(file'[f], call'[q].ff)
    BY <2>1, <2>3 DEF EndsInv
  <2>7. \A q, r \in Proc : q # r => ~SameEnd(call'[q].ff, call'[r].ff)
    BY <2>1 DEF EndsInv
  <2>. QED BY <2>2, <2>4, <2>5, <2>6, <2>7 DEF EndsInv, Untyped
<1>5. CountsInv'
  <2>1. ASSUME NEW f \in File PROVE FileCount(f)'
    <3>1. Showing(f)' = Showing(f) /\ Dups(f)' = Dups(f) /\ Closings(f)' = Closings(f)
      BY DEF Quiet, Others, Showing, Dups, Closings
    <3>. QED BY <3>1 DEF FileCount, CountsInv, Quiet
  <2>2. ASSUME NEW i \in Inum PROVE InodeCount(i)'
    <3>1. Dwellers(i)' = Dwellers(i) /\ Finders(i)' = Finders(i) /\ Dropping("INODE", i)' = Dropping("INODE", i)
      BY DEF Quiet, Others, Dwellers, Finders, Dropping, Finding
    <3>2. Opens("INODE", i)' = Opens("INODE", i)
      BY OpensSame DEF Quiet, Kept
    <3>. QED BY <3>1, <3>2 DEF InodeCount, CountsInv, Quiet
  <2>3. ASSUME NEW g \in PipePage PROVE PipeEnds(g)'
    <3>1. \A q \in alive : call'[q].ff = call[q].ff
      BY DEF Quiet, Others
    <3>2. PipeEnds(g)
      BY DEF CountsInv
    <3>. QED BY <3>1, <3>2 DEF PipeEnds, Quiet, Kept
  <2>. QED BY <2>1, <2>2, <2>3 DEF CountsInv
<1>. QED BY <1>2, <1>3, <1>4, <1>5
-----------------------------------------------------------------------------
(* The steps that change no count                                              *)

LEMMA QuietSafe ==
  ASSUME FilesInv, NEW p \in alive, Quiet(p), FileTypes', Calling(p)', died' = FALSE
  PROVE  FilesInv'
<1>1. /\ \A q \in Proc \ {p} : Calling(q)'
      /\ ShownInv' /\ TodoInv' /\ EndsInv' /\ CountsInv'
  BY QuietStep
<1>2. CallsInv'
  BY <1>1 DEF CallsInv
<1>. QED BY <1>1, <1>2 DEF FilesInv

LEMMA NoCallFacts ==
  /\ NoneFile \in FileRec /\ NoneFile.type = "NONE" /\ NoneFile.obj = NoInum
  /\ NoneFile.mode = {} /\ NoneFile.off = 0
  /\ NoCall \in CallRec /\ NoCall.name = "none" /\ NoCall.f = NoFile /\ NoCall.ip = NoInum
  /\ NoCall.n = 0 /\ NoCall.buf = <<>> /\ NoCall.mode = {} /\ NoCall.todo = <<>>
  /\ NoCall.ff = NoneFile /\ NoCall.np = Nobody /\ NoCall = [NoCall EXCEPT !.buf = NoCall.buf]
<1>1. NoneFile \in FileRec
  BY DEF NoneFile, FileRec
<1>2. <<>> \in TodoLists /\ <<>> \in Seq(Proc)
  BY DEF TodoLists
<1>. QED BY <1>1, <1>2 DEF NoneFile, NoCall, CallRec

LEMMA SetsEmpty == ToSet(<<>>) = {}
BY DEF ToSet

LEMMA MinTwo ==
  ASSUME NEW x \in Int, NEW y \in Int
  PROVE  Min({x, y}) \in {x, y} /\ Min({x, y}) <= x /\ Min({x, y}) <= y
<1>1. \E z \in {x, y} : \A v \in {x, y} : z <= v
  <2>1. x <= y \/ y <= x
    OBVIOUS
  <2>. QED BY <2>1
<1>. QED BY <1>1 DEF Min

LEMMA MinFacts ==
  ASSUME NEW S \in SUBSET Nat, S # {}
  PROVE  Min(S) \in S /\ \A x \in S : Min(S) <= x
<1>. DEFINE R == OpToRel(<, Nat)
<1>1. \E x \in S : \A y \in S : ~(<<y, x>> \in R)
  BY NatLessThanWellFounded, WFMin
<1>2. \A x, y \in Nat : <<y, x>> \in R <=> y < x
  BY DEF OpToRel
<1>. HIDE DEF R
<1>3. PICK x \in S : \A y \in S : ~(<<y, x>> \in R)
  BY <1>1
<1>4. ASSUME NEW y \in S PROVE x <= y
  <2>1. x \in Nat /\ y \in Nat
    OBVIOUS
  <2>2. ~(y < x)
    BY <2>1, <1>2, <1>3, Zenon
  <2>. QED BY <2>1, <2>2
<1>. QED BY <1>4 DEF Min

(* What a move of p makes of step and call.                                    *)
LEMMA Moved ==
  ASSUME FileTypes, NEW p \in alive, NEW s, NEW c, Starts(p, s, c), UNCHANGED cwd
  PROVE  /\ p \in Proc /\ step'[p] = s /\ call'[p] = c /\ Others(p)
         /\ s \in Places => step' \in [Proc -> Places]
         /\ c \in CallRec => call' \in [Proc -> CallRec]
BY DEF FileTypes, Starts, Goes, Keeps, Others

LEMMA StayedAt ==
  ASSUME FileTypes, NEW p \in alive
  PROVE  /\ \A s : Goes(p, s) /\ UNCHANGED call => Starts(p, s, call[p])
         /\ \A c : Keeps(p, c) /\ UNCHANGED step => Starts(p, step[p], c)
         /\ p \in Proc /\ call[p] \in CallRec /\ call[p].ff \in FileRec
BY DEF FileTypes, Starts, Goes, Keeps, CallRec

LEMMA KeptAll ==
  ASSUME UNCHANGED file
  PROVE  \A f \in File : Kept(f)
BY DEF Kept

LEMMA IlockSafe ==
  ASSUME FilesInv, NEW p \in Proc, Ilock(p)
  PROVE  FilesInv'
<1>1. FileTypes /\ Calling(p) /\ p \in alive /\ step[p] = "ilock" /\ UNCHANGED <<counts, tables, data, call, died>>
      /\ Starts(p, call[p].name, call[p]) /\ ilock' = [ilock EXCEPT ![call[p].ip] = p]
  BY StayedAt DEF FilesInv, CallsInv, Ilock, In
<1>2. call[p].name \in {"open", "chdir", "read", "write"}
  BY <1>1 DEF Calling
<1>3. /\ step'[p] = call[p].name /\ call'[p] = call[p] /\ Others(p) /\ call[p] \in CallRec
      /\ step' \in [Proc -> Places]
      /\ call' \in [Proc -> CallRec]
  BY <1>1, <1>2, Moved, StayedAt DEF tables, Places
<1>4. FileTypes'
  BY <1>1, <1>3 DEF FileTypes, counts, tables
<1>5. Calling(p)'
  BY <1>1, <1>2, <1>3 DEF Calling, counts, tables, Untyped, Shows
<1>6. call[p].np = Nobody
  BY <1>1 DEF Calling
<1>7. Quiet(p)
  BY <1>1, <1>2, <1>3, <1>6, KeptAll, FileConsts DEF Quiet, counts, tables
<1>. QED BY <1>1, <1>4, <1>5, <1>7, QuietSafe DEF FilesInv

(* The same for a step that ends in s with c.                                  *)
LEMMA QuietMove ==
  ASSUME FilesInv, NEW p \in alive, NEW s, NEW c, Starts(p, s, c),
         step[p] \notin {"dup", "opened"}, s \in Places \ {"dup", "opened"}, c \in CallRec,
         UNCHANGED <<ref, iref, ends, ofile, cwd, alive>>, \A f \in File : Kept(f),
         file' \in [File -> FileRec], ilock' \in [Inum -> Proc \cup {Nobody}], data' \in [Inum -> Seq(Proc)],
         c.todo = call[p].todo, c.ff = call[p].ff,
         \A i \in Inum : Finding(c, i) <=> Finding(call[p], i),
         c.np = call[p].np \/ (call[p].np = Nobody /\ \A q \in Proc : c.np # Nobody => call[q].np # c.np),
         Calling(p)', died' = FALSE
  PROVE  FilesInv'
<1>1. FileTypes /\ ShownInv /\ p \in Proc /\ call[p].np \in Proc \cup {Nobody} /\ c.np \in Proc \cup {Nobody}
  BY DEF FilesInv, FileTypes, CallRec
<1>2. /\ step'[p] = s /\ call'[p] = c /\ Others(p)
      /\ step' \in [Proc -> Places] /\ call' \in [Proc -> CallRec]
  BY <1>1, Moved
<1>3. FileTypes'
  BY <1>1, <1>2 DEF FileTypes
<1>4. c.np \in Proc => \A q \in Proc \ {p} : call[q].np # c.np
  BY <1>1, FileConsts DEF ShownInv, ReadyInv, HandedInv
<1>5. Quiet(p)
  BY <1>1, <1>2, <1>4 DEF Quiet
<1>. QED BY <1>3, <1>5, QuietSafe

LEMMA Standing ==
  ASSUME FilesInv, NEW p \in alive
  PROVE  /\ FileTypes /\ Calling(p) /\ p \in Proc /\ call[p] \in CallRec /\ step[p] \in Places /\ died = FALSE
         /\ \A s : Goes(p, s) /\ UNCHANGED call => Starts(p, s, call[p])
         /\ \A c : Keeps(p, c) /\ UNCHANGED step => Starts(p, step[p], c)
BY StayedAt DEF FilesInv, CallsInv, FileTypes

LEMMA AnswerSafe ==
  ASSUME FilesInv, NEW p \in Proc, Answer(p)
  PROVE  FilesInv'
<1>1. p \in alive /\ step[p] = "answer" /\ Starts(p, "user", NoCall) /\ UNCHANGED <<counts, tables, ilock, data, died>>
  BY DEF Answer, In, Returns
<1>2. call[p] = [NoCall EXCEPT !.buf = call[p].buf]
  BY <1>1, Standing DEF Calling
<1>3. call[p].todo = <<>> /\ call[p].ff = NoneFile /\ call[p].np = Nobody /\ call[p].name = "none"
  BY <1>2 DEF NoCall
<1>4. Calling(p)'
  <2>1. step'[p] = "user" /\ call'[p] = NoCall /\ p \in alive' /\ cwd'[p] = cwd[p]
    BY <1>1, Standing, Moved DEF tables
  <2>. QED BY <2>1, <1>1, Standing, NoCallFacts DEF Calling
<1>5. \A i \in Inum : Finding(NoCall, i) <=> Finding(call[p], i)
  BY <1>3, NoCallFacts DEF Finding
<1>. QED BY <1>1, <1>3, <1>4, <1>5, Standing, QuietMove, KeptAll, NoCallFacts
     DEF counts, tables, FileTypes, Places

LEMMA PipeNoPageSafe ==
  ASSUME FilesInv, NEW p \in Proc, PipeNoPage(p)
  PROVE  FilesInv'
<1>1. p \in alive /\ step[p] = "pipe" /\ Starts(p, "close", call[p]) /\ UNCHANGED <<counts, tables, ilock, data, died>>
  BY StayedAt DEF PipeNoPage, In, FilesInv
<1>2. Calling(p)'
  <2>1. step'[p] = "close" /\ call'[p] = call[p] /\ p \in alive' /\ cwd'[p] = cwd[p]
    BY <1>1, Standing, Moved DEF tables
  <2>. QED BY <2>1, <1>1, Standing DEF Calling
<1>. QED BY <1>1, <1>2, Standing, QuietMove, KeptAll DEF counts, tables, FileTypes, Places

LEMMA PipeSafe ==
  ASSUME FilesInv, NEW p \in Proc, Pipe(p)
  PROVE  FilesInv'
<1>. DEFINE c == [NoCall EXCEPT !.name = "pipe"]
<1>1. p \in alive /\ step[p] = "user" /\ Starts(p, "pipe", c) /\ UNCHANGED <<counts, tables, ilock, data, died>>
  BY DEF Pipe, In, May
<1>2. /\ call[p].todo = <<>> /\ call[p].ff = NoneFile /\ call[p].np = Nobody /\ call[p].name = "none"
      /\ c \in CallRec /\ c.todo = <<>> /\ c.ff = NoneFile /\ c.np = Nobody /\ c.name = "pipe"
  <2>1. call[p] = [NoCall EXCEPT !.buf = call[p].buf]
    BY <1>1, Standing DEF Calling
  <2>2. c \in CallRec
    BY NoCallFacts DEF CallRec
  <2>. QED BY <2>1, <2>2 DEF NoCall
<1>. HIDE DEF c
<1>3. Calling(p)'
  <2>1. step'[p] = "pipe" /\ call'[p] = c /\ p \in alive' /\ cwd'[p] = cwd[p]
    BY <1>1, <1>2, Standing, Moved DEF tables
  <2>. QED BY <2>1, <1>1, <1>2, Standing, SetsEmpty, NoCallFacts DEF Calling
<1>4. \A i \in Inum : Finding(c, i) <=> Finding(call[p], i)
  BY <1>2 DEF Finding
<1>. QED BY <1>1, <1>2, <1>3, <1>4, Standing, QuietMove, KeptAll, NoCallFacts
     DEF counts, tables, FileTypes, Places

(* A process in user mode is in no call.                                       *)
LEMMA UserFacts ==
  ASSUME FilesInv, NEW p \in alive, step[p] = "user"
  PROVE  /\ call[p].todo = <<>> /\ call[p].ff = NoneFile /\ call[p].np = Nobody /\ call[p].name = "none"
         /\ \A c : c.name \notin {"open", "chdir"} => \A i \in Inum : Finding(c, i) <=> Finding(call[p], i)
<1>1. call[p] = [NoCall EXCEPT !.buf = call[p].buf]
  BY Standing DEF Calling
<1>2. call[p].todo = <<>> /\ call[p].ff = NoneFile /\ call[p].np = Nobody /\ call[p].name = "none"
  BY <1>1 DEF NoCall
<1>. QED BY <1>2 DEF Finding

LEMMA ForkSafe ==
  ASSUME FilesInv, NEW p \in Proc, Fork(p)
  PROVE  FilesInv'
<1>. PICK q \in Unborn : Starts(p, "fork", [NoCall EXCEPT !.np = q])
  BY DEF Fork
<1>. DEFINE c == [NoCall EXCEPT !.np = q]
<1>1. p \in alive /\ step[p] = "user" /\ Starts(p, "fork", c) /\ UNCHANGED <<counts, tables, ilock, data, died>>
  BY DEF Fork, In
<1>2. /\ c \in CallRec /\ c.todo = <<>> /\ c.ff = NoneFile /\ c.np = q /\ c.name = "none"
      /\ c = [NoCall EXCEPT !.np = c.np]
      /\ q \in Proc \ alive /\ \A r \in alive : call[r].np # q
  <2>1. q \in Proc \ alive /\ \A r \in alive : call[r].np # q
    BY DEF Unborn
  <2>2. c \in CallRec
    BY <2>1, NoCallFacts DEF CallRec
  <2>. QED BY <2>1, <2>2 DEF NoCall
<1>. HIDE DEF c
<1>3. Calling(p)'
  <2>1. step'[p] = "fork" /\ call'[p] = c /\ p \in alive' /\ cwd'[p] = cwd[p] /\ alive' = alive
    BY <1>1, <1>2, Standing, Moved DEF tables
  <2>. QED BY <2>1, <1>1, <1>2, Standing, NoCallFacts DEF Calling
<1>4. \A r \in Proc : call[r].np # q
  <2>1. \A r \in Proc \ alive : call[r].np = Nobody
    BY DEF FilesInv, CallsInv, Calling, NoCall
  <2>. QED BY <2>1, <1>2, FileConsts
<1>5. call[p].np = Nobody /\ \A r \in Proc : c.np # Nobody => call[r].np # c.np
  BY <1>1, <1>2, <1>4, UserFacts
<1>. QED BY <1>1, <1>2, <1>3, <1>5, Standing, UserFacts, QuietMove, KeptAll, ZenonT(60)
     DEF counts, tables, FileTypes, Places

LEMMA ExitCallSafe ==
  ASSUME FilesInv, NEW p \in Proc, ExitCall(p)
  PROVE  FilesInv'
<1>. DEFINE c == [NoCall EXCEPT !.name = "exit"]
<1>1. p \in alive /\ step[p] = "user" /\ Starts(p, "close", c) /\ UNCHANGED <<counts, tables, ilock, data, died>>
  BY DEF ExitCall, In
<1>2. c \in CallRec /\ c.todo = <<>> /\ c.ff = NoneFile /\ c.np = Nobody /\ c.name = "exit"
  <2>2. c \in CallRec
    BY NoCallFacts DEF CallRec
  <2>. QED BY <2>2 DEF NoCall
<1>. HIDE DEF c
<1>3. Calling(p)'
  <2>1. step'[p] = "close" /\ call'[p] = c /\ p \in alive' /\ cwd'[p] = cwd[p] /\ alive' = alive
    BY <1>1, <1>2, Standing, Moved DEF tables
  <2>. QED BY <2>1, <1>1, <1>2, Standing, NoCallFacts DEF Calling
<1>. QED BY <1>1, <1>2, <1>3, Standing, UserFacts, QuietMove, KeptAll, ZenonT(60)
     DEF counts, tables, FileTypes, Places

(* fileread's panic is out of reach: a process in user mode shows no file whose *)
(* fields are not set.                                                         *)
LEMMA TransferSafe ==
  ASSUME FilesInv, NEW p \in Proc, Transfer(p)
  PROVE  FilesInv'
<1>1. PICK dsc \in Descs(p), name \in {"read", "write"}, n \in Counts :
         /\ May(p, name)
         /\ file[ofile[p][dsc]].type # "PIPE"
         /\ IF file[ofile[p][dsc]].type = "NONE" THEN died' = TRUE /\ UNCHANGED <<step, call>> ELSE
            /\ Starts(p, "ilock", [NoCall EXCEPT !.name = name, !.f = ofile[p][dsc], !.n = n, !.ip = file[ofile[p][dsc]].obj])
            /\ UNCHANGED died
  BY DEF Transfer
<1>2. PICK f \in File : f = ofile[p][dsc]
  BY DEF Descs, FilesInv, FileTypes
<1>3. p \in alive /\ step[p] = "user" /\ FileTypes /\ ShownInv /\ EndsInv /\ UNCHANGED <<counts, tables, ilock, data>>
  BY <1>1 DEF May, In, FilesInv, Transfer
<1>4. file[f].type # "NONE"
  <2>1. Untyped(f) => step[p] = "opened"
    BY <1>2, <1>3 DEF ShownInv, ReadyInv, HandedInv, Descs
  <2>. QED BY <2>1, <1>3 DEF Untyped
<1>5. file[f].obj \in Inum
  BY <1>1, <1>2, <1>3, <1>4 DEF EndsInv, FieldsOK, FileTypes, FileRec
<1>. DEFINE c == [NoCall EXCEPT !.name = name, !.f = f, !.n = n, !.ip = file[f].obj]
<1>6. Starts(p, "ilock", c) /\ UNCHANGED died
  BY <1>1, <1>2, <1>4
<1>7. /\ c \in CallRec /\ c.todo = <<>> /\ c.ff = NoneFile /\ c.np = Nobody /\ c.name = name
      /\ c.f = f /\ c.ip \in Inum
  <2>1. n \in Nat
    BY FileConsts
  <2>2. c \in CallRec
    BY <2>1, <1>5, NoCallFacts DEF CallRec
  <2>. QED BY <2>2, <1>5 DEF NoCall
<1>. HIDE DEF c
<1>8. Calling(p)'
  <2>1. step'[p] = "ilock" /\ call'[p] = c /\ p \in alive' /\ cwd'[p] = cwd[p] /\ alive' = alive
    BY <1>3, <1>6, <1>7, Standing, Moved DEF tables
  <2>. QED BY <2>1, <1>3, <1>7, Standing, NoCallFacts DEF Calling
<1>9. /\ call[p].todo = <<>> /\ call[p].ff = NoneFile /\ call[p].np = Nobody
      /\ \A i \in Inum : Finding(c, i) <=> Finding(call[p], i)
  BY <1>3, <1>7, UserFacts
<1>. QED BY <1>3, <1>6, <1>7, <1>8, <1>9, Standing, QuietMove, KeptAll
     DEF counts, tables, FileTypes, Places

LEMMA GoalFacts ==
  ASSUME FilesInv, NEW p \in alive, step[p] \in {"read", "write"}
  PROVE  /\ call[p].f \in File /\ call[p].ip \in Inum /\ call[p].name = step[p]
         /\ Off(p) \in Nat /\ Goal(p) \in Int /\ call[p].buf \in Seq(Proc) /\ data[call[p].ip] \in Seq(Proc)
         /\ step[p] = "read" => Off(p) + Goal(p) <= Len(data[call[p].ip])
         /\ call[p].np = Nobody /\ call[p].todo = <<>> /\ call[p].ff = NoneFile
         /\ Len(call[p].buf) \in Nat
<1>1. /\ call[p].f \in File /\ call[p].ip \in Inum /\ call[p].name = step[p] /\ call[p].np = Nobody
      /\ call[p].todo = <<>> /\ call[p].ff = NoneFile
  BY Standing DEF Calling
<1>2. /\ Off(p) \in Nat /\ call[p].buf \in Seq(Proc) /\ data[call[p].ip] \in Seq(Proc) /\ call[p].n \in Nat
  BY <1>1, Standing DEF Off, FileTypes, FileRec, CallRec
<1>. DEFINE rest == (IF call[p].name = "read" THEN Len(data[call[p].ip]) ELSE MaxSize) - Off(p)
<1>3. rest \in Int /\ Goal(p) = Min({call[p].n, rest})
  BY <1>2, FileConsts, SMTT(30) DEF Goal
<1>4. call[p].name = "read" => rest = Len(data[call[p].ip]) - Off(p)
  OBVIOUS
<1>. HIDE DEF rest
<1>5. Goal(p) \in Int /\ Goal(p) <= rest
  <2>1. call[p].n \in Int
    BY <1>2
  <2>2. Min({call[p].n, rest}) \in {call[p].n, rest} /\ Min({call[p].n, rest}) <= rest
    BY <2>1, <1>3, MinTwo
  <2>. QED BY <2>1, <2>2, <1>3
<1>. QED BY <1>1, <1>2, <1>3, <1>4, <1>5

LEMMA ReadBlockSafe ==
  ASSUME FilesInv, NEW p \in Proc, ReadBlock(p)
  PROVE  FilesInv'
<1>. DEFINE b == Append(call[p].buf, data[call[p].ip][Next1(p)])
            c == [call[p] EXCEPT !.buf = b]
<1>1. /\ p \in alive /\ step[p] = "read" /\ Starts(p, "read", c) /\ Len(call[p].buf) < Goal(p)
      /\ UNCHANGED <<counts, tables, ilock, data, died>>
  BY Standing DEF ReadBlock, In
<1>2. b \in Seq(Proc)
  <2>1. Next1(p) \in 1 .. Len(data[call[p].ip])
    <3>1. /\ Off(p) \in Nat /\ Goal(p) \in Int /\ call[p].buf \in Seq(Proc) /\ data[call[p].ip] \in Seq(Proc)
          /\ Off(p) + Goal(p) <= Len(data[call[p].ip])
      BY <1>1, GoalFacts
    <3>2. Len(call[p].buf) \in Nat /\ Len(data[call[p].ip]) \in Nat /\ Len(call[p].buf) < Goal(p)
      BY <3>1, <1>1, LenProperties
    <3>3. Off(p) + Len(call[p].buf) + 1 \in 1 .. Len(data[call[p].ip])
      <4>1. \A off, len, room \in Nat, aim \in Int :
               len < aim /\ off + aim <= room => off + len + 1 \in 1 .. room
        OBVIOUS
      <4>. QED BY <3>1, <3>2, <4>1
    <3>. QED BY <3>3 DEF Next1
  <2>2. data[call[p].ip][Next1(p)] \in Proc
    BY <2>1, <1>1, GoalFacts
  <2>. QED BY <2>2, <1>1, GoalFacts
<1>. HIDE DEF b
<1>3. /\ c \in CallRec /\ c.todo = call[p].todo /\ c.ff = call[p].ff /\ c.np = call[p].np /\ c.name = call[p].name
      /\ c.f = call[p].f /\ c.ip = call[p].ip
  BY <1>1, <1>2, Standing DEF CallRec
<1>. HIDE DEF c
<1>4. Calling(p)'
  <2>1. step'[p] = "read" /\ call'[p] = c /\ p \in alive' /\ cwd'[p] = cwd[p] /\ alive' = alive
    BY <1>1, <1>3, Standing, Moved, ZenonT(60) DEF tables
  <2>. QED BY <2>1, <1>1, <1>3, Standing, GoalFacts DEF Calling
<1>5. \A i \in Inum : Finding(c, i) <=> Finding(call[p], i)
  BY <1>3 DEF Finding
<1>. QED BY <1>1, <1>3, <1>4, <1>5, Standing, QuietMove, KeptAll DEF counts, tables, FileTypes, Places

LEMMA PutType ==
  ASSUME NEW S, NEW c \in Seq(S), NEW k \in Nat \ {0}, NEW e \in S
  PROVE  (IF k > Len(c) THEN Append(c, e) ELSE [c EXCEPT ![k] = e]) \in Seq(S)
<1>1. Append(c, e) \in Seq(S)
  OBVIOUS
<1>2. k <= Len(c) => [c EXCEPT ![k] = e] \in Seq(S)
  BY ExceptSeq
<1>. QED BY <1>1, <1>2

LEMMA WriteBlockSafe ==
  ASSUME FilesInv, NEW p \in Proc, WriteBlock(p)
  PROVE  FilesInv'
<1>. DEFINE b == Append(call[p].buf, p)
            c == [call[p] EXCEPT !.buf = b]
<1>1. /\ p \in alive /\ step[p] = "write" /\ Starts(p, "write", c)
      /\ data' = [data EXCEPT ![call[p].ip] = Put(@, Next1(p), p)]
      /\ UNCHANGED <<counts, tables, ilock, died>>
  BY Standing DEF WriteBlock, In
<1>2. b \in Seq(Proc)
  BY <1>1, GoalFacts
<1>. HIDE DEF b
<1>3. /\ c \in CallRec /\ c.todo = call[p].todo /\ c.ff = call[p].ff /\ c.np = call[p].np /\ c.name = call[p].name
      /\ c.f = call[p].f /\ c.ip = call[p].ip
  BY <1>1, <1>2, Standing DEF CallRec
<1>. HIDE DEF c
<1>4. data' \in [Inum -> Seq(Proc)]
  <2>1. Next1(p) \in Nat \ {0}
    BY <1>1, GoalFacts, SMTT(30) DEF Next1
  <2>2. Put(data[call[p].ip], Next1(p), p) \in Seq(Proc)
    BY <2>1, <1>1, GoalFacts, PutType DEF Put
  <2>. QED BY <2>2, <1>1, Standing DEF FileTypes
<1>5. Calling(p)'
  <2>1. step'[p] = "write" /\ call'[p] = c /\ p \in alive' /\ cwd'[p] = cwd[p] /\ alive' = alive
    BY <1>1, <1>3, Standing, Moved, ZenonT(60) DEF tables
  <2>. QED BY <2>1, <1>1, <1>3, Standing, GoalFacts DEF Calling
<1>6. \A i \in Inum : Finding(c, i) <=> Finding(call[p], i)
  BY <1>3 DEF Finding
<1>. QED BY <1>1, <1>3, <1>4, <1>5, <1>6, Standing, QuietMove, KeptAll DEF counts, tables, FileTypes, Places

LEMMA TransferredSafe ==
  ASSUME FilesInv, NEW p \in Proc, Transferred(p)
  PROVE  FilesInv'
<1>. DEFINE b == IF call[p].name = "read" THEN call[p].buf ELSE <<>>
            c == [NoCall EXCEPT !.buf = b]
<1>1. /\ p \in alive /\ step[p] \in {"read", "write"} /\ Starts(p, "answer", c)
      /\ file' = [file EXCEPT ![call[p].f].off = @ + Len(call[p].buf)]
      /\ ilock' = [ilock EXCEPT ![call[p].ip] = Nobody]
      /\ UNCHANGED <<ref, iref, ends, tables, data, died>>
  BY Standing DEF Transferred, In
<1>2. b \in Seq(Proc)
  BY <1>1, GoalFacts
<1>. HIDE DEF b
<1>3. /\ c \in CallRec /\ c.todo = <<>> /\ c.ff = NoneFile /\ c.np = Nobody /\ c.name = "none"
      /\ c = [NoCall EXCEPT !.buf = c.buf]
  <2>1. c \in CallRec
    BY <1>2, NoCallFacts DEF CallRec
  <2>. QED BY <2>1 DEF NoCall
<1>. HIDE DEF c
<1>4. file' \in [File -> FileRec] /\ \A f \in File : Kept(f)
  <2>1. call[p].f \in File /\ call[p].buf \in Seq(Proc) /\ file \in [File -> FileRec]
    BY <1>1, GoalFacts, Standing DEF FileTypes
  <2>2. Len(call[p].buf) \in Nat
    BY <2>1
  <2>. QED BY <2>1, <2>2, <1>1, SMTT(30) DEF FileRec, Kept
<1>5. Calling(p)'
  <2>1. step'[p] = "answer" /\ call'[p] = c /\ p \in alive' /\ cwd'[p] = cwd[p] /\ alive' = alive
    BY <1>1, <1>3, Standing, Moved DEF tables, Places
  <2>. QED BY <2>1, <1>1, <1>3, Standing, NoCallFacts DEF Calling
<1>6. (\A i \in Inum : Finding(c, i) <=> Finding(call[p], i)) /\ call[p].ff = c.ff
  <2>1. call[p].name \in {"read", "write"}
    BY <1>1, GoalFacts
  <2>. QED BY <2>1, <1>1, <1>3, GoalFacts DEF Finding
<1>. QED BY <1>1, <1>3, <1>4, <1>5, <1>6, Standing, GoalFacts, QuietMove DEF tables, FileTypes, Places
-----------------------------------------------------------------------------
(* The steps that change a count: the parts of the invariant they leave        *)

LEMMA LoudSafe ==
  ASSUME FilesInv, NEW p \in alive, alive' = alive, Others(p), Takes(p),
         \A q \in alive \ {p} : ofile'[q] = ofile[q],
         FileTypes', Calling(p)', ReadyInv', HandedInv', EndsInv', CountsInv', died' = FALSE
  PROVE  FilesInv'
<1>1. (\A q \in Proc \ {p} : Calling(q)') /\ TodoInv'
  BY OthersCalling, TodoStep
<1>2. CallsInv'
  BY <1>1 DEF CallsInv
<1>. QED BY <1>1, <1>2 DEF FilesInv, ShownInv

LEMMA HandedSteady ==
  ASSUME FilesInv, NEW p \in alive, alive' = alive, Others(p), call'[p].np = call[p].np,
         \A q \in Proc \ alive : ofile'[q] = ofile[q]
  PROVE  HandedInv'
<1>1. \A q \in Proc : call'[q].np = call[q].np
  BY DEF Others
<1>2. HandedInv /\ \A q \in Proc \ alive : Descs(q)' = Descs(q)
  BY DEF FilesInv, ShownInv, Descs
<1>3. \A q \in Proc \ alive : Descs(q)' # {} => \E r \in alive : call'[r].np = q
  BY <1>1, <1>2 DEF HandedInv, FilesInv, FileTypes
<1>. QED BY <1>1, <1>2, <1>3 DEF HandedInv

LEMMA ReadySteady ==
  ASSUME FilesInv, NEW p \in alive, Others(p), step[p] # "opened",
         \A q \in Proc, i \in Fd : ofile'[q][i] \in {ofile[q][i], NoFile} \/ file'[ofile'[q][i]].type # "NONE",
         \A f \in File : Untyped(f)' => Untyped(f) \/ \A q \in Proc : ~Shows(q, f)'
  PROVE  ReadyInv'
<1>1. SUFFICES ASSUME NEW q \in Proc, NEW i \in Fd, ofile'[q][i] # NoFile, file'[ofile'[q][i]].type = "NONE"
               PROVE  step'[q] = "opened" /\ call'[q].f = ofile'[q][i]
  BY DEF ReadyInv, Untyped
<1>2. ofile'[q][i] = ofile[q][i]
  BY <1>1 DEF Untyped
<1>3. PICK f \in File : f = ofile'[q][i] /\ f = ofile[q][i]
  BY <1>1, <1>2 DEF FilesInv, FileTypes
<1>4. Shows(q, f)'
  BY <1>3 DEF Shows
<1>5. Untyped(f)
  BY <1>1, <1>3, <1>4 DEF Untyped
<1>6. step[q] = "opened" /\ call[q].f = f
  BY <1>1, <1>3, <1>5 DEF FilesInv, ShownInv, ReadyInv
<1>. QED BY <1>3, <1>6 DEF Others

(* The ends of pipes, in a step of an inode or a count.                        *)
LEMMA EndsSteady ==
  ASSUME FilesInv, UNCHANGED ends,
         \A f \in File : Kept(f) \/ (Untyped(f) /\ file'[f].type = "INODE" /\ file'[f].obj \in Inum),
         \A f \in File : ~Untyped(f)' => ref'[f] > 0,
         \A q \in Proc : call'[q].ff = call[q].ff /\ (call[q].ff # NoneFile => (q \in alive' <=> q \in alive)),
         alive' \subseteq Proc, ref' \in [File -> Nat]
  PROVE  EndsInv' /\ \A g \in PipePage : PipeEnds(g)'
<1>1. FileTypes /\ EndsInv /\ CountsInv
  BY DEF FilesInv
<1>2. \A f \in File : file'[f].type = "PIPE" => Kept(f)
  BY DEF Kept
<1>3. EndsInv'
  <2>1. \A f \in File : FieldsOK(file'[f]) /\ (ref'[f] = 0 => file'[f].type = "NONE")
    BY <1>1 DEF EndsInv, FieldsOK, Kept, Untyped
  <2>2. \A f, g \in File : f # g => ~SameEnd(file'[f], file'[g])
    BY <1>1, <1>2 DEF EndsInv, SameEnd, Kept
  <2>3. \A f \in File, q \in Proc : ~SameEnd(file'[f], call'[q].ff)
    BY <1>1, <1>2 DEF EndsInv, SameEnd, Kept
  <2>4. \A q \in Proc : FieldsOK(call'[q].ff)
    BY <1>1 DEF EndsInv
  <2>5. \A q, r \in Proc : q # r => ~SameEnd(call'[q].ff, call'[r].ff)
    BY <1>1 DEF EndsInv
  <2>. QED BY <2>1, <2>2, <2>3, <2>4, <2>5 DEF EndsInv, Untyped
<1>4. ASSUME NEW g \in PipePage PROVE PipeEnds(g)'
  <2>1. PipeEnds(g)
    BY <1>1 DEF CountsInv
  <2>2. \A f \in File : file'[f].type = "PIPE" => ref'[f] > 0 /\ file[f].type = "PIPE" /\ file'[f].obj = file[f].obj /\ file'[f].mode = file[f].mode
    BY <1>2 DEF Kept, Untyped
  <2>3. \A f \in File : file[f].type = "PIPE" => file'[f].type = "PIPE" /\ ref[f] > 0
    BY <1>1 DEF Kept, Untyped, EndsInv, FileTypes
  <2>4. \A q \in Proc : call[q].ff.type = "PIPE" => (q \in alive' <=> q \in alive)
    BY NoCallFacts
  <2>5. alive \subseteq Proc
    BY <1>1 DEF FileTypes
  <2>. QED BY <2>1, <2>2, <2>3, <2>4, <2>5 DEF PipeEnds
<1>. QED BY <1>3, <1>4

LEMMA FileBalance ==
  ASSUME FilesInv, NEW p \in alive, alive' = alive, Others(p), NEW f \in File, NEW n \in Int,
         Cardinality(Showing(f)') = Cardinality(Showing(f)) + n,
         ref'[f] = ref[f] + n + Bit(p \in Closings(f)') - Bit(p \in Closings(f))
                             - Bit(p \in Dups(f)') + Bit(p \in Dups(f))
  PROVE  FileCount(f)'
<1>1. FileTypes /\ FileCount(f) /\ ref[f] \in Nat
  BY DEF FilesInv, CountsInv, FileTypes
<1>2. /\ Cardinality(Dups(f)') = Cardinality(Dups(f)) + Bit(p \in Dups(f)') - Bit(p \in Dups(f))
      /\ Cardinality(Closings(f)') = Cardinality(Closings(f)) + Bit(p \in Closings(f)') - Bit(p \in Closings(f))
      /\ Cardinality(Showing(f)) \in Nat /\ Cardinality(Dups(f)) \in Nat /\ Cardinality(Closings(f)) \in Nat
  BY <1>1, OwnSets, CardTypes
<1>3. ref'[f] + Cardinality(Dups(f)') = Cardinality(Showing(f)') + Cardinality(Closings(f)')
  BY <1>1, <1>2 DEF FileCount, Bit
<1>. QED BY <1>3 DEF FileCount

LEMMA InodeBalance ==
  ASSUME FilesInv, NEW p \in alive, alive' = alive, Others(p), NEW i \in Inum, NEW n \in Int,
         Cardinality(Opens("INODE", i)') = Cardinality(Opens("INODE", i)) + n,
         iref'[i] = iref[i] + n + Bit(p \in Dwellers(i)') - Bit(p \in Dwellers(i))
                    + Bit(p \in Finders(i)') - Bit(p \in Finders(i))
                    + Bit(p \in Dropping("INODE", i)') - Bit(p \in Dropping("INODE", i))
  PROVE  InodeCount(i)'
<1>1. FileTypes /\ InodeCount(i) /\ iref[i] \in Nat
  BY DEF FilesInv, CountsInv, FileTypes
<1>2. /\ Cardinality(Dwellers(i)') = Cardinality(Dwellers(i)) + Bit(p \in Dwellers(i)') - Bit(p \in Dwellers(i))
      /\ Cardinality(Finders(i)') = Cardinality(Finders(i)) + Bit(p \in Finders(i)') - Bit(p \in Finders(i))
      /\ Cardinality(Dropping("INODE", i)')
           = Cardinality(Dropping("INODE", i)) + Bit(p \in Dropping("INODE", i)') - Bit(p \in Dropping("INODE", i))
      /\ Cardinality(Dwellers(i)) \in Nat /\ Cardinality(Finders(i)) \in Nat
      /\ Cardinality(Dropping("INODE", i)) \in Nat /\ Cardinality(Opens("INODE", i)) \in Nat
  BY <1>1, OwnSets, CardTypes
<1>3. iref'[i] = Cardinality(Opens("INODE", i)') + Cardinality(Dwellers(i)')
                 + Cardinality(Finders(i)') + Cardinality(Dropping("INODE", i)')
  BY <1>1, <1>2 DEF InodeCount, Bit
<1>. QED BY <1>3 DEF InodeCount

LEMMA TakesSteady ==
  ASSUME NEW p, UNCHANGED ofile,
         \A f \in ToSet(call'[p].todo) : f \in ToSet(call[p].todo) \/ (f \in File /\ ref[f] = 0),
         \A f \in File : Untyped(f) => Untyped(f)' \/ Shows(p, f) \/ f \in ToSet(call[p].todo)
  PROVE  Takes(p)
<1>1. \A q, f : Shows(q, f)' <=> Shows(q, f)
  BY DEF Shows
<1>. QED BY <1>1 DEF Takes

LEMMA UntypedSame ==
  ASSUME UNCHANGED file
  PROVE  \A f : Untyped(f)' <=> Untyped(f)
BY DEF Untyped

LEMMA ShowingSame ==
  ASSUME FileTypes, UNCHANGED ofile
  PROVE  \A f \in File : /\ Showing(f)' = Showing(f) /\ Cardinality(Showing(f)) \in Nat
                         /\ Cardinality(Showing(f)') = Cardinality(Showing(f)) + 0
<1>1. \A f \in File : Cardinality(Showing(f)) \in Nat
  BY CardTypes
<1>2. \A f \in File : Showing(f)' = Showing(f)
  BY DEF Showing
<1>. QED BY <1>1, <1>2

LEMMA OpensZero ==
  ASSUME FileTypes, \A t, o : Opens(t, o)' = Opens(t, o)
  PROVE  \A i \in Inum : Cardinality(Opens("INODE", i)') = Cardinality(Opens("INODE", i)) + 0
<1>1. \A i \in Inum : Cardinality(Opens("INODE", i)) \in Nat
  BY CardTypes
<1>. QED BY <1>1

(* The steps that change references to inodes only.                            *)
Balanced(p, i) ==
    iref'[i] = iref[i] + 0 + Bit(p \in Dwellers(i)') - Bit(p \in Dwellers(i))
               + Bit(p \in Finders(i)') - Bit(p \in Finders(i))
               + Bit(p \in Dropping("INODE", i)') - Bit(p \in Dropping("INODE", i))
LEMMA InodeOnly ==
  ASSUME FilesInv, NEW p \in alive, UNCHANGED <<ref, file, ends, ofile, alive>>, Others(p),
         call'[p].todo = call[p].todo, call'[p].ff = call[p].ff, call'[p].np = call[p].np,
         step[p] \notin {"dup", "opened"}, step'[p] # "dup",
         FileTypes', Calling(p)', died' = FALSE,
         \A i \in Inum : Balanced(p, i)
  PROVE  FilesInv'
<1>1. FileTypes /\ p \in Proc /\ died = FALSE
  BY Standing
<1>2. Takes(p)
  BY TakesSteady, UntypedSame
<1>3. HandedInv' /\ ReadyInv'
  <2>1. HandedInv'
    BY HandedSteady
  <2>2. \A f \in File : Untyped(f)' => Untyped(f)
    BY UntypedSame
  <2>. QED BY <2>1, <2>2, ReadySteady
<1>4. EndsInv' /\ \A g \in PipePage : PipeEnds(g)'
  <2>1. \A q \in Proc : call'[q].ff = call[q].ff
    BY DEF Others
  <2>2. \A f \in File : ~Untyped(f)' => ref'[f] > 0
    BY UntypedSame DEF FilesInv, EndsInv, FileTypes
  <2>3. alive' \subseteq Proc /\ ref' \in [File -> Nat]
    BY <1>1 DEF FileTypes
  <2>. QED BY <2>1, <2>2, <2>3, KeptAll, EndsSteady
<1>5. ASSUME NEW f \in File PROVE FileCount(f)'
  <2>1. /\ (p \in Dups(f)') = FALSE /\ (p \in Dups(f)) = FALSE /\ (p \in Closings(f)') = (p \in Closings(f))
    BY DEF Dups, Closings
  <2>2. ref'[f] = ref[f] + 0 + Bit(p \in Closings(f)') - Bit(p \in Closings(f))
                  - Bit(p \in Dups(f)') + Bit(p \in Dups(f))
    BY <2>1, <1>1 DEF Bit, FileTypes
  <2>3. Cardinality(Showing(f)') = Cardinality(Showing(f)) + 0 /\ 0 \in Int
    BY <1>1, ShowingSame
  <2>. QED BY <2>2, <2>3, FileBalance
<1>6. ASSUME NEW i \in Inum PROVE InodeCount(i)'
  <2>1. Cardinality(Opens("INODE", i)') = Cardinality(Opens("INODE", i)) + 0
    BY <1>1, OpensSame, OpensZero
  <2>. QED BY <2>1, InodeBalance DEF Balanced
<1>7. CountsInv'
  BY <1>4, <1>5, <1>6 DEF CountsInv
<1>. QED BY <1>2, <1>3, <1>4, <1>7, LoudSafe

LEMMA NameiSafe ==
  ASSUME FilesInv, NEW p \in Proc, Namei(p)
  PROVE  FilesInv'
<1>1. PICK i \in Inum, name \in {"open", "chdir"} :
         /\ May(p, name)
         /\ \E m \in IF i = Root THEN {{"r"}} ELSE Modes :
              Starts(p, "ilock", [NoCall EXCEPT !.name = name, !.ip = i, !.mode = m])
         /\ iref' = [iref EXCEPT ![i] = @ + 1]
  BY DEF Namei
<1>2. PICK m \in IF i = Root THEN {{"r"}} ELSE Modes :
        Starts(p, "ilock", [NoCall EXCEPT !.name = name, !.ip = i, !.mode = m])
  BY <1>1
<1>. DEFINE c == [NoCall EXCEPT !.name = name, !.ip = i, !.mode = m]
<1>3. /\ p \in alive /\ step[p] = "user" /\ FileTypes /\ iref' = [iref EXCEPT ![i] = @ + 1] /\ Starts(p, "ilock", c)
      /\ UNCHANGED <<ref, file, ends, tables, ilock, data, died>> /\ died = FALSE
  BY <1>1, <1>2 DEF May, In, FilesInv, Namei
<1>4. /\ c \in CallRec /\ c.todo = <<>> /\ c.ff = NoneFile /\ c.np = Nobody /\ c.name = name /\ c.ip = i
  <2>1. m \in SUBSET {"r", "w"}
    BY FileConsts
  <2>2. c \in CallRec
    BY <2>1, NoCallFacts DEF CallRec
  <2>. QED BY <2>2 DEF NoCall
<1>. HIDE DEF c
<1>5. /\ step'[p] = "ilock" /\ call'[p] = c /\ Others(p) /\ step' \in [Proc -> Places] /\ call' \in [Proc -> CallRec]
  BY <1>3, <1>4, Moved DEF tables, Places
<1>6. Calling(p)'
  BY <1>3, <1>4, <1>5, Standing, NoCallFacts DEF Calling, tables
<1>7. FileTypes'
  <2>1. iref' \in [Inum -> Nat]
    BY <1>3 DEF FileTypes
  <2>. QED BY <2>1, <1>3, <1>5 DEF FileTypes, tables
<1>8. /\ call[p].todo = <<>> /\ call[p].ff = NoneFile /\ call[p].np = Nobody /\ call[p].name = "none"
  BY <1>3, UserFacts
<1>9. ASSUME NEW j \in Inum PROVE Balanced(p, j)
  <2>1. iref'[j] = IF j = i THEN iref[j] + 1 ELSE iref[j]
    BY <1>3 DEF FileTypes
  <2>2. /\ (p \in Finders(j)') = (j = i) /\ (p \in Finders(j)) = FALSE
        /\ (p \in Dwellers(j)') = (p \in Dwellers(j))
        /\ (p \in Dropping("INODE", j)') = FALSE /\ (p \in Dropping("INODE", j)) = FALSE
    BY <1>3, <1>4, <1>5, <1>8, NoCallFacts DEF tables, Dwellers, Finders, Dropping
  <2>. QED BY <2>1, <2>2, <1>3 DEF Balanced, Bit, FileTypes
<1>. QED BY <1>3, <1>4, <1>5, <1>6, <1>7, <1>8, <1>9, InodeOnly DEF tables

LEMMA ChdirSafe ==
  ASSUME FilesInv, NEW p \in Proc, Chdir(p)
  PROVE  FilesInv'
<1>1. /\ p \in alive /\ step[p] = "chdir" /\ FileTypes /\ Starts(p, "user", NoCall)
      /\ ilock' = [ilock EXCEPT ![call[p].ip] = Nobody]
      /\ iref' = [iref EXCEPT ![cwd[p]] = @ - 1] /\ cwd' = [cwd EXCEPT ![p] = call[p].ip]
      /\ UNCHANGED <<ref, file, ends, ofile, alive, data, died>> /\ died = FALSE
  BY DEF Chdir, In, Returns, FilesInv
<1>2. /\ call[p].name = "chdir" /\ call[p].ip \in Inum /\ cwd[p] \in Inum /\ call[p].todo = <<>>
      /\ call[p].ff = NoneFile /\ call[p].np = Nobody
  BY <1>1, Standing DEF Calling
<1>3. /\ step'[p] = "user" /\ call'[p] = NoCall /\ step' \in [Proc -> Places] /\ call' \in [Proc -> CallRec]
      /\ Others(p) /\ cwd'[p] = call[p].ip
  BY <1>1, NoCallFacts DEF Starts, Goes, Keeps, Others, Places, FileTypes
<1>4. Calling(p)'
  BY <1>1, <1>2, <1>3, NoCallFacts DEF Calling
<1>5. iref[cwd[p]] > 0
  <2>1. p \in Dwellers(cwd[p]) /\ InodeCount(cwd[p])
    BY <1>1, <1>2 DEF FilesInv, CountsInv, Dwellers
  <2>2. Cardinality(Dwellers(cwd[p])) # 0
    BY <2>1, <1>1, FilesFinite, FS_EmptySet
  <2>. QED BY <2>1, <2>2, <1>1, <1>2, CardTypes DEF InodeCount
<1>6. FileTypes'
  <2>1. iref' \in [Inum -> Nat]
    BY <1>1, <1>2, <1>5 DEF FileTypes
  <2>2. cwd' \in [Proc -> Inum \cup {NoInum}]
    BY <1>1, <1>2 DEF FileTypes
  <2>. QED BY <2>1, <2>2, <1>1, <1>3 DEF FileTypes
<1>7. ASSUME NEW j \in Inum PROVE Balanced(p, j)
  <2>1. iref'[j] = IF j = cwd[p] THEN iref[j] - 1 ELSE iref[j]
    BY <1>1 DEF FileTypes
  <2>2. /\ (p \in Finders(j)') = FALSE /\ (p \in Finders(j)) = (j = call[p].ip)
        /\ (p \in Dwellers(j)') = (j = call[p].ip) /\ (p \in Dwellers(j)) = (j = cwd[p])
        /\ (p \in Dropping("INODE", j)') = FALSE /\ (p \in Dropping("INODE", j)) = FALSE
    BY <1>1, <1>2, <1>3, NoCallFacts DEF Dwellers, Finders, Dropping
  <2>. QED BY <2>1, <2>2, <1>1 DEF Balanced, Bit, FileTypes
<1>. QED BY <1>1, <1>2, <1>3, <1>4, <1>6, <1>7, NoCallFacts, InodeOnly

LEMMA CloseDoneSafe ==
  ASSUME FilesInv, NEW p \in Proc, CloseDone(p)
  PROVE  FilesInv'
<1>1. /\ p \in alive /\ step[p] = "close" /\ FileTypes /\ Starts(p, "user", NoCall) /\ call[p].todo = <<>>
      /\ IF call[p].name = "open"
         THEN /\ ilock' = [ilock EXCEPT ![call[p].ip] = Nobody]
              /\ iref' = [iref EXCEPT ![call[p].ip] = @ - 1]
         ELSE UNCHANGED <<ilock, iref>>
      /\ UNCHANGED <<ref, file, ends, tables, data, died>> /\ died = FALSE
  BY DEF CloseDone, In, Returns, FilesInv
<1>2. /\ call[p].name = "open" => call[p].ip \in Inum
      /\ call[p].name \in {"open", "pipe", "close", "exit"}
      /\ call[p].ff = NoneFile /\ call[p].np = Nobody
  BY <1>1, Standing DEF Calling
<1>3. /\ step'[p] = "user" /\ call'[p] = NoCall /\ step' \in [Proc -> Places] /\ call' \in [Proc -> CallRec]
      /\ Others(p)
  BY <1>1, Moved, NoCallFacts DEF tables, Places
<1>4. Calling(p)'
  BY <1>1, <1>2, <1>3, Standing, NoCallFacts DEF Calling, tables
<1>5. call[p].name = "open" => iref[call[p].ip] > 0
  <2>1. SUFFICES ASSUME call[p].name = "open" PROVE iref[call[p].ip] > 0
    OBVIOUS
  <2>2. PICK i \in Inum : i = call[p].ip
    BY <1>2, <2>1
  <2>3. p \in Finders(i) /\ InodeCount(i)
    BY <1>1, <2>1, <2>2 DEF FilesInv, CountsInv, Finders
  <2>4. Cardinality(Finders(i)) # 0
    BY <2>3, <1>1, FilesFinite, FS_EmptySet
  <2>. QED BY <2>2, <2>3, <2>4, <1>1, CardTypes DEF InodeCount
<1>6. FileTypes'
  <2>1. iref' \in [Inum -> Nat] /\ ilock' \in [Inum -> Proc \cup {Nobody}]
    <3>1. CASE call[p].name = "open"
      <4>1. iref[call[p].ip] - 1 \in Nat
        BY <3>1, <1>1, <1>2, <1>5 DEF FileTypes
      <4>. QED BY <4>1, <3>1, <1>1 DEF FileTypes
    <3>2. CASE call[p].name # "open"
      BY <3>2, <1>1 DEF FileTypes
    <3>. QED BY <3>1, <3>2
  <2>. QED BY <2>1, <1>1, <1>3 DEF FileTypes, tables
<1>7. ASSUME NEW j \in Inum PROVE Balanced(p, j)
  <2>1. iref'[j] = IF call[p].name = "open" /\ j = call[p].ip THEN iref[j] - 1 ELSE iref[j]
    BY <1>1 DEF FileTypes
  <2>2. /\ (p \in Finders(j)') = FALSE /\ (p \in Finders(j)) = (call[p].name = "open" /\ j = call[p].ip)
        /\ (p \in Dwellers(j)') = (p \in Dwellers(j))
        /\ (p \in Dropping("INODE", j)') = FALSE /\ (p \in Dropping("INODE", j)) = FALSE
    BY <1>1, <1>2, <1>3, NoCallFacts DEF Dwellers, Finders, Dropping, tables
  <2>. QED BY <2>1, <2>2, <1>1 DEF Balanced, Bit, FileTypes
<1>. QED BY <1>1, <1>2, <1>3, <1>4, <1>6, <1>7, NoCallFacts, InodeOnly DEF tables

(* The steps that change counts of files only.                                 *)
LEMMA FileOnly ==
  ASSUME FilesInv, NEW p \in alive, UNCHANGED <<file, iref, ends, cwd, alive>>, Others(p),
         call'[p].ff = call[p].ff, \A i \in Inum : Finding(call'[p], i) <=> Finding(call[p], i),
         ref' \in [File -> Nat], \A f \in File : ~Untyped(f) => ref'[f] > 0
  PROVE  EndsInv' /\ (\A g \in PipePage : PipeEnds(g)') /\ \A i \in Inum : InodeCount(i)'
<1>1. FileTypes /\ p \in Proc /\ EndsInv /\ CountsInv
  BY DEF FilesInv, FileTypes
<1>2. EndsInv' /\ \A g \in PipePage : PipeEnds(g)'
  <2>1. \A q \in Proc : call'[q].ff = call[q].ff
    BY DEF Others
  <2>2. \A f \in File : ~Untyped(f)' => ref'[f] > 0
    BY UntypedSame
  <2>3. alive' \subseteq Proc
    BY <1>1 DEF FileTypes
  <2>. QED BY <2>1, <2>2, <2>3, KeptAll, EndsSteady
<1>3. ASSUME NEW i \in Inum PROVE InodeCount(i)'
  <2>1. Opens("INODE", i)' = Opens("INODE", i)
    BY <1>1 DEF Opens, EndsInv, Untyped, FileTypes
  <2>2. Dwellers(i)' = Dwellers(i) /\ Finders(i)' = Finders(i) /\ Dropping("INODE", i)' = Dropping("INODE", i)
    <3>1. \A q \in alive : Finding(call'[q], i) <=> Finding(call[q], i)
      BY DEF Others, FilesInv, FileTypes
    <3>2. Finders(i)' = Finders(i)
      BY <3>1 DEF Finders, Finding
    <3>3. \A q \in alive : call'[q].ff = call[q].ff
      BY DEF Others, FilesInv, FileTypes
    <3>. QED BY <3>2, <3>3 DEF Dwellers, Dropping
  <2>. QED BY <2>1, <2>2, <1>1 DEF InodeCount, CountsInv
<1>. QED BY <1>2, <1>3

LEMMA FreeFacts ==
  ASSUME FilesInv, FreeFiles # {}
  PROVE  /\ Min(FreeFiles) \in File /\ ref[Min(FreeFiles)] = 0 /\ Untyped(Min(FreeFiles))
         /\ \A p \in Proc : ~Shows(p, Min(FreeFiles)) /\ Min(FreeFiles) \notin ToSet(call[p].todo)
<1>1. FreeFiles \subseteq Nat
  BY FileConsts DEF FreeFiles
<1>2. Min(FreeFiles) \in FreeFiles
  BY <1>1, MinFacts
<1>3. Min(FreeFiles) \in File /\ ref[Min(FreeFiles)] = 0
  BY <1>2 DEF FreeFiles
<1>4. \A p \in Proc : ~Shows(p, Min(FreeFiles)) /\ Min(FreeFiles) \notin ToSet(call[p].todo)
  BY <1>3, Holders
<1>. QED BY <1>3, <1>4 DEF FilesInv, EndsInv

LEMMA DescFacts ==
  ASSUME FileTypes, NEW p \in Proc
  PROVE  /\ Descs(p) \subseteq Fd /\ Fd \ Descs(p) \subseteq Nat
         /\ \A i \in Descs(p) : ofile[p][i] \in File
         /\ \A i \in Fd \ Descs(p) : ofile[p][i] = NoFile
         /\ Descs(p) # Fd => Min(Fd \ Descs(p)) \in Fd \ Descs(p)
<1>1. Descs(p) \subseteq Fd /\ Fd \ Descs(p) \subseteq Nat
  BY FileConsts DEF Descs
<1>2. Descs(p) # Fd => Min(Fd \ Descs(p)) \in Fd \ Descs(p)
  BY <1>1, MinFacts
<1>. QED BY <1>1, <1>2 DEF Descs, FileTypes

(* A descriptor that p is given: who shows what.                               *)
LEMMA ShowsStep ==
  ASSUME FileTypes, NEW p \in Proc, NEW i \in Fd, NEW g \in File \cup {NoFile}, ofile' = [ofile EXCEPT ![p][i] = g]
  PROVE  /\ ofile' \in [Proc -> [Fd -> File \cup {NoFile}]]
         /\ \A q \in Proc \ {p} : ofile'[q] = ofile[q] /\ \A f : Shows(q, f)' <=> Shows(q, f)
         /\ \A j \in Fd : ofile'[p][j] = IF j = i THEN g ELSE ofile[p][j]
         /\ \A f : Shows(p, f)' => Shows(p, f) \/ f = g
         /\ Shows(p, g)'
<1>1. ofile' \in [Proc -> [Fd -> File \cup {NoFile}]]
  BY DEF FileTypes
<1>2. \A q \in Proc \ {p} : ofile'[q] = ofile[q]
  BY DEF FileTypes
<1>3. \A j \in Fd : ofile'[p][j] = IF j = i THEN g ELSE ofile[p][j]
  BY DEF FileTypes
<1>. QED BY <1>1, <1>2, <1>3 DEF Shows

LEMMA ShowingGiven ==
  ASSUME FileTypes, NEW p \in Proc, NEW i \in Fd, ofile[p][i] = NoFile, NEW g \in File,
         ofile' = [ofile EXCEPT ![p][i] = g]
  PROVE  \A f \in File : Cardinality(Showing(f)') = Cardinality(Showing(f)) + Bit(g = f) /\ Bit(g = f) \in Int
<1>1. ofile'[p][i] = g /\ \A q \in Proc, j \in Fd : q # p \/ j # i => ofile'[q][j] = ofile[q][j]
  BY DEF FileTypes
<1>2. \A f \in File : Cardinality(Showing(f)') = Cardinality(Showing(f)) + Bit(g = f) - Bit(ofile[p][i] = f)
  BY <1>1, ShowingStep
<1>3. ASSUME NEW f \in File
      PROVE  Cardinality(Showing(f)') = Cardinality(Showing(f)) + Bit(g = f) /\ Bit(g = f) \in Int
  <2>1. Cardinality(Showing(f)) \in Nat /\ ofile[p][i] # f
    BY CardTypes, FileConsts
  <2>. QED BY <2>1, <1>2 DEF Bit
<1>. QED BY <1>3

LEMMA DupSafe ==
  ASSUME FilesInv, NEW p \in Proc, Dup(p)
  PROVE  FilesInv'
<1>1. PICK dsc \in Descs(p) :
         /\ ofile' = [ofile EXCEPT ![p][Min(Fd \ Descs(p))] = ofile[p][dsc]]
         /\ Starts(p, "dup", [NoCall EXCEPT !.f = ofile[p][dsc]])
  BY DEF Dup
<1>2. /\ p \in alive /\ step[p] = "user" /\ FileTypes /\ Descs(p) # Fd
      /\ UNCHANGED <<counts, cwd, alive, ilock, data, died>> /\ died = FALSE
  BY DEF Dup, May, In, FilesInv
<1>3. PICK i \in Fd \ Descs(p) : i = Min(Fd \ Descs(p))
  BY <1>2, DescFacts
<1>4. PICK g \in File : g = ofile[p][dsc] /\ dsc \in Fd /\ Shows(p, g)
  BY <1>2, DescFacts DEF Shows
<1>. DEFINE c == [NoCall EXCEPT !.f = g]
<1>5. ofile' = [ofile EXCEPT ![p][i] = g] /\ Starts(p, "dup", c)
  BY <1>1, <1>3, <1>4
<1>6. /\ c \in CallRec /\ c.todo = <<>> /\ c.ff = NoneFile /\ c.np = Nobody /\ c.name = "none" /\ c.f = g
      /\ c = [NoCall EXCEPT !.f = c.f]
  <2>1. c \in CallRec
    BY NoCallFacts DEF CallRec
  <2>. QED BY <2>1 DEF NoCall
<1>. HIDE DEF c
<1>7. /\ step'[p] = "dup" /\ call'[p] = c /\ step' \in [Proc -> Places] /\ call' \in [Proc -> CallRec] /\ Others(p)
  BY <1>2, <1>5, <1>6, Moved DEF Places
<1>8. /\ ofile' \in [Proc -> [Fd -> File \cup {NoFile}]]
      /\ \A q \in Proc \ {p} : ofile'[q] = ofile[q] /\ \A f : Shows(q, f)' <=> Shows(q, f)
      /\ \A j \in Fd : ofile'[p][j] = IF j = i THEN g ELSE ofile[p][j]
      /\ \A f : Shows(p, f)' => Shows(p, f) \/ f = g
  BY <1>2, <1>5, ShowsStep
<1>9. FileTypes'
  BY <1>2, <1>7, <1>8 DEF FileTypes, counts
<1>10. Calling(p)'
  <2>1. ofile'[p][i] = g /\ ofile'[p][dsc] = g /\ i # dsc
    BY <1>3, <1>4, <1>8
  <2>2. \E j, k \in Fd : j # k /\ ofile'[p][j] = c.f /\ ofile'[p][k] = c.f
    BY <2>1, <1>3, <1>4, <1>6
  <2>3. /\ call'[p] = [NoCall EXCEPT !.f = call'[p].f] /\ call'[p].f \in File /\ call'[p].name = "none"
        /\ call'[p].todo = <<>> /\ call'[p].np = Nobody /\ call'[p].ff = NoneFile
        /\ \E j, k \in Fd : j # k /\ ofile'[p][j] = call'[p].f /\ ofile'[p][k] = call'[p].f
    BY <2>2, <1>6, <1>7
  <2>4. p \in alive' /\ step'[p] = "dup" /\ cwd'[p] \in Inum
    BY <1>2, <1>7, Standing DEF Calling
  <2>. QED BY <2>3, <2>4 DEF Calling
<1>11. /\ call[p].todo = <<>> /\ call[p].ff = NoneFile /\ call[p].np = Nobody
       /\ \A j \in Inum : Finding(c, j) <=> Finding(call[p], j)
  BY <1>2, <1>6, UserFacts
<1>12. Takes(p)
  <2>1. \A q \in Proc, f \in File : Shows(q, f)' => Shows(q, f) \/ Shows(p, f)
    BY <1>4, <1>8
  <2>. QED BY <2>1, <1>2, <1>6, <1>7, SetsEmpty, UntypedSame DEF Takes, counts
<1>13. HandedInv'
  BY <1>2, <1>6, <1>7, <1>8, <1>11, HandedSteady
<1>14. ReadyInv'
  <2>1. ~Untyped(g)
    BY <1>2, <1>4 DEF FilesInv, ShownInv, ReadyInv, Descs
  <2>2. \A q \in Proc, j \in Fd : ofile'[q][j] = ofile[q][j] \/ file'[ofile'[q][j]].type # "NONE"
    BY <2>1, <1>2, <1>8 DEF Untyped, counts
  <2>. QED BY <2>2, <1>2, <1>7, ReadySteady, UntypedSame DEF counts
<1>15. EndsInv' /\ (\A h \in PipePage : PipeEnds(h)') /\ \A j \in Inum : InodeCount(j)'
  <2>1. \A f \in File : ~Untyped(f) => ref'[f] > 0
    BY <1>2 DEF FilesInv, EndsInv, FileTypes, counts
  <2>. QED BY <2>1, <1>2, <1>6, <1>7, <1>9, <1>11, FileOnly DEF counts, FileTypes
<1>16. ASSUME NEW f \in File PROVE FileCount(f)'
  <2>3. ref[f] \in Nat
    BY <1>2 DEF FileTypes
  <2>4. Cardinality(Showing(f)') = Cardinality(Showing(f)) + Bit(g = f) /\ Bit(g = f) \in Int
    BY <1>2, <1>3, <1>5, DescFacts, ShowingGiven, ZenonT(60)
  <2>5. (p \in Dups(f)') = (g = f) /\ ~(p \in Dups(f)) /\ ~(p \in Closings(f)') /\ ~(p \in Closings(f))
    BY <1>2, <1>6, <1>7, <1>11, SetsEmpty DEF Dups, Closings
  <2>6. ref'[f] = ref[f] + Bit(g = f) + Bit(p \in Closings(f)') - Bit(p \in Closings(f))
                             - Bit(p \in Dups(f)') + Bit(p \in Dups(f))
    BY <2>3, <2>5, <1>2 DEF Bit, counts
  <2>. QED BY <2>4, <2>6, <1>2, <1>7, FileBalance
<1>17. CountsInv'
  BY <1>15, <1>16 DEF CountsInv
<1>18. \A q \in alive \ {p} : ofile'[q] = ofile[q]
  BY <1>2, <1>8 DEF FileTypes
<1>. QED BY <1>2, <1>7, <1>9, <1>10, <1>12, <1>13, <1>14, <1>15, <1>17, <1>18, LoudSafe

LEMMA FiledupLives ==
  ASSUME FilesInv, NEW p \in Proc, NEW f \in File, Shows(p, f), Filedup(f)
  PROVE  ref' = [ref EXCEPT ![f] = @ + 1] /\ UNCHANGED died /\ ref' \in [File -> Nat] /\ ref[f] > 0
<1>1. ref[f] > 0 /\ ref \in [File -> Nat]
  BY Holders DEF FilesInv, FileTypes
<1>. QED BY <1>1 DEF Filedup

LEMMA DupCountSafe ==
  ASSUME FilesInv, NEW p \in Proc, DupCount(p)
  PROVE  FilesInv'
<1>1. /\ p \in alive /\ step[p] = "dup" /\ FileTypes /\ Filedup(call[p].f) /\ Starts(p, "user", NoCall)
      /\ UNCHANGED <<file, iref, ends, tables, ilock, data>> /\ died = FALSE
  BY DEF DupCount, In, FilesInv, Returns
<1>2. /\ call[p] = [NoCall EXCEPT !.f = call[p].f] /\ call[p].f \in File /\ Shows(p, call[p].f)
  BY <1>1, Standing DEF Calling, Shows
<1>3. PICK g \in File : g = call[p].f
  BY <1>2
<1>4. call[p].todo = <<>> /\ call[p].ff = NoneFile /\ call[p].np = Nobody /\ call[p].name = "none"
  BY <1>2 DEF NoCall
<1>5. ref' = [ref EXCEPT ![g] = @ + 1] /\ UNCHANGED died /\ ref' \in [File -> Nat] /\ ref[g] > 0
  BY <1>1, <1>2, <1>3, FiledupLives
<1>6. /\ step'[p] = "user" /\ call'[p] = NoCall /\ step' \in [Proc -> Places] /\ call' \in [Proc -> CallRec]
      /\ Others(p)
  BY <1>1, Moved, NoCallFacts DEF tables, Places
<1>7. FileTypes'
  BY <1>1, <1>5, <1>6 DEF FileTypes, tables
<1>8. Calling(p)'
  BY <1>1, <1>6, Standing, NoCallFacts DEF Calling, tables
<1>9. Takes(p)
  BY <1>1, <1>6, NoCallFacts, SetsEmpty, TakesSteady, UntypedSame DEF tables
<1>10. HandedInv' /\ ReadyInv'
  <2>1. HandedInv'
    BY <1>1, <1>4, <1>6, NoCallFacts, HandedSteady DEF tables
  <2>. QED BY <2>1, <1>1, <1>6, ReadySteady, UntypedSame DEF tables
<1>11. \A j \in Inum : Finding(NoCall, j) <=> Finding(call[p], j)
  BY <1>4, NoCallFacts DEF Finding
<1>12. EndsInv' /\ (\A h \in PipePage : PipeEnds(h)') /\ \A j \in Inum : InodeCount(j)'
  <2>1. \A f \in File : ~Untyped(f) => ref'[f] > 0
    BY <1>1, <1>5 DEF FilesInv, EndsInv, FileTypes
  <2>. QED BY <2>1, <1>1, <1>4, <1>5, <1>6, <1>11, NoCallFacts, FileOnly DEF tables
<1>13. ASSUME NEW f \in File PROVE FileCount(f)'
  <2>1. (p \in Dups(f)) = (g = f) /\ ~(p \in Dups(f)') /\ ~(p \in Closings(f)') /\ ~(p \in Closings(f))
    BY <1>1, <1>3, <1>4, <1>6, NoCallFacts, SetsEmpty DEF Dups, Closings
  <2>2. ref'[f] = ref[f] + 0 + Bit(p \in Closings(f)') - Bit(p \in Closings(f))
                             - Bit(p \in Dups(f)') + Bit(p \in Dups(f))
    BY <2>1, <1>1, <1>5 DEF Bit, FileTypes
  <2>3. Cardinality(Showing(f)') = Cardinality(Showing(f)) + 0 /\ 0 \in Int
    BY <1>1, ShowingSame DEF tables
  <2>. QED BY <2>2, <2>3, <1>1, <1>6, FileBalance DEF tables
<1>14. CountsInv'
  BY <1>12, <1>13 DEF CountsInv
<1>. QED BY <1>1, <1>5, <1>6, <1>7, <1>8, <1>9, <1>10, <1>12, <1>14, LoudSafe DEF tables

LEMMA CallTypes ==
  ASSUME NEW c \in CallRec
  PROVE  /\ \A t \in TodoLists : /\ [c EXCEPT !.todo = t] \in CallRec
                                /\ [c EXCEPT !.todo = t].todo = t
         /\ \A r \in FileRec : [c EXCEPT !.ff = r] \in CallRec /\ [c EXCEPT !.ff = r].ff = r
         /\ c.ff \in FileRec /\ c.todo \in TodoLists
<1>1. ASSUME NEW t \in TodoLists PROVE [c EXCEPT !.todo = t] \in CallRec /\ [c EXCEPT !.todo = t].todo = t
  BY DEF CallRec
<1>2. ASSUME NEW r \in FileRec PROVE [c EXCEPT !.ff = r] \in CallRec /\ [c EXCEPT !.ff = r].ff = r
  BY DEF CallRec
<1>3. c.ff \in FileRec /\ c.todo \in TodoLists
  BY DEF CallRec
<1>. QED BY <1>1, <1>2, <1>3

Gives(p, i, g) == ofile' = [ofile EXCEPT ![p][i] = g]

(* filealloc has a file for an open that finds no descriptor for it, ...       *)
LEMMA OpenNoFdSafe ==
  ASSUME FilesInv, NEW p \in alive, step[p] = "open", FreeFiles # {},
         ref' = [ref EXCEPT ![Min(FreeFiles)] = 1],
         Starts(p, "close", [call[p] EXCEPT !.todo = <<Min(FreeFiles)>>]),
         UNCHANGED <<file, iref, ends, tables, ilock, data, died>>
  PROVE  FilesInv'
<1>1. PICK g \in File : g = Min(FreeFiles)
  BY FreeFacts
<1>2. ref[g] = 0 /\ Untyped(g)
  BY <1>1, FreeFacts
<1>. PICK t \in TodoLists : t = <<g>>
  BY DEF TodoLists
<1>. DEFINE c == [call[p] EXCEPT !.todo = t]
<1>3. /\ FileTypes /\ p \in Proc /\ died = FALSE /\ Starts(p, "close", c)
      /\ ref' = [ref EXCEPT ![g] = 1] /\ ref' \in [File -> Nat]
  BY <1>1, Standing DEF FileTypes
<1>4. /\ call[p].todo = <<>> /\ call[p].ff = NoneFile /\ call[p].np = Nobody /\ call[p].name = "open"
      /\ call[p].ip \in Inum
  BY Standing DEF Calling
<1>5. /\ c \in CallRec /\ c.todo = <<g>> /\ c.ff = NoneFile /\ c.np = Nobody /\ c.name = "open" /\ c.ip = call[p].ip
      /\ ToSet(c.todo) = {g}
  <2>1. call[p] \in CallRec
    BY Standing
  <2>2. c \in CallRec
    BY <2>1, CallTypes
  <2>3. DOMAIN <<g>> = {1} /\ <<g>>[1] = g
    OBVIOUS
  <2>4. ToSet(<<g>>) = {g}
    BY <2>3 DEF ToSet
  <2>. QED BY <2>2, <2>4, <1>4, Standing DEF CallRec
<1>. HIDE DEF c
<1>6. /\ step'[p] = "close" /\ call'[p] = c /\ step' \in [Proc -> Places] /\ call' \in [Proc -> CallRec] /\ Others(p)
  BY <1>3, <1>5, Moved DEF tables, Places
<1>7. FileTypes'
  BY <1>3, <1>6 DEF FileTypes, tables
<1>8. Calling(p)'
  BY <1>4, <1>5, <1>6, Standing DEF Calling, tables
<1>9. Takes(p)
  BY <1>2, <1>5, <1>6, TakesSteady, UntypedSame DEF tables
<1>10. HandedInv' /\ ReadyInv'
  <2>1. HandedInv'
    BY <1>4, <1>5, <1>6, HandedSteady DEF tables
  <2>. QED BY <2>1, <1>6, ReadySteady, UntypedSame DEF tables
<1>11. \A j \in Inum : Finding(c, j) <=> Finding(call[p], j)
  BY <1>4, <1>5 DEF Finding
<1>12. EndsInv' /\ (\A h \in PipePage : PipeEnds(h)') /\ \A j \in Inum : InodeCount(j)'
  <2>1. \A f \in File : ~Untyped(f) => ref'[f] > 0
    BY <1>2, <1>3 DEF FilesInv, EndsInv, FileTypes
  <2>. QED BY <2>1, <1>4, <1>5, <1>6, <1>7, <1>11, FileOnly DEF tables, FileTypes
<1>13. ASSUME NEW f \in File PROVE FileCount(f)'
  <2>1. ~(p \in Dups(f)) /\ ~(p \in Dups(f)') /\ (p \in Closings(f)') = (f = g) /\ ~(p \in Closings(f))
    BY <1>4, <1>5, <1>6, SetsEmpty DEF Dups, Closings, tables
  <2>2. ref'[f] = ref[f] + 0 + Bit(p \in Closings(f)') - Bit(p \in Closings(f))
                             - Bit(p \in Dups(f)') + Bit(p \in Dups(f))
    BY <2>1, <1>2, <1>3 DEF Bit, FileTypes
  <2>3. Cardinality(Showing(f)') = Cardinality(Showing(f)) + 0 /\ 0 \in Int
    BY <1>3, ShowingSame DEF tables
  <2>. QED BY <2>2, <2>3, <1>6, FileBalance DEF tables
<1>14. CountsInv'
  BY <1>12, <1>13 DEF CountsInv
<1>. QED BY <1>3, <1>6, <1>7, <1>8, <1>9, <1>10, <1>12, <1>14, LoudSafe DEF tables

(* ... and for one that does.                                                  *)
LEMMA OpenFdSafe ==
  ASSUME FilesInv, NEW p \in alive, step[p] = "open", NEW g \in File, ref[g] = 0, NEW i \in Fd \ Descs(p),
         ref' = [ref EXCEPT ![g] = 1], Gives(p, i, g),
         Starts(p, "opened", [call[p] EXCEPT !.f = g]),
         UNCHANGED <<file, iref, ends, cwd, alive, ilock, data, died>>
  PROVE  FilesInv'
<1>. DEFINE c == [call[p] EXCEPT !.f = g]
<1>2. ref[g] = 0 /\ Untyped(g) /\ \A q \in Proc : ~Shows(q, g) /\ g \notin ToSet(call[q].todo)
  <2>1. \A q \in Proc : ~Shows(q, g) /\ g \notin ToSet(call[q].todo)
    BY Holders
  <2>. QED BY <2>1 DEF FilesInv, EndsInv
<1>3. /\ FileTypes /\ p \in Proc /\ died = FALSE /\ Starts(p, "opened", c)
      /\ ref' = [ref EXCEPT ![g] = 1] /\ ref' \in [File -> Nat]
  BY Standing DEF FileTypes
<1>4. i \in Fd /\ ofile[p][i] = NoFile
  BY <1>3, DescFacts
<1>5. ofile' = [ofile EXCEPT ![p][i] = g]
  BY DEF Gives
<1>6. /\ call[p].todo = <<>> /\ call[p].ff = NoneFile /\ call[p].np = Nobody /\ call[p].name = "open"
      /\ call[p].ip \in Inum
  BY Standing DEF Calling
<1>7. /\ c \in CallRec /\ c.todo = <<>> /\ c.ff = NoneFile /\ c.np = Nobody /\ c.name = "open" /\ c.ip = call[p].ip
      /\ c.f = g
  BY <1>6, Standing, ZenonT(60) DEF CallRec
<1>. HIDE DEF c
<1>8. /\ step'[p] = "opened" /\ call'[p] = c /\ step' \in [Proc -> Places] /\ call' \in [Proc -> CallRec] /\ Others(p)
  BY <1>3, <1>7, Moved DEF Places
<1>9. /\ ofile' \in [Proc -> [Fd -> File \cup {NoFile}]]
      /\ \A q \in Proc \ {p} : ofile'[q] = ofile[q] /\ \A f : Shows(q, f)' <=> Shows(q, f)
      /\ \A j \in Fd : ofile'[p][j] = IF j = i THEN g ELSE ofile[p][j]
      /\ \A f : Shows(p, f)' => Shows(p, f) \/ f = g
      /\ Shows(p, g)'
  BY <1>3, <1>5, ShowsStep
<1>10. FileTypes'
  BY <1>3, <1>8, <1>9 DEF FileTypes
<1>11. Calling(p)'
  <2>1. Untyped(g)' /\ Shows(p, g)' /\ \A q \in Proc : Shows(q, g)' => q = p
    BY <1>2, <1>9, UntypedSame
  <2>2. Untyped(call[p].f)' /\ Shows(p, call[p].f)' /\ \A q \in Proc : Shows(q, call[p].f)' => q = p
    BY <2>1, <1>7, <1>8 DEF Untyped, Shows
  <2>. QED BY <2>2, <1>6, <1>7, <1>8, Standing DEF Calling
<1>12. Takes(p)
  <2>1. \A q \in Proc, f \in File : Shows(q, f)' => Shows(q, f) \/ f = g
    BY <1>9
  <2>. QED BY <2>1, <1>2, <1>7, <1>8, SetsEmpty, UntypedSame DEF Takes
<1>13. HandedInv'
  BY <1>3, <1>6, <1>7, <1>8, <1>9, HandedSteady
<1>14. ReadyInv'
  <2>1. ASSUME NEW q \in Proc, NEW j \in Fd, ofile'[q][j] # NoFile, file[ofile'[q][j]].type = "NONE"
        PROVE  step'[q] = "opened" /\ call'[q].f = ofile'[q][j]
    <3>1. CASE ofile'[q][j] = g
      <4>1. Shows(q, g)'
        BY <3>1 DEF Shows
      <4>2. q = p
        BY <4>1, <1>2, <1>9
      <4>. QED BY <4>2, <3>1, <1>7, <1>8
    <3>2. CASE ofile'[q][j] # g
      <4>1. ofile'[q][j] = ofile[q][j]
        BY <3>2, <1>9
      <4>2. step[q] = "opened" /\ call[q].f = ofile[q][j]
        BY <4>1, <2>1 DEF FilesInv, ShownInv, ReadyInv, Untyped
      <4>. QED BY <4>1, <4>2, <1>8 DEF Others
    <3>. QED BY <3>1, <3>2
  <2>. QED BY <2>1 DEF ReadyInv, Untyped
<1>15. EndsInv' /\ (\A h \in PipePage : PipeEnds(h)') /\ \A j \in Inum : InodeCount(j)'
  <2>1. \A f \in File : ~Untyped(f) => ref'[f] > 0
    BY <1>2, <1>3 DEF FilesInv, EndsInv, FileTypes
  <2>2. \A j \in Inum : Finding(c, j) <=> Finding(call[p], j)
    BY <1>6, <1>7 DEF Finding
  <2>. QED BY <2>1, <2>2, <1>6, <1>7, <1>8, <1>10, FileOnly DEF FileTypes
<1>16. ASSUME NEW f \in File PROVE FileCount(f)'
  <2>3. ref[f] \in Nat
    BY <1>3 DEF FileTypes
  <2>4. Cardinality(Showing(f)') = Cardinality(Showing(f)) + Bit(g = f) /\ Bit(g = f) \in Int
    BY <1>3, <1>4, <1>5, ShowingGiven
  <2>5. ~(p \in Dups(f)') /\ ~(p \in Dups(f)) /\ ~(p \in Closings(f)') /\ ~(p \in Closings(f))
    BY <1>6, <1>7, <1>8, SetsEmpty DEF Dups, Closings
  <2>6. ref'[f] = ref[f] + Bit(g = f) + Bit(p \in Closings(f)') - Bit(p \in Closings(f))
                             - Bit(p \in Dups(f)') + Bit(p \in Dups(f))
    BY <2>3, <2>5, <1>2, <1>3 DEF Bit, FileTypes
  <2>. QED BY <2>4, <2>6, <1>8, FileBalance
<1>17. CountsInv'
  BY <1>15, <1>16 DEF CountsInv
<1>18. \A q \in alive \ {p} : ofile'[q] = ofile[q]
  BY <1>3, <1>9 DEF FileTypes
<1>. QED BY <1>3, <1>8, <1>10, <1>11, <1>12, <1>13, <1>14, <1>15, <1>17, <1>18, LoudSafe

LEMMA OpenAllocSafe ==
  ASSUME FilesInv, NEW p \in Proc, OpenAlloc(p)
  PROVE  FilesInv'
<1>1. /\ p \in alive /\ step[p] = "open" /\ UNCHANGED <<file, iref, ends, cwd, alive, ilock, data, died>>
  BY DEF OpenAlloc, In
<1>2. CASE FreeFiles = {}
  <2>1. Starts(p, "close", call[p]) /\ UNCHANGED <<ref, ofile, call>>
    BY <1>1, <1>2, Standing DEF OpenAlloc
  <2>2. Calling(p)'
    <3>1. step'[p] = "close" /\ call'[p] = call[p] /\ p \in alive' /\ cwd'[p] = cwd[p]
      BY <1>1, <2>1, Standing, Moved
    <3>. QED BY <3>1, <1>1, Standing DEF Calling
  <2>. QED BY <2>1, <2>2, <1>1, Standing, QuietMove, KeptAll DEF FileTypes, Places
<1>3. CASE FreeFiles # {} /\ Descs(p) = Fd
  BY <1>1, <1>3, OpenNoFdSafe DEF OpenAlloc, tables
<1>4. CASE FreeFiles # {} /\ Descs(p) # Fd
  <2>1. PICK g \in File : g = Min(FreeFiles) /\ ref[g] = 0
    BY <1>4, FreeFacts
  <2>2. PICK i \in Fd \ Descs(p) : i = Min(Fd \ Descs(p))
    BY <1>1, <1>4, Standing, DescFacts
  <2>3. /\ ref' = [ref EXCEPT ![g] = 1] /\ ofile' = [ofile EXCEPT ![p][i] = g]
        /\ Starts(p, "opened", [call[p] EXCEPT !.f = g])
    BY <1>4, <2>1, <2>2 DEF OpenAlloc
  <2>. QED BY <2>1, <2>3, <1>1, OpenFdSafe DEF Gives
<1>. QED BY <1>2, <1>3, <1>4

LEMMA OpenedSafe ==
  ASSUME FilesInv, NEW p \in Proc, Opened(p)
  PROVE  FilesInv'
<1>1. /\ p \in alive /\ step[p] = "opened" /\ FileTypes /\ Starts(p, "user", NoCall)
      /\ ilock' = [ilock EXCEPT ![call[p].ip] = Nobody]
      /\ file' = [file EXCEPT ![call[p].f] =
                    [type |-> "INODE", obj |-> call[p].ip, mode |-> call[p].mode, off |-> 0]]
      /\ UNCHANGED <<ref, iref, ends, tables, data, died>> /\ died = FALSE
  BY DEF Opened, In, Returns, FilesInv
<1>2. /\ call[p].name = "open" /\ call[p].f \in File /\ Untyped(call[p].f) /\ Shows(p, call[p].f)
      /\ \A q \in Proc : Shows(q, call[p].f) => q = p
      /\ call[p].ip \in Inum /\ call[p].todo = <<>> /\ call[p].ff = NoneFile /\ call[p].np = Nobody
  BY <1>1, Standing DEF Calling
<1>3. PICK g \in File : g = call[p].f
  BY <1>2
<1>4. PICK i \in Inum : i = call[p].ip
  BY <1>2
<1>5. PICK r \in FileRec : r.type = "INODE" /\ r.obj = i /\ file' = [file EXCEPT ![g] = r]
  <2>1. [type |-> "INODE", obj |-> i, mode |-> call[p].mode, off |-> 0] \in FileRec
    BY <1>1, Standing DEF FileRec, CallRec
  <2>. QED BY <2>1, <1>1, <1>3, <1>4
<1>6. /\ step'[p] = "user" /\ call'[p] = NoCall /\ step' \in [Proc -> Places] /\ call' \in [Proc -> CallRec] /\ Others(p)
  BY <1>1, Moved, NoCallFacts DEF tables, Places
<1>7. /\ file' \in [File -> FileRec] /\ file'[g] = r /\ \A f \in File \ {g} : file'[f] = file[f]
  <2>1. file \in [File -> FileRec]
    BY <1>1 DEF FileTypes
  <2>. QED BY <2>1, <1>5
<1>8. FileTypes'
  BY <1>1, <1>6, <1>7 DEF FileTypes, tables
<1>9. Calling(p)'
  BY <1>1, <1>6, Standing, NoCallFacts DEF Calling, tables
<1>10. ref[g] > 0 /\ Untyped(g) /\ Shows(p, g) /\ \A q \in Proc : Shows(q, g) => q = p
  BY <1>1, <1>2, <1>3, Holders
<1>11. \A f \in File : Untyped(f)' <=> Untyped(f) /\ f # g
  BY <1>5, <1>7 DEF Untyped
<1>12. Takes(p)
  <2>1. \A f \in File : Untyped(f) => Untyped(f)' \/ Shows(p, f)
    BY <1>10, <1>11
  <2>. QED BY <2>1, <1>1, <1>6, NoCallFacts, SetsEmpty, TakesSteady DEF tables
<1>13. HandedInv'
  BY <1>1, <1>2, <1>6, NoCallFacts, HandedSteady DEF tables
<1>14. ReadyInv'
  <2>1. ASSUME NEW q \in Proc, NEW j \in Fd, ofile[q][j] # NoFile, file'[ofile[q][j]].type = "NONE"
        PROVE  step'[q] = "opened" /\ call'[q].f = ofile[q][j]
    <3>1. PICK f \in File : f = ofile[q][j]
      BY <1>1, <2>1 DEF FileTypes
    <3>2. Untyped(f) /\ f # g
      BY <3>1, <2>1, <1>11 DEF Untyped
    <3>3. step[q] = "opened" /\ call[q].f = f
      BY <3>1, <3>2, <2>1 DEF FilesInv, ShownInv, ReadyInv
    <3>4. q # p
      BY <3>2, <3>3, <1>3
    <3>. QED BY <3>1, <3>3, <3>4, <1>6 DEF Others
  <2>. QED BY <2>1, <1>1 DEF ReadyInv, Untyped, tables
<1>15. EndsInv' /\ \A h \in PipePage : PipeEnds(h)'
  <2>1. \A f \in File : Kept(f) \/ (Untyped(f) /\ file'[f].type = "INODE" /\ file'[f].obj \in Inum)
    BY <1>5, <1>7, <1>10 DEF Kept
  <2>2. \A f \in File : ~Untyped(f)' => ref'[f] > 0
    <3>1. \A f \in File : ~Untyped(f) => ref[f] > 0
      BY <1>1 DEF FilesInv, EndsInv, FileTypes
    <3>. QED BY <3>1, <1>1, <1>10, <1>11
  <2>3. \A q \in Proc : call'[q].ff = call[q].ff
    BY <1>2, <1>6, NoCallFacts DEF Others
  <2>4. alive' = alive /\ alive' \subseteq Proc /\ ref' \in [File -> Nat]
    BY <1>1 DEF FileTypes, tables
  <2>. QED BY <2>1, <2>2, <2>3, <2>4, <1>1, EndsSteady
<1>16. ASSUME NEW f \in File PROVE FileCount(f)'
  <2>1. ~(p \in Dups(f)) /\ ~(p \in Dups(f)') /\ ~(p \in Closings(f)') /\ ~(p \in Closings(f))
    BY <1>1, <1>2, <1>6, NoCallFacts, SetsEmpty DEF Dups, Closings
  <2>2. ref'[f] = ref[f] + 0 + Bit(p \in Closings(f)') - Bit(p \in Closings(f))
                             - Bit(p \in Dups(f)') + Bit(p \in Dups(f))
    BY <2>1, <1>1 DEF Bit, FileTypes
  <2>3. Cardinality(Showing(f)') = Cardinality(Showing(f)) + 0 /\ 0 \in Int
    BY <1>1, ShowingSame DEF tables
  <2>. QED BY <2>2, <2>3, <1>1, <1>6, FileBalance DEF tables
<1>17. ASSUME NEW j \in Inum PROVE InodeCount(j)'
  <2>1. Cardinality(Opens("INODE", j)') = Cardinality(Opens("INODE", j)) + Bit(g \in Opens("INODE", j)') - Bit(g \in Opens("INODE", j))
    BY <1>1, <1>7, OpensStep
  <2>2. (g \in Opens("INODE", j)') = (i = j) /\ ~(g \in Opens("INODE", j))
    BY <1>1, <1>5, <1>7, <1>10 DEF Opens, Untyped
  <2>3. Cardinality(Opens("INODE", j)) \in Nat /\ iref[j] \in Nat
    BY <1>1, CardTypes DEF FileTypes
  <2>4. Cardinality(Opens("INODE", j)') = Cardinality(Opens("INODE", j)) + Bit(i = j) /\ Bit(i = j) \in Int
    BY <2>1, <2>2, <2>3 DEF Bit
  <2>5. /\ ~(p \in Finders(j)') /\ (p \in Finders(j)) = (i = j)
        /\ (p \in Dwellers(j)') = (p \in Dwellers(j))
        /\ ~(p \in Dropping("INODE", j)') /\ ~(p \in Dropping("INODE", j))
    BY <1>1, <1>2, <1>4, <1>6, NoCallFacts DEF Dwellers, Finders, Dropping, tables
  <2>6. iref'[j] = iref[j] + Bit(i = j) + Bit(p \in Dwellers(j)') - Bit(p \in Dwellers(j))
                    + Bit(p \in Finders(j)') - Bit(p \in Finders(j))
                    + Bit(p \in Dropping("INODE", j)') - Bit(p \in Dropping("INODE", j))
    BY <2>3, <2>5, <1>1 DEF Bit
  <2>. QED BY <2>4, <2>6, <1>1, <1>6, InodeBalance DEF tables
<1>18. CountsInv'
  BY <1>15, <1>16, <1>17 DEF CountsInv
<1>. QED BY <1>1, <1>6, <1>8, <1>9, <1>12, <1>13, <1>14, <1>15, <1>18, LoudSafe DEF tables

LEMMA PipeFileSafe ==
  ASSUME FilesInv, NEW p \in Proc, PipeFile(p)
  PROVE  FilesInv'
<1>1. /\ p \in alive /\ step[p] = "pipe" /\ Len(call[p].todo) < 2 /\ FileTypes /\ died = FALSE
      /\ UNCHANGED <<file, iref, ends, tables, ilock, data, died>>
  BY DEF PipeFile, In, FilesInv
<1>2. /\ call[p].ff = NoneFile /\ call[p].np = Nobody /\ call[p].name = "pipe"
      /\ \A f \in ToSet(call[p].todo) : Untyped(f)
      /\ call[p].todo \in TodoLists /\ call[p] \in CallRec /\ cwd[p] \in Inum
  BY <1>1, Standing, CallTypes DEF Calling
<1>3. CASE FreeFiles = {}
  <2>1. Starts(p, "close", call[p]) /\ UNCHANGED <<ref, call>>
    BY <1>1, <1>3, Standing DEF PipeFile
  <2>2. Calling(p)'
    <3>1. step'[p] = "close" /\ call'[p] = call[p] /\ p \in alive' /\ cwd'[p] = cwd[p]
      BY <1>1, <2>1, Standing, Moved DEF tables
    <3>. QED BY <3>1, <1>1, Standing DEF Calling
  <2>. QED BY <2>1, <2>2, <1>1, Standing, QuietMove, KeptAll DEF FileTypes, Places, tables
<1>4. CASE FreeFiles # {}
  <2>1. PICK g \in File : g = Min(FreeFiles)
    BY <1>4, FreeFacts
  <2>2. ref[g] = 0 /\ Untyped(g) /\ g \notin ToSet(call[p].todo)
    BY <1>4, <2>1, FreeFacts
  <2>3. PICK t \in TodoLists : t = Append(call[p].todo, g) /\ ToSet(t) = ToSet(call[p].todo) \cup {g}
    BY <1>1, <1>2, <2>2, TodoFacts
  <2>. DEFINE c == [call[p] EXCEPT !.todo = t]
  <2>4. /\ Starts(p, "pipe", c) /\ ref' = [ref EXCEPT ![g] = 1] /\ ref' \in [File -> Nat]
    <3>1. ref' = [ref EXCEPT ![g] = 1] /\ Keeps(p, c) /\ UNCHANGED step
      BY <1>4, <2>1, <2>3 DEF PipeFile
    <3>. QED BY <3>1, <1>1, Standing DEF FileTypes
  <2>5. /\ c \in CallRec /\ c.todo = t /\ c.ff = NoneFile /\ c.np = Nobody /\ c.name = "pipe" /\ c.ip = call[p].ip
    <3>1. c \in CallRec /\ c.todo = t
      BY <1>2, CallTypes
    <3>. QED BY <3>1, <1>2 DEF CallRec
  <2>. HIDE DEF c
  <2>6. /\ step'[p] = "pipe" /\ call'[p] = c /\ step' \in [Proc -> Places] /\ call' \in [Proc -> CallRec] /\ Others(p)
    BY <1>1, <2>4, <2>5, Moved DEF tables, Places
  <2>7. FileTypes'
    BY <1>1, <2>4, <2>6 DEF FileTypes, tables
  <2>8. Calling(p)'
    <3>1. \A f \in ToSet(t) : Untyped(f)'
      BY <1>1, <1>2, <2>2, <2>3, UntypedSame
    <3>. QED BY <3>1, <1>1, <1>2, <2>5, <2>6, Standing DEF Calling, tables
  <2>9. Takes(p)
    BY <1>1, <2>2, <2>3, <2>5, <2>6, TakesSteady, UntypedSame DEF tables
  <2>10. HandedInv' /\ ReadyInv'
    <3>1. HandedInv'
      BY <1>1, <1>2, <2>5, <2>6, HandedSteady DEF tables
    <3>. QED BY <3>1, <1>1, <2>6, ReadySteady, UntypedSame DEF tables
  <2>11. EndsInv' /\ (\A h \in PipePage : PipeEnds(h)') /\ \A j \in Inum : InodeCount(j)'
    <3>1. \A f \in File : ~Untyped(f) => ref'[f] > 0
      BY <1>1, <2>2, <2>4 DEF FilesInv, EndsInv, FileTypes
    <3>2. \A j \in Inum : Finding(c, j) <=> Finding(call[p], j)
      BY <1>2, <2>5 DEF Finding
    <3>. QED BY <3>1, <3>2, <1>1, <1>2, <2>5, <2>6, <2>7, FileOnly DEF tables, FileTypes
  <2>12. ASSUME NEW f \in File PROVE FileCount(f)'
    <3>1. /\ ~(p \in Dups(f)) /\ ~(p \in Dups(f)')
          /\ (p \in Closings(f)') = (f = g \/ f \in ToSet(call[p].todo)) /\ (p \in Closings(f)) = (f \in ToSet(call[p].todo))
      <4>1. call'[p].todo = t /\ ToSet(t) = ToSet(call[p].todo) \cup {g} /\ alive' = alive
        BY <1>1, <2>3, <2>5, <2>6 DEF tables
      <4>2. (f \in ToSet(t)) = (f = g \/ f \in ToSet(call[p].todo))
        BY <4>1
      <4>3. (p \in Closings(f)') = (f \in ToSet(t)) /\ (p \in Closings(f)) = (f \in ToSet(call[p].todo))
        BY <1>1, <4>1 DEF Closings
      <4>. QED BY <1>1, <2>6, <4>2, <4>3 DEF Dups
    <3>2. ref'[f] = ref[f] + 0 + Bit(p \in Closings(f)') - Bit(p \in Closings(f))
                               - Bit(p \in Dups(f)') + Bit(p \in Dups(f))
      BY <3>1, <1>1, <2>2, <2>4 DEF Bit, FileTypes
    <3>3. Cardinality(Showing(f)') = Cardinality(Showing(f)) + 0 /\ 0 \in Int
      BY <1>1, ShowingSame DEF tables
    <3>. QED BY <3>2, <3>3, <1>1, <2>6, FileBalance DEF tables
  <2>13. CountsInv'
    BY <2>11, <2>12 DEF CountsInv
  <2>. QED BY <1>1, <2>6, <2>7, <2>8, <2>9, <2>10, <2>11, <2>13, LoudSafe DEF tables
<1>. QED BY <1>3, <1>4

(* fork and clone: the child in the making is p's, and shows what p shows.     *)
LEMMA ForkDupSafe ==
  ASSUME FilesInv, NEW p \in Proc, ForkDup(p)
  PROVE  FilesInv'
<1>1. /\ p \in alive /\ step[p] = "fork" /\ FileTypes /\ Uncopied(p) # {} /\ died = FALSE
      /\ Filedup(ofile[p][Min(Uncopied(p))])
      /\ ofile' = [ofile EXCEPT ![call[p].np][Min(Uncopied(p))] = ofile[p][Min(Uncopied(p))]]
      /\ UNCHANGED <<file, iref, ends, cwd, alive, ilock, data, step, call>>
  BY DEF ForkDup, In, FilesInv
<1>2. call[p] = [NoCall EXCEPT !.np = call[p].np] /\ call[p].np \in Proc \ alive
  BY <1>1, Standing DEF Calling
<1>3. call[p].todo = <<>> /\ call[p].ff = NoneFile /\ call[p].name = "none"
  BY <1>2 DEF NoCall
<1>4. PICK k \in Proc \ alive : k = call[p].np
  BY <1>2
<1>5. PICK dsc \in Fd : dsc = Min(Uncopied(p)) /\ ofile[k][dsc] = NoFile /\ dsc \in Descs(p)
  <2>1. Uncopied(p) \subseteq Nat /\ Uncopied(p) \subseteq Fd
    BY FileConsts DEF Uncopied, Descs
  <2>2. Min(Uncopied(p)) \in Uncopied(p)
    BY <1>1, <2>1, MinFacts
  <2>. QED BY <2>1, <2>2, <1>4 DEF Uncopied
<1>6. PICK g \in File : g = ofile[p][dsc] /\ Shows(p, g)
  BY <1>1, <1>5, DescFacts DEF Shows
<1>7. Gives(k, dsc, g) /\ Filedup(g) /\ p # k
  BY <1>1, <1>4, <1>5, <1>6 DEF Gives
<1>8. ref' = [ref EXCEPT ![g] = @ + 1] /\ UNCHANGED died /\ ref' \in [File -> Nat] /\ ref[g] > 0
  BY <1>6, <1>7, FiledupLives
<1>9. /\ ofile' \in [Proc -> [Fd -> File \cup {NoFile}]]
      /\ \A q \in Proc \ {k} : ofile'[q] = ofile[q] /\ \A f : Shows(q, f)' <=> Shows(q, f)
      /\ \A j \in Fd : ofile'[k][j] = IF j = dsc THEN g ELSE ofile[k][j]
      /\ \A f : Shows(k, f)' => Shows(k, f) \/ f = g
  <2>1. FileTypes /\ k \in Proc /\ dsc \in Fd /\ g \in File \cup {NoFile}
    BY <1>1, <1>4, <1>5
  <2>2. ofile' = [ofile EXCEPT ![k][dsc] = g]
    BY <1>7 DEF Gives
  <2>. QED BY <2>1, <2>2, ShowsStep
<1>10. /\ UNCHANGED <<file, iref, ends, cwd, alive, ilock, data, step, call>> /\ Others(p)
       /\ step'[p] = "fork" /\ call'[p] = call[p]
  BY <1>1 DEF Others
<1>11. FileTypes'
  BY <1>1, <1>8, <1>9, <1>10 DEF FileTypes
<1>12. Calling(p)'
  BY <1>1, <1>2, <1>10, Standing DEF Calling
<1>13. Takes(p)
  <2>1. \A q \in Proc, f \in File : Shows(q, f)' => Shows(q, f) \/ Shows(p, f)
    BY <1>6, <1>9
  <2>. QED BY <2>1, <1>3, <1>10, SetsEmpty, UntypedSame DEF Takes
<1>14. HandedInv'
  <2>1. ASSUME NEW q \in Proc \ alive, Descs(q)' # {} PROVE \E r \in alive : call[r].np = q
    <3>1. CASE q = k
      BY <3>1, <1>1, <1>4
    <3>2. CASE q # k
      <4>1. Descs(q)' = Descs(q)
        BY <3>2, <1>9 DEF Descs
      <4>. QED BY <4>1, <2>1 DEF FilesInv, ShownInv, HandedInv
    <3>. QED BY <3>1, <3>2
  <2>. QED BY <2>1, <1>10 DEF FilesInv, ShownInv, HandedInv
<1>15. ReadyInv'
  <2>1. ~Untyped(g)
    BY <1>1, <1>5, <1>6 DEF FilesInv, ShownInv, ReadyInv, Descs
  <2>2. \A q \in Proc, j \in Fd : ofile'[q][j] = ofile[q][j] \/ file'[ofile'[q][j]].type # "NONE"
    BY <2>1, <1>9, <1>10 DEF Untyped
  <2>. QED BY <2>2, <1>1, <1>10, ReadySteady, UntypedSame
<1>16. EndsInv' /\ (\A h \in PipePage : PipeEnds(h)') /\ \A j \in Inum : InodeCount(j)'
  <2>1. \A f \in File : ~Untyped(f) => ref'[f] > 0
    BY <1>1, <1>8 DEF FilesInv, EndsInv, FileTypes
  <2>. QED BY <2>1, <1>8, <1>10, <1>1, FileOnly
<1>17. ASSUME NEW f \in File PROVE FileCount(f)'
  <2>1. Cardinality(Showing(f)') = Cardinality(Showing(f)) + Bit(g = f) /\ Bit(g = f) \in Int
    BY <1>1, <1>5, <1>7, ShowingGiven DEF Gives
  <2>2. ~(p \in Dups(f)') /\ ~(p \in Dups(f)) /\ ~(p \in Closings(f)') /\ ~(p \in Closings(f))
    BY <1>1, <1>3, <1>10, SetsEmpty DEF Dups, Closings
  <2>3. ref'[f] = ref[f] + Bit(g = f) + Bit(p \in Closings(f)') - Bit(p \in Closings(f))
                             - Bit(p \in Dups(f)') + Bit(p \in Dups(f))
    BY <2>2, <1>1, <1>8 DEF Bit, FileTypes
  <2>. QED BY <2>1, <2>3, <1>1, <1>10, FileBalance
<1>18. CountsInv'
  BY <1>16, <1>17 DEF CountsInv
<1>19. \A q \in alive \ {p} : ofile'[q] = ofile[q]
  BY <1>1, <1>9 DEF FileTypes
<1>. QED BY <1>1, <1>8, <1>10, <1>11, <1>12, <1>13, <1>14, <1>15, <1>16, <1>18, <1>19, LoudSafe

(* fork's last step and exit's: a process k comes or goes.                     *)
LEMMA CensusSteady ==
  ASSUME FilesInv, NEW p \in alive, Starts(p, "user", NoCall), NEW k \in Proc,
         \A q \in {p, k} : /\ step[q] \in {"user", "fork", "close"} /\ call[q].todo = <<>> /\ call[q].ff = NoneFile
                           /\ call[q].name \notin {"open", "chdir"},
         \A q : q # k => (q \in alive' <=> q \in alive), alive' \subseteq Proc,
         UNCHANGED <<ref, file, ends, ofile>>
  PROVE  /\ ReadyInv' /\ TodoInv' /\ EndsInv'
         /\ (\A g \in PipePage : PipeEnds(g)') /\ \A f \in File : FileCount(f)'
         /\ \A i \in Inum : /\ Opens("INODE", i)' = Opens("INODE", i) /\ Finders(i)' = Finders(i)
                            /\ Dropping("INODE", i)' = Dropping("INODE", i)
<1>1. /\ FileTypes /\ p \in Proc /\ step'[p] = "user" /\ call'[p] = NoCall
      /\ \A q \in Proc \ {p} : step'[q] = step[q] /\ call'[q] = call[q]
  BY Standing DEF Starts, Goes, Keeps, FileTypes
<1>2. \A q \in Proc : call'[q].todo = call[q].todo /\ call'[q].ff = call[q].ff
  BY <1>1, NoCallFacts
<1>3. ReadyInv'
  <2>1. ASSUME NEW q \in Proc, NEW i \in Fd, ofile[q][i] # NoFile, file[ofile[q][i]].type = "NONE"
        PROVE  step'[q] = "opened" /\ call'[q].f = ofile[q][i]
    <3>1. step[q] = "opened" /\ call[q].f = ofile[q][i]
      BY <2>1 DEF FilesInv, ShownInv, ReadyInv, Untyped
    <3>. QED BY <3>1, <1>1
  <2>. QED BY <2>1 DEF ReadyInv, Untyped
<1>4. TodoInv'
  <2>1. \A f : Showing(f)' = Showing(f)
    BY DEF Showing
  <2>. QED BY <2>1, <1>2 DEF FilesInv, TodoInv
<1>5. EndsInv' /\ \A g \in PipePage : PipeEnds(g)'
  <2>1. \A q \in Proc : call[q].ff # NoneFile => (q \in alive' <=> q \in alive)
    OBVIOUS
  <2>2. \A f \in File : ~Untyped(f)' => ref'[f] > 0
    BY UntypedSame DEF FilesInv, EndsInv, FileTypes
  <2>3. ref' \in [File -> Nat] /\ alive' \subseteq Proc
    BY <1>1 DEF FileTypes
  <2>. QED BY <2>1, <2>2, <2>3, <1>2, KeptAll, EndsSteady
<1>6. ASSUME NEW f \in File PROVE FileCount(f)'
  <2>1. Showing(f)' = Showing(f) /\ FileCount(f)
    BY DEF Showing, FilesInv, CountsInv
  <2>2. \A q \in Proc : /\ q \in Dups(f)' <=> q \in Dups(f)
                        /\ q \in Closings(f)' <=> q \in Closings(f)
    BY <1>1, <1>2, SetsEmpty DEF Dups, Closings
  <2>3. Dups(f)' = Dups(f) /\ Closings(f)' = Closings(f)
    BY <2>2, <1>1 DEF Dups, Closings, FileTypes
  <2>. QED BY <2>1, <2>3 DEF FileCount
<1>7. ASSUME NEW i \in Inum
      PROVE  /\ Opens("INODE", i)' = Opens("INODE", i) /\ Finders(i)' = Finders(i)
             /\ Dropping("INODE", i)' = Dropping("INODE", i)
  <2>1. \A q \in Proc : /\ q \in Finders(i)' <=> q \in Finders(i)
                        /\ q \in Dropping("INODE", i)' <=> q \in Dropping("INODE", i)
    BY <1>1, <1>2, NoCallFacts DEF Finders, Dropping
  <2>2. Finders(i)' = Finders(i) /\ Dropping("INODE", i)' = Dropping("INODE", i)
    BY <2>1, <1>1 DEF Finders, Dropping, FileTypes
  <2>. QED BY <2>2 DEF Opens
<1>. QED BY <1>3, <1>4, <1>5, <1>6, <1>7

LEMMA CwdCounted ==
  ASSUME FilesInv, NEW p \in alive
  PROVE  cwd[p] \in Inum /\ iref[cwd[p]] > 0
<1>1. FileTypes /\ cwd[p] \in Inum
  BY Standing DEF Calling
<1>2. PICK i \in Inum : i = cwd[p]
  BY <1>1
<1>3. p \in Dwellers(i) /\ InodeCount(i) /\ iref[i] \in Nat
  BY <1>1, <1>2 DEF FilesInv, CountsInv, Dwellers, FileTypes
<1>4. Cardinality(Dwellers(i)) # 0
  BY <1>1, <1>3, FilesFinite, FS_EmptySet
<1>. QED BY <1>1, <1>2, <1>3, <1>4, CardTypes DEF InodeCount

LEMMA ForkDoneSafe ==
  ASSUME FilesInv, NEW p \in Proc, ForkDone(p)
  PROVE  FilesInv'
<1>1. /\ p \in alive /\ step[p] = "fork" /\ FileTypes /\ Starts(p, "user", NoCall)
      /\ iref' = [iref EXCEPT ![cwd[p]] = @ + 1]
      /\ cwd' = [cwd EXCEPT ![call[p].np] = cwd[p]]
      /\ alive' = alive \cup {call[p].np}
      /\ UNCHANGED <<ref, file, ends, ofile, ilock, data, died>> /\ died = FALSE
  BY DEF ForkDone, In, Returns, FilesInv
<1>2. call[p] = [NoCall EXCEPT !.np = call[p].np] /\ call[p].np \in Proc \ alive /\ cwd[p] \in Inum
  BY <1>1, Standing DEF Calling
<1>3. call[p].todo = <<>> /\ call[p].ff = NoneFile /\ call[p].name = "none"
  BY <1>2 DEF NoCall
<1>4. PICK k \in Proc \ alive : k = call[p].np
  BY <1>2
<1>5. PICK i \in Inum : i = cwd[p]
  BY <1>2
<1>6. /\ step[k] = "user" /\ call[k].todo = <<>> /\ call[k].ff = NoneFile /\ call[k].name = "none"
      /\ cwd[k] = NoInum /\ p # k
      /\ call[k] = [NoCall EXCEPT !.buf = call[k].buf]
  <2>1. Calling(k)
    BY DEF FilesInv, CallsInv
  <2>2. step[k] = "user" /\ cwd[k] = NoInum /\ call[k] = [NoCall EXCEPT !.buf = call[k].buf]
    BY <2>1 DEF Calling
  <2>3. call[k].todo = <<>> /\ call[k].ff = NoneFile /\ call[k].name = "none"
    BY <2>2 DEF NoCall
  <2>. QED BY <2>2, <2>3, <1>1
<1>7. /\ step'[p] = "user" /\ call'[p] = NoCall /\ step' \in [Proc -> Places] /\ call' \in [Proc -> CallRec]
      /\ \A q \in Proc \ {p} : step'[q] = step[q] /\ call'[q] = call[q]
  BY <1>1, NoCallFacts DEF Starts, Goes, Keeps, Places, FileTypes
<1>8. /\ alive' = alive \cup {k} /\ cwd'[k] = i /\ \A q \in Proc \ {k} : cwd'[q] = cwd[q]
      /\ cwd' \in [Proc -> Inum \cup {NoInum}] /\ alive' \subseteq Proc
  BY <1>1, <1>4, <1>5 DEF FileTypes
<1>9. iref' = [iref EXCEPT ![i] = @ + 1] /\ iref' \in [Inum -> Nat]
  BY <1>1, <1>5 DEF FileTypes
<1>10. FileTypes'
  BY <1>1, <1>7, <1>8, <1>9 DEF FileTypes
<1>11. /\ ReadyInv' /\ TodoInv' /\ EndsInv'
       /\ (\A g \in PipePage : PipeEnds(g)') /\ \A f \in File : FileCount(f)'
       /\ \A j \in Inum : /\ Opens("INODE", j)' = Opens("INODE", j) /\ Finders(j)' = Finders(j)
                          /\ Dropping("INODE", j)' = Dropping("INODE", j)
  <2>1. \A q : q # k => (q \in alive' <=> q \in alive)
    BY <1>8
  <2>2. k \in Proc /\ UNCHANGED <<ref, file, ends, ofile>> /\ alive' \subseteq Proc
    BY <1>1, <1>8
  <2>3. \A q \in {p, k} : /\ step[q] \in {"user", "fork", "close"} /\ call[q].todo = <<>> /\ call[q].ff = NoneFile
                          /\ call[q].name \notin {"open", "chdir"}
    BY <1>1, <1>3, <1>6
  <2>. QED BY <2>1, <2>2, <2>3, <1>1, CensusSteady
<1>12. HandedInv
  BY DEF FilesInv, ShownInv
<1>13. CallsInv'
  <2>1. Calling(p)'
    BY <1>1, <1>2, <1>6, <1>7, <1>8, NoCallFacts DEF Calling
  <2>2. Calling(k)'
    <3>1. step'[k] = "user" /\ call'[k] = call[k] /\ k \in alive' /\ cwd'[k] \in Inum /\ call[k].np = Nobody
      BY <1>6, <1>7, <1>8 DEF NoCall
    <3>. QED BY <3>1, <1>6 DEF Calling
  <2>3. ASSUME NEW q \in Proc \ {p, k} PROVE Calling(q)'
    <3>1. /\ step'[q] = step[q] /\ call'[q] = call[q] /\ cwd'[q] = cwd[q] /\ (q \in alive' <=> q \in alive)
          /\ Calling(q) /\ UNCHANGED <<file, ofile>>
      BY <1>1, <1>7, <1>8 DEF FilesInv, CallsInv
    <3>2. step[q] = "fork" => call[q].np \in Proc \ alive'
      <4>1. call[p].np # Nobody
        BY <1>2, FileConsts
      <4>2. call[q].np # k
        BY <4>1, <1>4, <1>12 DEF HandedInv
      <4>. QED BY <4>2, <3>1, <1>8 DEF Calling
    <3>. QED BY <3>1, <3>2 DEF Calling, Untyped, Shows
  <2>. QED BY <2>1, <2>2, <2>3 DEF CallsInv
<1>14. HandedInv'
  <2>1. ASSUME NEW q \in Proc \ alive', Descs(q) # {} PROVE \E r \in alive' : call'[r].np = q
    <3>1. PICK r \in alive : call[r].np = q
      BY <2>1, <1>8, <1>12 DEF HandedInv
    <3>2. r # p /\ r \in Proc /\ r \in alive'
      BY <3>1, <2>1, <1>1, <1>4, <1>8 DEF FileTypes
    <3>. QED BY <3>1, <3>2, <1>7
  <2>2. \A q, r \in Proc : q # r /\ call'[q].np # Nobody => call'[q].np # call'[r].np
    BY <1>7, <1>12, NoCallFacts DEF HandedInv
  <2>. QED BY <2>1, <2>2, <1>1 DEF HandedInv, Descs
<1>15. ASSUME NEW j \in Inum PROVE InodeCount(j)'
  <2>1. \A q : q # k => (q \in Dwellers(j)' <=> q \in Dwellers(j))
    BY <1>1, <1>8 DEF Dwellers, FileTypes
  <2>2. Cardinality(Dwellers(j)') = Cardinality(Dwellers(j)) + Bit(k \in Dwellers(j)') - Bit(k \in Dwellers(j))
    BY <2>1, <1>1, FilesFinite, BitStep
  <2>3. (k \in Dwellers(j)') = (i = j) /\ ~(k \in Dwellers(j))
    BY <1>8 DEF Dwellers
  <2>4. /\ InodeCount(j) /\ iref[j] \in Nat /\ iref'[j] = iref[j] + Bit(i = j)
        /\ Cardinality(Opens("INODE", j)) \in Nat /\ Cardinality(Dropping("INODE", j)) \in Nat
        /\ Cardinality(Dwellers(j)) \in Nat /\ Cardinality(Finders(j)) \in Nat
    <3>1. InodeCount(j) /\ iref \in [Inum -> Nat]
      BY DEF FilesInv, CountsInv, FileTypes
    <3>2. iref'[j] = iref[j] + Bit(i = j)
      BY <3>1, <1>9 DEF Bit
    <3>. QED BY <3>1, <3>2, <1>1, CardTypes
  <2>. QED BY <2>2, <2>3, <2>4, <1>11 DEF InodeCount, Bit
<1>. QED BY <1>1, <1>10, <1>11, <1>13, <1>14, <1>15 DEF FilesInv, ShownInv, CountsInv

LEMMA ExitDoneSafe ==
  ASSUME FilesInv, NEW p \in Proc, ExitDone(p)
  PROVE  FilesInv'
<1>1. /\ p \in alive /\ step[p] = "close" /\ call[p].name = "exit" /\ FileTypes /\ Starts(p, "user", NoCall)
      /\ Descs(p) = {} /\ iref' = [iref EXCEPT ![cwd[p]] = @ - 1]
      /\ cwd' = [cwd EXCEPT ![p] = NoInum] /\ alive' = alive \ {p}
      /\ UNCHANGED <<ref, file, ends, ofile, ilock, data, died>> /\ died = FALSE
  BY DEF ExitDone, In, Returns, FilesInv
<1>2. call[p].todo = <<>> /\ call[p].ff = NoneFile /\ call[p].np = Nobody
  BY <1>1, Standing DEF Calling
<1>3. PICK i \in Inum : i = cwd[p] /\ iref[i] > 0
  BY <1>1, CwdCounted
<1>4. /\ step'[p] = "user" /\ call'[p] = NoCall /\ step' \in [Proc -> Places] /\ call' \in [Proc -> CallRec]
      /\ \A q \in Proc \ {p} : step'[q] = step[q] /\ call'[q] = call[q]
  BY <1>1, NoCallFacts DEF Starts, Goes, Keeps, Places, FileTypes
<1>5. /\ cwd'[p] = NoInum /\ \A q \in Proc \ {p} : cwd'[q] = cwd[q]
      /\ cwd' \in [Proc -> Inum \cup {NoInum}] /\ alive' \subseteq Proc
  BY <1>1 DEF FileTypes
<1>6. iref' = [iref EXCEPT ![i] = @ - 1] /\ iref' \in [Inum -> Nat]
  BY <1>1, <1>3 DEF FileTypes
<1>7. FileTypes'
  BY <1>1, <1>4, <1>5, <1>6 DEF FileTypes
<1>8. /\ ReadyInv' /\ TodoInv' /\ EndsInv'
      /\ (\A g \in PipePage : PipeEnds(g)') /\ \A f \in File : FileCount(f)'
      /\ \A j \in Inum : /\ Opens("INODE", j)' = Opens("INODE", j) /\ Finders(j)' = Finders(j)
                         /\ Dropping("INODE", j)' = Dropping("INODE", j)
  <2>1. \A q : q # p => (q \in alive' <=> q \in alive)
    BY <1>1
  <2>2. UNCHANGED <<ref, file, ends, ofile>> /\ alive' \subseteq Proc
    BY <1>1, <1>5
  <2>3. \A q \in {p, p} : /\ step[q] \in {"user", "fork", "close"} /\ call[q].todo = <<>> /\ call[q].ff = NoneFile
                          /\ call[q].name \notin {"open", "chdir"}
    BY <1>1, <1>2
  <2>. QED BY <2>1, <2>2, <2>3, <1>1, CensusSteady
<1>9. HandedInv
  BY DEF FilesInv, ShownInv
<1>10. CallsInv'
  <2>1. Calling(p)'
    BY <1>1, <1>4, <1>5, NoCallFacts DEF Calling
  <2>2. ASSUME NEW q \in Proc \ {p} PROVE Calling(q)'
    <3>1. /\ step'[q] = step[q] /\ call'[q] = call[q] /\ cwd'[q] = cwd[q] /\ (q \in alive' <=> q \in alive)
          /\ Calling(q) /\ UNCHANGED <<file, ofile>> /\ alive' \subseteq alive
      BY <1>1, <1>4, <1>5 DEF FilesInv, CallsInv
    <3>. QED BY <3>1 DEF Calling, Untyped, Shows
  <2>. QED BY <2>1, <2>2 DEF CallsInv
<1>11. HandedInv'
  <2>1. ASSUME NEW q \in Proc \ alive', Descs(q) # {} PROVE \E r \in alive' : call'[r].np = q
    <3>1. PICK r \in alive : call[r].np = q
      BY <2>1, <1>1, <1>9 DEF HandedInv
    <3>2. r # p /\ r \in Proc /\ r \in alive'
      BY <3>1, <2>1, <1>1, <1>2, FileConsts DEF FileTypes
    <3>. QED BY <3>1, <3>2, <1>4
  <2>2. \A q, r \in Proc : q # r /\ call'[q].np # Nobody => call'[q].np # call'[r].np
    BY <1>4, <1>9, NoCallFacts DEF HandedInv
  <2>. QED BY <2>1, <2>2, <1>1 DEF HandedInv, Descs
<1>12. ASSUME NEW j \in Inum PROVE InodeCount(j)'
  <2>1. \A q : q # p => (q \in Dwellers(j)' <=> q \in Dwellers(j))
    BY <1>1, <1>5 DEF Dwellers, FileTypes
  <2>2. Cardinality(Dwellers(j)') = Cardinality(Dwellers(j)) + Bit(p \in Dwellers(j)') - Bit(p \in Dwellers(j))
    BY <2>1, <1>1, FilesFinite, BitStep
  <2>3. (p \in Dwellers(j)) = (i = j) /\ ~(p \in Dwellers(j)')
    BY <1>1, <1>3 DEF Dwellers
  <2>4. /\ InodeCount(j) /\ iref[j] \in Nat /\ iref'[j] = iref[j] - Bit(i = j)
        /\ Cardinality(Opens("INODE", j)) \in Nat /\ Cardinality(Dropping("INODE", j)) \in Nat
        /\ Cardinality(Dwellers(j)) \in Nat /\ Cardinality(Finders(j)) \in Nat
    <3>1. InodeCount(j) /\ iref \in [Inum -> Nat]
      BY DEF FilesInv, CountsInv, FileTypes
    <3>2. iref'[j] = iref[j] - Bit(i = j)
      BY <3>1, <1>6 DEF Bit
    <3>. QED BY <3>1, <3>2, <1>1, CardTypes
  <2>. QED BY <2>2, <2>3, <2>4, <1>8 DEF InodeCount, Bit
<1>. QED BY <1>1, <1>7, <1>8, <1>10, <1>11, <1>12 DEF FilesInv, ShownInv, CountsInv
-----------------------------------------------------------------------------
(* fileclose.  p lets go of one hold on f, be it a descriptor or a file it has *)
(* taken, and goes on with c.                                                  *)
LetsGo(p, f, c) ==
    /\ ofile' \in [Proc -> [Fd -> File \cup {NoFile}]]
    /\ \A q \in Proc \ {p} : ofile'[q] = ofile[q]
    /\ \A j \in Fd : ofile'[p][j] \in {ofile[p][j], NoFile}
    /\ ToSet(c.todo) \subseteq ToSet(call[p].todo)
    /\ ref[f] > 0
    /\ ref[f] = 1 => f \notin ToSet(c.todo) /\ \A q \in Proc : ~Shows(q, f)'
    /\ \A h \in File :
         Cardinality(Showing(h)') = Cardinality(Showing(h)) + Bit(h \in ToSet(call[p].todo))
                                    - Bit(h \in ToSet(c.todo)) - Bit(h = f)
Closer(p, c) ==
    /\ c \in CallRec /\ c.ff = NoneFile /\ c.np = Nobody /\ c.name \in {"open", "pipe", "close", "exit"}
    /\ c.todo # <<>> => c.name # "exit"
    /\ c.name = "open" => c.ip \in Inum
    /\ call[p].ff = NoneFile /\ call[p].np = Nobody /\ step[p] \in {"user", "close"}
    /\ \A i \in Inum : Finding(c, i) <=> Finding(call[p], i)

LEMMA LetsGoShows ==
  ASSUME FileTypes, NEW p \in Proc, NEW f, NEW c, LetsGo(p, f, c)
  PROVE  \A q \in Proc, h \in File : Shows(q, h)' => Shows(q, h)
<1>1. ASSUME NEW q \in Proc, NEW h \in File, Shows(q, h)' PROVE Shows(q, h)
  <2>1. PICK j \in Fd : ofile'[q][j] = h
    BY <1>1 DEF Shows
  <2>2. ofile[q][j] = h
    BY <2>1, FileConsts DEF LetsGo
  <2>. QED BY <2>2 DEF Shows
<1>. QED BY <1>1

(* What both closes leave: the last (d keeps the file's fields) and another.   *)
LEMMA LetsGoSteady ==
  ASSUME FilesInv, NEW p \in alive, alive' = alive, NEW f \in File, NEW c, LetsGo(p, f, c), Closer(p, c),
         Others(p), call'[p].todo = c.todo, call'[p].np = c.np, step'[p] # "dup",
         ref' = [ref EXCEPT ![f] = @ - 1],
         \A h \in File : file'[h] = IF h = f /\ ref[f] = 1 THEN NoneFile ELSE file[h]
  PROVE  /\ Takes(p) /\ HandedInv' /\ ReadyInv' /\ ref' \in [File -> Nat]
         /\ \A h \in File : FileCount(h)'
<1>1. FileTypes /\ p \in Proc /\ ref[f] \in Nat \ {0} /\ ref \in [File -> Nat]
  <2>1. ref[f] > 0
    BY DEF LetsGo
  <2>2. FileTypes /\ p \in Proc
    BY Standing
  <2>3. ref \in [File -> Nat]
    BY <2>2 DEF FileTypes
  <2>. QED BY <2>1, <2>2, <2>3
<1>2. \A q \in Proc, h \in File : Shows(q, h)' => Shows(q, h)
  BY <1>1, LetsGoShows
<1>3. \A h \in File : Untyped(h) => Untyped(h)'
  BY NoCallFacts DEF Untyped
<1>4. Takes(p)
  BY <1>2, <1>3 DEF Takes, LetsGo
<1>5. HandedInv'
  <2>1. \A q \in Proc \ alive : ofile'[q] = ofile[q]
    BY DEF LetsGo
  <2>. QED BY <2>1, HandedSteady DEF Closer
<1>6. ReadyInv'
  <2>1. \A q \in Proc, i \in Fd : ofile'[q][i] \in {ofile[q][i], NoFile}
    BY DEF LetsGo
  <2>2. \A h \in File : Untyped(h)' => Untyped(h) \/ \A q \in Proc : ~Shows(q, h)'
    <3>1. ASSUME NEW h \in File, Untyped(h)', h # f \/ ref[f] # 1 PROVE Untyped(h)
      BY <3>1 DEF Untyped
    <3>2. ref[f] = 1 => \A q \in Proc : ~Shows(q, f)'
      BY DEF LetsGo
    <3>. QED BY <3>1, <3>2
  <2>3. step[p] # "opened"
    BY DEF Closer
  <2>. QED BY <2>1, <2>2, <2>3, ReadySteady
<1>7. ref' \in [File -> Nat]
  <2>1. ref[f] - 1 \in Nat
    BY <1>1
  <2>. QED BY <2>1, <1>1
<1>8. ASSUME NEW h \in File PROVE FileCount(h)'
  <2>. DEFINE n == Bit(h \in ToSet(call[p].todo)) - Bit(h \in ToSet(c.todo)) - Bit(h = f)
  <2>1. n \in Int /\ Cardinality(Showing(h)) \in Nat /\ ref[h] \in Nat
    BY <1>1, CardTypes DEF Bit
  <2>2. Cardinality(Showing(h)') = Cardinality(Showing(h)) + n
    <3>1. /\ Cardinality(Showing(h)') = Cardinality(Showing(h)) + Bit(h \in ToSet(call[p].todo))
                                        - Bit(h \in ToSet(c.todo)) - Bit(h = f)
      BY DEF LetsGo
    <3>. QED BY <3>1, <2>1 DEF Bit
  <2>3. /\ ~(p \in Dups(h)') /\ ~(p \in Dups(h))
        /\ (p \in Closings(h)') = (h \in ToSet(c.todo)) /\ (p \in Closings(h)) = (h \in ToSet(call[p].todo))
    BY DEF Closer, Dups, Closings
  <2>4. ref'[h] = ref[h] - Bit(h = f)
    BY <1>1 DEF Bit
  <2>5. ref'[h] = ref[h] + n + Bit(p \in Closings(h)') - Bit(p \in Closings(h))
                             - Bit(p \in Dups(h)') + Bit(p \in Dups(h))
    BY <2>1, <2>3, <2>4 DEF Bit
  <2>. HIDE DEF n
  <2>. QED BY <2>1, <2>2, <2>5, FileBalance
<1>. QED BY <1>4, <1>5, <1>6, <1>7, <1>8

LEMMA CloseAnother ==
  ASSUME FilesInv, NEW p \in alive, NEW f \in File, NEW c, LetsGo(p, f, c), Closer(p, c), ref[f] > 1,
         ref' = [ref EXCEPT ![f] = @ - 1], Starts(p, "close", c),
         UNCHANGED <<file, iref, ends, cwd, alive, ilock, data, died>>
  PROVE  FilesInv'
<1>1. /\ FileTypes /\ p \in Proc /\ c \in CallRec /\ died = FALSE /\ call[p].ff = c.ff
      /\ ref \in [File -> Nat] /\ cwd[p] \in Inum
  BY Standing DEF Closer, Calling, FileTypes
<1>2. /\ step'[p] = "close" /\ call'[p] = c /\ step' \in [Proc -> Places] /\ call' \in [Proc -> CallRec] /\ Others(p)
  BY <1>1, Moved DEF Places
<1>3. \A h \in File : file'[h] = IF h = f /\ ref[f] = 1 THEN NoneFile ELSE file[h]
  OBVIOUS
<1>4. /\ Takes(p) /\ HandedInv' /\ ReadyInv' /\ ref' \in [File -> Nat]
      /\ \A h \in File : FileCount(h)'
  BY <1>2, <1>3, LetsGoSteady
<1>5. ofile' \in [Proc -> [Fd -> File \cup {NoFile}]] /\ \A q \in Proc \ {p} : ofile'[q] = ofile[q]
  BY DEF LetsGo
<1>6. FileTypes'
  BY <1>1, <1>2, <1>4, <1>5 DEF FileTypes
<1>7. Calling(p)'
  BY <1>1, <1>2 DEF Calling, Closer
<1>8. EndsInv' /\ (\A h \in PipePage : PipeEnds(h)') /\ \A j \in Inum : InodeCount(j)'
  <2>1. \A h \in File : ~Untyped(h) => ref'[h] > 0
    BY <1>1 DEF FilesInv, EndsInv, FileTypes
  <2>2. \A j \in Inum : Finding(call'[p], j) <=> Finding(call[p], j)
    BY <1>2 DEF Closer
  <2>. QED BY <2>1, <2>2, <1>1, <1>2, <1>4, FileOnly
<1>9. CountsInv'
  BY <1>4, <1>8 DEF CountsInv
<1>10. \A q \in alive \ {p} : ofile'[q] = ofile[q]
  BY <1>1, <1>5 DEF FileTypes
<1>. QED BY <1>1, <1>2, <1>4, <1>6, <1>7, <1>8, <1>9, <1>10, LoudSafe

(* The last close moves the fields of f to ff.                                 *)
LEMMA EndsMoved ==
  ASSUME FilesInv, NEW p \in alive, NEW f \in File, alive' = alive, UNCHANGED ends, Others(p),
         ref[f] > 0, call[p].ff = NoneFile, call'[p].ff = file[f], file'[f] = NoneFile, ref'[f] = 0,
         \A h \in File \ {f} : file'[h] = file[h] /\ ref'[h] = ref[h]
  PROVE  EndsInv' /\ \A g \in PipePage : PipeEnds(g)'
<1>1. FileTypes /\ EndsInv /\ CountsInv /\ p \in Proc /\ alive \subseteq Proc
  BY DEF FilesInv, FileTypes
<1>2. EndsInv'
  <2>1. \A h \in File : FieldsOK(file'[h]) /\ (ref'[h] = 0 => file'[h].type = "NONE")
    BY <1>1, NoCallFacts DEF EndsInv, FieldsOK, Untyped
  <2>2. \A q \in Proc : FieldsOK(call'[q].ff)
    BY <1>1 DEF EndsInv, Others
  <2>3. \A g, h \in File : g # h => ~SameEnd(file'[g], file'[h])
    <3>1. \A r : ~SameEnd(NoneFile, r) /\ ~SameEnd(r, NoneFile)
      BY NoCallFacts DEF SameEnd
    <3>. QED BY <3>1, <1>1 DEF EndsInv
  <2>4. \A h \in File, q \in Proc : ~SameEnd(file'[h], call'[q].ff)
    <3>1. \A r : ~SameEnd(NoneFile, r)
      BY NoCallFacts DEF SameEnd
    <3>. QED BY <3>1, <1>1 DEF EndsInv, Others
  <2>5. \A q, s \in Proc : q # s => ~SameEnd(call'[q].ff, call'[s].ff)
    <3>1. \A r, u : SameEnd(r, u) => SameEnd(u, r)
      BY DEF SameEnd
    <3>. QED BY <3>1, <1>1 DEF EndsInv, Others
  <2>. QED BY <2>1, <2>2, <2>3, <2>4, <2>5 DEF EndsInv, Untyped
<1>3. ASSUME NEW g \in PipePage PROVE PipeEnds(g)'
  <2>. DEFINE End(r, m) == r.type = "PIPE" /\ r.obj = g /\ m \in r.mode
  <2>1. \A m \in {"r", "w"} : m \in ends[g] <=> (\E h \in File : ref[h] > 0 /\ End(file[h], m))
                                                \/ (\E q \in alive : End(call[q].ff, m))
    BY <1>1 DEF CountsInv, PipeEnds
  <2>2. \A m : ~End(NoneFile, m)
    BY NoCallFacts
  <2>. HIDE DEF End
  <2>3. ASSUME NEW m \in {"r", "w"}
        PROVE  m \in ends'[g] <=> (\E h \in File : ref'[h] > 0 /\ End(file'[h], m))
                                  \/ (\E q \in alive : End(call'[q].ff, m))
    <3>1. (\E h \in File : ref'[h] > 0 /\ End(file'[h], m)) <=> \E h \in File \ {f} : ref[h] > 0 /\ End(file[h], m)
      BY <2>2
    <3>2. (\E q \in alive : End(call'[q].ff, m)) <=> End(file[f], m) \/ \E q \in alive \ {p} : End(call[q].ff, m)
      BY <1>1 DEF Others
    <3>3. (\E q \in alive : End(call[q].ff, m)) <=> \E q \in alive \ {p} : End(call[q].ff, m)
      BY <2>2
    <3>4. (\E h \in File : ref[h] > 0 /\ End(file[h], m))
            <=> End(file[f], m) \/ \E h \in File \ {f} : ref[h] > 0 /\ End(file[h], m)
      OBVIOUS
    <3>. QED BY <2>1, <3>1, <3>2, <3>3, <3>4
  <2>. QED BY <2>3 DEF PipeEnds, End
<1>. QED BY <1>2, <1>3

LEMMA CloseLast ==
  ASSUME FilesInv, NEW p \in alive, NEW f \in File, NEW c, LetsGo(p, f, c), Closer(p, c), ref[f] = 1,
         ref' = [ref EXCEPT ![f] = @ - 1], Starts(p, "drop", [c EXCEPT !.ff = file[f]]),
         file' = [file EXCEPT ![f] = NoneFile],
         UNCHANGED <<iref, ends, cwd, alive, ilock, data, died>>
  PROVE  FilesInv'
<1>. DEFINE dsc == [c EXCEPT !.ff = file[f]]
<1>1. /\ FileTypes /\ p \in Proc /\ c \in CallRec /\ died = FALSE /\ call[p].ff = NoneFile
      /\ ref \in [File -> Nat] /\ cwd[p] \in Inum /\ file[f] \in FileRec
  BY Standing DEF Closer, Calling, FileTypes
<1>2. /\ dsc \in CallRec /\ dsc.ff = file[f] /\ dsc.todo = c.todo /\ dsc.np = c.np /\ dsc.name = c.name /\ dsc.ip = c.ip
      /\ dsc.todo \in TodoLists
  <2>1. dsc \in CallRec /\ dsc.ff = file[f]
    BY <1>1, CallTypes
  <2>. QED BY <2>1, <1>1, CallTypes DEF CallRec
<1>. HIDE DEF dsc
<1>3. /\ step'[p] = "drop" /\ call'[p] = dsc /\ step' \in [Proc -> Places] /\ call' \in [Proc -> CallRec] /\ Others(p)
  <2>1. Starts(p, "drop", dsc)
    BY DEF dsc
  <2>. QED BY <2>1, <1>1, <1>2, Moved DEF Places
<1>4. /\ file' \in [File -> FileRec] /\ file'[f] = NoneFile /\ \A h \in File \ {f} : file'[h] = file[h]
  BY <1>1, NoCallFacts DEF FileTypes
<1>5. /\ Takes(p) /\ HandedInv' /\ ReadyInv' /\ ref' \in [File -> Nat]
      /\ \A h \in File : FileCount(h)'
  <2>1. \A h \in File : file'[h] = IF h = f /\ ref[f] = 1 THEN NoneFile ELSE file[h]
    BY <1>4
  <2>. QED BY <2>1, <1>2, <1>3, LetsGoSteady
<1>6. ofile' \in [Proc -> [Fd -> File \cup {NoFile}]] /\ \A q \in Proc \ {p} : ofile'[q] = ofile[q]
  BY DEF LetsGo
<1>7. FileTypes'
  BY <1>1, <1>3, <1>4, <1>5, <1>6 DEF FileTypes
<1>8. Calling(p)'
  BY <1>1, <1>2, <1>3 DEF Calling, Closer
<1>9. ref'[f] = 0 /\ \A h \in File \ {f} : ref'[h] = ref[h]
  BY <1>1
<1>10. EndsInv' /\ \A g \in PipePage : PipeEnds(g)'
  BY <1>1, <1>2, <1>3, <1>4, <1>9, EndsMoved
<1>11. ASSUME NEW j \in Inum PROVE InodeCount(j)'
  <2>. DEFINE b == Bit(file[f].type = "INODE" /\ file[f].obj = j)
  <2>1. Cardinality(Opens("INODE", j)') = Cardinality(Opens("INODE", j)) + Bit(f \in Opens("INODE", j)') - Bit(f \in Opens("INODE", j))
    BY <1>1, <1>4, <1>9, OpensStep
  <2>2. ~(f \in Opens("INODE", j)') /\ (f \in Opens("INODE", j)) = (file[f].type = "INODE" /\ file[f].obj = j)
    BY <1>1, <1>4, NoCallFacts DEF Opens
  <2>3. Cardinality(Opens("INODE", j)) \in Nat /\ iref[j] \in Nat
    BY <1>1, CardTypes DEF FileTypes
  <2>4. b \in {0, 1} /\ 0 - b \in Int /\ Cardinality(Opens("INODE", j)') = Cardinality(Opens("INODE", j)) + (0 - b)
    BY <2>1, <2>2, <2>3 DEF Bit
  <2>5. /\ (p \in Finders(j)') = (p \in Finders(j))
        /\ (p \in Dwellers(j)') = (p \in Dwellers(j))
        /\ (p \in Dropping("INODE", j)') = (file[f].type = "INODE" /\ file[f].obj = j) /\ ~(p \in Dropping("INODE", j))
    <3>1. (p \in Finders(j)') = (p \in Finders(j))
      <4>1. Finding(call'[p], j) <=> Finding(call[p], j)
        BY <1>2, <1>3 DEF Closer, Finding
      <4>. QED BY <4>1 DEF Finders, Finding
    <3>2. (p \in Dwellers(j)') = (p \in Dwellers(j))
      BY DEF Dwellers
    <3>. QED BY <3>1, <3>2, <1>1, <1>2, <1>3, NoCallFacts DEF Dropping
  <2>6. Bit(p \in Dropping("INODE", j)') = b /\ Bit(p \in Dropping("INODE", j)) = 0
    BY <2>5 DEF Bit
  <2>. HIDE DEF b
  <2>7. iref'[j] = iref[j] + (0 - b) + Bit(p \in Dwellers(j)') - Bit(p \in Dwellers(j))
                    + Bit(p \in Finders(j)') - Bit(p \in Finders(j))
                    + Bit(p \in Dropping("INODE", j)') - Bit(p \in Dropping("INODE", j))
    <3>1. Bit(p \in Dwellers(j)') = Bit(p \in Dwellers(j)) /\ Bit(p \in Finders(j)') = Bit(p \in Finders(j))
          /\ Bit(p \in Dwellers(j)) \in {0, 1} /\ Bit(p \in Finders(j)) \in {0, 1}
      BY <2>5 DEF Bit
    <3>. QED BY <3>1, <2>3, <2>4, <2>6
  <2>. QED BY <2>4, <2>7, <1>1, <1>3, InodeBalance
<1>12. CountsInv'
  BY <1>5, <1>10, <1>11 DEF CountsInv
<1>13. \A q \in alive \ {p} : ofile'[q] = ofile[q]
  BY <1>1, <1>6 DEF FileTypes
<1>. QED BY <1>1, <1>3, <1>5, <1>7, <1>8, <1>10, <1>12, <1>13, LoudSafe

LEMMA CloseCountSafe ==
  ASSUME FilesInv, NEW p \in alive, NEW f \in File, NEW c, LetsGo(p, f, c), Closer(p, c),
         CloseCount(p, f, c), UNCHANGED <<iref, ends, cwd, alive, ilock, data>>
  PROVE  FilesInv'
<1>1. ref[f] \in Nat \ {0}
  BY DEF FilesInv, FileTypes, LetsGo
<1>2. CASE ref[f] > 1
  BY <1>1, <1>2, CloseAnother DEF CloseCount
<1>3. CASE ref[f] = 1
  BY <1>1, <1>3, CloseLast DEF CloseCount, LastClosed
<1>. QED BY <1>1, <1>2, <1>3

(* Letting go of a descriptor, ...                                             *)
LEMMA CloseFd ==
  ASSUME FilesInv, NEW p \in alive, step[p] # "dup", NEW i \in Descs(p), NEW f \in File, f = ofile[p][i],
         NEW c, c.todo = <<>>, call[p].todo = <<>>, Gives(p, i, NoFile)
  PROVE  LetsGo(p, f, c)
<1>1. FileTypes /\ p \in Proc /\ i \in Fd
  BY Standing DEF Descs
<1>2. /\ ofile' \in [Proc -> [Fd -> File \cup {NoFile}]]
      /\ \A q \in Proc \ {p} : ofile'[q] = ofile[q]
      /\ \A j \in Fd : ofile'[p][j] = IF j = i THEN NoFile ELSE ofile[p][j]
  BY <1>1, ShowsStep DEF Gives
<1>3. ref[f] > 0 /\ ref[f] \in Nat
  BY <1>1, Holders DEF Shows, FileTypes
<1>4. ASSUME ref[f] = 1, NEW q \in Proc, Shows(q, f)' PROVE FALSE
  <2>1. PICK j \in Fd : ofile'[q][j] = f
    BY <1>4 DEF Shows
  <2>2. ofile[q][j] = f /\ (q # p \/ j # i)
    BY <2>1, <1>2, FileConsts
  <2>3. p \notin Dups(f)
    BY DEF Dups
  <2>4. Showing(f) = {<<p, i>>}
    BY <2>3, <1>1, <1>4, Holders
  <2>5. <<q, j>> \in Showing(f)
    BY <2>2 DEF Showing
  <2>. QED BY <2>2, <2>4, <2>5
<1>5. ASSUME NEW h \in File
      PROVE  Cardinality(Showing(h)') = Cardinality(Showing(h)) + Bit(h \in ToSet(call[p].todo))
                                        - Bit(h \in ToSet(c.todo)) - Bit(h = f)
  <2>1. ofile'[p][i] = NoFile /\ \A q \in Proc, j \in Fd : q # p \/ j # i => ofile'[q][j] = ofile[q][j]
    BY <1>1, <1>2
  <2>2. Cardinality(Showing(h)') = Cardinality(Showing(h)) + Bit(NoFile = h) - Bit(ofile[p][i] = h)
    BY <2>1, <1>1, ShowingStep
  <2>3. NoFile # h /\ h \notin ToSet(c.todo) /\ h \notin ToSet(call[p].todo) /\ (ofile[p][i] = h) = (h = f)
    BY SetsEmpty, FileConsts
  <2>4. Cardinality(Showing(h)) \in Nat
    BY <1>1, CardTypes
  <2>. QED BY <2>2, <2>3, <2>4 DEF Bit
<1>6. \A j \in Fd : ofile'[p][j] \in {ofile[p][j], NoFile}
  BY <1>2
<1>7. ToSet(c.todo) = {} /\ ToSet(call[p].todo) = {}
  BY SetsEmpty
<1>. QED BY <1>2, <1>3, <1>4, <1>5, <1>6, <1>7 DEF LetsGo

(* What each of the three calls of fileclose hands to CloseCount.              *)
Closes(p, f, c) ==
    /\ p \in alive /\ LetsGo(p, f, c) /\ Closer(p, c) /\ CloseCount(p, f, c)
    /\ c.name = "open" => step[p] = "close" /\ call[p].name = "open" /\ c.ip = call[p].ip
    /\ UNCHANGED <<iref, ends, cwd, alive, ilock, data>>

LEMMA CloseCloses ==
  ASSUME FilesInv, NEW p \in Proc, Close(p)
  PROVE  \E f \in File : \E c : Closes(p, f, c)
<1>. DEFINE c == [NoCall EXCEPT !.name = "close"]
<1>1. PICK dsc \in Descs(p) : /\ ofile' = [ofile EXCEPT ![p][dsc] = NoFile]
                              /\ CloseCount(p, ofile[p][dsc], c)
  BY DEF Close
<1>2. p \in alive /\ step[p] = "user" /\ FileTypes /\ UNCHANGED <<iref, ends, cwd, alive, ilock, data>>
  BY DEF Close, May, In, FilesInv
<1>3. PICK f \in File : f = ofile[p][dsc]
  BY <1>2, DescFacts
<1>4. c \in CallRec /\ c.todo = <<>> /\ c.ff = NoneFile /\ c.np = Nobody /\ c.name = "close"
  <2>1. c \in CallRec
    BY NoCallFacts DEF CallRec
  <2>. QED BY <2>1 DEF NoCall
<1>5. CloseCount(p, f, c) /\ Gives(p, dsc, NoFile)
  BY <1>1, <1>3 DEF Gives
<1>. HIDE DEF c
<1>6. call[p].todo = <<>>
  BY <1>2, UserFacts
<1>7. LetsGo(p, f, c)
  BY <1>2, <1>3, <1>4, <1>5, <1>6, CloseFd
<1>8. Closer(p, c)
  BY <1>2, <1>4, UserFacts DEF Closer
<1>. QED BY <1>2, <1>4, <1>5, <1>7, <1>8 DEF Closes

LEMMA ExitCloseCloses ==
  ASSUME FilesInv, NEW p \in Proc, ExitClose(p)
  PROVE  \E f \in File : \E c : Closes(p, f, c)
<1>1. /\ p \in alive /\ step[p] = "close" /\ call[p].name = "exit" /\ Descs(p) # {} /\ FileTypes
      /\ CloseCount(p, ofile[p][Min(Descs(p))], call[p])
      /\ ofile' = [ofile EXCEPT ![p][Min(Descs(p))] = NoFile]
      /\ UNCHANGED <<iref, ends, cwd, alive, ilock, data>>
  BY DEF ExitClose, In, FilesInv
<1>2. PICK dsc \in Descs(p) : dsc = Min(Descs(p))
  <2>1. Descs(p) \subseteq Nat
    BY <1>1, FileConsts, DescFacts
  <2>. QED BY <2>1, <1>1, MinFacts
<1>3. PICK f \in File : f = ofile[p][dsc]
  BY <1>1, DescFacts
<1>4. CloseCount(p, f, call[p]) /\ Gives(p, dsc, NoFile)
  BY <1>1, <1>2, <1>3 DEF Gives
<1>5. /\ call[p] \in CallRec /\ call[p].todo = <<>> /\ call[p].ff = NoneFile /\ call[p].np = Nobody
  BY <1>1, Standing DEF Calling
<1>6. LetsGo(p, f, call[p])
  BY <1>1, <1>3, <1>4, <1>5, CloseFd
<1>7. Closer(p, call[p])
  BY <1>1, <1>5 DEF Closer
<1>. QED BY <1>1, <1>4, <1>6, <1>7 DEF Closes

(* ... and of a file that no descriptor shows.                                 *)
LEMMA CloseNextCloses ==
  ASSUME FilesInv, NEW p \in Proc, CloseNext(p)
  PROVE  \E f \in File : \E c : Closes(p, f, c)
<1>. DEFINE t == Tail(call[p].todo)
            c == [call[p] EXCEPT !.todo = t]
<1>1. /\ p \in alive /\ step[p] = "close" /\ call[p].todo # <<>> /\ FileTypes
      /\ CloseCount(p, Head(call[p].todo), c)
      /\ UNCHANGED <<iref, ends, tables, ilock, data>>
  BY DEF CloseNext, In, FilesInv
<1>2. /\ call[p] \in CallRec /\ call[p].ff = NoneFile /\ call[p].np = Nobody
      /\ call[p].name \in {"open", "pipe", "close", "exit"} /\ call[p].name # "exit"
      /\ call[p].name = "open" => call[p].ip \in Inum
  BY <1>1, Standing DEF Calling
<1>3. /\ Head(call[p].todo) \in ToSet(call[p].todo) /\ ToSet(call[p].todo) \subseteq File
      /\ t \in TodoLists /\ ToSet(t) = ToSet(call[p].todo) \ {Head(call[p].todo)}
  BY <1>1, <1>2, CallTypes, TodoFacts
<1>4. PICK f \in File : f = Head(call[p].todo)
  BY <1>3
<1>5. f \in ToSet(call[p].todo) /\ ToSet(t) = ToSet(call[p].todo) \ {f}
  BY <1>3, <1>4
<1>. HIDE DEF t
<1>6. /\ c \in CallRec /\ c.todo = t /\ c.ff = NoneFile /\ c.np = Nobody /\ c.name = call[p].name /\ c.ip = call[p].ip
  <2>1. c \in CallRec /\ c.todo = t
    BY <1>2, <1>3, CallTypes
  <2>. QED BY <2>1, <1>2 DEF CallRec
<1>7. CloseCount(p, f, c)
  BY <1>1, <1>4
<1>. HIDE DEF c
<1>8. LetsGo(p, f, c)
  <2>1. ref[f] = 1 /\ Showing(f) = {}
    BY <1>1, <1>5, Holders DEF FilesInv, TodoInv
  <2>2. \A q \in Proc : ~Shows(q, f)'
    <3>1. \A q \in Proc : ~Shows(q, f)
      BY <2>1, ShowingShows
    <3>. QED BY <3>1, <1>1 DEF Shows, tables
  <2>3. ASSUME NEW h \in File
        PROVE  Cardinality(Showing(h)') = Cardinality(Showing(h)) + Bit(h \in ToSet(call[p].todo))
                                          - Bit(h \in ToSet(c.todo)) - Bit(h = f)
    <3>1. Showing(h)' = Showing(h) /\ Cardinality(Showing(h)) \in Nat
      BY <1>1, ShowingSame DEF tables
    <3>2. (h \in ToSet(c.todo)) = (h \in ToSet(call[p].todo) /\ h # f)
      BY <1>5, <1>6
    <3>. QED BY <3>1, <3>2, <1>5 DEF Bit
  <2>4. ofile' = ofile /\ ofile \in [Proc -> [Fd -> File \cup {NoFile}]]
    BY <1>1 DEF FileTypes, tables
  <2>5. ToSet(c.todo) \subseteq ToSet(call[p].todo) /\ f \notin ToSet(c.todo)
    BY <1>5, <1>6
  <2>. QED BY <2>1, <2>2, <2>3, <2>4, <2>5 DEF LetsGo
<1>9. Closer(p, c)
  BY <1>1, <1>2, <1>6 DEF Closer, Finding
<1>. QED BY <1>1, <1>6, <1>7, <1>8, <1>9 DEF Closes, tables

LEMMA ClosingSafe ==
  ASSUME FilesInv, NEW p \in Proc, Close(p) \/ ExitClose(p) \/ CloseNext(p)
  PROVE  FilesInv'
<1>1. PICK f \in File : \E c : Closes(p, f, c)
  BY CloseCloses, ExitCloseCloses, CloseNextCloses
<1>2. PICK c : Closes(p, f, c)
  BY <1>1
<1>. QED BY <1>2, CloseCountSafe DEF Closes

(* pipeclose, or iput: ff has been dropped.                                    *)
LEMMA DropSafe ==
  ASSUME FilesInv, NEW p \in Proc, Drop(p)
  PROVE  FilesInv'
<1>. DEFINE c == [call[p] EXCEPT !.ff = NoneFile]
<1>1. PICK ff \in FileRec : ff = call[p].ff
  BY StayedAt DEF Drop, In, FilesInv
<1>2. /\ p \in alive /\ step[p] = "drop" /\ FileTypes /\ Starts(p, "close", c)
      /\ ends' = IF ff.type = "PIPE" THEN [ends EXCEPT ![ff.obj] = @ \ ff.mode] ELSE ends
      /\ iref' = IF ff.type = "INODE" THEN [iref EXCEPT ![ff.obj] = @ - 1] ELSE iref
      /\ UNCHANGED <<ref, file, tables, ilock, data, died>> /\ died = FALSE
  BY <1>1 DEF Drop, In, FilesInv
<1>3. /\ call[p].name \in {"open", "pipe", "close", "exit"} /\ call[p].np = Nobody
      /\ call[p].todo # <<>> => call[p].name # "exit"
      /\ call[p].name = "open" => call[p].ip \in Inum
      /\ call[p] \in CallRec /\ cwd[p] \in Inum /\ p \in Proc
  BY <1>2, Standing DEF Calling
<1>4. /\ c \in CallRec /\ c.ff = NoneFile /\ c.todo = call[p].todo /\ c.np = call[p].np /\ c.name = call[p].name
      /\ c.ip = call[p].ip
  <2>1. c \in CallRec /\ c.ff = NoneFile
    BY <1>3, NoCallFacts, CallTypes
  <2>. QED BY <2>1, <1>3 DEF CallRec
<1>. HIDE DEF c
<1>5. /\ step'[p] = "close" /\ call'[p] = c /\ step' \in [Proc -> Places] /\ call' \in [Proc -> CallRec] /\ Others(p)
      /\ alive' = alive
  BY <1>2, <1>4, Moved DEF tables, Places
<1>6. FieldsOK(ff) /\ FileTypes /\ EndsInv /\ CountsInv /\ alive \subseteq Proc
  BY <1>1, <1>3 DEF FilesInv, EndsInv, FileTypes
<1>7. ff.type = "INODE" => iref[ff.obj] > 0
  <2>1. SUFFICES ASSUME ff.type = "INODE" PROVE iref[ff.obj] > 0
    OBVIOUS
  <2>2. PICK i \in Inum : i = ff.obj
    BY <2>1, <1>6 DEF FieldsOK
  <2>3. p \in Dropping("INODE", i) /\ InodeCount(i) /\ iref[i] \in Nat
    BY <1>1, <1>2, <1>6, <2>1, <2>2 DEF CountsInv, Dropping, FileTypes
  <2>4. Cardinality(Dropping("INODE", i)) # 0
    BY <2>3, <1>6, FilesFinite, FS_EmptySet
  <2>. QED BY <2>2, <2>3, <2>4, <1>6, CardTypes DEF InodeCount
<1>8. FileTypes'
  <2>1. ends' \in [PipePage -> SUBSET {"r", "w"}]
    BY <1>2, <1>6 DEF FileTypes
  <2>2. iref' \in [Inum -> Nat]
    <3>1. CASE ff.type = "INODE"
      <4>1. ff.obj \in Inum /\ iref \in [Inum -> Nat]
        BY <3>1, <1>6 DEF FieldsOK, FileTypes
      <4>2. iref[ff.obj] - 1 \in Nat
        BY <4>1, <3>1, <1>7
      <4>. QED BY <4>1, <4>2, <3>1, <1>2
    <3>2. CASE ff.type # "INODE"
      BY <3>2, <1>2 DEF FileTypes
    <3>. QED BY <3>1, <3>2
  <2>. QED BY <2>1, <2>2, <1>2, <1>5 DEF FileTypes, tables
<1>9. Calling(p)'
  BY <1>2, <1>3, <1>4, <1>5 DEF Calling, tables
<1>10. Takes(p)
  BY <1>2, <1>4, <1>5, TakesSteady, UntypedSame DEF tables
<1>11. HandedInv' /\ ReadyInv'
  <2>1. HandedInv'
    BY <1>2, <1>4, <1>5, HandedSteady DEF tables
  <2>. QED BY <2>1, <1>2, <1>5, ReadySteady, UntypedSame DEF tables
<1>12. EndsInv'
  <2>1. \A q \in Proc : call'[q].ff = IF q = p THEN NoneFile ELSE call[q].ff
    BY <1>4, <1>5 DEF Others
  <2>2. /\ FieldsOK(NoneFile) /\ \A r : ~SameEnd(NoneFile, r) /\ ~SameEnd(r, NoneFile)
    BY NoCallFacts DEF FieldsOK, SameEnd
  <2>3. \A f \in File : FieldsOK(file'[f]) /\ (ref'[f] = 0 => file'[f].type = "NONE")
    BY <1>2, <1>6 DEF EndsInv, Untyped
  <2>4. \A q \in Proc : FieldsOK(call'[q].ff)
    BY <1>6, <2>1, <2>2 DEF EndsInv
  <2>5. \A f, g \in File : f # g => ~SameEnd(file'[f], file'[g])
    BY <1>2, <1>6 DEF EndsInv
  <2>6. \A f \in File, q \in Proc : ~SameEnd(file'[f], call'[q].ff)
    BY <1>2, <1>6, <2>1, <2>2 DEF EndsInv
  <2>7. \A q, r \in Proc : q # r => ~SameEnd(call'[q].ff, call'[r].ff)
    BY <1>6, <2>1, <2>2 DEF EndsInv
  <2>. QED BY <2>3, <2>4, <2>5, <2>6, <2>7 DEF EndsInv, Untyped
<1>13. ASSUME NEW g \in PipePage PROVE PipeEnds(g)'
  <2>. DEFINE End(r, m) == r.type = "PIPE" /\ r.obj = g /\ m \in r.mode
              Kin(m) == (\E h \in File : ref[h] > 0 /\ End(file[h], m)) \/ \E q \in alive \ {p} : End(call[q].ff, m)
  <2>1. \A m \in {"r", "w"} : m \in ends[g] <=> End(ff, m) \/ Kin(m)
    <3>1. \A m \in {"r", "w"} : m \in ends[g] <=> (\E h \in File : ref[h] > 0 /\ End(file[h], m))
                                                  \/ (\E q \in alive : End(call[q].ff, m))
      BY <1>6 DEF CountsInv, PipeEnds
    <3>. HIDE DEF End
    <3>. QED BY <3>1, <1>1, <1>2
  <2>2. \A m \in {"r", "w"} : End(ff, m) => ~Kin(m)
    <3>1. ASSUME NEW m \in {"r", "w"}, End(ff, m), NEW r \in FileRec, FieldsOK(r), End(r, m) PROVE SameEnd(r, ff)
      BY <3>1, <1>6 DEF FieldsOK, SameEnd
    <3>2. /\ \A h \in File : file[h] \in FileRec /\ FieldsOK(file[h]) /\ ~SameEnd(file[h], ff)
          /\ \A q \in alive \ {p} : call[q].ff \in FileRec /\ FieldsOK(call[q].ff) /\ ~SameEnd(call[q].ff, ff)
      BY <1>1, <1>3, <1>6 DEF EndsInv, FileTypes, CallRec
    <3>. HIDE DEF End
    <3>. QED BY <3>1, <3>2
  <2>3. \A m \in {"r", "w"} : m \in ends'[g] <=> m \in ends[g] /\ ~End(ff, m)
    BY <1>2, <1>6 DEF FileTypes, FieldsOK
  <2>4. \A m : ~End(NoneFile, m)
    BY NoCallFacts
  <2>5. ASSUME NEW m \in {"r", "w"}
        PROVE  m \in ends'[g] <=> (\E h \in File : ref'[h] > 0 /\ End(file'[h], m))
                                  \/ (\E q \in alive' : End(call'[q].ff, m))
    <3>. HIDE DEF End
    <3>1. (\E q \in alive' : End(call'[q].ff, m)) <=> \E q \in alive \ {p} : End(call[q].ff, m)
      BY <1>4, <1>5, <1>6, <2>4 DEF Others
    <3>2. m \in ends'[g] <=> Kin(m)
      BY <2>1, <2>2, <2>3
    <3>. QED BY <3>1, <3>2, <1>2
  <2>. QED BY <2>5 DEF PipeEnds
<1>14. ASSUME NEW f \in File PROVE FileCount(f)'
  <2>1. ~(p \in Dups(f)) /\ ~(p \in Dups(f)') /\ (p \in Closings(f)') = (p \in Closings(f))
    BY <1>2, <1>4, <1>5 DEF Dups, Closings
  <2>2. ref'[f] = ref[f] + 0 + Bit(p \in Closings(f)') - Bit(p \in Closings(f))
                             - Bit(p \in Dups(f)') + Bit(p \in Dups(f))
    BY <2>1, <1>2 DEF Bit, FileTypes
  <2>3. Cardinality(Showing(f)') = Cardinality(Showing(f)) + 0 /\ 0 \in Int
    BY <1>2, ShowingSame DEF tables
  <2>. QED BY <2>2, <2>3, <1>2, <1>5, FileBalance
<1>15. ASSUME NEW j \in Inum PROVE InodeCount(j)'
  <2>1. Cardinality(Opens("INODE", j)') = Cardinality(Opens("INODE", j)) + 0 /\ 0 \in Int
    <3>1. \A t, o : Opens(t, o)' = Opens(t, o)
      BY <1>2 DEF Opens
    <3>. QED BY <3>1, <1>6, OpensZero
  <2>2. /\ (p \in Finders(j)') = (p \in Finders(j)) /\ (p \in Dwellers(j)') = (p \in Dwellers(j))
        /\ ~(p \in Dropping("INODE", j)') /\ (p \in Dropping("INODE", j)) = (ff.type = "INODE" /\ ff.obj = j)
    BY <1>1, <1>2, <1>4, <1>5, NoCallFacts DEF Dwellers, Finders, Dropping, tables
  <2>3. iref'[j] = iref[j] - Bit(ff.type = "INODE" /\ ff.obj = j) /\ iref[j] \in Nat
    BY <1>2, <1>6 DEF FileTypes, Bit
  <2>4. iref'[j] = iref[j] + 0 + Bit(p \in Dwellers(j)') - Bit(p \in Dwellers(j))
                    + Bit(p \in Finders(j)') - Bit(p \in Finders(j))
                    + Bit(p \in Dropping("INODE", j)') - Bit(p \in Dropping("INODE", j))
    BY <2>2, <2>3 DEF Bit
  <2>. QED BY <2>1, <2>4, <1>2, <1>5, InodeBalance
<1>16. CountsInv'
  BY <1>13, <1>14, <1>15 DEF CountsInv
<1>. QED BY <1>2, <1>5, <1>8, <1>9, <1>10, <1>11, <1>12, <1>16, LoudSafe DEF tables
-----------------------------------------------------------------------------
(* pipealloc's page                                                            *)

(* A page that is free is of no pipe whose end is open or on its way out.      *)
LEMMA FreshPage ==
  ASSUME FilesInv, NEW g \in PipePage, ends[g] = {}
  PROVE  /\ \A f \in File : ~(file[f].type = "PIPE" /\ file[f].obj = g)
         /\ \A q \in Proc : ~(call[q].ff.type = "PIPE" /\ call[q].ff.obj = g)
<1>1. FileTypes /\ CallsInv /\ EndsInv /\ PipeEnds(g)
  BY DEF FilesInv, CountsInv
<1>2. ASSUME NEW f \in File, file[f].type = "PIPE", file[f].obj = g PROVE FALSE
  <2>1. file[f].mode \in {{"r"}, {"w"}} /\ ref[f] > 0
    <3>1. FieldsOK(file[f]) /\ (ref[f] = 0 => Untyped(f)) /\ ref[f] \in Nat
      BY <1>1 DEF EndsInv, FileTypes
    <3>2. ref[f] # 0
      BY <3>1, <1>2 DEF Untyped
    <3>3. file[f].mode \in {{"r"}, {"w"}}
      BY <3>1, <1>2 DEF FieldsOK
    <3>. QED BY <3>1, <3>2, <3>3
  <2>2. PICK m \in {"r", "w"} : m \in file[f].mode
    BY <2>1
  <2>. QED BY <1>1, <1>2, <2>1, <2>2 DEF PipeEnds
<1>3. ASSUME NEW q \in Proc, call[q].ff.type = "PIPE", call[q].ff.obj = g PROVE FALSE
  <2>1. call[q].ff.mode \in {{"r"}, {"w"}}
    BY <1>1, <1>3 DEF EndsInv, FieldsOK
  <2>2. q \in alive
    BY <1>1, <1>3, NoCallFacts DEF CallsInv, Calling
  <2>3. PICK m \in {"r", "w"} : m \in call[q].ff.mode
    BY <2>1
  <2>. QED BY <1>1, <1>3, <2>2, <2>3 DEF PipeEnds
<1>. QED BY <1>2, <1>3

(* The two files take the two ends of the page.                                *)
PipeFor(g, rd, b) ==
    /\ file'[rd].type = "PIPE" /\ file'[rd].obj = g /\ file'[rd].mode = {"r"}
    /\ file'[b].type = "PIPE" /\ file'[b].obj = g /\ file'[b].mode = {"w"}
    /\ \A f \in File \ {rd, b} : file'[f] = file[f]

LEMMA EndsMade ==
  ASSUME FilesInv, NEW g \in PipePage, ends[g] = {}, NEW rd \in File, NEW b \in File, rd # b,
         Untyped(rd), Untyped(b), ref[rd] > 0, ref[b] > 0, PipeFor(g, rd, b),
         ends' = [ends EXCEPT ![g] = {"r", "w"}], UNCHANGED <<ref, alive>>,
         \A q \in Proc : call'[q].ff = call[q].ff
  PROVE  EndsInv' /\ \A h \in PipePage : PipeEnds(h)'
<1>1. FileTypes /\ EndsInv /\ CountsInv /\ alive \subseteq Proc
  BY DEF FilesInv, FileTypes
<1>2. /\ \A f \in File : ~(file[f].type = "PIPE" /\ file[f].obj = g)
      /\ \A q \in Proc : ~(call[q].ff.type = "PIPE" /\ call[q].ff.obj = g)
  BY FreshPage
<1>3. EndsInv'
  <2>1. \A f \in File : FieldsOK(file'[f]) /\ (ref'[f] = 0 => file'[f].type = "NONE")
    BY <1>1 DEF EndsInv, FieldsOK, Untyped, PipeFor
  <2>2. \A q \in Proc : FieldsOK(call'[q].ff)
    BY <1>1 DEF EndsInv
  <2>3. \A f, h \in File : f # h => ~SameEnd(file'[f], file'[h])
    <3>1. {"r"} # {"w"}
      OBVIOUS
    <3>. QED BY <3>1, <1>1, <1>2 DEF EndsInv, SameEnd, PipeFor
  <2>4. \A f \in File, q \in Proc : ~SameEnd(file'[f], call'[q].ff)
    BY <1>1, <1>2 DEF EndsInv, SameEnd, PipeFor
  <2>5. \A q, r \in Proc : q # r => ~SameEnd(call'[q].ff, call'[r].ff)
    BY <1>1 DEF EndsInv
  <2>. QED BY <2>1, <2>2, <2>3, <2>4, <2>5 DEF EndsInv, Untyped
<1>4. ASSUME NEW h \in PipePage PROVE PipeEnds(h)'
  <2>1. CASE h = g
    <3>1. ends'[g] = {"r", "w"}
      BY <1>1 DEF FileTypes
    <3>2. /\ ref'[rd] > 0 /\ file'[rd].type = "PIPE" /\ file'[rd].obj = g /\ "r" \in file'[rd].mode
          /\ ref'[b] > 0 /\ file'[b].type = "PIPE" /\ file'[b].obj = g /\ "w" \in file'[b].mode
      BY DEF PipeFor
    <3>3. \A m \in {"r", "w"} : \E f \in File : ref'[f] > 0 /\ file'[f].type = "PIPE" /\ file'[f].obj = g /\ m \in file'[f].mode
      BY <3>2
    <3>. QED BY <2>1, <3>1, <3>3 DEF PipeEnds
  <2>2. CASE h # g
    <3>1. ends'[h] = ends[h] /\ PipeEnds(h)
      BY <1>1, <2>2 DEF FileTypes, CountsInv
    <3>2. \A f \in File : /\ (file'[f].type = "PIPE" /\ file'[f].obj = h) <=> (file[f].type = "PIPE" /\ file[f].obj = h)
                          /\ (file'[f].type = "PIPE" /\ file'[f].obj = h) => file'[f].mode = file[f].mode
      BY <2>2 DEF PipeFor, Untyped
    <3>3. \A q \in alive : call'[q].ff = call[q].ff
      BY <1>1
    <3>. QED BY <3>1, <3>2, <3>3 DEF PipeEnds
  <2>. QED BY <2>1, <2>2
<1>. QED BY <1>3, <1>4

(* Both files leave the list together, or stay on it together.                 *)
PipeEnded(p, rd, b, s, c) ==
    \/ s = "close" /\ c = call[p] /\ ofile' = ofile
    \/ /\ s = "user" /\ c = NoCall
       /\ \E i, j \in Fd \ Descs(p) : /\ i # j /\ ofile'[p][i] = rd /\ ofile'[p][j] = b
                                      /\ \A k \in Fd \ {i, j} : ofile'[p][k] = ofile[p][k]

LEMMA PipeMadeSafe ==
  ASSUME FilesInv, NEW p \in alive, step[p] = "pipe", NEW g \in PipePage, ends[g] = {},
         NEW rd \in File, NEW b \in File, rd # b, ToSet(call[p].todo) = {rd, b}, PipeFor(g, rd, b),
         file' \in [File -> FileRec], ends' = [ends EXCEPT ![g] = {"r", "w"}],
         NEW c, NEW s, Starts(p, s, c), ofile' \in [Proc -> [Fd -> File \cup {NoFile}]],
         \A q \in Proc \ {p} : ofile'[q] = ofile[q],
         PipeEnded(p, rd, b, s, c),
         UNCHANGED <<ref, iref, cwd, alive, ilock, data, died>>
  PROVE  FilesInv'
<1>1. FileTypes /\ p \in Proc /\ died = FALSE
  BY Standing
<1>2. /\ call[p].ff = NoneFile /\ call[p].np = Nobody /\ call[p].name = "pipe" /\ Untyped(rd) /\ Untyped(b)
      /\ call[p] \in CallRec /\ cwd[p] \in Inum
  BY Standing DEF Calling
<1>3. /\ c \in CallRec /\ c.ff = NoneFile /\ c.np = Nobody /\ c.name \notin {"open", "chdir"}
      /\ ToSet(c.todo) \subseteq {rd, b} /\ s \in {"close", "user"}
  BY <1>2, NoCallFacts, SetsEmpty DEF PipeEnded
<1>4. /\ ref[rd] = 1 /\ ref[b] = 1 /\ Showing(rd) = {} /\ Showing(b) = {}
  BY <1>1, Holders DEF FilesInv, TodoInv
<1>5. /\ step'[p] = s /\ call'[p] = c /\ step' \in [Proc -> Places] /\ call' \in [Proc -> CallRec] /\ Others(p)
  BY <1>1, <1>3, Moved DEF Places
<1>6. FileTypes'
  <2>1. ends' \in [PipePage -> SUBSET {"r", "w"}]
    BY <1>1 DEF FileTypes
  <2>. QED BY <2>1, <1>1, <1>5 DEF FileTypes
<1>7. Calling(p)'
  <2>1. CASE s = "close" /\ c = call[p]
    BY <2>1, <1>1, <1>2, <1>5, Standing DEF Calling
  <2>2. CASE s = "user" /\ c = NoCall
    BY <2>2, <1>1, <1>2, <1>5, NoCallFacts DEF Calling
  <2>. QED BY <2>1, <2>2 DEF PipeEnded
<1>8. \A q \in Proc, k \in Fd : ofile'[q][k] = ofile[q][k] \/ ofile'[q][k] \in {rd, b}
  BY <1>1 DEF PipeEnded
<1>9. Takes(p)
  <2>1. ASSUME NEW q \in Proc, NEW f \in File, Shows(q, f)', ~Shows(q, f)
        PROVE  f \in ToSet(call[p].todo) /\ f \notin ToSet(call'[p].todo)
    <3>1. PICK k \in Fd : ofile'[q][k] = f
      BY <2>1 DEF Shows
    <3>2. f \in {rd, b} /\ ofile' # ofile
      BY <3>1, <2>1, <1>8 DEF Shows
    <3>3. c = NoCall
      BY <3>2 DEF PipeEnded
    <3>. QED BY <3>2, <3>3, <1>5, NoCallFacts, SetsEmpty
  <2>2. \A f \in File : Untyped(f) => Untyped(f)' \/ f \in ToSet(call[p].todo)
    BY DEF Untyped, PipeFor
  <2>. QED BY <2>1, <2>2, <1>3, <1>5 DEF Takes
<1>10. HandedInv'
  BY <1>1, <1>2, <1>3, <1>5, HandedSteady
<1>11. ReadyInv'
  <2>1. file'[rd].type # "NONE" /\ file'[b].type # "NONE"
    BY DEF PipeFor
  <2>2. \A q \in Proc, k \in Fd : ofile'[q][k] = ofile[q][k] \/ file'[ofile'[q][k]].type # "NONE"
    BY <1>8, <2>1
  <2>3. \A f \in File : Untyped(f)' => Untyped(f)
    BY <2>1 DEF Untyped, PipeFor
  <2>. QED BY <2>2, <2>3, <1>5, ReadySteady
<1>12. EndsInv' /\ \A h \in PipePage : PipeEnds(h)'
  <2>1. \A q \in Proc : call'[q].ff = call[q].ff
    BY <1>2, <1>3, <1>5 DEF Others
  <2>2. ref[rd] > 0 /\ ref[b] > 0
    BY <1>4
  <2>. QED BY <2>1, <2>2, <1>2, EndsMade
<1>13. ASSUME NEW f \in File PROVE FileCount(f)'
  <2>1. ~(p \in Dups(f)) /\ ~(p \in Dups(f)') /\ (p \in Closings(f)) = (f \in {rd, b})
        /\ (p \in Closings(f)') = (f \in ToSet(c.todo))
    BY <1>3, <1>5 DEF Dups, Closings
  <2>2. ref[f] \in Nat /\ Cardinality(Showing(f)) \in Nat /\ Cardinality(Showing(rd)) = 0 /\ Cardinality(Showing(b)) = 0
    BY <1>1, <1>4, CardTypes, FS_EmptySet DEF FileTypes
  <2>3. CASE c = call[p] /\ ofile' = ofile
    <3>1. Cardinality(Showing(f)') = Cardinality(Showing(f)) + 0 /\ 0 \in Int
      BY <2>3, <1>1, ShowingSame
    <3>2. ref'[f] = ref[f] + 0 + Bit(p \in Closings(f)') - Bit(p \in Closings(f))
                               - Bit(p \in Dups(f)') + Bit(p \in Dups(f))
      BY <2>1, <2>2, <2>3 DEF Bit
    <3>. QED BY <3>1, <3>2, <1>5, FileBalance
  <2>4. CASE c = NoCall /\ \E i, j \in Fd \ Descs(p) : /\ i # j /\ ofile'[p][i] = rd /\ ofile'[p][j] = b
                                                       /\ \A k \in Fd \ {i, j} : ofile'[p][k] = ofile[p][k]
    <3>1. PICK i \in Fd \ Descs(p), j \in Fd \ Descs(p) :
             /\ i # j /\ ofile'[p][i] = rd /\ ofile'[p][j] = b
             /\ \A k \in Fd \ {i, j} : ofile'[p][k] = ofile[p][k]
      BY <2>4
    <3>2. ofile[p][i] = NoFile /\ ofile[p][j] = NoFile
      BY <1>1, DescFacts
    <3>3. ASSUME NEW h \in {rd, b}, NEW x \in {i, j}, ofile'[p][x] = h,
                 \A y \in {i, j} : y # x => ofile'[p][y] # h
          PROVE  Showing(h)' = {<<p, x>>}
      <4>1. \A q \in Proc, y \in Fd : ofile[q][y] # h
        <5>1. SUFFICES ASSUME NEW q \in Proc, NEW y \in Fd, ofile[q][y] = h PROVE FALSE
          OBVIOUS
        <5>2. <<q, y>> \in Showing(h)
          BY <5>1 DEF Showing
        <5>. QED BY <5>2, <1>4
      <4>2. \A q \in Proc, y \in Fd : ofile'[q][y] = h <=> q = p /\ y = x
        BY <3>1, <3>3, <4>1
      <4>3. <<p, x>> \in Showing(h)'
        BY <3>3, <1>1 DEF Showing
      <4>4. ASSUME NEW e \in Showing(h)' PROVE e = <<p, x>>
        <5>1. e[1] \in Proc /\ e[2] \in Fd /\ ofile'[e[1]][e[2]] = h /\ e = <<e[1], e[2]>>
          BY <4>4 DEF Showing
        <5>. QED BY <5>1, <4>2
      <4>. QED BY <4>3, <4>4
    <3>4. Cardinality(Showing(f)') = Cardinality(Showing(f)) + Bit(f \in {rd, b}) /\ Bit(f \in {rd, b}) \in Int
      <4>1. CASE f = rd
        <5>1. Showing(f)' = {<<p, i>>}
          BY <3>1, <3>3, <4>1
        <5>2. Cardinality(Showing(f)') = 1 /\ Cardinality(Showing(f)) = 0
          BY <5>1, <4>1, <2>2, FS_Singleton
        <5>. QED BY <5>2, <4>1 DEF Bit
      <4>2. CASE f = b
        <5>1. Showing(f)' = {<<p, j>>}
          BY <3>1, <3>3, <4>2
        <5>2. Cardinality(Showing(f)') = 1 /\ Cardinality(Showing(f)) = 0
          BY <5>1, <4>2, <2>2, FS_Singleton
        <5>. QED BY <5>2, <4>2 DEF Bit
      <4>3. CASE f \notin {rd, b}
        <5>1. \A q \in Proc, y \in Fd : ofile'[q][y] = f <=> ofile[q][y] = f
          BY <3>1, <3>2, <4>3, FileConsts
        <5>2. Showing(f)' = Showing(f)
          BY <5>1 DEF Showing
        <5>. QED BY <5>2, <4>3, <2>2 DEF Bit
      <4>. QED BY <4>1, <4>2, <4>3
    <3>5. f \notin ToSet(c.todo)
      BY <2>4, NoCallFacts, SetsEmpty
    <3>6. ref'[f] = ref[f] + Bit(f \in {rd, b}) + Bit(p \in Closings(f)') - Bit(p \in Closings(f))
                                               - Bit(p \in Dups(f)') + Bit(p \in Dups(f))
      <4>1. /\ Bit(p \in Closings(f)') = 0 /\ Bit(p \in Closings(f)) = Bit(f \in {rd, b})
            /\ Bit(p \in Dups(f)) = 0 /\ Bit(p \in Dups(f)') = 0
        BY <2>1, <3>5 DEF Bit
      <4>2. ref'[f] = ref[f]
        OBVIOUS
      <4>. QED BY <4>1, <4>2, <3>4, <2>2
    <3>. QED BY <3>4, <3>6, <1>5, FileBalance
  <2>. QED BY <2>3, <2>4 DEF PipeEnded
<1>14. ASSUME NEW j \in Inum PROVE InodeCount(j)'
  <2>1. Cardinality(Opens("INODE", j)') = Cardinality(Opens("INODE", j)) + 0 /\ 0 \in Int
    <3>1. Opens("INODE", j)' = Opens("INODE", j)
      BY <1>2 DEF Opens, PipeFor, Untyped
    <3>. QED BY <3>1, <1>1, CardTypes
  <2>2. /\ ~(p \in Finders(j)') /\ ~(p \in Finders(j)) /\ (p \in Dwellers(j)') = (p \in Dwellers(j))
        /\ ~(p \in Dropping("INODE", j)') /\ ~(p \in Dropping("INODE", j))
    BY <1>2, <1>3, <1>5, NoCallFacts DEF Dwellers, Finders, Dropping
  <2>3. iref'[j] = iref[j] + 0 + Bit(p \in Dwellers(j)') - Bit(p \in Dwellers(j))
                    + Bit(p \in Finders(j)') - Bit(p \in Finders(j))
                    + Bit(p \in Dropping("INODE", j)') - Bit(p \in Dropping("INODE", j))
    BY <2>2, <1>1 DEF Bit, FileTypes
  <2>. QED BY <2>1, <2>3, <1>5, InodeBalance
<1>15. CountsInv'
  BY <1>12, <1>13, <1>14 DEF CountsInv
<1>16. \A q \in alive \ {p} : ofile'[q] = ofile[q]
  BY <1>1 DEF FileTypes
<1>. QED BY <1>1, <1>5, <1>6, <1>7, <1>9, <1>10, <1>11, <1>12, <1>15, <1>16, LoudSafe

LEMMA TwoOf ==
  ASSUME NEW S \in SUBSET Nat, IsFiniteSet(S), ~(Cardinality(S) < 2)
  PROVE  Min(S) \in S /\ Min(S \ {Min(S)}) \in S \ {Min(S)}
<1>1. S # {}
  BY FS_EmptySet
<1>2. Min(S) \in S
  BY <1>1, MinFacts
<1>3. S \ {Min(S)} # {}
  <2>1. Cardinality({Min(S)}) = 1
    BY FS_Singleton
  <2>. QED BY <2>1, <1>2
<1>. QED BY <1>2, <1>3, MinFacts

LEMMA PipeMakeSafe ==
  ASSUME FilesInv, NEW p \in Proc, PipeMake(p)
  PROVE  FilesInv'
<1>. DEFINE spare == Fd \ Descs(p)
            rf == call[p].todo[1]
            wf == call[p].todo[2]
<1>1. PICK g \in PipePage :
         /\ ends[g] = {} /\ ends' = [ends EXCEPT ![g] = {"r", "w"}]
         /\ file' = [f \in File |->
              CASE f = rf -> [type |-> "PIPE", obj |-> g, mode |-> {"r"}, off |-> 0]
                [] f = wf -> [type |-> "PIPE", obj |-> g, mode |-> {"w"}, off |-> 0]
                [] OTHER -> file[f]]
  BY DEF PipeMake
<1>2. /\ p \in alive /\ step[p] = "pipe" /\ Len(call[p].todo) = 2 /\ FileTypes
      /\ IF Cardinality(spare) < 2 THEN Goes(p, "close") /\ UNCHANGED <<ofile, call>>
         ELSE /\ ofile' = [ofile EXCEPT ![p][Min(spare)] = rf, ![p][Min(spare \ {Min(spare)})] = wf]
              /\ Returns(p)
      /\ UNCHANGED <<ref, iref, cwd, alive, ilock, data, died>>
  BY DEF PipeMake, In, FilesInv
<1>3. /\ call[p].todo \in TodoLists /\ rf # wf /\ ToSet(call[p].todo) = {rf, wf} /\ ToSet(call[p].todo) \subseteq File
  BY <1>2, Standing, CallTypes, TodoFacts
<1>4. PICK rd \in File, b \in File : rd = rf /\ b = wf /\ rd # b /\ ToSet(call[p].todo) = {rd, b}
  BY <1>3
<1>. HIDE DEF rf, wf, spare
<1>5. PipeFor(g, rd, b) /\ file' \in [File -> FileRec]
  <2>1. /\ [type |-> "PIPE", obj |-> g, mode |-> {"r"}, off |-> 0] \in FileRec
        /\ [type |-> "PIPE", obj |-> g, mode |-> {"w"}, off |-> 0] \in FileRec
    BY DEF FileRec
  <2>2. /\ file'[rd] = [type |-> "PIPE", obj |-> g, mode |-> {"r"}, off |-> 0]
        /\ file'[b] = [type |-> "PIPE", obj |-> g, mode |-> {"w"}, off |-> 0]
        /\ \A f \in File \ {rd, b} : file'[f] = file[f]
    BY <1>1, <1>4
  <2>3. file \in [File -> FileRec] /\ DOMAIN file' = File /\ file' = [f \in File |-> file'[f]]
    BY <1>1, <1>2 DEF FileTypes
  <2>4. \A f \in File : file'[f] \in FileRec
    BY <2>1, <2>2, <2>3
  <2>5. PipeFor(g, rd, b)
    BY <2>2 DEF PipeFor
  <2>6. file' \in [File -> FileRec]
    BY <2>3, <2>4
  <2>. QED BY <2>5, <2>6
<1>6. CASE Cardinality(spare) < 2
  <2>1. Starts(p, "close", call[p]) /\ ofile' = ofile
    BY <1>2, <1>6, Standing
  <2>2. ofile' \in [Proc -> [Fd -> File \cup {NoFile}]] /\ \A q \in Proc \ {p} : ofile'[q] = ofile[q]
    BY <2>1, <1>2 DEF FileTypes
  <2>3. PipeEnded(p, rd, b, "close", call[p])
    BY <2>1 DEF PipeEnded
  <2>. QED BY <2>1, <2>2, <2>3, <1>1, <1>2, <1>4, <1>5, PipeMadeSafe
<1>7. CASE ~(Cardinality(spare) < 2)
  <2>1. spare \subseteq Nat /\ spare \subseteq Fd /\ IsFiniteSet(spare)
    <3>1. 0 \in Int /\ NOFILE - 1 \in Int
      BY FileConsts
    <3>2. IsFiniteSet(Fd)
      BY <3>1, FS_Interval DEF Fd
    <3>. QED BY <3>2, <1>2, DescFacts, FS_Subset DEF spare
  <2>2. PICK i \in spare, j \in spare : i = Min(spare) /\ j = Min(spare \ {Min(spare)}) /\ i # j
    <3>1. Min(spare) \in spare /\ Min(spare \ {Min(spare)}) \in spare \ {Min(spare)}
      BY <2>1, <1>7, TwoOf
    <3>. QED BY <3>1
  <2>3. ofile' = [ofile EXCEPT ![p][i] = rd, ![p][j] = b] /\ Starts(p, "user", NoCall)
    BY <1>2, <1>4, <1>7, <2>2 DEF Returns
  <2>4. /\ ofile' \in [Proc -> [Fd -> File \cup {NoFile}]]
        /\ \A q \in Proc \ {p} : ofile'[q] = ofile[q]
        /\ ofile'[p][i] = rd /\ ofile'[p][j] = b /\ \A k \in Fd \ {i, j} : ofile'[p][k] = ofile[p][k]
    <3>1. ofile \in [Proc -> [Fd -> File \cup {NoFile}]] /\ i \in Fd /\ j \in Fd
      BY <1>2, <2>1 DEF FileTypes
    <3>. QED BY <3>1, <2>2, <2>3
  <2>5. i \in Fd \ Descs(p) /\ j \in Fd \ Descs(p)
    BY DEF spare
  <2>6. PipeEnded(p, rd, b, "user", NoCall)
    BY <2>2, <2>4, <2>5 DEF PipeEnded
  <2>7. Starts(p, "user", NoCall)
    BY <2>3
  <2>8. ends[g] = {} /\ ends' = [ends EXCEPT ![g] = {"r", "w"}]
    BY <1>1
  <2>9. p \in alive /\ step[p] = "pipe" /\ UNCHANGED <<ref, iref, cwd, alive, ilock, data, died>>
    BY <1>2
  <2>. QED BY <2>4, <2>6, <2>7, <2>8, <2>9, <1>4, <1>5, PipeMadeSafe
<1>. QED BY <1>6, <1>7
-----------------------------------------------------------------------------
LEMMA FilesStart == FilesInit => FilesInv
<1>. SUFFICES ASSUME FilesInit PROVE FilesInv
  OBVIOUS
<1>1. FileTypes
  <2>1. /\ ref \in [File -> Nat] /\ file \in [File -> FileRec]
        /\ ofile \in [Proc -> [Fd -> File \cup {NoFile}]]
    BY NoCallFacts DEF FilesInit
  <2>2. /\ cwd \in [Proc -> Inum \cup {NoInum}] /\ alive \subseteq Proc
        /\ iref \in [Inum -> Nat] /\ ilock \in [Inum -> Proc \cup {Nobody}]
    BY FileConsts DEF FilesInit
  <2>3. data \in [Inum -> Seq(Proc)] /\ ends \in [PipePage -> SUBSET {"r", "w"}] /\ step \in [Proc -> Places]
    BY DEF FilesInit, Places
  <2>4. call \in [Proc -> CallRec]
    BY NoCallFacts DEF FilesInit
  <2>. QED BY <2>1, <2>2, <2>3, <2>4 DEF FileTypes
<1>2. /\ \A f \in File : ref[f] = 0 /\ file[f] = NoneFile
      /\ \A p \in Proc : step[p] = "user" /\ call[p] = NoCall /\ \A i \in Fd : ofile[p][i] = NoFile
      /\ \A g \in PipePage : ends[g] = {}
      /\ alive = {First} /\ \A p \in Proc : cwd[p] = IF p = First THEN Root ELSE NoInum
      /\ \A i \in Inum : iref[i] = IF i = Root THEN 1 ELSE 0
  BY DEF FilesInit
<1>3. CallsInv
  BY <1>2, NoCallFacts, FileConsts DEF CallsInv, Calling
<1>4. ShownInv
  BY <1>2, NoCallFacts DEF ShownInv, ReadyInv, HandedInv, Descs
<1>5. TodoInv
  BY <1>2, NoCallFacts, SetsEmpty DEF TodoInv
<1>6. EndsInv
  BY <1>2, NoCallFacts DEF EndsInv, FieldsOK, SameEnd, Untyped
<1>7. Cardinality({}) = 0
  BY FS_EmptySet
<1>8. ASSUME NEW f \in File PROVE FileCount(f)
  <2>1. Showing(f) = {} /\ Dups(f) = {} /\ Closings(f) = {}
    BY <1>2, NoCallFacts, SetsEmpty, FileConsts DEF Showing, Dups, Closings
  <2>. QED BY <2>1, <1>2, <1>7 DEF FileCount
<1>9. ASSUME NEW i \in Inum PROVE InodeCount(i)
  <2>1. Opens("INODE", i) = {} /\ Finders(i) = {} /\ Dropping("INODE", i) = {}
    BY <1>2, NoCallFacts, FileConsts DEF Opens, Finders, Dropping
  <2>2. Dwellers(i) = IF i = Root THEN {First} ELSE {}
    BY <1>2, FileConsts DEF Dwellers
  <2>3. Cardinality({First}) = 1
    BY FS_Singleton
  <2>4. Cardinality(Dwellers(i)) = IF i = Root THEN 1 ELSE 0
    BY <2>2, <2>3, <1>7
  <2>5. iref[i] = IF i = Root THEN 1 ELSE 0
    BY <1>2
  <2>6. Cardinality(Opens("INODE", i)) = 0 /\ Cardinality(Finders(i)) = 0 /\ Cardinality(Dropping("INODE", i)) = 0
    BY <2>1, <1>7
  <2>. QED BY <2>4, <2>5, <2>6 DEF InodeCount
<1>10. ASSUME NEW g \in PipePage PROVE PipeEnds(g)
  BY <1>2, NoCallFacts, FileConsts DEF PipeEnds
<1>11. died = FALSE
  BY DEF FilesInit
<1>. QED BY <1>1, <1>3, <1>4, <1>5, <1>6, <1>8, <1>9, <1>10, <1>11 DEF FilesInv, CountsInv

LEMMA FilesStutter == FilesInv /\ UNCHANGED files => FilesInv'
<1>. SUFFICES ASSUME FilesInv, UNCHANGED files PROVE FilesInv'
  OBVIOUS
<1>1. UNCHANGED <<ref, file, iref, ends, ofile, cwd, alive, ilock, data, step, call, died>>
  BY DEF files, counts, tables
<1>2. FileTypes' /\ died' = FALSE
  BY <1>1 DEF FilesInv, FileTypes
<1>3. CallsInv'
  BY <1>1 DEF FilesInv, CallsInv, Calling, Untyped, Shows
<1>4. ShownInv'
  BY <1>1 DEF FilesInv, ShownInv, ReadyInv, HandedInv, Descs, Untyped
<1>5. TodoInv'
  BY <1>1 DEF FilesInv, TodoInv, Showing
<1>6. EndsInv'
  BY <1>1 DEF FilesInv, EndsInv, Untyped
<1>7. ASSUME NEW f \in File PROVE FileCount(f)'
  BY <1>1 DEF FilesInv, CountsInv, FileCount, Showing, Dups, Closings
<1>8. ASSUME NEW i \in Inum PROVE InodeCount(i)'
  BY <1>1 DEF FilesInv, CountsInv, InodeCount, Opens, Dropping, Dwellers, Finders
<1>9. ASSUME NEW g \in PipePage PROVE PipeEnds(g)'
  <2>1. PipeEnds(g)
    BY DEF FilesInv, CountsInv
  <2>. QED BY <2>1, <1>1 DEF PipeEnds
<1>. QED BY <1>2, <1>3, <1>4, <1>5, <1>6, <1>7, <1>8, <1>9 DEF FilesInv, CountsInv

LEMMA FilesStep == FilesInv /\ FilesNext => FilesInv'
<1>. SUFFICES ASSUME FilesInv, NEW p \in Proc, FileStep(p) PROVE FilesInv'
  BY DEF FilesNext
<1>1. CASE Namei(p) \/ Ilock(p) \/ OpenAlloc(p) \/ Opened(p) \/ Chdir(p)
  BY <1>1, NameiSafe, IlockSafe, OpenAllocSafe, OpenedSafe, ChdirSafe
<1>2. CASE Dup(p) \/ DupCount(p) \/ Close(p) \/ Drop(p) \/ CloseNext(p) \/ CloseDone(p)
  BY <1>2, DupSafe, DupCountSafe, ClosingSafe, DropSafe, CloseDoneSafe
<1>3. CASE Pipe(p) \/ PipeFile(p) \/ PipeNoPage(p) \/ PipeMake(p)
  BY <1>3, PipeSafe, PipeFileSafe, PipeNoPageSafe, PipeMakeSafe
<1>4. CASE Fork(p) \/ ForkDup(p) \/ ForkDone(p) \/ ExitCall(p) \/ ExitClose(p) \/ ExitDone(p)
  BY <1>4, ForkSafe, ForkDupSafe, ForkDoneSafe, ExitCallSafe, ClosingSafe, ExitDoneSafe
<1>5. CASE Transfer(p) \/ ReadBlock(p) \/ WriteBlock(p) \/ Transferred(p) \/ Answer(p)
  BY <1>5, TransferSafe, ReadBlockSafe, WriteBlockSafe, TransferredSafe, AnswerSafe
<1>. QED BY <1>1, <1>2, <1>3, <1>4, <1>5 DEF FileStep

LEMMA CountsAreSound == FilesInv => FilesSound
<1>. SUFFICES ASSUME FilesInv PROVE FilesSound
  OBVIOUS
<1>1. FileTypes /\ EndsInv /\ CountsInv /\ died = FALSE
  BY DEF FilesInv
<1>2. \A f \in File : /\ ref[f] + Cardinality(Dups(f)) = Cardinality(Showing(f)) + Cardinality(Closings(f))
                      /\ ref[f] = 0 => file[f].type = "NONE"
  BY <1>1 DEF CountsInv, FileCount, EndsInv, Untyped
<1>3. \A i \in Inum : iref[i] = Cardinality(Opens("INODE", i)) + Cardinality(Dwellers(i))
                                + Cardinality(Finders(i)) + Cardinality(Dropping("INODE", i))
  BY <1>1 DEF CountsInv, InodeCount
<1>4. ASSUME NEW g \in PipePage
      PROVE  ends[g] = UNION ({file[f].mode : f \in Opens("PIPE", g)} \cup {call[p].ff.mode : p \in Dropping("PIPE", g)})
  <2>. DEFINE M == UNION ({file[f].mode : f \in Opens("PIPE", g)} \cup {call[p].ff.mode : p \in Dropping("PIPE", g)})
  <2>1. \A m : m \in M <=> (\E f \in Opens("PIPE", g) : m \in file[f].mode) \/ \E p \in Dropping("PIPE", g) : m \in call[p].ff.mode
    OBVIOUS
  <2>. HIDE DEF M
  <2>2. PipeEnds(g) /\ ends[g] \subseteq {"r", "w"}
    BY <1>1 DEF CountsInv, FileTypes
  <2>3. \A m \in {"r", "w"} : m \in ends[g] <=> m \in M
    BY <2>1, <2>2 DEF PipeEnds, Opens, Dropping
  <2>4. M \subseteq {"r", "w"}
    <3>1. \A f \in File : file[f].mode \subseteq {"r", "w"}
      BY <1>1 DEF FileTypes, FileRec
    <3>2. \A p \in alive : call[p].ff.mode \subseteq {"r", "w"}
      BY <1>1 DEF FileTypes, CallRec, FileRec
    <3>. QED BY <2>1, <3>1, <3>2 DEF Opens, Dropping
  <2>5. ends[g] = M
    BY <2>2, <2>3, <2>4
  <2>. QED BY <2>5 DEF M
<1>. QED BY <1>1, <1>2, <1>3, <1>4 DEF FilesSound

(* The counts of open files, of the inodes in use and of the ends of pipes are  *)
(* exact in every state: fileclose, filedup and pipeclose find no count wrong,  *)
(* though dup shows a file before it counts it, the last close lets go of the   *)
(* inode or the pipe after ftable.lock, and open, pipe and fork stop half way   *)
(* when a table is full.                                                        *)
THEOREM FilesAreSound == FilesSpec => []FilesSound
<1>1. FilesInv /\ [FilesNext]_files => FilesInv'
  BY FilesStep, FilesStutter
<1>2. FilesInit => FilesInv
  BY FilesStart
<1>3. FilesInv => FilesSound
  BY CountsAreSound
<1>. QED BY <1>1, <1>2, <1>3, PTL DEF FilesSpec
-----------------------------------------------------------------------------
(* Open files, the refinement: a read or write is one step of SharedOffset.    *)
(* Who has the lock of an inode is alone with its contents and with the        *)
(* offsets of the files that show it.                                          *)

Locking(p) ==
    \/ step[p] \in {"open", "chdir", "opened", "read", "write"}
    \/ step[p] \in {"close", "drop"} /\ call[p].name = "open"
LockInv == \A p \in Proc : Locking(p) => ilock[call[p].ip] = p

(* The file that a read or write is of stays open, as its process shows it.    *)
Moving(p) == call[p].name \in {"read", "write"}
MovesOn(p) ==
    /\ IsOpen(call[p].f) /\ file[call[p].f].obj = call[p].ip
    /\ Shows(p, call[p].f) /\ call[p].n \in Counts
    /\ step[p] = "ilock" => call[p].buf = <<>>
MovesInv == \A p \in Proc : Moving(p) => MovesOn(p)

(* What is done of a read or write is in its buffer.                           *)
BlocksDone(p) ==
    /\ Len(call[p].buf) <= Goal(p) /\ Off(p) + Len(call[p].buf) <= Len(data[call[p].ip])
    /\ \A k \in 1 .. Len(call[p].buf) : data[call[p].ip][Off(p) + k] = call[p].buf[k]
BlocksInv == \A p \in Proc : step[p] \in {"read", "write"} => BlocksDone(p)

OffsetsInv ==
    /\ \A f \in File : IsOpen(f) => file[f].off <= Len(data[file[f].obj])
    /\ \A i \in Inum : Len(data[i]) <= MaxSize

SharedInv == FilesInv /\ LockInv /\ MovesInv /\ BlocksInv /\ OffsetsInv

(* The state of SharedOffset.                                                  *)
OpenedAs(f) == IF IsOpen(f) THEN file[f].obj ELSE NoInum
OffsetAs(f) == IF IsOpen(f) THEN Offset(f) ELSE 0
AnswerAs(p) == IF step[p] = "answer" THEN call[p].buf ELSE <<>>

(* What a write leaves when it is over.                                        *)
Final(p) ==
    [k \in 1 .. Max({Len(data[call[p].ip]), Off(p) + Goal(p)}) |->
        IF k \in Off(p) + Len(call[p].buf) + 1 .. Off(p) + Goal(p) THEN p ELSE data[call[p].ip][k]]
-----------------------------------------------------------------------------
LEMMA MaxTwo ==
  ASSUME NEW x \in Int, NEW y \in Int
  PROVE  Max({x, y}) = IF x >= y THEN x ELSE y
<1>1. \E z \in {x, y} : \A v \in {x, y} : z >= v
  <2>1. x <= y \/ y <= x
    OBVIOUS
  <2>. QED BY <2>1
<1>2. Max({x, y}) \in {x, y} /\ Max({x, y}) >= x /\ Max({x, y}) >= y
  BY <1>1 DEF Max
<1>. QED BY <1>2

LEMMA MinOfTwo ==
  ASSUME NEW x \in Int, NEW y \in Int
  PROVE  Min({x, y}) = IF x <= y THEN x ELSE y
BY MinTwo

LEMMA StartsFacts ==
  ASSUME FileTypes, NEW p \in Proc, NEW s, NEW c, Starts(p, s, c)
  PROVE  /\ step'[p] = s /\ call'[p] = c
         /\ \A q \in Proc \ {p} : step'[q] = step[q] /\ call'[q] = call[q]
BY DEF FileTypes, Starts, Goes, Keeps

LEMMA WritingIs ==
  ASSUME FilesInv
  PROVE  /\ Writing = {p \in Proc : step[p] = "write"}
         /\ \A p \in Proc : step[p] \in {"read", "write"} =>
               /\ Moving(p) /\ call[p].name = step[p] /\ p \in alive
               /\ call[p].f \in File /\ call[p].ip \in Inum
         /\ \A p \in Proc : Moving(p) => step[p] \in {"ilock", "read", "write"} /\ call[p].f \in File /\ call[p].ip \in Inum
<1>1. FileTypes /\ \A p \in Proc : Calling(p)
  BY DEF FilesInv, CallsInv
<1>2. \A p \in Proc : step[p] # "user" => p \in alive
  BY <1>1 DEF Calling
<1>3. alive \subseteq Proc /\ \A p \in Proc : step[p] \in Places
  BY <1>1 DEF FileTypes
<1>4. ASSUME NEW p \in Proc, Moving(p) PROVE step[p] \in {"ilock", "read", "write"}
  <2>1. NoCall.name = "none"
    BY DEF NoCall
  <2>2. call[p] \in CallRec
    BY <1>1 DEF FileTypes
  <2>3. \A x : call[p] = [NoCall EXCEPT !.buf = x] \/ call[p] = [NoCall EXCEPT !.f = x] \/ call[p] = [NoCall EXCEPT !.np = x]
                  => call[p].name = "none"
    BY DEF NoCall
  <2>4. step[p] \in {"user", "answer", "dup", "fork"} => call[p].name = "none"
    BY <1>1, <2>3 DEF Calling
  <2>5. step[p] \in {"open", "chdir", "opened", "pipe", "close", "drop"} => call[p].name \notin {"read", "write"}
    BY <1>1 DEF Calling
  <2>. QED BY <1>3, <1>4, <2>4, <2>5 DEF Moving, Places
<1>5. \A p \in Proc : step[p] \in {"read", "write"} => call[p].name = step[p]
  BY <1>1 DEF Calling
<1>6. \A p \in Proc : Moving(p) => call[p].f \in File /\ call[p].ip \in Inum
  BY <1>1 DEF Calling, Moving
<1>7. Writing = {p \in Proc : step[p] = "write"}
  BY <1>2, <1>3 DEF Writing
<1>8. \A p \in Proc : step[p] \in {"read", "write"} => Moving(p) /\ p \in alive
  BY <1>2, <1>5 DEF Moving
<1>. QED BY <1>4, <1>5, <1>6, <1>7, <1>8

LEMMA LockingInum ==
  ASSUME FilesInv, NEW p \in Proc, Locking(p)
  PROVE  call[p].ip \in Inum
<1>1. Calling(p)
  BY DEF FilesInv, CallsInv
<1>2. call[p].name \in {"open", "chdir", "read", "write"}
  BY <1>1 DEF Calling, Locking
<1>. QED BY <1>1, <1>2 DEF Calling

(* The lock of an inode has one holder.                                        *)
LEMMA OneWriter ==
  ASSUME SharedInv, NEW p \in Proc, NEW q \in Proc, Locking(p), Locking(q), call[p].ip = call[q].ip
  PROVE  p = q
BY DEF SharedInv, LockInv

LEMMA WrittenBy ==
  ASSUME SharedInv, NEW p \in Proc, step[p] = "write"
  PROVE  Written(call[p].ip) = Final(p)
<1>1. p \in Writing /\ \A q \in Writing : q \in Proc /\ step[q] = "write"
  BY WritingIs DEF SharedInv
<1>2. \A q \in Writing : call[q].ip = call[p].ip => q = p
  BY <1>1, OneWriter DEF Locking
<1>3. (CHOOSE q \in Writing : call[q].ip = call[p].ip) = p
  BY <1>1, <1>2
<1>. QED BY <1>1, <1>3 DEF Written, Final

LEMMA WrittenElse ==
  ASSUME FilesInv, NEW i, \A q \in Proc : step[q] = "write" => call[q].ip # i
  PROVE  Written(i) = data[i]
BY WritingIs DEF Written

LEMMA OffsetBy ==
  ASSUME SharedInv, NEW p \in Proc, step[p] = "write", NEW f, f = call[p].f
  PROVE  Offset(f) = file[f].off + Goal(p)
<1>1. p \in Writers(f) /\ \A q \in Writers(f) : q \in Proc /\ step[q] = "write" /\ call[q].f = f
  BY WritingIs DEF SharedInv, Writers
<1>2. ASSUME NEW q \in Writers(f) PROVE q = p
  <2>1. Moving(p) /\ Moving(q)
    BY <1>1, WritingIs DEF SharedInv
  <2>2. call[q].ip = call[p].ip
    BY <1>1, <2>1 DEF SharedInv, MovesInv, MovesOn
  <2>. QED BY <1>1, <2>2, OneWriter DEF Locking
<1>3. (CHOOSE q \in Writers(f) : TRUE) = p
  BY <1>1, <1>2
<1>. QED BY <1>1, <1>3 DEF Offset

LEMMA OffsetElse ==
  ASSUME FilesInv, NEW f, \A q \in Proc : step[q] = "write" => call[q].f # f
  PROVE  Offset(f) = file[f].off
BY WritingIs DEF Offset, Writers

LEMMA WrittenByNext ==
  (SharedInv => \A p \in Proc : step[p] = "write" => Written(call[p].ip) = Final(p))'
<1>1. SharedInv => \A p \in Proc : step[p] = "write" => Written(call[p].ip) = Final(p)
  BY WrittenBy
<1>. QED BY <1>1, PTL

LEMMA WrittenElseNext ==
  (FilesInv => \A i : (\A q \in Proc : step[q] = "write" => call[q].ip # i) => Written(i) = data[i])'
<1>1. FilesInv => \A i : (\A q \in Proc : step[q] = "write" => call[q].ip # i) => Written(i) = data[i]
  BY WrittenElse
<1>. QED BY <1>1, PTL

LEMMA OffsetByNext ==
  (SharedInv => \A p \in Proc : step[p] = "write" => Offset(call[p].f) = file[call[p].f].off + Goal(p))'
<1>1. SharedInv => \A p \in Proc : step[p] = "write" => Offset(call[p].f) = file[call[p].f].off + Goal(p)
  BY OffsetBy
<1>. QED BY <1>1, PTL

LEMMA OffsetElseNext ==
  (FilesInv => \A f : (\A q \in Proc : step[q] = "write" => call[q].f # f) => Offset(f) = file[f].off)'
<1>1. FilesInv => \A f : (\A q \in Proc : step[q] = "write" => call[q].f # f) => Offset(f) = file[f].off
  BY OffsetElse
<1>. QED BY <1>1, PTL
-----------------------------------------------------------------------------
(* A step of p that moves no block and takes no read or write to its end.  The *)
(* files F it may change are those no read or write is of.                     *)
Idle(p, F) ==
    /\ \A q \in Proc \ {p} : step'[q] = step[q] /\ call'[q] = call[q]
    /\ data' = data
    /\ step[p] \notin {"read", "write"} /\ step'[p] \notin {"read", "write", "answer"}
    /\ \A f \in File \ F : file'[f] = file[f]
    /\ \A f \in F : IsOpen(f)' => file'[f].off = 0
    /\ \A q \in Proc \ {p} : \A f \in File : Shows(q, f) => Shows(q, f)'
    /\ \A q \in Proc \ {p} : Moving(q) => call[q].f \notin F
    /\ \A i \in Inum : ilock[i] \notin {p, Nobody} => ilock'[i] = ilock[i]
    /\ Locking(p)' => ilock'[call'[p].ip] = p
    /\ Moving(p)' => MovesOn(p)' /\ call'[p].f \notin F

LEMMA IdleKeeps ==
  ASSUME SharedInv, FilesInv', NEW p \in Proc, NEW F, Idle(p, F)
  PROVE  SharedInv'
<1>1. LockInv'
  <2>1. ASSUME NEW q \in Proc \ {p}, Locking(q)' PROVE ilock'[call'[q].ip] = q
    <3>1. step'[q] = step[q] /\ call'[q] = call[q]
      BY DEF Idle
    <3>2. Locking(q)
      BY <2>1, <3>1 DEF Locking
    <3>3. ilock[call[q].ip] = q /\ call[q].ip \in Inum
      BY <3>2, LockingInum DEF SharedInv, LockInv
    <3>4. q \notin {p, Nobody}
      BY FileConsts
    <3>. QED BY <3>1, <3>3, <3>4 DEF Idle
  <2>. QED BY <2>1 DEF LockInv, Idle
<1>2. MovesInv'
  <2>1. ASSUME NEW q \in Proc \ {p}, Moving(q)' PROVE MovesOn(q)'
    <3>1. step'[q] = step[q] /\ call'[q] = call[q]
      BY DEF Idle
    <3>2. Moving(q) /\ MovesOn(q) /\ call[q].f \in File
      BY <2>1, <3>1, WritingIs DEF SharedInv, MovesInv, Moving
    <3>3. file'[call[q].f] = file[call[q].f] /\ Shows(q, call[q].f)'
      BY <3>2 DEF Idle, MovesOn
    <3>. QED BY <3>1, <3>2, <3>3 DEF MovesOn, IsOpen, Shows
  <2>. QED BY <2>1 DEF MovesInv, Idle
<1>3. BlocksInv'
  <2>1. ASSUME NEW q \in Proc, step'[q] \in {"read", "write"} PROVE BlocksDone(q)'
    <3>1. q # p /\ step'[q] = step[q] /\ call'[q] = call[q] /\ data' = data
      BY <2>1 DEF Idle
    <3>2. Moving(q) /\ BlocksDone(q) /\ call[q].f \in File
      BY <2>1, <3>1, WritingIs DEF SharedInv, BlocksInv
    <3>3. file'[call[q].f] = file[call[q].f]
      BY <3>1, <3>2 DEF Idle
    <3>. QED BY <3>1, <3>2, <3>3 DEF BlocksDone, Off, Goal
  <2>. QED BY <2>1 DEF BlocksInv
<1>4. OffsetsInv'
  <2>1. ASSUME NEW f \in File, IsOpen(f)' PROVE file'[f].off <= Len(data'[file'[f].obj])
    <3>1. CASE f \in F
      <4>1. file'[f].off = 0 /\ file'[f].obj \in Inum /\ data' \in [Inum -> Seq(Proc)]
        BY <2>1, <3>1 DEF Idle, IsOpen, FilesInv, EndsInv, FieldsOK, FileTypes
      <4>2. data'[file'[f].obj] \in Seq(Proc)
        BY <4>1
      <4>. QED BY <4>1, <4>2, LenProperties
    <3>2. CASE f \notin F
      BY <2>1, <3>2 DEF Idle, SharedInv, OffsetsInv, IsOpen
    <3>. QED BY <3>1, <3>2
  <2>. QED BY <2>1 DEF OffsetsInv, SharedInv, Idle
<1>. QED BY <1>1, <1>2, <1>3, <1>4 DEF SharedInv

LEMMA IdleShown ==
  ASSUME SharedInv, FilesInv', NEW p \in Proc, NEW F \in SUBSET File, Idle(p, F)
  PROVE  /\ \A i \in Inum : Written(i)' = Written(i)
         /\ (\A q \in Proc \ {p} : AnswerAs(q)' = AnswerAs(q)) /\ AnswerAs(p)' = <<>>
         /\ \A f \in File \ F : OpenedAs(f)' = OpenedAs(f) /\ OffsetAs(f)' = OffsetAs(f)
         /\ \A f \in F : OffsetAs(f)' = 0
<1>1. SharedInv' /\ FilesInv
  BY IdleKeeps DEF SharedInv
<1>2. \A q \in Proc : (step'[q] = "write") = (step[q] = "write")
  BY DEF Idle
<1>3. \A q \in Proc : step[q] = "write" => call'[q] = call[q] /\ q # p
  BY DEF Idle
<1>4. ASSUME NEW i \in Inum PROVE Written(i)' = Written(i)
  <2>1. CASE \E q \in Proc : step[q] = "write" /\ call[q].ip = i
    <3>1. PICK q \in Proc : step[q] = "write" /\ call[q].ip = i
      BY <2>1
    <3>2. step'[q] = "write" /\ call'[q] = call[q] /\ q # p
      BY <3>1, <1>2, <1>3
    <3>3. Written(i) = Final(q)
      BY <3>1, WrittenBy
    <3>4. Written(i)' = Final(q)'
      BY <3>1, <3>2, <1>1, WrittenByNext
    <3>5. Moving(q) /\ call[q].f \in File
      BY <3>1, <1>1, WritingIs
    <3>6. file'[call[q].f] = file[call[q].f] /\ data' = data
      BY <3>2, <3>5 DEF Idle
    <3>7. Final(q)' = Final(q)
      BY <3>2, <3>6 DEF Final, Off, Goal
    <3>. QED BY <3>3, <3>4, <3>7
  <2>2. CASE \A q \in Proc : step[q] = "write" => call[q].ip # i
    <3>1. \A q \in Proc : step'[q] = "write" => call'[q].ip # i
      BY <2>2, <1>2, <1>3
    <3>2. Written(i) = data[i]
      BY <2>2, <1>1, WrittenElse
    <3>3. Written(i)' = data'[i]
      BY <3>1, WrittenElseNext
    <3>. QED BY <3>2, <3>3 DEF Idle
  <2>. QED BY <2>1, <2>2
<1>5. ASSUME NEW f \in File \ F PROVE OpenedAs(f)' = OpenedAs(f) /\ OffsetAs(f)' = OffsetAs(f)
  <2>1. file'[f] = file[f]
    BY DEF Idle
  <2>2. Offset(f)' = Offset(f)
    <3>1. CASE \E q \in Proc : step[q] = "write" /\ call[q].f = f
      <4>1. PICK q \in Proc : step[q] = "write" /\ call[q].f = f
        BY <3>1
      <4>2. step'[q] = "write" /\ call'[q] = call[q] /\ call'[q].f = f /\ data' = data
        BY <4>1, <1>2, <1>3 DEF Idle
      <4>3. Offset(f) = file[f].off + Goal(q)
        BY <4>1, OffsetBy
      <4>4. Offset(f)' = file'[f].off + Goal(q)'
        BY <4>2, <1>1, OffsetByNext
      <4>5. Goal(q)' = Goal(q)
        BY <4>1, <4>2, <2>1 DEF Goal, Off
      <4>. QED BY <4>3, <4>4, <4>5, <2>1
    <3>2. CASE \A q \in Proc : step[q] = "write" => call[q].f # f
      <4>1. \A q \in Proc : step'[q] = "write" => call'[q].f # f
        BY <3>2, <1>2, <1>3
      <4>2. Offset(f) = file[f].off
        BY <3>2, <1>1, OffsetElse
      <4>3. Offset(f)' = file'[f].off
        BY <4>1, OffsetElseNext
      <4>. QED BY <4>2, <4>3, <2>1
    <3>. QED BY <3>1, <3>2
  <2>. QED BY <2>1, <2>2 DEF OpenedAs, OffsetAs, IsOpen
<1>6. (\A q \in Proc \ {p} : AnswerAs(q)' = AnswerAs(q)) /\ AnswerAs(p)' = <<>>
  BY DEF AnswerAs, Idle
<1>7. ASSUME NEW f \in F PROVE OffsetAs(f)' = 0
  <2>1. CASE IsOpen(f)'
    <3>1. file'[f].off = 0 /\ f \in File
      BY <2>1 DEF Idle
    <3>2. ASSUME NEW q \in Proc, step'[q] = "write" PROVE call'[q].f # f
      <4>1. step[q] = "write" /\ q # p /\ call'[q] = call[q]
        BY <3>2, <1>2, <1>3
      <4>2. Moving(q)
        BY <4>1, <1>1, WritingIs
      <4>. QED BY <4>1, <4>2 DEF Idle
    <3>3. Offset(f)' = file'[f].off
      BY <3>2, OffsetElseNext
    <3>. QED BY <3>1, <3>3 DEF OffsetAs
  <2>2. CASE ~IsOpen(f)'
    BY <2>2 DEF OffsetAs
  <2>. QED BY <2>1, <2>2
<1>. QED BY <1>4, <1>5, <1>6, <1>7
-----------------------------------------------------------------------------
(* The steps that are idle.                                                    *)
LockIn(s, c) ==
    \/ s \in {"open", "chdir", "opened", "read", "write"}
    \/ s \in {"close", "drop"} /\ c.name = "open"

LEMMA IdleMove ==
  ASSUME SharedInv, NEW p \in Proc, NEW s, NEW c, Starts(p, s, c), data' = data,
         step[p] \notin {"read", "write"}, s \notin {"read", "write", "answer"}, c.name \notin {"read", "write"},
         \A q \in Proc \ {p} : \A f \in File : Shows(q, f) => Shows(q, f)',
         \A i \in Inum : ilock[i] \notin {p, Nobody} => ilock'[i] = ilock[i],
         LockIn(s, c) => ilock'[c.ip] = p,
         NEW F, \A f \in File \ F : file'[f] = file[f],
         \A f \in F : IsOpen(f)' => file'[f].off = 0,
         \A q \in Proc \ {p} : Moving(q) => call[q].f \notin F
  PROVE  Idle(p, F)
<1>1. /\ step'[p] = s /\ call'[p] = c
      /\ \A q \in Proc \ {p} : step'[q] = step[q] /\ call'[q] = call[q]
  BY StartsFacts DEF SharedInv, FilesInv
<1>2. Locking(p)' => ilock'[call'[p].ip] = p
  BY <1>1 DEF Locking, LockIn
<1>3. ~Moving(p)'
  BY <1>1 DEF Moving
<1>. QED BY <1>1, <1>2, <1>3 DEF Idle

(* ... most of them with all files, descriptors and locks as they were.        *)
LEMMA ShowsKept ==
  ASSUME NEW p \in Proc, \A q \in Proc \ {p} : ofile'[q] = ofile[q]
  PROVE  \A q \in Proc \ {p} : \A f \in File : Shows(q, f) => Shows(q, f)'
BY DEF Shows

LEMMA ShowsAll ==
  ASSUME NEW p \in Proc, ofile' = ofile
  PROVE  \A q \in Proc \ {p} : \A f \in File : Shows(q, f) => Shows(q, f)'
BY DEF Shows

LEMMA IdleQuiet ==
  ASSUME SharedInv, NEW p \in Proc, NEW s, NEW c, Starts(p, s, c), UNCHANGED <<data, file, ilock>>,
         step[p] \notin {"read", "write"}, s \notin {"read", "write", "answer"}, c.name \notin {"read", "write"},
         \A q \in Proc \ {p} : \A f \in File : Shows(q, f) => Shows(q, f)',
         LockIn(s, c) => Locking(p) /\ c.ip = call[p].ip
  PROVE  Idle(p, {})
<1>1. LockIn(s, c) => ilock'[c.ip] = p
  BY DEF SharedInv, LockInv
<1>2. PICK F : F = {}
  OBVIOUS
<1>. QED BY <1>1, <1>2, IdleMove

LEMMA NameiIdle ==
  ASSUME SharedInv, NEW p \in Proc, Namei(p)
  PROVE  Idle(p, {})
<1>1. PICK i \in Inum, name \in {"open", "chdir"} : \E m :
        May(p, name) /\ Starts(p, "ilock", [NoCall EXCEPT !.name = name, !.ip = i, !.mode = m])
  BY DEF Namei
<1>2. PICK c : c.name \notin {"read", "write"} /\ Starts(p, "ilock", c)
  <2>1. PICK m : Starts(p, "ilock", [NoCall EXCEPT !.name = name, !.ip = i, !.mode = m])
    BY <1>1
  <2>2. PICK c : c = [NoCall EXCEPT !.name = name, !.ip = i, !.mode = m]
    OBVIOUS
  <2>3. c.name = name
    BY <2>2 DEF NoCall
  <2>. QED BY <2>1, <2>2, <2>3
<1>3. step[p] = "user" /\ UNCHANGED <<data, file, ilock, ofile>>
  BY <1>1 DEF Namei, May, In, tables
<1>4. ~LockIn("ilock", c)
  BY DEF LockIn
<1>. QED BY <1>2, <1>3, <1>4, ShowsAll, IdleQuiet

LEMMA IlockIdle ==
  ASSUME SharedInv, NEW p \in Proc, Ilock(p), call[p].name \in {"open", "chdir"}
  PROVE  Idle(p, {})
<1>1. /\ step[p] = "ilock" /\ ilock[call[p].ip] = Nobody /\ ilock' = [ilock EXCEPT ![call[p].ip] = p]
      /\ Starts(p, call[p].name, call[p]) /\ UNCHANGED <<data, file, ofile>>
  BY StayedAt DEF Ilock, In, counts, tables, SharedInv, FilesInv
<1>2. call[p].ip \in Inum /\ ilock \in [Inum -> Proc \cup {Nobody}]
  BY <1>1 DEF SharedInv, FilesInv, FileTypes, CallsInv, Calling
<1>3. ilock'[call[p].ip] = p /\ \A i \in Inum : ilock[i] \notin {p, Nobody} => ilock'[i] = ilock[i]
  BY <1>1, <1>2
<1>4. PICK F : F = {}
  OBVIOUS
<1>. QED BY <1>1, <1>3, <1>4, ShowsAll, IdleMove

LEMMA OpenAllocIdle ==
  ASSUME SharedInv, NEW p \in Proc, OpenAlloc(p)
  PROVE  Idle(p, {})
<1>1. /\ p \in alive /\ step[p] = "open" /\ UNCHANGED <<data, file, ilock>> /\ FilesInv /\ FileTypes /\ call[p].name = "open"
      /\ Locking(p)
  BY DEF OpenAlloc, In, SharedInv, FilesInv, CallsInv, Calling, Locking
<1>2. PICK s \in {"close", "opened"}, c \in CallRec : Starts(p, s, c) /\ c.name = "open" /\ c.ip = call[p].ip
  <2>1. call[p] \in CallRec /\ p \in alive
    BY <1>1 DEF FileTypes
  <2>2. CASE FreeFiles = {}
    <3>1. Starts(p, "close", call[p])
      BY <2>2, <1>1, StayedAt DEF OpenAlloc
    <3>. QED BY <2>1, <3>1, <1>1
  <2>3. CASE FreeFiles # {} /\ Descs(p) = Fd
    <3>1. PICK f \in File : f = Min(FreeFiles)
      BY <2>3, <1>1, FreeFacts
    <3>2. PICK c : c = [call[p] EXCEPT !.todo = <<f>>]
      OBVIOUS
    <3>3. c \in CallRec /\ c.name = call[p].name /\ c.ip = call[p].ip
      BY <2>1, <3>2 DEF CallRec, TodoLists
    <3>4. Starts(p, "close", c)
      BY <2>3, <3>1, <3>2 DEF OpenAlloc
    <3>. QED BY <3>3, <3>4, <1>1
  <2>4. CASE FreeFiles # {} /\ Descs(p) # Fd
    <3>1. PICK f \in File : f = Min(FreeFiles)
      BY <2>4, <1>1, FreeFacts
    <3>2. PICK c : c = [call[p] EXCEPT !.f = f]
      OBVIOUS
    <3>3. c \in CallRec /\ c.name = call[p].name /\ c.ip = call[p].ip
      BY <2>1, <3>2 DEF CallRec
    <3>4. Starts(p, "opened", c)
      BY <2>4, <3>1, <3>2 DEF OpenAlloc
    <3>. QED BY <3>3, <3>4, <1>1
  <2>. QED BY <2>2, <2>3, <2>4
<1>3. \A q \in Proc \ {p} : ofile'[q] = ofile[q]
  BY <1>1 DEF OpenAlloc, FileTypes
<1>. QED BY <1>1, <1>2, <1>3, ShowsKept, IdleQuiet

LEMMA ChdirIdle ==
  ASSUME SharedInv, NEW p \in Proc, Chdir(p)
  PROVE  Idle(p, {})
<1>1. /\ step[p] = "chdir" /\ ilock' = [ilock EXCEPT ![call[p].ip] = Nobody]
      /\ Starts(p, "user", NoCall) /\ UNCHANGED <<data, file, ofile>> /\ Locking(p)
  BY DEF Chdir, In, Returns, Locking
<1>2. \A i \in Inum : ilock[i] \notin {p, Nobody} => ilock'[i] = ilock[i]
  <2>1. ilock[call[p].ip] = p /\ ilock \in [Inum -> Proc \cup {Nobody}]
    BY <1>1 DEF SharedInv, LockInv, FilesInv, FileTypes
  <2>. QED BY <1>1, <2>1
<1>3. ~LockIn("user", NoCall)
  BY DEF LockIn
<1>4. PICK F : F = {}
  OBVIOUS
<1>. QED BY <1>1, <1>2, <1>3, <1>4, ShowsAll, IdleMove, NoCallFacts

LEMMA DupIdle ==
  ASSUME SharedInv, NEW p \in Proc, Dup(p)
  PROVE  Idle(p, {})
<1>1. PICK dsc \in Descs(p) : /\ ofile' = [ofile EXCEPT ![p][Min(Fd \ Descs(p))] = ofile[p][dsc]]
                              /\ Starts(p, "dup", [NoCall EXCEPT !.f = ofile[p][dsc]])
  BY DEF Dup
<1>2. PICK c : c = [NoCall EXCEPT !.f = ofile[p][dsc]]
  OBVIOUS
<1>3. c.name \notin {"read", "write"}
  BY <1>2 DEF NoCall
<1>4. step[p] = "user" /\ UNCHANGED <<data, file, ilock>>
  BY DEF Dup, May, In, counts
<1>5. ~LockIn("dup", c) /\ Starts(p, "dup", c)
  BY <1>1, <1>2 DEF LockIn
<1>6. \A q \in Proc \ {p} : ofile'[q] = ofile[q]
  BY <1>1 DEF SharedInv, FilesInv, FileTypes
<1>. QED BY <1>3, <1>4, <1>5, <1>6, ShowsKept, IdleQuiet

LEMMA DupCountIdle ==
  ASSUME SharedInv, NEW p \in Proc, DupCount(p)
  PROVE  Idle(p, {})
<1>1. step[p] = "dup" /\ UNCHANGED <<data, file, ilock, ofile>> /\ ~LockIn("user", NoCall) /\ Starts(p, "user", NoCall)
  BY DEF DupCount, In, Returns, tables, LockIn
<1>. QED BY <1>1, NoCallFacts, ShowsAll, IdleQuiet

LEMMA DropIdle ==
  ASSUME SharedInv, NEW p \in Proc, Drop(p)
  PROVE  Idle(p, {})
<1>1. PICK c : c = [call[p] EXCEPT !.ff = NoneFile]
  OBVIOUS
<1>2. step[p] = "drop" /\ UNCHANGED <<data, file, ilock, ofile>> /\ Starts(p, "close", c)
  BY <1>1 DEF Drop, In, tables
<1>3. c.name = call[p].name /\ c.ip = call[p].ip
  BY <1>1 DEF SharedInv, FilesInv, FileTypes, CallRec
<1>4. c.name \notin {"read", "write"}
  BY <1>2, <1>3 DEF SharedInv, FilesInv, CallsInv, Calling
<1>5. LockIn("close", c) => Locking(p)
  BY <1>2, <1>3 DEF LockIn, Locking
<1>. QED BY <1>2, <1>3, <1>4, <1>5, ShowsAll, IdleQuiet

LEMMA CloseDoneIdle ==
  ASSUME SharedInv, NEW p \in Proc, CloseDone(p)
  PROVE  Idle(p, {})
<1>1. /\ step[p] = "close" /\ Starts(p, "user", NoCall) /\ UNCHANGED <<data, file, ofile>>
      /\ IF call[p].name = "open" THEN ilock' = [ilock EXCEPT ![call[p].ip] = Nobody] ELSE ilock' = ilock
  BY DEF CloseDone, In, Returns, tables
<1>2. \A i \in Inum : ilock[i] \notin {p, Nobody} => ilock'[i] = ilock[i]
  <2>1. call[p].name = "open" => ilock[call[p].ip] = p
    BY <1>1 DEF SharedInv, LockInv, Locking
  <2>2. ilock \in [Inum -> Proc \cup {Nobody}]
    BY DEF SharedInv, FilesInv, FileTypes
  <2>. QED BY <1>1, <2>1, <2>2
<1>3. ~LockIn("user", NoCall)
  BY DEF LockIn
<1>4. PICK F : F = {}
  OBVIOUS
<1>. QED BY <1>1, <1>2, <1>3, <1>4, ShowsAll, IdleMove, NoCallFacts

LEMMA AnswerIdle ==
  ASSUME SharedInv, NEW p \in Proc, Answer(p)
  PROVE  Idle(p, {})
<1>1. step[p] = "answer" /\ UNCHANGED <<data, file, ilock, ofile>> /\ ~LockIn("user", NoCall) /\ Starts(p, "user", NoCall)
  BY DEF Answer, In, Returns, tables, counts, LockIn
<1>. QED BY <1>1, NoCallFacts, ShowsAll, IdleQuiet

LEMMA PipeIdle ==
  ASSUME SharedInv, NEW p \in Proc, Pipe(p)
  PROVE  Idle(p, {})
<1>1. PICK c : c = [NoCall EXCEPT !.name = "pipe"]
  OBVIOUS
<1>2. c.name = "pipe"
  BY <1>1 DEF NoCall
<1>3. step[p] = "user" /\ UNCHANGED <<data, file, ilock, ofile>> /\ Starts(p, "pipe", c)
  BY <1>1 DEF Pipe, May, In, counts, tables
<1>4. ~LockIn("pipe", c)
  BY DEF LockIn
<1>. QED BY <1>2, <1>3, <1>4, ShowsAll, IdleQuiet

LEMMA PipeFileIdle ==
  ASSUME SharedInv, NEW p \in Proc, PipeFile(p)
  PROVE  Idle(p, {})
<1>1. /\ p \in alive /\ step[p] = "pipe" /\ UNCHANGED <<data, file, ilock, ofile>> /\ FilesInv /\ FileTypes
      /\ call[p].name = "pipe" /\ call[p] \in CallRec
  BY DEF PipeFile, In, tables, SharedInv, FilesInv, CallsInv, Calling, FileTypes
<1>2. PICK s \in {"close", "pipe"} : \E c : Starts(p, s, c) /\ c.name = "pipe"
  <2>1. CASE FreeFiles = {}
    <3>1. Starts(p, "close", call[p])
      BY <2>1, <1>1, StayedAt DEF PipeFile
    <3>. QED BY <3>1, <1>1
  <2>2. CASE FreeFiles # {}
    <3>1. PICK c : c = [call[p] EXCEPT !.todo = Append(@, Min(FreeFiles))]
      OBVIOUS
    <3>2. c.name = "pipe"
      BY <3>1, <1>1 DEF CallRec
    <3>3. Starts(p, "pipe", c)
      BY <2>2, <3>1, <1>1 DEF PipeFile, Starts, Goes, FileTypes
    <3>. QED BY <3>2, <3>3
  <2>. QED BY <2>1, <2>2
<1>3. PICK c : Starts(p, s, c) /\ c.name = "pipe"
  BY <1>2
<1>4. ~LockIn(s, c)
  BY <1>3 DEF LockIn
<1>. QED BY <1>1, <1>3, <1>4, ShowsAll, IdleQuiet

LEMMA PipeNoPageIdle ==
  ASSUME SharedInv, NEW p \in Proc, PipeNoPage(p)
  PROVE  Idle(p, {})
<1>1. /\ p \in alive /\ step[p] = "pipe" /\ UNCHANGED <<data, file, ilock, ofile>> /\ FilesInv /\ FileTypes
      /\ call[p].name = "pipe" /\ Goes(p, "close") /\ call' = call
  BY DEF PipeNoPage, In, tables, counts, SharedInv, FilesInv, CallsInv, Calling
<1>2. Starts(p, "close", call[p])
  BY <1>1, StayedAt
<1>3. ~LockIn("close", call[p])
  BY <1>1 DEF LockIn
<1>. QED BY <1>1, <1>2, <1>3, ShowsAll, IdleQuiet

LEMMA ForkIdle ==
  ASSUME SharedInv, NEW p \in Proc, Fork(p)
  PROVE  Idle(p, {})
<1>1. PICK q : Starts(p, "fork", [NoCall EXCEPT !.np = q])
  BY DEF Fork
<1>2. PICK c : c = [NoCall EXCEPT !.np = q]
  OBVIOUS
<1>3. c.name \notin {"read", "write"}
  BY <1>2 DEF NoCall
<1>4. step[p] = "user" /\ UNCHANGED <<data, file, ilock, ofile>>
  BY DEF Fork, In, counts, tables
<1>5. ~LockIn("fork", c) /\ Starts(p, "fork", c)
  BY <1>1, <1>2 DEF LockIn
<1>. QED BY <1>3, <1>4, <1>5, ShowsAll, IdleQuiet

(* The child only comes to show more.                                          *)
LEMMA ForkDupIdle ==
  ASSUME SharedInv, NEW p \in Proc, ForkDup(p)
  PROVE  Idle(p, {})
<1>1. /\ p \in alive /\ step[p] = "fork" /\ Uncopied(p) # {} /\ FilesInv /\ FileTypes
      /\ UNCHANGED <<file, ilock, data, step, call>> /\ call[p].name = "none"
      /\ ofile' = [ofile EXCEPT ![call[p].np][Min(Uncopied(p))] = ofile[p][Min(Uncopied(p))]]
  <2>1. call[p] = [NoCall EXCEPT !.np = call[p].np]
    BY DEF ForkDup, In, SharedInv, FilesInv, CallsInv, Calling
  <2>2. call[p].name = "none"
    BY <2>1 DEF NoCall
  <2>. QED BY <2>2 DEF ForkDup, In, SharedInv, FilesInv
<1>2. PICK i \in Fd : i = Min(Uncopied(p)) /\ ofile[call[p].np][i] = NoFile
  <2>1. Uncopied(p) \subseteq Nat /\ Uncopied(p) \subseteq Fd
    BY FileConsts DEF Uncopied, Descs
  <2>2. Min(Uncopied(p)) \in Uncopied(p)
    BY <2>1, <1>1, MinFacts
  <2>. QED BY <2>1, <2>2 DEF Uncopied
<1>3. ASSUME NEW q \in Proc, NEW f \in File, Shows(q, f) PROVE Shows(q, f)'
  <2>1. PICK j \in Fd : ofile[q][j] = f
    BY <1>3 DEF Shows
  <2>2. q # call[p].np \/ j # i
    BY <2>1, <1>2, FileConsts
  <2>3. ofile'[q][j] = f
    BY <2>1, <2>2, <1>1, <1>2 DEF FileTypes
  <2>. QED BY <2>3 DEF Shows
<1>4. Starts(p, "fork", call[p])
  BY <1>1 DEF Starts, Goes, Keeps, FileTypes
<1>5. ~LockIn("fork", call[p])
  BY DEF LockIn
<1>. QED BY <1>1, <1>3, <1>4, <1>5, IdleQuiet

LEMMA ForkDoneIdle ==
  ASSUME SharedInv, NEW p \in Proc, ForkDone(p)
  PROVE  Idle(p, {})
<1>1. step[p] = "fork" /\ UNCHANGED <<data, file, ilock, ofile>> /\ ~LockIn("user", NoCall) /\ Starts(p, "user", NoCall)
  BY DEF ForkDone, In, Returns, LockIn
<1>. QED BY <1>1, NoCallFacts, ShowsAll, IdleQuiet

LEMMA ExitCallIdle ==
  ASSUME SharedInv, NEW p \in Proc, ExitCall(p)
  PROVE  Idle(p, {})
<1>1. PICK c : c = [NoCall EXCEPT !.name = "exit"]
  OBVIOUS
<1>2. c.name = "exit"
  BY <1>1 DEF NoCall
<1>3. step[p] = "user" /\ UNCHANGED <<data, file, ilock, ofile>> /\ Starts(p, "close", c)
  BY <1>1 DEF ExitCall, In, counts, tables
<1>4. ~LockIn("close", c)
  BY <1>2 DEF LockIn
<1>. QED BY <1>2, <1>3, <1>4, ShowsAll, IdleQuiet

LEMMA ExitDoneIdle ==
  ASSUME SharedInv, NEW p \in Proc, ExitDone(p)
  PROVE  Idle(p, {})
<1>1. step[p] = "close" /\ UNCHANGED <<data, file, ilock, ofile>> /\ ~LockIn("user", NoCall) /\ Starts(p, "user", NoCall)
  BY DEF ExitDone, In, Returns, LockIn
<1>. QED BY <1>1, NoCallFacts, ShowsAll, IdleQuiet

(* A read or write begins: its descriptor shows the file from here on.         *)
LEMMA TransferIdle ==
  ASSUME SharedInv, NEW p \in Proc, Transfer(p)
  PROVE  Idle(p, {})
<1>1. PICK dsc \in Descs(p), name \in {"read", "write"}, n \in Counts :
         /\ May(p, name)
         /\ file[ofile[p][dsc]].type # "PIPE"
         /\ IF file[ofile[p][dsc]].type = "NONE" THEN died' = TRUE /\ UNCHANGED <<step, call>> ELSE
            /\ Starts(p, "ilock", [NoCall EXCEPT !.name = name, !.f = ofile[p][dsc], !.n = n, !.ip = file[ofile[p][dsc]].obj])
            /\ UNCHANGED died
  BY DEF Transfer
<1>2. PICK f \in File : f = ofile[p][dsc] /\ Shows(p, f)
  BY DEF Descs, SharedInv, FilesInv, FileTypes, Shows
<1>3. /\ p \in alive /\ step[p] = "user" /\ FileTypes /\ ShownInv
      /\ UNCHANGED <<file, ofile, ilock, data>>
  BY <1>1 DEF May, In, SharedInv, FilesInv, Transfer, counts, tables
<1>4. file[f].type = "INODE"
  <2>1. Untyped(f) => step[p] = "opened"
    BY <1>2, <1>3 DEF ShownInv, ReadyInv, Descs
  <2>2. file[f].type \in {"NONE", "INODE", "PIPE"}
    BY <1>3 DEF FileTypes, FileRec
  <2>. QED BY <2>1, <2>2, <1>1, <1>2, <1>3 DEF Untyped
<1>5. PICK c : c = [NoCall EXCEPT !.name = name, !.f = f, !.n = n, !.ip = file[f].obj]
  OBVIOUS
<1>6. c.name = name /\ c.f = f /\ c.n = n /\ c.ip = file[f].obj /\ c.buf = <<>>
  BY <1>5 DEF NoCall
<1>7. Starts(p, "ilock", c)
  BY <1>1, <1>2, <1>4, <1>5
<1>8. /\ step'[p] = "ilock" /\ call'[p] = c
      /\ \A q \in Proc \ {p} : step'[q] = step[q] /\ call'[q] = call[q]
  BY <1>3, <1>7, StartsFacts
<1>9. MovesOn(p)'
  BY <1>2, <1>3, <1>4, <1>6, <1>8 DEF MovesOn, IsOpen, Shows
<1>10. ~Locking(p)'
  BY <1>8 DEF Locking
<1>. QED BY <1>3, <1>8, <1>9, <1>10, ShowsAll DEF Idle

(* The last close of a file leaves no read or write with it.                   *)
LEMMA CloseCountIdle ==
  ASSUME SharedInv, NEW p \in alive, NEW f \in File, NEW c, LetsGo(p, f, c), Closer(p, c), CloseCount(p, f, c),
         c.name = "open" => Locking(p) /\ c.ip = call[p].ip, UNCHANGED <<data, ilock>>
  PROVE  Idle(p, {}) \/ (Idle(p, {f}) /\ ~IsOpen(f)')
<1>1. /\ ref[f] \in Nat \ {0} /\ FileTypes /\ p \in Proc /\ step[p] \notin {"read", "write", "answer"}
      /\ c.name \notin {"read", "write"} /\ c \in CallRec
  BY DEF SharedInv, FilesInv, FileTypes, LetsGo, Closer
<1>2. \A q \in Proc \ {p} : ofile'[q] = ofile[q]
  BY DEF LetsGo
<1>3. \A q \in Proc \ {p} : \A h \in File : Shows(q, h) => Shows(q, h)'
  BY <1>1, <1>2, ShowsKept
<1>4. c.name = "open" => ilock'[c.ip] = p
  BY <1>1 DEF SharedInv, LockInv
<1>5. CASE ref[f] > 1
  <2>1. Starts(p, "close", c) /\ file' = file
    BY <1>1, <1>5 DEF CloseCount
  <2>2. LockIn("close", c) => Locking(p) /\ c.ip = call[p].ip
    BY DEF LockIn
  <2>. QED BY <1>1, <1>3, <2>1, <2>2, IdleQuiet
<1>6. CASE ref[f] = 1
  <2>1. Starts(p, "drop", [c EXCEPT !.ff = file[f]]) /\ file' = [file EXCEPT ![f] = NoneFile]
    BY <1>1, <1>6 DEF CloseCount, LastClosed
  <2>2. PICK e : e = [c EXCEPT !.ff = file[f]]
    OBVIOUS
  <2>3. e.name = c.name /\ e.ip = c.ip
    BY <1>1, <2>2 DEF CallRec
  <2>4. file'[f] = NoneFile /\ \A h \in File \ {f} : file'[h] = file[h]
    BY <1>1, <2>1 DEF FileTypes
  <2>5. ~IsOpen(f)'
    BY <2>4, NoCallFacts DEF IsOpen
  <2>6. ASSUME NEW q \in Proc \ {p}, Moving(q) PROVE call[q].f # f
    <3>1. Shows(q, call[q].f)
      BY <2>6 DEF SharedInv, MovesInv, MovesOn
    <3>2. ~Shows(q, f)'
      BY <1>6 DEF LetsGo
    <3>. QED BY <3>1, <3>2, <1>3
  <2>7. LockIn("drop", e) => ilock'[e.ip] = p
    BY <1>4, <2>3 DEF LockIn
  <2>8. PICK F : F = {f}
    OBVIOUS
  <2>9. Idle(p, F)
    <3>1. \A g \in F : IsOpen(g)' => file'[g].off = 0
      BY <2>5, <2>8
    <3>2. Starts(p, "drop", e) /\ e.name \notin {"read", "write"}
      BY <1>1, <2>1, <2>2, <2>3
    <3>3. \A g \in File \ F : file'[g] = file[g]
      BY <2>4, <2>8
    <3>4. \A q \in Proc \ {p} : Moving(q) => call[q].f \notin F
      BY <2>6, <2>8
    <3>5. \A i \in Inum : ilock[i] \notin {p, Nobody} => ilock'[i] = ilock[i]
      OBVIOUS
    <3>. QED BY <1>1, <1>3, <2>7, <3>1, <3>2, <3>3, <3>4, <3>5, IdleMove
  <2>. QED BY <2>5, <2>8, <2>9
<1>. QED BY <1>1, <1>5, <1>6

LEMMA ClosingIdle ==
  ASSUME SharedInv, NEW p \in Proc, Close(p) \/ ExitClose(p) \/ CloseNext(p)
  PROVE  \E f \in File : Idle(p, {}) \/ (Idle(p, {f}) /\ ~IsOpen(f)')
<1>1. PICK f \in File : \E c : Closes(p, f, c)
  BY CloseCloses, ExitCloseCloses, CloseNextCloses DEF SharedInv
<1>2. PICK c : Closes(p, f, c)
  BY <1>1
<1>3. c.name = "open" => Locking(p) /\ c.ip = call[p].ip
  BY <1>2 DEF Closes, Locking
<1>. QED BY <1>2, <1>3, CloseCountIdle DEF Closes

(* pipealloc and open set the fields of files that nobody reads or writes.     *)
LEMMA FreshFiles ==
  ASSUME SharedInv, NEW F, \A f \in F : Untyped(f), NEW q \in Proc, Moving(q)
  PROVE  call[q].f \notin F
BY DEF SharedInv, MovesInv, MovesOn, IsOpen, Untyped

LEMMA OpenedIdle ==
  ASSUME SharedInv, NEW p \in Proc, Opened(p)
  PROVE  \E f \in File : /\ Idle(p, {f}) /\ ~IsOpen(f) /\ IsOpen(f)' /\ file'[f].obj \in Inum
<1>1. /\ p \in alive /\ step[p] = "opened" /\ FilesInv /\ FileTypes /\ Starts(p, "user", NoCall) /\ Locking(p)
      /\ ilock' = [ilock EXCEPT ![call[p].ip] = Nobody]
      /\ file' = [file EXCEPT ![call[p].f] =
                    [type |-> "INODE", obj |-> call[p].ip, mode |-> call[p].mode, off |-> 0]]
      /\ UNCHANGED <<ofile, data>>
  BY DEF Opened, In, Returns, SharedInv, FilesInv, Locking, tables
<1>2. call[p].f \in File /\ Untyped(call[p].f) /\ call[p].ip \in Inum
  BY <1>1 DEF FilesInv, CallsInv, Calling
<1>3. PICK f \in File, F \in SUBSET File : f = call[p].f /\ F = {f}
  BY <1>2
<1>4. /\ file'[f].type = "INODE" /\ file'[f].obj = call[p].ip /\ file'[f].off = 0
      /\ \A g \in File \ {f} : file'[g] = file[g]
  BY <1>1, <1>3 DEF FileTypes
<1>5. \A i \in Inum : ilock[i] \notin {p, Nobody} => ilock'[i] = ilock[i]
  <2>1. ilock[call[p].ip] = p /\ ilock \in [Inum -> Proc \cup {Nobody}]
    BY <1>1 DEF SharedInv, LockInv, FileTypes
  <2>. QED BY <1>1, <2>1
<1>6. ~LockIn("user", NoCall)
  BY DEF LockIn
<1>7. Idle(p, F)
  <2>1. \A q \in Proc \ {p} : Moving(q) => call[q].f \notin F
    BY <1>2, <1>3, FreshFiles
  <2>2. /\ \A g \in File \ F : file'[g] = file[g]
        /\ \A g \in F : IsOpen(g)' => file'[g].off = 0
    BY <1>3, <1>4
  <2>3. \A q \in Proc \ {p} : \A g \in File : Shows(q, g) => Shows(q, g)'
    BY <1>1, ShowsAll
  <2>. QED BY <1>1, <1>5, <1>6, <2>1, <2>2, <2>3, IdleMove, NoCallFacts
<1>. QED BY <1>2, <1>3, <1>4, <1>7 DEF IsOpen, Untyped

LEMMA PipeMakeIdle ==
  ASSUME SharedInv, NEW p \in Proc, PipeMake(p)
  PROVE  \E F \in SUBSET File : Idle(p, F) /\ \A f \in F : ~IsOpen(f) /\ ~IsOpen(f)'
<1>1. PICK g \in PipePage :
         file' = [f \in File |->
              CASE f = call[p].todo[1] -> [type |-> "PIPE", obj |-> g, mode |-> {"r"}, off |-> 0]
                [] f = call[p].todo[2] -> [type |-> "PIPE", obj |-> g, mode |-> {"w"}, off |-> 0]
                [] OTHER -> file[f]]
  BY DEF PipeMake
<1>2. /\ p \in alive /\ step[p] = "pipe" /\ Len(call[p].todo) = 2 /\ FilesInv /\ FileTypes
      /\ UNCHANGED <<ilock, data>>
  BY DEF PipeMake, In, SharedInv, FilesInv
<1>3. /\ call[p].todo[1] # call[p].todo[2] /\ ToSet(call[p].todo) = {call[p].todo[1], call[p].todo[2]}
      /\ ToSet(call[p].todo) \subseteq File
  BY <1>2, Standing, CallTypes, TodoFacts
<1>4. call[p].name = "pipe" /\ \A f \in ToSet(call[p].todo) : Untyped(f)
  BY <1>2 DEF FilesInv, CallsInv, Calling
<1>5. PICK F \in SUBSET File : F = ToSet(call[p].todo)
  BY <1>3
<1>6. (\A f \in F : file'[f].type = "PIPE") /\ \A f \in File \ F : file'[f] = file[f]
  BY <1>1, <1>3, <1>5
<1>7. \A f \in F : ~IsOpen(f) /\ ~IsOpen(f)'
  BY <1>4, <1>5, <1>6 DEF Untyped, IsOpen
<1>8. PICK s \in {"close", "user"} : \E c : Starts(p, s, c) /\ c.name \in {"pipe", "none"}
  <2>1. \/ Goes(p, "close") /\ UNCHANGED call
        \/ Starts(p, "user", NoCall)
    BY DEF PipeMake, Returns
  <2>2. CASE Goes(p, "close") /\ UNCHANGED call
    <3>1. Starts(p, "close", call[p])
      BY <1>2, <2>2, StayedAt
    <3>. QED BY <3>1, <1>4
  <2>. QED BY <2>1, <2>2, NoCallFacts
<1>9. PICK c : Starts(p, s, c) /\ c.name \in {"pipe", "none"}
  BY <1>8
<1>10. \A q \in Proc \ {p} : ofile'[q] = ofile[q]
  <2>1. IF Cardinality(Fd \ Descs(p)) < 2 THEN UNCHANGED ofile
        ELSE ofile' = [ofile EXCEPT ![p][Min(Fd \ Descs(p))] = call[p].todo[1],
                                    ![p][Min((Fd \ Descs(p)) \ {Min(Fd \ Descs(p))})] = call[p].todo[2]]
    BY DEF PipeMake
  <2>2. ofile \in [Proc -> [Fd -> File \cup {NoFile}]]
    BY <1>2 DEF FileTypes
  <2>. QED BY <2>1, <2>2
<1>11. Idle(p, F)
  <2>1. \A q \in Proc \ {p} : Moving(q) => call[q].f \notin F
    BY <1>4, <1>5, FreshFiles
  <2>2. ~LockIn(s, c)
    BY <1>9 DEF LockIn
  <2>3. \A f \in F : IsOpen(f)' => file'[f].off = 0
    BY <1>7
  <2>4. \A q \in Proc \ {p} : \A f \in File : Shows(q, f) => Shows(q, f)'
    BY <1>10, ShowsKept
  <2>. QED BY <1>2, <1>6, <1>8, <1>9, <2>1, <2>2, <2>3, <2>4, IdleMove
<1>. QED BY <1>7, <1>11
-----------------------------------------------------------------------------
(* A step of a read or write changes nothing but the contents, the lock and    *)
(* the offset of what it is on.                                                *)
Working(p) ==
    /\ Moving(p) /\ ilock[call[p].ip] \in {Nobody, p}
    /\ \A q \in Proc \ {p} : step'[q] = step[q] /\ call'[q] = call[q]
    /\ UNCHANGED ofile
    /\ \A i \in Inum \ {call[p].ip} : data'[i] = data[i] /\ ilock'[i] = ilock[i]
    /\ \A f \in File : f # call[p].f => file'[f] = file[f]
    /\ \A f \in File : Kept(f)
    /\ step'[p] \in {"read", "write"} => call'[p].ip = call[p].ip /\ call'[p].f = call[p].f

LEMMA WorkKeeps ==
  ASSUME SharedInv, FilesInv', NEW p \in Proc, Working(p), OffsetsInv',
         Moving(p)' => MovesOn(p)', Locking(p)' => ilock'[call'[p].ip] = p,
         step'[p] \in {"read", "write"} => BlocksDone(p)'
  PROVE  SharedInv'
<1>1. ASSUME NEW q \in Proc \ {p}
      PROVE  /\ step'[q] = step[q] /\ call'[q] = call[q]
             /\ Locking(q) => call[q].ip \in Inum \ {call[p].ip} /\ ilock[call[q].ip] = q
             /\ Moving(q) => call[q].f \in File /\ call[q].ip \in Inum /\ MovesOn(q)
  <2>1. Locking(q) => ilock[call[q].ip] = q /\ call[q].ip \in Inum
    BY LockingInum DEF SharedInv, LockInv
  <2>2. q \notin {Nobody, p}
    BY FileConsts
  <2>3. Moving(q) => call[q].f \in File /\ call[q].ip \in Inum /\ MovesOn(q)
    BY WritingIs DEF SharedInv, MovesInv
  <2>. QED BY <2>1, <2>2, <2>3 DEF Working
<1>2. LockInv'
  <2>1. ASSUME NEW q \in Proc \ {p}, Locking(q)' PROVE ilock'[call'[q].ip] = q
    <3>1. Locking(q)
      BY <1>1, <2>1 DEF Locking
    <3>. QED BY <1>1, <3>1 DEF Working
  <2>. QED BY <2>1 DEF LockInv
<1>3. MovesInv'
  <2>1. ASSUME NEW q \in Proc \ {p}, Moving(q)' PROVE MovesOn(q)'
    <3>1. Moving(q)
      BY <1>1, <2>1 DEF Moving
    <3>2. Kept(call[q].f) /\ ofile' = ofile
      BY <1>1, <3>1 DEF Working
    <3>. QED BY <1>1, <3>1, <3>2 DEF MovesOn, IsOpen, Shows, Kept
  <2>. QED BY <2>1 DEF MovesInv
<1>4. BlocksInv'
  <2>1. ASSUME NEW q \in Proc \ {p}, step'[q] \in {"read", "write"} PROVE BlocksDone(q)'
    <3>1. /\ step'[q] = step[q] /\ call'[q] = call[q] /\ Locking(q) /\ Moving(q) /\ BlocksDone(q)
      BY <1>1, <2>1, WritingIs DEF Locking, SharedInv, BlocksInv
    <3>2. data'[call[q].ip] = data[call[q].ip]
      BY <1>1, <3>1 DEF Working
    <3>3. call[q].f # call[p].f
      BY <1>1, <3>1 DEF MovesOn, SharedInv, MovesInv, Working
    <3>4. file'[call[q].f] = file[call[q].f]
      BY <1>1, <3>1, <3>3 DEF Working
    <3>. QED BY <3>1, <3>2, <3>4, SMTT(30) DEF BlocksDone, Off, Goal
  <2>. QED BY <2>1 DEF BlocksInv
<1>. QED BY <1>2, <1>3, <1>4 DEF SharedInv

LEMMA WorkShown ==
  ASSUME SharedInv, SharedInv', NEW p \in Proc, Working(p)
  PROVE  /\ \A i \in Inum \ {call[p].ip} : Written(i)' = Written(i)
         /\ \A f \in File : OpenedAs(f)' = OpenedAs(f)
         /\ \A f \in File \ {call[p].f} : OffsetAs(f)' = OffsetAs(f)
         /\ \A q \in Proc \ {p} : AnswerAs(q)' = AnswerAs(q)
<1>1. ASSUME NEW q \in Proc \ {p} PROVE step'[q] = step[q] /\ call'[q] = call[q]
  BY DEF Working
<1>2. ASSUME NEW q \in Proc, step[q] = "write"
      PROVE  /\ Moving(q) /\ call[q].f \in File /\ call[q].ip \in Inum /\ call[q].name = "write"
             /\ file[call[q].f].obj = call[q].ip
  BY <1>2, WritingIs DEF SharedInv, MovesInv, MovesOn
<1>3. step[p] = "write" \/ step'[p] = "write" => Moving(p)
  BY DEF Working
<1>4. file[call[p].f].obj = call[p].ip /\ FilesInv /\ FilesInv'
  BY DEF Working, SharedInv, MovesInv, MovesOn
<1>5. ASSUME NEW i \in Inum \ {call[p].ip} PROVE Written(i)' = Written(i)
  <2>0. data'[i] = data[i]
    BY DEF Working
  <2>1. CASE \E q \in Proc : step[q] = "write" /\ call[q].ip = i
    <3>1. PICK q \in Proc : step[q] = "write" /\ call[q].ip = i
      BY <2>1
    <3>2. q # p /\ step'[q] = "write" /\ call'[q] = call[q]
      BY <3>1, <1>1
    <3>3. Written(i) = Final(q)
      BY <3>1, WrittenBy
    <3>4. Written(i)' = Final(q)'
      BY <3>1, <3>2, WrittenByNext
    <3>5. file'[call[q].f] = file[call[q].f]
      BY <3>1, <1>2, <1>4 DEF Working
    <3>6. call[q].name = "write"
      BY <3>1, <1>2
    <3>7. Final(q)' = Final(q)
      BY <3>1, <3>2, <3>5, <3>6, <2>0 DEF Final, Off, Goal
    <3>. QED BY <3>3, <3>4, <3>7
  <2>2. CASE \A q \in Proc : step[q] = "write" => call[q].ip # i
    <3>1. \A q \in Proc : step'[q] = "write" => call'[q].ip # i
      BY <2>2, <1>1 DEF Working
    <3>2. Written(i) = data[i]
      BY <2>2, <1>4, WrittenElse
    <3>3. Written(i)' = data'[i]
      BY <3>1, <1>4, WrittenElseNext
    <3>. QED BY <3>2, <3>3, <2>0
  <2>. QED BY <2>1, <2>2
<1>6. \A f \in File : OpenedAs(f)' = OpenedAs(f)
  BY DEF Working, Kept, OpenedAs, IsOpen
<1>7. ASSUME NEW f \in File \ {call[p].f} PROVE OffsetAs(f)' = OffsetAs(f)
  <2>1. file'[f] = file[f]
    BY DEF Working
  <2>2. Offset(f)' = Offset(f)
    <3>1. CASE \E q \in Proc : step[q] = "write" /\ call[q].f = f
      <4>1. PICK q \in Proc : step[q] = "write" /\ call[q].f = f
        BY <3>1
      <4>2. step'[q] = "write" /\ call'[q] = call[q] /\ call'[q].f = f /\ call[q].name = "write"
        BY <4>1, <1>1, <1>2
      <4>3. Offset(f) = file[f].off + Goal(q)
        BY <4>1, OffsetBy
      <4>4. Offset(f)' = file'[f].off + Goal(q)'
        BY <4>2, OffsetByNext
      <4>5. Goal(q)' = Goal(q)
        BY <4>1, <4>2, <2>1 DEF Goal, Off
      <4>. QED BY <4>3, <4>4, <4>5, <2>1
    <3>2. CASE \A q \in Proc : step[q] = "write" => call[q].f # f
      <4>1. \A q \in Proc : step'[q] = "write" => call'[q].f # f
        BY <3>2, <1>1 DEF Working
      <4>2. Offset(f) = file[f].off
        BY <3>2, <1>4, OffsetElse
      <4>3. Offset(f)' = file'[f].off
        BY <4>1, <1>4, OffsetElseNext
      <4>. QED BY <4>2, <4>3, <2>1
    <3>. QED BY <3>1, <3>2
  <2>. QED BY <2>1, <2>2 DEF OffsetAs, IsOpen
<1>8. \A q \in Proc \ {p} : AnswerAs(q)' = AnswerAs(q)
  BY <1>1 DEF AnswerAs
<1>. QED BY <1>5, <1>6, <1>7, <1>8

(* Where a read or write begins, and how far it gets.                          *)
LEMMA Ranges ==
  ASSUME SharedInv, NEW p \in Proc, Moving(p)
  PROVE  /\ call[p].f \in File /\ call[p].ip \in Inum /\ IsOpen(call[p].f) /\ call[p].n \in Nat
         /\ data[call[p].ip] \in Seq(Proc) /\ Len(data[call[p].ip]) \in Nat
         /\ Off(p) \in Nat /\ Off(p) <= Len(data[call[p].ip]) /\ Len(data[call[p].ip]) <= MaxSize
         /\ Goal(p) \in Nat /\ Goal(p) <= call[p].n
         /\ call[p].name = "read" => Off(p) + Goal(p) <= Len(data[call[p].ip])
                                     /\ Goal(p) = Shared!Least(call[p].n, Len(data[call[p].ip]) - Off(p))
         /\ call[p].name = "write" => Off(p) + Goal(p) <= MaxSize
                                      /\ Goal(p) = Shared!Least(call[p].n, MaxSize - Off(p))
         /\ call[p].buf \in Seq(Proc) /\ Len(call[p].buf) \in Nat
<1>1. /\ call[p].f \in File /\ call[p].ip \in Inum /\ IsOpen(call[p].f) /\ call[p].n \in Nat
      /\ file[call[p].f].obj = call[p].ip
  BY WritingIs, FileConsts DEF SharedInv, MovesInv, MovesOn
<1>2. data[call[p].ip] \in Seq(Proc) /\ call[p].buf \in Seq(Proc) /\ Off(p) \in Nat
  BY <1>1 DEF SharedInv, FilesInv, FileTypes, CallRec, FileRec, Off
<1>3. PICK m \in Nat : m = Len(data[call[p].ip])
  BY <1>2
<1>4. Off(p) <= m /\ m <= MaxSize /\ MaxSize \in Nat
  BY <1>1, <1>3, FileConsts DEF SharedInv, OffsetsInv, Off
<1>5. Goal(p) = Min({call[p].n, (IF call[p].name = "read" THEN m ELSE MaxSize) - Off(p)})
  BY <1>3 DEF Goal
<1>6. \A x, y \in Int : Min({x, y}) = IF x <= y THEN x ELSE y
  BY MinOfTwo
<1>7. PICK l \in Nat : l = IF call[p].name = "read" THEN m ELSE MaxSize
  BY <1>4
<1>8. Off(p) <= l /\ Goal(p) = Shared!Least(call[p].n, l - Off(p))
  <2>1. Off(p) <= l
    BY <1>2, <1>4, <1>7
  <2>2. Goal(p) = Min({call[p].n, l - Off(p)})
    BY <1>5, <1>7
  <2>3. call[p].n \in Int /\ l - Off(p) \in Int
    BY <1>1, <1>2
  <2>4. Goal(p) = IF call[p].n <= l - Off(p) THEN call[p].n ELSE l - Off(p)
    BY <1>6, <2>2, <2>3
  <2>. QED BY <2>1, <2>4 DEF Shared!Least
<1>9. Goal(p) \in Nat /\ Goal(p) <= call[p].n /\ Off(p) + Goal(p) <= l
  BY <1>1, <1>2, <1>8 DEF Shared!Least
<1>10. Len(call[p].buf) \in Nat
  BY <1>2
<1>11. /\ call[p].name = "read" => l = Len(data[call[p].ip])
       /\ call[p].name = "write" => l = MaxSize
  BY <1>3, <1>7
<1>. QED BY <1>1, <1>2, <1>3, <1>4, <1>8, <1>9, <1>10, <1>11

LEMMA IlockWorks ==
  ASSUME SharedInv, FilesInv', NEW p \in Proc, Ilock(p), Moving(p)
  PROVE  /\ SharedInv' /\ Working(p)
         /\ UNCHANGED <<data, file>> /\ call'[p] = call[p] /\ step'[p] = call[p].name /\ call[p].buf = <<>>
         /\ \A q \in Proc : Locking(q) => call[q].ip # call[p].ip
<1>1. /\ step[p] = "ilock" /\ ilock[call[p].ip] = Nobody /\ ilock' = [ilock EXCEPT ![call[p].ip] = p]
      /\ Starts(p, call[p].name, call[p]) /\ UNCHANGED <<data, file, ofile>> /\ FilesInv /\ FileTypes
  BY StayedAt DEF Ilock, In, counts, tables, SharedInv, FilesInv
<1>2. /\ step'[p] = call[p].name /\ call'[p] = call[p]
      /\ \A q \in Proc \ {p} : step'[q] = step[q] /\ call'[q] = call[q]
  BY <1>1, StartsFacts
<1>3. MovesOn(p) /\ call[p].ip \in Inum /\ call[p].buf = <<>>
  BY <1>1, Ranges DEF SharedInv, MovesInv, MovesOn
<1>4. ilock'[call[p].ip] = p /\ \A i \in Inum \ {call[p].ip} : ilock'[i] = ilock[i]
  BY <1>1, <1>3 DEF FileTypes
<1>5. Working(p)
  BY <1>1, <1>2, <1>4 DEF Working, Kept
<1>6. MovesOn(p)'
  BY <1>1, <1>2, <1>3 DEF MovesOn, IsOpen, Shows
<1>7. BlocksDone(p)'
  <2>1. Goal(p) \in Nat /\ Off(p) \in Nat /\ Off(p) <= Len(data[call[p].ip])
    BY Ranges
  <2>2. Len(<<>>) = 0
    OBVIOUS
  <2>3. Goal(p)' = Goal(p) /\ Off(p)' = Off(p)
    BY <1>1, <1>2 DEF Goal, Off
  <2>4. Len(call'[p].buf) = 0 /\ call'[p].ip = call[p].ip
    BY <1>2, <1>3, <2>2
  <2>5. 0 <= Goal(p) /\ Off(p) + 0 = Off(p) /\ \A k \in 1 .. 0 : FALSE
    BY <2>1
  <2>. QED BY <1>1, <2>1, <2>3, <2>4, <2>5 DEF BlocksDone
<1>8. OffsetsInv'
  BY <1>1 DEF SharedInv, OffsetsInv, IsOpen
<1>9. SharedInv'
  BY <1>2, <1>4, <1>5, <1>6, <1>7, <1>8, WorkKeeps
<1>10. \A q \in Proc : Locking(q) => call[q].ip # call[p].ip
  BY <1>1, FileConsts DEF SharedInv, LockInv
<1>. QED BY <1>1, <1>2, <1>3, <1>5, <1>9, <1>10

LEMMA ReadBlockWorks ==
  ASSUME SharedInv, FilesInv', NEW p \in Proc, ReadBlock(p)
  PROVE  SharedInv' /\ Working(p) /\ UNCHANGED <<data, file, step>>
<1>1. /\ p \in alive /\ step[p] = "read" /\ Len(call[p].buf) < Goal(p) /\ FilesInv /\ FileTypes
      /\ Keeps(p, [call[p] EXCEPT !.buf = Append(@, data[call[p].ip][Next1(p)])])
      /\ UNCHANGED <<data, file, ofile, ilock, step>>
  BY DEF ReadBlock, In, counts, tables, SharedInv, FilesInv
<1>2. Moving(p) /\ MovesOn(p) /\ BlocksDone(p) /\ call[p].name = "read" /\ ilock[call[p].ip] = p
  BY <1>1, WritingIs DEF SharedInv, MovesInv, BlocksInv, LockInv, Locking
<1>3. PICK b : b = Append(call[p].buf, data[call[p].ip][Next1(p)])
  OBVIOUS
<1>4. PICK c : c = [call[p] EXCEPT !.buf = b]
  OBVIOUS
<1>5. c.f = call[p].f /\ c.ip = call[p].ip /\ c.n = call[p].n /\ c.name = call[p].name /\ c.buf = b
  BY <1>1, <1>4 DEF FileTypes, CallRec
<1>6. Starts(p, "read", c)
  BY <1>1, <1>3, <1>4 DEF Starts, Goes, Keeps, FileTypes
<1>7. /\ step'[p] = "read" /\ call'[p] = c
      /\ \A q \in Proc \ {p} : step'[q] = step[q] /\ call'[q] = call[q]
  BY <1>1, <1>6, StartsFacts
<1>8. Working(p)
  BY <1>1, <1>2, <1>5, <1>7 DEF Working, Kept
<1>9. MovesOn(p)'
  BY <1>1, <1>2, <1>5, <1>7 DEF MovesOn, IsOpen, Shows
<1>10. BlocksDone(p)'
  <2>1. /\ Off(p) \in Nat /\ Goal(p) \in Nat /\ call[p].buf \in Seq(Proc) /\ data[call[p].ip] \in Seq(Proc)
        /\ Off(p) + Goal(p) <= Len(data[call[p].ip]) /\ Len(data[call[p].ip]) \in Nat
    BY <1>2, Ranges
  <2>2. PICK n \in Nat : n = Len(call[p].buf) /\ n < Goal(p)
    BY <1>1, <2>1
  <2>3. /\ Off(p) + n + 1 \in 1 .. Len(data[call[p].ip]) /\ Next1(p) = Off(p) + n + 1
        /\ n + 1 <= Goal(p) /\ Off(p) + (n + 1) <= Len(data[call[p].ip])
    <3>1. \A o, g, m \in Nat : n < g /\ o + g <= m => o + n + 1 \in 1 .. m /\ n + 1 <= g /\ o + (n + 1) <= m
      OBVIOUS
    <3>. QED BY <2>1, <2>2, <3>1 DEF Next1
  <2>4. data[call[p].ip][Next1(p)] \in Proc
    BY <2>1, <2>3
  <2>5. Len(b) = n + 1 /\ b[n + 1] = data[call[p].ip][Next1(p)] /\ \A k \in 1 .. n : b[k] = call[p].buf[k]
    BY <1>3, <2>1, <2>2, <2>4
  <2>6. ASSUME NEW k \in 1 .. n + 1 PROVE data[call[p].ip][Off(p) + k] = b[k]
    <3>1. CASE k = n + 1
      BY <3>1, <2>1, <2>3, <2>5
    <3>2. CASE k \in 1 .. n
      BY <3>2, <1>2, <2>2, <2>5 DEF BlocksDone
    <3>. QED BY <3>1, <3>2
  <2>7. Goal(p)' = Goal(p) /\ Off(p)' = Off(p)
    BY <1>1, <1>5, <1>7 DEF Goal, Off
  <2>8. call'[p].buf = b /\ call'[p].ip = call[p].ip /\ data' = data
    BY <1>1, <1>5, <1>7
  <2>. QED BY <2>3, <2>5, <2>6, <2>7, <2>8 DEF BlocksDone
<1>11. OffsetsInv'
  BY <1>1 DEF SharedInv, OffsetsInv, IsOpen
<1>12. Locking(p)' => ilock'[call'[p].ip] = p
  BY <1>1, <1>2, <1>5, <1>7
<1>. QED BY <1>1, <1>8, <1>9, <1>10, <1>11, <1>12, WorkKeeps

(* A block of a write is put where the write has got to.                       *)
LEMMA PutFacts ==
  ASSUME NEW c \in Seq(Proc), NEW p \in Proc, NEW k \in 1 .. Len(c) + 1
  PROVE  /\ Put(c, k, p) \in Seq(Proc) /\ Len(Put(c, k, p)) = Max({Len(c), k})
         /\ Put(c, k, p)[k] = p
         /\ \A j \in 1 .. Len(c) : j # k => Put(c, k, p)[j] = c[j]
<1>1. PICK n \in Nat : n = Len(c)
  OBVIOUS
<1>2. Max({n, k}) = IF n >= k THEN n ELSE k
  BY <1>1, MaxTwo
<1>3. CASE k > n
  <2>1. Put(c, k, p) = Append(c, p) /\ k = n + 1
    BY <1>1, <1>3 DEF Put
  <2>. QED BY <2>1, <1>1, <1>2
<1>4. CASE ~(k > n)
  <2>1. Put(c, k, p) = [c EXCEPT ![k] = p] /\ k \in 1 .. n
    BY <1>1, <1>4 DEF Put
  <2>2. [c EXCEPT ![k] = p] \in Seq(Proc) /\ Len([c EXCEPT ![k] = p]) = n
    BY <2>1, <1>1
  <2>. QED BY <2>1, <2>2, <1>1, <1>2
<1>. QED BY <1>3, <1>4

LEMMA WriteBlockWorks ==
  ASSUME SharedInv, FilesInv', NEW p \in Proc, WriteBlock(p)
  PROVE  SharedInv' /\ Working(p) /\ UNCHANGED <<file, step>> /\ call'[p].ip = call[p].ip /\ call'[p].f = call[p].f
         /\ Goal(p)' = Goal(p) /\ Final(p)' = Final(p)
<1>1. /\ p \in alive /\ step[p] = "write" /\ Len(call[p].buf) < Goal(p) /\ FilesInv /\ FileTypes
      /\ data' = [data EXCEPT ![call[p].ip] = Put(@, Next1(p), p)]
      /\ Keeps(p, [call[p] EXCEPT !.buf = Append(@, p)])
      /\ UNCHANGED <<file, ofile, ilock, step>>
  BY DEF WriteBlock, In, counts, tables, SharedInv, FilesInv
<1>2. Moving(p) /\ MovesOn(p) /\ BlocksDone(p) /\ call[p].name = "write" /\ ilock[call[p].ip] = p
  BY <1>1, WritingIs DEF SharedInv, MovesInv, BlocksInv, LockInv, Locking
<1>3. PICK b : b = Append(call[p].buf, p)
  OBVIOUS
<1>4. PICK c : c = [call[p] EXCEPT !.buf = b]
  OBVIOUS
<1>5. c.f = call[p].f /\ c.ip = call[p].ip /\ c.n = call[p].n /\ c.name = call[p].name /\ c.buf = b
  BY <1>1, <1>4 DEF FileTypes, CallRec
<1>6. Starts(p, "write", c)
  BY <1>1, <1>3, <1>4 DEF Starts, Goes, Keeps, FileTypes
<1>7. /\ step'[p] = "write" /\ call'[p] = c
      /\ \A q \in Proc \ {p} : step'[q] = step[q] /\ call'[q] = call[q]
  BY <1>1, <1>6, StartsFacts
<1>8. PICK i \in Inum, x \in Seq(Proc), m \in Nat, o \in Nat, g \in Nat, n \in Nat :
        /\ i = call[p].ip /\ x = data[i] /\ m = Len(x) /\ o = Off(p) /\ g = Goal(p) /\ n = Len(call[p].buf)
        /\ o + g <= MaxSize /\ m <= MaxSize /\ call[p].buf \in Seq(Proc)
  BY <1>2, Ranges
<1>9. n < g /\ o + n <= m /\ \A k \in 1 .. n : x[o + k] = call[p].buf[k]
  BY <1>1, <1>2, <1>8 DEF BlocksDone
<1>10. PICK y \in Seq(Proc), h \in Nat, u \in Nat :
         /\ u = o + n + 1 /\ y = Put(x, u, p) /\ h = Len(y) /\ h = (IF m >= u THEN m ELSE u)
         /\ y[u] = p /\ \A j \in 1 .. m : j # u => y[j] = x[j]
  <2>1. PICK u \in Nat : u = o + n + 1 /\ u \in 1 .. m + 1
    BY <1>9
  <2>2. Max({m, u}) = IF m >= u THEN m ELSE u
    BY MaxTwo
  <2>3. PICK y : y = Put(x, u, p)
    OBVIOUS
  <2>4. u \in 1 .. Len(x) + 1
    BY <2>1, <1>8
  <2>5. /\ Put(x, u, p) \in Seq(Proc) /\ Len(Put(x, u, p)) = Max({Len(x), u}) /\ Put(x, u, p)[u] = p
        /\ \A j \in 1 .. Len(x) : j # u => Put(x, u, p)[j] = x[j]
    BY <2>4, PutFacts
  <2>6. y \in Seq(Proc) /\ Len(y) = Max({m, u}) /\ y[u] = p /\ \A j \in 1 .. m : j # u => y[j] = x[j]
    BY <2>3, <2>5, <1>8
  <2>7. Len(y) \in Nat
    BY <2>6
  <2>. QED BY <2>1, <2>2, <2>3, <2>6, <2>7
<1>11. data'[i] = y /\ \A j \in Inum \ {i} : data'[j] = data[j]
  BY <1>1, <1>8, <1>10 DEF Next1, FileTypes
<1>12. Working(p)
  BY <1>1, <1>2, <1>5, <1>7, <1>8, <1>11 DEF Working, Kept
<1>13. MovesOn(p)'
  BY <1>1, <1>2, <1>5, <1>7 DEF MovesOn, IsOpen, Shows
<1>14. Goal(p)' = g /\ Off(p)' = o
  BY <1>1, <1>2, <1>5, <1>7, <1>8 DEF Goal, Off
<1>15. Len(b) = n + 1 /\ b[n + 1] = p /\ \A k \in 1 .. n : b[k] = call[p].buf[k]
  BY <1>3, <1>8
<1>16. BlocksDone(p)'
  <2>1. ASSUME NEW k \in 1 .. n + 1 PROVE y[o + k] = b[k]
    <3>1. CASE k = n + 1
      BY <3>1, <1>10, <1>15
    <3>2. CASE k \in 1 .. n
      <4>1. o + k \in 1 .. m /\ o + k # u
        BY <3>2, <1>9, <1>10
      <4>. QED BY <3>2, <4>1, <1>9, <1>10, <1>15
    <3>. QED BY <3>1, <3>2
  <2>2. n + 1 <= g /\ o + (n + 1) <= h
    BY <1>9, <1>10
  <2>3. call'[p].buf = b /\ data'[call'[p].ip] = y
    BY <1>5, <1>7, <1>8, <1>11
  <2>4. Len(b) <= g /\ o + Len(b) <= Len(y) /\ \A k \in 1 .. Len(b) : y[o + k] = b[k]
    BY <2>1, <2>2, <1>10, <1>15
  <2>. QED BY <2>3, <2>4, <1>14 DEF BlocksDone
<1>17. OffsetsInv'
  <2>1. h <= MaxSize /\ m <= h
    <3>1. PICK size \in Nat : size = MaxSize
      BY FileConsts
    <3>2. o + g <= size /\ m <= size /\ n < g
      BY <1>8, <1>9, <3>1
    <3>3. u <= size
      BY <3>2, <1>10
    <3>. QED BY <3>1, <3>2, <3>3, <1>10
  <2>2. \A j \in Inum : Len(data'[j]) <= MaxSize /\ Len(data[j]) <= Len(data'[j])
    <3>1. \A j \in Inum : Len(data[j]) \in Nat /\ Len(data[j]) <= MaxSize
      BY <1>1 DEF FileTypes, SharedInv, OffsetsInv
    <3>. QED BY <3>1, <2>1, <1>8, <1>10, <1>11, SMTT(30)
  <2>3. ASSUME NEW f \in File, IsOpen(f) PROVE file[f].off <= Len(data'[file[f].obj])
    <3>1. PICK j \in Inum, e \in Nat : j = file[f].obj /\ e = file[f].off
      BY <1>1, <2>3 DEF IsOpen, FilesInv, EndsInv, FieldsOK, FileTypes, FileRec
    <3>2. e <= Len(data[j])
      BY <2>3, <3>1 DEF SharedInv, OffsetsInv
    <3>3. Len(data[j]) \in Nat /\ Len(data'[j]) \in Nat
      BY <1>1, <1>10, <1>11 DEF FileTypes
    <3>. QED BY <2>2, <3>1, <3>2, <3>3
  <2>. QED BY <2>2, <2>3, <1>1 DEF OffsetsInv, IsOpen
<1>18. Final(p)' = Final(p)
  <2>1. Max({m, o + g}) = Max({h, o + g})
    <3>1. /\ Max({m, o + g}) = IF m >= o + g THEN m ELSE o + g
          /\ Max({h, o + g}) = IF h >= o + g THEN h ELSE o + g
      BY MaxTwo
    <3>. QED BY <3>1, <1>9, <1>10
  <2>2. PICK l \in Nat : l = Max({m, o + g}) /\ l = (IF m >= o + g THEN m ELSE o + g)
    BY MaxTwo
  <2>3. Final(p) = [k \in 1 .. l |-> IF k \in o + n + 1 .. o + g THEN p ELSE x[k]]
    BY <1>8, <2>2 DEF Final
  <2>4. Final(p)' = [k \in 1 .. l |-> IF k \in o + (n + 1) + 1 .. o + g THEN p ELSE y[k]]
    <3>1. call'[p].buf = b /\ data'[call'[p].ip] = y
      BY <1>5, <1>7, <1>8, <1>11
    <3>2. Max({Len(y), o + g}) = l /\ o + Len(b) + 1 = o + (n + 1) + 1
      BY <1>10, <1>15, <2>1, <2>2
    <3>. QED BY <3>1, <3>2, <1>14 DEF Final
  <2>5. ASSUME NEW k \in 1 .. l
        PROVE  (IF k \in o + n + 1 .. o + g THEN p ELSE x[k]) = IF k \in o + (n + 1) + 1 .. o + g THEN p ELSE y[k]
    <3>1. CASE k = u
      BY <3>1, <1>9, <1>10
    <3>2. CASE k # u
      <4>1. k \in o + n + 1 .. o + g <=> k \in o + (n + 1) + 1 .. o + g
        BY <3>2, <1>10
      <4>2. k \notin o + n + 1 .. o + g => k \in 1 .. m
        BY <1>9, <2>2
      <4>. QED BY <3>2, <4>1, <4>2, <1>10
    <3>. QED BY <3>1, <3>2
  <2>. QED BY <2>3, <2>4, <2>5
<1>19. Locking(p)' => ilock'[call'[p].ip] = p
  BY <1>1, <1>2, <1>5, <1>7
<1>20. SharedInv'
  BY <1>12, <1>13, <1>16, <1>17, <1>19, WorkKeeps
<1>. QED BY <1>1, <1>5, <1>7, <1>8, <1>12, <1>14, <1>18, <1>20

LEMMA TransferredWorks ==
  ASSUME SharedInv, FilesInv', NEW p \in Proc, Transferred(p)
  PROVE  /\ SharedInv' /\ Working(p) /\ UNCHANGED data
         /\ step[p] \in {"read", "write"} /\ step'[p] = "answer" /\ Len(call[p].buf) = Goal(p)
         /\ file'[call[p].f].off = Off(p) + Goal(p)
         /\ call'[p].buf = (IF step[p] = "read" THEN call[p].buf ELSE <<>>)
<1>1. /\ p \in alive /\ step[p] \in {"read", "write"} /\ Len(call[p].buf) = Goal(p) /\ FilesInv /\ FileTypes
      /\ file' = [file EXCEPT ![call[p].f].off = @ + Len(call[p].buf)]
      /\ ilock' = [ilock EXCEPT ![call[p].ip] = Nobody]
      /\ Starts(p, "answer", [NoCall EXCEPT !.buf = IF call[p].name = "read" THEN call[p].buf ELSE <<>>])
      /\ UNCHANGED <<data, ofile>>
  BY DEF Transferred, In, tables, SharedInv, FilesInv
<1>2. Moving(p) /\ MovesOn(p) /\ BlocksDone(p) /\ call[p].name = step[p] /\ ilock[call[p].ip] = p
  BY <1>1, WritingIs DEF SharedInv, MovesInv, BlocksInv, LockInv, Locking
<1>3. PICK b : b = IF step[p] = "read" THEN call[p].buf ELSE <<>>
  OBVIOUS
<1>4. PICK c : c = [NoCall EXCEPT !.buf = b]
  OBVIOUS
<1>5. c.name = "none" /\ c.buf = b
  BY <1>4 DEF NoCall
<1>6. Starts(p, "answer", c)
  BY <1>1, <1>2, <1>3, <1>4
<1>7. /\ step'[p] = "answer" /\ call'[p] = c
      /\ \A q \in Proc \ {p} : step'[q] = step[q] /\ call'[q] = call[q]
  BY <1>1, <1>6, StartsFacts
<1>8. PICK f \in File, i \in Inum : f = call[p].f /\ i = call[p].ip /\ IsOpen(f) /\ file[f].obj = i
  BY <1>2, Ranges DEF MovesOn
<1>9. /\ file[f] \in FileRec /\ file'[f] = [file[f] EXCEPT !.off = @ + Goal(p)]
      /\ \A h \in File \ {f} : file'[h] = file[h]
  BY <1>1, <1>8 DEF FileTypes
<1>10. /\ file'[f].type = file[f].type /\ file'[f].obj = file[f].obj /\ file'[f].mode = file[f].mode
       /\ file'[f].off = Off(p) + Goal(p)
  BY <1>8, <1>9 DEF FileRec, Off
<1>11. ilock'[i] = Nobody /\ \A j \in Inum \ {i} : ilock'[j] = ilock[j]
  BY <1>1, <1>8 DEF FileTypes
<1>12. Working(p)
  <2>1. \A h \in File : Kept(h)
    BY <1>9, <1>10 DEF Kept
  <2>2. /\ \A h \in File : h # call[p].f => file'[h] = file[h]
        /\ \A j \in Inum \ {call[p].ip} : data'[j] = data[j] /\ ilock'[j] = ilock[j]
    BY <1>1, <1>8, <1>9, <1>11
  <2>. QED BY <1>1, <1>2, <1>7, <2>1, <2>2 DEF Working
<1>13. ~Moving(p)' /\ ~Locking(p)'
  BY <1>5, <1>7 DEF Moving, Locking
<1>14. OffsetsInv'
  <2>1. file'[f].off <= Len(data[i])
    BY <1>1, <1>2, <1>8, <1>10 DEF BlocksDone
  <2>2. ASSUME NEW h \in File, IsOpen(h)' PROVE file'[h].off <= Len(data'[file'[h].obj])
    <3>1. CASE h = f
      BY <3>1, <2>1, <1>1, <1>8, <1>10
    <3>2. CASE h # f
      BY <2>2, <3>2, <1>1, <1>9 DEF SharedInv, OffsetsInv, IsOpen
    <3>. QED BY <3>1, <3>2
  <2>3. \A j \in Inum : Len(data'[j]) <= MaxSize
    BY <1>1 DEF SharedInv, OffsetsInv
  <2>. QED BY <2>2, <2>3 DEF OffsetsInv
<1>15. SharedInv'
  BY <1>7, <1>12, <1>13, <1>14, WorkKeeps
<1>. QED BY <1>1, <1>3, <1>5, <1>7, <1>8, <1>10, <1>12, <1>15
-----------------------------------------------------------------------------
(* The steps of SharedOffset.                                                  *)
LEMMA SharedStutters ==
  ASSUME \A f \in File : OpenedAs(f)' = OpenedAs(f) /\ OffsetAs(f)' = OffsetAs(f),
         \A i \in Inum : Written(i)' = Written(i), \A q \in Proc : AnswerAs(q)' = AnswerAs(q)
  PROVE  Shared!vars' = Shared!vars
<1>1. [f \in File |-> IF IsOpen(f) THEN file[f].obj ELSE NoInum]' = [f \in File |-> IF IsOpen(f) THEN file[f].obj ELSE NoInum]
  BY DEF OpenedAs
<1>2. [f \in File |-> IF IsOpen(f) THEN Offset(f) ELSE 0]' = [f \in File |-> IF IsOpen(f) THEN Offset(f) ELSE 0]
  BY DEF OffsetAs
<1>3. [i \in Inum |-> Written(i)]' = [i \in Inum |-> Written(i)]
  OBVIOUS
<1>4. [p \in Proc |-> IF step[p] = "answer" THEN call[p].buf ELSE <<>>]'
        = [p \in Proc |-> IF step[p] = "answer" THEN call[p].buf ELSE <<>>]
  BY DEF AnswerAs
<1>. QED BY <1>1, <1>2, <1>3, <1>4 DEF Shared!vars

LEMMA SharedCloses ==
  ASSUME NEW f \in File, OpenedAs(f) # NoInum, OpenedAs(f)' = NoInum, OffsetAs(f)' = 0,
         \A g \in File \ {f} : OpenedAs(g)' = OpenedAs(g) /\ OffsetAs(g)' = OffsetAs(g),
         \A i \in Inum : Written(i)' = Written(i), \A q \in Proc : AnswerAs(q)' = AnswerAs(q)
  PROVE  Shared!Next
<1>1. Shared!Close(f)
  BY DEF Shared!Close, OpenedAs, OffsetAs, AnswerAs
<1>. QED BY <1>1 DEF Shared!Next

LEMMA SharedOpens ==
  ASSUME NEW f \in File, NEW i \in Inum, OpenedAs(f) = NoInum, OpenedAs(f)' = i, OffsetAs(f)' = 0,
         \A g \in File \ {f} : OpenedAs(g)' = OpenedAs(g) /\ OffsetAs(g)' = OffsetAs(g),
         \A j \in Inum : Written(j)' = Written(j), \A q \in Proc : AnswerAs(q)' = AnswerAs(q)
  PROVE  Shared!Next
<1>1. Shared!Open(f, i)
  BY DEF Shared!Open, OpenedAs, OffsetAs, AnswerAs
<1>. QED BY <1>1 DEF Shared!Next

LEMMA SharedTakes ==
  ASSUME NEW p \in Proc, AnswerAs(p)' = <<>>, \A q \in Proc \ {p} : AnswerAs(q)' = AnswerAs(q),
         \A f \in File : OpenedAs(f)' = OpenedAs(f) /\ OffsetAs(f)' = OffsetAs(f),
         \A i \in Inum : Written(i)' = Written(i)
  PROVE  Shared!Next
<1>1. Shared!Take(p)
  BY DEF Shared!Take, OpenedAs, OffsetAs, AnswerAs
<1>. QED BY <1>1 DEF Shared!Next

LEMMA SharedWrites ==
  ASSUME NEW p \in Proc, NEW f \in File, NEW i \in Inum, OpenedAs(f) = i, NEW n \in Counts,
         NEW r, r = Shared!Least(n, MaxSize - OffsetAs(f)),
         Written(i)' = Shared!Written(Written(i), OffsetAs(f), r, p), OffsetAs(f)' = OffsetAs(f) + r,
         \A j \in Inum \ {i} : Written(j)' = Written(j),
         \A g \in File \ {f} : OffsetAs(g)' = OffsetAs(g),
         \A g \in File : OpenedAs(g)' = OpenedAs(g), \A q \in Proc : AnswerAs(q)' = AnswerAs(q)
  PROVE  Shared!Next
<1>. DEFINE opens == [g \in File |-> IF IsOpen(g) THEN file[g].obj ELSE NoInum]
            offs == [g \in File |-> IF IsOpen(g) THEN Offset(g) ELSE 0]
            texts == [j \in Inum |-> Written(j)]
            answers == [q \in Proc |-> IF step[q] = "answer" THEN call[q].buf ELSE <<>>]
<1>1. opens[f] = i /\ i # NoInum /\ offs[f] = OffsetAs(f) /\ texts[i] = Written(i)
  BY FileConsts DEF OpenedAs, OffsetAs
<1>2. offs' = [offs EXCEPT ![f] = @ + r]
  BY DEF OffsetAs
<1>3. opens' = opens
  BY DEF OpenedAs
<1>4. texts' = [texts EXCEPT ![opens[f]] = Shared!Written(@, offs[f], r, p)]
  <2>1. texts' = [texts EXCEPT ![i] = Shared!Written(Written(i), OffsetAs(f), r, p)]
    OBVIOUS
  <2>. QED BY <2>1, <1>1
<1>5. answers' = answers
  BY DEF AnswerAs
<1>6. Shared!Write(p, f)
  BY <1>1, <1>2, <1>3, <1>4, <1>5 DEF Shared!Write
<1>. QED BY <1>6 DEF Shared!Next

LEMMA SharedReads ==
  ASSUME NEW p \in Proc, NEW f \in File, NEW i \in Inum, OpenedAs(f) = i, NEW n \in Counts,
         NEW r, r = Shared!Least(n, Len(Written(i)) - OffsetAs(f)),
         AnswerAs(p)' = SubSeq(Written(i), OffsetAs(f) + 1, OffsetAs(f) + r), OffsetAs(f)' = OffsetAs(f) + r,
         \A j \in Inum : Written(j)' = Written(j),
         \A g \in File \ {f} : OffsetAs(g)' = OffsetAs(g),
         \A g \in File : OpenedAs(g)' = OpenedAs(g), \A q \in Proc \ {p} : AnswerAs(q)' = AnswerAs(q)
  PROVE  Shared!Next
<1>. DEFINE opens == [g \in File |-> IF IsOpen(g) THEN file[g].obj ELSE NoInum]
            offs == [g \in File |-> IF IsOpen(g) THEN Offset(g) ELSE 0]
            texts == [j \in Inum |-> Written(j)]
            answers == [q \in Proc |-> IF step[q] = "answer" THEN call[q].buf ELSE <<>>]
<1>1. opens[f] = i /\ i # NoInum /\ offs[f] = OffsetAs(f) /\ texts[i] = Written(i)
  BY FileConsts DEF OpenedAs, OffsetAs
<1>2. offs' = [offs EXCEPT ![f] = @ + r]
  BY DEF OffsetAs
<1>3. opens' = opens
  BY DEF OpenedAs
<1>4. texts' = texts
  OBVIOUS
<1>5. answers' = [answers EXCEPT ![p] = SubSeq(texts[opens[f]], offs[f] + 1, offs[f] + r)]
  <2>1. answers' = [answers EXCEPT ![p] = SubSeq(Written(i), OffsetAs(f) + 1, OffsetAs(f) + r)]
    BY DEF AnswerAs
  <2>. QED BY <2>1, <1>1
<1>6. Shared!Read(p, f)
  BY <1>1, <1>2, <1>3, <1>4, <1>5, ZenonT(60) DEF Shared!Read
<1>. QED BY <1>6 DEF Shared!Next

(* A write of g bytes at o, from its first block on, or at once.               *)
LEMMA WrittenOnce ==
  ASSUME NEW x \in Seq(Proc), NEW p \in Proc, NEW o \in Nat, NEW g \in Nat, o <= Len(x)
  PROVE  [k \in 1 .. Max({Len(x), o + g}) |-> IF k \in o + 1 .. o + g THEN p ELSE x[k]]
           = Shared!Written(x, o, g, p)
<1>. DEFINE head == SubSeq(x, 1, o)
            mid == [k \in 1 .. g |-> p]
            tail == SubSeq(x, o + g + 1, Len(x))
<1>1. PICK m \in Nat : m = Len(x)
  OBVIOUS
<1>2. PICK l \in Nat : l = Max({m, o + g}) /\ l = (IF m >= o + g THEN m ELSE o + g)
  BY MaxTwo
<1>3. head \in Seq(Proc) /\ Len(head) = o /\ \A k \in 1 .. o : head[k] = x[k]
  <2>1. \A k \in 1 .. o : x[k] \in Proc
    BY <1>1
  <2>. QED BY <2>1, <1>1
<1>4. mid \in Seq(Proc) /\ Len(mid) = g /\ \A k \in 1 .. g : mid[k] = p
  OBVIOUS
<1>5. /\ tail \in Seq(Proc) /\ Len(tail) = (IF o + g <= m THEN m - (o + g) ELSE 0)
      /\ \A k \in 1 .. m - (o + g) : tail[k] = x[o + g + k]
  <2>1. \A k \in o + g + 1 .. m : x[k] \in Proc
    BY <1>1
  <2>. QED BY <2>1, <1>1
<1>. HIDE DEF head, mid, tail
<1>6. PICK w : w = (head \o mid) \o tail
  OBVIOUS
<1>7. PICK e \in Nat : e = Len(tail) /\ e = IF o + g <= m THEN m - (o + g) ELSE 0
  <2>1. (IF o + g <= m THEN m - (o + g) ELSE 0) \in Nat
    OBVIOUS
  <2>. QED BY <2>1, <1>5
<1>8. /\ w \in Seq(Proc) /\ Len(w) = o + g + e
      /\ \A k \in 1 .. o : w[k] = x[k]
      /\ \A k \in o + 1 .. o + g : w[k] = p
      /\ \A k \in o + g + 1 .. o + g + e : w[k] = x[k]
  <2>1. PICK v : v = head \o mid
    OBVIOUS
  <2>2. /\ v \in Seq(Proc) /\ Len(v) = o + g
        /\ \A k \in 1 .. o : v[k] = x[k]
        /\ \A k \in o + 1 .. o + g : v[k] = p
    <3>1. v \in Seq(Proc) /\ Len(v) = o + g /\ \A k \in 1 .. o : v[k] = x[k]
      <4>1. head \o mid \in Seq(Proc) /\ Len(head \o mid) = Len(head) + Len(mid)
        BY <1>3, <1>4, ConcatProperties
      <4>2. \A k \in 1 .. o : (head \o mid)[k] = head[k]
        BY <1>3, <1>4
      <4>. QED BY <4>1, <4>2, <2>1, <1>3, <1>4
    <3>2. ASSUME NEW k \in o + 1 .. o + g PROVE v[k] = p
      <4>1. PICK j \in 1 .. g : j = k - o
        OBVIOUS
      <4>2. v[k] = mid[k - o]
        <5>1. (head \o mid)[k] = (IF k <= Len(head) THEN head[k] ELSE mid[k - Len(head)])
          <6>1. k \in 1 .. Len(head) + Len(mid)
            BY <1>3, <1>4
          <6>. QED BY <6>1, <1>3, <1>4, ConcatProperties
        <5>2. ~(k <= o) /\ Len(head) = o
          BY <1>3
        <5>. QED BY <5>1, <5>2, <2>1
      <4>. QED BY <4>1, <4>2, <1>4
    <3>. QED BY <3>1, <3>2
  <2>3. w = v \o tail
    BY <1>6, <2>1
  <2>4. w \in Seq(Proc) /\ Len(w) = o + g + e
    <3>1. tail \in Seq(Proc) /\ Len(tail) = e
      BY <1>5, <1>7
    <3>2. v \o tail \in Seq(Proc) /\ Len(v \o tail) = Len(v) + Len(tail)
      BY <3>1, <2>2, ConcatProperties
    <3>. QED BY <3>1, <3>2, <2>2, <2>3
  <2>5. \A k \in 1 .. o + g : w[k] = v[k]
    BY <2>2, <2>3, <1>5, <1>7
  <2>6. ASSUME NEW k \in o + g + 1 .. o + g + e PROVE w[k] = x[k]
    <3>1. w[k] = tail[k - (o + g)]
      BY <2>2, <2>3, <1>5, <1>7
    <3>2. PICK j \in 1 .. m - (o + g) : j = k - (o + g) /\ k = o + g + j
      BY <1>7
    <3>. QED BY <3>1, <3>2, <1>5
  <2>. QED BY <2>2, <2>4, <2>5, <2>6
<1>9. o + g + e = l
  <2>1. e = (IF o + g <= m THEN m - (o + g) ELSE 0) /\ l = (IF m >= o + g THEN m ELSE o + g)
    BY <1>2, <1>7
  <2>. QED BY <2>1
<1>10. w = [k \in 1 .. l |-> w[k]]
  BY <1>8, <1>9
<1>11. \A k \in 1 .. l : w[k] = IF k \in o + 1 .. o + g THEN p ELSE x[k]
  BY <1>8, <1>9
<1>12. w = [k \in 1 .. l |-> IF k \in o + 1 .. o + g THEN p ELSE x[k]]
  BY <1>10, <1>11
<1>13. w = Shared!Written(x, o, g, p)
  BY <1>6 DEF Shared!Written, head, mid, tail
<1>. QED BY <1>1, <1>2, <1>12, <1>13

LEMMA IlockRefines ==
  ASSUME SharedInv, FilesInv', NEW p \in Proc, Ilock(p), Moving(p)
  PROVE  SharedInv' /\ (Shared!Next \/ Shared!vars' = Shared!vars)
<1>1. /\ SharedInv' /\ Working(p) /\ data' = data /\ file' = file /\ call'[p] = call[p] /\ step'[p] = call[p].name
      /\ call[p].buf = <<>> /\ FilesInv
      /\ \A q \in Proc : Locking(q) => call[q].ip # call[p].ip
  BY IlockWorks DEF SharedInv
<1>2. PICK f \in File, i \in Inum, x \in Seq(Proc), o \in Nat, g \in Nat :
        /\ f = call[p].f /\ i = call[p].ip /\ IsOpen(f) /\ x = data[i] /\ o = Off(p) /\ g = Goal(p) /\ o <= Len(x)
        /\ call[p].name = "write" => g = Shared!Least(call[p].n, MaxSize - o)
  BY Ranges
<1>3. /\ \A j \in Inum \ {i} : Written(j)' = Written(j)
      /\ \A h \in File : OpenedAs(h)' = OpenedAs(h)
      /\ \A h \in File \ {f} : OffsetAs(h)' = OffsetAs(h)
      /\ \A q \in Proc \ {p} : AnswerAs(q)' = AnswerAs(q)
  BY <1>1, <1>2, WorkShown
<1>4. /\ step[p] = "ilock" /\ step'[p] \in {"read", "write"} /\ MovesOn(p)
  BY <1>1 DEF Moving, Ilock, In, SharedInv, MovesInv
<1>5. AnswerAs(p)' = AnswerAs(p)
  BY <1>4 DEF AnswerAs
<1>6. \A q \in Proc : step[q] = "write" => call[q].ip # i /\ call[q].f # f
  <2>1. ASSUME NEW q \in Proc, step[q] = "write" PROVE call[q].ip # i /\ call[q].f # f
    <3>1. Locking(q) /\ MovesOn(q)
      BY <1>1, <2>1, WritingIs DEF Locking, SharedInv, MovesInv
    <3>. QED BY <1>1, <1>2, <1>4, <3>1 DEF MovesOn
  <2>. QED BY <2>1
<1>7. Written(i) = x /\ Offset(f) = o /\ OffsetAs(f) = o /\ OpenedAs(f) = i
  BY <1>1, <1>2, <1>4, <1>6, WrittenElse, OffsetElse DEF OffsetAs, OpenedAs, MovesOn, Off
<1>8. Goal(p)' = g /\ Off(p)' = o
  BY <1>1, <1>2 DEF Goal, Off
<1>9. CASE step'[p] = "write"
  <2>1. Written(i)' = Final(p)'
    BY <1>1, <1>2, <1>9, WrittenByNext
  <2>2. Final(p)' = [k \in 1 .. Max({Len(x), o + g}) |-> IF k \in o + 1 .. o + g THEN p ELSE x[k]]
    <3>1. Len(call'[p].buf) = 0 /\ o + 0 + 1 = o + 1 /\ data'[call'[p].ip] = x
      BY <1>1, <1>2
    <3>. QED BY <3>1, <1>8 DEF Final
  <2>3. Written(i)' = Shared!Written(Written(i), OffsetAs(f), g, p)
    <3>1. [k \in 1 .. Max({Len(x), o + g}) |-> IF k \in o + 1 .. o + g THEN p ELSE x[k]] = Shared!Written(x, o, g, p)
      <4>1. o <= Len(x)
        BY <1>2
      <4>. QED BY <4>1, WrittenOnce, Zenon
    <3>. QED BY <3>1, <2>1, <2>2, <1>7
  <2>4. Offset(f)' = file'[f].off + Goal(p)'
    BY <1>1, <1>2, <1>9, OffsetByNext
  <2>5. OffsetAs(f)' = OffsetAs(f) + g
    BY <2>4, <1>1, <1>2, <1>7, <1>8 DEF OffsetAs, IsOpen, Off
  <2>6. call[p].n \in Counts /\ g = Shared!Least(call[p].n, MaxSize - OffsetAs(f))
    BY <1>1, <1>2, <1>4, <1>7, <1>9 DEF MovesOn
  <2>. QED BY <2>3, <2>5, <2>6, <1>1, <1>3, <1>5, <1>7, SharedWrites
<1>10. CASE step'[p] = "read"
  <2>1. \A q \in Proc : step'[q] = "write" => call'[q].ip # i /\ call'[q].f # f
    BY <1>1, <1>6, <1>10 DEF Working
  <2>2. Written(i)' = data'[i] /\ Offset(f)' = file'[f].off
    BY <2>1, <1>1, WrittenElseNext, OffsetElseNext DEF SharedInv
  <2>3. Written(i)' = Written(i) /\ OffsetAs(f)' = OffsetAs(f)
    BY <2>2, <1>1, <1>2, <1>7 DEF OffsetAs, IsOpen, Off
  <2>. QED BY <2>3, <1>1, <1>3, <1>5, SharedStutters
<1>. QED BY <1>4, <1>9, <1>10

LEMMA ReadBlockRefines ==
  ASSUME SharedInv, FilesInv', NEW p \in Proc, ReadBlock(p)
  PROVE  SharedInv' /\ Shared!vars' = Shared!vars
<1>1. SharedInv' /\ Working(p) /\ data' = data /\ file' = file /\ step' = step /\ step[p] = "read" /\ FilesInv /\ FilesInv'
  BY ReadBlockWorks DEF ReadBlock, In, SharedInv
<1>2. PICK f \in File, i \in Inum : f = call[p].f /\ i = call[p].ip /\ file[f].obj = i /\ ilock[i] = p
  BY <1>1, WritingIs DEF SharedInv, MovesInv, MovesOn, LockInv, Locking
<1>3. /\ \A j \in Inum \ {i} : Written(j)' = Written(j)
      /\ \A h \in File : OpenedAs(h)' = OpenedAs(h)
      /\ \A h \in File \ {f} : OffsetAs(h)' = OffsetAs(h)
      /\ \A q \in Proc \ {p} : AnswerAs(q)' = AnswerAs(q)
  BY <1>1, <1>2, WorkShown
<1>4. \A q \in Proc : step[q] = "write" => call[q].ip # i /\ call[q].f # f /\ q # p
  <2>1. ASSUME NEW q \in Proc, step[q] = "write" PROVE call[q].ip # i /\ call[q].f # f /\ q # p
    <3>1. ilock[call[q].ip] = q /\ file[call[q].f].obj = call[q].ip /\ q # p
      BY <1>1, <2>1, WritingIs DEF Locking, SharedInv, MovesInv, MovesOn, LockInv
    <3>. QED BY <1>2, <3>1
  <2>. QED BY <2>1
<1>5. \A q \in Proc : step'[q] = "write" => call'[q].ip # i /\ call'[q].f # f
  BY <1>1, <1>4 DEF Working
<1>6. Written(i) = data[i] /\ Offset(f) = file[f].off
  BY <1>1, <1>4, WrittenElse, OffsetElse
<1>7. Written(i)' = data'[i] /\ Offset(f)' = file'[f].off
  BY <1>1, <1>5, WrittenElseNext, OffsetElseNext
<1>8. Written(i)' = Written(i) /\ OffsetAs(f)' = OffsetAs(f)
  BY <1>1, <1>6, <1>7 DEF OffsetAs, IsOpen
<1>9. AnswerAs(p)' = AnswerAs(p)
  BY <1>1 DEF AnswerAs
<1>. QED BY <1>1, <1>3, <1>8, <1>9, SharedStutters

LEMMA WriteBlockRefines ==
  ASSUME SharedInv, FilesInv', NEW p \in Proc, WriteBlock(p)
  PROVE  SharedInv' /\ Shared!vars' = Shared!vars
<1>1. /\ SharedInv' /\ Working(p) /\ file' = file /\ step' = step /\ step[p] = "write"
      /\ call'[p].ip = call[p].ip /\ call'[p].f = call[p].f /\ Goal(p)' = Goal(p) /\ Final(p)' = Final(p)
  BY WriteBlockWorks DEF WriteBlock, In
<1>2. PICK f \in File, i \in Inum : f = call[p].f /\ i = call[p].ip
  BY <1>1, WritingIs DEF SharedInv
<1>3. /\ \A j \in Inum \ {i} : Written(j)' = Written(j)
      /\ \A h \in File : OpenedAs(h)' = OpenedAs(h)
      /\ \A h \in File \ {f} : OffsetAs(h)' = OffsetAs(h)
      /\ \A q \in Proc \ {p} : AnswerAs(q)' = AnswerAs(q)
  BY <1>1, <1>2, WorkShown
<1>4. Written(i) = Final(p) /\ Offset(f) = file[f].off + Goal(p)
  BY <1>1, <1>2, WrittenBy, OffsetBy
<1>5. Written(i)' = Final(p)' /\ Offset(f)' = file'[f].off + Goal(p)'
  BY <1>1, <1>2, WrittenByNext, OffsetByNext
<1>6. Written(i)' = Written(i) /\ OffsetAs(f)' = OffsetAs(f)
  BY <1>1, <1>4, <1>5 DEF OffsetAs, IsOpen
<1>7. AnswerAs(p)' = AnswerAs(p)
  BY <1>1 DEF AnswerAs
<1>. QED BY <1>1, <1>3, <1>6, <1>7, SharedStutters

LEMMA TransferredRefines ==
  ASSUME SharedInv, FilesInv', NEW p \in Proc, Transferred(p)
  PROVE  SharedInv' /\ (Shared!Next \/ Shared!vars' = Shared!vars)
<1>1. /\ SharedInv' /\ Working(p) /\ data' = data /\ Len(call[p].buf) = Goal(p)
      /\ step[p] \in {"read", "write"} /\ step'[p] = "answer" /\ file'[call[p].f].off = Off(p) + Goal(p)
      /\ call'[p].buf = (IF step[p] = "read" THEN call[p].buf ELSE <<>>)
      /\ FilesInv /\ FilesInv'
  BY TransferredWorks DEF SharedInv
<1>2. Moving(p) /\ MovesOn(p) /\ BlocksDone(p) /\ call[p].name = step[p] /\ ilock[call[p].ip] = p
  BY <1>1, WritingIs DEF SharedInv, MovesInv, BlocksInv, LockInv, Locking
<1>3. PICK f \in File, i \in Inum, x \in Seq(Proc), o \in Nat, g \in Nat, b \in Seq(Proc), m \in Nat :
        /\ f = call[p].f /\ i = call[p].ip /\ IsOpen(f) /\ x = data[i] /\ o = Off(p) /\ g = Goal(p) /\ b = call[p].buf
        /\ m = Len(x) /\ o <= m
        /\ call[p].name = "read" => g = Shared!Least(call[p].n, Len(x) - o)
  BY <1>2, Ranges
<1>4. /\ \A j \in Inum \ {i} : Written(j)' = Written(j)
      /\ \A h \in File : OpenedAs(h)' = OpenedAs(h)
      /\ \A h \in File \ {f} : OffsetAs(h)' = OffsetAs(h)
      /\ \A q \in Proc \ {p} : AnswerAs(q)' = AnswerAs(q)
  BY <1>1, <1>3, WorkShown
<1>5. file[f].obj = i /\ file[f].off = o /\ file'[f].off = o + g /\ IsOpen(f)'
  BY <1>1, <1>2, <1>3 DEF MovesOn, Off, Working, Kept, IsOpen
<1>6. \A q \in Proc \ {p} : step[q] = "write" => call[q].ip # i /\ call[q].f # f
  <2>1. ASSUME NEW q \in Proc \ {p}, step[q] = "write" PROVE call[q].ip # i /\ call[q].f # f
    <3>1. ilock[call[q].ip] = q /\ file[call[q].f].obj = call[q].ip
      BY <1>1, <2>1, WritingIs DEF Locking, SharedInv, MovesInv, MovesOn, LockInv
    <3>. QED BY <1>2, <1>3, <1>5, <3>1
  <2>. QED BY <2>1
<1>7. \A q \in Proc : step'[q] = "write" => call'[q].ip # i /\ call'[q].f # f
  BY <1>1, <1>6 DEF Working
<1>8. Written(i)' = x /\ Offset(f)' = o + g
  BY <1>1, <1>3, <1>5, <1>7, WrittenElseNext, OffsetElseNext
<1>9. OffsetAs(f)' = o + g /\ OpenedAs(f) = i
  BY <1>3, <1>5, <1>8 DEF OffsetAs, OpenedAs
<1>10. Len(b) = g /\ o + g <= m /\ \A k \in 1 .. g : x[o + k] = b[k]
  BY <1>1, <1>2, <1>3 DEF BlocksDone
<1>11. CASE step[p] = "read"
  <2>1. Written(i) = x /\ Offset(f) = o
    <3>1. \A q \in Proc : step[q] = "write" => call[q].ip # i /\ call[q].f # f
      BY <1>6, <1>11
    <3>. QED BY <3>1, <1>1, <1>3, <1>5, WrittenElse, OffsetElse
  <2>2. OffsetAs(f) = o
    BY <2>1, <1>3 DEF OffsetAs
  <2>3. b = SubSeq(x, o + 1, o + g)
    <3>1. PICK s : s = SubSeq(x, o + 1, o + g)
      OBVIOUS
    <3>2. \A k \in o + 1 .. o + g : x[k] \in Proc
      BY <1>3, <1>10
    <3>3. s \in Seq(Proc) /\ Len(s) = g /\ \A k \in 1 .. g : s[k] = x[o + k]
      <4>1. /\ s \in Seq(Proc)
            /\ Len(s) = (IF o + 1 <= o + g THEN (o + g) - (o + 1) + 1 ELSE 0)
            /\ \A k \in 1 .. (o + g) - (o + 1) + 1 : s[k] = x[(o + 1) + k - 1]
        <5>1. o + 1 \in Int /\ o + g \in Int
          OBVIOUS
        <5>. QED BY <5>1, <3>1, <3>2, SubSeqProperties
      <4>2. \A k \in Nat : (o + 1) + k - 1 = o + k
        OBVIOUS
      <4>3. (o + g) - (o + 1) + 1 = g /\ (IF o + 1 <= o + g THEN g ELSE 0) = g
        OBVIOUS
      <4>4. ASSUME NEW k \in 1 .. g PROVE s[k] = x[o + k]
        <5>1. k \in 1 .. (o + g) - (o + 1) + 1 /\ k \in Nat
          BY <4>3
        <5>2. s[k] = x[(o + 1) + k - 1]
          BY <5>1, <4>1
        <5>. QED BY <5>1, <5>2, <4>2
      <4>5. Len(s) = g
        BY <4>1, <4>3
      <4>. QED BY <4>1, <4>4, <4>5
    <3>4. \A k \in 1 .. Len(b) : b[k] = s[k]
      BY <3>3, <1>10
    <3>. QED BY <3>1, <3>3, <3>4, <1>3, <1>10, SeqEqual, ZenonT(60)
  <2>4. AnswerAs(p)' = SubSeq(Written(i), OffsetAs(f) + 1, OffsetAs(f) + g)
    BY <2>1, <2>2, <2>3, <1>1, <1>3, <1>11 DEF AnswerAs
  <2>5. Written(i)' = Written(i) /\ OffsetAs(f)' = OffsetAs(f) + g
    BY <2>1, <2>2, <1>8, <1>9
  <2>6. call[p].n \in Counts /\ g = Shared!Least(call[p].n, Len(Written(i)) - OffsetAs(f))
    BY <2>1, <2>2, <1>2, <1>3, <1>11 DEF MovesOn
  <2>7. \A j \in Inum : Written(j)' = Written(j)
    BY <2>5, <1>4
  <2>. QED BY <2>4, <2>5, <2>6, <2>7, <1>1, <1>4, <1>9, SharedReads
<1>12. CASE step[p] = "write"
  <2>1. Written(i) = Final(p) /\ Offset(f) = file[f].off + Goal(p)
    BY <1>3, <1>12, WrittenBy, OffsetBy
  <2>2. Final(p) = x
    <3>1. Max({m, o + g}) = m
      <4>1. Max({m, o + g}) = IF m >= o + g THEN m ELSE o + g
        BY MaxTwo
      <4>. QED BY <4>1, <1>10
    <3>2. Final(p) = [k \in 1 .. m |-> IF k \in o + g + 1 .. o + g THEN p ELSE x[k]]
      BY <3>1, <1>3, <1>10 DEF Final
    <3>3. \A k \in 1 .. m : k \notin o + g + 1 .. o + g
      OBVIOUS
    <3>4. x = [k \in 1 .. m |-> x[k]]
      BY <1>3, SMTT(30)
    <3>. QED BY <3>2, <3>3, <3>4
  <2>3. Written(i)' = Written(i) /\ OffsetAs(f)' = OffsetAs(f)
    BY <2>1, <2>2, <1>3, <1>5, <1>8, <1>9 DEF OffsetAs
  <2>4. AnswerAs(p)' = AnswerAs(p)
    BY <1>1, <1>12 DEF AnswerAs
  <2>. QED BY <2>3, <2>4, <1>1, <1>4, SharedStutters
<1>. QED BY <1>1, <1>11, <1>12

(* A step that is idle is a stutter, or opens, or closes a file for good.      *)
LEMMA QuietRefines ==
  ASSUME SharedInv, FilesInv', NEW p \in Proc, NEW F \in SUBSET File, Idle(p, F),
         \A f \in F : ~IsOpen(f) /\ ~IsOpen(f)'
  PROVE  SharedInv' /\ (Shared!Next \/ Shared!vars' = Shared!vars)
<1>1. SharedInv'
  BY IdleKeeps
<1>2. /\ \A i \in Inum : Written(i)' = Written(i)
      /\ (\A q \in Proc \ {p} : AnswerAs(q)' = AnswerAs(q)) /\ AnswerAs(p)' = <<>>
      /\ \A f \in File \ F : OpenedAs(f)' = OpenedAs(f) /\ OffsetAs(f)' = OffsetAs(f)
  BY IdleShown
<1>3. \A f \in File : OpenedAs(f)' = OpenedAs(f) /\ OffsetAs(f)' = OffsetAs(f)
  BY <1>2 DEF OpenedAs, OffsetAs
<1>. QED BY <1>1, <1>2, <1>3, SharedTakes

LEMMA LastCloseRefines ==
  ASSUME SharedInv, FilesInv', NEW p \in Proc, step[p] # "answer", NEW f \in File, Idle(p, {f}), ~IsOpen(f)'
  PROVE  SharedInv' /\ (Shared!Next \/ Shared!vars' = Shared!vars)
<1>1. CASE ~IsOpen(f)
  BY <1>1, QuietRefines
<1>2. CASE IsOpen(f)
  <2>1. SharedInv'
    BY IdleKeeps
  <2>2. /\ \A i \in Inum : Written(i)' = Written(i)
        /\ (\A q \in Proc \ {p} : AnswerAs(q)' = AnswerAs(q)) /\ AnswerAs(p)' = <<>>
        /\ \A g \in File \ {f} : OpenedAs(g)' = OpenedAs(g) /\ OffsetAs(g)' = OffsetAs(g)
        /\ OffsetAs(f)' = 0
    BY IdleShown
  <2>3. AnswerAs(p) = <<>>
    BY DEF AnswerAs
  <2>4. OpenedAs(f) # NoInum /\ OpenedAs(f)' = NoInum
    BY <1>2, FileConsts DEF OpenedAs, IsOpen, SharedInv, FilesInv, EndsInv, FieldsOK
  <2>5. \A q \in Proc : AnswerAs(q)' = AnswerAs(q)
    BY <2>2, <2>3
  <2>. QED BY <2>1, <2>2, <2>4, <2>5, SharedCloses
<1>. QED BY <1>1, <1>2

LEMMA OpenedRefines ==
  ASSUME SharedInv, FilesInv', NEW p \in Proc, Opened(p)
  PROVE  SharedInv' /\ Shared!Next
<1>1. PICK f \in File : Idle(p, {f}) /\ ~IsOpen(f) /\ IsOpen(f)' /\ file'[f].obj \in Inum
  BY OpenedIdle
<1>2. SharedInv'
  BY <1>1, IdleKeeps
<1>3. /\ \A i \in Inum : Written(i)' = Written(i)
      /\ (\A q \in Proc \ {p} : AnswerAs(q)' = AnswerAs(q)) /\ AnswerAs(p)' = <<>>
      /\ \A g \in File \ {f} : OpenedAs(g)' = OpenedAs(g) /\ OffsetAs(g)' = OffsetAs(g)
      /\ OffsetAs(f)' = 0
  BY <1>1, IdleShown
<1>4. step[p] = "opened"
  BY DEF Opened, In
<1>5. \A q \in Proc : AnswerAs(q)' = AnswerAs(q)
  BY <1>3, <1>4 DEF AnswerAs
<1>6. PICK i \in Inum : OpenedAs(f)' = i /\ OpenedAs(f) = NoInum
  BY <1>1 DEF OpenedAs
<1>. QED BY <1>2, <1>3, <1>5, <1>6, SharedOpens

LEMMA StepRefines ==
  ASSUME SharedInv, FilesNext
  PROVE  SharedInv' /\ (Shared!Next \/ Shared!vars' = Shared!vars)
<1>1. PICK p \in Proc : FileStep(p)
  BY DEF FilesNext
<1>2. FilesInv'
  BY FilesStep DEF SharedInv
<1>3. ASSUME Idle(p, {}) PROVE SharedInv' /\ (Shared!Next \/ Shared!vars' = Shared!vars)
  <2>1. PICK F \in SUBSET File : F = {}
    OBVIOUS
  <2>. QED BY <2>1, <1>2, <1>3, QuietRefines
<1>4. CASE Namei(p) \/ OpenAlloc(p) \/ Chdir(p) \/ Dup(p) \/ DupCount(p) \/ Drop(p) \/ CloseDone(p) \/ Answer(p)
  BY <1>3, <1>4, NameiIdle, OpenAllocIdle, ChdirIdle, DupIdle, DupCountIdle, DropIdle, CloseDoneIdle, AnswerIdle
<1>5. CASE \/ Pipe(p) \/ PipeFile(p) \/ PipeNoPage(p)
           \/ Fork(p) \/ ForkDup(p) \/ ForkDone(p) \/ ExitCall(p) \/ ExitDone(p) \/ Transfer(p)
  BY <1>3, <1>5, PipeIdle, PipeFileIdle, PipeNoPageIdle, ForkIdle, ForkDupIdle, ForkDoneIdle,
     ExitCallIdle, ExitDoneIdle, TransferIdle
<1>6. CASE Close(p) \/ ExitClose(p) \/ CloseNext(p)
  <2>1. PICK f \in File : Idle(p, {}) \/ (Idle(p, {f}) /\ ~IsOpen(f)')
    BY <1>6, ClosingIdle
  <2>2. step[p] # "answer"
    BY <1>6 DEF Close, ExitClose, CloseNext, May, In
  <2>. QED BY <2>1, <2>2, <1>2, <1>3, LastCloseRefines
<1>7. CASE Ilock(p)
  <2>1. call[p].name \in {"open", "chdir"} \/ Moving(p)
    <3>1. call[p].name \in {"open", "chdir", "read", "write"}
      BY <1>7 DEF Ilock, In, SharedInv, FilesInv, CallsInv, Calling
    <3>. QED BY <3>1 DEF Moving
  <2>. QED BY <2>1, <1>2, <1>3, <1>7, IlockIdle, IlockRefines
<1>8. CASE PipeMake(p)
  BY <1>2, <1>8, PipeMakeIdle, QuietRefines
<1>9. CASE Opened(p)
  BY <1>2, <1>9, OpenedRefines
<1>10. CASE ReadBlock(p) \/ WriteBlock(p) \/ Transferred(p)
  BY <1>2, <1>10, ReadBlockRefines, WriteBlockRefines, TransferredRefines
<1>. QED BY <1>1, <1>4, <1>5, <1>6, <1>7, <1>8, <1>9, <1>10 DEF FileStep

LEMMA SharedStart == FilesInit => SharedInv /\ Shared!Init
<1>. SUFFICES ASSUME FilesInit PROVE SharedInv /\ Shared!Init
  OBVIOUS
<1>1. FilesInv
  BY FilesStart
<1>2. /\ \A f \in File : ~IsOpen(f)
      /\ \A p \in Proc : step[p] = "user" /\ ~Moving(p) /\ ~Locking(p)
      /\ \A i \in Inum : data[i] = <<>>
  BY NoCallFacts DEF FilesInit, IsOpen, Moving, Locking
<1>3. SharedInv
  <2>1. Len(<<>>) = 0 /\ 0 <= MaxSize
    BY FileConsts
  <2>. QED BY <1>1, <1>2, <2>1 DEF SharedInv, LockInv, MovesInv, BlocksInv, OffsetsInv
<1>4. \A i \in Inum : Written(i) = <<>>
  BY <1>1, <1>2, WrittenElse
<1>5. Shared!Init
  BY <1>2, <1>4 DEF Shared!Init
<1>. QED BY <1>3, <1>5

LEMMA SharedStays == SharedInv /\ UNCHANGED files => SharedInv' /\ Shared!vars' = Shared!vars
<1>. SUFFICES ASSUME SharedInv, UNCHANGED files PROVE SharedInv' /\ Shared!vars' = Shared!vars
  OBVIOUS
<1>1. UNCHANGED <<ref, file, iref, ends, ofile, cwd, alive, ilock, data, step, call, died>>
  BY DEF files, counts, tables
<1>2. FilesInv'
  BY FilesStutter DEF SharedInv
<1>3. LockInv' /\ MovesInv'
  BY <1>1 DEF SharedInv, LockInv, Locking, MovesInv, Moving, MovesOn, IsOpen, Shows
<1>4. BlocksInv'
  BY <1>1 DEF SharedInv, BlocksInv, BlocksDone, Off, Goal
<1>5. OffsetsInv'
  BY <1>1 DEF SharedInv, OffsetsInv, IsOpen
<1>6. Shared!vars' = Shared!vars
  <2>1. \A i \in Inum : Written(i)' = Written(i)
    BY <1>1 DEF Written, Writing, Off, Goal
  <2>2. \A f \in File : OpenedAs(f)' = OpenedAs(f) /\ OffsetAs(f)' = OffsetAs(f)
    BY <1>1 DEF OpenedAs, OffsetAs, IsOpen, Offset, Writers, Writing, Goal, Off
  <2>3. \A q \in Proc : AnswerAs(q)' = AnswerAs(q)
    BY <1>1 DEF AnswerAs
  <2>. QED BY <2>1, <2>2, <2>3, SharedStutters
<1>. QED BY <1>2, <1>3, <1>4, <1>5, <1>6 DEF SharedInv

(* A read or write of a shared open file is one step: readi and writei keep the *)
(* inode locked over all the blocks of the call, and fileread and filewrite     *)
(* move the offset before they unlock it (file.c:98, 118).  So processes that   *)
(* share a file through dup or fork read on and append where the last one has   *)
(* stopped, a writer's blocks stay together, and a reader sees all of a write   *)
(* or none of it, whoever closes, forks and exits between the blocks.           *)
THEOREM ReadsAndWritesAreAtomic == FilesSpec => ImplementsShared
<1>1. SharedInv /\ [FilesNext]_files => SharedInv' /\ [Shared!Next]_(Shared!vars)
  BY StepRefines, SharedStays
<1>2. FilesInit => SharedInv /\ Shared!Init
  BY SharedStart
<1>. QED BY <1>1, <1>2, PTL DEF FilesSpec, ImplementsShared, Shared!Spec
=============================================================================

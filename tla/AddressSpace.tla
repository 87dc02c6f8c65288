----------------------------- MODULE AddressSpace -----------------------------
(***************************************************************************)
(* User memory in the xv6 kernel with threads (K4 vm.c, kalloc.c, growproc,*)
(* and the memory side of fork, clone, exec, exit, wait and join): frames, *)
(* page tables that threads share, and a size per thread.                  *)
(*                                                                         *)
(* sbrk and fork take no lock across their loops, so each page they map,   *)
(* free or copy is a step, and so are the store of the new size and its    *)
(* copy to the threads.  The copies exit makes are one step: it holds      *)
(* ptable.lock, and kmem.lock makes kalloc atomic.  Frames are alike: they *)
(* are counted, and a directory is the set of its mapped pages.  A         *)
(* directory stands for pgdir and its page table, as one frame; kernel     *)
(* stacks are left out.                                                    *)
(***************************************************************************)
EXTENDS Integers, FiniteSets

CONSTANTS
  NPROC,      \* slots of ptable.proc
  NFrame,     \* frames that kinit puts on the free list
  PGSIZE,
  USERTOP,
  Deltas,     \* the arguments programs pass to sbrk
  Rules       \* what programs keep to: "main grows", "one call", "keep memory",
              \* "threads do not clone", "exits fit"

Slot == 0 .. NPROC - 1
InitProc == 0
NoProc == NPROC
Dir == 1 .. NPROC + 1
NoDir == 0
NPAGE == USERTOP \div PGSIZE
Page == 0 .. NPAGE - 1

ASSUME SpaceAssumption ==
  /\ NPROC \in Nat \ {0} /\ NFrame \in Nat /\ NFrame >= 2
  /\ PGSIZE \in Nat \ {0} /\ USERTOP \in Nat /\ USERTOP % PGSIZE = 0 /\ NPAGE > 0
  /\ Deltas \subseteq Int

VARIABLES
  state,      \* "UNUSED", "EMBRYO", "LIVE" or "ZOMBIE"
  parent, pgdir, sz,
  pc,         \* "user", or the loop or store its system call has reached
  a,          \* the page the loop is at
  goal,       \* the local size: newsz of sbrk, sz of copyuvm
  np, d,      \* fork's np and copyuvm's d
  dirs,       \* the directories that are allocated
  pt,         \* the pages each directory maps
  free,       \* the length of kmem.freelist
  panicked

procs == <<state, parent, pgdir, sz>>
local == <<pc, a, goal, np, d>>
memory == <<dirs, pt, free>>
vars == <<procs, local, memory, panicked>>

(* userinit: one page, filled with initcode.                               *)
Init ==
  /\ state = [s \in Slot |-> IF s = InitProc THEN "LIVE" ELSE "UNUSED"]
  /\ parent = [s \in Slot |-> NoProc]
  /\ pgdir = [s \in Slot |-> IF s = InitProc THEN 1 ELSE NoDir]
  /\ sz = [s \in Slot |-> IF s = InitProc THEN PGSIZE ELSE 0]
  /\ pc = [s \in Slot |-> "user"]
  /\ a = [s \in Slot |-> 0] /\ goal = [s \in Slot |-> 0]
  /\ np = [s \in Slot |-> NoProc] /\ d = [s \in Slot |-> NoDir]
  /\ dirs = {1} /\ pt = [t \in Dir |-> IF t = 1 THEN {0} ELSE {}]
  /\ free = NFrame - 2
  /\ panicked = FALSE

-----------------------------------------------------------------------------
(* PGROUNDUP, as the number of the page it is the start of.                 *)
Up(x) == (x + PGSIZE - 1) \div PGSIZE

(* The pages a loop from 0 to x visits.                                    *)
Below(x) == 0 .. Up(x) - 1

(* A directory that kalloc may hand out: they are alike, too.              *)
NewDir == CHOOSE t \in Dir \ dirs : TRUE

(* Slip: freevm frees the directory and forgets the pages.                 *)
FreedDirOnly(t) == 1

(* The frames freevm gives back.                                           *)
Freed(t) == 1 + Cardinality(pt[t])

(* The child threads of p, as growproc, exit, wait and join find them.     *)
Threads(p) == {q \in Slot : parent[q] = p /\ pgdir[q] = pgdir[p]}
IsThread(p) == parent[p] \in Slot /\ p \in Threads(parent[p])
Sharers(p) == {q \in Slot \ {p} : state[q] # "UNUSED" /\ pgdir[q] = pgdir[p]}

(* A program makes a call.  init only forks and waits; with "one call", no *)
(* two threads of one space are in sbrk, fork or exit at once.             *)
Calls(p) ==
  /\ ~panicked /\ state[p] = "LIVE" /\ pc[p] = "user"
  /\ "one call" \in Rules => \A q \in Sharers(p) : pc[q] = "user"
Unused(q) == state[q] = "UNUSED" /\ \A s \in Slot : s < q => state[s] # "UNUSED"
-----------------------------------------------------------------------------
(* sbrk: growproc with allocuvm and deallocuvm                             *)

(* The next place of p with its locals; they are dead when the call returns. *)
Goto(p, place, i, size) ==
  /\ pc' = [pc EXCEPT ![p] = place]
  /\ a' = [a EXCEPT ![p] = IF place \in {"grow", "undo", "shrink", "copy"} THEN i ELSE 0]
  /\ goal' = [goal EXCEPT ![p] = IF place = "user" THEN 0 ELSE size]

(* A loop that is at page i and ends below address y, with what follows it. *)
Loop(p, place, i, y, after, size) ==
  Goto(p, IF i * PGSIZE < y THEN place ELSE after, i, size)

(* deallocuvm returns the new size, and growproc takes 0 for a failure.    *)
AfterFree(newsz) == IF newsz = 0 THEN "user" ELSE "size"

(* Sizes are unsigned: below 0 they wrap around and are larger than sz, so *)
(* that deallocuvm leaves everything as it is.                             *)
SbrkCall(p, n) ==
  /\ Calls(p) /\ p # InitProc
  /\ "main grows" \in Rules => ~IsThread(p)
  /\ "keep memory" \in Rules => sz[p] + n # 0
  /\ sz[p] + n <= USERTOP
  /\ LET newsz == sz[p] + n
     IN CASE n > 0 -> Loop(p, "grow", Up(sz[p]), newsz, "size", newsz)
          [] n < 0 /\ newsz >= 0 ->
               Loop(p, "shrink", Up(newsz), sz[p], AfterFree(newsz), newsz)
          [] OTHER -> Goto(p, "size", 0, sz[p])
  /\ UNCHANGED <<procs, np, d, memory, panicked>>

(* Where the deallocuvm of a failed allocuvm starts: its oldsz.            *)
UndoFrom(p) == sz[p]

GrowPage(p) ==
  /\ ~panicked /\ pc[p] = "grow"
  /\ CASE free = 0 ->
            /\ Loop(p, "undo", Up(UndoFrom(p)), goal[p], "user", goal[p])
            /\ UNCHANGED <<pt, free, panicked>>
       [] free > 0 /\ a[p] \in pt[pgdir[p]] ->
            panicked' = TRUE /\ UNCHANGED <<pc, a, goal, pt, free>>
       [] OTHER ->
            /\ pt' = [pt EXCEPT ![pgdir[p]] = @ \cup {a[p]}]
            /\ free' = free - 1
            /\ Loop(p, "grow", a[p] + 1, goal[p], "size", goal[p])
            /\ UNCHANGED panicked
  /\ UNCHANGED <<procs, np, d, dirs>>

(* Where a loop of deallocuvm ends.                                        *)
FreeLimit(p) == IF pc[p] = "undo" THEN goal[p] ELSE sz[p]

FreePage(p) ==
  /\ ~panicked /\ pc[p] \in {"shrink", "undo"}
  /\ pt' = [pt EXCEPT ![pgdir[p]] = @ \ {a[p]}]
  /\ free' = IF a[p] \in pt[pgdir[p]] THEN free + 1 ELSE free
  /\ Loop(p, pc[p], a[p] + 1, FreeLimit(p),
          IF pc[p] = "undo" THEN "user" ELSE AfterFree(goal[p]), goal[p])
  /\ UNCHANGED <<procs, np, d, dirs, panicked>>

SetSize(p) ==
  /\ ~panicked /\ pc[p] = "size"
  /\ sz' = [sz EXCEPT ![p] = goal[p]]
  /\ Goto(p, "share", 0, 0)
  /\ UNCHANGED <<state, parent, pgdir, np, d, memory, panicked>>

(* Slip: growproc changes the size of its caller only.                     *)
ShareNone(p) ==
  /\ ~panicked /\ pc[p] = "share"
  /\ Goto(p, "user", 0, 0)
  /\ UNCHANGED <<procs, np, d, memory, panicked>>

ShareSize(p) ==
  /\ ~panicked /\ pc[p] = "share"
  /\ sz' = [q \in Slot |-> IF q \in Threads(p) THEN sz[p] ELSE sz[q]]
  /\ Goto(p, "user", 0, 0)
  /\ UNCHANGED <<state, parent, pgdir, np, d, memory, panicked>>
-----------------------------------------------------------------------------
(* fork, clone and exec                                                    *)

(* setupkvm; when there is no frame fork gives the slot back.              *)
ForkCall(p, q) ==
  /\ Calls(p) /\ Unused(q) /\ free > 0
  /\ state' = [state EXCEPT ![q] = "EMBRYO"]
  /\ np' = [np EXCEPT ![p] = q]
  /\ d' = [d EXCEPT ![p] = NewDir]
  /\ dirs' = dirs \cup {NewDir} /\ pt' = [pt EXCEPT ![NewDir] = {}]
  /\ free' = free - 1
  /\ Loop(p, "copy", 0, sz[p], "publish", sz[p])
  /\ UNCHANGED <<parent, pgdir, sz, panicked>>

ForkPage(p) ==
  /\ ~panicked /\ pc[p] = "copy"
  /\ CASE a[p] \notin pt[pgdir[p]] ->
            panicked' = TRUE /\ UNCHANGED <<state, local, memory>>
       [] a[p] \in pt[pgdir[p]] /\ free = 0 ->
            /\ free' = Freed(d[p])
            /\ dirs' = dirs \ {d[p]} /\ pt' = [pt EXCEPT ![d[p]] = {}]
            /\ state' = [state EXCEPT ![np[p]] = "UNUSED"]
            /\ np' = [np EXCEPT ![p] = NoProc] /\ d' = [d EXCEPT ![p] = NoDir]
            /\ Goto(p, "user", 0, 0) /\ UNCHANGED panicked
       [] OTHER ->
            /\ pt' = [pt EXCEPT ![d[p]] = @ \cup {a[p]}]
            /\ free' = free - 1
            /\ Loop(p, "copy", a[p] + 1, goal[p], "publish", goal[p])
            /\ UNCHANGED <<state, np, d, dirs, panicked>>
  /\ UNCHANGED <<parent, pgdir, sz>>

(* The child gets the size of its parent as it is now.                     *)
ForkPublish(p) ==
  /\ ~panicked /\ pc[p] = "publish"
  /\ state' = [state EXCEPT ![np[p]] = "LIVE"]
  /\ parent' = [parent EXCEPT ![np[p]] = p]
  /\ pgdir' = [pgdir EXCEPT ![np[p]] = d[p]]
  /\ sz' = [sz EXCEPT ![np[p]] = sz[p]]
  /\ np' = [np EXCEPT ![p] = NoProc] /\ d' = [d EXCEPT ![p] = NoDir]
  /\ Goto(p, "user", 0, 0)
  /\ UNCHANGED <<memory, panicked>>

Clone(p, q) ==
  /\ Calls(p) /\ Unused(q) /\ p # InitProc
  /\ "threads do not clone" \in Rules => ~IsThread(p)
  /\ state' = [state EXCEPT ![q] = "LIVE"]
  /\ parent' = [parent EXCEPT ![q] = p]
  /\ pgdir' = [pgdir EXCEPT ![q] = pgdir[p]]
  /\ sz' = [sz EXCEPT ![q] = sz[p]]
  /\ UNCHANGED <<local, memory, panicked>>

(* exec commits to a new image of one page and its stack.  What it built   *)
(* before that is nobody else's, and a failure frees it.                   *)
ImagePages == 2
Exec(p) ==
  /\ Calls(p) /\ p # InitProc /\ Sharers(p) = {}
  /\ ImagePages <= NPAGE /\ free > ImagePages
  /\ pgdir' = [pgdir EXCEPT ![p] = NewDir]
  /\ sz' = [sz EXCEPT ![p] = ImagePages * PGSIZE]
  /\ dirs' = (dirs \cup {NewDir}) \ {pgdir[p]}
  /\ pt' = [pt EXCEPT ![pgdir[p]] = {}, ![NewDir] = 0 .. ImagePages - 1]
  /\ free' = (free - ImagePages - 1) + Freed(pgdir[p])
  /\ UNCHANGED <<state, parent, local, panicked>>
-----------------------------------------------------------------------------
(* exit, wait and join                                                     *)

(* Each child thread gets a copy of the space.  A page that is missing is  *)
(* a panic; so is, when the thread runs next or is reaped, a copy without  *)
(* frames, and the model has that panic here.                              *)
Exit(p) ==
  /\ Calls(p) /\ p # InitProc
  /\ LET ts == Threads(p)
         need == Cardinality(ts) * (1 + Up(sz[p]))
     IN /\ "exits fit" \in Rules => need <= free
        /\ IF ts # {} /\ (need > free \/ ~(Below(sz[p]) \subseteq pt[pgdir[p]]))
           THEN panicked' = TRUE /\ UNCHANGED <<procs, memory>>
           ELSE \E copy \in [ts -> Dir \ dirs] :
                  /\ \A q, r \in ts : q # r => copy[q] # copy[r]
                  /\ pgdir' = [q \in Slot |-> IF q \in ts THEN copy[q] ELSE pgdir[q]]
                  /\ LET new == {copy[q] : q \in ts}
                     IN /\ dirs' = dirs \cup new
                        /\ pt' = [t \in Dir |-> IF t \in new THEN Below(sz[p]) ELSE pt[t]]
                  /\ free' = free - need
                  /\ parent' = [q \in Slot |-> IF parent[q] = p THEN InitProc ELSE parent[q]]
                  /\ state' = [state EXCEPT ![p] = "ZOMBIE"]
                  /\ UNCHANGED <<sz, panicked>>
  /\ UNCHANGED local

(* The pgdir and sz of the slot stay, but nobody reads them any more.       *)
Reaped(z) ==
  /\ state' = [state EXCEPT ![z] = "UNUSED"]
  /\ parent' = [parent EXCEPT ![z] = NoProc]
  /\ pgdir' = [pgdir EXCEPT ![z] = NoDir]
  /\ sz' = [sz EXCEPT ![z] = 0]

Wait(p, z) ==
  /\ ~panicked /\ state[p] = "LIVE" /\ pc[p] = "user"
  /\ parent[z] = p /\ z \notin Threads(p) /\ state[z] = "ZOMBIE"
  /\ Reaped(z)
  /\ free' = free + Freed(pgdir[z])
  /\ dirs' = dirs \ {pgdir[z]} /\ pt' = [pt EXCEPT ![pgdir[z]] = {}]
  /\ UNCHANGED <<local, panicked>>

Join(p, z) ==
  /\ ~panicked /\ state[p] = "LIVE" /\ pc[p] = "user"
  /\ z \in Threads(p) /\ state[z] = "ZOMBIE"
  /\ Reaped(z)
  /\ UNCHANGED <<local, memory, panicked>>

Next ==
  \E p \in Slot :
    \/ \E n \in Deltas : SbrkCall(p, n)
    \/ GrowPage(p) \/ FreePage(p) \/ SetSize(p) \/ ShareSize(p)
    \/ ForkPage(p) \/ ForkPublish(p) \/ Exec(p) \/ Exit(p)
    \/ \E q \in Slot : ForkCall(p, q) \/ Clone(p, q) \/ Wait(p, q) \/ Join(p, q)
Spec == Init /\ [][Next]_vars
-----------------------------------------------------------------------------
TypeOK ==
  /\ state \in [Slot -> {"UNUSED", "EMBRYO", "LIVE", "ZOMBIE"}]
  /\ parent \in [Slot -> Slot \cup {NoProc}]
  /\ pgdir \in [Slot -> Dir \cup {NoDir}]
  /\ sz \in [Slot -> 0 .. USERTOP] /\ goal \in [Slot -> 0 .. USERTOP]
  /\ pc \in [Slot -> {"user", "grow", "undo", "shrink", "size", "share", "copy", "publish"}]
  /\ a \in [Slot -> 0 .. NPAGE]
  /\ np \in [Slot -> Slot \cup {NoProc}] /\ d \in [Slot -> Dir \cup {NoDir}]
  /\ dirs \subseteq Dir /\ pt \in [Dir -> SUBSET Page]
  /\ free \in 0 .. NFrame
  /\ panicked \in BOOLEAN

(* The kernel does not panic: no page is mapped twice ("remap"), none is   *)
(* missing when a space is copied (vm.c:311), no space is without frames.  *)
NoPanic == ~panicked

(* No frame is lost or used twice: the free list, the directories and the  *)
(* pages they map make up all of memory, whichever allocation failed and   *)
(* whoever ended; the directories are those of some process or of a fork   *)
(* in progress, no process that may use or free its own has it freed, and  *)
(* nothing panics.                                                         *)
Mapped == {m \in dirs \X Page : m[2] \in pt[m[1]]}
Users == {s \in Slot : state[s] = "LIVE" \/ (state[s] = "ZOMBIE" /\ ~IsThread(s))}
FramesSound ==
  /\ TypeOK /\ NoPanic
  /\ NFrame = free + Cardinality(dirs) + Cardinality(Mapped)
  /\ dirs = ({pgdir[s] : s \in Users} \cup {d[s] : s \in Slot}) \ {NoDir}
  /\ \A s \in Users : pgdir[s] # NoDir

(* Outside of sbrk the pages of a space are exactly those below its size,  *)
(* and its threads agree on the size: what growproc and its scan for child *)
(* threads are for (proc.c:122).                                           *)
Resizing(p) == \E q \in Sharers(p) \cup {p} : pc[q] \in {"grow", "undo", "shrink", "size", "share"}
BelowSizeMapped ==
  \A p \in Slot : state[p] = "LIVE" /\ ~Resizing(p) =>
    /\ pt[pgdir[p]] = Below(sz[p])
    /\ \A q \in Sharers(p) : state[q] = "LIVE" => sz[q] = sz[p]

=============================================================================

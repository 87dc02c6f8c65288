--------------------------- MODULE FileSystemProofs ---------------------------
(* Proofs about FileSystem, for every number of processes, inodes, blocks and  *)
(* names, and any number of crashes: what is on the disk is sound at every     *)
(* instant (DiskSound), and what is in memory agrees with it (MemorySound).    *)
EXTENDS FileSystem, FiniteSetTheorems, TLAPS

-----------------------------------------------------------------------------
(* The inductive invariant                                                     *)

Pcs == {"idle", "walk", "dir", "parent", "existing", "ialloc", "init", "dotdot", "dirlink",
        "made", "victim", "erased", "unlinked", "old", "count", "bad", "data", "size"}
Freeings == {"idle", "bzero", "bfree", "trunc", "type", "flags"}
CallNames == {"none", "open", "mkdir", "unlink", "rmdir", "link", "write"}

(* What is left of a path, and what is left to put, are short.                 *)
One == {<<n>> : n \in Name}
Two == {<<d, n>> : d \in Name, n \in Name}
PutLists == {<<>>} \cup {<<i>> : i \in Inum} \cup {<<i, j>> : i \in Inum, j \in Inum}
Frames == [call : CallNames, path : Seq(Name), dp : Inum \cup {NoInum},
           ip : Inum \cup {NoInum}, new : SUBSET Block]

Types ==
  /\ dinode \in [Inum -> Inode] /\ inode \in [Inum -> Inode]
  /\ dent \in [Inum -> [Name -> Inum \cup {NoInum}]]
  /\ used \subseteq Block /\ full \subseteq Block
  /\ ref \in [Inum -> Nat] /\ busy \in [Inum -> BOOLEAN] /\ valid \in [Inum -> BOOLEAN]
  /\ pc \in [Proc -> Pcs] /\ frame \in [Proc -> Frames] /\ puts \in [Proc -> PutLists]
  /\ freeing \in [Proc -> Freeings] /\ file \in [Proc -> Inum \cup {NoInum}]
  /\ crashes \in 0 .. MaxCrashes

(* Where a process is says which inodes its locals hold, ...                   *)
HoldsDp(p) ==
  pc[p] \in {"dir", "parent", "ialloc", "init", "dotdot", "dirlink", "victim", "erased"}
Linked(p) == Call(p) = "link" /\ pc[p] \in {"walk", "dir", "parent", "bad"}
HoldsIp(p) ==
  \/ pc[p] \in {"existing", "init", "dotdot", "dirlink", "made", "victim", "erased",
                "unlinked", "count"}
  \/ Linked(p)
Writes(p) == pc[p] \in {"data", "size"}

PathOK(p) ==
  /\ pc[p] = "old" => Head(Path(p)) \in Name /\ Tail(Path(p)) \in One \cup Two
  /\ pc[p] \in {"walk", "count"} => Path(p) \in One \cup Two
  /\ pc[p] \in {"dir", "parent", "ialloc", "init", "dotdot", "dirlink", "victim"} => Path(p) \in One
  /\ Call(p) = "mkdir" /\ pc[p] = "walk" => Path(p) \in One
  /\ Call(p) = "mkdir" /\ HoldsDp(p) => Dp(p) = Root
CallOK(p) ==
  /\ pc[p] \in {"existing", "ialloc", "init", "dotdot", "dirlink", "made"} => Creates(p)
  /\ pc[p] = "dotdot" => Call(p) = "mkdir"
  /\ pc[p] \in {"victim", "erased", "unlinked"} => Unlinks(p)
  /\ pc[p] \in {"old", "count", "bad"} => Call(p) = "link"
  /\ pc[p] \in {"walk", "dir", "parent"} => Call(p) \in {"open", "mkdir", "unlink", "rmdir", "link"}
  /\ Call(p) = "open" /\ pc[p] # "idle" => file[p] = NoInum
PutsOK(p) ==
  /\ pc[p] \notin {"idle", "existing", "made", "unlinked", "bad"} => puts[p] = <<>>
  /\ freeing[p] # "idle" => puts[p] # <<>>
InumOK(p) ==
  /\ HoldsDp(p) => Dp(p) \in Inum
  /\ HoldsIp(p) => Ip(p) \in Inum \ {Root}
  /\ Writes(p) => file[p] \in Inum

(* ... so a reference count is the number of holds on the inode.               *)
CountIf(b) == IF b THEN 1 ELSE 0
Queued(s, i) == CountIf(Len(s) \in {1, 2} /\ s[1] = i) + CountIf(Len(s) = 2 /\ s[2] = i)
Count(p, i) ==
  CountIf(i = Root) + CountIf(HoldsDp(p) /\ Dp(p) = i) + CountIf(HoldsIp(p) /\ Ip(p) = i)
    + CountIf(file[p] = i) + Queued(puts[p], i)
Numbered(C) == {h \in Proc \X (1 .. 6) : h[2] <= C[h[1]]}
Counts(i) == [p \in Proc |-> Count(p, i)]
Counted == \A i \in Inum : ref[i] = Cardinality(Numbered(Counts(i)))

(* I_BUSY is set by one process, which knows the inode's contents.             *)
Owns(p, i) ==
  \/ pc[p] \in {"ialloc", "init", "dotdot", "dirlink", "victim", "erased"} /\ Dp(p) = i
  \/ pc[p] \in {"dotdot", "dirlink", "made", "erased", "unlinked"} /\ Ip(p) = i
  \/ Writes(p) /\ file[p] = i
  \/ freeing[p] # "idle" /\ Put(p) = i
Locked ==
  /\ \A i \in Inum : busy[i] <=> \E p \in Proc : Owns(p, i)
  /\ \A i \in Inum, p, q \in Proc : Owns(p, i) /\ Owns(q, i) => p = q
LoadedOK(p) ==
  /\ \A i \in Inum : Owns(p, i) => valid[i]
  /\ Linked(p) => valid[Ip(p)]
  /\ pc[p] \in {"dotdot", "dirlink", "erased"} => Dp(p) # Ip(p)

(* Only the last process of an inode frees it; then it alone may see it free   *)
(* in the cache when ialloc has handed it out again.                           *)
Releases(p, i) == freeing[p] = "flags" /\ Put(p) = i
Cached ==
  /\ \A i \in Inum : valid[i] => ref[i] > 0
  /\ \A i \in Inum : valid[i] /\ inode[i] # dinode[i] => \E p \in Proc : Releases(p, i)
  /\ \A i \in Inum : dinode[i].type = "free" => ref[i] = 0 \/ \E p \in Proc : Releases(p, i)

FreeingOK(p) ==
  freeing[p] # "idle" =>
    /\ dinode[Put(p)].nlink = 0
    /\ freeing[p] # "flags" => ref[Put(p)] = 1 /\ dinode[Put(p)].type # "free"
    /\ freeing[p] \in {"type", "flags"} => dinode[Put(p)].addrs = {}
    /\ freeing[p] = "flags" =>
         \/ ref[Put(p)] = 1 /\ dinode[Put(p)].type = "free"
         \/ ref[Put(p)] = 2 /\ \E q \in Proc : pc[q] = "init" /\ Ip(q) = Put(p)
    /\ freeing[p] = "bfree" => full \cap dinode[Put(p)].addrs = {}
FreshOK(p) ==
  pc[p] = "init" =>
    ref[Ip(p)] = 1 \/ (ref[Ip(p)] = 2 /\ \E q \in Proc : Releases(q, Ip(p)))
Freed == \A p \in Proc : FreeingOK(p) /\ FreshOK(p)

(* Types change only while nothing refers to the inode.                        *)
InodeKinds ==
  /\ dinode[Root].type = "dir"
  /\ \A i \in Inum : dinode[i].type # "file" => dinode[i].addrs = {}
  /\ \A i \in Inum : dinode[i].type = "free" => dinode[i].nlink = 0
EntryKinds ==
  /\ \A d, i \in Inum, n \in Name : dent[d][n] = i /\ dinode[i].type = "dir" => d = Root
  /\ \A d \in Inum, n \in Name : dent[d][n] # Root
KindOK(p) ==
  /\ pc[p] \in {"init", "dotdot", "dirlink", "made"} =>
       dinode[Ip(p)].type = IF Call(p) = "open" THEN "file" ELSE "dir"
  /\ pc[p] = "init" => dinode[Ip(p)].nlink = 0 /\ dinode[Ip(p)].addrs = {}
  /\ Linked(p) => dinode[Ip(p)].type = "file"
  /\ pc[p] = "erased" /\ dinode[Ip(p)].type = "dir" => Dp(p) = Root
  /\ file[p] # NoInum => dinode[file[p]].type = "file"
  /\ Writes(p) => dinode[file[p]].addrs = {}
SlotOK(p) ==
  /\ pc[p] \in {"ialloc", "init", "dotdot", "dirlink"} => Entry(p) = NoInum
  /\ pc[p] = "victim" => Entry(p) = Ip(p)
LocalOK(p) == PathOK(p) /\ CallOK(p) /\ PutsOK(p) /\ InumOK(p) /\ LoadedOK(p) /\ KindOK(p) /\ SlotOK(p)
Locals == \A p \in Proc : LocalOK(p)

(* A link count covers the entries, reachable or not, and the calls that are   *)
(* between its change and that of the entry; the root's covers its             *)
(* subdirectories.                                                             *)
AllLinks(i) == {e \in Inum \X Name : dent[e[1]][e[2]] = i}
Claim(p) == pc[p] \in {"dotdot", "dirlink", "erased", "unlinked"} \/ Linked(p)
ClaimOn(p, i) == Claim(p) /\ Ip(p) = i
Claims(i) == {p \in Proc : ClaimOn(p, i)}
IsDir(i) == i # NoInum /\ dinode[i].type = "dir"
Subdirs == {n \in Name : IsDir(dent[Root][n])}
DirClaim(p) ==
  \/ pc[p] = "dirlink" /\ Call(p) = "mkdir"
  \/ pc[p] = "erased" /\ dinode[Ip(p)].type = "dir"
DirClaims == {p \in Proc : DirClaim(p)}
LinksCovered == \A i \in Inum : dinode[i].nlink >= Cardinality(AllLinks(i)) + Cardinality(Claims(i))
RootCovered == dinode[Root].nlink >= 1 + Cardinality(Subdirs) + Cardinality(DirClaims)

(* The blocks of an inode that can still be used are its own; one without      *)
(* links that a crash caught in iput, or between bfree and iupdate, is lost.   *)
Gone(i) ==
  dinode[i].nlink = 0 /\ (ref[i] = 0 \/ \E p \in Proc : freeing[p] = "trunc" /\ Put(p) = i)
BlocksOwned ==
  /\ full \subseteq used
  /\ \A i \in Inum : ~Gone(i) => dinode[i].addrs \subseteq used
  /\ \A i, j \in Inum : i # j /\ ~Gone(i) /\ ~Gone(j) => dinode[i].addrs \cap dinode[j].addrs = {}
NewOwned ==
  \A p \in Proc : Writes(p) =>
    /\ frame[p].new \subseteq used
    /\ \A i \in Inum : ~Gone(i) => frame[p].new \cap dinode[i].addrs = {}
    /\ \A q \in Proc \ {p} : Writes(q) => frame[p].new \cap frame[q].new = {}

Reclaimed ==
  crashes = 0 => \A i \in Inum : dinode[i].type # "free" /\ dinode[i].nlink = 0 =>
    \/ \E p \in Proc : pc[p] = "init" /\ Ip(p) = i
    \/ ref[i] > 0 /\ valid[i]

IInv ==
  /\ Types /\ Locals /\ Counted /\ Locked /\ Cached /\ Freed /\ InodeKinds /\ EntryKinds
  /\ LinksCovered /\ RootCovered /\ BlocksOwned /\ NewOwned /\ Reclaimed /\ NoPanic

-----------------------------------------------------------------------------
(* Lists and counts                                                            *)

(* A path that is left is not empty: namex takes its first element.            *)
LEMMA PathFacts ==
  ASSUME NEW q \in One \cup Two
  PROVE  /\ q # <<>> /\ Head(q) \in Name /\ q \in Seq(Name)
         /\ IF Len(q) = 1 THEN q \in One ELSE Tail(q) \in One
         /\ q \in One => Len(q) = 1
  <1>1. CASE q \in One
    <2>1. PICK n \in Name : q = <<n>>  BY <1>1 DEF One
    <2>. QED  BY <1>1, <2>1
  <1>2. CASE q \in Two
    <2>1. PICK d \in Name, n \in Name : q = <<d, n>>  BY <1>2 DEF Two
    <2>2. Tail(q) = <<n>> /\ Len(q) = 2 /\ Head(q) = d /\ q # <<>>  BY <2>1
    <2>3. q \notin One  BY <2>2 DEF One
    <2>. QED  BY <2>1, <2>2, <2>3 DEF One
  <1>. QED  BY <1>1, <1>2

(* What is left to iput shrinks from the front.                                *)
LEMMA PutFacts ==
  /\ <<>> \in PutLists /\ \A i : Queued(<<>>, i) = 0
  /\ \A a \in Inum : /\ <<a>> \in PutLists /\ <<a>> # <<>> /\ Head(<<a>>) = a
                     /\ \A i : Queued(<<a>>, i) = CountIf(a = i)
  /\ \A a, b \in Inum : /\ <<a, b>> \in PutLists /\ <<a, b>> # <<>> /\ Head(<<a, b>>) = a
                        /\ \A i : Queued(<<a, b>>, i) = CountIf(a = i) + CountIf(b = i)
  /\ \A s \in PutLists : /\ s \in Seq(Inum) /\ \A i : Queued(s, i) \in 0 .. 2
                         /\ s # <<>> => /\ Head(s) \in Inum /\ Tail(s) \in PutLists
                                        /\ Queued(s, Head(s)) >= 1
                                        /\ \A i : Queued(Tail(s), i) = Queued(s, i) - CountIf(Head(s) = i)
  <1>1. <<>> \in PutLists /\ \A i : Queued(<<>>, i) = 0
    BY DEF PutLists, Queued, CountIf
  <1>2. \A a \in Inum : /\ <<a>> \in PutLists /\ <<a>> # <<>> /\ Head(<<a>>) = a
                        /\ \A i : Queued(<<a>>, i) = CountIf(a = i)
    BY DEF PutLists, Queued, CountIf
  <1>3. \A a, b \in Inum : /\ <<a, b>> \in PutLists /\ <<a, b>> # <<>> /\ Head(<<a, b>>) = a
                           /\ \A i : Queued(<<a, b>>, i) = CountIf(a = i) + CountIf(b = i)
    BY DEF PutLists, Queued, CountIf
  <1>4. ASSUME NEW s \in PutLists
        PROVE  /\ s \in Seq(Inum) /\ \A i : Queued(s, i) \in 0 .. 2
               /\ s # <<>> => /\ Head(s) \in Inum /\ Tail(s) \in PutLists
                              /\ Queued(s, Head(s)) >= 1
                              /\ \A i : Queued(Tail(s), i) = Queued(s, i) - CountIf(Head(s) = i)
    <2>1. CASE s = <<>>  BY <2>1, <1>1
    <2>2. ASSUME NEW a \in Inum, s = <<a>>
          PROVE  /\ s \in Seq(Inum) /\ \A i : Queued(s, i) \in 0 .. 2
                 /\ Head(s) \in Inum /\ Tail(s) \in PutLists
                 /\ Queued(s, Head(s)) >= 1
                 /\ \A i : Queued(Tail(s), i) = Queued(s, i) - CountIf(Head(s) = i)
      <3>1. Head(s) = a /\ Tail(s) = <<>> /\ s \in Seq(Inum)  BY <2>2
      <3>. QED  BY <2>2, <3>1, <1>1, <1>2 DEF CountIf
    <2>3. ASSUME NEW a \in Inum, NEW b \in Inum, s = <<a, b>>
          PROVE  /\ s \in Seq(Inum) /\ \A i : Queued(s, i) \in 0 .. 2
                 /\ Head(s) \in Inum /\ Tail(s) \in PutLists
                 /\ Queued(s, Head(s)) >= 1
                 /\ \A i : Queued(Tail(s), i) = Queued(s, i) - CountIf(Head(s) = i)
      <3>1. Head(s) = a /\ s \in Seq(Inum)  BY <2>3
      <3>2. Tail(s) = <<b>>  BY <2>3
      <3>3. \A i : /\ Queued(s, i) = CountIf(a = i) + CountIf(b = i)
                   /\ Queued(Tail(s), i) = CountIf(b = i)
        BY <2>3, <3>2, <1>2, <1>3
      <3>4. \A x, i : CountIf(x = i) \in {0, 1} /\ (x = i => CountIf(x = i) = 1)  BY DEF CountIf
      <3>. QED  BY <2>3, <3>1, <3>2, <3>3, <3>4, <1>2
    <2>. QED  BY <2>1, <2>2, <2>3 DEF PutLists
  <1>. QED  BY <1>1, <1>2, <1>3, <1>4

(* Few elements of a finite set bound its size from below.                     *)
LEMMA AtLeast ==
  ASSUME NEW S, IsFiniteSet(S)
  PROVE  /\ Cardinality(S) \in Nat
         /\ \A a \in S : Cardinality(S) >= 1
         /\ \A a, b \in S : a # b => Cardinality(S) >= 2
         /\ \A a, b, c \in S : a # b /\ a # c /\ b # c => Cardinality(S) >= 3
  <1>1. Cardinality(S) \in Nat  BY FS_CardinalityType
  <1>2. \A T \in SUBSET S : IsFiniteSet(T) /\ Cardinality(T) \in Nat /\ Cardinality(T) <= Cardinality(S)
    BY FS_Subset, FS_CardinalityType
  <1>3. \A a : IsFiniteSet({a}) /\ Cardinality({a}) = 1  BY FS_Singleton
  <1>4. \A a, b : a # b => IsFiniteSet({a, b}) /\ Cardinality({a, b}) = 2
    <2>1. TAKE a, b
    <2>2. HAVE a # b
    <2>3. {a, b} = {a} \cup {b} /\ b \notin {a}  BY <2>2
    <2>4. IsFiniteSet({a}) /\ Cardinality({a}) = 1  BY <1>3
    <2>5. IsFiniteSet({a} \cup {b}) /\ Cardinality({a} \cup {b}) = Cardinality({a}) + 1
      BY <2>3, <2>4, FS_AddElement
    <2>. QED  BY <2>3, <2>4, <2>5
  <1>5. \A a, b, c : a # b /\ a # c /\ b # c => Cardinality({a, b, c}) = 3
    <2>1. TAKE a, b, c
    <2>2. HAVE a # b /\ a # c /\ b # c
    <2>3. {a, b, c} = {a, b} \cup {c} /\ c \notin {a, b}  BY <2>2
    <2>4. IsFiniteSet({a, b}) /\ Cardinality({a, b}) = 2  BY <1>4, <2>2
    <2>5. Cardinality({a, b} \cup {c}) = Cardinality({a, b}) + 1
      BY <2>3, <2>4, FS_AddElement
    <2>. QED  BY <2>3, <2>4, <2>5
  <1>6. \A a \in S : Cardinality(S) >= 1
    <2>1. TAKE a \in S
    <2>2. {a} \in SUBSET S  OBVIOUS
    <2>. QED  BY <1>1, <1>2, <1>3, <2>2
  <1>7. \A a, b \in S : a # b => Cardinality(S) >= 2
    <2>1. TAKE a, b \in S
    <2>2. {a, b} \in SUBSET S  OBVIOUS
    <2>. QED  BY <1>1, <1>2, <1>4, <2>2
  <1>8. \A a, b, c \in S : a # b /\ a # c /\ b # c => Cardinality(S) >= 3
    <2>1. TAKE a, b, c \in S
    <2>2. {a, b, c} \in SUBSET S  OBVIOUS
    <2>. QED  BY <1>1, <1>2, <1>5, <2>2
  <1>. QED  BY <1>1, <1>6, <1>7, <1>8

(* Numbered makes a set of the counts that the processes have.                 *)
LEMMA NumberedFacts ==
  ASSUME NEW C \in [Proc -> 0 .. 6]
  PROVE  /\ IsFiniteSet(Numbered(C)) /\ Cardinality(Numbered(C)) \in Nat
         /\ \A p \in Proc : C[p] >= 1 => Cardinality(Numbered(C)) >= 1
         /\ \A p \in Proc : C[p] >= 2 => Cardinality(Numbered(C)) >= 2
         /\ \A p, q \in Proc : p # q /\ C[p] >= 1 /\ C[q] >= 1 => Cardinality(Numbered(C)) >= 2
         /\ \A p, q \in Proc : p # q /\ C[p] >= 2 /\ C[q] >= 1 => Cardinality(Numbered(C)) >= 3
         /\ \A p, q, r \in Proc : p # q /\ p # r /\ q # r /\ C[p] >= 1 /\ C[q] >= 1 /\ C[r] >= 1
               => Cardinality(Numbered(C)) >= 3
         /\ Cardinality(Numbered(C)) > 0 => \E p \in Proc : C[p] >= 1
  <1>1. IsFiniteSet(Proc \X (1 .. 6))
    <2>1. 1 \in Int /\ 6 \in Int  OBVIOUS
    <2>2. IsFiniteSet(1 .. 6)  BY <2>1, FS_Interval
    <2>. QED  BY <2>2, ProcAssumption, FS_Product
  <1>2. IsFiniteSet(Numbered(C))
    <2>1. Numbered(C) \subseteq Proc \X (1 .. 6)  BY DEF Numbered
    <2>. QED  BY <1>1, <2>1, FS_Subset
  <1>3. \A p \in Proc : C[p] >= 1 => <<p, 1>> \in Numbered(C)  BY DEF Numbered
  <1>4. \A p \in Proc : C[p] >= 2 => <<p, 1>> \in Numbered(C) /\ <<p, 2>> \in Numbered(C)
    BY DEF Numbered
  <1>5. \A p, q \in Proc, j, k \in 1 .. 6 : p # q \/ j # k => <<p, j>> # <<q, k>>  OBVIOUS
  <1>6. Cardinality(Numbered(C)) > 0 => \E p \in Proc : C[p] >= 1
    <2>1. SUFFICES ASSUME \A p \in Proc : C[p] = 0  PROVE Cardinality(Numbered(C)) = 0
      OBVIOUS
    <2>2. Numbered(C) = {}  BY <2>1 DEF Numbered
    <2>. QED  BY <2>2, FS_EmptySet
  <1>7. /\ \A a \in Numbered(C) : Cardinality(Numbered(C)) >= 1
        /\ \A a, b \in Numbered(C) : a # b => Cardinality(Numbered(C)) >= 2
        /\ \A a, b, c \in Numbered(C) : a # b /\ a # c /\ b # c => Cardinality(Numbered(C)) >= 3
        /\ Cardinality(Numbered(C)) \in Nat
    BY <1>2, AtLeast
  <1>8. 1 \in 1 .. 6 /\ 2 \in 1 .. 6  OBVIOUS
  <1>9. \A p, q \in Proc : p # q /\ C[p] >= 2 /\ C[q] >= 1 => Cardinality(Numbered(C)) >= 3
    <2>1. TAKE p, q \in Proc
    <2>2. HAVE p # q /\ C[p] >= 2 /\ C[q] >= 1
    <2>3. <<p, 1>> \in Numbered(C) /\ <<p, 2>> \in Numbered(C) /\ <<q, 1>> \in Numbered(C)
      BY <2>2, <1>3, <1>4
    <2>4. <<p, 1>> # <<p, 2>> /\ <<p, 1>> # <<q, 1>> /\ <<p, 2>> # <<q, 1>>  BY <2>2, <1>5, <1>8
    <2>. QED  BY <2>3, <2>4, <1>7
  <1>10. \A p, q, r \in Proc : p # q /\ p # r /\ q # r /\ C[p] >= 1 /\ C[q] >= 1 /\ C[r] >= 1
               => Cardinality(Numbered(C)) >= 3
    <2>1. TAKE p, q, r \in Proc
    <2>2. HAVE p # q /\ p # r /\ q # r /\ C[p] >= 1 /\ C[q] >= 1 /\ C[r] >= 1
    <2>3. <<p, 1>> \in Numbered(C) /\ <<q, 1>> \in Numbered(C) /\ <<r, 1>> \in Numbered(C)
      BY <2>2, <1>3
    <2>4. <<p, 1>> # <<q, 1>> /\ <<p, 1>> # <<r, 1>> /\ <<q, 1>> # <<r, 1>>  BY <2>2, <1>5, <1>8
    <2>. QED  BY <2>3, <2>4, <1>7
  <1>11. /\ \A p \in Proc : C[p] >= 1 => Cardinality(Numbered(C)) >= 1
         /\ \A p \in Proc : C[p] >= 2 => Cardinality(Numbered(C)) >= 2
         /\ \A p, q \in Proc : p # q /\ C[p] >= 1 /\ C[q] >= 1 => Cardinality(Numbered(C)) >= 2
    BY <1>3, <1>4, <1>5, <1>7, <1>8
  <1>. QED  BY <1>2, <1>6, <1>7, <1>9, <1>10, <1>11

(* One process's count goes up or down by one, or stays.                       *)
LEMMA NumberedStep ==
  ASSUME NEW C \in [Proc -> 0 .. 6], NEW D \in [Proc -> 0 .. 6], NEW p \in Proc,
         \A q \in Proc \ {p} : D[q] = C[q], NEW k \in {-1, 0, 1}, D[p] = C[p] + k
  PROVE  Cardinality(Numbered(D)) = Cardinality(Numbered(C)) + k
  <1>1. /\ IsFiniteSet(Numbered(C)) /\ Cardinality(Numbered(C)) \in Nat
        /\ IsFiniteSet(Numbered(D)) /\ Cardinality(Numbered(D)) \in Nat
    BY NumberedFacts
  <1>2. CASE k = 0
    <2>1. Numbered(D) = Numbered(C)  BY <1>2 DEF Numbered
    <2>. QED  BY <1>1, <1>2, <2>1
  <1>3. CASE k = 1
    <2>1. Numbered(D) = Numbered(C) \cup {<<p, D[p]>>} /\ <<p, D[p]>> \notin Numbered(C)
      <3>1. D[p] \in 1 .. 6 /\ C[p] = D[p] - 1 /\ C[p] \in 0 .. 6 BY <1>3
      <3>2. \A h \in Proc \X (1 .. 6) : h[2] <= D[h[1]] <=> h[2] <= C[h[1]] \/ h = <<p, D[p]>>
        <4>1. TAKE h \in Proc \X (1 .. 6)
        <4>2. PICK q \in Proc, m \in 1 .. 6 : h = <<q, m>>  OBVIOUS
        <4>3. h[1] = q /\ h[2] = m /\ (h = <<p, D[p]>> <=> q = p /\ m = D[p])  BY <4>2
        <4>. QED  BY <3>1, <4>3
      <3>3. <<p, D[p]>> \in Proc \X (1 .. 6) /\ <<p, D[p]>>[1] = p /\ <<p, D[p]>>[2] = D[p]  BY <3>1
      <3>4. ~(D[p] <= C[p])  BY <3>1
      <3>. QED  BY <3>2, <3>3, <3>4 DEF Numbered
    <2>. QED  BY <1>1, <1>3, <2>1, FS_AddElement
  <1>4. CASE k = -1
    <2>1. Numbered(C) = Numbered(D) \cup {<<p, C[p]>>} /\ <<p, C[p]>> \notin Numbered(D)
      <3>1. C[p] \in 1 .. 6 /\ D[p] = C[p] - 1 /\ D[p] \in 0 .. 6 BY <1>4
      <3>2. \A h \in Proc \X (1 .. 6) : h[2] <= C[h[1]] <=> h[2] <= D[h[1]] \/ h = <<p, C[p]>>
        <4>1. TAKE h \in Proc \X (1 .. 6)
        <4>2. PICK q \in Proc, m \in 1 .. 6 : h = <<q, m>>  OBVIOUS
        <4>3. h[1] = q /\ h[2] = m /\ (h = <<p, C[p]>> <=> q = p /\ m = C[p])  BY <4>2
        <4>. QED  BY <3>1, <4>3
      <3>3. <<p, C[p]>> \in Proc \X (1 .. 6) /\ <<p, C[p]>>[1] = p /\ <<p, C[p]>>[2] = C[p]  BY <3>1
      <3>4. ~(C[p] <= D[p])  BY <3>1
      <3>. QED  BY <3>2, <3>3, <3>4 DEF Numbered
    <2>2. Cardinality(Numbered(C)) = Cardinality(Numbered(D)) + 1  BY <1>1, <2>1, FS_AddElement
    <2>. QED  BY <1>1, <1>4, <2>2
  <1>. QED  BY <1>2, <1>3, <1>4

-----------------------------------------------------------------------------
(* What the invariant says of an inode that is held, named or owned            *)

LEMMA CountType ==
  ASSUME Types
  PROVE  /\ \A p \in Proc, i \in Inum : Count(p, i) \in 0 .. 6
         /\ \A i \in Inum : Counts(i) \in [Proc -> 0 .. 6]
         /\ \A i \in Inum, p \in Proc : Counts(i)[p] = Count(p, i)
  <1>1. \A b : CountIf(b) \in {0, 1}  BY DEF CountIf
  <1>2. \A p \in Proc, i \in Inum : Queued(puts[p], i) \in 0 .. 2  BY PutFacts DEF Types
  <1>3. \A p \in Proc, i \in Inum : Count(p, i) \in 0 .. 6
    <2>1. TAKE p \in Proc, i \in Inum
    <2>2. \A a, b, c, d \in {0, 1}, e \in 0 .. 2 : a + b + c + d + e \in 0 .. 6  OBVIOUS
    <2>. QED  BY <1>1, <1>2, <2>2 DEF Count
  <1>. QED  BY <1>3 DEF Counts

LEMMA HoldFacts ==
  ASSUME Types, Counted, NEW i \in Inum
  PROVE  /\ \A p \in Proc : Count(p, i) >= 1 => ref[i] >= 1
         /\ \A p \in Proc : Count(p, i) >= 2 => ref[i] >= 2
         /\ \A p, q \in Proc : p # q /\ Count(p, i) >= 1 /\ Count(q, i) >= 1 => ref[i] >= 2
         /\ \A p, q \in Proc : p # q /\ Count(p, i) >= 2 /\ Count(q, i) >= 1 => ref[i] >= 3
         /\ \A p, q, r \in Proc : p # q /\ p # r /\ q # r /\ Count(p, i) >= 1 /\ Count(q, i) >= 1
                                    /\ Count(r, i) >= 1 => ref[i] >= 3
         /\ ref[i] > 0 => \E p \in Proc : Count(p, i) >= 1
  <1>1. /\ Counts(i) \in [Proc -> 0 .. 6] /\ \A p \in Proc : Counts(i)[p] = Count(p, i)
        /\ ref[i] = Cardinality(Numbered(Counts(i)))
    BY CountType DEF Counted
  <1>. QED  BY <1>1, NumberedFacts

(* A hold that keeps the inode: not that of an iput that frees it, nor that of *)
(* create on the inode ialloc has just handed out.                             *)
Uses(p, i) ==
  \/ i = Root
  \/ HoldsDp(p) /\ Dp(p) = i
  \/ HoldsIp(p) /\ pc[p] # "init" /\ Ip(p) = i
  \/ file[p] = i
  \/ freeing[p] = "idle" /\ puts[p] # <<>> /\ Put(p) = i

Steady(i) ==
  /\ dinode[i].type # "free" /\ ~Gone(i)
  /\ Loaded(i) = dinode[i]
  /\ \A q \in Proc : freeing[q] # "idle" => Put(q) # i
  /\ \A q \in Proc : pc[q] = "init" => Ip(q) # i

LEMMA PutCounts ==
  ASSUME Types
  PROVE  /\ \A p \in Proc : puts[p] # <<>> => Put(p) \in Inum /\ Count(p, Put(p)) >= 1
         /\ \A p \in Proc, i \in Inum : Uses(p, i) => Count(p, i) >= 1
         /\ \A p \in Proc, i \in Inum : Uses(p, i) /\ freeing[p] # "idle" /\ puts[p] # <<>> /\ Put(p) = i
               => Count(p, i) >= 2
         /\ \A p \in Proc, i \in Inum : Uses(p, i) /\ pc[p] = "init" /\ Ip(p) = i /\ puts[p] = <<>>
               => Count(p, i) >= 2
         /\ \A p \in Proc : pc[p] = "init" => Count(p, Ip(p)) >= 1
  <1>1. \A b : CountIf(b) \in {0, 1} /\ (b => CountIf(b) = 1)  BY DEF CountIf
  <1>2. \A p \in Proc : puts[p] \in PutLists  BY DEF Types
  <1>3. \A p \in Proc : \A i : Queued(puts[p], i) \in 0 .. 2  BY <1>2, PutFacts
  <1>4. \A p \in Proc : puts[p] # <<>> => Put(p) \in Inum /\ Queued(puts[p], Put(p)) >= 1
    BY <1>2, PutFacts DEF Put
  <1>5. \A a, b, c, d \in {0, 1}, e \in 0 .. 2 :
          /\ a = 1 \/ b = 1 \/ c = 1 \/ d = 1 \/ e >= 1 => a + b + c + d + e >= 1
          /\ (a = 1 \/ b = 1 \/ c = 1 \/ d = 1) /\ e >= 1 => a + b + c + d + e >= 2
          /\ (a = 1 \/ b = 1 \/ d = 1 \/ e >= 1) /\ c = 1 => a + b + c + d + e >= 2
    OBVIOUS
  <1>6. \A p \in Proc : \A i :
          \E a, b, c, d \in {0, 1}, e \in 0 .. 2 :
             /\ Count(p, i) = a + b + c + d + e
             /\ i = Root => a = 1
             /\ HoldsDp(p) /\ Dp(p) = i => b = 1
             /\ HoldsIp(p) /\ Ip(p) = i => c = 1
             /\ file[p] = i => d = 1
             /\ e = Queued(puts[p], i)
    <2>1. TAKE p \in Proc
    <2>0. TAKE i
    <2>. DEFINE a == CountIf(i = Root)
                b == CountIf(HoldsDp(p) /\ Dp(p) = i)
                c == CountIf(HoldsIp(p) /\ Ip(p) = i)
                d == CountIf(file[p] = i)
                e == Queued(puts[p], i)
    <2>2. a \in {0, 1} /\ b \in {0, 1} /\ c \in {0, 1} /\ d \in {0, 1} /\ e \in 0 .. 2
      BY <1>1, <1>3
    <2>3. /\ Count(p, i) = a + b + c + d + e
          /\ i = Root => a = 1
          /\ HoldsDp(p) /\ Dp(p) = i => b = 1
          /\ HoldsIp(p) /\ Ip(p) = i => c = 1
          /\ file[p] = i => d = 1
          /\ e = Queued(puts[p], i)
      BY DEF Count, CountIf
    <2>. HIDE DEF a, b, c, d, e
    <2>. QED  BY <2>2, <2>3
  <1>7. \A p \in Proc : pc[p] = "init" => HoldsIp(p)  BY DEF HoldsIp
  <1>8. \A p \in Proc : puts[p] # <<>> => Count(p, Put(p)) >= 1
    BY <1>4, <1>5, <1>6
  <1>9. \A p \in Proc, i \in Inum : Uses(p, i) => Count(p, i) >= 1
    BY <1>4, <1>5, <1>6 DEF Uses
  <1>10. \A p \in Proc, i \in Inum : Uses(p, i) /\ freeing[p] # "idle" /\ puts[p] # <<>> /\ Put(p) = i
               => Count(p, i) >= 2
    BY <1>4, <1>5, <1>6 DEF Uses
  <1>11. \A p \in Proc, i \in Inum : Uses(p, i) /\ pc[p] = "init" /\ Ip(p) = i /\ puts[p] = <<>>
               => Count(p, i) >= 2
    BY <1>5, <1>6, <1>7 DEF Uses
  <1>12. \A p \in Proc : pc[p] = "init" => Count(p, Ip(p)) >= 1
    BY <1>5, <1>6, <1>7
  <1>. QED  BY <1>4, <1>8, <1>9, <1>10, <1>11, <1>12

LEMMA UsesSteady ==
  ASSUME IInv, NEW p \in Proc, NEW i \in Inum, Uses(p, i)
  PROVE  Steady(i)
  <1>. USE DEF IInv
  <1>1. Count(p, i) >= 1 /\ ref[i] >= 1 /\ ref[i] \in Nat
    BY PutCounts, HoldFacts DEF Types
  <1>2. \A q \in Proc : freeing[q] # "idle" => puts[q] # <<>>  BY DEF Locals, LocalOK, PutsOK
  <1>3. ASSUME NEW q \in Proc, freeing[q] # "idle", Put(q) = i  PROVE FALSE
    <2>1. puts[q] # <<>> /\ Count(q, i) >= 1  BY <1>2, <1>3, PutCounts
    <2>2. ref[i] >= 2
      <3>1. CASE p = q
        <4>1. Count(p, i) >= 2  BY <1>2, <1>3, <3>1, PutCounts
        <4>. QED  BY <4>1, HoldFacts
      <3>2. CASE p # q  BY <3>2, <1>1, <2>1, HoldFacts
      <3>. QED  BY <3>1, <3>2
    <2>3. PICK r \in Proc : freeing[q] = "flags" /\ ref[i] = 2 /\ pc[r] = "init" /\ Ip(r) = i
      BY <1>3, <2>2 DEF Freed, FreeingOK
    <2>4. puts[r] = <<>> /\ r # q /\ Count(r, i) >= 1
      <3>1. puts[r] = <<>>  BY <2>3 DEF Locals, LocalOK, PutsOK
      <3>. QED  BY <2>1, <2>3, <3>1, PutCounts
    <2>5. ref[i] >= 3
      <3>1. CASE p = q
        <4>1. Count(p, i) >= 2  BY <1>2, <1>3, <3>1, PutCounts
        <4>. QED  BY <3>1, <4>1, <2>4, HoldFacts
      <3>2. CASE p = r
        <4>1. Count(p, i) >= 2  BY <2>3, <2>4, <3>2, PutCounts
        <4>. QED  BY <3>2, <4>1, <2>1, <2>4, HoldFacts
      <3>3. CASE p # q /\ p # r  BY <3>3, <1>1, <2>1, <2>4, HoldFacts
      <3>. QED  BY <3>1, <3>2, <3>3
    <2>. QED  BY <2>3, <2>5
  <1>4. \A q \in Proc : ~Releases(q, i)  BY <1>3 DEF Releases
  <1>5. dinode[i].type # "free"  BY <1>1, <1>4 DEF Cached
  <1>6. Loaded(i) = dinode[i]  BY <1>4 DEF Cached, Loaded
  <1>7. ~Gone(i)
    <2>1. \A q \in Proc : freeing[q] = "trunc" => Put(q) # i  BY <1>3
    <2>. QED  BY <1>1, <2>1 DEF Gone
  <1>8. ASSUME NEW q \in Proc, pc[q] = "init", Ip(q) = i  PROVE FALSE
    <2>1. puts[q] = <<>> /\ Count(q, i) >= 1
      <3>1. puts[q] = <<>>  BY <1>8 DEF Locals, LocalOK, PutsOK
      <3>. QED  BY <1>8, <3>1, PutCounts
    <2>2. ref[i] >= 2
      <3>1. CASE p = q
        <4>1. Count(p, i) >= 2  BY <1>8, <2>1, <3>1, PutCounts
        <4>. QED  BY <4>1, HoldFacts
      <3>2. CASE p # q  BY <3>2, <1>1, <2>1, HoldFacts
      <3>. QED  BY <3>1, <3>2
    <2>. QED  BY <1>4, <1>8, <2>2 DEF Freed, FreshOK
  <1>. QED  BY <1>1, <1>3, <1>5, <1>6, <1>7, <1>8 DEF Steady

(* The owner of a lock uses the inode, unless it frees it.                     *)
LEMMA OwnerUses ==
  ASSUME NEW p \in Proc, NEW i \in Inum, Owns(p, i), ~(freeing[p] # "idle" /\ Put(p) = i)
  PROVE  Uses(p, i)
  BY DEF Owns, Uses, HoldsDp, HoldsIp, Writes

(* An entry names an inode with a link.                                        *)
LEMMA LinkCards ==
  ASSUME Types, NEW i \in Inum
  PROVE  /\ IsFiniteSet(AllLinks(i)) /\ Cardinality(AllLinks(i)) \in Nat
         /\ IsFiniteSet(Claims(i)) /\ Cardinality(Claims(i)) \in Nat
         /\ AllLinks(i) # {} => Cardinality(AllLinks(i)) >= 1
         /\ Claims(i) # {} => Cardinality(Claims(i)) >= 1
  <1>1. IsFiniteSet(Inum \X Name)
    <2>1. 1 \in Int /\ NINODES \in Int  BY InumAssumption
    <2>2. IsFiniteSet(Inum)  BY <2>1, FS_Interval DEF Inum
    <2>. QED  BY <2>2, NameAssumption, FS_Product
  <1>2. AllLinks(i) \in SUBSET (Inum \X Name)  BY DEF AllLinks
  <1>3. Claims(i) \in SUBSET Proc  BY DEF Claims
  <1>4. IsFiniteSet(AllLinks(i)) /\ IsFiniteSet(Claims(i))
    BY <1>1, <1>2, <1>3, ProcAssumption, FS_Subset
  <1>. QED  BY <1>4, AtLeast

LEMMA EntryFacts ==
  ASSUME IInv, NEW d \in Inum, NEW n \in Name, dent[d][n] # NoInum
  PROVE  /\ dent[d][n] \in Inum \ {Root} /\ dinode[dent[d][n]].nlink >= 1
         /\ Steady(dent[d][n])
  <1>. DEFINE i == dent[d][n]
  <1>1. i \in Inum \ {Root}  BY DEF IInv, Types, EntryKinds
  <1>2. <<d, n>> \in AllLinks(i)  BY <1>1 DEF AllLinks
  <1>. HIDE DEF i
  <1>3. dinode[i].nlink >= 1 /\ dinode[i].nlink \in Nat
    <2>1. Cardinality(AllLinks(i)) >= 1 /\ Cardinality(AllLinks(i)) \in Nat
             /\ Cardinality(Claims(i)) \in Nat
      BY <1>1, <1>2, LinkCards DEF IInv
    <2>2. dinode[i].nlink >= Cardinality(AllLinks(i)) + Cardinality(Claims(i))
      BY <1>1 DEF IInv, LinksCovered
    <2>3. dinode[i].nlink \in Nat  BY <1>1 DEF IInv, Types, Inode
    <2>. QED  BY <2>1, <2>2, <2>3
  <1>4. dinode[i].type # "free"  BY <1>1, <1>3 DEF IInv, InodeKinds
  <1>5. \A q \in Proc : freeing[q] # "idle" => Put(q) # i
    BY <1>3 DEF IInv, Freed, FreeingOK
  <1>6. Loaded(i) = dinode[i]  BY <1>1, <1>5 DEF IInv, Cached, Releases, Loaded
  <1>7. ~Gone(i)  BY <1>3 DEF Gone
  <1>8. \A q \in Proc : pc[q] = "init" => Ip(q) # i  BY <1>3 DEF IInv, Locals, LocalOK, KindOK
  <1>. QED  BY <1>1, <1>3, <1>4, <1>5, <1>6, <1>7, <1>8 DEF i, Steady

LEMMA ClaimFacts ==
  ASSUME IInv, NEW p \in Proc, Claim(p)
  PROVE  Ip(p) \in Inum \ {Root} /\ dinode[Ip(p)].nlink >= 1
  <1>1. Ip(p) \in Inum \ {Root}  BY DEF IInv, Locals, LocalOK, InumOK, HoldsIp, Claim
  <1>2. p \in Claims(Ip(p))  BY DEF Claims, ClaimOn
  <1>3. Cardinality(AllLinks(Ip(p))) \in Nat /\ Cardinality(Claims(Ip(p))) \in Nat
           /\ Cardinality(Claims(Ip(p))) >= 1
    BY <1>1, <1>2, LinkCards DEF IInv
  <1>4. dinode[Ip(p)].nlink >= Cardinality(AllLinks(Ip(p))) + Cardinality(Claims(Ip(p)))
    BY <1>1 DEF IInv, LinksCovered
  <1>5. dinode[Ip(p)].nlink \in Nat  BY <1>1 DEF IInv, Types, Inode
  <1>. QED  BY <1>1, <1>3, <1>4, <1>5

-----------------------------------------------------------------------------
(* Steps of one process                                                        *)

(* The names in a call are as many as the call's walk takes.                   *)
LEMMA CallPathFacts ==
  ASSUME NEW c, NEW q \in CallPaths(c)
  PROVE  /\ c \in {"open", "mkdir", "unlink", "rmdir", "link"} /\ q \in Seq(Name)
         /\ IF c = "link" THEN Head(q) \in Name /\ Tail(q) \in One \cup Two ELSE q \in One \cup Two
         /\ c = "mkdir" => q \in One
  <1>1. Paths(FileName) \subseteq One \cup Two  BY DEF Paths, One, Two, Name
  <1>2. c \in {"open", "mkdir", "unlink", "rmdir", "link"}  BY DEF CallPaths
  <1>3. CASE c \in {"open", "unlink"}
    <2>1. q \in One \cup Two  BY <1>1, <1>3 DEF CallPaths
    <2>. QED  BY <1>3, <2>1, PathFacts
  <1>4. CASE c \in {"mkdir", "rmdir"}
    <2>1. q \in One  BY <1>4 DEF CallPaths, One, Name
    <2>. QED  BY <1>4, <2>1, PathFacts
  <1>5. CASE c = "link"
    <2>0. c \notin {"open", "unlink"} /\ c \notin {"mkdir", "rmdir"}  BY <1>5
    <2>1. PICK n \in FileName, r \in Paths(FileName) : q = <<n>> \o r  BY <1>5, <2>0 DEF CallPaths
    <2>2. r \in One \cup Two /\ n \in Name  BY <1>1, <2>1 DEF Name
    <2>3. r \in Seq(Name)  BY <2>2, PathFacts
    <2>4. Head(q) = n /\ Tail(q) = r /\ q \in Seq(Name)  BY <2>1, <2>2, <2>3
    <2>. QED  BY <1>5, <2>2, <2>4
  <1>. QED  BY <1>2, <1>3, <1>4, <1>5

ActsAlone(p) ==
  \A q \in Proc \ {p} : /\ pc'[q] = pc[q] /\ frame'[q] = frame[q] /\ puts'[q] = puts[q]
                        /\ freeing'[q] = freeing[q] /\ file'[q] = file[q]

LEMMA OthersStay ==
  ASSUME NEW p \in Proc, ActsAlone(p), NEW q \in Proc \ {p}
  PROVE  /\ \A i \in Inum : Count(q, i)' = Count(q, i) /\ (Owns(q, i)' <=> Owns(q, i))
         /\ (HoldsDp(q)' <=> HoldsDp(q)) /\ (HoldsIp(q)' <=> HoldsIp(q))
         /\ (Linked(q)' <=> Linked(q)) /\ (Writes(q)' <=> Writes(q)) /\ (Claim(q)' <=> Claim(q))
         /\ Call(q)' = Call(q) /\ Path(q)' = Path(q) /\ Dp(q)' = Dp(q) /\ Ip(q)' = Ip(q)
         /\ Put(q)' = Put(q)
  BY DEF ActsAlone, Count, Owns, HoldsDp, HoldsIp, Linked, Writes, Claim, Call, Path, Dp, Ip, Put

LEMMA CountTypeNext ==
  (Types => /\ \A p \in Proc, i \in Inum : Count(p, i) \in 0 .. 6
            /\ \A i \in Inum : Counts(i) \in [Proc -> 0 .. 6]
            /\ \A i \in Inum, p \in Proc : Counts(i)[p] = Count(p, i))'
  <1>1. Types => /\ \A p \in Proc, i \in Inum : Count(p, i) \in 0 .. 6
                 /\ \A i \in Inum : Counts(i) \in [Proc -> 0 .. 6]
                 /\ \A i \in Inum, p \in Proc : Counts(i)[p] = Count(p, i)
    BY CountType
  <1>. QED  BY <1>1, PTL

(* iget and iput keep the counts when the holds of their process follow.       *)
LEMMA CountedStep ==
  ASSUME Types, Types', Counted, NEW p \in Proc, ActsAlone(p),
         \A i \in Inum : ref'[i] - ref[i] \in {-1, 0, 1} /\ Count(p, i)' = Count(p, i) + (ref'[i] - ref[i])
  PROVE  Counted'
  <1>1. SUFFICES ASSUME NEW i \in Inum  PROVE ref'[i] = Cardinality(Numbered(Counts(i)'))
    BY DEF Counted, Numbered
  <1>. DEFINE C == Counts(i)
              k == ref'[i] - ref[i]
  <1>2. C \in [Proc -> 0 .. 6] /\ \A q \in Proc : C[q] = Count(q, i)  BY CountType
  <1>3. C' \in [Proc -> 0 .. 6] /\ \A q \in Proc : C'[q] = Count(q, i)'  BY CountTypeNext
  <1>4. \A q \in Proc \ {p} : C'[q] = C[q]  BY <1>2, <1>3, OthersStay
  <1>5. k \in {-1, 0, 1} /\ C'[p] = C[p] + k  BY <1>2, <1>3
  <1>6. ref[i] = Cardinality(Numbered(C))  BY DEF Counted
  <1>7. ref[i] \in Nat /\ ref'[i] \in Nat  BY DEF Types
  <1>8. Cardinality(Numbered(C')) = Cardinality(Numbered(C)) + k
    <2>. HIDE DEF C, k
    <2>. QED  BY <1>2, <1>3, <1>4, <1>5, NumberedStep
  <1>. QED  BY <1>6, <1>7, <1>8

(* The owner alone sets and clears I_BUSY.                                     *)
LEMMA LockedStep ==
  ASSUME Locked, NEW p \in Proc, ActsAlone(p), busy \in [Inum -> BOOLEAN], busy' \in [Inum -> BOOLEAN],
         \A i \in Inum : \/ busy'[i] = busy[i] /\ (Owns(p, i)' <=> Owns(p, i))
                         \/ ~busy[i] /\ busy'[i] /\ Owns(p, i)'
                         \/ Owns(p, i) /\ ~busy'[i] /\ ~Owns(p, i)'
  PROVE  Locked'
  <1>1. \A q \in Proc, i \in Inum : q # p => (Owns(q, i)' <=> Owns(q, i))  BY OthersStay
  <1>2. ASSUME NEW i \in Inum  PROVE busy'[i] <=> \E q \in Proc : Owns(q, i)'
    BY <1>1 DEF Locked
  <1>3. ASSUME NEW i \in Inum, NEW q \in Proc, NEW r \in Proc, Owns(q, i)', Owns(r, i)'  PROVE q = r
    BY <1>1, <1>3 DEF Locked
  <1>. QED  BY <1>2, <1>3 DEF Locked

(* The inodes a step may change: nobody else is in the middle of something     *)
(* with them.                                                                  *)
Safe(p, i) ==
  /\ dinode[i].type # "free" /\ ref[i] > 0
  /\ \A q \in Proc : freeing[q] # "idle" => Put(q) # i
  /\ \A q \in Proc \ {p} : ~Owns(q, i) /\ (pc[q] = "init" => Ip(q) # i)

LEMMA UserSafe ==
  ASSUME IInv, NEW p \in Proc, NEW i \in Inum, Uses(p, i), ~busy[i] \/ Owns(p, i)
  PROVE  Safe(p, i)
  <1>1. Steady(i)  BY UsesSteady
  <1>2. Count(p, i) >= 1 /\ ref[i] \in Nat /\ ref[i] >= 1  BY PutCounts, HoldFacts DEF IInv, Types
  <1>3. \A q \in Proc \ {p} : ~Owns(q, i)  BY DEF IInv, Locked
  <1>. QED  BY <1>1, <1>2, <1>3 DEF Steady, Safe

LEMMA InitSafe ==
  ASSUME IInv, NEW p \in Proc, pc[p] = "init", ~busy[Ip(p)]
  PROVE  Safe(p, Ip(p)) /\ Ip(p) \in Inum /\ Loaded(Ip(p)) = dinode[Ip(p)]
  <1>1. Ip(p) \in Inum  BY DEF IInv, Locals, LocalOK, InumOK, HoldsIp
  <1>2. \A q \in Proc : ~Owns(q, Ip(p))  BY <1>1 DEF IInv, Locked
  <1>3. \A q \in Proc : freeing[q] # "idle" => Put(q) # Ip(p)  BY <1>2 DEF Owns
  <1>4. ref[Ip(p)] = 1  BY <1>3 DEF IInv, Freed, FreshOK, Releases
  <1>5. ASSUME NEW q \in Proc \ {p}, pc[q] = "init", Ip(q) = Ip(p)  PROVE FALSE
    <2>1. Count(p, Ip(p)) >= 1 /\ Count(q, Ip(p)) >= 1  BY <1>5, PutCounts DEF IInv
    <2>2. ref[Ip(p)] >= 2  BY <1>1, <2>1, HoldFacts DEF IInv
    <2>. QED  BY <1>4, <2>2
  <1>6. dinode[Ip(p)].type # "free"  BY DEF IInv, Locals, LocalOK, KindOK
  <1>7. Loaded(Ip(p)) = dinode[Ip(p)]  BY <1>1, <1>3 DEF IInv, Cached, Releases, Loaded
  <1>. QED  BY <1>1, <1>2, <1>3, <1>4, <1>5, <1>6, <1>7 DEF Safe

(* What a step that frees and allocates nothing has to keep.                   *)
RefsQuiet(p) ==
  \A i \in Inum : \/ ref'[i] = ref[i] /\ Count(p, i)' = Count(p, i)
                  \/ ref'[i] = ref[i] + 1 /\ Count(p, i)' = Count(p, i) + 1 /\ Steady(i)
LocksQuiet(p) ==
  \A i \in Inum : \/ busy'[i] = busy[i] /\ (Owns(p, i)' <=> Owns(p, i))
                  \/ ~busy[i] /\ busy'[i] /\ Owns(p, i)'
                  \/ Owns(p, i) /\ ~busy'[i] /\ ~Owns(p, i)'
InodesQuiet(p) ==
  \A i \in Inum : \/ valid'[i] = valid[i] /\ inode'[i] = inode[i] /\ dinode'[i] = dinode[i]
                  \/ /\ valid'[i] /\ inode'[i] = dinode'[i] /\ dinode'[i].type = dinode[i].type
                     /\ dinode'[i].addrs = dinode[i].addrs \/ dinode[i].type = "file"
                     /\ Safe(p, i)
Quiet(p) ==
  /\ ActsAlone(p) /\ freeing' = freeing /\ freeing[p] = "idle" /\ crashes' = crashes
  /\ pc'[p] # "init" /\ (pc[p] = "init" => Safe(p, Ip(p)) /\ valid'[Ip(p)])
  /\ RefsQuiet(p) /\ LocksQuiet(p) /\ InodesQuiet(p)
  /\ \A d \in Inum : dent'[d] = dent[d] \/ \A q \in Proc \ {p} : ~Owns(q, d)
  /\ \A q \in Proc : freeing[q] = "bfree" => full' \cap dinode[Put(q)].addrs = {}

LEMMA QuietStep ==
  ASSUME IInv, Types', NEW p \in Proc, Quiet(p), LocalOK(p)'
  PROVE  /\ Locals' /\ Counted' /\ Locked' /\ Cached' /\ Freed' /\ InodeKinds' /\ Reclaimed'
         /\ \A i \in Inum : Gone(i) => Gone(i)' /\ dinode'[i] = dinode[i]
  <1>. USE DEF IInv, Quiet, RefsQuiet, LocksQuiet, InodesQuiet
  <1>1. ActsAlone(p) /\ \A i \in Inum : ref[i] \in Nat /\ ref'[i] \in Nat  BY DEF Types
  <1>2. Counted'
    <2>1. \A i \in Inum : /\ ref'[i] - ref[i] \in {-1, 0, 1}
                          /\ Count(p, i)' = Count(p, i) + (ref'[i] - ref[i])
      <3>1. \A i \in Inum : Count(p, i) \in Int  BY CountType
      <3>. QED  BY <1>1, <3>1
    <2>. QED  BY <1>1, <2>1, CountedStep
  <1>3. Locked'
    <2>1. busy \in [Inum -> BOOLEAN] /\ busy' \in [Inum -> BOOLEAN]  BY DEF Types
    <2>. QED  BY <1>1, <2>1, LockedStep
  <1>4. \A i \in Inum : /\ dinode'[i].type = dinode[i].type
                        /\ valid[i] => valid'[i]
                        /\ ref'[i] >= ref[i]
    BY <1>1
  <1>5. Locals'
    <2>1. SUFFICES ASSUME NEW q \in Proc \ {p}  PROVE LocalOK(q)'
      BY DEF Locals
    <2>2. LocalOK(q)  BY DEF Locals
    <2>3. /\ pc'[q] = pc[q] /\ file'[q] = file[q] /\ puts'[q] = puts[q]
          /\ (HoldsDp(q)' <=> HoldsDp(q)) /\ (HoldsIp(q)' <=> HoldsIp(q))
          /\ (Linked(q)' <=> Linked(q)) /\ (Writes(q)' <=> Writes(q))
          /\ Call(q)' = Call(q) /\ Path(q)' = Path(q) /\ Dp(q)' = Dp(q) /\ Ip(q)' = Ip(q)
          /\ \A i \in Inum : Owns(q, i)' <=> Owns(q, i)
      BY <1>1, OthersStay DEF ActsAlone
    <2>4. (PathOK(q) /\ CallOK(q) /\ PutsOK(q) /\ InumOK(q))'
      BY <2>2, <2>3 DEF LocalOK, PathOK, CallOK, PutsOK, InumOK, Creates, Unlinks
    <2>5. LoadedOK(q)'
      <3>1. HoldsIp(q) => Ip(q) \in Inum  BY <2>2 DEF LocalOK, InumOK
      <3>2. Linked(q) => HoldsIp(q)  BY DEF HoldsIp
      <3>. QED  BY <1>4, <2>2, <2>3, <3>1, <3>2 DEF LocalOK, LoadedOK
    <2>6. KindOK(q)'
      <3>1. /\ HoldsIp(q) => Ip(q) \in Inum /\ dinode'[Ip(q)].type = dinode[Ip(q)].type
            /\ file[q] # NoInum => dinode'[file[q]].type = dinode[file[q]].type
        BY <1>4, <2>2 DEF LocalOK, InumOK, Types
      <3>2. pc[q] = "init" => dinode'[Ip(q)] = dinode[Ip(q)]
        <4>1. pc[q] = "init" => Ip(q) \in Inum  BY <3>1 DEF HoldsIp
        <4>. QED  BY <4>1 DEF Safe
      <3>3. Writes(q) => dinode'[file[q]] = dinode[file[q]]
        <4>1. Writes(q) => file[q] \in Inum /\ Owns(q, file[q])  BY <2>2 DEF LocalOK, InumOK, Owns
        <4>. QED  BY <4>1 DEF Safe
      <3>4. /\ pc[q] \in {"init", "dotdot", "dirlink", "made", "erased"} => HoldsIp(q)
            /\ Linked(q) => HoldsIp(q)
        BY DEF HoldsIp
      <3>. QED  BY <2>2, <2>3, <3>1, <3>2, <3>3, <3>4 DEF LocalOK, KindOK
    <2>7. SlotOK(q)'
      <3>1. pc[q] \in {"ialloc", "init", "dotdot", "dirlink", "victim"} =>
              Dp(q) \in Inum /\ Owns(q, Dp(q))
        BY <2>2 DEF LocalOK, InumOK, HoldsDp, Owns
      <3>2. pc[q] \in {"ialloc", "init", "dotdot", "dirlink", "victim"} => dent'[Dp(q)] = dent[Dp(q)]
        BY <3>1
      <3>. QED  BY <2>2, <2>3, <3>2 DEF LocalOK, SlotOK, Entry
    <2>. QED  BY <2>4, <2>5, <2>6, <2>7 DEF LocalOK
  <1>6. \A q \in Proc : freeing[q] # "idle" => q # p /\ Put(q)' = Put(q) /\ Put(q) \in Inum
    <2>1. \A q \in Proc : freeing[q] # "idle" => q # p /\ puts[q] # <<>>
      BY DEF Locals, LocalOK, PutsOK
    <2>. QED  BY <1>1, <2>1, OthersStay, PutCounts
  <1>7. \A q \in Proc, i \in Inum : Releases(q, i)' <=> Releases(q, i)
    BY <1>6 DEF Releases
  <1>8. Cached'
    <2>1. ASSUME NEW i \in Inum, valid'[i]  PROVE ref'[i] > 0
      BY <1>1, <1>4, <2>1 DEF Cached, Safe
    <2>2. ASSUME NEW i \in Inum, valid'[i], inode'[i] # dinode'[i]  PROVE \E q \in Proc : Releases(q, i)'
      BY <1>7, <2>2 DEF Cached
    <2>3. ASSUME NEW i \in Inum, dinode'[i].type = "free"
          PROVE  ref'[i] = 0 \/ \E q \in Proc : Releases(q, i)'
      <3>1. ref'[i] = ref[i]  BY <1>4, <2>3 DEF Steady
      <3>. QED  BY <1>4, <1>7, <2>3, <3>1 DEF Cached
    <2>. QED  BY <2>1, <2>2, <2>3 DEF Cached
  <1>9. Freed'
    <2>1. \A q \in Proc : pc[q] = "init" => HoldsIp(q)  BY DEF HoldsIp
    <2>2. \A q \in Proc : pc[q] = "init" => Ip(q) \in Inum  BY <2>1 DEF Locals, LocalOK, InumOK
    <2>3. ASSUME NEW q \in Proc  PROVE FreshOK(q)'
      <3>1. SUFFICES ASSUME pc'[q] = "init"
                     PROVE ref'[Ip(q)'] = 1 \/ (ref'[Ip(q)'] = 2 /\ \E r \in Proc : Releases(r, Ip(q))')
        BY DEF FreshOK
      <3>2. q # p /\ pc[q] = "init" /\ Ip(q)' = Ip(q) /\ Ip(q) \in Inum
        BY <1>1, <2>2, <3>1, OthersStay DEF ActsAlone
      <3>3. ref'[Ip(q)] = ref[Ip(q)]  BY <3>2 DEF Steady
      <3>4. ref[Ip(q)] = 1 \/ (ref[Ip(q)] = 2 /\ \E r \in Proc : Releases(r, Ip(q)))
        BY <3>2 DEF Freed, FreshOK
      <3>5. \A r \in Proc : Releases(r, Ip(q)) => Releases(r, Ip(q))'
        BY <1>6, <3>2 DEF Releases
      <3>. QED  BY <3>2, <3>3, <3>4, <3>5
    <2>4. ASSUME NEW q \in Proc  PROVE FreeingOK(q)'
      <3>1. SUFFICES ASSUME freeing[q] # "idle"  PROVE FreeingOK(q)'
        BY DEF FreeingOK
      <3>2. Put(q)' = Put(q) /\ Put(q) \in Inum /\ freeing'[q] = freeing[q]  BY <1>6, <3>1
      <3>3. ref'[Put(q)] = ref[Put(q)]  BY <3>1, <3>2 DEF Steady
      <3>4. dinode'[Put(q)] = dinode[Put(q)]  BY <3>1, <3>2 DEF Safe
      <3>5. FreeingOK(q)  BY DEF Freed
      <3>6. ASSUME freeing[q] = "flags", ref[Put(q)] = 2, NEW r \in Proc, pc[r] = "init", Ip(r) = Put(q)
            PROVE  r # p
        BY <3>1, <3>6 DEF Safe
      <3>. QED  BY <1>1, <3>1, <3>2, <3>3, <3>4, <3>5, <3>6, OthersStay DEF FreeingOK, ActsAlone
    <2>. QED  BY <2>3, <2>4 DEF Freed
  <1>10. InodeKinds'
    <2>1. Root \in Inum  BY InumAssumption DEF Root, Inum
    <2>. QED  BY <1>4, <2>1 DEF InodeKinds, Safe
  <1>11. Reclaimed'
    <2>1. SUFFICES ASSUME crashes = 0, NEW i \in Inum, dinode'[i].type # "free", dinode'[i].nlink = 0
                   PROVE  \/ \E q \in Proc : pc'[q] = "init" /\ Ip(q)' = i
                          \/ ref'[i] > 0 /\ valid'[i]
      BY DEF Reclaimed
    <2>2. CASE dinode'[i] # dinode[i] \/ valid'[i] # valid[i]
      BY <1>1, <1>4, <2>2 DEF Safe
    <2>3. CASE dinode'[i] = dinode[i] /\ valid'[i] = valid[i]
      <3>1. CASE ref[i] > 0 /\ valid[i]  BY <1>1, <1>4, <2>3, <3>1
      <3>2. CASE \E q \in Proc : pc[q] = "init" /\ Ip(q) = i
        <4>1. PICK q \in Proc : pc[q] = "init" /\ Ip(q) = i  BY <3>2
        <4>2. CASE q = p  BY <1>1, <1>4, <4>1, <4>2 DEF Safe
        <4>3. CASE q # p  BY <1>1, <4>1, <4>3, OthersStay DEF ActsAlone
        <4>. QED  BY <4>2, <4>3
      <3>. QED  BY <2>1, <2>3, <3>1, <3>2 DEF Reclaimed
    <2>. QED  BY <2>2, <2>3
  <1>12. ASSUME NEW i \in Inum, Gone(i)  PROVE Gone(i)' /\ dinode'[i] = dinode[i]
    <2>1. ref'[i] = ref[i]  BY <1>12 DEF Steady
    <2>2. dinode'[i] = dinode[i]
      <3>1. ~Safe(p, i)  BY <1>12 DEF Safe, Gone
      <3>. QED  BY <3>1
    <2>3. \A q \in Proc : freeing[q] = "trunc" => freeing'[q] = "trunc" /\ Put(q)' = Put(q)
      BY <1>6
    <2>. QED  BY <1>12, <2>1, <2>2, <2>3 DEF Gone
  <1>. QED  BY <1>2, <1>3, <1>5, <1>8, <1>9, <1>10, <1>11, <1>12

-----------------------------------------------------------------------------
(* How the entries and the calls that cover a link count change                *)

LEMMA OneElement ==
  ASSUME NEW S, NEW T, IsFiniteSet(S), IsFiniteSet(T), NEW x, \A y : y # x => (y \in S <=> y \in T)
  PROVE  Cardinality(T) = Cardinality(S) + CountIf(x \in T) - CountIf(x \in S)
  <1>1. Cardinality(S) \in Nat /\ Cardinality(T) \in Nat  BY FS_CardinalityType
  <1>2. CASE (x \in S) <=> (x \in T)
    <2>1. S = T  BY <1>2
    <2>. QED  BY <1>1, <2>1 DEF CountIf
  <1>3. CASE x \in T /\ x \notin S
    <2>1. T = S \cup {x}  BY <1>3
    <2>2. Cardinality(T) = Cardinality(S) + 1  BY <1>3, <2>1, FS_AddElement
    <2>. QED  BY <1>1, <1>3, <2>2 DEF CountIf
  <1>4. CASE x \in S /\ x \notin T
    <2>1. S = T \cup {x}  BY <1>4
    <2>2. Cardinality(S) = Cardinality(T) + 1  BY <1>4, <2>1, FS_AddElement
    <2>. QED  BY <1>1, <1>4, <2>2 DEF CountIf
  <1>. QED  BY <1>2, <1>3, <1>4

FiniteLinks == \A i : IsFiniteSet(AllLinks(i)) /\ IsFiniteSet(Claims(i))
FiniteDirs == IsFiniteSet(Subdirs) /\ IsFiniteSet(DirClaims)

LEMMA LinksFinite == FiniteLinks /\ FiniteDirs
  <1>1. IsFiniteSet(Inum \X Name)
    <2>1. 1 \in Int /\ NINODES \in Int  BY InumAssumption
    <2>2. IsFiniteSet(Inum)  BY <2>1, FS_Interval DEF Inum
    <2>. QED  BY <2>2, NameAssumption, FS_Product
  <1>2. \A i : AllLinks(i) \in SUBSET (Inum \X Name) /\ Claims(i) \in SUBSET Proc
    BY DEF AllLinks, Claims
  <1>3. Subdirs \in SUBSET Name /\ DirClaims \in SUBSET Proc  BY DEF Subdirs, DirClaims
  <1>4. FiniteLinks
    <2>1. ASSUME NEW i  PROVE IsFiniteSet(AllLinks(i)) /\ IsFiniteSet(Claims(i))
      BY <1>1, <1>2, ProcAssumption, FS_Subset
    <2>. QED  BY <2>1 DEF FiniteLinks
  <1>5. FiniteDirs  BY <1>3, ProcAssumption, NameAssumption, FS_Subset DEF FiniteDirs
  <1>. QED  BY <1>4, <1>5

LEMMA LinksFiniteNext == (FiniteLinks /\ FiniteDirs)'
  BY LinksFinite, PTL

SameTypes == \A i \in Inum : dinode'[i].type = dinode[i].type

LEMMA ClaimsStep ==
  ASSUME IInv, Types', NEW p \in Proc, ActsAlone(p), SameTypes
  PROVE  /\ \A i \in Inum : Cardinality(Claims(i)') =
               Cardinality(Claims(i)) + CountIf(ClaimOn(p, i)') - CountIf(ClaimOn(p, i))
         /\ Cardinality(DirClaims') =
               Cardinality(DirClaims) + CountIf(DirClaim(p)') - CountIf(DirClaim(p))
  <1>1. ASSUME NEW i \in Inum
        PROVE  Cardinality(Claims(i)') =
                 Cardinality(Claims(i)) + CountIf(ClaimOn(p, i)') - CountIf(ClaimOn(p, i))
    <2>1. IsFiniteSet(Claims(i)) /\ IsFiniteSet(Claims(i)')
      BY LinksFinite, LinksFiniteNext DEF FiniteLinks
    <2>2. \A q : q # p => (q \in Claims(i) <=> q \in Claims(i)')
      BY OthersStay DEF Claims, ClaimOn
    <2>3. (p \in Claims(i) <=> ClaimOn(p, i)) /\ (p \in Claims(i)' <=> ClaimOn(p, i)')  BY DEF Claims
    <2>4. Cardinality(Claims(i)') =
            Cardinality(Claims(i)) + CountIf(p \in Claims(i)') - CountIf(p \in Claims(i))
      <3>. DEFINE S == Claims(i)
                  T == Claims(i)'
      <3>1. IsFiniteSet(S) /\ IsFiniteSet(T) /\ \A y : y # p => (y \in S <=> y \in T)  BY <2>1, <2>2
      <3>. HIDE DEF S, T
      <3>2. Cardinality(T) = Cardinality(S) + CountIf(p \in T) - CountIf(p \in S)  BY <3>1, OneElement
      <3>. QED  BY <3>2 DEF S, T
    <2>. QED  BY <2>3, <2>4 DEF CountIf
  <1>2. Cardinality(DirClaims') =
               Cardinality(DirClaims) + CountIf(DirClaim(p)') - CountIf(DirClaim(p))
    <2>1. IsFiniteSet(DirClaims) /\ IsFiniteSet(DirClaims')
      BY LinksFinite, LinksFiniteNext DEF FiniteDirs
    <2>2. \A q \in Proc : pc[q] = "erased" => Ip(q) \in Inum
      BY DEF IInv, Locals, LocalOK, InumOK, HoldsIp
    <2>3. \A q : q # p => (q \in DirClaims <=> q \in DirClaims')
      BY <2>2, OthersStay DEF DirClaims, DirClaim, ActsAlone, SameTypes
    <2>4. (p \in DirClaims <=> DirClaim(p)) /\ (p \in DirClaims' <=> DirClaim(p)')  BY DEF DirClaims
    <2>5. Cardinality(DirClaims') =
            Cardinality(DirClaims) + CountIf(p \in DirClaims') - CountIf(p \in DirClaims)
      <3>. DEFINE S == DirClaims
                  T == DirClaims'
      <3>1. IsFiniteSet(S) /\ IsFiniteSet(T) /\ \A y : y # p => (y \in S <=> y \in T)  BY <2>1, <2>3
      <3>. HIDE DEF S, T
      <3>2. Cardinality(T) = Cardinality(S) + CountIf(p \in T) - CountIf(p \in S)  BY <3>1, OneElement
      <3>. QED  BY <3>2 DEF S, T
    <2>. QED  BY <2>4, <2>5 DEF CountIf
  <1>. QED  BY <1>1, <1>2

LEMMA EntryStep ==
  ASSUME IInv, NEW d \in Inum, NEW n \in Name, NEW j \in Inum \cup {NoInum},
         dent' = [dent EXCEPT ![d][n] = j], SameTypes
  PROVE  /\ \A i \in Inum : Cardinality(AllLinks(i)') =
               Cardinality(AllLinks(i)) + CountIf(j = i) - CountIf(dent[d][n] = i)
         /\ Cardinality(Subdirs') =
               Cardinality(Subdirs) + CountIf(d = Root /\ IsDir(j)) - CountIf(d = Root /\ IsDir(dent[d][n]))
  <1>1. \A e \in Inum, m \in Name :
          dent'[e][m] = IF e = d /\ m = n THEN j ELSE dent[e][m]
    BY DEF IInv, Types
  <1>2. ASSUME NEW i \in Inum
        PROVE  Cardinality(AllLinks(i)') =
                 Cardinality(AllLinks(i)) + CountIf(j = i) - CountIf(dent[d][n] = i)
    <2>. DEFINE S == AllLinks(i)
                T == AllLinks(i)'
    <2>1. IsFiniteSet(S) /\ IsFiniteSet(T)
      BY LinksFinite, LinksFiniteNext DEF FiniteLinks
    <2>2. \A y : y # <<d, n>> => (y \in S <=> y \in T)
      <3>1. \A y \in Inum \X Name : y = <<y[1], y[2]>>  OBVIOUS
      <3>2. \A y \in Inum \X Name : y # <<d, n>> => ~(y[1] = d /\ y[2] = n)  BY <3>1
      <3>. QED  BY <1>1, <3>2 DEF AllLinks
    <2>3. (<<d, n>> \in S <=> dent[d][n] = i) /\ (<<d, n>> \in T <=> j = i)
      BY <1>1 DEF AllLinks
    <2>. HIDE DEF S, T
    <2>4. Cardinality(T) = Cardinality(S) + CountIf(<<d, n>> \in T) - CountIf(<<d, n>> \in S)
      BY <2>1, <2>2, OneElement
    <2>. QED  BY <2>3, <2>4 DEF CountIf, S, T
  <1>3. Cardinality(Subdirs') =
          Cardinality(Subdirs) + CountIf(d = Root /\ IsDir(j)) - CountIf(d = Root /\ IsDir(dent[d][n]))
    <2>. DEFINE S == Subdirs
                T == Subdirs'
    <2>0. Root \in Inum  BY InumAssumption DEF Root, Inum
    <2>1. IsFiniteSet(S) /\ IsFiniteSet(T)  BY LinksFinite, LinksFiniteNext DEF FiniteDirs
    <2>2. \A i \in Inum \cup {NoInum} : IsDir(i)' <=> IsDir(i)  BY DEF IsDir, SameTypes
    <2>9. \A e \in Inum, m \in Name : dent'[e][m] \in Inum \cup {NoInum}
      BY <1>1 DEF IInv, Types
    <2>3. \A m : m \in T <=> m \in Name /\ IsDir(dent'[Root][m])
      <3>1. \A m : m \in T <=> m \in Name /\ dent'[Root][m] # NoInum /\ dinode'[dent'[Root][m]].type = "dir"
        BY DEF Subdirs, IsDir
      <3>. QED  BY <2>0, <2>9, <3>1 DEF IsDir, SameTypes
    <2>4. \A m : m # n => (m \in S <=> m \in T)
      BY <1>1, <2>0, <2>3 DEF Subdirs
    <2>5. d = Root => (n \in S <=> IsDir(dent[d][n])) /\ (n \in T <=> IsDir(j))
      BY <1>1, <2>0, <2>3 DEF Subdirs
    <2>6. d # Root => (n \in S <=> n \in T)
      BY <1>1, <2>0, <2>3 DEF Subdirs
    <2>7. Cardinality(S) \in Nat  BY <2>1, FS_CardinalityType
    <2>. HIDE DEF S, T
    <2>8. Cardinality(T) = Cardinality(S) + CountIf(n \in T) - CountIf(n \in S)
      BY <2>1, <2>4, OneElement
    <2>. QED  BY <2>5, <2>6, <2>7, <2>8 DEF CountIf, S, T
  <1>. QED  BY <1>2, <1>3

(* The link counts stay above what they cover when nobody takes a link that    *)
(* was not counted.                                                            *)
LEMMA CoveredStep ==
  ASSUME IInv, Types', NEW p \in Proc, ActsAlone(p), SameTypes,
         NEW d \in Inum, NEW n \in Name, NEW j \in Inum \cup {NoInum},
         dent' = [dent EXCEPT ![d][n] = j], j # Root, IsDir(j) => d = Root,
         \A i \in Inum :
            dinode'[i].nlink >= dinode[i].nlink + (CountIf(j = i) - CountIf(dent[d][n] = i))
                                  + (CountIf(ClaimOn(p, i)') - CountIf(ClaimOn(p, i))),
         dinode'[Root].nlink >= dinode[Root].nlink
            + (CountIf(d = Root /\ IsDir(j)) - CountIf(d = Root /\ IsDir(dent[d][n])))
            + (CountIf(DirClaim(p)') - CountIf(DirClaim(p)))
  PROVE  LinksCovered' /\ RootCovered' /\ EntryKinds'
  <1>0. Root \in Inum  BY InumAssumption DEF Root, Inum
  <1>1. \A i \in Inum : dinode[i].nlink \in Nat /\ dinode'[i].nlink \in Nat  BY DEF IInv, Types, Inode
  <1>2. \A b : CountIf(b) \in {0, 1}  BY DEF CountIf
  <1>3. ASSUME NEW i \in Inum
        PROVE  dinode'[i].nlink >= Cardinality(AllLinks(i)') + Cardinality(Claims(i)')
    <2>1. Cardinality(AllLinks(i)') = Cardinality(AllLinks(i)) + CountIf(j = i) - CountIf(dent[d][n] = i)
      <3>1. \A k \in Inum : Cardinality(AllLinks(k)') =
               Cardinality(AllLinks(k)) + CountIf(j = k) - CountIf(dent[d][n] = k)
        BY EntryStep, ZenonT(60) DEF CountIf
      <3>. QED  BY <3>1
    <2>2. Cardinality(Claims(i)') = Cardinality(Claims(i)) + CountIf(ClaimOn(p, i)') - CountIf(ClaimOn(p, i))
      BY ClaimsStep
    <2>3. Cardinality(AllLinks(i)) \in Nat /\ Cardinality(Claims(i)) \in Nat
      BY LinkCards DEF IInv
    <2>4. dinode[i].nlink >= Cardinality(AllLinks(i)) + Cardinality(Claims(i))
      BY DEF IInv, LinksCovered
    <2>5. dinode'[i].nlink >= dinode[i].nlink + (CountIf(j = i) - CountIf(dent[d][n] = i))
                                  + (CountIf(ClaimOn(p, i)') - CountIf(ClaimOn(p, i)))
      OBVIOUS
    <2>. QED  BY <1>1, <1>2, <2>1, <2>2, <2>3, <2>4, <2>5
  <1>4. RootCovered'
    <2>1. Cardinality(Subdirs') =
            Cardinality(Subdirs) + CountIf(d = Root /\ IsDir(j)) - CountIf(d = Root /\ IsDir(dent[d][n]))
      BY EntryStep
    <2>2. Cardinality(DirClaims') = Cardinality(DirClaims) + CountIf(DirClaim(p)') - CountIf(DirClaim(p))
      BY ClaimsStep
    <2>3. Cardinality(Subdirs) \in Nat /\ Cardinality(DirClaims) \in Nat
      BY LinksFinite, FS_CardinalityType DEF FiniteDirs
    <2>4. dinode[Root].nlink >= 1 + Cardinality(Subdirs) + Cardinality(DirClaims)
      BY DEF IInv, RootCovered
    <2>. QED  BY <1>0, <1>1, <1>2, <2>1, <2>2, <2>3, <2>4 DEF RootCovered
  <1>5. EntryKinds'
    <2>1. \A e \in Inum, m \in Name : dent'[e][m] = IF e = d /\ m = n THEN j ELSE dent[e][m]
      BY DEF IInv, Types
    <2>. QED  BY <2>1, NoInumAssumption DEF IInv, EntryKinds, SameTypes, IsDir
  <1>. QED  BY <1>3, <1>4, <1>5 DEF LinksCovered

LEMMA CoveredKept ==
  ASSUME IInv, Types', NEW p \in Proc, ActsAlone(p), SameTypes, dent' = dent,
         \A i \in Inum :
            \/ dinode'[i].nlink >= dinode[i].nlink + (CountIf(ClaimOn(p, i)') - CountIf(ClaimOn(p, i)))
            \/ i = Root /\ ~ClaimOn(p, i)',
         dinode'[Root].nlink >= dinode[Root].nlink + (CountIf(DirClaim(p)') - CountIf(DirClaim(p)))
  PROVE  LinksCovered' /\ RootCovered' /\ EntryKinds'
  <1>0. Root \in Inum  BY InumAssumption DEF Root, Inum
  <1>1. \A i \in Inum : dinode[i].nlink \in Nat /\ dinode'[i].nlink \in Nat  BY DEF IInv, Types, Inode
  <1>2. \A b : CountIf(b) \in {0, 1}  BY DEF CountIf
  <1>6. ASSUME NEW i \in Inum,
               dinode'[i].nlink >= dinode[i].nlink + (CountIf(ClaimOn(p, i)') - CountIf(ClaimOn(p, i)))
        PROVE  dinode'[i].nlink >= Cardinality(AllLinks(i)') + Cardinality(Claims(i)')
    <2>1. AllLinks(i)' = AllLinks(i)  BY DEF AllLinks
    <2>2. Cardinality(Claims(i)') = Cardinality(Claims(i)) + CountIf(ClaimOn(p, i)') - CountIf(ClaimOn(p, i))
      BY ClaimsStep
    <2>3. Cardinality(AllLinks(i)) \in Nat /\ Cardinality(Claims(i)) \in Nat
      BY LinkCards DEF IInv
    <2>4. dinode[i].nlink >= Cardinality(AllLinks(i)) + Cardinality(Claims(i))
      BY DEF IInv, LinksCovered
    <2>. QED  BY <1>1, <1>2, <1>6, <2>1, <2>2, <2>3, <2>4
  <1>7. ASSUME ~ClaimOn(p, Root)'
        PROVE  dinode'[Root].nlink >= Cardinality(AllLinks(Root)') + Cardinality(Claims(Root)')
    <2>1. AllLinks(Root)' = {}  BY <1>0 DEF AllLinks, IInv, EntryKinds
    <2>2. \A q \in Proc : ~ClaimOn(q, Root)
      BY ClaimFacts DEF ClaimOn
    <2>3. \A q \in Proc : ~ClaimOn(q, Root)'
      BY <1>7, <2>2, OthersStay DEF ClaimOn
    <2>4. Claims(Root)' = {}  BY <2>3 DEF Claims
    <2>5. Cardinality(AllLinks(Root)') = 0 /\ Cardinality(Claims(Root)') = 0
      BY <2>1, <2>4, FS_EmptySet
    <2>. QED  BY <1>0, <1>1, <2>5
  <1>3. \A i \in Inum : dinode'[i].nlink >= Cardinality(AllLinks(i)') + Cardinality(Claims(i)')
    BY <1>6, <1>7
  <1>4. RootCovered'
    <2>1. Subdirs' = Subdirs  BY <1>0 DEF Subdirs, IsDir, SameTypes, IInv, Types
    <2>2. Cardinality(DirClaims') = Cardinality(DirClaims) + CountIf(DirClaim(p)') - CountIf(DirClaim(p))
      BY ClaimsStep
    <2>3. Cardinality(Subdirs) \in Nat /\ Cardinality(DirClaims) \in Nat
      BY LinksFinite, FS_CardinalityType DEF FiniteDirs
    <2>4. dinode[Root].nlink >= 1 + Cardinality(Subdirs) + Cardinality(DirClaims)
      BY DEF IInv, RootCovered
    <2>. QED  BY <1>0, <1>1, <1>2, <2>1, <2>2, <2>3, <2>4 DEF RootCovered
  <1>5. EntryKinds'  BY DEF IInv, EntryKinds, SameTypes
  <1>. QED  BY <1>3, <1>4, <1>5 DEF LinksCovered

(* Blocks stay owned when no inode gets another block and no bit is cleared.   *)
LEMMA BlocksKept ==
  ASSUME IInv, NEW p \in Proc, ActsAlone(p), \A i \in Inum : Gone(i) => Gone(i)',
         \A i \in Inum : dinode'[i].addrs = dinode[i].addrs,
         used \subseteq used', full' \subseteq used',
         Writes(p)' => Writes(p) /\ frame'[p].new = frame[p].new
  PROVE  BlocksOwned' /\ NewOwned'
  <1>1. \A q \in Proc : Writes(q)' => Writes(q) /\ frame'[q].new = frame[q].new
    BY OthersStay DEF ActsAlone
  <1>2. BlocksOwned'  BY DEF IInv, BlocksOwned
  <1>3. NewOwned'  BY <1>1 DEF IInv, NewOwned
  <1>. QED  BY <1>2, <1>3

-----------------------------------------------------------------------------
(* The parts of a step                                                         *)

Moves(p, l, f, s, h) ==
  /\ pc' = [pc EXCEPT ![p] = l] /\ frame' = [frame EXCEPT ![p] = f]
  /\ puts' = [puts EXCEPT ![p] = s] /\ file' = [file EXCEPT ![p] = h]

ProcTypes ==
  /\ pc \in [Proc -> Pcs] /\ frame \in [Proc -> Frames] /\ puts \in [Proc -> PutLists]
  /\ file \in [Proc -> Inum \cup {NoInum}]

LEMMA MovesFacts ==
  ASSUME Types, NEW p \in Proc, NEW l \in Pcs, NEW f \in Frames, NEW s \in PutLists,
         NEW h \in Inum \cup {NoInum}, Moves(p, l, f, s, h)
  PROVE  /\ ProcTypes' /\ (freeing' = freeing => ActsAlone(p))
         /\ pc'[p] = l /\ frame'[p] = f /\ puts'[p] = s /\ file'[p] = h
  BY DEF Types, Moves, ProcTypes, ActsAlone

LEMMA SameProc ==
  ASSUME Types, NEW p \in Proc
  PROVE  /\ pc = [pc EXCEPT ![p] = pc[p]] /\ frame = [frame EXCEPT ![p] = frame[p]]
         /\ puts = [puts EXCEPT ![p] = puts[p]] /\ file = [file EXCEPT ![p] = file[p]]
         /\ pc[p] \in Pcs /\ frame[p] \in Frames /\ puts[p] \in PutLists
         /\ file[p] \in Inum \cup {NoInum}
  BY DEF Types

(* The locals of a call, and what a call may do to them.                       *)
FrameIs(g, c, q, d, i, n) ==
  g \in Frames /\ g.call = c /\ g.path = q /\ g.dp = d /\ g.ip = i /\ g.new = n

LEMMA FrameFacts ==
  /\ \A f \in Frames : /\ f.call \in CallNames /\ f.path \in Seq(Name) /\ f.dp \in Inum \cup {NoInum}
                       /\ f.ip \in Inum \cup {NoInum} /\ f.new \in SUBSET Block
  /\ \A f \in Frames, i \in Inum \cup {NoInum} :
       /\ FrameIs([f EXCEPT !.dp = i], f.call, f.path, i, f.ip, f.new)
       /\ FrameIs([f EXCEPT !.ip = i], f.call, f.path, f.dp, i, f.new)
  /\ \A f \in Frames, i \in Inum \cup {NoInum}, q \in Seq(Name) :
       /\ FrameIs([f EXCEPT !.dp = i, !.path = q], f.call, q, i, f.ip, f.new)
       /\ FrameIs([f EXCEPT !.ip = i, !.path = q], f.call, q, f.dp, i, f.new)
  /\ \A f \in Frames, c \in CallNames, q \in Seq(Name) :
       FrameIs([f EXCEPT !.call = c, !.path = q], c, q, f.dp, f.ip, f.new)
  /\ \A f \in Frames, b \in Block :
       FrameIs([f EXCEPT !.call = "write", !.new = {b}], "write", f.path, f.dp, f.ip, {b})
  /\ FrameIs(NoFrame, "none", <<>>, NoInum, NoInum, {})
  <1>1. \A f \in Frames : /\ f.call \in CallNames /\ f.path \in Seq(Name) /\ f.dp \in Inum \cup {NoInum}
                          /\ f.ip \in Inum \cup {NoInum} /\ f.new \in SUBSET Block
    BY DEF Frames
  <1>2. \A f \in Frames, i \in Inum \cup {NoInum} :
          /\ FrameIs([f EXCEPT !.dp = i], f.call, f.path, i, f.ip, f.new)
          /\ FrameIs([f EXCEPT !.ip = i], f.call, f.path, f.dp, i, f.new)
    BY DEF Frames, FrameIs
  <1>3. \A f \in Frames, i \in Inum \cup {NoInum}, q \in Seq(Name) :
          FrameIs([f EXCEPT !.dp = i, !.path = q], f.call, q, i, f.ip, f.new)
    BY DEF Frames, FrameIs
  <1>7. \A f \in Frames, i \in Inum \cup {NoInum}, q \in Seq(Name) :
          FrameIs([f EXCEPT !.ip = i, !.path = q], f.call, q, f.dp, i, f.new)
    BY DEF Frames, FrameIs
  <1>4. \A f \in Frames, c \in CallNames, q \in Seq(Name) :
          FrameIs([f EXCEPT !.call = c, !.path = q], c, q, f.dp, f.ip, f.new)
    BY DEF Frames, FrameIs
  <1>5. \A f \in Frames, b \in Block :
          FrameIs([f EXCEPT !.call = "write", !.new = {b}], "write", f.path, f.dp, f.ip, {b})
    BY DEF Frames, FrameIs, CallNames
  <1>6. FrameIs(NoFrame, "none", <<>>, NoInum, NoInum, {})
    BY DEF NoFrame, Frames, FrameIs, CallNames
  <1>. QED  BY <1>1, <1>2, <1>3, <1>4, <1>5, <1>6, <1>7

OtherTypes ==
  /\ dent \in [Inum -> [Name -> Inum \cup {NoInum}]]
  /\ used \subseteq Block /\ full \subseteq Block
  /\ ref \in [Inum -> Nat] /\ busy \in [Inum -> BOOLEAN]
  /\ freeing \in [Proc -> Freeings] /\ crashes \in 0 .. MaxCrashes

(* How the references of one process add up after a step.                      *)
LEMMA CountAfter ==
  ASSUME Types, ProcTypes', NEW p \in Proc, NEW i \in Inum
  PROVE  /\ Count(p, i) = CountIf(i = Root) + CountIf(HoldsDp(p) /\ Dp(p) = i)
              + CountIf(HoldsIp(p) /\ Ip(p) = i) + CountIf(file[p] = i) + Queued(puts[p], i)
         /\ Count(p, i)' = CountIf(i = Root) + CountIf(HoldsDp(p)' /\ Dp(p)' = i)
              + CountIf(HoldsIp(p)' /\ Ip(p)' = i) + CountIf(file'[p] = i) + Queued(puts'[p], i)
         /\ Queued(puts'[p], i) \in 0 .. 2 /\ Queued(puts[p], i) \in 0 .. 2
  <1>1. puts[p] \in PutLists /\ puts'[p] \in PutLists  BY DEF Types, ProcTypes
  <1>2. Queued(puts'[p], i) \in 0 .. 2 /\ Queued(puts[p], i) \in 0 .. 2  BY <1>1, PutFacts
  <1>3. Count(p, i)' = CountIf(i = Root) + CountIf(HoldsDp(p)' /\ Dp(p)' = i)
              + CountIf(HoldsIp(p)' /\ Ip(p)' = i) + CountIf(file'[p] = i) + Queued(puts'[p], i)
    BY DEF Count
  <1>. QED  BY <1>2, <1>3 DEF Count

(* iget takes a reference to an inode that something else keeps.               *)
LEMMA RefsTake ==
  ASSUME IInv, NEW p \in Proc, NEW j \in Inum, Steady(j), ref' = [ref EXCEPT ![j] = @ + 1],
         \A i \in Inum : Count(p, i)' = Count(p, i) + CountIf(i = j)
  PROVE  RefsQuiet(p)
  <1>0. Types /\ ref \in [Inum -> Nat]  BY DEF IInv, Types
  <1>1. \A i \in Inum : ref[i] \in Nat /\ Count(p, i) \in 0 .. 6  BY <1>0, CountType
  <1>2. \A i \in Inum : ref'[i] = ref[i] + (IF i = j THEN 1 ELSE 0)  BY <1>0
  <1>. QED  BY <1>1, <1>2 DEF RefsQuiet, CountIf

CacheTypes ==
  /\ inode \in [Inum -> Inode] /\ valid \in [Inum -> BOOLEAN]
DiskTypes == dinode \in [Inum -> Inode]

(* ilock and iupdate of an inode that nobody else is in the middle of.         *)
LEMMA LoadQuiet ==
  ASSUME IInv, NEW p \in Proc, NEW i \in Inum, Safe(p, i), Loaded(i) = dinode[i], dinode' = dinode,
         valid' = [valid EXCEPT ![i] = TRUE], inode' = [inode EXCEPT ![i] = Loaded(i)]
  PROVE  InodesQuiet(p) /\ CacheTypes' /\ DiskTypes' /\ SameTypes /\ valid'[i] /\ inode'[i] = dinode[i]
  <1>1. dinode[i] \in Inode /\ inode \in [Inum -> Inode] /\ valid \in [Inum -> BOOLEAN]
        /\ dinode \in [Inum -> Inode]
    BY DEF IInv, Types
  <1>. QED  BY <1>1 DEF InodesQuiet, CacheTypes, DiskTypes, SameTypes

LEMMA UpdateQuiet ==
  ASSUME IInv, NEW p \in Proc, NEW i \in Inum, Safe(p, i), NEW r \in Inode,
         r.type = dinode[i].type, r.addrs = dinode[i].addrs \/ dinode[i].type = "file",
         Iupdate(i, r), valid' = [valid EXCEPT ![i] = TRUE] \/ (valid' = valid /\ valid[i])
  PROVE  /\ InodesQuiet(p) /\ CacheTypes' /\ DiskTypes' /\ SameTypes /\ valid'[i] /\ dinode'[i] = r
         /\ \A j \in Inum \ {i} : dinode'[j] = dinode[j]
  <1>1. inode \in [Inum -> Inode] /\ valid \in [Inum -> BOOLEAN] /\ dinode \in [Inum -> Inode]
    BY DEF IInv, Types
  <1>2. inode' = [inode EXCEPT ![i] = r] /\ dinode' = [dinode EXCEPT ![i] = r]  BY DEF Iupdate
  <1>3. /\ inode' \in [Inum -> Inode] /\ valid' \in [Inum -> BOOLEAN] /\ dinode' \in [Inum -> Inode]
        /\ valid'[i] /\ inode'[i] = r /\ dinode'[i] = r
        /\ \A j \in Inum \ {i} : /\ dinode'[j] = dinode[j] /\ inode'[j] = inode[j]
                                 /\ valid'[j] = valid[j]
    BY <1>1, <1>2
  <1>. QED  BY <1>3 DEF InodesQuiet, CacheTypes, DiskTypes, SameTypes

LEMMA SameInodes ==
  ASSUME IInv, NEW p \in Proc, dinode' = dinode, inode' = inode, valid' = valid
  PROVE  InodesQuiet(p) /\ CacheTypes' /\ DiskTypes' /\ SameTypes
  BY DEF IInv, Types, InodesQuiet, CacheTypes, DiskTypes, SameTypes

(* A call that returns, and one that gives up a link it has counted.           *)
LEMMA Returned ==
  ASSUME Types, NEW p \in Proc, NEW f \in Frames, NEW s \in PutLists,
         NEW h \in Inum \cup {NoInum}, Moves(p, "idle", f, s, h), freeing' = freeing, freeing[p] = "idle",
         h # NoInum => dinode'[h].type = "file"
  PROVE  /\ ProcTypes' /\ ActsAlone(p) /\ pc'[p] = "idle" /\ puts'[p] = s /\ file'[p] = h
         /\ LocalOK(p)' /\ ~HoldsDp(p)' /\ ~HoldsIp(p)' /\ ~Writes(p)' /\ ~DirClaim(p)'
         /\ \A i \in Inum : ~Owns(p, i)' /\ ~ClaimOn(p, i)'
         /\ \A i \in Inum : Count(p, i)' = CountIf(i = Root) + CountIf(h = i) + Queued(s, i)
  <1>1. "idle" \in Pcs  BY DEF Pcs
  <1>2. /\ ProcTypes' /\ ActsAlone(p) /\ pc'[p] = "idle" /\ puts'[p] = s /\ file'[p] = h
    BY <1>1, MovesFacts
  <1>3. /\ ~HoldsDp(p)' /\ ~HoldsIp(p)' /\ ~Writes(p)' /\ ~Claim(p)' /\ ~Linked(p)' /\ ~DirClaim(p)'
    BY <1>2 DEF HoldsDp, HoldsIp, Writes, Claim, Linked, DirClaim
  <1>4. \A i \in Inum : ~Owns(p, i)' /\ ~ClaimOn(p, i)'
    BY <1>2, <1>3 DEF Owns, Writes, ClaimOn
  <1>5. LocalOK(p)'
    BY <1>2, <1>3, <1>4
    DEF LocalOK, PathOK, CallOK, PutsOK, InumOK, LoadedOK, KindOK, SlotOK
  <1>6. ASSUME NEW i \in Inum
        PROVE Count(p, i)' = CountIf(i = Root) + CountIf(h = i) + Queued(s, i)
    BY <1>2, <1>3, CountAfter DEF CountIf
  <1>. QED  BY <1>2, <1>3, <1>4, <1>5, <1>6

LEMMA Failed ==
  ASSUME IInv, NEW p \in Proc, Linked(p), NEW s \in PutLists, NEW h \in Inum \cup {NoInum},
         Moves(p, "bad", frame[p], s, h), h = file[p], freeing' = freeing, freeing[p] = "idle",
         valid'[Ip(p)], SameTypes
  PROVE  /\ ProcTypes' /\ ActsAlone(p) /\ pc'[p] = "bad" /\ puts'[p] = s /\ file'[p] = h
         /\ LocalOK(p)' /\ ~HoldsDp(p)' /\ HoldsIp(p)' /\ ~Writes(p)' /\ ~DirClaim(p)'
         /\ \A i \in Inum : ~Owns(p, i)' /\ (ClaimOn(p, i)' <=> ClaimOn(p, i))
         /\ \A i \in Inum : Count(p, i)' = CountIf(i = Root) + CountIf(Ip(p) = i)
                                             + CountIf(file[p] = i) + Queued(s, i)
  <1>0. Types /\ LocalOK(p)  BY DEF IInv, Locals
  <1>1. "bad" \in Pcs /\ frame[p] \in Frames  BY <1>0 DEF Pcs, Types
  <1>2. /\ ProcTypes' /\ ActsAlone(p) /\ pc'[p] = "bad" /\ frame'[p] = frame[p]
        /\ puts'[p] = s /\ file'[p] = file[p]
    BY <1>0, <1>1, MovesFacts
  <1>3. /\ ~HoldsDp(p)' /\ HoldsIp(p)' /\ ~Writes(p)' /\ Claim(p)' /\ Claim(p) /\ Linked(p)'
        /\ ~DirClaim(p)' /\ Call(p)' = "link" /\ Call(p) = "link" /\ Ip(p)' = Ip(p) /\ HoldsIp(p)
    BY <1>1, <1>2 DEF HoldsDp, HoldsIp, Writes, Claim, Linked, DirClaim, Call, Ip
  <1>4. \A i \in Inum : ~Owns(p, i)' /\ (ClaimOn(p, i)' <=> ClaimOn(p, i))
    BY <1>2, <1>3 DEF Owns, Writes, ClaimOn
  <1>5. LocalOK(p)'
    <2>1. Ip(p) \in Inum \ {Root} /\ dinode'[Ip(p)].type = "file"
      BY <1>0, <1>3 DEF LocalOK, InumOK, KindOK, SameTypes
    <2>2. file[p] # NoInum => dinode'[file[p]].type = "file"
      BY <1>0 DEF LocalOK, KindOK, SameTypes, Types
    <2>. QED
      BY <1>2, <1>3, <1>4, <2>1, <2>2
      DEF LocalOK, PathOK, CallOK, PutsOK, InumOK, LoadedOK, KindOK, SlotOK
  <1>6. ASSUME NEW i \in Inum
        PROVE Count(p, i)' = CountIf(i = Root) + CountIf(Ip(p) = i) + CountIf(file[p] = i) + Queued(s, i)
    BY <1>0, <1>2, <1>3, CountAfter DEF CountIf
  <1>. QED  BY <1>2, <1>3, <1>4, <1>5, <1>6

(* A step that writes no block of the disk.                                    *)
LEMMA LookupStep ==
  ASSUME IInv, Types', NEW p \in Proc, Quiet(p), LocalOK(p)', UNCHANGED diskvars, ~panicked',
         \A i \in Inum : ClaimOn(p, i)' => ClaimOn(p, i), DirClaim(p)' => DirClaim(p), ~Writes(p)'
  PROVE  IInv'
  <1>1. /\ Locals' /\ Counted' /\ Locked' /\ Cached' /\ Freed' /\ InodeKinds' /\ Reclaimed'
        /\ \A i \in Inum : Gone(i) => Gone(i)' /\ dinode'[i] = dinode[i]
    BY QuietStep
  <1>2. ActsAlone(p) /\ SameTypes /\ dent' = dent /\ dinode' = dinode /\ used' = used /\ full' = full
    BY DEF Quiet, SameTypes, diskvars
  <1>3. LinksCovered' /\ RootCovered' /\ EntryKinds'
    <2>1. \A i \in Inum : dinode'[i].nlink
             >= dinode[i].nlink + (CountIf(ClaimOn(p, i)') - CountIf(ClaimOn(p, i)))
      BY <1>2 DEF CountIf, IInv, Types, Inode
    <2>2. dinode'[Root].nlink >= dinode[Root].nlink + (CountIf(DirClaim(p)') - CountIf(DirClaim(p)))
      BY <1>2, InumAssumption DEF CountIf, IInv, Types, Inode, Root, Inum
    <2>. QED  BY <1>2, <2>1, <2>2, CoveredKept
  <1>4. BlocksOwned' /\ NewOwned'
    <2>1. used \subseteq used' /\ full' \subseteq used'  BY <1>2 DEF IInv, BlocksOwned
    <2>. QED  BY <1>1, <1>2, <2>1, BlocksKept
  <1>. QED  BY <1>1, <1>3, <1>4 DEF IInv, NoPanic

LEMMA ReturnStep ==
  ASSUME IInv, NEW p \in Proc, NEW f \in Frames, NEW s \in PutLists, NEW h \in Inum \cup {NoInum},
         Moves(p, "idle", f, s, h), UNCHANGED <<diskvars, ref, freeing, crashes>>, ~panicked',
         freeing[p] = "idle", pc[p] # "init", h # NoInum => dinode[h].type = "file",
         InodesQuiet(p), CacheTypes', busy' \in [Inum -> BOOLEAN],
         \A i \in Inum : IF Owns(p, i) THEN ~busy'[i] ELSE busy'[i] = busy[i],
         \A i \in Inum : Count(p, i) = CountIf(i = Root) + CountIf(h = i) + Queued(s, i)
  PROVE  IInv'
  <1>0. Types /\ diskvars' = diskvars /\ ref' = ref /\ freeing' = freeing /\ crashes' = crashes
        /\ dinode' = dinode
    BY DEF IInv, diskvars
  <1>1. /\ ProcTypes' /\ ActsAlone(p) /\ pc'[p] = "idle"
        /\ LocalOK(p)' /\ ~Writes(p)' /\ ~DirClaim(p)'
        /\ \A i \in Inum : ~Owns(p, i)' /\ ~ClaimOn(p, i)'
        /\ \A i \in Inum : Count(p, i)' = CountIf(i = Root) + CountIf(h = i) + Queued(s, i)
    BY <1>0, Returned
  <1>2. Types'  BY <1>0, <1>1 DEF Types, ProcTypes, CacheTypes, diskvars
  <1>3. RefsQuiet(p)  BY <1>0, <1>1 DEF RefsQuiet
  <1>4. LocksQuiet(p)  BY <1>0, <1>1 DEF LocksQuiet, IInv, Locked
  <1>5. Quiet(p)
    BY <1>0, <1>1, <1>3, <1>4 DEF Quiet, diskvars, IInv, Freed, FreeingOK
  <1>. QED  BY <1>0, <1>1, <1>2, <1>5, LookupStep

LEMMA FailStep ==
  ASSUME IInv, NEW p \in Proc, Linked(p), NEW s \in PutLists,
         Moves(p, "bad", frame[p], s, file[p]), UNCHANGED <<diskvars, ref, busy, freeing, crashes>>,
         ~panicked', freeing[p] = "idle", InodesQuiet(p), CacheTypes',
         \A i \in Inum : valid[i] => valid'[i],
         \A i \in Inum : Count(p, i) = CountIf(i = Root) + CountIf(Ip(p) = i)
                                         + CountIf(file[p] = i) + Queued(s, i)
  PROVE  IInv'
  <1>0. /\ Types /\ diskvars' = diskvars /\ ref' = ref /\ freeing' = freeing /\ crashes' = crashes
        /\ dinode' = dinode /\ busy' = busy /\ file[p] \in Inum \cup {NoInum} /\ SameTypes
    BY DEF IInv, Types, diskvars, SameTypes
  <1>1. valid'[Ip(p)] /\ \A i \in Inum : ~Owns(p, i)
    BY DEF IInv, Locals, LocalOK, LoadedOK, InumOK, HoldsIp, Linked, Owns, Writes
  <1>2. /\ ProcTypes' /\ ActsAlone(p) /\ pc'[p] = "bad"
        /\ LocalOK(p)' /\ ~Writes(p)' /\ ~DirClaim(p)'
        /\ \A i \in Inum : ~Owns(p, i)' /\ (ClaimOn(p, i)' <=> ClaimOn(p, i))
        /\ \A i \in Inum : Count(p, i)' = CountIf(i = Root) + CountIf(Ip(p) = i)
                                           + CountIf(file[p] = i) + Queued(s, i)
    BY <1>0, <1>1, Failed
  <1>3. Types'  BY <1>0, <1>2 DEF Types, ProcTypes, CacheTypes, diskvars
  <1>4. RefsQuiet(p)  BY <1>0, <1>2 DEF RefsQuiet
  <1>5. LocksQuiet(p)  BY <1>0, <1>1, <1>2 DEF LocksQuiet
  <1>6. Quiet(p)
    BY <1>0, <1>2, <1>4, <1>5 DEF Quiet, diskvars, IInv, Freed, FreeingOK, Linked
  <1>. QED  BY <1>0, <1>2, <1>3, <1>6, LookupStep

LEMMA MoveStep ==
  ASSUME IInv, NEW p \in Proc, ProcTypes', ActsAlone(p), UNCHANGED <<diskvars, freeing, crashes>>,
         ~panicked', freeing[p] = "idle", pc[p] # "init", pc'[p] # "init",
         ref' \in [Inum -> Nat], busy' \in [Inum -> BOOLEAN], CacheTypes',
         RefsQuiet(p), LocksQuiet(p), InodesQuiet(p), LocalOK(p)', ~Writes(p)',
         \A i \in Inum : ClaimOn(p, i)' => ClaimOn(p, i), DirClaim(p)' => DirClaim(p)
  PROVE  IInv'
  <1>0. Types /\ diskvars' = diskvars /\ freeing' = freeing /\ crashes' = crashes
    BY DEF IInv
  <1>1. Types'  BY <1>0 DEF Types, ProcTypes, CacheTypes, diskvars
  <1>2. Quiet(p)  BY <1>0 DEF Quiet, diskvars, IInv, Freed, FreeingOK
  <1>. QED  BY <1>0, <1>1, <1>2, LookupStep

(* The owner of a lock, and a process that finds the inode unlocked, see what  *)
(* is on the disk.                                                             *)
LEMMA OwnerFacts ==
  ASSUME IInv, NEW p \in Proc, NEW i \in Inum, Owns(p, i), freeing[p] = "idle"
  PROVE  /\ Uses(p, i) /\ Steady(i) /\ Safe(p, i) /\ busy[i] /\ valid[i] /\ inode[i] = dinode[i]
         /\ dinode[i] \in Inode
  <1>1. Uses(p, i)  BY OwnerUses
  <1>2. Steady(i) /\ Safe(p, i)  BY <1>1, UsesSteady, UserSafe
  <1>3. valid[i] /\ busy[i] /\ dinode[i] \in Inode
    BY DEF IInv, Locals, LocalOK, LoadedOK, Locked, Types
  <1>. QED  BY <1>1, <1>2, <1>3 DEF Steady, Loaded

LEMMA VisitFacts ==
  ASSUME IInv, NEW p \in Proc, NEW i \in Inum, Uses(p, i), ~busy[i]
  PROVE  /\ Steady(i) /\ Safe(p, i) /\ Loaded(i) = dinode[i] /\ dinode[i].type # "free"
         /\ dinode[i] \in Inode /\ \A q \in Proc : ~Owns(q, i)
  <1>1. Steady(i) /\ Safe(p, i)  BY UsesSteady, UserSafe
  <1>. QED  BY <1>1 DEF Steady, IInv, Types, Locked

LEMMA InodeFacts ==
  \A r \in Inode, n \in Nat :
    /\ [r EXCEPT !.nlink = n] \in Inode /\ [r EXCEPT !.nlink = n].type = r.type
    /\ [r EXCEPT !.nlink = n].addrs = r.addrs /\ [r EXCEPT !.nlink = n].nlink = n
    /\ r.nlink \in Nat /\ r.type \in {"free", "file", "dir"}
  BY DEF Inode

(* A step that changes inodes, and one that changes an entry.                  *)
LEMMA UpdateStep ==
  ASSUME IInv, NEW p \in Proc, ProcTypes', ActsAlone(p),
         UNCHANGED <<dent, used, full, ref, freeing, crashes>>, ~panicked', freeing[p] = "idle",
         pc[p] = "init" => Safe(p, Ip(p)) /\ valid'[Ip(p)], pc'[p] # "init",
         busy' \in [Inum -> BOOLEAN], CacheTypes', DiskTypes', LocksQuiet(p), InodesQuiet(p),
         \A i \in Inum : Count(p, i)' = Count(p, i), LocalOK(p)', ~Writes(p)',
         \A i \in Inum : dinode'[i].addrs = dinode[i].addrs,
         \A i \in Inum :
            \/ dinode'[i].nlink >= dinode[i].nlink + (CountIf(ClaimOn(p, i)') - CountIf(ClaimOn(p, i)))
            \/ i = Root /\ ~ClaimOn(p, i)',
         dinode'[Root].nlink >= dinode[Root].nlink + (CountIf(DirClaim(p)') - CountIf(DirClaim(p)))
  PROVE  IInv'
  <1>0. /\ Types /\ ref' = ref /\ used' = used /\ full' = full /\ dent' = dent
        /\ freeing' = freeing /\ crashes' = crashes
    BY DEF IInv
  <1>1. Types'  BY <1>0 DEF Types, ProcTypes, CacheTypes, DiskTypes
  <1>2. Quiet(p)  BY <1>0 DEF Quiet, RefsQuiet, IInv, Freed, FreeingOK
  <1>3. /\ Locals' /\ Counted' /\ Locked' /\ Cached' /\ Freed' /\ InodeKinds' /\ Reclaimed'
        /\ \A i \in Inum : Gone(i) => Gone(i)'
    BY <1>1, <1>2, QuietStep
  <1>4. SameTypes  BY DEF InodesQuiet, SameTypes
  <1>5. LinksCovered' /\ RootCovered' /\ EntryKinds'  BY <1>0, <1>1, <1>4, CoveredKept
  <1>6. BlocksOwned' /\ NewOwned'
    <2>1. used \subseteq used' /\ full' \subseteq used'  BY <1>0 DEF IInv, BlocksOwned
    <2>. QED  BY <1>3, <2>1, BlocksKept
  <1>. QED  BY <1>1, <1>3, <1>5, <1>6 DEF IInv, NoPanic

LEMMA EntryUpdateStep ==
  ASSUME IInv, NEW p \in Proc, ProcTypes', ActsAlone(p),
         UNCHANGED <<dinode, used, full, ref, freeing, crashes>>, ~panicked', freeing[p] = "idle",
         pc[p] # "init", pc'[p] # "init",
         busy' \in [Inum -> BOOLEAN], CacheTypes', LocksQuiet(p), InodesQuiet(p),
         \A i \in Inum : Count(p, i)' = Count(p, i), LocalOK(p)', ~Writes(p)',
         NEW d \in Inum, NEW n \in Name, NEW j \in Inum \cup {NoInum},
         dent' = [dent EXCEPT ![d][n] = j], j # Root, IsDir(j) => d = Root, Safe(p, d),
         \A i \in Inum : 0 >= (CountIf(j = i) - CountIf(dent[d][n] = i))
                                + (CountIf(ClaimOn(p, i)') - CountIf(ClaimOn(p, i))),
         0 >= (CountIf(d = Root /\ IsDir(j)) - CountIf(d = Root /\ IsDir(dent[d][n])))
                + (CountIf(DirClaim(p)') - CountIf(DirClaim(p)))
  PROVE  IInv'
  <1>0. /\ Types /\ ref' = ref /\ used' = used /\ full' = full /\ dinode' = dinode
        /\ freeing' = freeing /\ crashes' = crashes /\ SameTypes
    BY DEF IInv, SameTypes
  <1>1. Types'
    <2>1. dent' \in [Inum -> [Name -> Inum \cup {NoInum}]]  BY <1>0 DEF Types
    <2>. QED  BY <1>0, <2>1 DEF Types, ProcTypes, CacheTypes
  <1>2. Quiet(p)
    <2>1. \A e \in Inum : dent'[e] = dent[e] \/ \A q \in Proc \ {p} : ~Owns(q, e)
      BY <1>0 DEF Safe, Types
    <2>. QED  BY <1>0, <2>1 DEF Quiet, RefsQuiet, IInv, Freed, FreeingOK
  <1>3. /\ Locals' /\ Counted' /\ Locked' /\ Cached' /\ Freed' /\ InodeKinds' /\ Reclaimed'
        /\ \A i \in Inum : Gone(i) => Gone(i)'
    BY <1>1, <1>2, QuietStep
  <1>4. LinksCovered' /\ RootCovered' /\ EntryKinds'
    <2>0. Root \in Inum  BY InumAssumption DEF Root, Inum
    <2>1. \A i \in Inum : dinode'[i].nlink = dinode[i].nlink /\ dinode[i].nlink \in Nat
      BY <1>0 DEF Types, Inode
    <2>2. \A b : CountIf(b) \in {0, 1}  BY DEF CountIf
    <2>3. \A i \in Inum :
            dinode'[i].nlink >= dinode[i].nlink + (CountIf(j = i) - CountIf(dent[d][n] = i))
                                  + (CountIf(ClaimOn(p, i)') - CountIf(ClaimOn(p, i)))
      BY <2>1, <2>2
    <2>4. dinode'[Root].nlink >= dinode[Root].nlink
            + (CountIf(d = Root /\ IsDir(j)) - CountIf(d = Root /\ IsDir(dent[d][n])))
            + (CountIf(DirClaim(p)') - CountIf(DirClaim(p)))
      BY <2>0, <2>1, <2>2
    <2>. QED  BY <1>0, <1>1, <2>3, <2>4, CoveredStep
  <1>5. BlocksOwned' /\ NewOwned'
    <2>1. used \subseteq used' /\ full' \subseteq used'  BY <1>0 DEF IInv, BlocksOwned
    <2>. QED  BY <1>0, <1>3, <2>1, BlocksKept
  <1>. QED  BY <1>1, <1>3, <1>4, <1>5 DEF IInv, NoPanic

-----------------------------------------------------------------------------
(* The steps that write no block                                               *)

LEMMA WalkStep ==
  ASSUME IInv, NEW p \in Proc, Walk(p)
  PROVE  IInv'
  <1>. DEFINE q == Path(p)
  <1>1. /\ pc[p] = "walk" /\ puts[p] = <<>> /\ freeing[p] = "idle" /\ ~busy[Root]
        /\ q \in One \cup Two /\ LocalOK(p) /\ Types
        /\ Call(p) \in {"open", "mkdir", "unlink", "rmdir", "link"}
        /\ (Call(p) = "mkdir" => q \in One)
    BY DEF Walk, Ready, IInv, Locals, LocalOK, PutsOK, PathOK, CallOK
  <1>2. q # <<>> /\ Head(q) \in Name /\ (IF Len(q) = 1 THEN q \in One ELSE Tail(q) \in One)
        /\ (q \in One => Len(q) = 1)
    BY <1>1, PathFacts
  <1>3. Root \in Inum /\ Steady(Root) /\ Safe(p, Root) /\ Loaded(Root) = dinode[Root]
    <2>1. Root \in Inum /\ Uses(p, Root)  BY InumAssumption DEF Root, Inum, Uses
    <2>. QED  BY <1>1, <2>1, UsesSteady, UserSafe DEF Steady
  <1>4. CASE Len(q) = 1
    <2>. DEFINE f == [frame[p] EXCEPT !.dp = Root]
    <2>1. Moves(p, "parent", f, puts[p], file[p]) /\ ref' = [ref EXCEPT ![Root] = @ + 1]
          /\ UNCHANGED <<inode, valid, diskvars, busy, freeing, crashes, panicked>>
      BY <1>1, <1>4, SameProc DEF Walk, Enters, Iget, Moves
    <2>2. FrameIs(f, Call(p), q, Root, Ip(p), frame[p].new)
      BY <1>1, <1>3, SameProc, FrameFacts DEF Call, Path, Ip
    <2>. HIDE DEF f
    <2>3. /\ ProcTypes' /\ ActsAlone(p)
          /\ pc'[p] = "parent" /\ frame'[p] = f /\ puts'[p] = puts[p] /\ file'[p] = file[p]
      <3>1. "parent" \in Pcs  BY DEF Pcs
      <3>. QED  BY <1>1, <2>1, <2>2, <3>1, SameProc, MovesFacts DEF FrameIs
    <2>4. /\ Call(p)' = Call(p) /\ Path(p)' = q /\ Dp(p)' = Root /\ Ip(p)' = Ip(p)
          /\ (HoldsDp(p)' /\ ~HoldsDp(p)) /\ (HoldsIp(p)' <=> HoldsIp(p)) /\ (Linked(p)' <=> Linked(p))
          /\ ~Writes(p)' /\ (Claim(p)' <=> Claim(p)) /\ ~DirClaim(p)'
      BY <1>1, <2>2, <2>3 DEF Call, Path, Dp, Ip, HoldsDp, HoldsIp, Linked, Writes, Claim, DirClaim, FrameIs
    <2>8. InodesQuiet(p) /\ CacheTypes' /\ DiskTypes'  BY <2>1, SameInodes DEF diskvars
    <2>5. Types'
      <3>1. OtherTypes'  BY <1>1, <1>3, <2>1 DEF Types, OtherTypes, diskvars
      <3>. QED  BY <2>3, <2>8, <3>1 DEF Types, ProcTypes, OtherTypes, CacheTypes, DiskTypes
    <2>6. RefsQuiet(p)
      <3>1. ASSUME NEW i \in Inum  PROVE Count(p, i)' = Count(p, i) + CountIf(i = Root)
        BY <1>1, <2>3, <2>4, CountAfter DEF CountIf
      <3>. QED  BY <1>3, <2>1, <3>1, RefsTake
    <2>7. LocksQuiet(p)
      BY <1>1, <2>1, <2>3 DEF LocksQuiet, Owns, Writes
    <2>9. Quiet(p)
      BY <1>1, <2>1, <2>3, <2>6, <2>7, <2>8 DEF Quiet, diskvars, IInv, Freed, FreeingOK
    <2>10. LocalOK(p)'
      BY <1>1, <1>2, <1>3, <1>4, <2>1, <2>3, <2>4
      DEF LocalOK, PathOK, CallOK, PutsOK, InumOK, LoadedOK, KindOK, SlotOK, Owns, Writes, diskvars
    <2>. QED  BY <2>1, <2>4, <2>5, <2>9, <2>10, LookupStep DEF ClaimOn, IInv, NoPanic
  <1>5. CASE Len(q) # 1
    <2>. DEFINE next == dent[Root][Head(q)]
    <2>1. /\ Visit(Root) /\ UNCHANGED <<diskvars, busy, puts, freeing, file, crashes, panicked>>
          /\ IF next = NoInum THEN Goes(p, Fails(p)) /\ UNCHANGED ref
             ELSE Iget(next) /\ Enters(p, "dir", [frame[p] EXCEPT !.dp = next, !.path = Tail(@)])
      BY <1>1, <1>5 DEF Walk
    <2>2. /\ InodesQuiet(p) /\ CacheTypes' /\ DiskTypes' /\ SameTypes
          /\ \A i \in Inum : valid[i] => valid'[i]
      BY <1>1, <1>3, <2>1, LoadQuiet DEF Visit, diskvars, Types
    <2>3. next \in Inum \cup {NoInum}  BY <1>1, <1>2, <1>3 DEF Types
    <2>4. ASSUME next = NoInum, Call(p) = "link"  PROVE IInv'
      <3>1. Moves(p, "bad", frame[p], puts[p], file[p]) /\ ref' = ref
        BY <1>1, <2>1, <2>4, SameProc DEF Goes, Enters, Fails, Moves
      <3>2. Linked(p) /\ HoldsIp(p) /\ ~HoldsDp(p)
        BY <1>1, <2>4 DEF Linked, HoldsIp, HoldsDp
      <3>3. \A i \in Inum : Count(p, i) = CountIf(i = Root) + CountIf(Ip(p) = i)
                                            + CountIf(file[p] = i) + Queued(puts[p], i)
        BY <1>1, <3>2, PutFacts DEF Count, CountIf
      <3>. QED  BY <1>1, <2>1, <2>2, <3>1, <3>2, <3>3, SameProc, FailStep DEF IInv, NoPanic, Visit
    <2>5. ASSUME next = NoInum, Call(p) # "link"  PROVE IInv'
      <3>1. Moves(p, "idle", NoFrame, puts[p], file[p]) /\ ref' = ref /\ NoFrame \in Frames
        BY <1>1, <2>1, <2>5, SameProc, FrameFacts DEF Goes, Enters, Fails, Moves, FrameIs
      <3>2. ~HoldsIp(p) /\ ~HoldsDp(p) /\ \A i \in Inum : ~Owns(p, i)
        BY <1>1, <2>5 DEF Linked, HoldsIp, HoldsDp, Owns, Writes
      <3>3. \A i \in Inum : Count(p, i) = CountIf(i = Root) + CountIf(file[p] = i) + Queued(puts[p], i)
        BY <1>1, <3>2, PutFacts DEF Count, CountIf
      <3>4. (file[p] # NoInum => dinode[file[p]].type = "file") /\ busy' \in [Inum -> BOOLEAN]
            /\ \A i \in Inum : busy'[i] = busy[i]
        BY <1>1, <2>1 DEF LocalOK, KindOK, Types
      <3>. QED  BY <1>1, <2>1, <2>2, <3>1, <3>2, <3>3, <3>4, SameProc, ReturnStep DEF IInv, NoPanic
    <2>6. ASSUME next # NoInum  PROVE IInv'
      <3>0. next \in Inum \ {Root} /\ Steady(next)  BY <1>2, <1>3, <2>6, EntryFacts
      <3>. DEFINE f == [frame[p] EXCEPT !.dp = next, !.path = Tail(@)]
      <3>1. Moves(p, "dir", f, puts[p], file[p]) /\ ref' = [ref EXCEPT ![next] = @ + 1]
        BY <1>1, <2>1, <2>6, SameProc DEF Enters, Iget, Moves
      <3>2. FrameIs(f, Call(p), Tail(q), next, Ip(p), frame[p].new)
        <4>1. Tail(q) \in One /\ Tail(q) \in Seq(Name)  BY <1>2, <1>5, PathFacts
        <4>2. frame[p] \in Frames /\ f = [frame[p] EXCEPT !.dp = next, !.path = Tail(q)]
          BY <1>1, SameProc DEF Path
        <4>. QED  BY <2>3, <4>1, <4>2, FrameFacts DEF Call, Ip
      <3>. HIDE DEF f
      <3>3. /\ ProcTypes' /\ ActsAlone(p)
            /\ pc'[p] = "dir" /\ frame'[p] = f /\ puts'[p] = puts[p] /\ file'[p] = file[p]
        <4>1. "dir" \in Pcs  BY DEF Pcs
        <4>. QED  BY <1>1, <2>1, <3>1, <3>2, <4>1, SameProc, MovesFacts DEF FrameIs
      <3>4. /\ Call(p)' = Call(p) /\ Path(p)' = Tail(q) /\ Dp(p)' = next /\ Ip(p)' = Ip(p)
            /\ HoldsDp(p)' /\ ~HoldsDp(p) /\ (HoldsIp(p)' <=> HoldsIp(p)) /\ (Linked(p)' <=> Linked(p))
            /\ ~Writes(p)' /\ (Claim(p)' <=> Claim(p)) /\ ~DirClaim(p)'
        BY <1>1, <3>2, <3>3
        DEF Call, Path, Dp, Ip, HoldsDp, HoldsIp, Linked, Writes, Claim, DirClaim, FrameIs
      <3>5. Types'
        <4>1. OtherTypes'  BY <1>1, <2>1, <3>0, <3>1 DEF Types, OtherTypes, diskvars
        <4>. QED  BY <2>2, <3>3, <4>1 DEF Types, ProcTypes, OtherTypes, CacheTypes, DiskTypes
      <3>6. RefsQuiet(p)
        <4>1. ASSUME NEW i \in Inum  PROVE Count(p, i)' = Count(p, i) + CountIf(i = next)
          BY <1>1, <3>3, <3>4, CountAfter DEF CountIf
        <4>. QED  BY <3>0, <3>1, <4>1, RefsTake
      <3>7. LocksQuiet(p)
        BY <1>1, <2>1, <3>3 DEF LocksQuiet, Owns, Writes
      <3>8. Quiet(p)
        BY <1>1, <2>1, <2>2, <3>3, <3>6, <3>7 DEF Quiet, diskvars, IInv, Freed, FreeingOK
      <3>9. LocalOK(p)'
        <4>1. Tail(q) \in One /\ Call(p) # "mkdir"  BY <1>1, <1>2, <1>5
        <4>2. dinode' = dinode /\ dent' = dent  BY <2>1 DEF diskvars
        <4>3. PathOK(p)' /\ CallOK(p)' /\ PutsOK(p)'
          BY <1>1, <2>1, <3>3, <3>4, <4>1 DEF LocalOK, PathOK, CallOK, PutsOK
        <4>4. InumOK(p)'  BY <1>1, <3>0, <3>3, <3>4 DEF LocalOK, InumOK
        <4>5. LoadedOK(p)'
          BY <1>1, <2>1, <2>2, <3>3, <3>4 DEF LocalOK, InumOK, LoadedOK, HoldsIp, Owns, Writes
        <4>6. KindOK(p)' /\ SlotOK(p)'
          BY <1>1, <3>3, <3>4, <4>2 DEF LocalOK, KindOK, SlotOK
        <4>. QED  BY <4>3, <4>4, <4>5, <4>6 DEF LocalOK
      <3>. QED  BY <2>1, <3>4, <3>5, <3>8, <3>9, LookupStep DEF ClaimOn, IInv, NoPanic
    <2>. QED  BY <2>4, <2>5, <2>6
  <1>. QED  BY <1>4, <1>5


(* The locks and inodes of a process that is between two calls.                *)
LEMMA IdleFacts ==
  ASSUME IInv, NEW p \in Proc, Ready(p, "idle")
  PROVE  /\ Types /\ LocalOK(p) /\ pc[p] = "idle" /\ puts[p] = <<>> /\ freeing[p] = "idle"
         /\ ~HoldsDp(p) /\ ~HoldsIp(p) /\ ~Linked(p) /\ ~Writes(p)
         /\ \A i \in Inum : ~Owns(p, i)
  BY DEF IInv, Locals, LocalOK, PutsOK, Ready, HoldsDp, HoldsIp, Linked, Writes, Owns

LEMMA BeginStep ==
  ASSUME IInv, NEW p \in Proc, NEW c \in Calls, Begin(p, c)
  PROVE  IInv'
  <1>1. /\ Ready(p, "idle") /\ (c = "open" => file[p] = NoInum)
        /\ UNCHANGED <<diskvars, cachevars, puts, freeing, file, crashes, panicked>>
    BY DEF Begin
  <1>2. PICK q \in CallPaths(c) :
          Enters(p, IF c = "link" THEN "old" ELSE "walk", [NoFrame EXCEPT !.call = c, !.path = q])
    BY DEF Begin
  <1>. DEFINE f == [NoFrame EXCEPT !.call = c, !.path = q]
              l == IF c = "link" THEN "old" ELSE "walk"
  <1>3. /\ c \in {"open", "mkdir", "unlink", "rmdir", "link"} /\ q \in Seq(Name)
        /\ IF c = "link" THEN Head(q) \in Name /\ Tail(q) \in One \cup Two ELSE q \in One \cup Two
        /\ c = "mkdir" => q \in One
    BY <1>2, CallPathFacts
  <1>4. /\ Types /\ LocalOK(p) /\ puts[p] = <<>> /\ freeing[p] = "idle" /\ pc[p] = "idle"
        /\ ~HoldsDp(p) /\ ~HoldsIp(p) /\ \A i \in Inum : ~Owns(p, i)
    BY <1>1, IdleFacts
  <1>5. Moves(p, l, f, puts[p], file[p])  BY <1>1, <1>2, <1>4, SameProc DEF Enters, Moves
  <1>6. FrameIs(f, c, q, NoInum, NoInum, {})
    <2>1. c \in CallNames  BY <1>3 DEF CallNames
    <2>2. /\ NoFrame \in Frames /\ NoFrame.dp = NoInum /\ NoFrame.ip = NoInum /\ NoFrame.new = {}
      BY FrameFacts DEF FrameIs
    <2>3. FrameIs(f, c, q, NoFrame.dp, NoFrame.ip, NoFrame.new)  BY <1>3, <2>1, <2>2, FrameFacts
    <2>. QED  BY <2>2, <2>3
  <1>. HIDE DEF f
  <1>7. /\ ProcTypes' /\ ActsAlone(p)
        /\ pc'[p] = l /\ frame'[p] = f /\ puts'[p] = puts[p] /\ file'[p] = file[p]
    <2>1. l \in Pcs  BY DEF Pcs
    <2>. QED  BY <1>1, <1>4, <1>5, <1>6, <2>1, SameProc, MovesFacts DEF FrameIs
  <1>8. /\ Call(p)' = c /\ Path(p)' = q
        /\ ~HoldsDp(p)' /\ ~HoldsIp(p)' /\ ~Writes(p)' /\ ~Linked(p)' /\ ~Claim(p)' /\ ~DirClaim(p)'
    BY <1>6, <1>7 DEF Call, Path, HoldsDp, HoldsIp, Writes, Linked, Claim, DirClaim, FrameIs
  <1>9. /\ InodesQuiet(p) /\ CacheTypes' /\ ref' = ref /\ busy' = busy
        /\ valid' = valid /\ dinode' = dinode
    BY <1>1, SameInodes DEF cachevars, diskvars
  <1>10. RefsQuiet(p)
    <2>1. ASSUME NEW i \in Inum  PROVE Count(p, i)' = Count(p, i)
      BY <1>4, <1>7, <1>8, CountAfter DEF CountIf
    <2>. QED  BY <1>9, <2>1 DEF RefsQuiet
  <1>11. \A i \in Inum : ~Owns(p, i)'
    BY <1>1, <1>4, <1>7, <1>8 DEF Owns, Writes
  <1>12. LocalOK(p)'
    <2>1. PathOK(p)'  BY <1>3, <1>7, <1>8 DEF PathOK
    <2>2. CallOK(p)'  BY <1>1, <1>3, <1>7, <1>8 DEF CallOK
    <2>3. PutsOK(p)'  BY <1>1, <1>4, <1>7 DEF PutsOK
    <2>4. InumOK(p)' /\ LoadedOK(p)' /\ SlotOK(p)'
      BY <1>7, <1>8, <1>11 DEF InumOK, LoadedOK, SlotOK
    <2>5. KindOK(p)'  BY <1>4, <1>7, <1>8, <1>9 DEF LocalOK, KindOK
    <2>. QED  BY <2>1, <2>2, <2>3, <2>4, <2>5 DEF LocalOK
  <1>13. pc[p] # "init" /\ pc'[p] # "init" /\ ref' \in [Inum -> Nat] /\ busy' \in [Inum -> BOOLEAN]
         /\ LocksQuiet(p)
    BY <1>4, <1>7, <1>9, <1>11 DEF Types, LocksQuiet
  <1>. QED
    BY <1>1, <1>4, <1>7, <1>8, <1>9, <1>10, <1>12, <1>13, MoveStep DEF ClaimOn, IInv, NoPanic

LEMMA WalkDirStep ==
  ASSUME IInv, NEW p \in Proc, WalkDir(p)
  PROVE  IInv'
  <1>1. /\ pc[p] = "dir" /\ puts[p] = <<>> /\ freeing[p] = "idle" /\ Visit(Dp(p))
        /\ panicked' = (Loaded(Dp(p)).type = "free")
        /\ UNCHANGED <<diskvars, ref, busy, freeing, file, crashes>>
        /\ LocalOK(p) /\ Types /\ Path(p) \in One
        /\ Call(p) \in {"open", "mkdir", "unlink", "rmdir", "link"}
    BY DEF WalkDir, Ready, IInv, Locals, LocalOK, PutsOK, PathOK, CallOK
  <1>2. HoldsDp(p) /\ Dp(p) \in Inum /\ (HoldsIp(p) <=> Linked(p)) /\ (Linked(p) <=> Call(p) = "link")
        /\ ~Writes(p) /\ ~DirClaim(p) /\ (Claim(p) <=> Linked(p)) /\ \A i \in Inum : ~Owns(p, i)
    BY <1>1
    DEF HoldsDp, HoldsIp, Linked, Writes, DirClaim, Claim, Owns, LocalOK, InumOK
  <1>3. Steady(Dp(p)) /\ Safe(p, Dp(p)) /\ Loaded(Dp(p)) = dinode[Dp(p)] /\ ~panicked'
    <2>1. Uses(p, Dp(p))  BY <1>2 DEF Uses
    <2>2. Steady(Dp(p)) /\ Safe(p, Dp(p))  BY <1>1, <1>2, <2>1, UsesSteady, UserSafe DEF Visit
    <2>. QED  BY <1>1, <2>2 DEF Steady
  <1>4. /\ InodesQuiet(p) /\ CacheTypes' /\ SameTypes /\ dinode' = dinode /\ dent' = dent
        /\ \A i \in Inum : valid[i] => valid'[i]
    BY <1>1, <1>2, <1>3, LoadQuiet DEF Visit, diskvars, Types
  <1>5. CASE Loaded(Dp(p)).type = "dir"
    <2>1. Moves(p, "parent", frame[p], puts[p], file[p])
      BY <1>1, <1>5, SameProc DEF WalkDir, Goes, Enters, Moves
    <2>2. /\ ProcTypes' /\ ActsAlone(p)
          /\ pc'[p] = "parent" /\ frame'[p] = frame[p] /\ puts'[p] = puts[p] /\ file'[p] = file[p]
      <3>1. "parent" \in Pcs  BY DEF Pcs
      <3>. QED  BY <1>1, <2>1, <3>1, SameProc, MovesFacts
    <2>3. /\ Call(p)' = Call(p) /\ Path(p)' = Path(p) /\ Dp(p)' = Dp(p) /\ Ip(p)' = Ip(p)
          /\ HoldsDp(p)' /\ (HoldsIp(p)' <=> HoldsIp(p)) /\ (Linked(p)' <=> Linked(p))
          /\ ~Writes(p)' /\ ~DirClaim(p)' /\ (Claim(p)' <=> Claim(p))
      BY <1>1, <1>2, <2>2
      DEF Call, Path, Dp, Ip, HoldsDp, HoldsIp, Linked, Writes, DirClaim, Claim
    <2>4. \A i \in Inum : ~Owns(p, i)'  BY <1>1, <2>2, <2>3 DEF Owns, Writes
    <2>5. RefsQuiet(p)
      <3>1. ASSUME NEW i \in Inum  PROVE Count(p, i)' = Count(p, i)
        BY <1>1, <1>2, <2>2, <2>3, CountAfter DEF CountIf
      <3>. QED  BY <1>1, <3>1 DEF RefsQuiet
    <2>6. LocalOK(p)'
      <3>1. PathOK(p)' /\ CallOK(p)' /\ PutsOK(p)'
        BY <1>1, <1>2, <2>2, <2>3 DEF LocalOK, PathOK, CallOK, PutsOK
      <3>2. InumOK(p)'  BY <1>1, <1>2, <2>2, <2>3 DEF LocalOK, InumOK
      <3>3. LoadedOK(p)'
        BY <1>1, <1>2, <1>4, <2>2, <2>3, <2>4 DEF LocalOK, LoadedOK, InumOK
      <3>4. KindOK(p)' /\ SlotOK(p)'
        BY <1>1, <1>2, <1>4, <2>2, <2>3 DEF LocalOK, KindOK, SlotOK
      <3>. QED  BY <3>1, <3>2, <3>3, <3>4 DEF LocalOK
    <2>7. pc[p] # "init" /\ pc'[p] # "init" /\ ref' \in [Inum -> Nat] /\ busy' \in [Inum -> BOOLEAN]
          /\ LocksQuiet(p)
      BY <1>1, <1>2, <2>2, <2>4 DEF Types, LocksQuiet
    <2>. QED
      BY <1>1, <1>3, <1>4, <2>2, <2>3, <2>5, <2>6, <2>7, MoveStep DEF ClaimOn
  <1>6. CASE Loaded(Dp(p)).type # "dir"
    <2>1. Moves(p, Fails(p), IF Call(p) = "link" THEN frame[p] ELSE NoFrame, <<Dp(p)>>, file[p])
      BY <1>1, <1>6, SameProc DEF WalkDir, Goes, Enters, Moves, DoPuts, Fails
    <2>2. <<Dp(p)>> \in PutLists /\ \A i : Queued(<<Dp(p)>>, i) = CountIf(Dp(p) = i) /\ Queued(<<>>, i) = 0
      BY <1>2, PutFacts
    <2>3. CASE Call(p) = "link"
      <3>1. \A i \in Inum : Count(p, i) = CountIf(i = Root) + CountIf(Ip(p) = i)
                                            + CountIf(file[p] = i) + Queued(<<Dp(p)>>, i)
        BY <1>1, <1>2, <2>2, <2>3 DEF Count, CountIf
      <3>2. Moves(p, "bad", frame[p], <<Dp(p)>>, file[p])  BY <2>1, <2>3 DEF Fails
      <3>. QED  BY <1>1, <1>2, <1>3, <1>4, <2>2, <2>3, <3>1, <3>2, FailStep
    <2>4. CASE Call(p) # "link"
      <3>1. \A i \in Inum : Count(p, i) = CountIf(i = Root) + CountIf(file[p] = i) + Queued(<<Dp(p)>>, i)
        BY <1>1, <1>2, <2>2, <2>4 DEF Count, CountIf
      <3>2. Moves(p, "idle", NoFrame, <<Dp(p)>>, file[p]) /\ NoFrame \in Frames
        BY <2>1, <2>4, FrameFacts DEF Fails, FrameIs
      <3>3. (file[p] # NoInum => dinode[file[p]].type = "file") /\ busy' \in [Inum -> BOOLEAN]
            /\ pc[p] # "init" /\ \A i \in Inum : busy'[i] = busy[i]
        BY <1>1 DEF LocalOK, KindOK, Types
      <3>. QED  BY <1>1, <1>2, <1>3, <1>4, <2>2, <3>1, <3>2, <3>3, SameProc, ReturnStep
    <2>. QED  BY <2>3, <2>4
  <1>. QED  BY <1>5, <1>6

LEMMA CreateFoundStep ==
  ASSUME IInv, NEW p \in Proc, CreateFound(p)
  PROVE  IInv'
  <1>. DEFINE e == Entry(p)
              f == [frame[p] EXCEPT !.ip = e]
  <1>1. /\ pc[p] = "parent" /\ puts[p] = <<>> /\ freeing[p] = "idle" /\ Visit(Dp(p)) /\ e # NoInum
        /\ ref' = [ref EXCEPT ![e] = @ + 1] /\ Call(p) \in {"open", "mkdir"}
        /\ UNCHANGED <<diskvars, busy, freeing, file, crashes, panicked>>
        /\ LocalOK(p) /\ Types /\ Path(p) \in One
    BY DEF CreateFound, Ready, Iget, Creates, IInv, Locals, LocalOK, PutsOK, PathOK
  <1>2. HoldsDp(p) /\ Dp(p) \in Inum /\ ~HoldsIp(p) /\ ~Linked(p)
        /\ ~Writes(p) /\ ~DirClaim(p) /\ ~Claim(p) /\ \A i \in Inum : ~Owns(p, i)
    BY <1>1 DEF HoldsDp, HoldsIp, Linked, Writes, DirClaim, Claim, Owns, LocalOK, InumOK
  <1>3. Head(Path(p)) \in Name  BY <1>1, PathFacts
  <1>4. e \in Inum \ {Root} /\ Steady(e)  BY <1>1, <1>2, <1>3, EntryFacts DEF Entry
  <1>5. Steady(Dp(p)) /\ Safe(p, Dp(p)) /\ Loaded(Dp(p)) = dinode[Dp(p)]
    <2>1. Uses(p, Dp(p))  BY <1>2 DEF Uses
    <2>2. Steady(Dp(p)) /\ Safe(p, Dp(p))  BY <1>1, <1>2, <2>1, UsesSteady, UserSafe DEF Visit
    <2>. QED  BY <2>2 DEF Steady
  <1>6. /\ InodesQuiet(p) /\ CacheTypes' /\ dinode' = dinode
    BY <1>1, <1>2, <1>5, LoadQuiet DEF Visit, diskvars, Types
  <1>7. Moves(p, "existing", f, <<Dp(p)>>, file[p])
    BY <1>1, SameProc DEF CreateFound, Enters, Moves, DoPuts
  <1>8. FrameIs(f, Call(p), Path(p), Dp(p), e, frame[p].new)
    BY <1>1, <1>4, SameProc, FrameFacts DEF Call, Path, Dp
  <1>9. <<Dp(p)>> \in PutLists /\ <<Dp(p)>> # <<>>
        /\ \A i : Queued(<<Dp(p)>>, i) = CountIf(Dp(p) = i) /\ Queued(<<>>, i) = 0
    BY <1>2, PutFacts
  <1>. HIDE DEF f, e
  <1>10. /\ ProcTypes' /\ ActsAlone(p)
         /\ pc'[p] = "existing" /\ frame'[p] = f /\ puts'[p] = <<Dp(p)>> /\ file'[p] = file[p]
    <2>1. "existing" \in Pcs  BY DEF Pcs
    <2>. QED  BY <1>1, <1>7, <1>8, <1>9, <2>1, SameProc, MovesFacts DEF FrameIs
  <1>11. /\ Call(p)' = Call(p) /\ Path(p)' = Path(p) /\ Ip(p)' = e
         /\ ~HoldsDp(p)' /\ HoldsIp(p)' /\ ~Linked(p)' /\ ~Writes(p)' /\ ~DirClaim(p)' /\ ~Claim(p)'
    BY <1>1, <1>8, <1>10
    DEF Call, Path, Ip, HoldsDp, HoldsIp, Linked, Writes, DirClaim, Claim, FrameIs
  <1>12. \A i \in Inum : ~Owns(p, i)'  BY <1>1, <1>10, <1>11 DEF Owns, Writes
  <1>13. RefsQuiet(p)
    <2>1. ASSUME NEW i \in Inum  PROVE Count(p, i)' = Count(p, i) + CountIf(i = e)
      BY <1>1, <1>2, <1>9, <1>10, <1>11, CountAfter DEF CountIf
    <2>. QED  BY <1>1, <1>4, <2>1, RefsTake
  <1>14. LocalOK(p)'
    <2>1. PathOK(p)' /\ CallOK(p)' /\ PutsOK(p)'
      BY <1>1, <1>10, <1>11 DEF LocalOK, PathOK, CallOK, PutsOK, Creates
    <2>2. InumOK(p)' /\ LoadedOK(p)'
      BY <1>4, <1>10, <1>11, <1>12 DEF InumOK, LoadedOK
    <2>3. KindOK(p)' /\ SlotOK(p)'
      BY <1>1, <1>6, <1>10, <1>11 DEF LocalOK, KindOK, SlotOK
    <2>. QED  BY <2>1, <2>2, <2>3 DEF LocalOK
  <1>15. pc[p] # "init" /\ pc'[p] # "init" /\ ref' \in [Inum -> Nat] /\ busy' \in [Inum -> BOOLEAN]
         /\ LocksQuiet(p)
    BY <1>1, <1>2, <1>4, <1>10, <1>12 DEF Types, LocksQuiet
  <1>. QED
    BY <1>1, <1>6, <1>10, <1>11, <1>13, <1>14, <1>15, MoveStep DEF ClaimOn, IInv, NoPanic

LEMMA ExistingStep ==
  ASSUME IInv, NEW p \in Proc, Existing(p)
  PROVE  IInv'
  <1>1. /\ pc[p] = "existing" /\ puts[p] = <<>> /\ freeing[p] = "idle" /\ Visit(Ip(p))
        /\ panicked' = (Loaded(Ip(p)).type = "free") /\ Call(p) \in {"open", "mkdir"}
        /\ UNCHANGED <<diskvars, ref, busy, freeing, crashes>>
        /\ LocalOK(p) /\ Types /\ (Call(p) = "open" => file[p] = NoInum)
    BY DEF Existing, Ready, Creates, IInv, Locals, LocalOK, PutsOK, CallOK
  <1>2. ~HoldsDp(p) /\ HoldsIp(p) /\ Ip(p) \in Inum /\ \A i \in Inum : ~Owns(p, i)
    BY <1>1 DEF HoldsDp, HoldsIp, Writes, Owns, LocalOK, InumOK
  <1>3. Safe(p, Ip(p)) /\ Loaded(Ip(p)) = dinode[Ip(p)] /\ ~panicked'
    <2>1. Uses(p, Ip(p))  BY <1>1, <1>2 DEF Uses
    <2>2. Steady(Ip(p)) /\ Safe(p, Ip(p))  BY <1>1, <1>2, <2>1, UsesSteady, UserSafe DEF Visit
    <2>. QED  BY <1>1, <2>2 DEF Steady
  <1>4. InodesQuiet(p) /\ CacheTypes'
    BY <1>1, <1>2, <1>3, LoadQuiet DEF Visit, diskvars, Types
  <1>5. /\ NoFrame \in Frames /\ busy' \in [Inum -> BOOLEAN] /\ pc[p] # "init"
        /\ file[p] \in Inum \cup {NoInum} /\ (file[p] # NoInum => dinode[file[p]].type = "file")
        /\ \A i \in Inum : IF Owns(p, i) THEN ~busy'[i] ELSE busy'[i] = busy[i]
    BY <1>1, <1>2, FrameFacts DEF FrameIs, LocalOK, KindOK, Types
  <1>6. /\ <<>> \in PutLists /\ <<Ip(p)>> \in PutLists
        /\ \A i : Queued(<<Ip(p)>>, i) = CountIf(Ip(p) = i) /\ Queued(<<>>, i) = 0
    BY <1>2, PutFacts
  <1>7. CASE Call(p) = "open" /\ Loaded(Ip(p)).type = "file"
    <2>1. Moves(p, "idle", NoFrame, <<>>, Ip(p))
      BY <1>1, <1>7, SameProc DEF Existing, Goes, Enters, Moves
    <2>2. \A i \in Inum : Count(p, i) = CountIf(i = Root) + CountIf(Ip(p) = i) + Queued(<<>>, i)
      BY <1>1, <1>2, <1>6, <1>7, NoInumAssumption DEF Count, CountIf
    <2>. QED  BY <1>1, <1>2, <1>3, <1>4, <1>5, <1>6, <1>7, <2>1, <2>2, ReturnStep
  <1>8. CASE ~(Call(p) = "open" /\ Loaded(Ip(p)).type = "file")
    <2>1. Moves(p, "idle", NoFrame, <<Ip(p)>>, file[p])
      BY <1>1, <1>8, SameProc DEF Existing, Goes, Enters, Moves, DoPuts
    <2>2. \A i \in Inum : Count(p, i) = CountIf(i = Root) + CountIf(file[p] = i) + Queued(<<Ip(p)>>, i)
      BY <1>1, <1>2, <1>6 DEF Count, CountIf
    <2>. QED  BY <1>1, <1>2, <1>3, <1>4, <1>5, <1>6, <2>1, <2>2, ReturnStep
  <1>. QED  BY <1>7, <1>8

LEMMA CreateAbsentStep ==
  ASSUME IInv, NEW p \in Proc, CreateAbsent(p)
  PROVE  IInv'
  <1>1. /\ pc[p] = "parent" /\ puts[p] = <<>> /\ freeing[p] = "idle" /\ Ilock(Dp(p))
        /\ Entry(p) = NoInum /\ Call(p) \in {"open", "mkdir"}
        /\ UNCHANGED <<diskvars, ref, puts, freeing, file, crashes>>
        /\ LocalOK(p) /\ Types /\ Path(p) \in One
    BY DEF CreateAbsent, Ready, Creates, IInv, Locals, LocalOK, PutsOK, PathOK
  <1>2. HoldsDp(p) /\ Dp(p) \in Inum /\ ~HoldsIp(p) /\ ~Linked(p)
        /\ ~Writes(p) /\ ~DirClaim(p) /\ ~Claim(p) /\ \A i \in Inum : ~Owns(p, i)
    BY <1>1 DEF HoldsDp, HoldsIp, Linked, Writes, DirClaim, Claim, Owns, LocalOK, InumOK
  <1>3. Safe(p, Dp(p)) /\ Loaded(Dp(p)) = dinode[Dp(p)] /\ ~panicked'
    <2>1. Uses(p, Dp(p))  BY <1>2 DEF Uses
    <2>2. Steady(Dp(p)) /\ Safe(p, Dp(p))  BY <1>1, <1>2, <2>1, UsesSteady, UserSafe DEF Ilock
    <2>. QED  BY <1>1, <2>2 DEF Steady, Ilock
  <1>4. InodesQuiet(p) /\ CacheTypes' /\ dinode' = dinode /\ dent' = dent /\ valid'[Dp(p)]
    BY <1>1, <1>2, <1>3, LoadQuiet DEF Ilock, diskvars, Types
  <1>5. Moves(p, "ialloc", frame[p], puts[p], file[p])
    BY <1>1, SameProc DEF CreateAbsent, Goes, Enters, Moves
  <1>6. /\ ProcTypes' /\ ActsAlone(p)
        /\ pc'[p] = "ialloc" /\ frame'[p] = frame[p] /\ puts'[p] = puts[p] /\ file'[p] = file[p]
    <2>1. "ialloc" \in Pcs  BY DEF Pcs
    <2>. QED  BY <1>1, <1>5, <2>1, SameProc, MovesFacts
  <1>7. /\ Call(p)' = Call(p) /\ Path(p)' = Path(p) /\ Dp(p)' = Dp(p) /\ Ip(p)' = Ip(p)
        /\ HoldsDp(p)' /\ ~HoldsIp(p)' /\ ~Linked(p)' /\ ~Writes(p)' /\ ~DirClaim(p)' /\ ~Claim(p)'
        /\ \A i \in Inum : Owns(p, i)' <=> i = Dp(p)
    BY <1>1, <1>6 DEF Call, Path, Dp, Ip, HoldsDp, HoldsIp, Linked, Writes, DirClaim, Claim, Owns
  <1>8. RefsQuiet(p)
    <2>1. ASSUME NEW i \in Inum  PROVE Count(p, i)' = Count(p, i)
      BY <1>1, <1>2, <1>6, <1>7, CountAfter DEF CountIf
    <2>. QED  BY <1>1, <2>1 DEF RefsQuiet
  <1>9. LocalOK(p)'
    <2>1. PathOK(p)' /\ CallOK(p)' /\ PutsOK(p)'
      BY <1>1, <1>2, <1>6, <1>7 DEF LocalOK, PathOK, CallOK, PutsOK, Creates
    <2>2. InumOK(p)' /\ LoadedOK(p)'
      BY <1>2, <1>4, <1>6, <1>7 DEF InumOK, LoadedOK
    <2>3. KindOK(p)'  BY <1>1, <1>4, <1>6, <1>7 DEF LocalOK, KindOK
    <2>4. SlotOK(p)'  BY <1>1, <1>4, <1>6, <1>7 DEF SlotOK, Entry
    <2>. QED  BY <2>1, <2>2, <2>3, <2>4 DEF LocalOK
  <1>10. pc[p] # "init" /\ pc'[p] # "init" /\ ref' \in [Inum -> Nat] /\ busy' \in [Inum -> BOOLEAN]
         /\ LocksQuiet(p)
    BY <1>1, <1>2, <1>6, <1>7 DEF Types, LocksQuiet, Ilock
  <1>. QED
    BY <1>1, <1>3, <1>4, <1>6, <1>7, <1>8, <1>9, <1>10, MoveStep DEF ClaimOn

LEMMA MadeStep ==
  ASSUME IInv, NEW p \in Proc, Made(p)
  PROVE  IInv'
  <1>1. /\ pc[p] = "made" /\ puts[p] = <<>> /\ freeing[p] = "idle"
        /\ busy' = [busy EXCEPT ![Ip(p)] = FALSE] /\ Call(p) \in {"open", "mkdir"}
        /\ UNCHANGED <<diskvars, inode, ref, valid, freeing, crashes, panicked>>
        /\ LocalOK(p) /\ Types /\ (Call(p) = "open" => file[p] = NoInum)
    BY DEF Made, Ready, Creates, IInv, Locals, LocalOK, PutsOK, CallOK
  <1>2. ~HoldsDp(p) /\ HoldsIp(p) /\ Ip(p) \in Inum /\ \A i \in Inum : Owns(p, i) <=> i = Ip(p)
    BY <1>1 DEF HoldsDp, HoldsIp, Writes, Owns, LocalOK, InumOK
  <1>3. InodesQuiet(p) /\ CacheTypes'  BY <1>1, SameInodes DEF diskvars
  <1>4. /\ NoFrame \in Frames /\ busy' \in [Inum -> BOOLEAN] /\ pc[p] # "init"
        /\ file[p] \in Inum \cup {NoInum} /\ (file[p] # NoInum => dinode[file[p]].type = "file")
        /\ (Call(p) = "open" => dinode[Ip(p)].type = "file")
        /\ \A i \in Inum : IF Owns(p, i) THEN ~busy'[i] ELSE busy'[i] = busy[i]
    BY <1>1, <1>2, FrameFacts DEF FrameIs, LocalOK, KindOK, Types
  <1>5. /\ <<>> \in PutLists /\ <<Ip(p)>> \in PutLists
        /\ \A i : Queued(<<Ip(p)>>, i) = CountIf(Ip(p) = i) /\ Queued(<<>>, i) = 0
    BY <1>2, PutFacts
  <1>6. /\ UNCHANGED <<diskvars, ref, freeing, crashes>> /\ ~panicked'
        /\ freeing[p] = "idle" /\ Ip(p) \in Inum \cup {NoInum}
    BY <1>1, <1>2 DEF IInv, NoPanic
  <1>7. CASE Call(p) = "open"
    <2>1. Moves(p, "idle", NoFrame, <<>>, Ip(p))
      BY <1>1, <1>7, SameProc DEF Made, Goes, Enters, Moves
    <2>2. \A i \in Inum : Count(p, i) = CountIf(i = Root) + CountIf(Ip(p) = i) + Queued(<<>>, i)
      BY <1>1, <1>2, <1>5, <1>7, NoInumAssumption DEF Count, CountIf
    <2>. QED  BY <1>3, <1>4, <1>5, <1>6, <1>7, <2>1, <2>2, ReturnStep
  <1>8. CASE Call(p) # "open"
    <2>1. Moves(p, "idle", NoFrame, <<Ip(p)>>, file[p])
      BY <1>1, <1>8, SameProc DEF Made, Goes, Enters, Moves, DoPuts
    <2>2. \A i \in Inum : Count(p, i) = CountIf(i = Root) + CountIf(file[p] = i) + Queued(<<Ip(p)>>, i)
      BY <1>1, <1>2, <1>5 DEF Count, CountIf
    <2>. QED  BY <1>3, <1>4, <1>5, <1>6, <2>1, <2>2, ReturnStep
  <1>. QED  BY <1>7, <1>8

LEMMA UnlinkAbsentStep ==
  ASSUME IInv, NEW p \in Proc, UnlinkAbsent(p)
  PROVE  IInv'
  <1>1. /\ pc[p] = "parent" /\ puts[p] = <<>> /\ freeing[p] = "idle" /\ Visit(Dp(p))
        /\ Call(p) \in {"unlink", "rmdir"}
        /\ UNCHANGED <<diskvars, ref, busy, freeing, file, crashes, panicked>>
        /\ LocalOK(p) /\ Types
    BY DEF UnlinkAbsent, Ready, Unlinks, IInv, Locals, LocalOK, PutsOK
  <1>2. HoldsDp(p) /\ ~HoldsIp(p) /\ Dp(p) \in Inum /\ \A i \in Inum : ~Owns(p, i)
    BY <1>1 DEF HoldsDp, HoldsIp, Linked, Writes, Owns, LocalOK, InumOK
  <1>3. Safe(p, Dp(p)) /\ Loaded(Dp(p)) = dinode[Dp(p)]
    <2>1. Uses(p, Dp(p))  BY <1>2 DEF Uses
    <2>2. Steady(Dp(p)) /\ Safe(p, Dp(p))  BY <1>1, <1>2, <2>1, UsesSteady, UserSafe DEF Visit
    <2>. QED  BY <2>2 DEF Steady
  <1>4. InodesQuiet(p) /\ CacheTypes'
    BY <1>1, <1>2, <1>3, LoadQuiet DEF Visit, diskvars, Types
  <1>5. /\ NoFrame \in Frames /\ busy' \in [Inum -> BOOLEAN] /\ pc[p] # "init"
        /\ file[p] \in Inum \cup {NoInum} /\ (file[p] # NoInum => dinode[file[p]].type = "file")
        /\ \A i \in Inum : IF Owns(p, i) THEN ~busy'[i] ELSE busy'[i] = busy[i]
    BY <1>1, <1>2, FrameFacts DEF FrameIs, LocalOK, KindOK, Types
  <1>6. <<Dp(p)>> \in PutLists
        /\ \A i : Queued(<<Dp(p)>>, i) = CountIf(Dp(p) = i) /\ Queued(<<>>, i) = 0
    BY <1>2, PutFacts
  <1>7. Moves(p, "idle", NoFrame, <<Dp(p)>>, file[p])
    BY <1>1, SameProc DEF UnlinkAbsent, Goes, Enters, Moves, DoPuts
  <1>8. \A i \in Inum : Count(p, i) = CountIf(i = Root) + CountIf(file[p] = i) + Queued(<<Dp(p)>>, i)
    BY <1>1, <1>2, <1>6 DEF Count, CountIf
  <1>. QED  BY <1>1, <1>2, <1>3, <1>4, <1>5, <1>6, <1>7, <1>8, ReturnStep DEF IInv, NoPanic

LEMMA UnlinkFoundStep ==
  ASSUME IInv, NEW p \in Proc, UnlinkFound(p)
  PROVE  IInv'
  <1>. DEFINE e == Entry(p)
              f == [frame[p] EXCEPT !.ip = e]
  <1>1. /\ pc[p] = "parent" /\ puts[p] = <<>> /\ freeing[p] = "idle" /\ Ilock(Dp(p)) /\ e # NoInum
        /\ ref' = [ref EXCEPT ![e] = @ + 1] /\ Call(p) \in {"unlink", "rmdir"}
        /\ UNCHANGED <<diskvars, puts, freeing, file, crashes>>
        /\ LocalOK(p) /\ Types /\ Path(p) \in One
    BY DEF UnlinkFound, Ready, Iget, Unlinks, IInv, Locals, LocalOK, PutsOK, PathOK
  <1>2. HoldsDp(p) /\ Dp(p) \in Inum /\ ~HoldsIp(p) /\ ~Linked(p)
        /\ ~Writes(p) /\ ~DirClaim(p) /\ ~Claim(p) /\ \A i \in Inum : ~Owns(p, i)
    BY <1>1 DEF HoldsDp, HoldsIp, Linked, Writes, DirClaim, Claim, Owns, LocalOK, InumOK
  <1>3. Head(Path(p)) \in Name  BY <1>1, PathFacts
  <1>4. e \in Inum \ {Root} /\ Steady(e)  BY <1>1, <1>2, <1>3, EntryFacts DEF Entry
  <1>5. Safe(p, Dp(p)) /\ Loaded(Dp(p)) = dinode[Dp(p)] /\ ~panicked'
    <2>1. Uses(p, Dp(p))  BY <1>2 DEF Uses
    <2>2. Steady(Dp(p)) /\ Safe(p, Dp(p))  BY <1>1, <1>2, <2>1, UsesSteady, UserSafe DEF Ilock
    <2>. QED  BY <1>1, <2>2 DEF Steady, Ilock
  <1>6. /\ InodesQuiet(p) /\ CacheTypes' /\ dinode' = dinode /\ dent' = dent /\ valid'[Dp(p)]
    BY <1>1, <1>2, <1>5, LoadQuiet DEF Ilock, diskvars, Types
  <1>7. Moves(p, "victim", f, puts[p], file[p])
    BY <1>1, SameProc DEF UnlinkFound, Enters, Moves
  <1>8. FrameIs(f, Call(p), Path(p), Dp(p), e, frame[p].new)
    BY <1>1, <1>4, SameProc, FrameFacts DEF Call, Path, Dp
  <1>9. dent[Dp(p)][Head(Path(p))] = e  BY DEF Entry
  <1>. HIDE DEF f, e
  <1>10. /\ ProcTypes' /\ ActsAlone(p)
         /\ pc'[p] = "victim" /\ frame'[p] = f /\ puts'[p] = puts[p] /\ file'[p] = file[p]
    <2>1. "victim" \in Pcs  BY DEF Pcs
    <2>. QED  BY <1>1, <1>7, <1>8, <2>1, SameProc, MovesFacts DEF FrameIs
  <1>11. /\ Call(p)' = Call(p) /\ Path(p)' = Path(p) /\ Ip(p)' = e /\ Dp(p)' = Dp(p)
         /\ HoldsDp(p)' /\ HoldsIp(p)' /\ ~Linked(p)' /\ ~Writes(p)' /\ ~DirClaim(p)' /\ ~Claim(p)'
         /\ \A i \in Inum : Owns(p, i)' <=> i = Dp(p)
    BY <1>1, <1>8, <1>10
    DEF Call, Path, Ip, Dp, HoldsDp, HoldsIp, Linked, Writes, DirClaim, Claim, FrameIs, Owns
  <1>12. RefsQuiet(p)
    <2>1. ASSUME NEW i \in Inum  PROVE Count(p, i)' = Count(p, i) + CountIf(i = e)
      BY <1>1, <1>2, <1>10, <1>11, CountAfter DEF CountIf
    <2>. QED  BY <1>1, <1>4, <2>1, RefsTake
  <1>13. LocalOK(p)'
    <2>1. PathOK(p)' /\ CallOK(p)' /\ PutsOK(p)'
      BY <1>1, <1>2, <1>10, <1>11 DEF LocalOK, PathOK, CallOK, PutsOK, Unlinks
    <2>2. InumOK(p)' /\ LoadedOK(p)'
      BY <1>2, <1>4, <1>6, <1>10, <1>11 DEF InumOK, LoadedOK
    <2>3. KindOK(p)'  BY <1>1, <1>6, <1>10, <1>11 DEF LocalOK, KindOK
    <2>4. SlotOK(p)'  BY <1>6, <1>9, <1>10, <1>11 DEF SlotOK, Entry
    <2>. QED  BY <2>1, <2>2, <2>3, <2>4 DEF LocalOK
  <1>14. pc[p] # "init" /\ pc'[p] # "init" /\ ref' \in [Inum -> Nat] /\ busy' \in [Inum -> BOOLEAN]
         /\ LocksQuiet(p)
    <2>1. ~busy[Dp(p)] /\ busy' = [busy EXCEPT ![Dp(p)] = TRUE]  BY <1>1 DEF Ilock
    <2>2. ref \in [Inum -> Nat] /\ busy \in [Inum -> BOOLEAN]  BY <1>1 DEF Types
    <2>3. ref' = [ref EXCEPT ![e] = @ + 1]  BY <1>1
    <2>4. ref' \in [Inum -> Nat]  BY <1>4, <2>2, <2>3
    <2>5. busy' \in [Inum -> BOOLEAN]  BY <2>1, <2>2
    <2>. QED  BY <1>1, <1>2, <1>10, <1>11, <2>1, <2>2, <2>4, <2>5 DEF LocksQuiet
  <1>. QED
    BY <1>1, <1>5, <1>6, <1>10, <1>11, <1>12, <1>13, <1>14, MoveStep DEF ClaimOn

LEMMA LinkOldStep ==
  ASSUME IInv, NEW p \in Proc, LinkOld(p)
  PROVE  IInv'
  <1>. DEFINE q == Path(p)
              next == dent[Root][Head(q)]
              f == [frame[p] EXCEPT !.ip = next, !.path = Tail(@)]
  <1>1. /\ pc[p] = "old" /\ puts[p] = <<>> /\ freeing[p] = "idle" /\ Visit(Root)
        /\ Call(p) = "link" /\ Head(q) \in Name /\ Tail(q) \in One \cup Two
        /\ UNCHANGED <<diskvars, busy, puts, freeing, file, crashes, panicked>>
        /\ IF next = NoInum THEN Goes(p, "idle") /\ UNCHANGED ref
           ELSE Iget(next) /\ Enters(p, "count", f)
        /\ LocalOK(p) /\ Types
    BY DEF LinkOld, Ready, IInv, Locals, LocalOK, PutsOK, PathOK, CallOK
  <1>2. ~HoldsDp(p) /\ ~HoldsIp(p) /\ ~Linked(p)
        /\ ~Writes(p) /\ ~DirClaim(p) /\ ~Claim(p) /\ \A i \in Inum : ~Owns(p, i)
    BY <1>1 DEF HoldsDp, HoldsIp, Linked, Writes, DirClaim, Claim, Owns
  <1>3. Root \in Inum /\ Safe(p, Root) /\ Loaded(Root) = dinode[Root]
    <2>1. Root \in Inum /\ Uses(p, Root)  BY InumAssumption DEF Root, Inum, Uses
    <2>2. Steady(Root) /\ Safe(p, Root)  BY <1>1, <2>1, UsesSteady, UserSafe DEF Visit
    <2>. QED  BY <2>1, <2>2 DEF Steady
  <1>4. InodesQuiet(p) /\ CacheTypes' /\ dinode' = dinode
    BY <1>1, <1>3, LoadQuiet DEF Visit, diskvars, Types
  <1>5. CASE next = NoInum
    <2>1. Moves(p, "idle", NoFrame, puts[p], file[p]) /\ ref' = ref /\ NoFrame \in Frames
      BY <1>1, <1>5, SameProc, FrameFacts DEF Goes, Enters, Moves, FrameIs
    <2>2. \A i \in Inum : Count(p, i) = CountIf(i = Root) + CountIf(file[p] = i) + Queued(puts[p], i)
      BY <1>1, <1>2, PutFacts DEF Count, CountIf
    <2>3. (file[p] # NoInum => dinode[file[p]].type = "file") /\ busy' \in [Inum -> BOOLEAN]
          /\ pc[p] # "init" /\ \A i \in Inum : busy'[i] = busy[i]
      BY <1>1 DEF LocalOK, KindOK, Types
    <2>. QED  BY <1>1, <1>2, <1>4, <2>1, <2>2, <2>3, SameProc, ReturnStep DEF IInv, NoPanic
  <1>6. CASE next # NoInum
    <2>0. next \in Inum \ {Root} /\ Steady(next)  BY <1>1, <1>3, <1>6, EntryFacts
    <2>1. Moves(p, "count", f, puts[p], file[p]) /\ ref' = [ref EXCEPT ![next] = @ + 1]
      BY <1>1, <1>6, SameProc DEF Enters, Iget, Moves
    <2>2. FrameIs(f, Call(p), Tail(q), Dp(p), next, frame[p].new)
      <3>1. Tail(q) \in Seq(Name)  BY <1>1, PathFacts
      <3>2. frame[p] \in Frames /\ f = [frame[p] EXCEPT !.ip = next, !.path = Tail(q)]
        BY <1>1, SameProc DEF Path
      <3>. QED  BY <2>0, <3>1, <3>2, FrameFacts DEF Call, Dp
    <2>. HIDE DEF f, next
    <2>3. /\ ProcTypes' /\ ActsAlone(p)
          /\ pc'[p] = "count" /\ frame'[p] = f /\ puts'[p] = puts[p] /\ file'[p] = file[p]
      <3>1. "count" \in Pcs  BY DEF Pcs
      <3>. QED  BY <1>1, <2>1, <2>2, <3>1, SameProc, MovesFacts DEF FrameIs
    <2>4. /\ Call(p)' = Call(p) /\ Path(p)' = Tail(q) /\ Ip(p)' = next
          /\ ~HoldsDp(p)' /\ HoldsIp(p)' /\ ~Linked(p)' /\ ~Writes(p)' /\ ~DirClaim(p)' /\ ~Claim(p)'
          /\ \A i \in Inum : ~Owns(p, i)'
      BY <1>1, <2>2, <2>3
      DEF Call, Path, Ip, HoldsDp, HoldsIp, Linked, Writes, DirClaim, Claim, FrameIs, Owns
    <2>5. RefsQuiet(p)
      <3>1. ASSUME NEW i \in Inum  PROVE Count(p, i)' = Count(p, i) + CountIf(i = next)
        BY <1>1, <1>2, <2>3, <2>4, CountAfter DEF CountIf
      <3>. QED  BY <2>0, <2>1, <3>1, RefsTake
    <2>6. LocalOK(p)'
      <3>1. PathOK(p)' /\ CallOK(p)' /\ PutsOK(p)'
        BY <1>1, <2>3, <2>4 DEF LocalOK, PathOK, CallOK, PutsOK
      <3>2. InumOK(p)' /\ LoadedOK(p)'  BY <2>0, <2>3, <2>4 DEF InumOK, LoadedOK
      <3>3. KindOK(p)' /\ SlotOK(p)'
        BY <1>1, <1>4, <2>3, <2>4 DEF LocalOK, KindOK, SlotOK
      <3>. QED  BY <3>1, <3>2, <3>3 DEF LocalOK
    <2>7. pc[p] # "init" /\ pc'[p] # "init" /\ ref' \in [Inum -> Nat] /\ busy' \in [Inum -> BOOLEAN]
          /\ LocksQuiet(p)
      BY <1>1, <1>2, <2>0, <2>1, <2>3, <2>4 DEF Types, LocksQuiet
    <2>. QED
      BY <1>1, <1>4, <2>3, <2>4, <2>5, <2>6, <2>7, MoveStep DEF ClaimOn, IInv, NoPanic
  <1>. QED  BY <1>5, <1>6

LEMMA CloseStep ==
  ASSUME IInv, NEW p \in Proc, Close(p)
  PROVE  IInv'
  <1>1. /\ Types /\ pc[p] = "idle" /\ puts[p] = <<>> /\ freeing[p] = "idle"
        /\ ~HoldsDp(p) /\ ~HoldsIp(p) /\ \A i \in Inum : ~Owns(p, i)
        /\ file[p] # NoInum
        /\ UNCHANGED <<diskvars, cachevars, pc, frame, freeing, crashes, panicked>>
    BY IdleFacts DEF Close, Ready
  <1>2. Moves(p, "idle", frame[p], <<file[p]>>, NoInum)
    BY <1>1, SameProc DEF Close, DoPuts, Moves
  <1>3. file[p] \in Inum /\ frame[p] \in Frames /\ busy' \in [Inum -> BOOLEAN] /\ pc[p] # "init"
        /\ \A i \in Inum : busy'[i] = busy[i]
    BY <1>1 DEF Types, cachevars
  <1>4. <<file[p]>> \in PutLists
        /\ \A i : Queued(<<file[p]>>, i) = CountIf(file[p] = i) /\ Queued(<<>>, i) = 0
    BY <1>3, PutFacts
  <1>5. \A i \in Inum : Count(p, i) = CountIf(i = Root) + CountIf(NoInum = i) + Queued(<<file[p]>>, i)
    BY <1>1, <1>4, NoInumAssumption DEF Count, CountIf
  <1>6. InodesQuiet(p) /\ CacheTypes' /\ ref' = ref  BY <1>1, SameInodes DEF diskvars, cachevars
  <1>. QED  BY <1>1, <1>2, <1>3, <1>4, <1>5, <1>6, ReturnStep DEF IInv, NoPanic

-----------------------------------------------------------------------------
(* The steps that write inodes and entries                                     *)

LEMMA InitInodeStep ==
  ASSUME IInv, NEW p \in Proc, InitInode(p)
  PROVE  IInv'
  <1>. DEFINE i == Ip(p)
              r == [dinode[i] EXCEPT !.nlink = 1]
              l == IF Call(p) = "mkdir" THEN "dotdot" ELSE "dirlink"
  <1>1. /\ pc[p] = "init" /\ ~busy[i] /\ busy' = [busy EXCEPT ![i] = TRUE]
        /\ valid' = [valid EXCEPT ![i] = TRUE] /\ Call(p) \in {"open", "mkdir"}
        /\ Iupdate(i, [Loaded(i) EXCEPT !.nlink = 1])
        /\ panicked' = (Loaded(i).type = "free")
        /\ UNCHANGED <<dent, used, full, ref, puts, freeing, file, crashes>>
        /\ puts[p] = <<>> /\ freeing[p] = "idle" /\ Path(p) \in One
        /\ LocalOK(p) /\ Types
    BY DEF InitInode, IInv, Locals, LocalOK, PutsOK, CallOK, PathOK, Creates
  <1>2. /\ HoldsDp(p) /\ HoldsIp(p) /\ Dp(p) \in Inum /\ i \in Inum \ {Root} /\ ~Linked(p)
        /\ ~Claim(p) /\ ~DirClaim(p) /\ \A j \in Inum : Owns(p, j) <=> j = Dp(p)
        /\ dinode[i].nlink = 0
    BY <1>1
    DEF HoldsDp, HoldsIp, Linked, Claim, DirClaim, Owns, Writes, LocalOK, InumOK, KindOK
  <1>3. Safe(p, i) /\ Loaded(i) = dinode[i] /\ dinode[i].type # "free" /\ ~panicked'
        /\ dinode[i] \in Inode /\ r \in Inode /\ r.type = dinode[i].type
        /\ r.addrs = dinode[i].addrs /\ r.nlink = 1
    <2>1. Safe(p, i) /\ Loaded(i) = dinode[i]  BY <1>1, InitSafe
    <2>2. dinode[i] \in Inode  BY <1>1, <1>2 DEF Types
    <2>. QED  BY <1>1, <2>1, <2>2, InodeFacts DEF Safe
  <1>4. valid[Dp(p)] /\ busy[Dp(p)] /\ Dp(p) # i
    BY <1>1, <1>2, OwnerFacts
  <1>5. Moves(p, l, frame[p], puts[p], file[p])
    BY <1>1, SameProc DEF InitInode, Goes, Enters, Moves
  <1>6. Iupdate(i, r)  BY <1>1, <1>3
  <1>. HIDE DEF r
  <1>7. /\ InodesQuiet(p) /\ CacheTypes' /\ DiskTypes' /\ SameTypes /\ valid'[i] /\ dinode'[i] = r
        /\ \A j \in Inum \ {i} : dinode'[j] = dinode[j]
    BY <1>1, <1>2, <1>3, <1>6, UpdateQuiet
  <1>8. valid'[Dp(p)]  BY <1>1, <1>2, <1>4 DEF Types
  <1>9. /\ ProcTypes' /\ ActsAlone(p)
        /\ pc'[p] = l /\ frame'[p] = frame[p] /\ puts'[p] = puts[p] /\ file'[p] = file[p]
    <2>1. l \in Pcs  BY DEF Pcs
    <2>. QED  BY <1>1, <1>5, <2>1, SameProc, MovesFacts
  <1>10. /\ Call(p)' = Call(p) /\ Path(p)' = Path(p) /\ Dp(p)' = Dp(p) /\ Ip(p)' = i
         /\ HoldsDp(p)' /\ HoldsIp(p)' /\ ~Linked(p)' /\ ~Writes(p)' /\ ~DirClaim(p)' /\ Claim(p)'
    BY <1>1, <1>9
    DEF Call, Path, Dp, Ip, HoldsDp, HoldsIp, Linked, Writes, DirClaim, Claim
  <1>11. \A j \in Inum : Owns(p, j)' <=> j = Dp(p) \/ (j = i /\ Call(p) = "mkdir") \/ j = i
    BY <1>1, <1>9, <1>10 DEF Owns, Writes
  <1>12. LocksQuiet(p) /\ busy' \in [Inum -> BOOLEAN]
    <2>1. busy \in [Inum -> BOOLEAN]  BY <1>1 DEF Types
    <2>. QED  BY <1>1, <1>2, <1>4, <1>11, <2>1 DEF LocksQuiet
  <1>13. \A j \in Inum : Count(p, j)' = Count(p, j)
    BY <1>1, <1>2, <1>9, <1>10, CountAfter DEF CountIf
  <1>14. LocalOK(p)'
    <2>1. PathOK(p)' /\ CallOK(p)' /\ PutsOK(p)'
      BY <1>1, <1>2, <1>9, <1>10 DEF LocalOK, PathOK, CallOK, PutsOK, Creates
    <2>2. InumOK(p)' /\ LoadedOK(p)'
      BY <1>2, <1>4, <1>7, <1>8, <1>9, <1>10, <1>11 DEF InumOK, LoadedOK
    <2>3. KindOK(p)'
      BY <1>1, <1>2, <1>7, <1>9, <1>10 DEF LocalOK, KindOK, SameTypes, Types
    <2>4. SlotOK(p)'  BY <1>1, <1>9, <1>10 DEF LocalOK, SlotOK, Entry
    <2>. QED  BY <2>1, <2>2, <2>3, <2>4 DEF LocalOK
  <1>15. \A j \in Inum : /\ dinode'[j].addrs = dinode[j].addrs
                         /\ dinode'[j].nlink >= dinode[j].nlink
                              + (CountIf(ClaimOn(p, j)') - CountIf(ClaimOn(p, j)))
    <2>1. \A j \in Inum : dinode[j].nlink \in Nat  BY <1>1 DEF Types, Inode
    <2>. QED  BY <1>2, <1>3, <1>7, <1>10, <2>1 DEF ClaimOn, CountIf
  <1>16. dinode'[Root].nlink >= dinode[Root].nlink + (CountIf(DirClaim(p)') - CountIf(DirClaim(p)))
    <2>1. Root \in Inum  BY InumAssumption DEF Root, Inum
    <2>2. dinode[Root].nlink \in Nat  BY <1>1, <2>1 DEF Types, Inode
    <2>. QED  BY <1>2, <1>7, <1>10, <2>1, <2>2 DEF CountIf
  <1>17. pc'[p] # "init"  BY <1>9
  <1>. QED
    BY <1>1, <1>3, <1>7, <1>9, <1>10, <1>12, <1>13, <1>14, <1>15, <1>16, <1>17, UpdateStep

LEMMA DotdotStep ==
  ASSUME IInv, NEW p \in Proc, Dotdot(p)
  PROVE  IInv'
  <1>. DEFINE i == Dp(p)
              r == [dinode[i] EXCEPT !.nlink = @ + 1]
  <1>1. /\ pc[p] = "dotdot" /\ Call(p) = "mkdir"
        /\ Iupdate(i, [inode[i] EXCEPT !.nlink = @ + 1])
        /\ UNCHANGED <<dent, used, full, ref, busy, valid, puts, freeing, file, crashes, panicked>>
        /\ puts[p] = <<>> /\ freeing[p] = "idle" /\ Path(p) \in One
        /\ LocalOK(p) /\ Types
    BY DEF Dotdot, IInv, Locals, LocalOK, PutsOK, CallOK, PathOK
  <1>2. /\ HoldsDp(p) /\ HoldsIp(p) /\ i = Root /\ i \in Inum /\ Ip(p) \in Inum \ {Root} /\ ~Linked(p)
        /\ Claim(p) /\ ~DirClaim(p) /\ \A j \in Inum : Owns(p, j) <=> j \in {i, Ip(p)}
    BY <1>1
    DEF HoldsDp, HoldsIp, Linked, Claim, DirClaim, Owns, Writes, LocalOK, InumOK, PathOK
  <1>3. Safe(p, i) /\ valid[i] /\ inode[i] = dinode[i] /\ dinode[i] \in Inode /\ dinode[i].nlink \in Nat
        /\ r \in Inode /\ r.type = dinode[i].type
        /\ r.addrs = dinode[i].addrs /\ r.nlink = dinode[i].nlink + 1
    <2>1. Safe(p, i) /\ valid[i] /\ inode[i] = dinode[i] /\ dinode[i] \in Inode
      BY <1>1, <1>2, OwnerFacts
    <2>2. dinode[i].nlink \in Nat /\ dinode[i].nlink + 1 \in Nat  BY <2>1 DEF Inode
    <2>. QED  BY <2>1, <2>2, InodeFacts
  <1>4. Moves(p, "dirlink", frame[p], puts[p], file[p])
    BY <1>1, SameProc DEF Dotdot, Goes, Enters, Moves
  <1>5. Iupdate(i, r)  BY <1>1, <1>3
  <1>. HIDE DEF r
  <1>6. /\ InodesQuiet(p) /\ CacheTypes' /\ DiskTypes' /\ SameTypes /\ valid'[i] /\ dinode'[i] = r
        /\ \A j \in Inum \ {i} : dinode'[j] = dinode[j]
    BY <1>1, <1>2, <1>3, <1>5, UpdateQuiet
  <1>7. /\ ProcTypes' /\ ActsAlone(p)
        /\ pc'[p] = "dirlink" /\ frame'[p] = frame[p] /\ puts'[p] = puts[p] /\ file'[p] = file[p]
    <2>1. "dirlink" \in Pcs  BY DEF Pcs
    <2>. QED  BY <1>1, <1>4, <2>1, SameProc, MovesFacts
  <1>8. /\ Call(p)' = Call(p) /\ Path(p)' = Path(p) /\ Dp(p)' = i /\ Ip(p)' = Ip(p)
        /\ HoldsDp(p)' /\ HoldsIp(p)' /\ ~Linked(p)' /\ ~Writes(p)' /\ DirClaim(p)' /\ Claim(p)'
    BY <1>1, <1>7
    DEF Call, Path, Dp, Ip, HoldsDp, HoldsIp, Linked, Writes, DirClaim, Claim
  <1>9. \A j \in Inum : Owns(p, j)' <=> j \in {i, Ip(p)}
    BY <1>1, <1>7, <1>8 DEF Owns, Writes
  <1>10. LocksQuiet(p) /\ busy' \in [Inum -> BOOLEAN]
    BY <1>1, <1>2, <1>9 DEF LocksQuiet, Types
  <1>11. \A j \in Inum : Count(p, j)' = Count(p, j)
    BY <1>1, <1>2, <1>7, <1>8, CountAfter DEF CountIf
  <1>12. LocalOK(p)'
    <2>1. PathOK(p)' /\ CallOK(p)' /\ PutsOK(p)'
      BY <1>1, <1>2, <1>7, <1>8 DEF LocalOK, PathOK, CallOK, PutsOK, Creates
    <2>2. InumOK(p)' /\ LoadedOK(p)'
      BY <1>1, <1>2, <1>6, <1>7, <1>8, <1>9 DEF LocalOK, InumOK, LoadedOK
    <2>3. KindOK(p)'
      BY <1>1, <1>2, <1>6, <1>7, <1>8 DEF LocalOK, KindOK, SameTypes, Types
    <2>4. SlotOK(p)'  BY <1>1, <1>7, <1>8 DEF LocalOK, SlotOK, Entry
    <2>. QED  BY <2>1, <2>2, <2>3, <2>4 DEF LocalOK
  <1>13. \A j \in Inum : /\ dinode'[j].addrs = dinode[j].addrs
                         /\ dinode'[j].nlink >= dinode[j].nlink
                              + (CountIf(ClaimOn(p, j)') - CountIf(ClaimOn(p, j)))
    <2>1. \A j \in Inum : dinode[j].nlink \in Nat  BY <1>1 DEF Types, Inode
    <2>. QED  BY <1>2, <1>3, <1>6, <1>8, <2>1 DEF ClaimOn, CountIf
  <1>14. dinode'[Root].nlink >= dinode[Root].nlink + (CountIf(DirClaim(p)') - CountIf(DirClaim(p)))
    BY <1>2, <1>3, <1>6, <1>8 DEF CountIf
  <1>15. pc[p] # "init" /\ pc'[p] # "init" /\ ~panicked'  BY <1>1, <1>7 DEF IInv, NoPanic
  <1>. QED
    BY <1>1, <1>6, <1>7, <1>8, <1>10, <1>11, <1>12, <1>13, <1>14, <1>15, UpdateStep

LEMMA DirlinkStep ==
  ASSUME IInv, NEW p \in Proc, Dirlink(p)
  PROVE  IInv'
  <1>. DEFINE d == Dp(p)
              n == Head(Path(p))
  <1>1. /\ pc[p] = "dirlink" /\ dent' = [dent EXCEPT ![d][n] = Ip(p)]
        /\ busy' = [busy EXCEPT ![d] = FALSE]
        /\ UNCHANGED <<dinode, used, full, inode, ref, valid, freeing, file, crashes, panicked>>
        /\ puts[p] = <<>> /\ freeing[p] = "idle" /\ Path(p) \in One /\ dent[d][n] = NoInum
        /\ Call(p) \in {"open", "mkdir"} /\ LocalOK(p) /\ Types
    BY DEF Dirlink, SetEntry, IInv, Locals, LocalOK, PutsOK, CallOK, PathOK, SlotOK, Entry, Creates
  <1>2. /\ HoldsDp(p) /\ HoldsIp(p) /\ d \in Inum /\ Ip(p) \in Inum \ {Root} /\ ~Linked(p)
        /\ Claim(p) /\ (DirClaim(p) <=> Call(p) = "mkdir") /\ d # Ip(p)
        /\ \A j \in Inum : Owns(p, j) <=> j \in {d, Ip(p)}
        /\ dinode[Ip(p)].type = IF Call(p) = "open" THEN "file" ELSE "dir"
        /\ (Call(p) = "mkdir" => d = Root)
    BY <1>1
    DEF HoldsDp, HoldsIp, Linked, Claim, DirClaim, Owns, Writes, LocalOK, InumOK, PathOK, KindOK, LoadedOK
  <1>3. n \in Name  BY <1>1, PathFacts
  <1>4. Safe(p, d)  BY <1>1, <1>2, OwnerFacts
  <1>5. <<d>> \in PutLists /\ \A j : Queued(<<d>>, j) = CountIf(d = j) /\ Queued(<<>>, j) = 0
    BY <1>2, PutFacts
  <1>6. Moves(p, "made", frame[p], <<d>>, file[p])
    BY <1>1, SameProc DEF Dirlink, Goes, Enters, Moves, DoPuts
  <1>. HIDE DEF n
  <1>7. /\ ProcTypes' /\ ActsAlone(p)
        /\ pc'[p] = "made" /\ frame'[p] = frame[p] /\ puts'[p] = <<d>> /\ file'[p] = file[p]
    <2>1. "made" \in Pcs  BY DEF Pcs
    <2>. QED  BY <1>1, <1>5, <1>6, <2>1, SameProc, MovesFacts
  <1>8. /\ Call(p)' = Call(p) /\ Ip(p)' = Ip(p)
        /\ ~HoldsDp(p)' /\ HoldsIp(p)' /\ ~Linked(p)' /\ ~Writes(p)' /\ ~DirClaim(p)' /\ ~Claim(p)'
        /\ \A j \in Inum : Owns(p, j)' <=> j = Ip(p)
    BY <1>1, <1>7
    DEF Call, Ip, HoldsDp, HoldsIp, Linked, Writes, DirClaim, Claim, Owns
  <1>9. LocksQuiet(p) /\ busy' \in [Inum -> BOOLEAN]
    <2>1. busy \in [Inum -> BOOLEAN]  BY <1>1 DEF Types
    <2>. QED  BY <1>1, <1>2, <1>8, <2>1 DEF LocksQuiet
  <1>10. InodesQuiet(p) /\ CacheTypes'  BY <1>1, SameInodes
  <1>11. \A j \in Inum : Count(p, j)' = Count(p, j)
    BY <1>1, <1>2, <1>5, <1>7, <1>8, CountAfter DEF CountIf
  <1>12. LocalOK(p)'
    <2>1. PathOK(p)' /\ CallOK(p)' /\ PutsOK(p)'
      BY <1>1, <1>2, <1>7, <1>8 DEF LocalOK, PathOK, CallOK, PutsOK, Creates
    <2>2. InumOK(p)' /\ LoadedOK(p)'
      BY <1>1, <1>2, <1>7, <1>8 DEF LocalOK, InumOK, LoadedOK
    <2>3. KindOK(p)' /\ SlotOK(p)'
      BY <1>1, <1>2, <1>7, <1>8 DEF LocalOK, KindOK, SlotOK
    <2>. QED  BY <2>1, <2>2, <2>3 DEF LocalOK
  <1>13. ~IsDir(NoInum) /\ (IsDir(Ip(p)) <=> Call(p) = "mkdir")
    BY <1>1, <1>2, NoInumAssumption DEF IsDir
  <1>14. \A j \in Inum : 0 >= (CountIf(Ip(p) = j) - CountIf(dent[d][n] = j))
                                + (CountIf(ClaimOn(p, j)') - CountIf(ClaimOn(p, j)))
    BY <1>1, <1>2, <1>8, NoInumAssumption DEF ClaimOn, CountIf, n
  <1>15. 0 >= (CountIf(d = Root /\ IsDir(Ip(p))) - CountIf(d = Root /\ IsDir(dent[d][n])))
                + (CountIf(DirClaim(p)') - CountIf(DirClaim(p)))
    BY <1>1, <1>2, <1>8, <1>13 DEF CountIf, n
  <1>16. /\ pc[p] # "init" /\ pc'[p] # "init" /\ ~panicked' /\ dent' = [dent EXCEPT ![d][n] = Ip(p)]
         /\ Ip(p) \in Inum \cup {NoInum} /\ Ip(p) # Root /\ (IsDir(Ip(p)) => d = Root)
    BY <1>1, <1>2, <1>7, <1>13 DEF IInv, NoPanic, n
  <1>. QED
    BY <1>1, <1>2, <1>3, <1>4, <1>7, <1>8, <1>9, <1>10, <1>11, <1>12, <1>14, <1>15, <1>16, EntryUpdateStep, ZenonT(60)

LEMMA VictimStep ==
  ASSUME IInv, NEW p \in Proc, Victim(p)
  PROVE  IInv'
  <1>. DEFINE d == Dp(p)
              n == Head(Path(p))
              i == Ip(p)
  <1>1. /\ pc[p] = "victim" /\ ~busy[i] /\ valid' = [valid EXCEPT ![i] = TRUE]
        /\ inode' = [inode EXCEPT ![i] = Loaded(i)]
        /\ panicked' = (Loaded(i).type = "free" \/ Loaded(i).nlink < 1)
        /\ UNCHANGED <<dinode, used, full, ref, freeing, file, crashes>>
        /\ puts[p] = <<>> /\ freeing[p] = "idle" /\ Path(p) \in One /\ dent[d][n] = i
        /\ Call(p) \in {"unlink", "rmdir"} /\ LocalOK(p) /\ Types
    BY DEF Victim, IInv, Locals, LocalOK, PutsOK, CallOK, PathOK, SlotOK, Entry, Unlinks
  <1>2. /\ HoldsDp(p) /\ HoldsIp(p) /\ d \in Inum /\ i \in Inum \ {Root} /\ ~Linked(p)
        /\ ~Claim(p) /\ ~DirClaim(p) /\ ~Writes(p)
        /\ \A j \in Inum : Owns(p, j) <=> j = d
    BY <1>1 DEF HoldsDp, HoldsIp, Linked, Claim, DirClaim, Owns, Writes, LocalOK, InumOK
  <1>3. n \in Name  BY <1>1, PathFacts
  <1>4. Safe(p, d) /\ busy[d] /\ valid[d] /\ d # i  BY <1>1, <1>2, OwnerFacts
  <1>5. /\ Safe(p, i) /\ Loaded(i) = dinode[i] /\ dinode[i].type # "free" /\ dinode[i] \in Inode
        /\ dinode[i].nlink >= 1 /\ dinode[i].nlink \in Nat /\ ~panicked'
    <2>1. Uses(p, i)  BY <1>1, <1>2 DEF Uses
    <2>2. Safe(p, i) /\ Loaded(i) = dinode[i] /\ dinode[i].type # "free" /\ dinode[i] \in Inode
      BY <1>1, <1>2, <2>1, VisitFacts
    <2>3. i # NoInum  BY <1>2, NoInumAssumption
    <2>4. dinode[i].nlink >= 1  BY <1>1, <1>2, <1>3, <2>3, EntryFacts
    <2>5. dinode[i].nlink \in Nat  BY <2>2 DEF Inode
    <2>6. ~(Loaded(i).type = "free" \/ Loaded(i).nlink < 1)  BY <2>2, <2>4, <2>5
    <2>7. ~panicked'  BY <1>1, <2>6
    <2>. QED  BY <2>2, <2>4, <2>5, <2>7
  <1>6. InodesQuiet(p) /\ CacheTypes' /\ valid'[i] /\ \A j \in Inum : valid[j] => valid'[j]
    BY <1>1, <1>2, <1>5, LoadQuiet DEF Types
  <1>7. /\ NoFrame \in Frames /\ file[p] \in Inum \cup {NoInum} /\ frame[p] \in Frames
        /\ (file[p] # NoInum => dinode[file[p]].type = "file") /\ busy \in [Inum -> BOOLEAN]
    BY <1>1, FrameFacts DEF FrameIs, LocalOK, KindOK, Types
  <1>8. CASE Loaded(i).type = "dir" /\ ~IsDirEmpty(i)
    <2>. DEFINE s == <<i, d>>
    <2>1. /\ Moves(p, "idle", NoFrame, s, file[p]) /\ busy' = [busy EXCEPT ![d] = FALSE]
          /\ dent' = dent
      BY <1>1, <1>8, SameProc DEF Victim, Goes, Enters, Moves, DoPuts
    <2>2. s \in PutLists
          /\ \A j : Queued(s, j) = CountIf(i = j) + CountIf(d = j) /\ Queued(<<>>, j) = 0
      BY <1>2, PutFacts
    <2>. HIDE DEF s
    <2>3. \A j \in Inum : Count(p, j) = CountIf(j = Root) + CountIf(file[p] = j) + Queued(s, j)
      BY <1>1, <1>2, <2>2 DEF Count, CountIf
    <2>4. /\ busy' \in [Inum -> BOOLEAN] /\ pc[p] # "init"
          /\ \A j \in Inum : IF Owns(p, j) THEN ~busy'[j] ELSE busy'[j] = busy[j]
      BY <1>1, <1>2, <1>7, <2>1
    <2>5. UNCHANGED <<diskvars, ref, freeing, crashes>> /\ freeing[p] = "idle" /\ ~panicked'
      BY <1>1, <1>5, <2>1 DEF diskvars
    <2>6. /\ s \in PutLists /\ NoFrame \in Frames /\ file[p] \in Inum \cup {NoInum}
          /\ (file[p] # NoInum => dinode[file[p]].type = "file") /\ Moves(p, "idle", NoFrame, s, file[p])
      BY <1>7, <2>1, <2>2
    <2>. QED  BY <1>6, <2>3, <2>4, <2>5, <2>6, ReturnStep
  <1>9. CASE ~(Loaded(i).type = "dir" /\ ~IsDirEmpty(i))
    <2>1. /\ Moves(p, "erased", frame[p], puts[p], file[p]) /\ busy' = [busy EXCEPT ![i] = TRUE]
          /\ dent' = [dent EXCEPT ![d][n] = NoInum]
      BY <1>1, <1>9, SameProc DEF Victim, Goes, Enters, Moves, SetEntry
    <2>. HIDE DEF n
    <2>2. /\ ProcTypes' /\ ActsAlone(p)
          /\ pc'[p] = "erased" /\ frame'[p] = frame[p] /\ puts'[p] = puts[p] /\ file'[p] = file[p]
      <3>1. "erased" \in Pcs  BY DEF Pcs
      <3>. QED  BY <1>1, <2>1, <3>1, SameProc, MovesFacts
    <2>3. dinode' = dinode  BY <1>1
    <2>4. /\ Call(p)' = Call(p) /\ Ip(p)' = i /\ Dp(p)' = d
          /\ HoldsDp(p)' /\ HoldsIp(p)' /\ ~Linked(p)' /\ ~Writes(p)' /\ Claim(p)'
          /\ (DirClaim(p)' <=> dinode[i].type = "dir")
          /\ \A j \in Inum : Owns(p, j)' <=> j \in {i, d}
      BY <1>1, <2>2, <2>3
      DEF Call, Dp, Ip, HoldsDp, HoldsIp, Linked, Writes, DirClaim, Claim, Owns
    <2>5. LocksQuiet(p) /\ busy' \in [Inum -> BOOLEAN]
      BY <1>1, <1>2, <1>4, <1>7, <2>1, <2>4 DEF LocksQuiet
    <2>6. \A j \in Inum : Count(p, j)' = Count(p, j)
      BY <1>1, <1>2, <2>2, <2>4, CountAfter DEF CountIf
    <2>7. dinode[i].type = "dir" => d = Root
      BY <1>1, <1>2, <1>3 DEF IInv, EntryKinds
    <2>8. LocalOK(p)'
      <3>1. PathOK(p)' /\ CallOK(p)' /\ PutsOK(p)'
        BY <1>1, <1>2, <2>2, <2>4 DEF LocalOK, PathOK, CallOK, PutsOK, Unlinks
      <3>2. InumOK(p)' /\ LoadedOK(p)'
        BY <1>2, <1>4, <1>6, <2>2, <2>4 DEF InumOK, LoadedOK
      <3>3. KindOK(p)' /\ SlotOK(p)'
        BY <1>1, <1>7, <2>2, <2>3, <2>4, <2>7 DEF KindOK, SlotOK
      <3>. QED  BY <3>1, <3>2, <3>3 DEF LocalOK
    <2>9. ~IsDir(NoInum) /\ (IsDir(i) <=> dinode[i].type = "dir")
      BY <1>2, NoInumAssumption DEF IsDir
    <2>10. dent[d][n] = i /\ NoInum \in Inum \cup {NoInum} /\ NoInum # Root
           /\ pc[p] # "init" /\ pc'[p] # "init"
      BY <1>1, <2>2, NoInumAssumption, InumAssumption DEF n, Root, Inum
    <2>11. \A j \in Inum : 0 >= (CountIf(NoInum = j) - CountIf(dent[d][n] = j))
                                  + (CountIf(ClaimOn(p, j)') - CountIf(ClaimOn(p, j)))
      BY <1>2, <2>4, <2>10, NoInumAssumption DEF ClaimOn, CountIf
    <2>12. 0 >= (CountIf(d = Root /\ IsDir(NoInum)) - CountIf(d = Root /\ IsDir(dent[d][n])))
                + (CountIf(DirClaim(p)') - CountIf(DirClaim(p)))
      BY <1>2, <2>4, <2>7, <2>9, <2>10 DEF CountIf
    <2>13. UNCHANGED <<dinode, used, full, ref, freeing, crashes>> /\ ~panicked' /\ freeing[p] = "idle"
      BY <1>1, <1>5
    <2>. QED
      BY <1>2, <1>3, <1>4, <1>6, <2>1, <2>2, <2>4, <2>5, <2>6, <2>8, <2>9, <2>10, <2>11, <2>12,
         <2>13, EntryUpdateStep
  <1>. QED  BY <1>8, <1>9

LEMMA ErasedStep ==
  ASSUME IInv, NEW p \in Proc, Erased(p)
  PROVE  IInv'
  <1>. DEFINE d == Dp(p)
              i == Ip(p)
              r == [dinode[d] EXCEPT !.nlink = @ - 1]
  <1>1. /\ pc[p] = "erased" /\ busy' = [busy EXCEPT ![d] = FALSE]
        /\ UNCHANGED <<dent, used, full, ref, valid, freeing, file, crashes, panicked>>
        /\ puts[p] = <<>> /\ freeing[p] = "idle" /\ Call(p) \in {"unlink", "rmdir"}
        /\ LocalOK(p) /\ Types
    BY DEF Erased, IInv, Locals, LocalOK, PutsOK, CallOK, Unlinks
  <1>2. /\ HoldsDp(p) /\ HoldsIp(p) /\ d \in Inum /\ i \in Inum \ {Root} /\ ~Linked(p)
        /\ Claim(p) /\ (DirClaim(p) <=> dinode[i].type = "dir") /\ ~Writes(p) /\ d # i
        /\ (dinode[i].type = "dir" => d = Root)
        /\ \A j \in Inum : Owns(p, j) <=> j \in {i, d}
    BY <1>1
    DEF HoldsDp, HoldsIp, Linked, Claim, DirClaim, Owns, Writes, LocalOK, InumOK, LoadedOK, KindOK
  <1>3. /\ Safe(p, d) /\ valid[d] /\ inode[d] = dinode[d] /\ dinode[d] \in Inode
        /\ valid[i] /\ inode[i] = dinode[i]
    BY <1>1, <1>2, OwnerFacts
  <1>4. /\ <<d>> \in PutLists /\ <<d>> # <<>> /\ \A j : Queued(<<d>>, j) = CountIf(d = j) /\ Queued(<<>>, j) = 0
    BY <1>2, PutFacts
  <1>5. Moves(p, "unlinked", frame[p], <<d>>, file[p])
    BY <1>1, SameProc DEF Erased, Goes, Enters, Moves, DoPuts
  <1>6. /\ ProcTypes' /\ ActsAlone(p)
        /\ pc'[p] = "unlinked" /\ frame'[p] = frame[p] /\ puts'[p] = <<d>> /\ file'[p] = file[p]
    <2>1. "unlinked" \in Pcs  BY DEF Pcs
    <2>. QED  BY <1>1, <1>4, <1>5, <2>1, SameProc, MovesFacts
  <1>7. /\ Call(p)' = Call(p) /\ Ip(p)' = i
        /\ ~HoldsDp(p)' /\ HoldsIp(p)' /\ ~Linked(p)' /\ ~Writes(p)' /\ Claim(p)' /\ ~DirClaim(p)'
        /\ \A j \in Inum : Owns(p, j)' <=> j = i
    BY <1>1, <1>6 DEF Call, Ip, HoldsDp, HoldsIp, Linked, Writes, DirClaim, Claim, Owns
  <1>8. LocksQuiet(p) /\ busy' \in [Inum -> BOOLEAN]
    <2>1. busy \in [Inum -> BOOLEAN]  BY <1>1 DEF Types
    <2>. QED  BY <1>1, <1>2, <1>7, <2>1 DEF LocksQuiet
  <1>9. ASSUME NEW j \in Inum  PROVE Count(p, j)' = Count(p, j)
    <2>1. Queued(puts'[p], j) = CountIf(d = j) /\ Queued(puts[p], j) = 0  BY <1>1, <1>4, <1>6
    <2>. QED  BY <1>1, <1>2, <1>6, <1>7, <2>1, CountAfter DEF CountIf
  <1>10. \A j \in Inum : dinode[j].nlink \in Nat /\ CountIf(ClaimOn(p, j)') = CountIf(ClaimOn(p, j))
    BY <1>1, <1>2, <1>7 DEF Types, Inode, ClaimOn
  <1>11. Root \in Inum  BY InumAssumption DEF Root, Inum
  <1>12. /\ InodesQuiet(p) /\ CacheTypes' /\ DiskTypes' /\ SameTypes
         /\ \A j \in Inum : /\ dinode'[j].addrs = dinode[j].addrs
                            /\ dinode'[j].nlink >= dinode[j].nlink \/ j = Root
         /\ dinode'[Root].nlink >= dinode[Root].nlink - CountIf(dinode[i].type = "dir")
    <2>1. CASE inode[i].type = "dir"
      <3>1. d = Root /\ DirClaim(p) /\ dinode[i].type = "dir"  BY <1>2, <1>3, <2>1
      <3>2. dinode[d].nlink \in Nat /\ dinode[d].nlink >= 1
        <4>1. p \in DirClaims  BY <3>1 DEF DirClaims
        <4>2. IsFiniteSet(DirClaims) /\ Cardinality(Subdirs) \in Nat /\ Cardinality(DirClaims) \in Nat
          BY LinksFinite, FS_CardinalityType DEF FiniteDirs
        <4>3. dinode[Root].nlink >= 1 + Cardinality(Subdirs) + Cardinality(DirClaims)
          BY DEF IInv, RootCovered
        <4>. QED  BY <1>10, <1>11, <3>1, <4>2, <4>3
      <3>3. /\ r \in Inode /\ r.type = dinode[d].type /\ r.addrs = dinode[d].addrs
            /\ r.nlink = dinode[d].nlink - 1
        <4>1. dinode[d].nlink - 1 \in Nat  BY <3>2
        <4>. QED  BY <1>3, <4>1, InodeFacts
      <3>4. Iupdate(d, r)
        <4>1. Iupdate(d, [inode[d] EXCEPT !.nlink = @ - 1])  BY <2>1 DEF Erased
        <4>. QED  BY <1>3, <4>1
      <3>. HIDE DEF r
      <3>5. /\ InodesQuiet(p) /\ CacheTypes' /\ DiskTypes' /\ SameTypes /\ dinode'[d] = r
            /\ \A j \in Inum \ {d} : dinode'[j] = dinode[j]
        BY <1>1, <1>2, <1>3, <3>3, <3>4, UpdateQuiet
      <3>. QED  BY <1>10, <1>11, <3>1, <3>2, <3>3, <3>5 DEF CountIf
    <2>2. CASE inode[i].type # "dir"
      <3>1. inode' = inode /\ dinode' = dinode  BY <2>2 DEF Erased
      <3>2. InodesQuiet(p) /\ CacheTypes' /\ DiskTypes' /\ SameTypes  BY <1>1, <3>1, SameInodes
      <3>3. dinode[i].type # "dir"  BY <1>3, <2>2
      <3>. QED  BY <1>10, <1>11, <3>1, <3>2, <3>3 DEF CountIf
    <2>. QED  BY <2>1, <2>2
  <1>13. LocalOK(p)'
    <2>1. PathOK(p)' /\ CallOK(p)' /\ PutsOK(p)'
      BY <1>1, <1>2, <1>4, <1>6, <1>7 DEF LocalOK, PathOK, CallOK, PutsOK, Unlinks
    <2>2. InumOK(p)' /\ LoadedOK(p)'
      BY <1>1, <1>2, <1>3, <1>6, <1>7 DEF InumOK, LoadedOK
    <2>3. KindOK(p)' /\ SlotOK(p)'
      BY <1>1, <1>6, <1>7, <1>12 DEF LocalOK, KindOK, SlotOK, SameTypes, Types
    <2>. QED  BY <2>1, <2>2, <2>3 DEF LocalOK
  <1>14. \A j \in Inum : \/ dinode'[j].nlink >= dinode[j].nlink
                                + (CountIf(ClaimOn(p, j)') - CountIf(ClaimOn(p, j)))
                         \/ j = Root /\ ~ClaimOn(p, j)'
    <2>1. \A j \in Inum : CountIf(ClaimOn(p, j)) \in {0, 1}  BY DEF CountIf
    <2>2. ~ClaimOn(p, Root)'  BY <1>2, <1>7 DEF ClaimOn
    <2>. QED  BY <1>10, <1>12, <2>1, <2>2
  <1>15. dinode'[Root].nlink >= dinode[Root].nlink + (CountIf(DirClaim(p)') - CountIf(DirClaim(p)))
    BY <1>2, <1>7, <1>10, <1>11, <1>12 DEF CountIf
  <1>16. pc[p] # "init" /\ pc'[p] # "init" /\ ~panicked'  BY <1>1, <1>6 DEF IInv, NoPanic
  <1>. QED
    BY <1>1, <1>6, <1>7, <1>8, <1>9, <1>12, <1>13, <1>14, <1>15, <1>16, UpdateStep

LEMMA UnlinkedStep ==
  ASSUME IInv, NEW p \in Proc, Unlinked(p)
  PROVE  IInv'
  <1>. DEFINE i == Ip(p)
              r == [dinode[i] EXCEPT !.nlink = @ - 1]
  <1>1. /\ pc[p] = "unlinked" /\ puts[p] = <<>> /\ freeing[p] = "idle"
        /\ Iupdate(i, [inode[i] EXCEPT !.nlink = @ - 1]) /\ busy' = [busy EXCEPT ![i] = FALSE]
        /\ UNCHANGED <<dent, used, full, ref, valid, freeing, file, crashes, panicked>>
        /\ LocalOK(p) /\ Types
    BY DEF Unlinked, Ready, IInv, Locals, LocalOK, PutsOK
  <1>2. /\ ~HoldsDp(p) /\ HoldsIp(p) /\ i \in Inum \ {Root} /\ Claim(p) /\ ~DirClaim(p)
        /\ \A j \in Inum : Owns(p, j) <=> j = i
    BY <1>1 DEF HoldsDp, HoldsIp, Claim, DirClaim, Writes, Owns, LocalOK, InumOK
  <1>3. /\ Safe(p, i) /\ valid[i] /\ inode[i] = dinode[i] /\ dinode[i] \in Inode
        /\ dinode[i].nlink >= 1 /\ dinode[i].nlink \in Nat
    <2>1. Safe(p, i) /\ valid[i] /\ inode[i] = dinode[i] /\ dinode[i] \in Inode
      BY <1>1, <1>2, OwnerFacts
    <2>2. dinode[i].nlink >= 1  BY <1>2, ClaimFacts
    <2>. QED  BY <2>1, <2>2 DEF Inode
  <1>4. r \in Inode /\ r.type = dinode[i].type /\ r.addrs = dinode[i].addrs /\ r.nlink = dinode[i].nlink - 1
    <2>1. dinode[i].nlink - 1 \in Nat  BY <1>3
    <2>. QED  BY <1>3, <2>1, InodeFacts
  <1>5. Iupdate(i, r)  BY <1>1, <1>3
  <1>. HIDE DEF r
  <1>6. /\ InodesQuiet(p) /\ CacheTypes' /\ DiskTypes' /\ SameTypes /\ dinode'[i] = r
        /\ \A j \in Inum \ {i} : dinode'[j] = dinode[j]
    BY <1>1, <1>2, <1>3, <1>4, <1>5, UpdateQuiet
  <1>7. /\ <<i>> \in PutLists /\ NoFrame \in Frames /\ file[p] \in Inum \cup {NoInum}
        /\ \A j : Queued(<<i>>, j) = CountIf(i = j) /\ Queued(<<>>, j) = 0
        /\ (file[p] # NoInum => dinode'[file[p]].type = "file")
    <2>1. <<i>> \in PutLists /\ \A j : Queued(<<i>>, j) = CountIf(i = j) /\ Queued(<<>>, j) = 0
      BY <1>2, PutFacts
    <2>2. NoFrame \in Frames  BY FrameFacts DEF FrameIs
    <2>3. file[p] \in Inum \cup {NoInum} /\ (file[p] # NoInum => dinode'[file[p]].type = "file")
      BY <1>1, <1>6 DEF LocalOK, KindOK, SameTypes, Types
    <2>. QED  BY <2>1, <2>2, <2>3
  <1>8. Moves(p, "idle", NoFrame, <<i>>, file[p])
    BY <1>1, SameProc DEF Unlinked, Goes, Enters, Moves, DoPuts
  <1>9. /\ ProcTypes' /\ ActsAlone(p) /\ pc'[p] = "idle"
        /\ LocalOK(p)' /\ ~Writes(p)' /\ ~DirClaim(p)'
        /\ \A j \in Inum : ~Owns(p, j)' /\ ~ClaimOn(p, j)'
        /\ \A j \in Inum : Count(p, j)' = CountIf(j = Root) + CountIf(file[p] = j) + Queued(<<i>>, j)
    BY <1>1, <1>7, <1>8, Returned
  <1>10. \A j \in Inum : Count(p, j)' = Count(p, j)
    BY <1>1, <1>2, <1>7, <1>9 DEF Count, CountIf
  <1>11. LocksQuiet(p) /\ busy' \in [Inum -> BOOLEAN]
    <2>1. busy \in [Inum -> BOOLEAN]  BY <1>1 DEF Types
    <2>. QED  BY <1>1, <1>2, <1>9, <2>1 DEF LocksQuiet
  <1>12. \A j \in Inum : /\ dinode'[j].addrs = dinode[j].addrs
                         /\ dinode'[j].nlink >= dinode[j].nlink
                              + (CountIf(ClaimOn(p, j)') - CountIf(ClaimOn(p, j)))
    <2>1. \A j \in Inum : dinode[j].nlink \in Nat  BY <1>1 DEF Types, Inode
    <2>. QED  BY <1>2, <1>3, <1>4, <1>6, <1>9, <2>1 DEF ClaimOn, CountIf
  <1>13. dinode'[Root].nlink >= dinode[Root].nlink + (CountIf(DirClaim(p)') - CountIf(DirClaim(p)))
    <2>1. Root \in Inum  BY InumAssumption DEF Root, Inum
    <2>2. dinode[Root].nlink \in Nat  BY <1>1, <2>1 DEF Types, Inode
    <2>. QED  BY <1>2, <1>6, <1>9, <2>1, <2>2 DEF CountIf
  <1>14. pc[p] # "init" /\ pc'[p] # "init" /\ ~panicked'  BY <1>1, <1>9 DEF IInv, NoPanic
  <1>. QED
    BY <1>1, <1>6, <1>9, <1>10, <1>11, <1>12, <1>13, <1>14, UpdateStep

LEMMA LinkBadStep ==
  ASSUME IInv, NEW p \in Proc, LinkBad(p)
  PROVE  IInv'
  <1>. DEFINE i == Ip(p)
              r == [dinode[i] EXCEPT !.nlink = @ - 1]
  <1>1. /\ pc[p] = "bad" /\ puts[p] = <<>> /\ freeing[p] = "idle" /\ ~busy[i]
        /\ Iupdate(i, [inode[i] EXCEPT !.nlink = @ - 1]) /\ Call(p) = "link"
        /\ UNCHANGED <<dent, used, full, ref, busy, valid, freeing, file, crashes, panicked>>
        /\ LocalOK(p) /\ Types
    BY DEF LinkBad, Ready, IInv, Locals, LocalOK, PutsOK, CallOK
  <1>2. /\ ~HoldsDp(p) /\ HoldsIp(p) /\ i \in Inum \ {Root} /\ Linked(p) /\ Claim(p) /\ ~DirClaim(p)
        /\ valid[i] /\ \A j \in Inum : ~Owns(p, j)
    BY <1>1 DEF HoldsDp, HoldsIp, Linked, Claim, DirClaim, Writes, Owns, LocalOK, InumOK, LoadedOK
  <1>3. /\ Safe(p, i) /\ inode[i] = dinode[i] /\ dinode[i] \in Inode
        /\ dinode[i].nlink >= 1 /\ dinode[i].nlink \in Nat
    <2>1. Uses(p, i)  BY <1>1, <1>2 DEF Uses
    <2>2. Safe(p, i) /\ Loaded(i) = dinode[i] /\ dinode[i] \in Inode  BY <1>1, <1>2, <2>1, VisitFacts
    <2>3. dinode[i].nlink >= 1  BY <1>2, ClaimFacts
    <2>. QED  BY <1>2, <2>2, <2>3 DEF Inode, Loaded
  <1>4. r \in Inode /\ r.type = dinode[i].type /\ r.addrs = dinode[i].addrs /\ r.nlink = dinode[i].nlink - 1
    <2>1. dinode[i].nlink - 1 \in Nat  BY <1>3
    <2>. QED  BY <1>3, <2>1, InodeFacts
  <1>5. Iupdate(i, r)  BY <1>1, <1>3
  <1>. HIDE DEF r
  <1>6. /\ InodesQuiet(p) /\ CacheTypes' /\ DiskTypes' /\ SameTypes /\ dinode'[i] = r
        /\ \A j \in Inum \ {i} : dinode'[j] = dinode[j]
    BY <1>1, <1>2, <1>3, <1>4, <1>5, UpdateQuiet
  <1>7. /\ <<i>> \in PutLists /\ NoFrame \in Frames /\ file[p] \in Inum \cup {NoInum}
        /\ \A j : Queued(<<i>>, j) = CountIf(i = j) /\ Queued(<<>>, j) = 0
        /\ (file[p] # NoInum => dinode'[file[p]].type = "file")
    <2>1. <<i>> \in PutLists /\ \A j : Queued(<<i>>, j) = CountIf(i = j) /\ Queued(<<>>, j) = 0
      BY <1>2, PutFacts
    <2>2. NoFrame \in Frames  BY FrameFacts DEF FrameIs
    <2>3. file[p] \in Inum \cup {NoInum} /\ (file[p] # NoInum => dinode'[file[p]].type = "file")
      BY <1>1, <1>6 DEF LocalOK, KindOK, SameTypes, Types
    <2>. QED  BY <2>1, <2>2, <2>3
  <1>8. Moves(p, "idle", NoFrame, <<i>>, file[p])
    BY <1>1, SameProc DEF LinkBad, Goes, Enters, Moves, DoPuts
  <1>9. /\ ProcTypes' /\ ActsAlone(p) /\ pc'[p] = "idle"
        /\ LocalOK(p)' /\ ~Writes(p)' /\ ~DirClaim(p)'
        /\ \A j \in Inum : ~Owns(p, j)' /\ ~ClaimOn(p, j)'
        /\ \A j \in Inum : Count(p, j)' = CountIf(j = Root) + CountIf(file[p] = j) + Queued(<<i>>, j)
    BY <1>1, <1>7, <1>8, Returned
  <1>10. \A j \in Inum : Count(p, j)' = Count(p, j)
    BY <1>1, <1>2, <1>7, <1>9 DEF Count, CountIf
  <1>11. LocksQuiet(p) /\ busy' \in [Inum -> BOOLEAN]
    BY <1>1, <1>2, <1>9 DEF LocksQuiet, Types
  <1>12. \A j \in Inum : /\ dinode'[j].addrs = dinode[j].addrs
                         /\ dinode'[j].nlink >= dinode[j].nlink
                              + (CountIf(ClaimOn(p, j)') - CountIf(ClaimOn(p, j)))
    <2>1. \A j \in Inum : dinode[j].nlink \in Nat  BY <1>1 DEF Types, Inode
    <2>. QED  BY <1>2, <1>3, <1>4, <1>6, <1>9, <2>1 DEF ClaimOn, CountIf
  <1>13. dinode'[Root].nlink >= dinode[Root].nlink + (CountIf(DirClaim(p)') - CountIf(DirClaim(p)))
    <2>1. Root \in Inum  BY InumAssumption DEF Root, Inum
    <2>2. dinode[Root].nlink \in Nat  BY <1>1, <2>1 DEF Types, Inode
    <2>. QED  BY <1>2, <1>6, <1>9, <2>1, <2>2 DEF CountIf
  <1>14. pc[p] # "init" /\ pc'[p] # "init" /\ ~panicked'  BY <1>1, <1>9 DEF IInv, NoPanic
  <1>. QED
    BY <1>1, <1>6, <1>9, <1>10, <1>11, <1>12, <1>13, <1>14, UpdateStep

LEMMA LinkCountStep ==
  ASSUME IInv, NEW p \in Proc, LinkCount(p)
  PROVE  IInv'
  <1>. DEFINE i == Ip(p)
              r == [dinode[i] EXCEPT !.nlink = @ + 1]
  <1>1. /\ pc[p] = "count" /\ puts[p] = <<>> /\ freeing[p] = "idle" /\ ~busy[i]
        /\ valid' = [valid EXCEPT ![i] = TRUE] /\ panicked' = (Loaded(i).type = "free")
        /\ UNCHANGED <<dent, used, full, ref, busy, freeing, file, crashes>>
        /\ Call(p) = "link" /\ Path(p) \in One \cup Two /\ LocalOK(p) /\ Types
    BY DEF LinkCount, Ready, IInv, Locals, LocalOK, PutsOK, PathOK, CallOK
  <1>2. /\ ~HoldsDp(p) /\ HoldsIp(p) /\ i \in Inum \ {Root} /\ ~Linked(p) /\ ~Claim(p) /\ ~DirClaim(p)
        /\ \A j \in Inum : ~Owns(p, j)
    BY <1>1 DEF HoldsDp, HoldsIp, Linked, Claim, DirClaim, Writes, Owns, LocalOK, InumOK
  <1>3. /\ Safe(p, i) /\ Loaded(i) = dinode[i] /\ dinode[i] \in Inode /\ dinode[i].nlink \in Nat
        /\ dinode[i].type # "free" /\ ~panicked'
    <2>1. Uses(p, i)  BY <1>1, <1>2 DEF Uses
    <2>2. Safe(p, i) /\ Loaded(i) = dinode[i] /\ dinode[i] \in Inode /\ dinode[i].type # "free"
      BY <1>1, <1>2, <2>1, VisitFacts
    <2>. QED  BY <1>1, <2>2 DEF Inode
  <1>4. /\ <<i>> \in PutLists /\ NoFrame \in Frames /\ file[p] \in Inum \cup {NoInum}
        /\ \A j : Queued(<<i>>, j) = CountIf(i = j) /\ Queued(<<>>, j) = 0
        /\ (file[p] # NoInum => dinode[file[p]].type = "file") /\ busy' \in [Inum -> BOOLEAN]
        /\ \A j \in Inum : IF Owns(p, j) THEN ~busy'[j] ELSE busy'[j] = busy[j]
    <2>1. <<i>> \in PutLists /\ \A j : Queued(<<i>>, j) = CountIf(i = j) /\ Queued(<<>>, j) = 0
      BY <1>2, PutFacts
    <2>2. NoFrame \in Frames  BY FrameFacts DEF FrameIs
    <2>3. file[p] \in Inum \cup {NoInum} /\ (file[p] # NoInum => dinode[file[p]].type = "file")
      BY <1>1 DEF LocalOK, KindOK, Types
    <2>4. busy' = busy /\ busy \in [Inum -> BOOLEAN]  BY <1>1 DEF Types
    <2>. QED  BY <1>2, <2>1, <2>2, <2>3, <2>4
  <1>5. CASE Loaded(i).type = "dir"
    <2>1. /\ Moves(p, "idle", NoFrame, <<i>>, file[p]) /\ dinode' = dinode
          /\ inode' = [inode EXCEPT ![i] = Loaded(i)]
      BY <1>1, <1>5, SameProc DEF LinkCount, Goes, Enters, Moves, DoPuts
    <2>2. InodesQuiet(p) /\ CacheTypes'  BY <1>1, <1>2, <1>3, <2>1, LoadQuiet DEF Types
    <2>3. \A j \in Inum : Count(p, j) = CountIf(j = Root) + CountIf(file[p] = j) + Queued(<<i>>, j)
      BY <1>1, <1>2, <1>4 DEF Count, CountIf
    <2>4. UNCHANGED <<diskvars, ref, freeing, crashes>> /\ pc[p] # "init"  BY <1>1, <2>1 DEF diskvars
    <2>. QED  BY <1>1, <1>3, <1>4, <2>1, <2>2, <2>3, <2>4, ReturnStep
  <1>6. CASE Loaded(i).type # "dir"
    <2>1. Moves(p, "walk", frame[p], puts[p], file[p])
      BY <1>1, <1>6, SameProc DEF LinkCount, Goes, Enters, Moves
    <2>2. r \in Inode /\ r.type = "file" /\ dinode[i].type = "file"
          /\ r.addrs = dinode[i].addrs /\ r.nlink = dinode[i].nlink + 1
      <3>1. dinode[i].nlink + 1 \in Nat  BY <1>3
      <3>2. dinode[i].type = "file"  BY <1>3, <1>6 DEF Inode
      <3>. QED  BY <1>3, <3>1, <3>2, InodeFacts
    <2>3. Iupdate(i, r)
      <3>1. Iupdate(i, [Loaded(i) EXCEPT !.nlink = @ + 1])  BY <1>6 DEF LinkCount
      <3>. QED  BY <1>3, <3>1
    <2>. HIDE DEF r
    <2>4. /\ InodesQuiet(p) /\ CacheTypes' /\ DiskTypes' /\ SameTypes /\ dinode'[i] = r /\ valid'[i]
          /\ \A j \in Inum \ {i} : dinode'[j] = dinode[j]
      BY <1>1, <1>2, <1>3, <2>2, <2>3, UpdateQuiet
    <2>5. /\ ProcTypes' /\ ActsAlone(p)
          /\ pc'[p] = "walk" /\ frame'[p] = frame[p] /\ puts'[p] = puts[p] /\ file'[p] = file[p]
      <3>1. "walk" \in Pcs  BY DEF Pcs
      <3>. QED  BY <1>1, <2>1, <3>1, SameProc, MovesFacts
    <2>6. /\ Call(p)' = "link" /\ Path(p)' = Path(p) /\ Ip(p)' = i
          /\ ~HoldsDp(p)' /\ HoldsIp(p)' /\ Linked(p)' /\ ~Writes(p)' /\ Claim(p)' /\ ~DirClaim(p)'
          /\ \A j \in Inum : ~Owns(p, j)'
      BY <1>1, <2>5 DEF Call, Path, Ip, HoldsDp, HoldsIp, Linked, Writes, DirClaim, Claim, Owns
    <2>7. LocksQuiet(p)  BY <1>1, <1>2, <2>6 DEF LocksQuiet
    <2>8. \A j \in Inum : Count(p, j)' = Count(p, j)
      BY <1>1, <1>2, <2>5, <2>6, CountAfter DEF CountIf
    <2>9. LocalOK(p)'
      <3>1. PathOK(p)' /\ CallOK(p)' /\ PutsOK(p)'
        BY <1>1, <2>5, <2>6 DEF PathOK, CallOK, PutsOK
      <3>2. InumOK(p)' /\ LoadedOK(p)'
        BY <1>2, <2>4, <2>5, <2>6 DEF InumOK, LoadedOK
      <3>3. KindOK(p)' /\ SlotOK(p)'
        BY <1>2, <1>4, <2>2, <2>4, <2>5, <2>6 DEF KindOK, SlotOK, SameTypes
      <3>. QED  BY <3>1, <3>2, <3>3 DEF LocalOK
    <2>10. \A j \in Inum : /\ dinode'[j].addrs = dinode[j].addrs
                           /\ dinode'[j].nlink >= dinode[j].nlink
                                + (CountIf(ClaimOn(p, j)') - CountIf(ClaimOn(p, j)))
      <3>1. \A j \in Inum : dinode[j].nlink \in Nat  BY <1>1 DEF Types, Inode
      <3>. QED  BY <1>2, <1>3, <2>2, <2>4, <2>6, <3>1 DEF ClaimOn, CountIf
    <2>11. dinode'[Root].nlink >= dinode[Root].nlink + (CountIf(DirClaim(p)') - CountIf(DirClaim(p)))
      <3>1. Root \in Inum  BY InumAssumption DEF Root, Inum
      <3>2. dinode[Root].nlink \in Nat  BY <1>1, <3>1 DEF Types, Inode
      <3>. QED  BY <1>2, <2>4, <2>6, <3>1, <3>2 DEF CountIf
    <2>12. pc[p] # "init" /\ pc'[p] # "init"  BY <1>1, <2>5
    <2>. QED
      BY <1>1, <1>3, <1>4, <2>4, <2>5, <2>6, <2>7, <2>8, <2>9, <2>10, <2>11, <2>12, UpdateStep
  <1>. QED  BY <1>5, <1>6

LEMMA LinkEntryStep ==
  ASSUME IInv, NEW p \in Proc, LinkEntry(p)
  PROVE  IInv'
  <1>. DEFINE d == Dp(p)
              n == Head(Path(p))
              i == Ip(p)
  <1>1. /\ pc[p] = "parent" /\ puts[p] = <<>> /\ freeing[p] = "idle" /\ Visit(d) /\ ~busy[d]
        /\ Call(p) = "link" /\ busy' = busy
        /\ UNCHANGED <<dinode, used, full, ref, busy, freeing, file, crashes, panicked>>
        /\ Path(p) \in One /\ LocalOK(p) /\ Types
    BY DEF LinkEntry, Ready, Visit, IInv, Locals, LocalOK, PutsOK, PathOK
  <1>2. /\ HoldsDp(p) /\ HoldsIp(p) /\ d \in Inum /\ i \in Inum \ {Root} /\ Linked(p) /\ Claim(p)
        /\ ~DirClaim(p) /\ dinode[i].type = "file" /\ \A j \in Inum : ~Owns(p, j)
    BY <1>1 DEF HoldsDp, HoldsIp, Linked, Claim, DirClaim, Writes, Owns, LocalOK, InumOK, KindOK
  <1>3. n \in Name  BY <1>1, PathFacts
  <1>4. Safe(p, d) /\ Loaded(d) = dinode[d]
    <2>1. Uses(p, d)  BY <1>2 DEF Uses
    <2>. QED  BY <1>1, <1>2, <2>1, VisitFacts
  <1>5. InodesQuiet(p) /\ CacheTypes' /\ \A j \in Inum : valid[j] => valid'[j]
    BY <1>1, <1>2, <1>4, LoadQuiet DEF Visit, Types
  <1>6. ~panicked'  BY <1>1 DEF IInv, NoPanic
  <1>7. CASE Entry(p) # NoInum
    <2>1. Moves(p, "bad", frame[p], <<d>>, file[p]) /\ dent' = dent
      BY <1>1, <1>7, SameProc DEF LinkEntry, Goes, Enters, Moves, DoPuts
    <2>2. <<d>> \in PutLists /\ \A j : Queued(<<d>>, j) = CountIf(d = j) /\ Queued(<<>>, j) = 0
      BY <1>2, PutFacts
    <2>3. \A j \in Inum : Count(p, j) = CountIf(j = Root) + CountIf(i = j)
                                          + CountIf(file[p] = j) + Queued(<<d>>, j)
      BY <1>1, <1>2, <2>2 DEF Count, CountIf
    <2>4. UNCHANGED <<diskvars, ref, busy, freeing, crashes>>  BY <1>1, <2>1 DEF diskvars
    <2>. QED  BY <1>1, <1>2, <1>5, <1>6, <2>1, <2>2, <2>3, <2>4, FailStep
  <1>8. CASE Entry(p) = NoInum
    <2>. DEFINE s == <<d, i>>
    <2>1. /\ Moves(p, "idle", NoFrame, s, file[p])
          /\ dent' = [dent EXCEPT ![d][n] = i] /\ dent[d][n] = NoInum
      BY <1>1, <1>8, SameProc DEF LinkEntry, Goes, Enters, Moves, DoPuts, SetEntry, Entry
    <2>2. s \in PutLists /\ \A j : Queued(s, j) = CountIf(d = j) + CountIf(i = j) /\ Queued(<<>>, j) = 0
      BY <1>2, PutFacts
    <2>3. NoFrame \in Frames /\ file[p] \in Inum \cup {NoInum}
          /\ (file[p] # NoInum => dinode'[file[p]].type = "file")
      BY <1>1, FrameFacts DEF FrameIs, LocalOK, KindOK, Types
    <2>. HIDE DEF s, n
    <2>4. /\ ProcTypes' /\ ActsAlone(p) /\ pc'[p] = "idle"
          /\ LocalOK(p)' /\ ~Writes(p)' /\ ~DirClaim(p)'
          /\ \A j \in Inum : ~Owns(p, j)' /\ ~ClaimOn(p, j)'
          /\ \A j \in Inum : Count(p, j)' = CountIf(j = Root) + CountIf(file[p] = j) + Queued(s, j)
      BY <1>1, <2>1, <2>2, <2>3, Returned
    <2>5. \A j \in Inum : Count(p, j)' = Count(p, j)
      BY <1>1, <1>2, <2>2, <2>4 DEF Count, CountIf
    <2>6. LocksQuiet(p) /\ busy' \in [Inum -> BOOLEAN]
      BY <1>1, <1>2, <2>4 DEF LocksQuiet, Types
    <2>7. ~IsDir(i) /\ ~IsDir(NoInum) /\ i \in Inum \cup {NoInum} /\ i # Root
      BY <1>2 DEF IsDir
    <2>8. \A j \in Inum : 0 >= (CountIf(i = j) - CountIf(dent[d][n] = j))
                                + (CountIf(ClaimOn(p, j)') - CountIf(ClaimOn(p, j)))
      BY <1>2, <2>1, <2>4, NoInumAssumption DEF ClaimOn, CountIf
    <2>9. 0 >= (CountIf(d = Root /\ IsDir(i)) - CountIf(d = Root /\ IsDir(dent[d][n])))
                + (CountIf(DirClaim(p)') - CountIf(DirClaim(p)))
      BY <1>2, <2>1, <2>4, <2>7 DEF CountIf
    <2>10. UNCHANGED <<dinode, used, full, ref, freeing, crashes>> /\ pc[p] # "init" /\ pc'[p] # "init"
      BY <1>1, <2>4
    <2>. QED
      BY <1>1, <1>2, <1>3, <1>4, <1>5, <1>6, <2>1, <2>4, <2>5, <2>6, <2>7, <2>8, <2>9, <2>10,
         EntryUpdateStep
  <1>. QED  BY <1>7, <1>8

-----------------------------------------------------------------------------
(* The steps of a write                                                        *)

LEMMA FreeingKept ==
  ASSUME IInv, NEW q \in Proc, freeing[q] = "bfree"
  PROVE  Put(q) \in Inum /\ ~Gone(Put(q))
  <1>1. Types /\ LocalOK(q) /\ FreeingOK(q)  BY DEF IInv, Locals, Freed
  <1>2. Put(q) \in Inum  BY <1>1, PutCounts DEF LocalOK, PutsOK
  <1>3. ref[Put(q)] = 1  BY <1>1 DEF FreeingOK
  <1>4. \A r \in Proc : freeing[r] # "idle" /\ Put(r) = Put(q) => r = q
    BY <1>2 DEF IInv, Locked, Owns
  <1>. QED  BY <1>2, <1>3, <1>4 DEF Gone

LEMMA BallocStep ==
  ASSUME IInv, NEW p \in Proc, Balloc(p)
  PROVE  IInv'
  <1>. DEFINE i == file[p]
  <1>1. /\ Ready(p, "idle") /\ i # NoInum /\ Ilock(i) /\ Loaded(i).addrs = {}
        /\ UNCHANGED <<dinode, dent, full, ref, puts, freeing, file, crashes>>
    BY DEF Balloc
  <1>2. PICK b \in Block \ used :
          used' = used \cup {b} /\ Enters(p, "data", [NoFrame EXCEPT !.call = "write", !.new = {b}])
    BY DEF Balloc, Marked
  <1>3. /\ Types /\ LocalOK(p) /\ pc[p] = "idle" /\ puts[p] = <<>> /\ freeing[p] = "idle"
        /\ ~HoldsDp(p) /\ ~HoldsIp(p) /\ \A j \in Inum : ~Owns(p, j)
    BY <1>1, IdleFacts
  <1>4. i \in Inum /\ dinode[i].type = "file" /\ busy \in [Inum -> BOOLEAN]
    BY <1>1, <1>3 DEF Types, LocalOK, KindOK
  <1>5. Safe(p, i) /\ Loaded(i) = dinode[i] /\ dinode[i].addrs = {} /\ ~panicked'
        /\ ~busy[i] /\ busy' = [busy EXCEPT ![i] = TRUE]
    <2>1. ~busy[i] /\ busy' = [busy EXCEPT ![i] = TRUE] /\ panicked' = (Loaded(i).type = "free")
      BY <1>1 DEF Ilock
    <2>2. Uses(p, i)  BY DEF Uses
    <2>. QED  BY <1>1, <1>4, <2>1, <2>2, VisitFacts
  <1>6. InodesQuiet(p) /\ CacheTypes' /\ DiskTypes' /\ SameTypes /\ valid'[i]
    BY <1>1, <1>3, <1>4, <1>5, LoadQuiet DEF Ilock, Types
  <1>. DEFINE f == [NoFrame EXCEPT !.call = "write", !.new = {b}]
  <1>7. Moves(p, "data", f, puts[p], file[p])  BY <1>1, <1>2, <1>3, SameProc DEF Enters, Moves
  <1>8. f \in Frames /\ f.call = "write" /\ f.new = {b}
    <2>1. NoFrame \in Frames  BY FrameFacts DEF FrameIs
    <2>2. FrameIs(f, "write", NoFrame.path, NoFrame.dp, NoFrame.ip, {b})  BY <2>1, FrameFacts
    <2>. QED  BY <2>2 DEF FrameIs
  <1>. HIDE DEF f
  <1>9. /\ ProcTypes' /\ ActsAlone(p)
        /\ pc'[p] = "data" /\ frame'[p] = f /\ puts'[p] = puts[p] /\ file'[p] = i
    <2>1. "data" \in Pcs  BY DEF Pcs
    <2>. QED  BY <1>1, <1>3, <1>7, <1>8, <2>1, SameProc, MovesFacts
  <1>10. /\ Call(p)' = "write" /\ ~HoldsDp(p)' /\ ~HoldsIp(p)' /\ ~Linked(p)' /\ Writes(p)'
         /\ ~Claim(p)' /\ ~DirClaim(p)' /\ ~Claim(p) /\ ~DirClaim(p)
         /\ \A j \in Inum : Owns(p, j)' <=> j = i
    BY <1>1, <1>3, <1>8, <1>9
    DEF Call, HoldsDp, HoldsIp, Linked, Writes, Claim, DirClaim, Owns
  <1>11. LocksQuiet(p) /\ busy' \in [Inum -> BOOLEAN]
    BY <1>3, <1>4, <1>5, <1>10 DEF LocksQuiet
  <1>12. Types'
    <2>1. used' \subseteq Block /\ full' \subseteq Block  BY <1>1, <1>2, <1>3 DEF Types
    <2>. QED  BY <1>1, <1>3, <1>6, <1>9, <1>11, <2>1 DEF Types, ProcTypes, CacheTypes
  <1>13. RefsQuiet(p)
    <2>1. \A j \in Inum : Count(p, j)' = Count(p, j)
      BY <1>3, <1>9, <1>10, CountAfter DEF CountIf
    <2>. QED  BY <1>1, <2>1 DEF RefsQuiet
  <1>14. Quiet(p)
    BY <1>1, <1>3, <1>6, <1>9, <1>11, <1>13 DEF Quiet, IInv, Freed, FreeingOK
  <1>15. LocalOK(p)'
    <2>1. PathOK(p)' /\ CallOK(p)' /\ PutsOK(p)' /\ InumOK(p)'
      BY <1>1, <1>3, <1>4, <1>9, <1>10 DEF PathOK, CallOK, PutsOK, InumOK
    <2>2. LoadedOK(p)' /\ KindOK(p)' /\ SlotOK(p)'
      BY <1>1, <1>4, <1>5, <1>6, <1>9, <1>10 DEF LoadedOK, KindOK, SlotOK
    <2>. QED  BY <2>1, <2>2 DEF LocalOK
  <1>16. /\ Locals' /\ Counted' /\ Locked' /\ Cached' /\ Freed' /\ InodeKinds' /\ Reclaimed'
         /\ \A j \in Inum : Gone(j) => Gone(j)'
    BY <1>12, <1>14, <1>15, QuietStep
  <1>17. LinksCovered' /\ RootCovered' /\ EntryKinds'
    <2>1. \A j \in Inum : dinode'[j].nlink
             >= dinode[j].nlink + (CountIf(ClaimOn(p, j)') - CountIf(ClaimOn(p, j)))
      BY <1>1, <1>3, <1>10 DEF ClaimOn, CountIf, Types, Inode
    <2>2. dinode'[Root].nlink >= dinode[Root].nlink + (CountIf(DirClaim(p)') - CountIf(DirClaim(p)))
      <3>1. Root \in Inum  BY InumAssumption DEF Root, Inum
      <3>2. dinode[Root].nlink \in Nat /\ dinode' = dinode  BY <1>1, <1>3, <3>1 DEF Types, Inode
      <3>3. CountIf(DirClaim(p)') = 0 /\ CountIf(DirClaim(p)) = 0
        BY <1>3, <1>9, <1>10 DEF CountIf, DirClaim
      <3>. QED  BY <3>2, <3>3
    <2>. QED  BY <1>1, <1>6, <1>9, <1>12, <2>1, <2>2, CoveredKept
  <1>18. BlocksOwned'
    BY <1>1, <1>2, <1>16 DEF IInv, BlocksOwned
  <1>19. NewOwned'
    <2>1. \A q \in Proc \ {p} : (Writes(q)' <=> Writes(q)) /\ frame'[q] = frame[q]
      BY <1>9, OthersStay DEF ActsAlone
    <2>2. frame'[p].new = {b}  BY <1>8, <1>9
    <2>3. \A j \in Inum : ~Gone(j)' => ~Gone(j) /\ dinode'[j].addrs = dinode[j].addrs
                                       /\ b \notin dinode[j].addrs
      BY <1>1, <1>2, <1>16 DEF IInv, BlocksOwned
    <2>4. \A q \in Proc \ {p} : Writes(q) => b \notin frame[q].new  BY <1>2 DEF IInv, NewOwned
    <2>5. ASSUME NEW q \in Proc, Writes(q)'
          PROVE  /\ frame'[q].new \subseteq used'
                 /\ \A j \in Inum : ~Gone(j)' => frame'[q].new \cap dinode'[j].addrs = {}
                 /\ \A r \in Proc \ {q} : Writes(r)' => frame'[q].new \cap frame'[r].new = {}
      <3>1. CASE q = p  BY <1>2, <2>1, <2>2, <2>3, <2>4, <3>1
      <3>2. CASE q # p
        <4>1. Writes(q) /\ frame'[q] = frame[q]  BY <2>1, <2>5, <3>2
        <4>. QED  BY <1>2, <2>1, <2>2, <2>3, <2>4, <3>2, <4>1 DEF IInv, NewOwned
      <3>. QED  BY <3>1, <3>2
    <2>. QED  BY <2>5 DEF NewOwned
  <1>. QED  BY <1>5, <1>12, <1>16, <1>17, <1>18, <1>19 DEF IInv, NoPanic

LEMMA WriteDataStep ==
  ASSUME IInv, NEW p \in Proc, WriteData(p)
  PROVE  IInv'
  <1>. DEFINE i == file[p]
  <1>1. /\ pc[p] = "data" /\ full' = full \cup frame[p].new
        /\ UNCHANGED <<dinode, dent, used, cachevars, puts, freeing, file, crashes, panicked>>
        /\ puts[p] = <<>> /\ freeing[p] = "idle" /\ LocalOK(p) /\ Types
    BY DEF WriteData, IInv, Locals, LocalOK, PutsOK
  <1>2. /\ ~HoldsDp(p) /\ ~HoldsIp(p) /\ Writes(p) /\ i \in Inum /\ ~Claim(p) /\ ~DirClaim(p)
        /\ ~Linked(p) /\ \A j \in Inum : Owns(p, j) <=> j = i
    BY <1>1 DEF HoldsDp, HoldsIp, Linked, Writes, Claim, DirClaim, Owns, LocalOK, InumOK
  <1>3. frame[p].new \subseteq used  BY <1>2 DEF IInv, NewOwned
  <1>4. Moves(p, "size", frame[p], puts[p], file[p])
    BY <1>1, SameProc DEF WriteData, Goes, Enters, Moves
  <1>5. /\ ProcTypes' /\ ActsAlone(p)
        /\ pc'[p] = "size" /\ frame'[p] = frame[p] /\ puts'[p] = puts[p] /\ file'[p] = i
    <2>1. "size" \in Pcs  BY DEF Pcs
    <2>. QED  BY <1>1, <1>4, <2>1, SameProc, MovesFacts
  <1>6. /\ Call(p)' = Call(p) /\ ~HoldsDp(p)' /\ ~HoldsIp(p)' /\ ~Linked(p)' /\ Writes(p)'
        /\ ~Claim(p)' /\ ~DirClaim(p)' /\ \A j \in Inum : Owns(p, j)' <=> j = i
    BY <1>1, <1>2, <1>5 DEF Call, HoldsDp, HoldsIp, Linked, Writes, Claim, DirClaim, Owns
  <1>7. /\ busy' = busy /\ ref' = ref /\ valid' = valid /\ dinode' = dinode
        /\ InodesQuiet(p) /\ SameTypes
    BY <1>1, SameInodes DEF cachevars
  <1>8. Types'
    <2>1. full' \subseteq Block  BY <1>1, <1>3 DEF Types
    <2>. QED  BY <1>1, <1>5, <2>1 DEF Types, ProcTypes, cachevars
  <1>9. RefsQuiet(p) /\ LocksQuiet(p)
    <2>1. \A j \in Inum : Count(p, j)' = Count(p, j)
      BY <1>1, <1>2, <1>5, <1>6, CountAfter DEF CountIf
    <2>. QED  BY <1>2, <1>6, <1>7, <2>1 DEF RefsQuiet, LocksQuiet
  <1>10. \A q \in Proc : freeing[q] = "bfree" => full' \cap dinode[Put(q)].addrs = {}
    <2>1. SUFFICES ASSUME NEW q \in Proc, freeing[q] = "bfree"
                   PROVE  full' \cap dinode[Put(q)].addrs = {}
      OBVIOUS
    <2>2. Put(q) \in Inum /\ ~Gone(Put(q))  BY <2>1, FreeingKept
    <2>3. frame[p].new \cap dinode[Put(q)].addrs = {}  BY <1>2, <2>2 DEF IInv, NewOwned
    <2>4. full \cap dinode[Put(q)].addrs = {}  BY <2>1 DEF IInv, Freed, FreeingOK
    <2>. QED  BY <1>1, <2>3, <2>4
  <1>11. Quiet(p)  BY <1>1, <1>5, <1>7, <1>9, <1>10 DEF Quiet
  <1>12. LocalOK(p)'
    <2>1. PathOK(p)' /\ CallOK(p)' /\ PutsOK(p)' /\ InumOK(p)'
      BY <1>1, <1>2, <1>5, <1>6 DEF LocalOK, PathOK, CallOK, PutsOK, InumOK
    <2>2. LoadedOK(p)' /\ KindOK(p)' /\ SlotOK(p)'
      BY <1>1, <1>2, <1>5, <1>6, <1>7 DEF LocalOK, LoadedOK, KindOK, SlotOK
    <2>. QED  BY <2>1, <2>2 DEF LocalOK
  <1>13. /\ Locals' /\ Counted' /\ Locked' /\ Cached' /\ Freed' /\ InodeKinds' /\ Reclaimed'
         /\ \A j \in Inum : Gone(j) => Gone(j)'
    BY <1>8, <1>11, <1>12, QuietStep
  <1>14. LinksCovered' /\ RootCovered' /\ EntryKinds'
    <2>1. \A j \in Inum : dinode'[j].nlink
             >= dinode[j].nlink + (CountIf(ClaimOn(p, j)') - CountIf(ClaimOn(p, j)))
      BY <1>1, <1>2, <1>6 DEF ClaimOn, CountIf, Types, Inode
    <2>2. dinode'[Root].nlink >= dinode[Root].nlink + (CountIf(DirClaim(p)') - CountIf(DirClaim(p)))
      <3>1. Root \in Inum  BY InumAssumption DEF Root, Inum
      <3>2. dinode[Root].nlink \in Nat /\ dinode' = dinode  BY <1>1, <3>1 DEF Types, Inode
      <3>3. CountIf(DirClaim(p)') = 0 /\ CountIf(DirClaim(p)) = 0  BY <1>1, <1>6 DEF CountIf, DirClaim
      <3>. QED  BY <3>2, <3>3
    <2>. QED  BY <1>1, <1>5, <1>7, <1>8, <2>1, <2>2, CoveredKept
  <1>15. BlocksOwned' /\ NewOwned'
    <2>1. used \subseteq used' /\ full' \subseteq used'  BY <1>1, <1>3 DEF IInv, BlocksOwned
    <2>. QED  BY <1>2, <1>5, <1>7, <1>13, <2>1, BlocksKept
  <1>. QED  BY <1>1, <1>8, <1>13, <1>14, <1>15 DEF IInv, NoPanic

LEMMA WriteSizeStep ==
  ASSUME IInv, NEW p \in Proc, WriteSize(p)
  PROVE  IInv'
  <1>. DEFINE i == file[p]
              b == frame[p].new
              r == [dinode[i] EXCEPT !.addrs = b]
  <1>1. /\ pc[p] = "size" /\ Iupdate(i, [inode[i] EXCEPT !.addrs = b])
        /\ busy' = [busy EXCEPT ![i] = FALSE]
        /\ UNCHANGED <<dent, used, full, ref, valid, puts, freeing, file, crashes, panicked>>
        /\ puts[p] = <<>> /\ freeing[p] = "idle" /\ LocalOK(p) /\ Types
    BY DEF WriteSize, IInv, Locals, LocalOK, PutsOK
  <1>2. /\ ~HoldsDp(p) /\ ~HoldsIp(p) /\ Writes(p) /\ i \in Inum /\ ~Claim(p) /\ ~DirClaim(p)
        /\ ~Linked(p) /\ \A j \in Inum : Owns(p, j) <=> j = i
    BY <1>1 DEF HoldsDp, HoldsIp, Linked, Writes, Claim, DirClaim, Owns, LocalOK, InumOK
  <1>3. /\ Safe(p, i) /\ valid[i] /\ inode[i] = dinode[i] /\ dinode[i] \in Inode
        /\ i # NoInum /\ dinode[i].type = "file" /\ b \subseteq Block
    <2>1. /\ Safe(p, i) /\ valid[i] /\ inode[i] = dinode[i] /\ dinode[i] \in Inode
      BY <1>1, <1>2, OwnerFacts
    <2>2. i # NoInum  BY <1>2, NoInumAssumption
    <2>3. b \subseteq Block  BY <1>1, SameProc DEF Frames
    <2>. QED  BY <1>1, <2>1, <2>2, <2>3 DEF LocalOK, KindOK
  <1>4. r \in Inode /\ r.type = dinode[i].type /\ r.addrs = b /\ r.nlink = dinode[i].nlink
    BY <1>3 DEF Inode
  <1>5. Iupdate(i, r)  BY <1>1, <1>3
  <1>. HIDE DEF r
  <1>6. /\ InodesQuiet(p) /\ CacheTypes' /\ DiskTypes' /\ SameTypes /\ dinode'[i] = r
        /\ \A j \in Inum \ {i} : dinode'[j] = dinode[j]
    BY <1>1, <1>2, <1>3, <1>4, <1>5, UpdateQuiet
  <1>7. /\ <<>> \in PutLists /\ NoFrame \in Frames /\ file[p] \in Inum \cup {NoInum}
        /\ (file[p] # NoInum => dinode'[file[p]].type = "file")
    <2>1. <<>> \in PutLists  BY PutFacts
    <2>2. NoFrame \in Frames  BY FrameFacts DEF FrameIs
    <2>. QED  BY <1>2, <1>3, <1>4, <1>6, <2>1, <2>2
  <1>8. Moves(p, "idle", NoFrame, <<>>, file[p])
    BY <1>1, SameProc DEF WriteSize, Goes, Enters, Moves
  <1>9. /\ ProcTypes' /\ ActsAlone(p) /\ pc'[p] = "idle"
        /\ LocalOK(p)' /\ ~Writes(p)' /\ ~DirClaim(p)'
        /\ \A j \in Inum : ~Owns(p, j)' /\ ~ClaimOn(p, j)'
        /\ \A j \in Inum : Count(p, j)' = CountIf(j = Root) + CountIf(file[p] = j) + Queued(<<>>, j)
    BY <1>1, <1>7, <1>8, Returned
  <1>10. RefsQuiet(p)
    <2>1. \A j \in Inum : Count(p, j)' = Count(p, j)
      BY <1>1, <1>2, <1>9, PutFacts DEF Count, CountIf
    <2>. QED  BY <1>1, <2>1 DEF RefsQuiet
  <1>11. LocksQuiet(p) /\ busy' \in [Inum -> BOOLEAN]
    <2>1. busy \in [Inum -> BOOLEAN]  BY <1>1 DEF Types
    <2>. QED  BY <1>1, <1>2, <1>9, <2>1 DEF LocksQuiet
  <1>12. Types'
    BY <1>1, <1>6, <1>9, <1>11 DEF Types, ProcTypes, CacheTypes, DiskTypes
  <1>13. Quiet(p)
    BY <1>1, <1>6, <1>9, <1>10, <1>11 DEF Quiet, IInv, Freed, FreeingOK
  <1>14. /\ Locals' /\ Counted' /\ Locked' /\ Cached' /\ Freed' /\ InodeKinds' /\ Reclaimed'
         /\ \A j \in Inum : Gone(j) => Gone(j)'
    BY <1>9, <1>12, <1>13, QuietStep
  <1>15. LinksCovered' /\ RootCovered' /\ EntryKinds'
    <2>0. \A j \in Inum : dinode'[j].nlink = dinode[j].nlink /\ dinode[j].nlink \in Nat
      BY <1>1, <1>4, <1>6 DEF Types, Inode
    <2>1. \A j \in Inum : dinode'[j].nlink
             >= dinode[j].nlink + (CountIf(ClaimOn(p, j)') - CountIf(ClaimOn(p, j)))
      BY <1>2, <1>9, <2>0 DEF ClaimOn, CountIf
    <2>2. dinode'[Root].nlink >= dinode[Root].nlink + (CountIf(DirClaim(p)') - CountIf(DirClaim(p)))
      <3>1. Root \in Inum  BY InumAssumption DEF Root, Inum
      <3>. QED  BY <1>2, <1>9, <2>0, <3>1 DEF CountIf
    <2>. QED  BY <1>1, <1>6, <1>9, <1>12, <2>1, <2>2, CoveredKept
  <1>16. /\ b \subseteq used /\ \A j \in Inum : ~Gone(j) => b \cap dinode[j].addrs = {}
         /\ \A q \in Proc \ {p} : Writes(q) => frame[q].new \cap b = {}
    BY <1>2 DEF IInv, NewOwned
  <1>17. \A j \in Inum : dinode'[j].addrs = IF j = i THEN b ELSE dinode[j].addrs
    BY <1>4, <1>6
  <1>. HIDE DEF i, b
  <1>18. BlocksOwned'
    BY <1>1, <1>14, <1>16, <1>17 DEF IInv, BlocksOwned
  <1>19. NewOwned'
    <2>1. \A q \in Proc \ {p} : (Writes(q)' <=> Writes(q)) /\ frame'[q] = frame[q]
      BY <1>9, OthersStay DEF ActsAlone
    <2>. QED  BY <1>1, <1>9, <1>14, <1>16, <1>17, <2>1 DEF IInv, NewOwned
  <1>20. ~panicked'  BY <1>1 DEF IInv, NoPanic
  <1>. QED  BY <1>12, <1>14, <1>15, <1>18, <1>19, <1>20 DEF IInv, NoPanic

-----------------------------------------------------------------------------
(* The freeing of an inode                                                     *)

(* Nobody but the iput that frees an inode uses it.                            *)
LEMMA FreerFacts ==
  ASSUME IInv, NEW p \in Proc, freeing[p] # "idle"
  PROVE  /\ Types /\ Put(p) \in Inum \ {Root} /\ puts[p] # <<>> /\ FreeingOK(p)
         /\ valid[Put(p)] /\ Owns(p, Put(p)) /\ dinode[Put(p)].nlink = 0
         /\ freeing[p] # "flags" => inode[Put(p)] = dinode[Put(p)]
         /\ \A q \in Proc : freeing[q] # "idle" /\ Put(q) = Put(p) => q = p
         /\ \A q \in Proc : ~Uses(q, Put(p)) /\ (Owns(q, Put(p)) => q = p)
         /\ \A q \in Proc : freeing[p] # "flags" /\ pc[q] = "init" => Ip(q) # Put(p)
         /\ pc[p] \in {"idle", "existing", "made", "unlinked", "bad"}
  <1>1. Types /\ LocalOK(p) /\ FreeingOK(p) /\ puts[p] # <<>>
    BY DEF IInv, Locals, Freed, LocalOK, PutsOK
  <1>2. Put(p) \in Inum /\ Count(p, Put(p)) >= 1  BY <1>1, PutCounts
  <1>3. dinode[Put(p)].nlink = 0  BY <1>1 DEF FreeingOK
  <1>4. Put(p) # Root
    <2>1. IsFiniteSet(Subdirs) /\ IsFiniteSet(DirClaims)  BY LinksFinite DEF FiniteDirs
    <2>2. Cardinality(Subdirs) \in Nat /\ Cardinality(DirClaims) \in Nat  BY <2>1, FS_CardinalityType
    <2>3. dinode[Root].nlink >= 1 + Cardinality(Subdirs) + Cardinality(DirClaims)
      BY DEF IInv, RootCovered
    <2>. QED  BY <1>3, <2>2, <2>3
  <1>5. Owns(p, Put(p))  BY DEF Owns
  <1>6. valid[Put(p)]  BY <1>1, <1>2, <1>5 DEF LocalOK, LoadedOK
  <1>7. \A q \in Proc : Owns(q, Put(p)) => q = p  BY <1>2, <1>5 DEF IInv, Locked
  <1>8. \A q \in Proc : freeing[q] # "idle" /\ Put(q) = Put(p) => q = p  BY <1>7 DEF Owns
  <1>9. \A q \in Proc : ~Uses(q, Put(p))  BY <1>2, UsesSteady DEF Steady
  <1>10. freeing[p] # "flags" => inode[Put(p)] = dinode[Put(p)]
    BY <1>2, <1>6, <1>8 DEF IInv, Cached, Releases
  <1>11. ASSUME NEW q \in Proc, freeing[p] # "flags", pc[q] = "init", Ip(q) = Put(p)  PROVE FALSE
    <2>1. ref[Put(p)] = 1  BY <1>1, <1>11 DEF FreeingOK
    <2>2. puts[q] = <<>>  BY <1>11 DEF IInv, Locals, LocalOK, PutsOK
    <2>3. q # p /\ Count(q, Put(p)) >= 1  BY <1>1, <1>11, <2>2, PutCounts
    <2>4. ref[Put(p)] >= 2  BY <1>2, <2>3, HoldFacts DEF IInv
    <2>. QED  BY <2>1, <2>4
  <1>12. pc[p] \in {"idle", "existing", "made", "unlinked", "bad"}  BY <1>1 DEF LocalOK, PutsOK
  <1>. QED  BY <1>1, <1>2, <1>3, <1>4, <1>5, <1>6, <1>7, <1>8, <1>9, <1>10, <1>11, <1>12

(* The steps of iput leave the calls where they are.                           *)
CallsStay(p) ==
  /\ pc' = pc /\ frame' = frame /\ file' = file /\ crashes' = crashes
  /\ \A q \in Proc \ {p} : puts'[q] = puts[q] /\ freeing'[q] = freeing[q]

LEMMA CallsStayFacts ==
  ASSUME NEW p \in Proc, CallsStay(p)
  PROVE  /\ ActsAlone(p)
         /\ \A q \in Proc : /\ (HoldsDp(q)' <=> HoldsDp(q)) /\ (HoldsIp(q)' <=> HoldsIp(q))
                            /\ (Linked(q)' <=> Linked(q)) /\ (Writes(q)' <=> Writes(q))
                            /\ (Claim(q)' <=> Claim(q)) /\ Call(q)' = Call(q) /\ Path(q)' = Path(q)
                            /\ Dp(q)' = Dp(q) /\ Ip(q)' = Ip(q)
                            /\ \A i \in Inum : ClaimOn(q, i)' <=> ClaimOn(q, i)
         /\ \A q \in Proc \ {p} : /\ Put(q)' = Put(q)
                                  /\ \A i \in Inum : Owns(q, i)' <=> Owns(q, i)
  BY DEF CallsStay, ActsAlone, HoldsDp, HoldsIp, Linked, Writes, Claim, ClaimOn, Call, Path, Dp, Ip,
         Put, Owns

LEMMA LocalsFreed ==
  ASSUME IInv, NEW p \in Proc, CallsStay(p), puts[p] # <<>>, freeing'[p] # "idle" => puts'[p] # <<>>,
         \A q \in Proc, i \in Inum : Owns(q, i)' => valid'[i],
         \A q \in Proc : Linked(q) => valid'[Ip(q)],
         \A q \in Proc : HoldsIp(q) => dinode'[Ip(q)].type = dinode[Ip(q)].type,
         \A q \in Proc : pc[q] = "init" => dinode'[Ip(q)].nlink = 0 /\ dinode'[Ip(q)].addrs = {},
         \A q \in Proc : file[q] # NoInum => dinode'[file[q]] = dinode[file[q]],
         \A q \in Proc : HoldsDp(q) => dent'[Dp(q)] = dent[Dp(q)]
  PROVE  Locals'
  <1>1. SUFFICES ASSUME NEW q \in Proc  PROVE LocalOK(q)'
    BY DEF Locals
  <1>2. LocalOK(q) /\ LocalOK(p)  BY DEF IInv, Locals
  <1>3. /\ pc' = pc /\ file' = file
        /\ (HoldsDp(q)' <=> HoldsDp(q)) /\ (HoldsIp(q)' <=> HoldsIp(q))
        /\ (Linked(q)' <=> Linked(q)) /\ (Writes(q)' <=> Writes(q))
        /\ Call(q)' = Call(q) /\ Path(q)' = Path(q) /\ Dp(q)' = Dp(q) /\ Ip(q)' = Ip(q)
    BY CallsStayFacts DEF CallsStay
  <1>4. (PathOK(q) /\ CallOK(q) /\ InumOK(q))'
    BY <1>2, <1>3 DEF LocalOK, PathOK, CallOK, InumOK, Creates, Unlinks
  <1>5. PutsOK(q)'
    <2>1. CASE q = p  BY <1>2, <1>3, <2>1 DEF LocalOK, PutsOK
    <2>2. CASE q # p  BY <1>2, <1>3, <2>2 DEF LocalOK, PutsOK, CallsStay
    <2>. QED  BY <2>1, <2>2
  <1>6. LoadedOK(q)'  BY <1>2, <1>3 DEF LocalOK, LoadedOK
  <1>7. KindOK(q)'
    <2>1. /\ pc[q] \in {"init", "dotdot", "dirlink", "made", "erased"} => HoldsIp(q)
          /\ Linked(q) => HoldsIp(q)
      BY DEF HoldsIp
    <2>2. Writes(q) => file[q] # NoInum  BY <1>2, NoInumAssumption DEF LocalOK, InumOK
    <2>. QED  BY <1>2, <1>3, <2>1, <2>2 DEF LocalOK, KindOK
  <1>8. SlotOK(q)'
    <2>1. pc[q] \in {"ialloc", "init", "dotdot", "dirlink", "victim"} => HoldsDp(q)  BY DEF HoldsDp
    <2>. QED  BY <1>2, <1>3, <2>1 DEF LocalOK, SlotOK, Entry
  <1>. QED  BY <1>4, <1>5, <1>6, <1>7, <1>8 DEF LocalOK

(* The steps of a freeing: the freer keeps its lock and its reference.         *)
Frees(p) ==
  /\ freeing[p] # "idle" /\ freeing'[p] # "idle"
  /\ freeing' = [freeing EXCEPT ![p] = freeing'[p]]
  /\ UNCHANGED <<pc, frame, puts, file, ref, busy, valid, crashes, panicked>>

LEMMA FreesFacts ==
  ASSUME IInv, NEW p \in Proc, Frees(p), freeing'[p] \in Freeings
  PROVE  /\ CallsStay(p) /\ freeing' \in [Proc -> Freeings]
         /\ \A q \in Proc : Put(q)' = Put(q) /\ \A i \in Inum : Owns(q, i)' <=> Owns(q, i)
         /\ Counted' /\ Locked'
  <1>1. CallsStay(p) /\ freeing' \in [Proc -> Freeings]
    BY DEF Frees, CallsStay, IInv, Types
  <1>2. \A q \in Proc : Put(q)' = Put(q)  BY DEF Frees, Put
  <1>3. \A q \in Proc : freeing'[q] # "idle" <=> freeing[q] # "idle"
    BY <1>1 DEF Frees, CallsStay
  <1>4. \A q \in Proc, i \in Inum : Owns(q, i)' <=> Owns(q, i)
    BY <1>1, <1>2, <1>3, CallsStayFacts DEF Owns, CallsStay
  <1>5. Counted'
    <2>1. \A i \in Inum : Counts(i)' = Counts(i)
      BY DEF Frees, Counts, Count, HoldsDp, HoldsIp, Linked, Call, Dp, Ip
    <2>. QED  BY <2>1 DEF IInv, Counted, Frees, Numbered
  <1>6. Locked'  BY <1>4 DEF IInv, Locked, Frees
  <1>. QED  BY <1>1, <1>2, <1>4, <1>5, <1>6

(* What a freeing changes is its inode, and a directory's entries go with it.  *)
OnlyFreed(p) ==
  /\ \A i \in Inum \ {Put(p)} : /\ dinode'[i] = dinode[i] /\ inode'[i] = inode[i]
                                /\ dent'[i] = dent[i]
  /\ inode'[Put(p)] = dinode'[Put(p)] /\ dinode'[Put(p)].nlink = 0
  /\ dent'[Put(p)] = dent[Put(p)] \/ dent'[Put(p)] = Empty
  /\ \/ /\ dinode'[Put(p)].type = dinode[Put(p)].type
        /\ dinode'[Put(p)].addrs = dinode[Put(p)].addrs \/ dinode'[Put(p)].addrs = {}
     \/ /\ dinode'[Put(p)].type = "free" /\ freeing'[p] = "flags"
        /\ dinode'[Put(p)].addrs = {}
  /\ full' \subseteq full

LEMMA FreesStep ==
  ASSUME IInv, NEW p \in Proc, Frees(p), freeing'[p] \in Freeings, freeing[p] # "flags",
         Types', OnlyFreed(p), FreeingOK(p)'
  PROVE  /\ Locals' /\ Counted' /\ Locked' /\ Cached' /\ Freed' /\ InodeKinds' /\ EntryKinds'
         /\ LinksCovered' /\ RootCovered' /\ Reclaimed' /\ NoPanic'
         /\ \A i \in Inum \ {Put(p)} : Gone(i)' <=> Gone(i)
  <1>. DEFINE i == Put(p)
  <1>0. Root \in Inum  BY InumAssumption DEF Root, Inum
  <1>1. /\ Types /\ i \in Inum \ {Root} /\ puts[p] # <<>> /\ FreeingOK(p) /\ valid[i]
        /\ \A q \in Proc : freeing[q] # "idle" /\ Put(q) = i => q = p
        /\ \A q \in Proc : ~Uses(q, i)
        /\ \A q \in Proc : pc[q] = "init" => Ip(q) # i
        /\ dinode[i].nlink = 0
    BY FreerFacts DEF Frees
  <1>2. /\ CallsStay(p) /\ Counted' /\ Locked'
        /\ \A q \in Proc : Put(q)' = Put(q) /\ \A j \in Inum : Owns(q, j)' <=> Owns(q, j)
    BY FreesFacts
  <1>3. /\ pc' = pc /\ file' = file /\ crashes' = crashes
        /\ ref' = ref /\ valid' = valid /\ panicked' = panicked
        /\ freeing[p] # "idle" /\ freeing'[p] # "idle" /\ puts' = puts
        /\ \A q \in Proc \ {p} : freeing'[q] = freeing[q]
    BY <1>2 DEF Frees, CallsStay
  <1>4. /\ \A q \in Proc : /\ (HoldsDp(q)' <=> HoldsDp(q)) /\ (HoldsIp(q)' <=> HoldsIp(q))
                           /\ (Claim(q)' <=> Claim(q))
                           /\ Dp(q)' = Dp(q) /\ Ip(q)' = Ip(q)
    BY <1>2, CallsStayFacts
  <1>5. \A q \in Proc : /\ HoldsIp(q) => Ip(q) \in Inum \ {i}
                        /\ HoldsDp(q) => Dp(q) \in Inum \ {i}
                        /\ file[q] # NoInum => file[q] \in Inum \ {i}
    <2>1. TAKE q \in Proc
    <2>2. LocalOK(q)  BY DEF IInv, Locals
    <2>3. file[q] \in Inum \cup {NoInum}  BY <1>1 DEF Types
    <2>. QED  BY <1>1, <2>2, <2>3 DEF LocalOK, InumOK, Uses
  <1>6. Locals'
    <2>1. \A q \in Proc, j \in Inum : Owns(q, j)' => valid'[j]
      BY <1>2, <1>3 DEF IInv, Locals, LocalOK, LoadedOK
    <2>2. \A q \in Proc : Linked(q) => valid'[Ip(q)]
      BY <1>3 DEF IInv, Locals, LocalOK, LoadedOK
    <2>3. \A q \in Proc : pc[q] = "init" => HoldsIp(q)  BY DEF HoldsIp
    <2>4. \A q \in Proc : pc[q] = "init" => dinode'[Ip(q)].nlink = 0 /\ dinode'[Ip(q)].addrs = {}
      BY <1>5, <2>3 DEF IInv, Locals, LocalOK, KindOK, OnlyFreed
    <2>. QED  BY <1>1, <1>2, <1>3, <1>5, <2>1, <2>2, <2>4, LocalsFreed DEF OnlyFreed
  <1>7. Cached'
    <2>1. \A q \in Proc, j \in Inum : Releases(q, j) => Releases(q, j)'
      BY <1>2, <1>3 DEF Releases
    <2>2. ASSUME NEW j \in Inum, valid'[j], inode'[j] # dinode'[j]  PROVE \E q \in Proc : Releases(q, j)'
      BY <1>3, <2>1, <2>2 DEF OnlyFreed, IInv, Cached
    <2>3. ASSUME NEW j \in Inum, dinode'[j].type = "free"
          PROVE  ref'[j] = 0 \/ \E q \in Proc : Releases(q, j)'
      <3>1. CASE j = i
        <4>1. dinode[i].type # "free"  BY <1>1, <1>3 DEF FreeingOK, Frees
        <4>2. freeing'[p] = "flags"  BY <2>3, <3>1, <4>1 DEF OnlyFreed
        <4>. QED  BY <1>2, <3>1, <4>2 DEF Releases
      <3>2. CASE j # i  BY <1>3, <2>1, <2>3, <3>2 DEF OnlyFreed, IInv, Cached
      <3>. QED  BY <3>1, <3>2
    <2>4. \A j \in Inum : valid'[j] => ref'[j] > 0  BY <1>3 DEF IInv, Cached
    <2>. QED  BY <2>2, <2>3, <2>4 DEF Cached
  <1>8. Freed'
    <2>1. ASSUME NEW q \in Proc \ {p}  PROVE FreeingOK(q)'
      <3>1. SUFFICES ASSUME freeing[q] # "idle"  PROVE FreeingOK(q)'
        BY <1>3 DEF FreeingOK
      <3>2. Put(q) \in Inum \ {i}
        <4>1. Put(q) # i  BY <1>1, <2>1, <3>1
        <4>2. Put(q) \in Inum  BY <3>1, FreerFacts
        <4>. QED  BY <4>1, <4>2
      <3>3. FreeingOK(q) /\ freeing'[q] = freeing[q]  BY <1>3 DEF IInv, Freed
      <3>. QED  BY <1>2, <1>3, <1>4, <3>1, <3>2, <3>3 DEF FreeingOK, OnlyFreed
    <2>2. ASSUME NEW q \in Proc  PROVE FreshOK(q)'
      <3>1. \A r \in Proc : \A j : Releases(r, j) => Releases(r, j)'
        BY <1>2, <1>3 DEF Releases, Frees
      <3>2. FreshOK(q)  BY DEF IInv, Freed
      <3>. QED  BY <1>3, <1>4, <3>1, <3>2 DEF FreshOK
    <2>. QED  BY <2>1, <2>2 DEF Freed
  <1>9. InodeKinds'
    <2>1. \A j \in Inum : dinode'[j].type # "file" => dinode'[j].addrs = {}
      BY <1>1 DEF OnlyFreed, IInv, InodeKinds
    <2>. QED  BY <1>0, <1>1, <2>1 DEF OnlyFreed, IInv, InodeKinds
  <1>10. \A j \in Inum : dinode'[j].type = "dir" => dinode[j].type = "dir"
    BY DEF OnlyFreed
  <1>11. \A d \in Inum, n \in Name : dent'[d][n] = dent[d][n] \/ dent'[d][n] = NoInum
    BY <1>1 DEF OnlyFreed, Empty
  <1>12. EntryKinds'
    BY <1>0, <1>10, <1>11, NoInumAssumption DEF IInv, EntryKinds
  <1>13. LinksCovered'
    <2>1. ASSUME NEW j \in Inum
          PROVE  dinode'[j].nlink >= Cardinality(AllLinks(j)') + Cardinality(Claims(j)')
      <3>1. AllLinks(j)' \subseteq AllLinks(j)  BY <1>11, NoInumAssumption DEF AllLinks
      <3>2. Claims(j)' = Claims(j)  BY <1>4 DEF Claims, ClaimOn
      <3>3. /\ IsFiniteSet(AllLinks(j)) /\ Cardinality(AllLinks(j)) \in Nat
            /\ Cardinality(Claims(j)) \in Nat
        BY <1>1, LinkCards
      <3>4. Cardinality(AllLinks(j)') <= Cardinality(AllLinks(j)) /\ Cardinality(AllLinks(j)') \in Nat
        <4>1. IsFiniteSet(AllLinks(j)') /\ Cardinality(AllLinks(j)') <= Cardinality(AllLinks(j))
          BY <3>1, <3>3, FS_Subset
        <4>. QED  BY <4>1, FS_CardinalityType
      <3>5. dinode[j].nlink >= Cardinality(AllLinks(j)) + Cardinality(Claims(j))
        BY DEF IInv, LinksCovered
      <3>6. dinode'[j].nlink = dinode[j].nlink /\ dinode[j].nlink \in Nat
        BY <1>1 DEF OnlyFreed, Types, Inode
      <3>. QED  BY <3>2, <3>3, <3>4, <3>5, <3>6
    <2>. QED  BY <2>1 DEF LinksCovered
  <1>14. RootCovered'
    <2>1. IsFiniteSet(Subdirs) /\ IsFiniteSet(DirClaims)  BY LinksFinite DEF FiniteDirs
    <2>2. Subdirs' \subseteq Subdirs
      <3>1. dent'[Root] = dent[Root] /\ \A n \in Name : dent[Root][n] \in Inum \cup {NoInum}
        BY <1>0, <1>1 DEF OnlyFreed, Types
      <3>. QED  BY <1>10, <3>1 DEF Subdirs, IsDir
    <2>3. DirClaims' \subseteq DirClaims
      <3>1. ASSUME NEW q \in Proc, DirClaim(q)'  PROVE DirClaim(q)
        <4>1. pc[q] = "erased" => HoldsIp(q)  BY DEF HoldsIp
        <4>2. Call(q)' = Call(q)  BY <1>2, CallsStayFacts
        <4>. QED  BY <1>3, <1>4, <1>5, <1>10, <3>1, <4>1, <4>2 DEF DirClaim
      <3>. QED  BY <3>1 DEF DirClaims
    <2>4. /\ Cardinality(Subdirs') <= Cardinality(Subdirs) /\ IsFiniteSet(Subdirs')
      BY <2>1, <2>2, FS_Subset
    <2>5. /\ Cardinality(DirClaims') <= Cardinality(DirClaims) /\ IsFiniteSet(DirClaims')
      BY <2>1, <2>3, FS_Subset
    <2>6. /\ Cardinality(Subdirs') \in Nat /\ Cardinality(DirClaims') \in Nat
          /\ Cardinality(Subdirs) \in Nat /\ Cardinality(DirClaims) \in Nat
      BY <2>1, <2>4, <2>5, FS_CardinalityType
    <2>7. dinode'[Root] = dinode[Root] /\ dinode[Root].nlink \in Nat
      BY <1>0, <1>1 DEF OnlyFreed, Types, Inode
    <2>8. dinode[Root].nlink >= 1 + Cardinality(Subdirs) + Cardinality(DirClaims)
      BY DEF IInv, RootCovered
    <2>9. dinode'[Root].nlink >= 1 + Cardinality(Subdirs') + Cardinality(DirClaims')
      BY <2>4, <2>5, <2>6, <2>7, <2>8
    <2>. QED  BY <2>9 DEF RootCovered
  <1>15. Reclaimed'
    <2>1. ref[i] > 0  BY <1>1 DEF IInv, Cached
    <2>2. \A j \in Inum : j # i => dinode'[j] = dinode[j]  BY DEF OnlyFreed
    <2>. QED  BY <1>1, <1>3, <1>4, <2>1, <2>2 DEF IInv, Reclaimed
  <1>16. \A j \in Inum \ {i} : Gone(j)' <=> Gone(j)
    <2>1. TAKE j \in Inum \ {i}
    <2>2. dinode'[j] = dinode[j]  BY DEF OnlyFreed
    <2>3. \A q \in Proc : freeing'[q] = "trunc" /\ Put(q)' = j <=> freeing[q] = "trunc" /\ Put(q) = j
      BY <1>2, <1>3
    <2>. QED  BY <1>3, <2>2, <2>3 DEF Gone
  <1>17. NoPanic'  BY <1>3 DEF IInv, NoPanic
  <1>. QED  BY <1>2, <1>6, <1>7, <1>8, <1>9, <1>12, <1>13, <1>14, <1>15, <1>16, <1>17

LEMMA BfreeZeroStep ==
  ASSUME IInv, NEW p \in Proc, BfreeZero(p)
  PROVE  IInv'
  <1>. DEFINE i == Put(p)
  <1>1. /\ freeing[p] = "bzero" /\ full' = full \ inode[i].addrs
        /\ dent' = [dent EXCEPT ![i] = Empty] /\ freeing' = [freeing EXCEPT ![p] = "bfree"]
        /\ UNCHANGED <<dinode, used, cachevars, pc, frame, puts, file, crashes, panicked>>
    BY DEF BfreeZero
  <1>2. /\ Types /\ i \in Inum \ {Root} /\ FreeingOK(p) /\ inode[i] = dinode[i]
        /\ dinode[i].nlink = 0
        /\ \A q \in Proc : freeing[q] # "idle" /\ Put(q) = i => q = p
    BY <1>1, FreerFacts
  <1>3. Frees(p) /\ freeing'[p] = "bfree" /\ "bfree" \in Freeings
    BY <1>1, <1>2 DEF Frees, Freeings, Types, cachevars
  <1>4. CallsStay(p) /\ freeing' \in [Proc -> Freeings] /\ \A q \in Proc : Put(q)' = Put(q)
    BY <1>3, FreesFacts
  <1>5. Types'
    <2>1. Empty \in [Name -> Inum \cup {NoInum}]  BY DEF Empty
    <2>. QED  BY <1>1, <1>2, <1>4, <2>1 DEF Types, cachevars
  <1>6. FreeingOK(p)'  BY <1>1, <1>2, <1>3, <1>4 DEF FreeingOK, cachevars
  <1>7. OnlyFreed(p)  BY <1>1, <1>2 DEF OnlyFreed, Types, cachevars
  <1>8. /\ Locals' /\ Counted' /\ Locked' /\ Cached' /\ Freed' /\ InodeKinds' /\ EntryKinds'
        /\ LinksCovered' /\ RootCovered' /\ Reclaimed' /\ NoPanic'
        /\ \A j \in Inum \ {i} : Gone(j)' <=> Gone(j)
    BY <1>1, <1>3, <1>5, <1>6, <1>7, FreesStep
  <1>9. Gone(i)' <=> Gone(i)
    <2>1. \A q \in Proc : ~(freeing[q] = "trunc" /\ Put(q) = i)  BY <1>1, <1>2
    <2>2. \A q \in Proc : ~(freeing'[q] = "trunc" /\ Put(q)' = i)  BY <1>2, <1>3, <1>4 DEF CallsStay
    <2>. QED  BY <1>1, <1>4, <2>1, <2>2 DEF Gone, cachevars
  <1>10. BlocksOwned' /\ NewOwned'
    <2>1. \A j \in Inum : Gone(j) => Gone(j)'  BY <1>4, <1>8, <1>9
    <2>2. used \subseteq used' /\ full' \subseteq used'  BY <1>1 DEF IInv, BlocksOwned
    <2>3. ActsAlone(p) /\ (Writes(p)' => Writes(p)) /\ frame'[p].new = frame[p].new
      BY <1>1, <1>4, CallsStayFacts
    <2>4. \A j \in Inum : dinode'[j].addrs = dinode[j].addrs  BY <1>1
    <2>. QED  BY <2>1, <2>2, <2>3, <2>4, BlocksKept
  <1>. QED  BY <1>5, <1>8, <1>10 DEF IInv

(* The inode is not in use when its bits are cleared, and nothing fills its    *)
(* blocks again before its addresses go.                                       *)
LEMMA BfreeBitStep ==
  ASSUME IInv, NEW p \in Proc, BfreeBit(p)
  PROVE  IInv'
  <1>. DEFINE i == Put(p)
  <1>1. /\ freeing[p] = "bfree" /\ used' = used \ inode[i].addrs
        /\ freeing' = [freeing EXCEPT ![p] = "trunc"]
        /\ UNCHANGED <<dinode, dent, full, cachevars, pc, frame, puts, file, crashes, panicked>>
    BY DEF BfreeBit
  <1>2. /\ Types /\ i \in Inum \ {Root} /\ FreeingOK(p) /\ inode[i] = dinode[i]
        /\ dinode[i].nlink = 0
        /\ \A q \in Proc : freeing[q] # "idle" /\ Put(q) = i => q = p
    BY <1>1, FreerFacts
  <1>3. Frees(p) /\ freeing'[p] = "trunc" /\ "trunc" \in Freeings
    BY <1>1, <1>2 DEF Frees, Freeings, Types, cachevars
  <1>4. CallsStay(p) /\ freeing' \in [Proc -> Freeings] /\ \A q \in Proc : Put(q)' = Put(q)
    BY <1>3, FreesFacts
  <1>5. Types'  BY <1>1, <1>2, <1>4 DEF Types, cachevars
  <1>6. FreeingOK(p)'  BY <1>1, <1>2, <1>3, <1>4 DEF FreeingOK, cachevars
  <1>7. OnlyFreed(p)  BY <1>1, <1>2 DEF OnlyFreed, Types, cachevars
  <1>8. /\ Locals' /\ Counted' /\ Locked' /\ Cached' /\ Freed' /\ InodeKinds' /\ EntryKinds'
        /\ LinksCovered' /\ RootCovered' /\ Reclaimed' /\ NoPanic'
        /\ \A j \in Inum \ {i} : Gone(j)' <=> Gone(j)
    BY <1>1, <1>3, <1>5, <1>6, <1>7, FreesStep
  <1>9. Gone(i)' /\ ~Gone(i)
    <2>1. ~Gone(i)  BY <1>1, FreeingKept
    <2>. QED  BY <1>1, <1>2, <1>3, <1>4, <2>1 DEF Gone
  <1>10. used' = used \ dinode[i].addrs /\ full \cap dinode[i].addrs = {} /\ dinode' = dinode /\ full' = full
    BY <1>1, <1>2 DEF FreeingOK
  <1>11. BlocksOwned'
    <2>1. \A j \in Inum : ~Gone(j)' => j # i /\ ~Gone(j)  BY <1>4, <1>8, <1>9
    <2>2. full' \subseteq used'  BY <1>10 DEF IInv, BlocksOwned
    <2>3. \A j \in Inum : ~Gone(j)' => dinode'[j].addrs \subseteq used'
      BY <1>2, <1>9, <1>10, <2>1 DEF IInv, BlocksOwned
    <2>4. \A j, k \in Inum : j # k /\ ~Gone(j)' /\ ~Gone(k)' => dinode'[j].addrs \cap dinode'[k].addrs = {}
      BY <1>10, <2>1 DEF IInv, BlocksOwned
    <2>. QED  BY <2>2, <2>3, <2>4 DEF BlocksOwned
  <1>12. NewOwned'
    <2>1. \A q \in Proc : (Writes(q)' <=> Writes(q)) /\ frame'[q] = frame[q]
      BY <1>1, <1>4, CallsStayFacts
    <2>2. ASSUME NEW q \in Proc, Writes(q)
          PROVE  /\ frame[q].new \subseteq used'
                 /\ \A j \in Inum : ~Gone(j)' => frame[q].new \cap dinode'[j].addrs = {}
                 /\ \A r \in Proc \ {q} : Writes(r) => frame[q].new \cap frame[r].new = {}
      <3>1. /\ frame[q].new \subseteq used
            /\ \A j \in Inum : ~Gone(j) => frame[q].new \cap dinode[j].addrs = {}
            /\ \A r \in Proc \ {q} : Writes(r) => frame[q].new \cap frame[r].new = {}
        BY <2>2 DEF IInv, NewOwned
      <3>2. frame[q].new \cap dinode[i].addrs = {}  BY <1>2, <1>9, <3>1
      <3>3. \A j \in Inum : ~Gone(j)' => ~Gone(j)  BY <1>8, <1>9
      <3>. QED  BY <1>10, <3>1, <3>2, <3>3
    <2>. QED  BY <2>1, <2>2 DEF NewOwned
  <1>. QED  BY <1>5, <1>8, <1>11, <1>12 DEF IInv

(* The owners of the blocks when an inode loses its own.                       *)
LEMMA AddrsGone ==
  ASSUME IInv, NEW p \in Proc, CallsStay(p), NEW i \in Inum, used' = used, full' = full,
         dinode'[i].addrs = {}, \A j \in Inum \ {i} : dinode'[j].addrs = dinode[j].addrs,
         \A j \in Inum \ {i} : Gone(j) => Gone(j)'
  PROVE  BlocksOwned' /\ NewOwned'
  <1>1. BlocksOwned'  BY DEF IInv, BlocksOwned
  <1>2. \A q \in Proc : (Writes(q)' <=> Writes(q)) /\ frame'[q] = frame[q]
    BY CallsStayFacts DEF CallsStay
  <1>3. NewOwned'  BY <1>2 DEF IInv, NewOwned
  <1>. QED  BY <1>1, <1>3

LEMMA ItruncStep ==
  ASSUME IInv, NEW p \in Proc, Itrunc(p)
  PROVE  IInv'
  <1>. DEFINE i == Put(p)
              r == [inode[i] EXCEPT !.addrs = {}]
  <1>1. /\ freeing[p] = "trunc" /\ Iupdate(i, r) /\ freeing' = [freeing EXCEPT ![p] = "type"]
        /\ UNCHANGED <<dent, used, full, ref, busy, valid, pc, frame, puts, file, crashes, panicked>>
    BY DEF Itrunc
  <1>2. /\ Types /\ i \in Inum \ {Root} /\ FreeingOK(p) /\ inode[i] = dinode[i]
        /\ dinode[i].nlink = 0
    BY <1>1, FreerFacts
  <1>3. Frees(p) /\ freeing'[p] = "type" /\ "type" \in Freeings
    BY <1>1, <1>2 DEF Frees, Freeings, Types
  <1>4. CallsStay(p) /\ freeing' \in [Proc -> Freeings] /\ \A q \in Proc : Put(q)' = Put(q)
    BY <1>3, FreesFacts
  <1>5. r \in Inode /\ r.type = dinode[i].type /\ r.nlink = 0 /\ r.addrs = {}
    BY <1>2 DEF Types, Inode
  <1>. HIDE DEF r
  <1>6. /\ dinode' = [dinode EXCEPT ![i] = r] /\ inode' = [inode EXCEPT ![i] = r]
        /\ dinode \in [Inum -> Inode] /\ inode \in [Inum -> Inode]
    BY <1>1, <1>2 DEF Iupdate, Types
  <1>7. Types'
    <2>1. dinode' \in [Inum -> Inode] /\ inode' \in [Inum -> Inode]  BY <1>5, <1>6
    <2>. QED  BY <1>1, <1>2, <1>4, <2>1 DEF Types
  <1>8. FreeingOK(p)'
    <2>1. ref[i] = 1 /\ dinode[i].type # "free"  BY <1>1, <1>2 DEF FreeingOK
    <2>2. ref'[i] = 1 /\ dinode'[i] = r /\ Put(p)' = i  BY <1>1, <1>2, <1>4, <1>6, <2>1
    <2>. QED  BY <1>3, <1>5, <2>1, <2>2 DEF FreeingOK
  <1>9. OnlyFreed(p)  BY <1>1, <1>2, <1>5, <1>6 DEF OnlyFreed
  <1>10. /\ Locals' /\ Counted' /\ Locked' /\ Cached' /\ Freed' /\ InodeKinds' /\ EntryKinds'
         /\ LinksCovered' /\ RootCovered' /\ Reclaimed' /\ NoPanic'
         /\ \A j \in Inum \ {i} : Gone(j)' <=> Gone(j)
    BY <1>1, <1>3, <1>7, <1>8, <1>9, FreesStep
  <1>11. dinode'[i].addrs = {} /\ \A j \in Inum \ {i} : dinode'[j].addrs = dinode[j].addrs
    BY <1>2, <1>5, <1>6
  <1>12. BlocksOwned' /\ NewOwned'
    BY <1>1, <1>2, <1>4, <1>10, <1>11, AddrsGone
  <1>. QED  BY <1>7, <1>10, <1>12 DEF IInv

LEMMA FreeTypeStep ==
  ASSUME IInv, NEW p \in Proc, FreeType(p)
  PROVE  IInv'
  <1>. DEFINE i == Put(p)
              r == [inode[i] EXCEPT !.type = "free"]
  <1>1. /\ freeing[p] = "type" /\ Iupdate(i, r) /\ freeing' = [freeing EXCEPT ![p] = "flags"]
        /\ UNCHANGED <<dent, used, full, ref, busy, valid, pc, frame, puts, file, crashes, panicked>>
    BY DEF FreeType
  <1>2. /\ Types /\ i \in Inum \ {Root} /\ FreeingOK(p) /\ inode[i] = dinode[i]
        /\ dinode[i].nlink = 0
    BY <1>1, FreerFacts
  <1>3. Frees(p) /\ freeing'[p] = "flags" /\ "flags" \in Freeings
    BY <1>1, <1>2 DEF Frees, Freeings, Types
  <1>4. CallsStay(p) /\ freeing' \in [Proc -> Freeings] /\ \A q \in Proc : Put(q)' = Put(q)
    BY <1>3, FreesFacts
  <1>0. ref[i] = 1 /\ dinode[i].addrs = {}  BY <1>1, <1>2 DEF FreeingOK
  <1>5. r \in Inode /\ r.type = "free" /\ r.nlink = 0 /\ r.addrs = {}
    BY <1>0, <1>2 DEF Types, Inode
  <1>. HIDE DEF r
  <1>6. /\ dinode' = [dinode EXCEPT ![i] = r] /\ inode' = [inode EXCEPT ![i] = r]
        /\ dinode \in [Inum -> Inode] /\ inode \in [Inum -> Inode]
    BY <1>1, <1>2 DEF Iupdate, Types
  <1>7. Types'
    <2>1. dinode' \in [Inum -> Inode] /\ inode' \in [Inum -> Inode]  BY <1>5, <1>6
    <2>. QED  BY <1>1, <1>2, <1>4, <2>1 DEF Types
  <1>8. FreeingOK(p)'
    <2>1. ref'[i] = 1 /\ dinode'[i] = r /\ Put(p)' = i  BY <1>0, <1>1, <1>2, <1>4, <1>6
    <2>. QED  BY <1>3, <1>5, <2>1 DEF FreeingOK
  <1>9. OnlyFreed(p)  BY <1>1, <1>2, <1>3, <1>5, <1>6 DEF OnlyFreed
  <1>10. /\ Locals' /\ Counted' /\ Locked' /\ Cached' /\ Freed' /\ InodeKinds' /\ EntryKinds'
         /\ LinksCovered' /\ RootCovered' /\ Reclaimed' /\ NoPanic'
         /\ \A j \in Inum \ {i} : Gone(j)' <=> Gone(j)
    BY <1>1, <1>3, <1>7, <1>8, <1>9, FreesStep
  <1>11. dinode'[i].addrs = {} /\ \A j \in Inum \ {i} : dinode'[j].addrs = dinode[j].addrs
    BY <1>2, <1>5, <1>6
  <1>12. BlocksOwned' /\ NewOwned'
    BY <1>1, <1>2, <1>4, <1>10, <1>11, AddrsGone
  <1>. QED  BY <1>7, <1>10, <1>12 DEF IInv

(* iput gives back one reference.                                              *)
LEMMA PutDoneFacts ==
  ASSUME IInv, NEW p \in Proc, puts[p] # <<>>, PutDone(p)
  PROVE  /\ Put(p) \in Inum /\ ref[Put(p)] \in Nat \ {0} /\ ref'[Put(p)] = ref[Put(p)] - 1
         /\ \A i \in Inum \ {Put(p)} : ref'[i] = ref[i]
         /\ puts'[p] = Tail(puts[p]) /\ \A q \in Proc \ {p} : puts'[q] = puts[q]
         /\ puts' \in [Proc -> PutLists] /\ ref' \in [Inum -> Nat]
  <1>1. /\ Types /\ puts[p] \in PutLists /\ puts \in [Proc -> PutLists] /\ ref \in [Inum -> Nat]
    BY DEF IInv, Types
  <1>2. Put(p) \in Inum /\ Tail(puts[p]) \in PutLists  BY <1>1, PutFacts DEF Put
  <1>3. ref[Put(p)] >= 1
    <2>1. Count(p, Put(p)) >= 1  BY <1>1, PutCounts
    <2>. QED  BY <1>1, <1>2, <2>1, HoldFacts DEF IInv
  <1>4. ref[Put(p)] \in Nat \ {0} /\ ref[Put(p)] - 1 \in Nat  BY <1>1, <1>2, <1>3
  <1>5. /\ puts' = [puts EXCEPT ![p] = Tail(puts[p])]
        /\ ref' = [ref EXCEPT ![Put(p)] = ref[Put(p)] - 1]
    BY DEF PutDone
  <1>6. puts'[p] = Tail(puts[p]) /\ puts' \in [Proc -> PutLists] /\ \A q \in Proc \ {p} : puts'[q] = puts[q]
    BY <1>1, <1>2, <1>5
  <1>7. /\ ref' \in [Inum -> Nat] /\ ref'[Put(p)] = ref[Put(p)] - 1
        /\ \A i \in Inum \ {Put(p)} : ref'[i] = ref[i]
    BY <1>1, <1>2, <1>4, <1>5
  <1>. QED  BY <1>2, <1>4, <1>6, <1>7

LEMMA PutDoneCounted ==
  ASSUME IInv, Types', NEW p \in Proc, puts[p] # <<>>, PutDone(p), CallsStay(p)
  PROVE  Counted'
  <1>1. Types /\ Counted /\ puts[p] \in PutLists  BY DEF IInv, Types
  <1>2. /\ Put(p) \in Inum /\ ref[Put(p)] \in Nat \ {0} /\ ref'[Put(p)] = ref[Put(p)] - 1
        /\ \A i \in Inum \ {Put(p)} : ref'[i] = ref[i]
        /\ puts'[p] = Tail(puts[p])
    BY PutDoneFacts
  <1>3. /\ ActsAlone(p) /\ file'[p] = file[p]
        /\ (HoldsDp(p)' <=> HoldsDp(p)) /\ (HoldsIp(p)' <=> HoldsIp(p))
        /\ Dp(p)' = Dp(p) /\ Ip(p)' = Ip(p)
    BY CallsStayFacts DEF CallsStay
  <1>4. ASSUME NEW i \in Inum
        PROVE  ref'[i] - ref[i] \in {-1, 0, 1} /\ Count(p, i)' = Count(p, i) + (ref'[i] - ref[i])
    <2>1. ProcTypes'  BY DEF Types, ProcTypes
    <2>2. Queued(puts'[p], i) = Queued(puts[p], i) - CountIf(Put(p) = i)
      BY <1>1, <1>2, PutFacts DEF Put
    <2>3. Count(p, i)' = Count(p, i) - CountIf(Put(p) = i)
      BY <1>1, <1>3, <2>1, <2>2, CountAfter DEF CountIf
    <2>4. Count(p, i) \in 0 .. 6 /\ ref[i] \in Nat  BY <1>1, CountType DEF Types
    <2>5. CASE i = Put(p)  BY <1>2, <2>3, <2>4, <2>5 DEF CountIf
    <2>6. CASE i # Put(p)  BY <1>2, <2>3, <2>4, <2>6 DEF CountIf
    <2>. QED  BY <2>5, <2>6
  <1>. QED  BY <1>1, <1>3, <1>4, CountedStep

LEMMA FreeFlagsStep ==
  ASSUME IInv, NEW p \in Proc, FreeFlags(p)
  PROVE  IInv'
  <1>. DEFINE i == Put(p)
  <1>1. /\ freeing[p] = "flags" /\ busy' = [busy EXCEPT ![i] = FALSE] /\ PutDone(p)
        /\ valid' = [valid EXCEPT ![i] = FALSE] /\ inode' = [inode EXCEPT ![i] = FreeInode]
        /\ freeing' = [freeing EXCEPT ![p] = "idle"]
        /\ UNCHANGED <<diskvars, pc, frame, file, crashes, panicked>>
    BY DEF FreeFlags, Forget
  <1>2. /\ Types /\ i \in Inum \ {Root} /\ puts[p] # <<>> /\ FreeingOK(p) /\ Owns(p, i)
        /\ dinode[i].nlink = 0
        /\ \A q \in Proc : freeing[q] # "idle" /\ Put(q) = i => q = p
        /\ \A q \in Proc : ~Uses(q, i) /\ (Owns(q, i) => q = p)
    BY <1>1, FreerFacts
  <1>3. /\ ref[i] \in Nat \ {0} /\ ref'[i] = ref[i] - 1
        /\ \A j \in Inum \ {i} : ref'[j] = ref[j]
        /\ \A q \in Proc \ {p} : puts'[q] = puts[q]
        /\ puts' \in [Proc -> PutLists] /\ ref' \in [Inum -> Nat]
    BY <1>1, <1>2, PutDoneFacts
  <1>4. /\ busy' \in [Inum -> BOOLEAN] /\ ~busy'[i] /\ \A j \in Inum \ {i} : busy'[j] = busy[j]
        /\ valid' \in [Inum -> BOOLEAN] /\ ~valid'[i] /\ \A j \in Inum \ {i} : valid'[j] = valid[j]
        /\ inode' \in [Inum -> Inode] /\ \A j \in Inum \ {i} : inode'[j] = inode[j]
        /\ freeing' \in [Proc -> Freeings] /\ freeing'[p] = "idle"
        /\ \A q \in Proc \ {p} : freeing'[q] = freeing[q]
        /\ dinode' = dinode /\ dent' = dent /\ used' = used /\ full' = full
        /\ panicked' = panicked /\ crashes' = crashes
    <2>1. FreeInode \in Inode  BY DEF FreeInode, Inode
    <2>. QED  BY <1>1, <1>2, <2>1 DEF Types, diskvars, Freeings
  <1>5. Types'
    BY <1>1, <1>2, <1>3, <1>4 DEF Types
  <1>6. CallsStay(p)  BY <1>1, <1>3, <1>4 DEF CallsStay
  <1>7. Counted'  BY <1>1, <1>2, <1>5, <1>6, PutDoneCounted
  <1>8. /\ ActsAlone(p)
        /\ \A q \in Proc : /\ (HoldsIp(q)' <=> HoldsIp(q)) /\ (Linked(q)' <=> Linked(q))
                           /\ (Writes(q)' <=> Writes(q)) /\ Call(q)' = Call(q)
                           /\ (Claim(q)' <=> Claim(q)) /\ Dp(q)' = Dp(q) /\ Ip(q)' = Ip(q)
        /\ \A q \in Proc \ {p} : Put(q)' = Put(q) /\ \A j \in Inum : Owns(q, j)' <=> Owns(q, j)
        /\ pc' = pc /\ file' = file /\ frame' = frame
    BY <1>6, CallsStayFacts DEF CallsStay
  <1>9. \A j \in Inum : Owns(p, j)' <=> (Owns(p, j) /\ j # i)
    <2>1. ASSUME NEW j \in Inum, Owns(p, j), j # i  PROVE Owns(p, j)'
      BY <1>8, <2>1 DEF Owns
    <2>2. ASSUME NEW j \in Inum, Owns(p, j)'  PROVE Owns(p, j) /\ j # i
      <3>1. \/ pc[p] \in {"ialloc", "init", "dotdot", "dirlink", "victim", "erased"} /\ Dp(p) = j
            \/ pc[p] \in {"dotdot", "dirlink", "made", "erased", "unlinked"} /\ Ip(p) = j
            \/ Writes(p) /\ file[p] = j
        BY <1>4, <1>8, <2>2 DEF Owns
      <3>2. Uses(p, j)  BY <3>1 DEF Uses, HoldsDp, HoldsIp
      <3>3. Owns(p, j)  BY <3>1 DEF Owns
      <3>. QED  BY <1>2, <3>2, <3>3
    <2>. QED  BY <2>1, <2>2
  <1>10. Locked'
    <2>1. busy \in [Inum -> BOOLEAN] /\ Locked  BY <1>2 DEF IInv, Types
    <2>2. \A j \in Inum : \/ busy'[j] = busy[j] /\ (Owns(p, j)' <=> Owns(p, j))
                          \/ Owns(p, j) /\ ~busy'[j] /\ ~Owns(p, j)'
      BY <1>2, <1>4, <1>9
    <2>. QED  BY <1>4, <1>8, <2>1, <2>2, LockedStep
  <1>11. Locals'
    <2>1. \A q \in Proc, j \in Inum : Owns(q, j)' => valid'[j]
      <3>1. ASSUME NEW q \in Proc, NEW j \in Inum, Owns(q, j)'  PROVE Owns(q, j) /\ j # i
        BY <1>2, <1>8, <1>9, <3>1
      <3>2. \A q \in Proc, j \in Inum : Owns(q, j) => valid[j]
        BY DEF IInv, Locals, LocalOK, LoadedOK
      <3>. QED  BY <1>4, <3>1, <3>2
    <2>2. \A q \in Proc : Linked(q) => valid'[Ip(q)]
      <3>1. TAKE q \in Proc
      <3>2. HAVE Linked(q)
      <3>3. LocalOK(q) /\ HoldsIp(q) /\ pc[q] # "init"  BY <3>2 DEF IInv, Locals, HoldsIp, Linked
      <3>4. Ip(q) \in Inum /\ valid[Ip(q)] /\ Uses(q, Ip(q))
        BY <3>2, <3>3 DEF LocalOK, InumOK, LoadedOK, Uses
      <3>. QED  BY <1>2, <1>4, <3>4
    <2>3. \A q \in Proc : pc[q] = "init" => dinode'[Ip(q)].nlink = 0 /\ dinode'[Ip(q)].addrs = {}
      BY <1>4 DEF IInv, Locals, LocalOK, KindOK
    <2>. QED  BY <1>2, <1>4, <1>6, <2>1, <2>2, <2>3, LocalsFreed
  <1>12. \A q \in Proc, j \in Inum : j # i => (Releases(q, j)' <=> Releases(q, j))
    BY <1>4, <1>8 DEF Releases
  <1>13. dinode[i].type = "free" => ref[i] = 1
    <2>1. ASSUME NEW q \in Proc, pc[q] = "init", Ip(q) = i  PROVE dinode[i].type # "free"
      BY <2>1 DEF IInv, Locals, LocalOK, KindOK
    <2>. QED  BY <1>1, <1>2, <2>1 DEF FreeingOK
  <1>14. Cached'
    <2>1. \A j \in Inum : valid'[j] => ref'[j] > 0
      BY <1>3, <1>4 DEF IInv, Cached
    <2>2. \A j \in Inum : valid'[j] /\ inode'[j] # dinode'[j] => \E q \in Proc : Releases(q, j)'
      BY <1>4, <1>12 DEF IInv, Cached
    <2>3. \A j \in Inum : dinode'[j].type = "free" => ref'[j] = 0 \/ \E q \in Proc : Releases(q, j)'
      BY <1>3, <1>4, <1>12, <1>13 DEF IInv, Cached
    <2>. QED  BY <2>1, <2>2, <2>3 DEF Cached
  <1>15. Freed'
    <2>1. ASSUME NEW q \in Proc  PROVE FreeingOK(q)'
      <3>1. SUFFICES ASSUME freeing'[q] # "idle"  PROVE FreeingOK(q)'
        BY DEF FreeingOK
      <3>2. q # p /\ freeing'[q] = freeing[q] /\ Put(q)' = Put(q)  BY <1>4, <1>8, <3>1
      <3>3. Put(q) \in Inum \ {i}
        <4>1. Put(q) \in Inum  BY <3>1, <3>2, FreerFacts
        <4>. QED  BY <1>2, <3>1, <3>2, <4>1
      <3>4. FreeingOK(q)  BY DEF IInv, Freed
      <3>. QED  BY <1>3, <1>4, <1>8, <3>1, <3>2, <3>3, <3>4 DEF FreeingOK
    <2>2. ASSUME NEW q \in Proc  PROVE FreshOK(q)'
      <3>1. SUFFICES ASSUME pc[q] = "init"
                     PROVE ref'[Ip(q)] = 1 \/ (ref'[Ip(q)] = 2 /\ \E r \in Proc : Releases(r, Ip(q))')
        BY <1>8 DEF FreshOK
      <3>2. LocalOK(q) /\ HoldsIp(q) /\ FreshOK(q)  BY <3>1 DEF IInv, Locals, Freed, HoldsIp
      <3>3. Ip(q) \in Inum /\ dinode[Ip(q)].type # "free"  BY <3>1, <3>2 DEF LocalOK, InumOK, KindOK
      <3>4. CASE Ip(q) = i
        <4>1. ref[i] = 2  BY <1>1, <1>2, <3>3, <3>4 DEF FreeingOK
        <4>. QED  BY <1>3, <3>4, <4>1
      <3>5. CASE Ip(q) # i
        <4>1. ref[Ip(q)] = 1 \/ (ref[Ip(q)] = 2 /\ \E r \in Proc : Releases(r, Ip(q)))
          BY <3>1, <3>2 DEF FreshOK
        <4>2. Ip(q)' = Ip(q) /\ ref'[Ip(q)] = ref[Ip(q)]  BY <1>3, <1>8, <3>3, <3>5
        <4>3. \A r \in Proc : Releases(r, Ip(q)) => Releases(r, Ip(q))'
          BY <1>4, <1>8, <3>5, <4>2 DEF Releases
        <4>. QED  BY <4>1, <4>2, <4>3
      <3>. QED  BY <3>4, <3>5
    <2>. QED  BY <2>1, <2>2 DEF Freed
  <1>16. InodeKinds'  BY <1>4 DEF IInv, InodeKinds
  <1>17. Reclaimed'
    <2>1. SUFFICES ASSUME crashes = 0, NEW j \in Inum, dinode[j].type # "free", dinode[j].nlink = 0
                   PROVE  \/ \E q \in Proc : pc'[q] = "init" /\ Ip(q)' = j
                          \/ ref'[j] > 0 /\ valid'[j]
      BY <1>4 DEF Reclaimed
    <2>2. CASE j = i
      <3>1. \E q \in Proc : pc[q] = "init" /\ Ip(q) = i  BY <1>1, <1>2, <2>1, <2>2 DEF FreeingOK
      <3>. QED  BY <1>8, <2>2, <3>1
    <2>3. CASE j # i  BY <1>3, <1>4, <1>8, <2>1, <2>3 DEF IInv, Reclaimed
    <2>. QED  BY <2>2, <2>3
  <1>18. LinksCovered' /\ RootCovered' /\ EntryKinds'
    <2>1. SameTypes  BY <1>4 DEF SameTypes
    <2>2. Root \in Inum  BY InumAssumption DEF Root, Inum
    <2>3. \A j \in Inum : dinode[j].nlink \in Nat  BY <1>2 DEF Types, Inode
    <2>4. \A j \in Inum : ClaimOn(p, j)' <=> ClaimOn(p, j)  BY <1>8 DEF ClaimOn
    <2>5. \A j \in Inum : CountIf(ClaimOn(p, j)') - CountIf(ClaimOn(p, j)) = 0
      BY <2>4 DEF CountIf
    <2>6. DirClaim(p)' <=> DirClaim(p)  BY <1>4, <1>8 DEF DirClaim
    <2>7. CountIf(DirClaim(p)') - CountIf(DirClaim(p)) = 0  BY <2>6 DEF CountIf
    <2>8. \A j \in Inum : dinode'[j].nlink >= dinode[j].nlink + (CountIf(ClaimOn(p, j)') - CountIf(ClaimOn(p, j)))
      BY <1>4, <2>3, <2>5
    <2>9. dinode'[Root].nlink >= dinode[Root].nlink + (CountIf(DirClaim(p)') - CountIf(DirClaim(p)))
      BY <1>4, <2>2, <2>3, <2>7
    <2>. QED  BY <1>4, <1>5, <1>8, <2>1, <2>8, <2>9, CoveredKept
  <1>19. BlocksOwned' /\ NewOwned'
    <2>1. \A j \in Inum : Gone(j) => Gone(j)'
      <3>1. TAKE j \in Inum
      <3>2. HAVE Gone(j)
      <3>3. CASE ref[j] = 0
        <4>1. j # i  BY <1>3, <3>3
        <4>2. ref'[j] = 0 /\ dinode'[j].nlink = 0  BY <1>3, <1>4, <3>2, <3>3, <4>1 DEF Gone
        <4>. QED  BY <4>2 DEF Gone
      <3>4. CASE \E q \in Proc : freeing[q] = "trunc" /\ Put(q) = j
        <4>1. PICK q \in Proc : freeing[q] = "trunc" /\ Put(q) = j  BY <3>4
        <4>2. q # p  BY <1>1, <4>1
        <4>3. freeing'[q] = "trunc" /\ Put(q)' = j  BY <1>4, <1>8, <4>1, <4>2
        <4>. QED  BY <1>4, <3>2, <4>3 DEF Gone
      <3>. QED  BY <3>2, <3>3, <3>4 DEF Gone
    <2>2. used \subseteq used' /\ full' \subseteq used'  BY <1>4 DEF IInv, BlocksOwned
    <2>3. \A j \in Inum : dinode'[j].addrs = dinode[j].addrs  BY <1>4
    <2>. QED  BY <1>8, <2>1, <2>2, <2>3, BlocksKept
  <1>20. NoPanic'  BY <1>4 DEF IInv, NoPanic
  <1>. QED
    BY <1>5, <1>7, <1>10, <1>11, <1>14, <1>15, <1>16, <1>17, <1>18, <1>19, <1>20 DEF IInv

(* A process that is about to iput uses the inode, and when it has the only    *)
(* reference nobody has it locked.                                             *)
LEMMA PutterFacts ==
  ASSUME IInv, NEW p \in Proc, puts[p] # <<>>, freeing[p] = "idle"
  PROVE  /\ Types /\ Put(p) \in Inum /\ Steady(Put(p))
         /\ ref[Put(p)] = 1 => \A q \in Proc : ~Owns(q, Put(p)) /\ (HoldsIp(q) => Ip(q) # Put(p))
  <1>. DEFINE i == Put(p)
  <1>1. Types /\ Counted /\ LocalOK(p) /\ puts[p] \in PutLists  BY DEF IInv, Locals, Types
  <1>2. i \in Inum /\ Count(p, i) >= 1  BY <1>1, PutCounts
  <1>3. Uses(p, i)  BY DEF Uses
  <1>4. Steady(i)  BY <1>2, <1>3, UsesSteady
  <1>5. ASSUME ref[i] = 1, NEW q \in Proc, HoldsIp(q), Ip(q) = i  PROVE FALSE
    <2>1. CASE q = p
      <3>1. Queued(puts[p], i) \in 0 .. 2 /\ Queued(puts[p], i) >= 1  BY <1>1, PutFacts DEF Put
      <3>2. \A b : CountIf(b) \in {0, 1}  BY DEF CountIf
      <3>3. CountIf(HoldsIp(p) /\ Ip(p) = i) = 1  BY <1>5, <2>1 DEF CountIf
      <3>4. /\ CountIf(i = Root) \in {0, 1} /\ CountIf(HoldsDp(p) /\ Dp(p) = i) \in {0, 1}
            /\ CountIf(file[p] = i) \in {0, 1}
        BY <3>2
      <3>5. Count(p, i) >= 2  BY <3>1, <3>3, <3>4 DEF Count
      <3>6. ref[i] >= 2  BY <1>1, <1>2, <3>5, HoldFacts
      <3>. QED  BY <1>5, <3>6
    <2>2. CASE q # p
      <3>1. pc[q] # "init"  BY <1>4, <1>5 DEF Steady
      <3>2. Uses(q, i)  BY <1>5, <3>1 DEF Uses
      <3>3. Count(q, i) >= 1  BY <1>1, <1>2, <3>2, PutCounts
      <3>4. ref[i] >= 2  BY <1>1, <1>2, <2>2, <3>3, HoldFacts
      <3>. QED  BY <1>5, <3>4
    <2>. QED  BY <2>1, <2>2
  <1>6. ASSUME ref[i] = 1, NEW q \in Proc, Owns(q, i)  PROVE FALSE
    <2>1. ~(freeing[q] # "idle" /\ Put(q) = i)  BY <1>4 DEF Steady
    <2>2. CASE q = p
      <3>1. pc[p] \in {"idle", "existing", "made", "unlinked", "bad"}
        BY <1>1 DEF LocalOK, PutsOK
      <3>2. HoldsIp(p) /\ Ip(p) = i  BY <1>6, <2>1, <2>2, <3>1 DEF Owns, Writes, HoldsIp
      <3>. QED  BY <1>5, <1>6, <3>2
    <2>3. CASE q # p
      <3>1. Uses(q, i)  BY <1>2, <1>6, <2>1, OwnerUses
      <3>2. Count(q, i) >= 1  BY <1>1, <1>2, <3>1, PutCounts
      <3>3. ref[i] >= 2  BY <1>1, <1>2, <2>3, <3>2, HoldFacts
      <3>. QED  BY <1>6, <3>3
    <2>. QED  BY <2>2, <2>3
  <1>. QED  BY <1>1, <1>2, <1>4, <1>5, <1>6

(* The last iput finds the inode unlocked, as iput's panic says it must.       *)
LEMMA IputLast ==
  ASSUME IInv, NEW p \in Proc, Iput(p), Last(Put(p))
  PROVE  IInv'
  <1>. DEFINE i == Put(p)
  <1>0. Root \in Inum  BY InumAssumption DEF Root, Inum
  <1>1. /\ puts[p] # <<>> /\ freeing[p] = "idle" /\ panicked' = busy[i]
        /\ busy' = [busy EXCEPT ![i] = TRUE] /\ freeing' = [freeing EXCEPT ![p] = "bzero"]
        /\ UNCHANGED <<puts, ref, inode, valid>>
        /\ UNCHANGED <<diskvars, pc, frame, file, crashes>>
    BY DEF Iput
  <1>2. ref[i] = 1 /\ valid[i] /\ inode[i].nlink = 0  BY DEF Last
  <1>3. /\ Types /\ i \in Inum /\ Steady(i) /\ \A q \in Proc : ~Owns(q, i)
        /\ \A q \in Proc : HoldsIp(q) => Ip(q) # i
    BY <1>1, <1>2, PutterFacts
  <1>4. ~busy[i] /\ ~panicked'
    <2>1. ~busy[i]  BY <1>3 DEF IInv, Locked
    <2>. QED  BY <1>1, <2>1
  <1>5. dinode[i].nlink = 0 /\ dinode[i].type # "free" /\ inode[i] = dinode[i]
    BY <1>2, <1>3 DEF Steady, Loaded
  <1>6. /\ busy' \in [Inum -> BOOLEAN] /\ busy'[i] /\ \A j \in Inum \ {i} : busy'[j] = busy[j]
        /\ freeing' \in [Proc -> Freeings] /\ freeing'[p] = "bzero"
        /\ \A q \in Proc \ {p} : freeing'[q] = freeing[q]
        /\ dinode' = dinode /\ dent' = dent /\ used' = used /\ full' = full
    BY <1>1, <1>3 DEF Types, diskvars, Freeings
  <1>7. Types'  BY <1>1, <1>3, <1>6 DEF Types
  <1>8. CallsStay(p)  BY <1>1, <1>6 DEF CallsStay
  <1>9. /\ ActsAlone(p) /\ Put(p)' = Put(p)
        /\ \A q \in Proc : /\ (HoldsIp(q)' <=> HoldsIp(q)) /\ (Writes(q)' <=> Writes(q))
                           /\ (Claim(q)' <=> Claim(q)) /\ Dp(q)' = Dp(q) /\ Ip(q)' = Ip(q)
                           /\ (HoldsDp(q)' <=> HoldsDp(q))
        /\ \A q \in Proc \ {p} : Put(q)' = Put(q) /\ \A j \in Inum : Owns(q, j)' <=> Owns(q, j)
        /\ pc' = pc /\ file' = file /\ frame' = frame /\ puts' = puts
    BY <1>1, <1>8, CallsStayFacts DEF CallsStay, Put
  <1>10. \A j \in Inum : Owns(p, j)' <=> (Owns(p, j) \/ j = i)
    BY <1>1, <1>6, <1>9 DEF Owns
  <1>11. Counted'
    <2>1. \A j \in Inum : Counts(j)' = Counts(j)  BY <1>9 DEF Counts, Count
    <2>. QED  BY <1>1, <2>1 DEF IInv, Counted, Numbered
  <1>12. Locked'
    <2>1. busy \in [Inum -> BOOLEAN] /\ Locked  BY <1>3 DEF IInv, Types
    <2>2. \A j \in Inum : \/ busy'[j] = busy[j] /\ (Owns(p, j)' <=> Owns(p, j))
                          \/ ~busy[j] /\ busy'[j] /\ Owns(p, j)'
      BY <1>4, <1>6, <1>10
    <2>. QED  BY <1>6, <1>9, <2>1, <2>2, LockedStep
  <1>13. Locals'
    <2>1. \A q \in Proc, j \in Inum : Owns(q, j)' => valid'[j]
      <3>1. \A q \in Proc, j \in Inum : Owns(q, j) => valid[j]
        BY DEF IInv, Locals, LocalOK, LoadedOK
      <3>. QED  BY <1>1, <1>2, <1>9, <1>10, <3>1
    <2>2. \A q \in Proc : Linked(q) => valid'[Ip(q)]
      BY <1>1 DEF IInv, Locals, LocalOK, LoadedOK
    <2>3. \A q \in Proc : pc[q] = "init" => dinode'[Ip(q)].nlink = 0 /\ dinode'[Ip(q)].addrs = {}
      BY <1>6 DEF IInv, Locals, LocalOK, KindOK
    <2>. QED  BY <1>1, <1>6, <1>8, <2>1, <2>2, <2>3, LocalsFreed
  <1>14. \A q \in Proc : \A j : Releases(q, j)' <=> Releases(q, j)
    BY <1>1, <1>6, <1>9 DEF Releases
  <1>15. Cached'  BY <1>1, <1>6, <1>14 DEF IInv, Cached
  <1>16. Freed'
    <2>1. FreeingOK(p)'  BY <1>1, <1>2, <1>5, <1>6, <1>9 DEF FreeingOK
    <2>2. ASSUME NEW q \in Proc \ {p}  PROVE FreeingOK(q)'
      BY <1>1, <1>6, <1>9 DEF IInv, Freed, FreeingOK
    <2>3. ASSUME NEW q \in Proc  PROVE FreshOK(q)'
      <3>1. FreshOK(q) /\ Ip(q)' = Ip(q) /\ \A r \in Proc : \A j : Releases(r, j) => Releases(r, j)'
        BY <1>9, <1>14 DEF IInv, Freed
      <3>. QED  BY <1>1, <1>9, <3>1 DEF FreshOK
    <2>. QED  BY <2>1, <2>2, <2>3 DEF Freed
  <1>17. InodeKinds'  BY <1>6 DEF IInv, InodeKinds
  <1>18. Reclaimed'  BY <1>1, <1>6, <1>9 DEF IInv, Reclaimed
  <1>19. LinksCovered' /\ RootCovered' /\ EntryKinds'
    <2>1. SameTypes  BY <1>6 DEF SameTypes
    <2>3. \A j \in Inum : dinode[j].nlink \in Nat  BY <1>3 DEF Types, Inode
    <2>4. \A j \in Inum : ClaimOn(p, j)' <=> ClaimOn(p, j)  BY <1>9 DEF ClaimOn
    <2>5. \A j \in Inum : CountIf(ClaimOn(p, j)') - CountIf(ClaimOn(p, j)) = 0
      BY <2>4 DEF CountIf
    <2>6. DirClaim(p)' <=> DirClaim(p)  BY <1>6, <1>9 DEF DirClaim, Call
    <2>7. CountIf(DirClaim(p)') - CountIf(DirClaim(p)) = 0  BY <2>6 DEF CountIf
    <2>8. \A j \in Inum : dinode'[j].nlink >= dinode[j].nlink + (CountIf(ClaimOn(p, j)') - CountIf(ClaimOn(p, j)))
      BY <1>6, <2>3, <2>5
    <2>9. dinode'[Root].nlink >= dinode[Root].nlink + (CountIf(DirClaim(p)') - CountIf(DirClaim(p)))
      BY <1>0, <1>6, <2>3, <2>7
    <2>. QED  BY <1>6, <1>7, <1>9, <2>1, <2>8, <2>9, CoveredKept
  <1>20. BlocksOwned' /\ NewOwned'
    <2>1. \A j \in Inum : Gone(j) => Gone(j)'
      <3>1. \A q \in Proc : freeing[q] = "trunc" => freeing'[q] = "trunc" /\ Put(q)' = Put(q)
        BY <1>1, <1>6, <1>9
      <3>. QED  BY <1>1, <1>6, <3>1 DEF Gone
    <2>2. used \subseteq used' /\ full' \subseteq used'  BY <1>6 DEF IInv, BlocksOwned
    <2>3. \A j \in Inum : dinode'[j].addrs = dinode[j].addrs  BY <1>6
    <2>. QED  BY <1>9, <2>1, <2>2, <2>3, BlocksKept
  <1>21. NoPanic'  BY <1>4 DEF NoPanic
  <1>. QED
    BY <1>7, <1>11, <1>12, <1>13, <1>15, <1>16, <1>17, <1>18, <1>19, <1>20, <1>21 DEF IInv

LEMMA IputMore ==
  ASSUME IInv, NEW p \in Proc, Iput(p), ~Last(Put(p))
  PROVE  IInv'
  <1>. DEFINE i == Put(p)
  <1>0. Root \in Inum  BY InumAssumption DEF Root, Inum
  <1>1. /\ puts[p] # <<>> /\ freeing[p] = "idle" /\ PutDone(p)
        /\ IF ref[i] = 1 THEN Forget(i) ELSE UNCHANGED <<inode, valid>>
        /\ UNCHANGED <<busy, freeing, panicked>>
        /\ UNCHANGED <<diskvars, pc, frame, file, crashes>>
    BY DEF Iput
  <1>2. /\ Types /\ i \in Inum /\ Steady(i)
        /\ ref[i] = 1 => \A q \in Proc : ~Owns(q, i) /\ (HoldsIp(q) => Ip(q) # i)
    BY <1>1, PutterFacts
  <1>3. /\ ref[i] \in Nat \ {0} /\ ref'[i] = ref[i] - 1
        /\ \A j \in Inum \ {i} : ref'[j] = ref[j]
        /\ \A q \in Proc \ {p} : puts'[q] = puts[q]
        /\ puts' \in [Proc -> PutLists] /\ ref' \in [Inum -> Nat]
    BY <1>1, PutDoneFacts
  <1>4. /\ valid' \in [Inum -> BOOLEAN] /\ inode' \in [Inum -> Inode]
        /\ \A j \in Inum \ {i} : valid'[j] = valid[j] /\ inode'[j] = inode[j]
        /\ IF ref[i] = 1 THEN ~valid'[i] ELSE valid'[i] = valid[i] /\ inode'[i] = inode[i]
    <2>1. FreeInode \in Inode  BY DEF FreeInode, Inode
    <2>. QED  BY <1>1, <1>2, <2>1 DEF Forget, Types
  <1>5. /\ dinode' = dinode /\ dent' = dent /\ used' = used /\ full' = full
        /\ panicked' = panicked /\ crashes' = crashes /\ freeing' = freeing /\ busy' = busy
    BY <1>1 DEF diskvars
  <1>6. Types'  BY <1>1, <1>2, <1>3, <1>4, <1>5 DEF Types
  <1>7. CallsStay(p)  BY <1>1, <1>3, <1>5 DEF CallsStay
  <1>8. Counted'  BY <1>1, <1>6, <1>7, PutDoneCounted
  <1>9. /\ ActsAlone(p)
        /\ \A q \in Proc : /\ (HoldsIp(q)' <=> HoldsIp(q)) /\ (Writes(q)' <=> Writes(q))
                           /\ (Claim(q)' <=> Claim(q)) /\ Dp(q)' = Dp(q) /\ Ip(q)' = Ip(q)
        /\ \A q \in Proc \ {p} : Put(q)' = Put(q) /\ \A j \in Inum : Owns(q, j)' <=> Owns(q, j)
        /\ pc' = pc /\ file' = file /\ frame' = frame
    BY <1>7, CallsStayFacts DEF CallsStay
  <1>10. \A q \in Proc, j \in Inum : Owns(q, j)' <=> Owns(q, j)
    <2>1. \A j \in Inum : Owns(p, j)' <=> Owns(p, j)  BY <1>1, <1>5, <1>9 DEF Owns
    <2>. QED  BY <1>9, <2>1
  <1>11. Locked'  BY <1>5, <1>10 DEF IInv, Locked
  <1>12. Locals'
    <2>1. \A q \in Proc, j \in Inum : Owns(q, j)' => valid'[j]
      <3>1. \A q \in Proc, j \in Inum : Owns(q, j) => valid[j]
        BY DEF IInv, Locals, LocalOK, LoadedOK
      <3>. QED  BY <1>2, <1>4, <1>10, <3>1
    <2>2. \A q \in Proc : Linked(q) => valid'[Ip(q)]
      <3>1. TAKE q \in Proc
      <3>2. HAVE Linked(q)
      <3>3. LocalOK(q) /\ HoldsIp(q)  BY <3>2 DEF IInv, Locals, HoldsIp, Linked
      <3>4. Ip(q) \in Inum /\ valid[Ip(q)]  BY <3>2, <3>3 DEF LocalOK, InumOK, LoadedOK
      <3>. QED  BY <1>2, <1>4, <3>3, <3>4
    <2>3. \A q \in Proc : pc[q] = "init" => dinode'[Ip(q)].nlink = 0 /\ dinode'[Ip(q)].addrs = {}
      BY <1>5 DEF IInv, Locals, LocalOK, KindOK
    <2>. QED  BY <1>1, <1>5, <1>7, <2>1, <2>2, <2>3, LocalsFreed
  <1>13. \A q \in Proc : \A j : Releases(q, j)' <=> Releases(q, j)
    <2>1. \A q \in Proc : Releases(q, Put(q)) => q # p  BY <1>1 DEF Releases
    <2>. QED  BY <1>1, <1>5, <1>9 DEF Releases
  <1>14. Cached'
    <2>1. \A j \in Inum : valid'[j] => ref'[j] > 0
      BY <1>2, <1>3, <1>4 DEF IInv, Cached
    <2>2. \A j \in Inum : valid'[j] /\ inode'[j] # dinode'[j] => \E q \in Proc : Releases(q, j)'
      BY <1>4, <1>5, <1>13 DEF IInv, Cached
    <2>3. \A j \in Inum : dinode'[j].type = "free" => ref'[j] = 0 \/ \E q \in Proc : Releases(q, j)'
      BY <1>2, <1>3, <1>5, <1>13 DEF IInv, Cached, Steady
    <2>. QED  BY <2>1, <2>2, <2>3 DEF Cached
  <1>15. Freed'
    <2>1. ASSUME NEW q \in Proc  PROVE FreeingOK(q)'
      <3>1. SUFFICES ASSUME freeing[q] # "idle"  PROVE FreeingOK(q)'
        BY <1>5 DEF FreeingOK
      <3>2. q # p /\ Put(q)' = Put(q)  BY <1>1, <1>9, <3>1
      <3>3. Put(q) \in Inum \ {i}
        <4>1. Put(q) \in Inum  BY <3>1, FreerFacts
        <4>. QED  BY <1>2, <3>1, <4>1 DEF Steady
      <3>4. FreeingOK(q)  BY DEF IInv, Freed
      <3>. QED  BY <1>3, <1>5, <1>9, <3>1, <3>2, <3>3, <3>4 DEF FreeingOK
    <2>2. ASSUME NEW q \in Proc  PROVE FreshOK(q)'
      <3>1. SUFFICES ASSUME pc[q] = "init"  PROVE FreshOK(q)'
        BY <1>9 DEF FreshOK
      <3>2. Ip(q) \in Inum \ {i}
        <4>1. HoldsIp(q) /\ LocalOK(q)  BY <3>1 DEF IInv, Locals, HoldsIp
        <4>. QED  BY <1>2, <3>1, <4>1 DEF LocalOK, InumOK, Steady
      <3>3. FreshOK(q) /\ Ip(q)' = Ip(q) /\ \A r \in Proc : \A j : Releases(r, j) => Releases(r, j)'
        BY <1>9, <1>13 DEF IInv, Freed
      <3>. QED  BY <1>3, <1>9, <3>1, <3>2, <3>3 DEF FreshOK
    <2>. QED  BY <2>1, <2>2 DEF Freed
  <1>16. InodeKinds'  BY <1>5 DEF IInv, InodeKinds
  <1>17. Reclaimed'
    <2>1. SUFFICES ASSUME crashes = 0, NEW j \in Inum, dinode[j].type # "free", dinode[j].nlink = 0
                   PROVE  \/ \E q \in Proc : pc'[q] = "init" /\ Ip(q)' = j
                          \/ ref'[j] > 0 /\ valid'[j]
      BY <1>5 DEF Reclaimed
    <2>2. CASE j = i
      <3>1. \A q \in Proc : pc[q] = "init" => Ip(q) # i  BY <1>2 DEF Steady
      <3>2. ref[i] > 0 /\ valid[i]  BY <2>1, <2>2, <3>1 DEF IInv, Reclaimed
      <3>3. inode[i].nlink = 0  BY <1>2, <2>1, <2>2, <3>2 DEF Steady, Loaded
      <3>4. ref[i] # 1  BY <3>2, <3>3 DEF Last
      <3>. QED  BY <1>3, <1>4, <2>2, <3>2, <3>4
    <2>3. CASE j # i  BY <1>3, <1>4, <1>9, <2>1, <2>3 DEF IInv, Reclaimed
    <2>. QED  BY <2>2, <2>3
  <1>18. LinksCovered' /\ RootCovered' /\ EntryKinds'
    <2>1. SameTypes  BY <1>5 DEF SameTypes
    <2>3. \A j \in Inum : dinode[j].nlink \in Nat  BY <1>2 DEF Types, Inode
    <2>4. \A j \in Inum : ClaimOn(p, j)' <=> ClaimOn(p, j)  BY <1>9 DEF ClaimOn
    <2>5. \A j \in Inum : CountIf(ClaimOn(p, j)') - CountIf(ClaimOn(p, j)) = 0
      BY <2>4 DEF CountIf
    <2>6. DirClaim(p)' <=> DirClaim(p)  BY <1>5, <1>9 DEF DirClaim, Call
    <2>7. CountIf(DirClaim(p)') - CountIf(DirClaim(p)) = 0  BY <2>6 DEF CountIf
    <2>8. \A j \in Inum : dinode'[j].nlink >= dinode[j].nlink + (CountIf(ClaimOn(p, j)') - CountIf(ClaimOn(p, j)))
      BY <1>5, <2>3, <2>5
    <2>9. dinode'[Root].nlink >= dinode[Root].nlink + (CountIf(DirClaim(p)') - CountIf(DirClaim(p)))
      BY <1>0, <1>5, <2>3, <2>7
    <2>. QED  BY <1>5, <1>6, <1>9, <2>1, <2>8, <2>9, CoveredKept
  <1>19. BlocksOwned' /\ NewOwned'
    <2>1. \A j \in Inum : Gone(j) => Gone(j)'
      <3>1. \A q \in Proc : freeing[q] = "trunc" => freeing'[q] = "trunc" /\ Put(q)' = Put(q)
        BY <1>1, <1>5, <1>9
      <3>2. ASSUME NEW j \in Inum, Gone(j)  PROVE j # i  BY <1>2, <3>2 DEF Steady
      <3>. QED  BY <1>3, <1>5, <3>1, <3>2 DEF Gone
    <2>2. used \subseteq used' /\ full' \subseteq used'  BY <1>5 DEF IInv, BlocksOwned
    <2>3. \A j \in Inum : dinode'[j].addrs = dinode[j].addrs  BY <1>5
    <2>. QED  BY <1>9, <2>1, <2>2, <2>3, BlocksKept
  <1>20. NoPanic'  BY <1>5 DEF IInv, NoPanic
  <1>. QED
    BY <1>6, <1>8, <1>11, <1>12, <1>14, <1>15, <1>16, <1>17, <1>18, <1>19, <1>20 DEF IInv

LEMMA IputStep ==
  ASSUME IInv, NEW p \in Proc, Iput(p)
  PROVE  IInv'
  BY IputLast, IputMore

(* ialloc takes an inode that is free on the disk: nobody has it, or only the  *)
(* iput that is about to drop the flags and the last reference to it.          *)
LEMMA FreeInodeFacts ==
  ASSUME IInv, NEW i \in Inum, dinode[i].type = "free"
  PROVE  /\ i # Root /\ dinode[i].nlink = 0 /\ dinode[i].addrs = {} /\ ref[i] \in {0, 1}
         /\ ref[i] = 0 => ~valid[i]
         /\ ref[i] = 1 => \E q \in Proc : Releases(q, i)
         /\ \A q \in Proc : /\ HoldsIp(q) => Ip(q) # i
                            /\ file[q] # i
                            /\ (freeing[q] # "idle" /\ Put(q) = i => freeing[q] = "flags" /\ ref[i] = 1)
         /\ \A d \in Inum, n \in Name : dent[d][n] # i
  <1>1. i # Root /\ dinode[i].nlink = 0 /\ dinode[i].addrs = {}
    BY DEF IInv, InodeKinds
  <1>2. ASSUME NEW q \in Proc, HoldsIp(q), Ip(q) = i  PROVE FALSE
    <2>1. LocalOK(q)  BY DEF IInv, Locals
    <2>2. CASE pc[q] = "init"  BY <1>2, <2>1, <2>2 DEF LocalOK, KindOK
    <2>3. CASE pc[q] # "init"
      <3>1. Uses(q, i)  BY <1>2, <2>3 DEF Uses
      <3>. QED  BY <3>1, UsesSteady DEF Steady
    <2>. QED  BY <2>2, <2>3
  <1>3. \A q \in Proc : file[q] # i  BY NoInumAssumption DEF IInv, Locals, LocalOK, KindOK
  <1>4. ASSUME NEW q \in Proc, freeing[q] # "idle", Put(q) = i
        PROVE  freeing[q] = "flags" /\ ref[i] = 1
    <2>1. FreeingOK(q)  BY DEF IInv, Freed
    <2>2. freeing[q] = "flags"  BY <1>4, <2>1 DEF FreeingOK
    <2>3. \A r \in Proc : pc[r] = "init" => Ip(r) # i
      <3>1. \A r \in Proc : pc[r] = "init" => HoldsIp(r)  BY DEF HoldsIp
      <3>. QED  BY <1>2, <3>1
    <2>. QED  BY <1>4, <2>1, <2>2, <2>3 DEF FreeingOK
  <1>5. ref[i] = 0 \/ \E q \in Proc : Releases(q, i)  BY DEF IInv, Cached
  <1>6. ref[i] \in {0, 1} /\ (ref[i] = 1 => \E q \in Proc : Releases(q, i))
    BY <1>4, <1>5 DEF Releases
  <1>7. ref[i] = 0 => ~valid[i]  BY DEF IInv, Cached
  <1>8. \A d \in Inum, n \in Name : dent[d][n] # i
    <2>1. ASSUME NEW d \in Inum, NEW n \in Name, dent[d][n] = i  PROVE FALSE
      <3>1. dent[d][n] # NoInum  BY <2>1, NoInumAssumption
      <3>2. Steady(dent[d][n])  BY <3>1, EntryFacts
      <3>. QED  BY <2>1, <3>2 DEF Steady
    <2>. QED  BY <2>1
  <1>. QED  BY <1>1, <1>2, <1>3, <1>4, <1>6, <1>7, <1>8

LEMMA IallocStep ==
  ASSUME IInv, NEW p \in Proc, Ialloc(p)
  PROVE  IInv'
  <1>0. Root \in Inum  BY InumAssumption DEF Root, Inum
  <1>1. PICK i \in Inum :
          /\ dinode[i].type = "free"
          /\ dinode' = [dinode EXCEPT ![i] =
                          [FreeInode EXCEPT !.type = IF Call(p) = "open" THEN "file" ELSE "dir"]]
          /\ ref' = [ref EXCEPT ![i] = @ + 1] /\ Enters(p, "init", [frame[p] EXCEPT !.ip = i])
    BY DEF Ialloc, Iget
  <1>2. /\ pc[p] = "ialloc"
        /\ UNCHANGED <<dent, used, full, inode, busy, valid, puts, freeing, file, crashes, panicked>>
    BY DEF Ialloc
  <1>3. /\ i # Root /\ dinode[i].nlink = 0 /\ dinode[i].addrs = {} /\ ref[i] \in {0, 1}
        /\ ref[i] = 0 => ~valid[i]
        /\ ref[i] = 1 => \E q \in Proc : Releases(q, i)
        /\ \A q \in Proc : /\ HoldsIp(q) => Ip(q) # i
                           /\ file[q] # i
                           /\ (freeing[q] # "idle" /\ Put(q) = i => freeing[q] = "flags" /\ ref[i] = 1)
        /\ \A d \in Inum, n \in Name : dent[d][n] # i
    BY <1>1, FreeInodeFacts
  <1>4. /\ Types /\ LocalOK(p) /\ Creates(p) /\ puts[p] = <<>> /\ freeing[p] = "idle"
    BY <1>2 DEF IInv, Locals, LocalOK, CallOK, PutsOK
  <1>5. HoldsDp(p) /\ ~HoldsIp(p) /\ ~Writes(p) /\ ~Claim(p) /\ ~DirClaim(p) /\ ~Linked(p)
    BY <1>2 DEF HoldsDp, HoldsIp, Writes, Claim, DirClaim, Linked
  <1>. DEFINE t == IF Call(p) = "open" THEN "file" ELSE "dir"
              r == [FreeInode EXCEPT !.type = t]
              f == [frame[p] EXCEPT !.ip = i]
  <1>6. r \in Inode /\ r.type = t /\ r.type # "free" /\ r.nlink = 0 /\ r.addrs = {}
    BY DEF FreeInode, Inode
  <1>7. dinode' = [dinode EXCEPT ![i] = r]  BY <1>1
  <1>. HIDE DEF r
  <1>8. /\ dinode' \in [Inum -> Inode] /\ dinode'[i] = r /\ \A j \in Inum \ {i} : dinode'[j] = dinode[j]
        /\ ref' \in [Inum -> Nat] /\ ref'[i] = ref[i] + 1 /\ \A j \in Inum \ {i} : ref'[j] = ref[j]
        /\ \A j \in Inum : ref[j] \in Nat
    <2>1. dinode \in [Inum -> Inode] /\ ref \in [Inum -> Nat]  BY <1>4 DEF Types
    <2>2. dinode' \in [Inum -> Inode] /\ dinode'[i] = r /\ \A j \in Inum \ {i} : dinode'[j] = dinode[j]
      BY <1>6, <1>7, <2>1
    <2>3. ref' = [ref EXCEPT ![i] = ref[i] + 1] /\ ref[i] + 1 \in Nat  BY <1>1, <2>1
    <2>4. ref' \in [Inum -> Nat] /\ ref'[i] = ref[i] + 1 /\ \A j \in Inum \ {i} : ref'[j] = ref[j]
      BY <2>1, <2>3
    <2>. QED  BY <2>1, <2>2, <2>4
  <1>9. FrameIs(f, Call(p), Path(p), Dp(p), i, frame[p].new)
    <2>1. frame[p] \in Frames  BY <1>4 DEF Types
    <2>. QED  BY <2>1, FrameFacts DEF Call, Path, Dp
  <1>10. Moves(p, "init", f, puts[p], file[p])
    BY <1>1, <1>2, <1>4, SameProc DEF Enters, Moves
  <1>. HIDE DEF f
  <1>11. /\ ProcTypes' /\ ActsAlone(p)
         /\ pc'[p] = "init" /\ frame'[p] = f /\ puts'[p] = puts[p] /\ file'[p] = file[p]
    <2>1. "init" \in Pcs /\ f \in Frames  BY <1>9 DEF Pcs, FrameIs
    <2>. QED  BY <1>2, <1>4, <1>10, <2>1, SameProc, MovesFacts
  <1>12. /\ Call(p)' = Call(p) /\ Path(p)' = Path(p) /\ Dp(p)' = Dp(p) /\ Ip(p)' = i
    BY <1>9, <1>11 DEF FrameIs, Call, Path, Dp, Ip
  <1>13. /\ HoldsDp(p)' /\ HoldsIp(p)' /\ ~Writes(p)' /\ ~Claim(p)' /\ ~DirClaim(p)' /\ ~Linked(p)'
    BY <1>11 DEF HoldsDp, HoldsIp, Writes, Claim, DirClaim, Linked
  <1>14. Types'  BY <1>2, <1>4, <1>8, <1>11 DEF Types, ProcTypes
  <1>15. Counted'
    <2>1. ASSUME NEW j \in Inum
          PROVE  ref'[j] - ref[j] \in {-1, 0, 1} /\ Count(p, j)' = Count(p, j) + (ref'[j] - ref[j])
      <3>1. Count(p, j)' = Count(p, j) + CountIf(i = j)
        <4>1. /\ Count(p, j) = CountIf(j = Root) + CountIf(HoldsDp(p) /\ Dp(p) = j)
                    + CountIf(HoldsIp(p) /\ Ip(p) = j) + CountIf(file[p] = j) + Queued(puts[p], j)
              /\ Count(p, j)' = CountIf(j = Root) + CountIf(HoldsDp(p)' /\ Dp(p)' = j)
                    + CountIf(HoldsIp(p)' /\ Ip(p)' = j) + CountIf(file'[p] = j) + Queued(puts'[p], j)
              /\ Queued(puts[p], j) \in 0 .. 2
          BY <1>4, <1>11, CountAfter
        <4>2. /\ CountIf(HoldsIp(p) /\ Ip(p) = j) = 0
              /\ CountIf(HoldsIp(p)' /\ Ip(p)' = j) = CountIf(i = j)
              /\ CountIf(HoldsDp(p)' /\ Dp(p)' = j) = CountIf(HoldsDp(p) /\ Dp(p) = j)
              /\ file'[p] = file[p] /\ puts'[p] = puts[p]
          BY <1>5, <1>11, <1>12, <1>13 DEF CountIf
        <4>3. \A b : CountIf(b) \in {0, 1}  BY DEF CountIf
        <4>. QED  BY <4>1, <4>2, <4>3
      <3>2. Count(p, j) \in 0 .. 6  BY <1>4, CountType
      <3>. QED  BY <1>8, <3>1, <3>2 DEF CountIf
    <2>2. Counted  BY DEF IInv
    <2>. QED  BY <1>4, <1>11, <1>14, <2>1, <2>2, CountedStep
  <1>16. /\ \A q \in Proc \ {p} : /\ pc'[q] = pc[q] /\ file'[q] = file[q] /\ puts'[q] = puts[q]
                                  /\ frame'[q] = frame[q]
                                  /\ (HoldsDp(q)' <=> HoldsDp(q)) /\ (HoldsIp(q)' <=> HoldsIp(q))
                                  /\ (Linked(q)' <=> Linked(q)) /\ (Writes(q)' <=> Writes(q))
                                  /\ (Claim(q)' <=> Claim(q))
                                  /\ Call(q)' = Call(q) /\ Path(q)' = Path(q) /\ Dp(q)' = Dp(q)
                                  /\ Ip(q)' = Ip(q)
         /\ \A q \in Proc : Put(q)' = Put(q)
    BY <1>2, <1>11, OthersStay DEF ActsAlone, Put
  <1>17. \A q \in Proc, j \in Inum : Owns(q, j)' <=> Owns(q, j)
    <2>1. \A j \in Inum : Owns(p, j)' <=> Owns(p, j)
      BY <1>2, <1>4, <1>5, <1>11, <1>12, <1>13 DEF Owns
    <2>. QED  BY <1>11, <2>1, OthersStay
  <1>18. Locked'  BY <1>2, <1>17 DEF IInv, Locked
  <1>19. LocalOK(p)'
    <2>1. PathOK(p)'
      BY <1>2, <1>4, <1>5, <1>11, <1>12, <1>13 DEF LocalOK, PathOK
    <2>2. CallOK(p)' /\ PutsOK(p)'
      <3>1. Creates(p)'  BY <1>4, <1>12 DEF Creates
      <3>2. file'[p] = file[p] /\ (Call(p) = "open" => file[p] = NoInum)
        BY <1>2, <1>4, <1>11 DEF LocalOK, CallOK
      <3>. QED  BY <1>2, <1>4, <1>11, <1>12, <3>1, <3>2 DEF CallOK, PutsOK, Creates
    <2>3. InumOK(p)'
      BY <1>3, <1>4, <1>5, <1>11, <1>12, <1>13 DEF LocalOK, InumOK
    <2>4. LoadedOK(p)'
      <3>1. \A j \in Inum : Owns(p, j)' => valid'[j]  BY <1>2, <1>4, <1>17 DEF LocalOK, LoadedOK
      <3>. QED  BY <1>11, <1>13, <3>1 DEF LoadedOK
    <2>5. KindOK(p)'
      <3>1. file[p] # NoInum => dinode'[file[p]].type = "file"
        <4>1. file[p] \in Inum \cup {NoInum} /\ file[p] # i  BY <1>3, <1>4 DEF Types
        <4>2. file[p] # NoInum => dinode[file[p]].type = "file"  BY <1>4 DEF LocalOK, KindOK
        <4>. QED  BY <1>8, <4>1, <4>2
      <3>2. dinode'[Ip(p)'].type = (IF Call(p)' = "open" THEN "file" ELSE "dir")
            /\ dinode'[Ip(p)'].nlink = 0 /\ dinode'[Ip(p)'].addrs = {}
        BY <1>6, <1>8, <1>12
      <3>. QED  BY <1>11, <1>13, <3>1, <3>2 DEF KindOK
    <2>6. SlotOK(p)'
      BY <1>2, <1>4, <1>11, <1>12 DEF LocalOK, SlotOK, Entry
    <2>. QED  BY <2>1, <2>2, <2>3, <2>4, <2>5, <2>6 DEF LocalOK
  <1>20. Locals'
    <2>1. SUFFICES ASSUME NEW q \in Proc \ {p}  PROVE LocalOK(q)'
      BY <1>19 DEF Locals
    <2>2. LocalOK(q)  BY DEF IInv, Locals
    <2>3. (PathOK(q) /\ CallOK(q) /\ InumOK(q))'
      BY <1>16, <2>2 DEF LocalOK, PathOK, CallOK, InumOK, Creates, Unlinks
    <2>4. PutsOK(q)'  BY <1>2, <1>16, <2>2 DEF LocalOK, PutsOK
    <2>5. LoadedOK(q)'  BY <1>2, <1>16, <1>17, <2>2 DEF LocalOK, LoadedOK
    <2>6. KindOK(q)'
      <3>1. HoldsIp(q) => dinode'[Ip(q)] = dinode[Ip(q)]
        BY <1>3, <1>8, <2>2 DEF LocalOK, InumOK
      <3>2. file[q] # NoInum => dinode'[file[q]] = dinode[file[q]]
        BY <1>3, <1>4, <1>8 DEF Types
      <3>3. /\ pc[q] \in {"init", "dotdot", "dirlink", "made", "erased"} => HoldsIp(q)
            /\ Linked(q) => HoldsIp(q)
        BY DEF HoldsIp
      <3>4. Writes(q) => file[q] # NoInum  BY <2>2, NoInumAssumption DEF LocalOK, InumOK
      <3>. QED  BY <1>16, <2>2, <3>1, <3>2, <3>3, <3>4 DEF LocalOK, KindOK
    <2>7. SlotOK(q)'  BY <1>2, <1>16, <2>2 DEF LocalOK, SlotOK, Entry
    <2>. QED  BY <2>3, <2>4, <2>5, <2>6, <2>7 DEF LocalOK
  <1>21. \A q \in Proc : \A j : Releases(q, j)' <=> Releases(q, j)
    BY <1>2, <1>16 DEF Releases
  <1>22. Cached'
    <2>1. \A j \in Inum : valid'[j] => ref'[j] > 0  BY <1>2, <1>3, <1>8 DEF IInv, Cached
    <2>2. ASSUME NEW j \in Inum, valid'[j], inode'[j] # dinode'[j]  PROVE \E q \in Proc : Releases(q, j)'
      <3>1. CASE j = i  BY <1>2, <1>3, <1>21, <2>2, <3>1
      <3>2. CASE j # i  BY <1>2, <1>8, <1>21, <2>2, <3>2 DEF IInv, Cached
      <3>. QED  BY <3>1, <3>2
    <2>3. ASSUME NEW j \in Inum, dinode'[j].type = "free"
          PROVE  ref'[j] = 0 \/ \E q \in Proc : Releases(q, j)'
      <3>1. j # i  BY <1>6, <1>8, <2>3
      <3>. QED  BY <1>8, <1>21, <2>3, <3>1 DEF IInv, Cached
    <2>. QED  BY <2>1, <2>2, <2>3 DEF Cached
  <1>23. Freed'
    <2>1. ASSUME NEW q \in Proc  PROVE FreeingOK(q)'
      <3>1. SUFFICES ASSUME freeing[q] # "idle"  PROVE FreeingOK(q)'
        BY <1>2 DEF FreeingOK
      <3>2. /\ q # p /\ Put(q)' = Put(q) /\ freeing' = freeing /\ full' = full /\ FreeingOK(q)
        BY <1>2, <1>4, <1>16, <3>1 DEF IInv, Freed
      <3>3. Put(q) \in Inum  BY <3>1, FreerFacts
      <3>4. CASE Put(q) = i
        <4>1. freeing[q] = "flags" /\ ref[i] = 1  BY <1>3, <3>1, <3>4
        <4>2. ref'[i] = 2 /\ dinode'[i].nlink = 0 /\ dinode'[i].addrs = {}  BY <1>6, <1>8, <4>1
        <4>. QED  BY <1>11, <1>12, <3>2, <3>4, <4>1, <4>2 DEF FreeingOK
      <3>5. CASE Put(q) # i
        <4>1. dinode'[Put(q)] = dinode[Put(q)] /\ ref'[Put(q)] = ref[Put(q)]  BY <1>8, <3>3, <3>5
        <4>2. \A s \in Proc : pc[s] = "init" => pc'[s] = "init" /\ Ip(s)' = Ip(s)  BY <1>2, <1>16
        <4>. QED  BY <3>2, <4>1, <4>2 DEF FreeingOK
      <3>. QED  BY <3>4, <3>5
    <2>2. FreshOK(p)'
      <3>1. CASE ref[i] = 0  BY <1>8, <1>12, <3>1 DEF FreshOK
      <3>2. CASE ref[i] = 1
        <4>1. PICK q \in Proc : Releases(q, i)  BY <1>3, <3>2
        <4>2. Releases(q, Ip(p))'  BY <1>2, <1>12, <1>16, <4>1 DEF Releases
        <4>3. ref'[Ip(p)'] = 2  BY <1>8, <1>12, <3>2
        <4>. QED  BY <4>2, <4>3 DEF FreshOK
      <3>. QED  BY <1>3, <3>1, <3>2
    <2>3. ASSUME NEW q \in Proc \ {p}  PROVE FreshOK(q)'
      <3>1. SUFFICES ASSUME pc[q] = "init"  PROVE FreshOK(q)'
        BY <1>16 DEF FreshOK
      <3>2. Ip(q) \in Inum \ {i}
        <4>1. HoldsIp(q) /\ LocalOK(q)  BY <3>1 DEF IInv, Locals, HoldsIp
        <4>. QED  BY <1>3, <4>1 DEF LocalOK, InumOK
      <3>3. FreshOK(q) /\ Ip(q)' = Ip(q) /\ \A s \in Proc : Releases(s, Ip(q)) => Releases(s, Ip(q))'
        BY <1>2, <1>16 DEF IInv, Freed, Releases
      <3>. QED  BY <1>8, <1>16, <3>1, <3>2, <3>3 DEF FreshOK
    <2>. QED  BY <2>1, <2>2, <2>3 DEF Freed
  <1>24. InodeKinds'
    <2>1. \A j \in Inum : dinode'[j].type # "file" => dinode'[j].addrs = {}
      BY <1>6, <1>8 DEF IInv, InodeKinds
    <2>2. \A j \in Inum : dinode'[j].type = "free" => dinode'[j].nlink = 0
      BY <1>6, <1>8 DEF IInv, InodeKinds
    <2>3. dinode'[Root].type = "dir"  BY <1>0, <1>3, <1>8 DEF IInv, InodeKinds
    <2>. QED  BY <2>1, <2>2, <2>3 DEF InodeKinds
  <1>25. EntryKinds'
    <2>1. \A d, j \in Inum, n \in Name : dent[d][n] = j => dinode'[j] = dinode[j]
      BY <1>3, <1>8
    <2>. QED  BY <1>2, <2>1 DEF IInv, EntryKinds
  <1>26. \A j \in Inum : dinode'[j].nlink = dinode[j].nlink /\ dinode'[j].addrs = dinode[j].addrs
    BY <1>3, <1>6, <1>8
  <1>27. LinksCovered'
    <2>1. ASSUME NEW j \in Inum  PROVE AllLinks(j)' = AllLinks(j) /\ Claims(j)' = Claims(j)
      <3>1. AllLinks(j)' = AllLinks(j)  BY <1>2 DEF AllLinks
      <3>2. \A q \in Proc : ClaimOn(q, j)' <=> ClaimOn(q, j)  BY <1>5, <1>13, <1>16 DEF ClaimOn
      <3>. QED  BY <3>1, <3>2 DEF Claims
    <2>. QED  BY <1>26, <2>1 DEF IInv, LinksCovered
  <1>28. RootCovered'
    <2>1. \A n \in Name : IsDir(dent[Root][n])' <=> IsDir(dent[Root][n])
      <3>1. \A n \in Name : dent[Root][n] \in (Inum \ {i}) \cup {NoInum}  BY <1>0, <1>3, <1>4 DEF Types
      <3>. QED  BY <1>2, <1>8, <3>1 DEF IsDir
    <2>2. Subdirs' = Subdirs  BY <2>1 DEF Subdirs
    <2>3. ASSUME NEW q \in Proc  PROVE DirClaim(q)' <=> DirClaim(q)
      <3>1. CASE q = p  BY <1>5, <1>13, <3>1
      <3>2. CASE q # p
        <4>1. pc[q] = "erased" => Ip(q) \in Inum \ {i}
          BY <1>3 DEF IInv, Locals, LocalOK, InumOK, HoldsIp
        <4>. QED  BY <1>8, <1>16, <3>2, <4>1 DEF DirClaim
      <3>. QED  BY <3>1, <3>2
    <2>4. DirClaims' = DirClaims  BY <2>3 DEF DirClaims
    <2>. QED  BY <1>0, <1>26, <2>2, <2>4 DEF IInv, RootCovered
  <1>29. BlocksOwned' /\ NewOwned'
    <2>1. ASSUME NEW j \in Inum, j # i  PROVE Gone(j)' <=> Gone(j)
      BY <1>2, <1>8, <1>16, <2>1 DEF Gone
    <2>2. dinode'[i].addrs = {}  BY <1>6, <1>8
    <2>3. BlocksOwned'  BY <1>2, <1>26, <2>1, <2>2 DEF IInv, BlocksOwned
    <2>4. ASSUME NEW q \in Proc, Writes(q)'
          PROVE  Writes(q) /\ q # p /\ frame'[q] = frame[q]
      BY <1>13, <1>16, <2>4
    <2>5. NewOwned'  BY <1>2, <1>26, <2>1, <2>2, <2>4 DEF IInv, NewOwned
    <2>. QED  BY <2>3, <2>5
  <1>30. Reclaimed'
    <2>1. SUFFICES ASSUME crashes = 0, NEW j \in Inum, dinode'[j].type # "free", dinode'[j].nlink = 0
                   PROVE  \/ \E q \in Proc : pc'[q] = "init" /\ Ip(q)' = j
                          \/ ref'[j] > 0 /\ valid'[j]
      BY <1>2 DEF Reclaimed
    <2>2. CASE j = i  BY <1>11, <1>12, <2>2
    <2>3. CASE j # i
      <3>1. (\E q \in Proc : pc[q] = "init" /\ Ip(q) = j) \/ (ref[j] > 0 /\ valid[j])
        BY <1>8, <2>1, <2>3 DEF IInv, Reclaimed
      <3>2. \A q \in Proc : pc[q] = "init" => pc'[q] = "init" /\ Ip(q)' = Ip(q)  BY <1>2, <1>16
      <3>. QED  BY <1>2, <1>8, <2>3, <3>1, <3>2
    <2>. QED  BY <2>2, <2>3
  <1>31. NoPanic'  BY <1>2 DEF IInv, NoPanic
  <1>. QED
    BY <1>14, <1>15, <1>18, <1>20, <1>22, <1>23, <1>24, <1>25, <1>27, <1>28, <1>29, <1>30, <1>31 DEF IInv

-----------------------------------------------------------------------------
(* A start of the system                                                       *)

Booted ==
  /\ inode = [i \in Inum |-> FreeInode] /\ ref = RefAtBoot
  /\ busy = [i \in Inum |-> FALSE] /\ valid = [i \in Inum |-> FALSE]
  /\ pc = [p \in Proc |-> "idle"] /\ frame = [p \in Proc |-> NoFrame]
  /\ puts = [p \in Proc |-> <<>>] /\ freeing = [p \in Proc |-> "idle"]
  /\ file = [p \in Proc |-> NoInum]
MemoryTypes ==
  /\ inode \in [Inum -> Inode]
  /\ ref \in [Inum -> Nat] /\ busy \in [Inum -> BOOLEAN] /\ valid \in [Inum -> BOOLEAN]
  /\ pc \in [Proc -> Pcs] /\ frame \in [Proc -> Frames] /\ puts \in [Proc -> PutLists]
  /\ freeing \in [Proc -> Freeings] /\ file \in [Proc -> Inum \cup {NoInum}]

(* Every process has the root for its working directory, and nothing else.     *)
LEMMA BootFacts ==
  ASSUME Booted, dinode[Root].type = "dir"
  PROVE  /\ MemoryTypes /\ Locals /\ Counted /\ Locked /\ Cached /\ Freed /\ NewOwned
         /\ \A i \in Inum : Claims(i) = {} /\ (dinode[i].nlink # 0 => ~Gone(i))
         /\ \A i \in Inum : Gone(i) \/ dinode[i].nlink # 0 \/ i = Root
         /\ DirClaims = {}
  <1>1. /\ \A p \in Proc : /\ pc[p] = "idle" /\ frame[p] = NoFrame /\ puts[p] = <<>>
                           /\ freeing[p] = "idle" /\ file[p] = NoInum
        /\ \A i \in Inum : /\ ~busy[i] /\ ~valid[i]
                           /\ ref[i] = IF i = Root THEN Cardinality(Proc) ELSE 0
    BY DEF Booted, RefAtBoot
  <1>2. Cardinality(Proc) \in Nat  BY ProcAssumption, FS_CardinalityType
  <1>3. MemoryTypes
    <2>1. FreeInode \in Inode  BY DEF FreeInode, Inode
    <2>2. NoFrame \in Frames  BY FrameFacts DEF FrameIs
    <2>3. <<>> \in PutLists  BY PutFacts
    <2>4. ref \in [Inum -> Nat]  BY <1>2 DEF Booted, RefAtBoot
    <2>. QED  BY <2>1, <2>2, <2>3, <2>4 DEF Booted, MemoryTypes, Pcs, Freeings
  <1>4. \A p \in Proc : /\ ~HoldsDp(p) /\ ~HoldsIp(p) /\ ~Linked(p) /\ ~Writes(p) /\ ~Claim(p)
                        /\ ~DirClaim(p) /\ \A i \in Inum : ~Owns(p, i)
    BY <1>1 DEF HoldsDp, HoldsIp, Linked, Writes, Claim, DirClaim, Owns
  <1>5. Locals
    <2>1. SUFFICES ASSUME NEW p \in Proc  PROVE LocalOK(p)
      BY DEF Locals
    <2>. QED
      BY <1>1, <1>4 DEF LocalOK, PathOK, CallOK, PutsOK, InumOK, LoadedOK, KindOK, SlotOK
  <1>6. Counted
    <2>1. SUFFICES ASSUME NEW i \in Inum  PROVE ref[i] = Cardinality(Numbered(Counts(i)))
      BY DEF Counted
    <2>2. \A p \in Proc : Count(p, i) = CountIf(i = Root)
      <3>1. Queued(<<>>, i) = 0  BY PutFacts
      <3>. QED  BY <1>1, <1>4, <3>1, NoInumAssumption DEF Count, CountIf
    <2>3. CASE i = Root
      <3>1. \A p \in Proc : Counts(i)[p] = 1  BY <2>2, <2>3 DEF Counts, CountIf
      <3>2. Numbered(Counts(i)) = Proc \X {1}
        <4>1. \A h \in Proc \X (1 .. 6) : h[2] <= Counts(i)[h[1]] <=> h[2] = 1
          BY <3>1
        <4>2. \A h : h \in Numbered(Counts(i)) <=> h \in Proc \X (1 .. 6) /\ h[2] = 1
          BY <4>1 DEF Numbered
        <4>3. \A h : h \in Proc \X {1} <=> h \in Proc \X (1 .. 6) /\ h[2] = 1
          OBVIOUS
        <4>. QED  BY <4>2, <4>3
      <3>3. Cardinality(Proc \X {1}) = Cardinality(Proc) * Cardinality({1}) /\ Cardinality({1}) = 1
        BY ProcAssumption, FS_Singleton, FS_Product
      <3>. QED  BY <1>1, <1>2, <2>3, <3>2, <3>3
    <2>4. CASE i # Root
      <3>1. \A p \in Proc : Counts(i)[p] = 0  BY <2>2, <2>4 DEF Counts, CountIf
      <3>2. Numbered(Counts(i)) = {}  BY <3>1 DEF Numbered
      <3>. QED  BY <1>1, <2>4, <3>2, FS_EmptySet
    <2>. QED  BY <2>3, <2>4
  <1>7. Locked  BY <1>1, <1>4 DEF Locked
  <1>8. Cached  BY <1>1 DEF Cached
  <1>9. Freed  BY <1>1 DEF Freed, FreeingOK, FreshOK
  <1>10. NewOwned  BY <1>4 DEF NewOwned
  <1>11. DirClaims = {} /\ \A i \in Inum : Claims(i) = {}
    BY <1>4 DEF DirClaims, Claims, ClaimOn
  <1>12. \A i \in Inum : Gone(i) \/ dinode[i].nlink # 0 \/ i = Root  BY <1>1 DEF Gone
  <1>13. \A i \in Inum : dinode[i].nlink # 0 => ~Gone(i)  BY DEF Gone
  <1>. QED
    BY <1>3, <1>5, <1>6, <1>7, <1>8, <1>9, <1>10, <1>11, <1>12, <1>13

LEMMA BootNext ==
  (Booted /\ dinode[Root].type = "dir" =>
     /\ MemoryTypes /\ Locals /\ Counted /\ Locked /\ Cached /\ Freed /\ NewOwned
     /\ \A i \in Inum : Claims(i) = {} /\ (dinode[i].nlink # 0 => ~Gone(i))
     /\ \A i \in Inum : Gone(i) \/ dinode[i].nlink # 0 \/ i = Root
     /\ DirClaims = {})'
  <1>1. Booted /\ dinode[Root].type = "dir" =>
     /\ MemoryTypes /\ Locals /\ Counted /\ Locked /\ Cached /\ Freed /\ NewOwned
     /\ \A i \in Inum : Claims(i) = {} /\ (dinode[i].nlink # 0 => ~Gone(i))
     /\ \A i \in Inum : Gone(i) \/ dinode[i].nlink # 0 \/ i = Root
     /\ DirClaims = {}
    BY BootFacts
  <1>. QED  BY <1>1, PTL

LEMMA InitInv ==
  ASSUME Init
  PROVE  IInv
  <1>0. Root \in Inum  BY InumAssumption DEF Root, Inum
  <1>1. /\ dinode = [i \in Inum |-> IF i = Root THEN RootInode ELSE FreeInode]
        /\ dent = [i \in Inum |-> Empty] /\ used = {} /\ full = {} /\ crashes = 0 /\ panicked = FALSE
    BY DEF Init
  <1>2. Booted  BY DEF Init, Booted, Memory
  <1>3. /\ RootInode.type = "dir" /\ RootInode.nlink = 1 /\ RootInode.addrs = {} /\ RootInode \in Inode
        /\ FreeInode.type = "free" /\ FreeInode.nlink = 0 /\ FreeInode.addrs = {} /\ FreeInode \in Inode
    BY DEF RootInode, FreeInode, Inode
  <1>4. /\ dinode[Root] = RootInode /\ \A i \in Inum \ {Root} : dinode[i] = FreeInode
        /\ \A i \in Inum, n \in Name : dent[i][n] = NoInum
        /\ \A i \in Inum : dinode[i].addrs = {}
    BY <1>0, <1>1, <1>3 DEF Empty
  <1>5. /\ MemoryTypes /\ Locals /\ Counted /\ Locked /\ Cached /\ Freed /\ NewOwned
        /\ \A i \in Inum : Claims(i) = {}
        /\ DirClaims = {}
    BY <1>2, <1>3, <1>4, BootFacts
  <1>6. Types
    <2>1. dinode \in [Inum -> Inode] /\ dent \in [Inum -> [Name -> Inum \cup {NoInum}]]
      BY <1>1, <1>3 DEF Empty
    <2>2. crashes \in 0 .. MaxCrashes  BY <1>1, InumAssumption
    <2>. QED  BY <1>1, <1>5, <2>1, <2>2 DEF Types, MemoryTypes
  <1>7. InodeKinds  BY <1>0, <1>3, <1>4 DEF InodeKinds
  <1>8. EntryKinds  BY <1>0, <1>4, NoInumAssumption DEF EntryKinds
  <1>9. LinksCovered
    <2>1. ASSUME NEW i \in Inum  PROVE dinode[i].nlink >= Cardinality(AllLinks(i)) + Cardinality(Claims(i))
      <3>1. AllLinks(i) = {} /\ Claims(i) = {}  BY <1>4, <1>5, NoInumAssumption DEF AllLinks
      <3>2. Cardinality(AllLinks(i)) = 0 /\ Cardinality(Claims(i)) = 0  BY <3>1, FS_EmptySet
      <3>3. dinode[i].nlink \in Nat  BY <1>6 DEF Types, Inode
      <3>. QED  BY <3>2, <3>3
    <2>. QED  BY <2>1 DEF LinksCovered
  <1>10. RootCovered
    <2>1. Subdirs = {}  BY <1>0, <1>4 DEF Subdirs, IsDir
    <2>2. Cardinality(Subdirs) = 0 /\ Cardinality(DirClaims) = 0  BY <1>5, <2>1, FS_EmptySet
    <2>. QED  BY <1>3, <1>4, <2>2 DEF RootCovered
  <1>11. BlocksOwned  BY <1>1, <1>4 DEF BlocksOwned
  <1>12. Reclaimed  BY <1>3, <1>4 DEF Reclaimed
  <1>. QED
    BY <1>1, <1>5, <1>6, <1>7, <1>8, <1>9, <1>10, <1>11, <1>12 DEF IInv, NoPanic

(* A crash leaves the disk, so what the next boot reads is as sound as it was; *)
(* the inodes without links that were in use are never freed.                  *)
LEMMA CrashStep ==
  ASSUME IInv, Crash
  PROVE  IInv'
  <1>0. Root \in Inum  BY InumAssumption DEF Root, Inum
  <1>1. /\ dinode' = dinode /\ dent' = dent /\ used' = used /\ full' = full /\ panicked' = panicked
        /\ crashes' = crashes + 1 /\ crashes < MaxCrashes
    BY DEF Crash, diskvars
  <1>2. Booted'  BY DEF Crash, Booted, Memory
  <1>3. Types /\ dinode[Root].type = "dir"  BY DEF IInv, InodeKinds
  <1>4. /\ MemoryTypes' /\ Locals' /\ Counted' /\ Locked' /\ Cached' /\ Freed' /\ NewOwned'
        /\ \A i \in Inum : Claims(i)' = {} /\ (dinode[i].nlink # 0 => ~Gone(i)')
        /\ \A i \in Inum : Gone(i)' \/ dinode[i].nlink # 0 \/ i = Root
        /\ DirClaims' = {}
    BY <1>1, <1>2, <1>3, BootNext
  <1>5. crashes' \in 0 .. MaxCrashes /\ crashes' # 0  BY <1>1, <1>3, InumAssumption DEF Types
  <1>6. Types'  BY <1>1, <1>3, <1>4, <1>5 DEF Types, MemoryTypes
  <1>7. InodeKinds' /\ EntryKinds'  BY <1>1 DEF IInv, InodeKinds, EntryKinds
  <1>8. \A i \in Inum : Cardinality(Claims(i)') = 0  BY <1>4, FS_EmptySet
  <1>9. LinksCovered'
    <2>1. ASSUME NEW i \in Inum
          PROVE  dinode'[i].nlink >= Cardinality(AllLinks(i)') + Cardinality(Claims(i)')
      <3>1. AllLinks(i)' = AllLinks(i)  BY <1>1 DEF AllLinks
      <3>2. Cardinality(AllLinks(i)) \in Nat /\ Cardinality(Claims(i)) \in Nat  BY <1>3, LinkCards
      <3>3. dinode[i].nlink \in Nat  BY <1>3 DEF Types, Inode
      <3>4. dinode[i].nlink >= Cardinality(AllLinks(i)) + Cardinality(Claims(i))
        BY DEF IInv, LinksCovered
      <3>. QED  BY <1>1, <1>8, <3>1, <3>2, <3>3, <3>4
    <2>. QED  BY <2>1 DEF LinksCovered
  <1>10. dinode[Root].nlink \in Nat /\ dinode[Root].nlink >= 1 /\ RootCovered'
    <2>1. Subdirs' = Subdirs  BY <1>1 DEF Subdirs, IsDir
    <2>2. Cardinality(DirClaims') = 0  BY <1>4, FS_EmptySet
    <2>3. Cardinality(Subdirs) \in Nat /\ Cardinality(DirClaims) \in Nat
      BY LinksFinite, FS_CardinalityType DEF FiniteDirs
    <2>4. dinode[Root].nlink >= 1 + Cardinality(Subdirs) + Cardinality(DirClaims)
      BY DEF IInv, RootCovered
    <2>5. dinode[Root].nlink \in Nat  BY <1>0, <1>3 DEF Types, Inode
    <2>. QED  BY <1>1, <2>1, <2>2, <2>3, <2>4, <2>5 DEF RootCovered
  <1>11. BlocksOwned'
    <2>1. \A i \in Inum : ~Gone(i)' => ~Gone(i)
      <3>1. \A i \in Inum : ~Gone(i)' => dinode[i].nlink # 0  BY <1>4, <1>10
      <3>. QED  BY <3>1 DEF Gone
    <2>. QED  BY <1>1, <2>1 DEF IInv, BlocksOwned
  <1>12. Reclaimed'  BY <1>5 DEF Reclaimed
  <1>13. NoPanic'  BY <1>1 DEF IInv, NoPanic
  <1>. QED  BY <1>4, <1>6, <1>7, <1>9, <1>10, <1>11, <1>12, <1>13 DEF IInv

-----------------------------------------------------------------------------
(* The theorems                                                                *)

LEMMA StepInv ==
  ASSUME IInv, NEW p \in Proc, Step(p)
  PROVE  IInv'
  <1>1. CASE Iput(p) \/ BfreeZero(p) \/ BfreeBit(p) \/ Itrunc(p) \/ FreeType(p) \/ FreeFlags(p)
    BY <1>1, IputStep, BfreeZeroStep, BfreeBitStep, ItruncStep, FreeTypeStep, FreeFlagsStep
  <1>2. CASE (\E c \in Calls : Begin(p, c)) \/ Walk(p) \/ WalkDir(p)
    BY <1>2, BeginStep, WalkStep, WalkDirStep
  <1>3. CASE CreateFound(p) \/ Existing(p) \/ CreateAbsent(p) \/ Ialloc(p)
    BY <1>3, CreateFoundStep, ExistingStep, CreateAbsentStep, IallocStep
  <1>4. CASE InitInode(p) \/ Dotdot(p) \/ Dirlink(p) \/ Made(p)
    BY <1>4, InitInodeStep, DotdotStep, DirlinkStep, MadeStep
  <1>5. CASE UnlinkAbsent(p) \/ UnlinkFound(p) \/ Victim(p) \/ Erased(p) \/ Unlinked(p)
    BY <1>5, UnlinkAbsentStep, UnlinkFoundStep, VictimStep, ErasedStep, UnlinkedStep
  <1>6. CASE LinkOld(p) \/ LinkCount(p) \/ LinkEntry(p) \/ LinkBad(p)
    BY <1>6, LinkOldStep, LinkCountStep, LinkEntryStep, LinkBadStep
  <1>7. CASE Balloc(p) \/ WriteData(p) \/ WriteSize(p) \/ Close(p)
    BY <1>7, BallocStep, WriteDataStep, WriteSizeStep, CloseStep
  <1>. QED  BY <1>1, <1>2, <1>3, <1>4, <1>5, <1>6, <1>7 DEF Step

LEMMA StutterInv ==
  ASSUME IInv, UNCHANGED vars
  PROVE  IInv'
  <1>1. /\ dinode' = dinode /\ dent' = dent /\ used' = used /\ full' = full
        /\ inode' = inode /\ ref' = ref /\ busy' = busy /\ valid' = valid
        /\ pc' = pc /\ frame' = frame /\ puts' = puts /\ freeing' = freeing /\ file' = file
        /\ crashes' = crashes /\ panicked' = panicked
    BY DEF vars, diskvars, cachevars, procvars
  <1>2. Types'  BY <1>1 DEF IInv, Types
  <1>3. \A q \in Proc : LocalOK(q)' <=> LocalOK(q)
    BY <1>1 DEF LocalOK, PathOK, CallOK, PutsOK, InumOK, LoadedOK, KindOK, SlotOK, HoldsDp, HoldsIp,
                Linked, Writes, Creates, Unlinks, Owns, Entry, Call, Path, Dp, Ip, Put
  <1>4. \A i \in Inum : Counts(i)' = Counts(i)
    BY <1>1 DEF Counts, Count, HoldsDp, HoldsIp, Linked, Call, Dp, Ip
  <1>5. \A q \in Proc, i \in Inum : /\ (Owns(q, i)' <=> Owns(q, i)) /\ (ClaimOn(q, i)' <=> ClaimOn(q, i))
                                    /\ (Releases(q, i)' <=> Releases(q, i))
    BY <1>1 DEF Owns, Writes, ClaimOn, Claim, Linked, Releases, Call, Dp, Ip, Put
  <1>6. Locals' /\ Counted' /\ Locked' /\ Cached'
    BY <1>1, <1>3, <1>4, <1>5 DEF IInv, Locals, Counted, Numbered, Locked, Cached
  <1>7. \A q \in Proc : (FreeingOK(q)' <=> FreeingOK(q)) /\ (FreshOK(q)' <=> FreshOK(q))
    BY <1>1 DEF FreeingOK, FreshOK, Releases, Put, Ip
  <1>8. Freed' /\ InodeKinds' /\ EntryKinds'
    BY <1>1, <1>7 DEF IInv, Freed, InodeKinds, EntryKinds
  <1>9. /\ \A i \in Inum : AllLinks(i)' = AllLinks(i) /\ Claims(i)' = Claims(i)
        /\ Subdirs' = Subdirs /\ DirClaims' = DirClaims
    BY <1>1, <1>5 DEF AllLinks, Claims, Subdirs, DirClaims, IsDir, DirClaim, Call, Ip
  <1>10. LinksCovered' /\ RootCovered'  BY <1>1, <1>9 DEF IInv, LinksCovered, RootCovered
  <1>11. \A i \in Inum : Gone(i)' <=> Gone(i)  BY <1>1 DEF Gone, Put
  <1>12. BlocksOwned' /\ NewOwned' /\ Reclaimed' /\ NoPanic'
    BY <1>1, <1>11 DEF IInv, BlocksOwned, NewOwned, Writes, Reclaimed, NoPanic, Ip
  <1>. QED  BY <1>2, <1>6, <1>8, <1>10, <1>12 DEF IInv

(* However the calls of fs.c and sysfile.c interleave, and wherever the        *)
(* machine stops, a reference count is the number of holds on the inode, a     *)
(* link count covers its entries, and the blocks of an inode in use are its    *)
(* own.                                                                        *)
THEOREM Invariance == Spec => []IInv
  <1>1. IInv /\ [Next]_vars => IInv'
    <2>1. SUFFICES ASSUME IInv, [Next]_vars  PROVE IInv'
      OBVIOUS
    <2>. QED  BY <2>1, StepInv, CrashStep, StutterInv DEF Next
  <1>. QED  BY <1>1, InitInv, PTL DEF Spec

LEMMA PanicType ==
  ASSUME IInv, panicked \in BOOLEAN, [Next]_vars
  PROVE  panicked' \in BOOLEAN
  <1>1. ASSUME NEW p \in Proc, Iput(p)  PROVE panicked' \in BOOLEAN
    <2>1. puts[p] # <<>> /\ freeing[p] = "idle"  BY <1>1 DEF Iput
    <2>2. Put(p) \in Inum /\ busy \in [Inum -> BOOLEAN]  BY <2>1, PutterFacts DEF Types
    <2>. QED  BY <1>1, <2>2 DEF Iput
  <1>2. ASSUME NEW p \in Proc,
               \/ BfreeZero(p) \/ BfreeBit(p) \/ Itrunc(p) \/ FreeType(p) \/ FreeFlags(p)
               \/ (\E c \in Calls : Begin(p, c)) \/ Walk(p) \/ CreateFound(p) \/ Ialloc(p)
               \/ Dotdot(p) \/ Dirlink(p) \/ Made(p) \/ UnlinkAbsent(p) \/ Erased(p) \/ Unlinked(p)
               \/ LinkOld(p) \/ LinkEntry(p) \/ LinkBad(p) \/ WriteData(p) \/ WriteSize(p) \/ Close(p)
        PROVE  panicked' = panicked
    BY <1>2 DEF BfreeZero, BfreeBit, Itrunc, FreeType, FreeFlags, Begin, Walk, CreateFound, Ialloc,
                Dotdot, Dirlink, Made, UnlinkAbsent, Erased, Unlinked, LinkOld, LinkEntry, LinkBad,
                WriteData, WriteSize, Close
  <1>3. ASSUME NEW p \in Proc,
               \/ WalkDir(p) \/ Existing(p) \/ CreateAbsent(p) \/ InitInode(p) \/ UnlinkFound(p)
               \/ Victim(p) \/ LinkCount(p) \/ Balloc(p)
        PROVE  panicked' \in BOOLEAN
    BY <1>3 DEF WalkDir, Existing, CreateAbsent, InitInode, UnlinkFound, Victim, LinkCount, Balloc, Ilock
  <1>4. Crash \/ UNCHANGED vars => panicked' = panicked  BY DEF Crash, vars
  <1>. QED  BY <1>1, <1>2, <1>3, <1>4 DEF Next, Step

(* At every instant, so after any crash, the disk is sound: every entry that a *)
(* path reaches names an allocated inode whose link count covers its entries,  *)
(* the blocks of a file that a name reaches are marked and no other file's,    *)
(* and a block that balloc hands out holds zeros.                              *)
THEOREM DiskCorrect == Spec => []DiskSound
  <1>1. IInv /\ panicked \in BOOLEAN => DiskSound
    <2>1. SUFFICES ASSUME IInv, panicked \in BOOLEAN  PROVE DiskSound
      OBVIOUS
    <2>2. Types  BY <2>1 DEF IInv
    <2>3. TypeOK
      <3>1. \A p \in Proc : puts[p] \in Seq(Inum)  BY <2>2, PutFacts DEF Types
      <3>2. \A p \in Proc : Dp(p) \in Inum \cup {NoInum} /\ Ip(p) \in Inum \cup {NoInum}
        BY <2>2, FrameFacts DEF Types, Dp, Ip
      <3>. QED  BY <2>1, <2>2, <3>1, <3>2 DEF Types, TypeOK
    <2>4. LiveDir \subseteq Inum  BY InumAssumption DEF LiveDir, Root, Inum
    <2>5. ASSUME NEW i \in Inum
          PROVE  /\ Links(i) \subseteq AllLinks(i) /\ Cardinality(Links(i)) \in Nat
                 /\ dinode[i].nlink >= Cardinality(Links(i))
      <3>1. Links(i) \subseteq AllLinks(i)  BY <2>4 DEF Links, AllLinks
      <3>2. /\ IsFiniteSet(AllLinks(i)) /\ Cardinality(AllLinks(i)) \in Nat
            /\ Cardinality(Claims(i)) \in Nat
        BY <2>2, LinkCards
      <3>3. IsFiniteSet(Links(i)) /\ Cardinality(Links(i)) <= Cardinality(AllLinks(i))
        BY <3>1, <3>2, FS_Subset
      <3>4. Cardinality(Links(i)) \in Nat  BY <3>3, FS_CardinalityType
      <3>5. dinode[i].nlink >= Cardinality(AllLinks(i)) + Cardinality(Claims(i))
        BY <2>1 DEF IInv, LinksCovered
      <3>6. dinode[i].nlink \in Nat  BY <2>2 DEF Types, Inode
      <3>. QED  BY <3>1, <3>2, <3>3, <3>4, <3>5, <3>6
    <2>6. EntriesSound
      <3>1. SUFFICES ASSUME NEW d \in LiveDir, NEW n \in Name, dent[d][n] # NoInum
                     PROVE  /\ dinode[dent[d][n]].type # "free"
                            /\ dinode[dent[d][n]].nlink >= Cardinality(Links(dent[d][n]))
        BY DEF EntriesSound
      <3>2. d \in Inum  BY <2>4
      <3>3. dent[d][n] \in Inum /\ Steady(dent[d][n])  BY <2>1, <3>1, <3>2, EntryFacts
      <3>. QED  BY <2>5, <3>3 DEF Steady
    <2>7. BlocksSound
      <3>1. ASSUME NEW i \in Inum, Links(i) # {}  PROVE ~Gone(i)
        <4>1. PICK e \in AllLinks(i) : TRUE  BY <2>5, <3>1
        <4>2. e[1] \in Inum /\ e[2] \in Name /\ dent[e[1]][e[2]] = i  BY <4>1 DEF AllLinks
        <4>3. dent[e[1]][e[2]] # NoInum  BY <4>2, NoInumAssumption
        <4>4. Steady(dent[e[1]][e[2]])  BY <2>1, <4>2, <4>3, EntryFacts
        <4>. QED  BY <4>2, <4>4 DEF Steady
      <3>. QED  BY <2>1, <3>1 DEF BlocksSound, IInv, BlocksOwned
    <2>8. FreeBlocksZero  BY <2>1 DEF IInv, BlocksOwned, FreeBlocksZero
    <2>. QED  BY <2>3, <2>6, <2>7, <2>8 DEF DiskSound
  <1>2. Init => panicked \in BOOLEAN  BY DEF Init
  <1>3. IInv /\ panicked \in BOOLEAN /\ [Next]_vars => (panicked \in BOOLEAN)'  BY PanicType
  <1>. QED  BY <1>1, <1>2, <1>3, Invariance, PTL DEF Spec

(* What is in memory agrees with the disk: ilock, iput and unlink never panic, *)
(* an open file stays allocated with its blocks whoever unlinks it, an inode   *)
(* in the cache that is not locked is as it is on the disk, and until a crash  *)
(* an inode without links is still referenced, so that its last iput frees it. *)
THEOREM MemoryCorrect == Spec => []MemorySound
  <1>1. IInv => MemorySound
    <2>1. SUFFICES ASSUME IInv  PROVE MemorySound
      OBVIOUS
    <2>2. Types /\ NoPanic  BY <2>1 DEF IInv
    <2>3. OpenFileLives
      <3>1. SUFFICES ASSUME NEW p \in Proc, file[p] # NoInum
                     PROVE  dinode[file[p]].type = "file" /\ dinode[file[p]].addrs \subseteq used
        BY DEF OpenFileLives
      <3>2. file[p] \in Inum /\ dinode[file[p]].type = "file"
        BY <2>1, <2>2, <3>1 DEF IInv, Types, Locals, LocalOK, KindOK
      <3>3. Uses(p, file[p])  BY DEF Uses
      <3>4. ~Gone(file[p])  BY <2>1, <3>2, <3>3, UsesSteady DEF Steady
      <3>. QED  BY <2>1, <3>2, <3>4 DEF IInv, BlocksOwned
    <2>4. CacheCurrent
      <3>1. SUFFICES ASSUME NEW i \in Inum, valid[i], ~busy[i]  PROVE inode[i] = dinode[i]
        BY DEF CacheCurrent
      <3>2. \A q \in Proc : ~Owns(q, i)  BY <2>1, <3>1 DEF IInv, Locked
      <3>3. \A q \in Proc : ~Releases(q, i)  BY <3>2 DEF Owns, Releases
      <3>. QED  BY <2>1, <3>1, <3>3 DEF IInv, Cached
    <2>5. UnlinkedReclaimed
      <3>1. SUFFICES ASSUME crashes = 0, NEW i \in Inum, dinode[i].type # "free", dinode[i].nlink = 0
                     PROVE  ref[i] > 0
        BY DEF UnlinkedReclaimed
      <3>2. CASE \E p \in Proc : pc[p] = "init" /\ Ip(p) = i
        <4>1. PICK p \in Proc : pc[p] = "init" /\ Ip(p) = i  BY <3>2
        <4>2. FreshOK(p)  BY <2>1 DEF IInv, Freed
        <4>. QED  BY <4>1, <4>2 DEF FreshOK
      <3>3. CASE ref[i] > 0  BY <3>3
      <3>. QED  BY <2>1, <3>1, <3>2, <3>3 DEF IInv, Reclaimed
    <2>. QED  BY <2>2, <2>3, <2>4, <2>5 DEF MemorySound
  <1>. QED  BY <1>1, Invariance, PTL

=============================================================================

------------------------------ MODULE FileSystem ------------------------------
(***************************************************************************)
(* The inode layer and the system calls that change the tree: fs.c with     *)
(* open, mkdir, unlink, link, close and write of sysfile.c, by concurrent   *)
(* processes, and a crash at any point.                                     *)
(*                                                                          *)
(* One step makes at most one write to the disk, so that a crash can come   *)
(* between any two.  A block is read and written atomically (BufferCache),  *)
(* and only the owner of I_BUSY uses an inode.  A directory is a function   *)
(* from names to inodes; "." and ".." are left out, but not the count that  *)
(* ".." adds to its parent.  A file has at most one data block.             *)
(***************************************************************************)
EXTENDS Naturals, Sequences, FiniteSets

CONSTANTS
  Proc, Block,
  FileName, DirName,   \* the names the programs use for files and directories
  NINODES,     \* inodes of the disk, the root first
  Calls,       \* system calls of the programs: open mkdir unlink rmdir link write
  MaxCrashes,  \* bound: crashes
  MaxLinks,    \* bound: link counts that link makes
  NoInum       \* a free directory entry, and no file

Inum == 1 .. NINODES
Name == FileName \cup DirName
Root == 1

ASSUME InumAssumption == NINODES \in Nat \ {0} /\ MaxCrashes \in Nat /\ MaxLinks \in Nat
ASSUME ProcAssumption == IsFiniteSet(Proc)
ASSUME NameAssumption == IsFiniteSet(Name)
ASSUME NoInumAssumption == NoInum \notin Inum

VARIABLES
  dinode, dent, used, full,   \* the disk: inodes, entries, bitmap, blocks with contents
  inode, ref, busy, valid,    \* the inode cache
  pc, frame,                  \* where each process is in which call, and its locals:
                              \* names left, directory, inode, block it allocates
  puts,                       \* inodes it is about to iput, in order
  freeing,                    \* where it is in the freeing of the first of them
  file,                       \* the inode of its open file
  crashes, panicked

diskvars == <<dinode, dent, used, full>>
cachevars == <<inode, ref, busy, valid>>
procvars == <<pc, frame, puts, freeing, file>>
vars == <<diskvars, cachevars, procvars, crashes, panicked>>

FreeInode == [type |-> "free", nlink |-> 0, addrs |-> {}]
RootInode == [type |-> "dir", nlink |-> 1, addrs |-> {}]
Empty == [n \in Name |-> NoInum]
NoFrame == [call |-> "none", path |-> <<>>, dp |-> NoInum, ip |-> NoInum, new |-> {}]

(* Every process has the root for its working directory.                    *)
RefAtBoot == [i \in Inum |-> IF i = Root THEN Cardinality(Proc) ELSE 0]

Memory ==    \* what a start of the system leaves in memory
  [inode |-> [i \in Inum |-> FreeInode], ref |-> RefAtBoot,
   no |-> [i \in Inum |-> FALSE],
   idle |-> [p \in Proc |-> "idle"], none |-> [p \in Proc |-> NoInum],
   empty |-> [p \in Proc |-> <<>>], frame |-> [p \in Proc |-> NoFrame]]

Init ==
  /\ dinode = [i \in Inum |-> IF i = Root THEN RootInode ELSE FreeInode]
  /\ dent = [i \in Inum |-> Empty]
  /\ used = {} /\ full = {}
  /\ inode = Memory.inode /\ ref = Memory.ref /\ busy = Memory.no /\ valid = Memory.no
  /\ pc = Memory.idle /\ frame = Memory.frame
  /\ puts = Memory.empty /\ freeing = Memory.idle /\ file = Memory.none
  /\ crashes = 0 /\ panicked = FALSE

-----------------------------------------------------------------------------
(* Inodes in the cache                                                      *)

Loaded(i) == IF valid[i] THEN inode[i] ELSE dinode[i]
IsFirst(i, S) == i \in S /\ \A j \in S : i <= j

(* ilock, with what the caller makes of the inode, and iunlock.             *)
Ilock(i) ==
  /\ ~busy[i]
  /\ busy' = [busy EXCEPT ![i] = TRUE]
  /\ valid' = [valid EXCEPT ![i] = TRUE]
  /\ inode' = [inode EXCEPT ![i] = Loaded(i)]
  /\ panicked' = (Loaded(i).type = "free")

(* ilock and iunlock around code that writes no disk block.                 *)
Visit(i) ==
  /\ ~busy[i]
  /\ valid' = [valid EXCEPT ![i] = TRUE]
  /\ inode' = [inode EXCEPT ![i] = Loaded(i)]
  /\ UNCHANGED busy

(* iget; the cache has a slot for every inode of the instance.              *)
Iget(i) == ref' = [ref EXCEPT ![i] = @ + 1]

(* iupdate, when the cached inode becomes r.                                *)
Iupdate(i, r) ==
  /\ inode' = [inode EXCEPT ![i] = r]
  /\ dinode' = [dinode EXCEPT ![i] = r]

Enters(p, l, f) == pc' = [pc EXCEPT ![p] = l] /\ frame' = [frame EXCEPT ![p] = f]
Goes(p, l)      == Enters(p, l, IF l = "idle" THEN NoFrame ELSE frame[p])

Call(p) == frame[p].call
Path(p) == frame[p].path
Dp(p)   == frame[p].dp
Ip(p)   == frame[p].ip

-----------------------------------------------------------------------------
(* iput: the last reference to an inode without links frees it.             *)

Ready(p, l) == pc[p] = l /\ puts[p] = <<>>
Put(p) == Head(puts[p])

(* Slip: iput does not look at the references.                              *)
LastLink(i) == valid[i] /\ inode[i].nlink = 0

Last(i) == ref[i] = 1 /\ valid[i] /\ inode[i].nlink = 0

(* "When ip->ref falls to zero, the inode is no longer cached": the next    *)
(* iget takes a slot with flags 0.                                          *)
Forget(i) ==
  /\ valid' = [valid EXCEPT ![i] = FALSE]
  /\ inode' = [inode EXCEPT ![i] = FreeInode]

PutDone(p) ==
  /\ puts' = [puts EXCEPT ![p] = Tail(@)]
  /\ ref' = [ref EXCEPT ![Put(p)] = @ - 1]

Iput(p) ==
  /\ puts[p] # <<>> /\ freeing[p] = "idle"
  /\ IF Last(Put(p))
     THEN /\ panicked' = busy[Put(p)]
          /\ busy' = [busy EXCEPT ![Put(p)] = TRUE]
          /\ freeing' = [freeing EXCEPT ![p] = "bzero"]
          /\ UNCHANGED <<puts, ref, inode, valid>>
     ELSE /\ PutDone(p)
          /\ IF ref[Put(p)] = 1 THEN Forget(Put(p)) ELSE UNCHANGED <<inode, valid>>
          /\ UNCHANGED <<busy, freeing, panicked>>
  /\ UNCHANGED <<diskvars, pc, frame, file, crashes>>

(* bfree zeroes the block, with the entries of a directory, and then clears *)
(* its bit in the bitmap.                                                   *)
BfreeZero(p) ==
  /\ freeing[p] = "bzero"
  /\ full' = full \ inode[Put(p)].addrs
  /\ dent' = [dent EXCEPT ![Put(p)] = Empty]
  /\ freeing' = [freeing EXCEPT ![p] = "bfree"]
  /\ UNCHANGED <<dinode, used, cachevars, pc, frame, puts, file, crashes, panicked>>

BfreeBit(p) ==
  /\ freeing[p] = "bfree"
  /\ used' = used \ inode[Put(p)].addrs
  /\ freeing' = [freeing EXCEPT ![p] = "trunc"]
  /\ UNCHANGED <<dinode, dent, full, cachevars, pc, frame, puts, file, crashes, panicked>>

(* The end of itrunc: the inode has no blocks and no size.                  *)
Itrunc(p) ==
  /\ freeing[p] = "trunc"
  /\ Iupdate(Put(p), [inode[Put(p)] EXCEPT !.addrs = {}])
  /\ freeing' = [freeing EXCEPT ![p] = "type"]
  /\ UNCHANGED <<dent, used, full, ref, busy, valid, pc, frame, puts, file, crashes, panicked>>

FreeType(p) ==
  /\ freeing[p] = "type"
  /\ Iupdate(Put(p), [inode[Put(p)] EXCEPT !.type = "free"])
  /\ freeing' = [freeing EXCEPT ![p] = "flags"]
  /\ UNCHANGED <<dent, used, full, ref, busy, valid, pc, frame, puts, file, crashes, panicked>>

FreeFlags(p) ==
  /\ freeing[p] = "flags"
  /\ busy' = [busy EXCEPT ![Put(p)] = FALSE]
  /\ PutDone(p) /\ Forget(Put(p))
  /\ freeing' = [freeing EXCEPT ![p] = "idle"]
  /\ UNCHANGED <<diskvars, pc, frame, file, crashes, panicked>>

-----------------------------------------------------------------------------
(* Path names: <<f>> in the root or <<d, f>>; link has the old name first.  *)

Fails(p) == IF Call(p) = "link" THEN "bad" ELSE "idle"
DoPuts(p, s) == puts' = [puts EXCEPT ![p] = s]

Paths(S) == {<<n>> : n \in S} \cup {<<d, n>> : d \in DirName, n \in S}
CallPaths(c) ==
  IF c \in {"open", "unlink"} THEN Paths(FileName)
  ELSE IF c \in {"mkdir", "rmdir"} THEN {<<d>> : d \in DirName}
  ELSE IF c = "link" THEN UNION {{<<n>> \o q : q \in Paths(FileName)} : n \in FileName}
  ELSE {}

(* Bound: the instance makes no file that the disk has no inode for.        *)
InodesLeft ==
  Cardinality({p \in Proc : Call(p) \in {"open", "mkdir"}})
    < Cardinality({i \in Inum : dinode[i].type = "free"})

LinksLeft ==
  \A i \in Inum : dinode[i].nlink + Cardinality({p \in Proc : Call(p) = "link"}) < MaxLinks

Begin(p, c) ==
  /\ Ready(p, "idle") /\ c \in Calls
  /\ c = "open" => file[p] = NoInum       \* one open file for each process
  /\ c \in {"open", "mkdir"} => InodesLeft
  /\ c = "link" => LinksLeft
  /\ \E q \in CallPaths(c) :
       Enters(p, IF c = "link" THEN "old" ELSE "walk", [NoFrame EXCEPT !.call = c, !.path = q])
  /\ UNCHANGED <<diskvars, cachevars, puts, freeing, file, crashes, panicked>>

(* nameiparent: from the root, through at most one directory.               *)
Walk(p) ==
  /\ Ready(p, "walk") /\ ~busy[Root]
  /\ IF Len(Path(p)) = 1
     THEN /\ Iget(Root) /\ Enters(p, "parent", [frame[p] EXCEPT !.dp = Root])
          /\ UNCHANGED <<inode, valid>>
     ELSE LET next == dent[Root][Head(Path(p))]
          IN /\ Visit(Root)
             /\ IF next = NoInum
                THEN Goes(p, Fails(p)) /\ UNCHANGED ref
                ELSE /\ Iget(next)
                     /\ Enters(p, "dir", [frame[p] EXCEPT !.dp = next, !.path = Tail(@)])
  /\ UNCHANGED <<diskvars, busy, puts, freeing, file, crashes, panicked>>

(* The next turn of namex: the element must be a directory.                 *)
WalkDir(p) ==
  /\ Ready(p, "dir") /\ Visit(Dp(p))
  /\ panicked' = (Loaded(Dp(p)).type = "free")
  /\ IF Loaded(Dp(p)).type = "dir" THEN Goes(p, "parent") /\ UNCHANGED puts
                                   ELSE Goes(p, Fails(p)) /\ DoPuts(p, <<Dp(p)>>)
  /\ UNCHANGED <<diskvars, ref, busy, freeing, file, crashes>>

Entry(p) == dent[Dp(p)][Head(Path(p))]
SetEntry(p, i) == dent' = [dent EXCEPT ![Dp(p)][Head(Path(p))] = i]

-----------------------------------------------------------------------------
(* create, for open and mkdir                                               *)

Creates(p) == Call(p) \in {"open", "mkdir"}

CreateFound(p) ==
  /\ Ready(p, "parent") /\ Creates(p) /\ Entry(p) # NoInum
  /\ Visit(Dp(p))
  /\ Iget(Entry(p)) /\ Enters(p, "existing", [frame[p] EXCEPT !.ip = Entry(p)])
  /\ DoPuts(p, <<Dp(p)>>)
  /\ UNCHANGED <<diskvars, busy, freeing, file, crashes, panicked>>

(* An existing file is opened; anything else is given back.                 *)
Existing(p) ==
  /\ Ready(p, "existing") /\ Visit(Ip(p))
  /\ panicked' = (Loaded(Ip(p)).type = "free")
  /\ IF Call(p) = "open" /\ Loaded(Ip(p)).type = "file"
     THEN file' = [file EXCEPT ![p] = Ip(p)] /\ UNCHANGED puts
     ELSE DoPuts(p, <<Ip(p)>>) /\ UNCHANGED file
  /\ Goes(p, "idle")
  /\ UNCHANGED <<diskvars, ref, busy, freeing, crashes>>

CreateAbsent(p) ==
  /\ Ready(p, "parent") /\ Creates(p) /\ Entry(p) = NoInum
  /\ Ilock(Dp(p)) /\ Goes(p, "ialloc")
  /\ UNCHANGED <<diskvars, ref, puts, freeing, file, crashes>>

(* ialloc's scan reads one inode at a time, so it takes any that is free.   *)
Ialloc(p) ==
  /\ pc[p] = "ialloc"
  /\ \E i \in Inum :
       /\ dinode[i].type = "free"
       /\ dinode' = [dinode EXCEPT ![i] =
                       [FreeInode EXCEPT !.type = IF Call(p) = "open" THEN "file" ELSE "dir"]]
       /\ Iget(i) /\ Enters(p, "init", [frame[p] EXCEPT !.ip = i])
  /\ UNCHANGED <<dent, used, full, inode, busy, valid, puts, freeing, file, crashes, panicked>>

(* Slip: create does not iupdate before it links the name.                  *)
InitInodeLate(p) ==
  /\ pc[p] = "init" /\ ~busy[Ip(p)]
  /\ busy' = [busy EXCEPT ![Ip(p)] = TRUE] /\ valid' = [valid EXCEPT ![Ip(p)] = TRUE]
  /\ inode' = [inode EXCEPT ![Ip(p)] = [Loaded(Ip(p)) EXCEPT !.nlink = 1]]
  /\ UNCHANGED <<dinode, panicked>>
  /\ Goes(p, IF Call(p) = "mkdir" THEN "dotdot" ELSE "dirlink")
  /\ UNCHANGED <<dent, used, full, ref, puts, freeing, file, crashes>>

InitInode(p) ==
  /\ pc[p] = "init" /\ ~busy[Ip(p)]
  /\ busy' = [busy EXCEPT ![Ip(p)] = TRUE] /\ valid' = [valid EXCEPT ![Ip(p)] = TRUE]
  /\ Iupdate(Ip(p), [Loaded(Ip(p)) EXCEPT !.nlink = 1])
  /\ panicked' = (Loaded(Ip(p)).type = "free")
  /\ Goes(p, IF Call(p) = "mkdir" THEN "dotdot" ELSE "dirlink")
  /\ UNCHANGED <<dent, used, full, ref, puts, freeing, file, crashes>>

(* A new directory's ".." counts as a link of its parent.                   *)
Dotdot(p) ==
  /\ pc[p] = "dotdot"
  /\ Iupdate(Dp(p), [inode[Dp(p)] EXCEPT !.nlink = @ + 1])
  /\ Goes(p, "dirlink")
  /\ UNCHANGED <<dent, used, full, ref, busy, valid, puts, freeing, file, crashes, panicked>>

Dirlink(p) ==
  /\ pc[p] = "dirlink" /\ SetEntry(p, Ip(p))
  /\ busy' = [busy EXCEPT ![Dp(p)] = FALSE]
  /\ DoPuts(p, <<Dp(p)>>) /\ Goes(p, "made")
  /\ UNCHANGED <<dinode, used, full, inode, ref, valid, freeing, file, crashes, panicked>>

Made(p) ==
  /\ Ready(p, "made")
  /\ busy' = [busy EXCEPT ![Ip(p)] = FALSE]
  /\ IF Call(p) = "open" THEN file' = [file EXCEPT ![p] = Ip(p)] /\ UNCHANGED puts
                         ELSE DoPuts(p, <<Ip(p)>>) /\ UNCHANGED file
  /\ Goes(p, "idle")
  /\ UNCHANGED <<diskvars, inode, ref, valid, freeing, crashes, panicked>>

-----------------------------------------------------------------------------
(* unlink                                                                   *)

Unlinks(p) == Call(p) \in {"unlink", "rmdir"}

UnlinkAbsent(p) ==
  /\ Ready(p, "parent") /\ Unlinks(p) /\ Entry(p) = NoInum
  /\ Visit(Dp(p)) /\ DoPuts(p, <<Dp(p)>>) /\ Goes(p, "idle")
  /\ UNCHANGED <<diskvars, ref, busy, freeing, file, crashes, panicked>>

UnlinkFound(p) ==
  /\ Ready(p, "parent") /\ Unlinks(p) /\ Entry(p) # NoInum
  /\ Ilock(Dp(p))
  /\ Iget(Entry(p)) /\ Enters(p, "victim", [frame[p] EXCEPT !.ip = Entry(p)])
  /\ UNCHANGED <<diskvars, puts, freeing, file, crashes>>

IsDirEmpty(i) == dent[i] = Empty

(* With both locked: a directory that is not empty stays, else the entry    *)
(* goes.                                                                    *)
Victim(p) ==
  /\ pc[p] = "victim" /\ ~busy[Ip(p)]
  /\ valid' = [valid EXCEPT ![Ip(p)] = TRUE]
  /\ inode' = [inode EXCEPT ![Ip(p)] = Loaded(Ip(p))]
  /\ panicked' = (Loaded(Ip(p)).type = "free" \/ Loaded(Ip(p)).nlink < 1)
  /\ IF Loaded(Ip(p)).type = "dir" /\ ~IsDirEmpty(Ip(p))
     THEN /\ busy' = [busy EXCEPT ![Dp(p)] = FALSE]
          /\ DoPuts(p, <<Ip(p), Dp(p)>>) /\ Goes(p, "idle") /\ UNCHANGED dent
     ELSE /\ busy' = [busy EXCEPT ![Ip(p)] = TRUE]
          /\ SetEntry(p, NoInum) /\ Goes(p, "erased") /\ UNCHANGED puts
  /\ UNCHANGED <<dinode, used, full, ref, freeing, file, crashes>>

Erased(p) ==
  /\ pc[p] = "erased"
  /\ IF inode[Ip(p)].type = "dir"
     THEN Iupdate(Dp(p), [inode[Dp(p)] EXCEPT !.nlink = @ - 1])
     ELSE UNCHANGED <<inode, dinode>>
  /\ busy' = [busy EXCEPT ![Dp(p)] = FALSE]
  /\ DoPuts(p, <<Dp(p)>>) /\ Goes(p, "unlinked")
  /\ UNCHANGED <<dent, used, full, ref, valid, freeing, file, crashes, panicked>>

Unlinked(p) ==
  /\ Ready(p, "unlinked")
  /\ Iupdate(Ip(p), [inode[Ip(p)] EXCEPT !.nlink = @ - 1])
  /\ busy' = [busy EXCEPT ![Ip(p)] = FALSE]
  /\ DoPuts(p, <<Ip(p)>>) /\ Goes(p, "idle")
  /\ UNCHANGED <<dent, used, full, ref, valid, freeing, file, crashes, panicked>>

-----------------------------------------------------------------------------
(* link                                                                     *)

LinkOld(p) ==
  /\ Ready(p, "old") /\ Visit(Root)
  /\ LET i == dent[Root][Head(Path(p))]
     IN IF i = NoInum THEN Goes(p, "idle") /\ UNCHANGED ref
        ELSE Iget(i) /\ Enters(p, "count", [frame[p] EXCEPT !.ip = i, !.path = Tail(@)])
  /\ UNCHANGED <<diskvars, busy, puts, freeing, file, crashes, panicked>>

LinkCount(p) ==
  /\ Ready(p, "count") /\ ~busy[Ip(p)]
  /\ valid' = [valid EXCEPT ![Ip(p)] = TRUE]
  /\ panicked' = (Loaded(Ip(p)).type = "free")
  /\ IF Loaded(Ip(p)).type = "dir"
     THEN /\ inode' = [inode EXCEPT ![Ip(p)] = Loaded(Ip(p))] /\ UNCHANGED dinode
          /\ DoPuts(p, <<Ip(p)>>) /\ Goes(p, "idle")
     ELSE /\ Iupdate(Ip(p), [Loaded(Ip(p)) EXCEPT !.nlink = @ + 1])
          /\ Goes(p, "walk") /\ UNCHANGED puts
  /\ UNCHANGED <<dent, used, full, ref, busy, freeing, file, crashes>>

LinkEntry(p) ==
  /\ Ready(p, "parent") /\ Call(p) = "link"
  /\ Visit(Dp(p))
  /\ IF Entry(p) = NoInum
     THEN SetEntry(p, Ip(p)) /\ DoPuts(p, <<Dp(p), Ip(p)>>) /\ Goes(p, "idle")
     ELSE DoPuts(p, <<Dp(p)>>) /\ Goes(p, "bad") /\ UNCHANGED dent
  /\ UNCHANGED <<dinode, used, full, ref, busy, freeing, file, crashes, panicked>>

LinkBad(p) ==
  /\ Ready(p, "bad") /\ ~busy[Ip(p)]
  /\ Iupdate(Ip(p), [inode[Ip(p)] EXCEPT !.nlink = @ - 1])
  /\ DoPuts(p, <<Ip(p)>>) /\ Goes(p, "idle")
  /\ UNCHANGED <<dent, used, full, ref, busy, valid, freeing, file, crashes, panicked>>

-----------------------------------------------------------------------------
(* write and close                                                          *)

Marked(b) == used \cup {b}

(* The file's first block: balloc sets the bit, writei fills the block, and *)
(* only then iupdate points to it.  Bound: the disk has a block left.       *)
Balloc(p) ==
  /\ Ready(p, "idle") /\ "write" \in Calls /\ file[p] # NoInum
  /\ Ilock(file[p]) /\ Loaded(file[p]).addrs = {}
  /\ \E b \in Block \ used :
       used' = Marked(b) /\ Enters(p, "data", [NoFrame EXCEPT !.call = "write", !.new = {b}])
  /\ UNCHANGED <<dinode, dent, full, ref, puts, freeing, file, crashes>>

WriteData(p) ==
  /\ pc[p] = "data" /\ full' = full \cup frame[p].new /\ Goes(p, "size")
  /\ UNCHANGED <<dinode, dent, used, cachevars, puts, freeing, file, crashes, panicked>>

WriteSize(p) ==
  /\ pc[p] = "size"
  /\ Iupdate(file[p], [inode[file[p]] EXCEPT !.addrs = frame[p].new])
  /\ busy' = [busy EXCEPT ![file[p]] = FALSE]
  /\ Goes(p, "idle")
  /\ UNCHANGED <<dent, used, full, ref, valid, puts, freeing, file, crashes, panicked>>

Close(p) ==
  /\ Ready(p, "idle") /\ file[p] # NoInum
  /\ DoPuts(p, <<file[p]>>) /\ file' = [file EXCEPT ![p] = NoInum]
  /\ UNCHANGED <<diskvars, cachevars, pc, frame, freeing, crashes, panicked>>

-----------------------------------------------------------------------------
(* The machine stops: the disk is as it is, the memory is that of a boot.   *)
Crash ==
  /\ crashes < MaxCrashes /\ crashes' = crashes + 1
  /\ inode' = Memory.inode /\ ref' = Memory.ref /\ busy' = Memory.no /\ valid' = Memory.no
  /\ pc' = Memory.idle /\ frame' = Memory.frame
  /\ puts' = Memory.empty /\ freeing' = Memory.idle /\ file' = Memory.none
  /\ UNCHANGED <<diskvars, panicked>>

Step(p) ==
  \/ Iput(p) \/ BfreeZero(p) \/ BfreeBit(p) \/ Itrunc(p) \/ FreeType(p) \/ FreeFlags(p)
  \/ \E c \in Calls : Begin(p, c)
  \/ Walk(p) \/ WalkDir(p)
  \/ CreateFound(p) \/ Existing(p) \/ CreateAbsent(p) \/ Ialloc(p) \/ InitInode(p)
  \/ Dotdot(p) \/ Dirlink(p) \/ Made(p)
  \/ UnlinkAbsent(p) \/ UnlinkFound(p) \/ Victim(p) \/ Erased(p) \/ Unlinked(p)
  \/ LinkOld(p) \/ LinkCount(p) \/ LinkEntry(p) \/ LinkBad(p)
  \/ Balloc(p) \/ WriteData(p) \/ WriteSize(p) \/ Close(p)

Next == ~panicked /\ (Crash \/ \E p \in Proc : Step(p))

Spec == Init /\ [][Next]_vars

-----------------------------------------------------------------------------
Inode == [type : {"free", "file", "dir"}, nlink : Nat, addrs : SUBSET Block]

TypeOK ==
  /\ dinode \in [Inum -> Inode] /\ inode \in [Inum -> Inode]
  /\ dent \in [Inum -> [Name -> Inum \cup {NoInum}]]
  /\ used \subseteq Block /\ full \subseteq Block
  /\ ref \in [Inum -> Nat]
  /\ busy \in [Inum -> BOOLEAN] /\ valid \in [Inum -> BOOLEAN]
  /\ \A p \in Proc : /\ puts[p] \in Seq(Inum)
                     /\ Dp(p) \in Inum \cup {NoInum} /\ Ip(p) \in Inum \cup {NoInum}
                     /\ file[p] \in Inum \cup {NoInum}
  /\ crashes \in 0 .. MaxCrashes /\ panicked \in BOOLEAN

(* What a path can reach on the disk.                                       *)
LiveDir == {Root} \cup {i \in Inum : dinode[i].type = "dir" /\ \E n \in Name : dent[Root][n] = i}
Links(i) == {e \in LiveDir \X Name : dent[e[1]][e[2]] = i}

(* At any instant, so after any crash: every entry names an allocated inode *)
(* whose link count covers its entries, so that unlink never frees an inode *)
(* that a name still reaches (the order of writes in create, link, unlink). *)
EntriesSound ==
  \A d \in LiveDir, n \in Name : dent[d][n] # NoInum =>
    LET i == dent[d][n] IN dinode[i].type # "free" /\ dinode[i].nlink >= Cardinality(Links(i))

(* At any instant, so after any crash: the blocks of a file that a name     *)
(* reaches are marked in the bitmap and belong to no other such file (the   *)
(* order of writes in balloc, iupdate and itrunc).                          *)
BlocksSound ==
  \A i, j \in Inum : Links(i) # {} /\ Links(j) # {} =>
    dinode[i].addrs \subseteq used /\ (i # j => dinode[i].addrs \cap dinode[j].addrs = {})

(* A block that balloc hands out holds zeros, as bmap's callers rely on     *)
(* (bfree zeroes it before it gives it back).                               *)
FreeBlocksZero == full \subseteq used

(* An open file stays allocated, with its blocks, whoever unlinks it.       *)
OpenFileLives ==
  \A p \in Proc : file[p] # NoInum =>
    dinode[file[p]].type = "file" /\ dinode[file[p]].addrs \subseteq used

(* An inode nobody has locked is in the cache as it is on the disk.         *)
CacheCurrent == \A i \in Inum : valid[i] /\ ~busy[i] => inode[i] = dinode[i]

(* Until a crash, an inode without links is in use or being freed: the last *)
(* iput frees it, whatever the order of the references that go.             *)
UnlinkedReclaimed ==
  crashes = 0 => \A i \in Inum : dinode[i].type # "free" /\ dinode[i].nlink = 0 => ref[i] > 0

(* ilock finds a type, unlink finds a link, iput finds the inode unlocked.  *)
NoPanic == ~panicked

(* What is on the disk is sound at every instant, so after any crash.       *)
DiskSound == TypeOK /\ EntriesSound /\ BlocksSound /\ FreeBlocksZero

(* What is in memory agrees with it: open files, cached inodes, and inodes  *)
(* that only their references keep; no lock or type is found to be wrong.   *)
MemorySound == NoPanic /\ OpenFileLives /\ CacheCurrent /\ UnlinkedReclaimed

(* "Number of links to inode in file system": what nlink says when nobody   *)
(* is in the middle of a call and the machine never stopped.                *)
LinksCounted ==
  (crashes = 0 /\ \A p \in Proc : pc[p] = "idle" /\ puts[p] = <<>>) =>
    \A i \in Inum \ {Root} : dinode[i].type = "file" => dinode[i].nlink = Cardinality(Links(i))
===============================================================================

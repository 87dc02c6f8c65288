------------------------------- MODULE Defrag -------------------------------
(* The defragmenter of Project4/4a (defrag.c): one pass over the inodes copies *)
(* each file to the front of the data region and its index blocks, of three    *)
(* levels, behind all data.  One step is one inode.                            *)
EXTENDS Integers, FiniteSets, SequencesExt

CONSTANTS
    N_DBLOCKS, N_IBLOCKS,
    BlockSize,      \* bytes of a block
    PerBlock,       \* block_size / sizeof(int)
    NBlocks,        \* blocks of the data region
    Inodes,         \* inode_count
    FileSizes,      \* bytes of the files in the images
    Strides         \* how the blocks of an image are scattered

ASSUME DefragAssumption ==
    /\ N_DBLOCKS \in Nat /\ N_IBLOCKS \in Nat /\ BlockSize \in Nat \ {0}
    /\ PerBlock \in Nat \ {0} /\ NBlocks \in Nat /\ Inodes \in Nat
    /\ FileSizes \subseteq Nat /\ Strides \subseteq Nat \ {0}

VARIABLES
    disk, inodes,        \* the data region and the inodes of istream
    newdisk, newinodes,  \* ... and of ostream
    dataPtr, inodePtr,   \* data_pointer and inode_pointer
    at                   \* the inode main is at, 0 before init

defrag == <<disk, inodes, newdisk, newinodes, dataPtr, inodePtr, at>>
image == <<disk, inodes>>

Inode == 1 .. Inodes
Entry == 0 .. PerBlock - 1
NoEntries == [i \in Entry |-> 0]
Live(f) == inodes[f].nlink > 0

(* Slip: the last block of a file is counted only when it is full.             *)
BlocksFloor(size) == size \div BlockSize

(* block_count                                                                 *)
Blocks(size) == size \div BlockSize + (IF size % BlockSize # 0 THEN 1 ELSE 0)
-----------------------------------------------------------------------------
(* What a file is, whatever moves it: block m is found by direct pointers,     *)
(* then through one, two and three levels of index blocks.                     *)
OfIndirect == N_IBLOCKS * PerBlock
OfDoubly == PerBlock * PerBlock
IndirectAt(m) == m - N_DBLOCKS
DoublyAt(m) == IndirectAt(m) - OfIndirect
TriplyAt(m) == DoublyAt(m) - OfDoubly

(* The index blocks over block m of inode ip on disk d, from the top, and the  *)
(* number of block m itself.  What a data block holds reads as some number.    *)
Slot(d, b, i) == IF i \in DOMAIN d[b] THEN d[b][i] ELSE 0
Index(d, ip, m) ==
    IF m < N_DBLOCKS THEN <<>>
    ELSE IF IndirectAt(m) < OfIndirect THEN <<ip.iblocks[IndirectAt(m) \div PerBlock]>>
    ELSE IF DoublyAt(m) < OfDoubly
    THEN <<ip.i2block, Slot(d, ip.i2block, DoublyAt(m) \div PerBlock)>>
    ELSE LET second == Slot(d, ip.i3block, TriplyAt(m) \div OfDoubly)
         IN <<ip.i3block, second, Slot(d, second, (TriplyAt(m) \div PerBlock) % PerBlock)>>
Within(m) ==
    IF IndirectAt(m) < OfIndirect THEN IndirectAt(m)
    ELSE IF DoublyAt(m) < OfDoubly THEN DoublyAt(m) ELSE TriplyAt(m)
Number(d, ip, m) ==
    IF m < N_DBLOCKS THEN ip.dblocks[m]
    ELSE Slot(d, Last(Index(d, ip, m)), Within(m) % PerBlock)

(* The images: each block of a file, and each index block, has a number in its *)
(* file, and a stride scatters them over the region.                           *)
MostBlocks == N_DBLOCKS + OfIndirect + OfDoubly + PerBlock * OfDoubly
PerFile == MostBlocks + N_IBLOCKS + 2 + 2 * PerBlock + OfDoubly
Place(stride, f, n) == (((f - 1) * PerFile + n) * stride) % NBlocks
Second == MostBlocks + N_IBLOCKS
Third == Second + 1 + PerBlock
Scattered(stride) ==
    LET P(f, n) == Place(stride, f, n)
        I2(f) == N_DBLOCKS + OfIndirect
        Holder(f, b, n) == P(f, n) = b
        Content(f, n) ==
            IF n < MostBlocks THEN <<f, n>>
            ELSE IF n < Second
            THEN [i \in Entry |-> P(f, N_DBLOCKS + (n - MostBlocks) * PerBlock + i)]
            ELSE IF n = Second THEN [i \in Entry |-> P(f, Second + 1 + i)]
            ELSE IF n < Third
            THEN [i \in Entry |-> P(f, I2(f) + (n - Second - 1) * PerBlock + i)]
            ELSE IF n = Third THEN [i \in Entry |-> P(f, Third + 1 + i)]
            ELSE IF n <= Third + PerBlock
            THEN [i \in Entry |-> P(f, Third + 1 + PerBlock + (n - Third - 1) * PerBlock + i)]
            ELSE [i \in Entry |-> P(f, I2(f) + OfDoubly
                                       + (n - Third - 1 - PerBlock) * PerBlock + i)]
    IN [b \in 0 .. NBlocks - 1 |->
          IF \E f \in Inode, n \in 0 .. PerFile - 1 : Holder(f, b, n)
          THEN LET f == CHOOSE f \in Inode : \E n \in 0 .. PerFile - 1 : Holder(f, b, n)
               IN Content(f, CHOOSE n \in 0 .. PerFile - 1 : Holder(f, b, n))
          ELSE NoEntries]

DefragImage(stride, size, nlink) ==
    /\ disk = Scattered(stride)
    /\ inodes = [f \in Inode |->
          [nlink |-> nlink[f], size |-> size[f],
           dblocks |-> [v \in 0 .. N_DBLOCKS - 1 |-> Place(stride, f, v)],
           iblocks |-> [v \in 0 .. N_IBLOCKS - 1 |-> Place(stride, f, MostBlocks + v)],
           i2block |-> Place(stride, f, Second), i3block |-> Place(stride, f, Third)]]
    /\ newdisk = [b \in 0 .. NBlocks - 1 |-> NoEntries]
    /\ newinodes = [f \in Inode |-> [nlink |-> 0]]
    /\ dataPtr = 0 /\ inodePtr = 0 /\ at = 0
DefragInit ==
    \E stride \in Strides, size \in [Inode -> FileSizes], nlink \in [Inode -> {0, 1}] :
        DefragImage(stride, size, nlink)
-----------------------------------------------------------------------------
(* The write functions.  Their state is the output, the two pointers and       *)
(* block_count.                                                                *)
WriteData(s, from, to) ==
    [s EXCEPT !.out[to] = disk[from], !.data = @ + 1, !.left = @ - 1]

(* The loop the three index functions have: each entry that is needed is given *)
(* its new number and what it points to is written there.                      *)
WriteIndex(Write(_, _, _), Next(_), s, from, to) ==
    LET entry(t, i) ==
            IF t.left = 0 THEN t
            ELSE Write([t EXCEPT !.out[to][i] = Next(t)], disk[from][i], Next(t))
    IN FoldLeft(entry, [s EXCEPT !.index = @ + 1], [i \in 1 .. PerBlock |-> i - 1])

NextData(s) == s.data
NextIndex(s) == s.index
WriteIndirect(s, from, to) == WriteIndex(WriteData, NextData, s, from, to)
WriteDoubly(s, from, to) == WriteIndex(WriteIndirect, NextIndex, s, from, to)

WriteTriply(s, from, to) == WriteIndex(WriteDoubly, NextIndex, s, from, to)

(* init and calculate_summary_of_blocks                                        *)
DefragStart ==
    /\ at = 0 /\ at' = 1
    /\ inodePtr' = FoldLeft(LAMBDA sum, f : IF Live(f) THEN sum + Blocks(inodes[f].size) ELSE sum,
                            0, [f \in Inode |-> f])
    /\ UNCHANGED <<image, newdisk, newinodes, dataPtr>>

(* A pass of main's loop: the direct pointers, the indirect ones, and the two  *)
(* of higher levels, as long as blocks are left.                               *)
DefragInode ==
    /\ at \in Inode /\ at' = at + 1
    /\ LET old == inodes[at]
           start == [out |-> newdisk, data |-> dataPtr, index |-> inodePtr,
                     left |-> Blocks(old.size), ip |-> old]
           direct(s, v) == IF s.left = 0 THEN s
                           ELSE WriteData([s EXCEPT !.ip.dblocks[v] = s.data], old.dblocks[v], s.data)
           single(s, v) == IF s.left = 0 THEN s
                           ELSE WriteIndirect([s EXCEPT !.ip.iblocks[v] = s.index],
                                              old.iblocks[v], s.index)
           second(s) == IF s.left = 0 THEN s
                        ELSE WriteDoubly([s EXCEPT !.ip.i2block = s.index], old.i2block, s.index)
           third(s) == IF s.left = 0 THEN s
                       ELSE WriteTriply([s EXCEPT !.ip.i3block = s.index], old.i3block, s.index)
           done == third(second(FoldLeft(single, FoldLeft(direct, start,
                       [v \in 1 .. N_DBLOCKS |-> v - 1]), [v \in 1 .. N_IBLOCKS |-> v - 1])))
       IN IF ~Live(at) THEN UNCHANGED <<newdisk, newinodes, dataPtr, inodePtr>>
          ELSE /\ newdisk' = done.out
               /\ newinodes' = [newinodes EXCEPT ![at] = done.ip]
               /\ dataPtr' = done.data /\ inodePtr' = done.index
    /\ UNCHANGED image

DefragNext == DefragStart \/ DefragInode
-----------------------------------------------------------------------------
(* When the pass is over every file reads as before, its blocks follow each    *)
(* other, files in the order of their inodes, and data and index blocks fill   *)
(* the front of the region without a gap (README of 4a, 2 and 3).              *)
Files == {f \in Inode : Live(f)}
Count(f) == Cardinality({k \in 0 .. inodes[f].size - 1 : k % BlockSize = 0})
SameContents ==
    \A f \in Files : \A m \in 0 .. Count(f) - 1 :
        newdisk[Number(newdisk, newinodes[f], m)] = <<f, m>>
InOrder ==
    \A f, g \in Files : \A m \in 0 .. Count(f) - 1, n \in 0 .. Count(g) - 1 :
        f < g \/ (f = g /\ m <= n) =>
            Number(newdisk, newinodes[g], n) - Number(newdisk, newinodes[f], m) >=
                IF f = g THEN n - m ELSE 1
Used ==
    UNION {{Number(newdisk, newinodes[f], m)} \cup ToSet(Index(newdisk, newinodes[f], m)) :
              <<f, m>> \in {<<g, k>> \in Files \X (0 .. MostBlocks - 1) : k < Count(g)}}
Defragmented ==
    at > Inodes => SameContents /\ InOrder /\ Used = 0 .. inodePtr - 1
=============================================================================

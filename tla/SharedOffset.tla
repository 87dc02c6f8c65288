---------------------------- MODULE SharedOffset ----------------------------
(* What the descriptors of one open promise the processes that share them,     *)
(* through dup and fork: one offset, and calls that each take effect at once,  *)
(* at the offset where the one before has left it.                             *)
EXTENDS Naturals, Sequences, SequencesExt

CONSTANTS Proc, File, Inum, NoInum,
          Counts,   \* the bytes a call asks for
          MaxSize   \* of an inode

VARIABLES
    opened,     \* the inode each open file is of
    offset,
    contents,   \* of the inodes
    answer      \* what a read returns, until its process has it

vars == <<opened, offset, contents, answer>>

Init ==
    /\ opened = [f \in File |-> NoInum] /\ offset = [f \in File |-> 0]
    /\ contents = [i \in Inum |-> <<>>] /\ answer = [p \in Proc |-> <<>>]

Open(f, i) ==
    /\ opened[f] = NoInum
    /\ opened' = [opened EXCEPT ![f] = i] /\ offset' = [offset EXCEPT ![f] = 0]
    /\ UNCHANGED <<contents, answer>>

Close(f) ==
    /\ opened[f] # NoInum
    /\ opened' = [opened EXCEPT ![f] = NoInum] /\ offset' = [offset EXCEPT ![f] = 0]
    /\ UNCHANGED <<contents, answer>>

Least(a, b) == IF a <= b THEN a ELSE b

\* the contents with n bytes of p from position off on
Written(c, off, n, p) ==
    SubSeq(c, 1, off) \o [k \in 1 .. n |-> p] \o SubSeq(c, off + n + 1, Len(c))

Write(p, f) ==
    /\ opened[f] # NoInum
    /\ \E n \in Counts :
         LET r == Least(n, MaxSize - offset[f]) IN
         /\ contents' = [contents EXCEPT ![opened[f]] = Written(@, offset[f], r, p)]
         /\ offset' = [offset EXCEPT ![f] = @ + r]
    /\ UNCHANGED <<opened, answer>>

Read(p, f) ==
    /\ opened[f] # NoInum
    /\ \E n \in Counts :
         LET r == Least(n, Len(contents[opened[f]]) - offset[f]) IN
         /\ answer' = [answer EXCEPT ![p] = SubSeq(contents[opened[f]], offset[f] + 1, offset[f] + r)]
         /\ offset' = [offset EXCEPT ![f] = @ + r]
    /\ UNCHANGED <<opened, contents>>

Take(p) ==
    /\ answer' = [answer EXCEPT ![p] = <<>>] /\ UNCHANGED <<opened, offset, contents>>

Next ==
    \/ \E f \in File : Close(f) \/ \E i \in Inum : Open(f, i)
    \/ \E p \in Proc : Take(p) \/ \E f \in File : Write(p, f) \/ Read(p, f)

Spec == Init /\ [][Next]_vars
=============================================================================

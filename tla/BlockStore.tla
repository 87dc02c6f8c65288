------------------------------ MODULE BlockStore ------------------------------
(***************************************************************************)
(* What bio.c promises its callers: a block has one owner at a time, the    *)
(* owner sees the contents the disk holds, and only the owner changes them, *)
(* from what it saw.  Contents are numbered by the writes that made them.   *)
(***************************************************************************)
EXTENDS Naturals

CONSTANTS Block, Owner, NoOwner, Unseen

VARIABLES
  content,  \* what each block holds on the disk
  owner,    \* who has the block between bread and brelse
  view      \* what the owner sees in its buffer, or Unseen

Init ==
  /\ content = [s \in Block |-> 0]
  /\ owner = [s \in Block |-> NoOwner]
  /\ view = [s \in Block |-> Unseen]

(* A cached block is seen at once, one that is not cached later.            *)
Take(s) ==
  /\ owner[s] = NoOwner
  /\ \E p \in Owner : owner' = [owner EXCEPT ![s] = p]
  /\ view' = [view EXCEPT ![s] = content[s]] \/ view' = view
  /\ UNCHANGED content

See(s) ==
  /\ owner[s] # NoOwner
  /\ view' = [view EXCEPT ![s] = content[s]]
  /\ UNCHANGED <<owner, content>>

(* The owner's new contents are on their way, and then on the disk.         *)
Change(s) ==
  /\ owner[s] # NoOwner /\ view[s] = content[s]
  /\ view' = [view EXCEPT ![s] = Unseen]
  /\ UNCHANGED <<owner, content>>

Commit(s) ==
  /\ owner[s] # NoOwner /\ view[s] = Unseen
  /\ content' = [content EXCEPT ![s] = @ + 1]
  /\ UNCHANGED <<owner, view>>

Give(s) ==
  /\ view[s] = content[s]
  /\ owner' = [owner EXCEPT ![s] = NoOwner]
  /\ view' = [view EXCEPT ![s] = Unseen]
  /\ UNCHANGED content

Next == \E s \in Block : Take(s) \/ See(s) \/ Change(s) \/ Commit(s) \/ Give(s)

Spec == Init /\ [][Next]_<<content, owner, view>>
===============================================================================

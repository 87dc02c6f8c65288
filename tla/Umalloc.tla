------------------------------ MODULE Umalloc ------------------------------
(* malloc and free of user programs (Project4/4b, user/umalloc.c), and the     *)
(* thread calls of ulib.c that use them.  Addresses count headers from the     *)
(* first sbrk on.  The circular list is the sequence `free' that starts at     *)
(* freep; its node base, of size 0, lies below the heap.                       *)
EXTENDS Integers, Sequences, FiniteSets, SequencesExt, FiniteSetsExt

CONSTANTS
    PageUnits,     \* PGSIZE / sizeof(Header)
    MoreUnits,     \* what morecore asks for at least: 4096
    MaxUnits,      \* bound: sbrk fails above
    Payloads,      \* the units programs ask for; 1 is thread_join's pointer
    OwnSbrks,      \* the units programs take from sbrk themselves
    MaxHeld,       \* bound: blocks a program has at a time
    StaleSizes     \* what a word that is no header may hold, see ThreadJoin

ASSUME UmallocAssumption ==
    /\ PageUnits \in Nat \ {0} /\ MoreUnits \in Nat \ {0} /\ MaxUnits \in Nat
    /\ Payloads \subseteq Nat \ {0} /\ OwnSbrks \subseteq Nat \ {0} /\ MaxHeld \in Nat
    /\ StaleSizes \subseteq Nat

VARIABLES
    free,      \* [at, size] of the nodes, from freep on
    brk,       \* what sbrk(0) returns
    mine,      \* the blocks malloc gave out, with their headers
    own,       \* what the program took from sbrk, or has no pointer to
    stacks     \* the addresses threads were given as stacks

umalloc == <<free, brk, mine, own, stacks>>
Base == [at |-> -1, size |-> 0]
EndOf(b) == b.at + b.size

UmallocInit == free = <<Base>> /\ brk = 0 /\ mine = {} /\ own = {} /\ stacks = {}

\* the list as it is seen from its i-th node
From(list, i) == SubSeq(list, i, Len(list)) \o SubSeq(list, 1, i - 1)

(* The node free stops at: the block lies between it and the next one, or the  *)
(* list turns around there.                                                    *)
StopAt(list, b) ==
    LET after(i) == list[(i % Len(list)) + 1].at
        fits(i) == \/ list[i].at < b.at /\ b.at < after(i)
                   \/ list[i].at >= after(i) /\ (b.at > list[i].at \/ b.at < after(i))
    IN Min({i \in 1 .. Len(list) : fits(i)})

(* Slip: only joined with the next node.                                       *)
ReturnedUpOnly(list, b) ==
    LET l == From(list, StopAt(list, b))
        up == Len(l) > 1 /\ EndOf(b) = l[2].at
    IN <<l[1], IF up THEN [b EXCEPT !.size = @ + l[2].size] ELSE b>>
       \o SubSeq(l, IF up THEN 3 ELSE 2, Len(l))

(* free: joined with the next node, and with the one it stopped at, when they  *)
(* touch.  freep is the latter.                                                *)
Returned(list, b) ==
    LET l == From(list, StopAt(list, b))
        up == Len(l) > 1 /\ EndOf(b) = l[2].at
        joined == IF up THEN [b EXCEPT !.size = @ + l[2].size] ELSE b
        rest == SubSeq(l, IF up THEN 3 ELSE 2, Len(l))
    IN IF EndOf(l[1]) = b.at /\ l[1] # Base
       THEN <<[l[1] EXCEPT !.size = @ + joined.size]>> \o rest
       ELSE <<l[1], joined>> \o rest

(* malloc looks from the node behind freep on, at freep last.                  *)
Order(list) == [i \in 1 .. Len(list) |-> (i % Len(list)) + 1]
Fit(list, n) == SelectInSeq(Order(list), LAMBDA i : list[i].size >= n)
Found(list, n) == Order(list)[Fit(list, n)]

\* the tail of the node is given out; freep is the node before it
Cut(list, n) ==
    LET i == Found(list, n)
        prev == IF i = 1 THEN Len(list) ELSE i - 1
        l == From(list, prev)    \* the node is its second, or the only one
        k == IF Len(list) = 1 THEN 1 ELSE 2
    IN IF l[k].size = n THEN RemoveAt(l, k) ELSE [l EXCEPT ![k].size = @ - n]
Given(list, n) ==
    LET b == list[Found(list, n)] IN [at |-> EndOf(b) - n, size |-> n]

Units(payload) == payload + 1
More(n) == Max({n, MoreUnits})
\* morecore, when the list has no block of n units
Grown(n) == Returned(free, [at |-> brk, size |-> More(n)])
NoFit(n) == Fit(free, n) = 0
CanGrow(n) == brk + More(n) <= MaxUnits

\* what malloc(n) leaves in the list and gives out
Listed(n) == IF NoFit(n) THEN Grown(n) ELSE free
Break(n) == IF NoFit(n) THEN brk + More(n) ELSE brk

Malloc(payload) ==
    LET n == Units(payload) IN
    /\ Cardinality(mine) < MaxHeld
    /\ NoFit(n) => CanGrow(n)
    /\ free' = Cut(Listed(n), n) /\ brk' = Break(n)
    /\ mine' = mine \cup {Given(Listed(n), n)}
    /\ UNCHANGED <<own, stacks>>

FreeBlock ==
    /\ \E b \in mine :
         /\ \A s \in stacks : ~(b.at < s /\ s < EndOf(b))  \* a thread runs on it
         /\ free' = Returned(free, b) /\ mine' = mine \ {b}
    /\ UNCHANGED <<brk, own, stacks>>

OwnSbrk(n) ==
    /\ brk + n <= MaxUnits
    /\ own' = own \cup {[at |-> brk, size |-> n]} /\ brk' = brk + n
    /\ UNCHANGED <<free, mine, stacks>>

(* thread_create: the stack is the first page border in a block of two pages.  *)
(* Bound: no program goes on after malloc returned 0, as thread_create does.   *)
StackUnits == Units(2 * PageUnits)
Aligned(addr) == ((addr + PageUnits - 1) \div PageUnits) * PageUnits
ThreadCreate ==
    /\ Cardinality(mine) < MaxHeld
    /\ NoFit(StackUnits) => CanGrow(StackUnits)
    /\ free' = Cut(Listed(StackUnits), StackUnits) /\ brk' = Break(StackUnits)
    /\ LET b == Given(Listed(StackUnits), StackUnits) IN
       /\ mine' = mine \cup {b}
       /\ stacks' = stacks \cup {Aligned(b.at + 1)}
    /\ UNCHANGED own

(* thread_join: join stores the stack of the thread over the pointer malloc    *)
(* returned, so the one block is lost, and what is freed is the page border:   *)
(* a block where malloc's pointer was one, and else memory that has no header. *)
ThreadJoin ==
    LET n == Units(1)
        list == Cut(Listed(n), n)
    IN /\ NoFit(n) => CanGrow(n)
       /\ \E s \in stacks :
            /\ \/ \E b \in mine :
                    b.at + 1 = s /\ free' = Returned(list, b) /\ mine' = mine \ {b}
               \/ /\ \A b \in mine : b.at + 1 # s
                  /\ \E z \in StaleSizes : free' = Returned(list, [at |-> s - 1, size |-> z])
                  /\ UNCHANGED mine
            /\ stacks' = stacks \ {s}
       /\ own' = own \cup {Given(Listed(n), n)} /\ brk' = Break(n)

\* join has no thread to wait for: the block goes back
JoinNone ==
    LET n == Units(1) IN
    /\ stacks = {} /\ (NoFit(n) => CanGrow(n))
    /\ free' = Returned(Cut(Listed(n), n), Given(Listed(n), n)) /\ brk' = Break(n)
    /\ UNCHANGED <<mine, own, stacks>>

UmallocNext ==
    \/ \E payload \in Payloads : Malloc(payload)
    \/ \E n \in OwnSbrks : OwnSbrk(n)
    \/ FreeBlock \/ ThreadCreate \/ ThreadJoin \/ JoinNone

UmallocSpec == UmallocInit /\ [][UmallocNext]_umalloc
-----------------------------------------------------------------------------
Nodes == {free[i] : i \in 1 .. Len(free)}

(* Below the break every unit is in one block: free, a program's, or sbrk's.   *)
Over(blocks, u) == Cardinality({b \in blocks : b.at <= u /\ u < EndOf(b)})
Accounted ==
    /\ \A u \in 0 .. brk - 1 : Over(Nodes \ {Base}, u) + Over(mine, u) + Over(own, u) = 1
    /\ \A b \in (Nodes \ {Base}) \cup mine \cup own : b.at >= 0 /\ b.size > 0 /\ EndOf(b) <= brk

(* The list goes up in address and turns around once, base is in it, and free  *)
(* blocks do not touch.                                                        *)
Circular ==
    /\ Base \in Nodes /\ Cardinality(Nodes) = Len(free)
    /\ Cardinality({i \in 1 .. Len(free) : free[i].at >= free[(i % Len(free)) + 1].at}) = 1
    /\ \A a, b \in Nodes \ {Base} : EndOf(a) # b.at

(* The page of each thread's stack is in a block that is the thread's alone.   *)
StacksApart ==
    \A s \in stacks : \E b \in mine :
        /\ b.at < s /\ s + PageUnits <= EndOf(b)
        /\ \A r \in stacks \ {s} : r <= b.at \/ r >= EndOf(b)

(* However programs mix malloc, free, sbrk and threads, no memory is given out *)
(* twice or dropped from the list.                                             *)
MallocSound == Accounted /\ Circular /\ StacksApart
=============================================================================

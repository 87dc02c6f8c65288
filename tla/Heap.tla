-------------------------------- MODULE Heap --------------------------------
(* The heap of Project2/2a (mem.c): one region tiled by blocks with a header   *)
(* each.  The size of a header is the payload of a free block, and 0 marks an  *)
(* allocated one, whose payload is known from the next header alone.           *)
EXTENDS Naturals, Sequences, SequencesExt

CONSTANTS
    NodeSize,      \* sizeof(node)
    PageSize,
    RegionSizes,   \* what programs ask mem_init for
    AllocSizes     \* what they ask mem_alloc for

ASSUME HeapAssumption ==
    /\ NodeSize \in Nat \ {0} /\ NodeSize % 8 = 0
    /\ PageSize \in Nat /\ PageSize % 8 = 0 /\ PageSize > NodeSize
    /\ RegionSizes \subseteq Nat \ {0} /\ AllocSizes \subseteq Nat

VARIABLES
    blocks,     \* the list from _head_: the address of each header and its size
    sumSize,
    held,       \* what the program has: the pointers, with the sizes asked for
    refused     \* the size the last mem_alloc refused, 0 if it did not

heap == <<blocks, sumSize, held, refused>>

HeapInit == blocks = <<>> /\ sumSize = 0 /\ held = {} /\ refused = 0

RoundUp(n, k) == ((n + k - 1) \div k) * k
Ptr(i) == blocks[i].at + NodeSize

MemInit(n) ==
    /\ blocks = <<>>
    /\ sumSize' = RoundUp(n, PageSize)
    /\ blocks' = <<[at |-> 0, size |-> RoundUp(n, PageSize) - NodeSize]>>
    /\ UNCHANGED <<held, refused>>

(* The block mem_alloc takes: the first that is large enough, or the first of  *)
(* the smallest or of the largest of these, as the scan of the rest of the     *)
(* list changes its target only for a block strictly smaller, or larger.       *)
Fitting(n) == {i \in DOMAIN blocks : n <= blocks[i].size}
FirstFit(n) == Min(Fitting(n))
BestFit(n) == Min({i \in Fitting(n) : \A j \in Fitting(n) : blocks[i].size <= blocks[j].size})
WorstFit(n) == Min({i \in Fitting(n) : \A j \in Fitting(n) : blocks[i].size >= blocks[j].size})
Target(n, style) ==
    CASE style = "best" -> BestFit(n)
      [] style = "worst" -> WorstFit(n)
      [] OTHER -> FirstFit(n)

(* A block is split when more than a header is left.                           *)
Splits(t, n) == blocks[t].size > n + NodeSize
Taken(t, n) ==
    LET used == [blocks EXCEPT ![t].size = 0]
    IN IF Splits(t, n)
       THEN InsertAt(used, t + 1, [at |-> Ptr(t) + n, size |-> blocks[t].size - (n + NodeSize)])
       ELSE used

MemAlloc(ask, style) ==
    /\ blocks # <<>>
    /\ LET n == RoundUp(ask, 8)
       IN IF Fitting(n) = {} THEN refused' = ask /\ UNCHANGED <<blocks, held>>
          ELSE LET t == Target(n, style)
               IN /\ blocks' = Taken(t, n)
                  /\ held' = held \cup {[ptr |-> Ptr(t), size |-> ask]}
                  /\ refused' = 0
    /\ UNCHANGED sumSize

(* Where block i ends: at the next header, or with the region.                 *)
End(i) == IF i < Len(blocks) THEN blocks[i + 1].at ELSE sumSize
Payload(i) == End(i) - Ptr(i)

(* Slip: only the block in front is joined.                                    *)
FreedFrontOnly(i) ==
    LET free == [blocks EXCEPT ![i].size = Payload(i)]
    IN IF i > 1 /\ blocks[i - 1].size # 0
       THEN RemoveAt([free EXCEPT ![i - 1].size = @ + Payload(i) + NodeSize], i) ELSE free

(* The list when block i is free and joined with the block in front and then   *)
(* with the one behind, if they are free.                                      *)
Freed(i) ==
    LET free == [blocks EXCEPT ![i].size = Payload(i)]
        inFront == i > 1 /\ blocks[i - 1].size # 0
        joined == IF inFront
                  THEN RemoveAt([free EXCEPT ![i - 1].size = @ + Payload(i) + NodeSize], i)
                  ELSE free
        late == IF inFront THEN i - 1 ELSE i
    IN IF late < Len(joined) /\ joined[late + 1].size # 0
       THEN RemoveAt([joined EXCEPT ![late].size = @ + joined[late + 1].size + NodeSize],
                     late + 1)
       ELSE joined

(* mem_free of a pointer the program has; of any other it only returns -1.     *)
MemFree(h) ==
    /\ \E i \in DOMAIN blocks : Ptr(i) = h.ptr /\ blocks[i].size = 0 /\ blocks' = Freed(i)
    /\ held' = held \ {h} /\ refused' = 0
    /\ UNCHANGED sumSize

HeapNext ==
    \/ \E n \in RegionSizes : MemInit(n)
    \/ \E n \in AllocSizes, style \in {"best", "worst", "first"} : MemAlloc(n, style)
    \/ \E h \in held : MemFree(h)

HeapSpec == HeapInit /\ [][HeapNext]_heap
-----------------------------------------------------------------------------
(* Whatever the order of the calls, the blocks tile the region, the size of a  *)
(* free block is what lies up to the next header, no two free blocks are       *)
(* neighbours, and what the program has is exactly the allocated blocks, each  *)
(* as large as was asked: no two calls are given the same memory.              *)
Tiled ==
    blocks # <<>> =>
        /\ blocks[1].at = 0
        /\ \A i \in DOMAIN blocks : Ptr(i) <= End(i)
        /\ \A i \in DOMAIN blocks : blocks[i].size # 0 => blocks[i].size = Payload(i)
Coalesced == \A i \in 1 .. Len(blocks) - 1 : blocks[i].size = 0 \/ blocks[i + 1].size = 0
HeldApart ==
    /\ \A h \in held : \E i \in DOMAIN blocks :
          Ptr(i) = h.ptr /\ blocks[i].size = 0 /\ h.size <= Payload(i)
    /\ \A i \in DOMAIN blocks : blocks[i].size = 0 => \E h \in held : h.ptr = Ptr(i)
    /\ \A g, h \in held : g.ptr = h.ptr => g = h

(* mem_alloc refuses only what no run of free memory could hold.               *)
RefusedRightly ==
    refused # 0 =>
        ~\E i, j \in DOMAIN blocks :
            /\ i <= j /\ \A k \in i .. j : blocks[k].size # 0
            /\ refused <= End(j) - Ptr(i)

HeapSound == Tiled /\ Coalesced /\ HeldApart /\ RefusedRightly
=============================================================================

------------------------------ MODULE VmLayout ------------------------------
(* The user memory of Project3/3b: two pages left unmapped at address 0, the   *)
(* heap from there up to sz, and a stack of sizeOfStack pages that grows down  *)
(* from USERTOP when the process faults below it.  Addresses are unsigned, and *)
(* are taken modulo 2^32, here WIDTH.                                          *)
EXTENDS Integers

CONSTANTS
    PGSIZE, USERTOP, WIDTH,
    LOW,         \* the address user memory starts at: 0x2000
    GAP,         \* the pages that stay between heap and stack: 5
    Sbrks,       \* the arguments programs pass to sbrk
    Images       \* the sizes of programs, that leave the gap

ASSUME LayoutAssumption ==
    /\ PGSIZE \in Nat \ {0} /\ GAP \in Nat \ {0}
    /\ USERTOP \in Nat /\ LOW \in Nat /\ WIDTH \in Nat
    /\ USERTOP % PGSIZE = 0 /\ LOW % PGSIZE = 0
    /\ LOW + (GAP + 1) * PGSIZE <= USERTOP
    /\ USERTOP + GAP * PGSIZE < WIDTH /\ USERTOP + 2 * PGSIZE < WIDTH
    /\ \A n \in Sbrks : n \in Int /\ USERTOP + n < WIDTH     \* n is a signed int
    /\ \A s \in Images : s \in Nat /\ LOW < s /\ s + (GAP + 1) * PGSIZE <= USERTOP

VARIABLES sz, sizeOfStack,
          mapped,       \* the pages of the page table that are present
          fault,        \* the address of a page fault to be served, or NoFault
          running       \* FALSE when the process was killed

layout == <<sz, sizeOfStack, mapped, fault, running>>
NoFault == WIDTH
Wrap(x) == x % WIDTH
PageOf(x) == x \div PGSIZE
Up(x) == (x + PGSIZE - 1) \div PGSIZE

(* userinit: one page of code, whose end is the stack.                         *)
LayoutInit ==
    /\ sz = LOW + PGSIZE /\ sizeOfStack = 0 /\ mapped = {PageOf(LOW)}
    /\ fault = NoFault /\ running = TRUE

StackBottom == USERTOP - PGSIZE * sizeOfStack
InUser == running /\ fault = NoFault

(* growproc.  A size below 0 wraps around: the call fails, or, just below 0,   *)
(* passes the test and deallocuvm does nothing.  When kalloc fails allocuvm    *)
(* gives back what it mapped and the call changes nothing.                     *)
HeapFits(n) == Wrap(sz + n + GAP * PGSIZE) <= StackBottom
Sbrk(n) ==
    /\ InUser /\ HeapFits(n)
    /\ sz + n >= 0 => sz + n > LOW    \* bound: programs keep their first page
    /\ LET newsz == IF sz + n < 0 THEN sz ELSE sz + n
       IN /\ sz' = newsz
          /\ mapped' = IF newsz >= sz THEN mapped \cup (Up(sz) .. Up(newsz) - 1)
                                      ELSE mapped \ (Up(newsz) .. Up(sz) - 1)
    /\ UNCHANGED <<sizeOfStack, fault, running>>

(* exec: a new page table with the image and one page of stack.                *)
ExecImage(s) ==
    /\ InUser
    /\ sz' = s /\ sizeOfStack' = 1
    /\ mapped' = (PageOf(LOW) .. Up(s) - 1) \cup {PageOf(USERTOP - PGSIZE)}
    /\ UNCHANGED <<fault, running>>

(* fork, of which the run follows the child: copyuvm panics when a page below  *)
(* sz or in the stack is not present.                                          *)
Copied == (PageOf(LOW) .. Up(sz) - 1) \cup (PageOf(StackBottom) .. PageOf(USERTOP) - 1)
ForkChild ==
    /\ InUser /\ Copied \subseteq mapped
    /\ mapped' = Copied
    /\ UNCHANGED <<sz, sizeOfStack, fault, running>>

(* The program touches an address that it may not: no page is there, or it is  *)
(* the kernel's.                                                               *)
Touch(x) ==
    /\ InUser /\ PageOf(x) \notin mapped
    /\ fault' = x
    /\ UNCHANGED <<sz, sizeOfStack, mapped, running>>

(* Slip: the page below the stack is not counted in the gap.                   *)
StackFitsExactly == Wrap(StackBottom - sz) >= GAP * PGSIZE

StackFits == Wrap(StackBottom - PGSIZE - sz) >= GAP * PGSIZE
NearStack(x) == x >= Wrap(StackBottom - PGSIZE)

(* Slip: the new page is not counted.                                          *)
GrowstackUncounted ==
    /\ mapped' = mapped \cup {PageOf(StackBottom - PGSIZE)}
    /\ UNCHANGED <<sz, sizeOfStack, running>>

Growstack ==
    /\ sizeOfStack' = sizeOfStack + 1
    /\ mapped' = mapped \cup {PageOf(StackBottom - PGSIZE)}
    /\ UNCHANGED <<sz, running>>

(* trap: an address above the page below the stack grows it by that page, and  *)
(* the instruction is tried again, which faults as before unless the page is   *)
(* the one it needs.  Any other fault kills the process, and so does one that  *)
(* finds the gap used up, ...                                                  *)
KillFaulting == running' = FALSE /\ fault' = NoFault /\ UNCHANGED <<sz, sizeOfStack, mapped>>
PageFault ==
    /\ fault # NoFault
    /\ IF NearStack(fault) /\ StackFits
       THEN Growstack /\ fault' = IF PageOf(fault) \in mapped' THEN NoFault ELSE fault
       ELSE KillFaulting

(* ... or no memory.                                                           *)
StackNoMemory == fault # NoFault /\ NearStack(fault) /\ StackFits /\ KillFaulting

LayoutNext ==
    \/ \E n \in Sbrks : Sbrk(n)
    \/ \E s \in Images : ExecImage(s)
    \/ ForkChild
    \/ \E x \in 0 .. WIDTH - 1 : Touch(x)
    \/ PageFault
    \/ StackNoMemory

(* argptr: what it accepts; fetchint is argptr of a word.  A string is         *)
(* looked through up to the end of the part it starts in.                      *)
Accepts(x, size) ==
    /\ LOW <= x /\ x < USERTOP /\ Wrap(x + size) <= USERTOP
    /\ (x >= sz \/ Wrap(x + size) > sz) => x >= StackBottom
StringEnd(x) == IF x < sz THEN sz ELSE USERTOP
-----------------------------------------------------------------------------
(* The pages that are mapped are the heap's and the stack's, which is what     *)
(* fork's copy needs, the gap between them is kept by both of them, whichever  *)
(* grows, and no system call is let at an address without a page: not in the   *)
(* gap, not at 0, and not across the end of either part.                       *)
LayoutSound ==
    /\ mapped = Copied
    /\ sz + GAP * PGSIZE <= StackBottom
    /\ \A x \in 0 .. WIDTH - 1 : \A size \in 0 .. 2 * PGSIZE :
          /\ Accepts(x, size) => \A y \in x .. x + size - 1 : PageOf(y) \in mapped
          /\ Accepts(x, 1) => \A y \in x .. StringEnd(x) - 1 : PageOf(y) \in mapped

(* Every page fault ends, also that of an address above user memory, which     *)
(* the test of trap takes for the stack's again and again until the gap is     *)
(* used up: with its page, or with the process.                                *)
FaultEnds == fault # NoFault ~> fault = NoFault
=============================================================================

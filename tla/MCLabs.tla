------------------------------- MODULE MCLabs -------------------------------
(* Programs that share nothing with each other, in one run: a behaviour is one *)
(* of them, and the others stay as they start.                                 *)
EXTENDS Heap, Defrag, VmLayout, Umalloc

VARIABLE program

Init ==
    /\ program \in {"heap", "defrag", "layout", "umalloc"}
    /\ HeapInit /\ LayoutInit /\ UmallocInit
    /\ IF program = "defrag" THEN DefragInit
       ELSE DefragImage(1, [f \in Inode |-> 0], [f \in Inode |-> 0])

Heaps == program = "heap" /\ HeapNext /\ UNCHANGED <<program, defrag, layout, umalloc>>
Defrags == program = "defrag" /\ DefragNext /\ UNCHANGED <<program, heap, layout, umalloc>>
Faults == program = "layout" /\ PageFault /\ UNCHANGED <<program, heap, defrag, umalloc>>
Layouts == program = "layout" /\ LayoutNext /\ UNCHANGED <<program, heap, defrag, umalloc>>
Mallocs == program = "umalloc" /\ UmallocNext /\ UNCHANGED <<program, heap, defrag, layout>>

Next == Heaps \/ Defrags \/ Layouts \/ Mallocs

(* A fault is an exception: the processor serves it before the program runs on. *)
Spec == Init /\ [][Next]_<<program, heap, defrag, layout, umalloc>> /\ WF_layout(Faults)

MCSbrks == {-20, -12, -3, 1, 2, 5}
=============================================================================

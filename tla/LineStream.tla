----------------------------- MODULE LineStream -----------------------------
(* What the console promises its readers: what is typed can be taken back      *)
(* until the line ends, by a newline, an end of file or a full buffer; then it *)
(* is read in order, once, at most to the end of the line in one call, and an  *)
(* end of file is a call that gets nothing.                                    *)
EXTENDS Naturals, Sequences, SequencesExt

CONSTANTS Proc, Plain, Cap

VARIABLES stream, edit, given

vars == <<stream, edit, given>>

Ends == {"newline", "eof"}

Init == stream = <<>> /\ edit = <<>> /\ given = [p \in Proc |-> <<>>]

Room == Len(stream) + Len(edit) < Cap
Type(c) ==
    /\ Room
    /\ edit' = Append(edit, c)
    /\ UNCHANGED <<stream, given>>
Commit(c) ==
    /\ Room /\ (c \in Ends \/ Len(stream) + Len(edit) + 1 = Cap)
    /\ stream' = Append(stream \o edit, c)
    /\ edit' = <<>>
    /\ UNCHANGED given
Erase ==
    /\ edit # <<>>
    /\ edit' \in {Front(edit), <<>>}
    /\ UNCHANGED <<stream, given>>

Ask(p) == given' = [given EXCEPT ![p] = <<>>] /\ UNCHANGED <<stream, edit>>
Take(p) ==
    /\ stream # <<>> /\ Head(stream) # "eof" /\ "newline" \notin ToSet(given[p])
    /\ given' = [given EXCEPT ![p] = Append(@, Head(stream))]
    /\ stream' = Tail(stream)
    /\ UNCHANGED edit
SeeEnd(p) ==
    /\ stream # <<>> /\ Head(stream) = "eof" /\ given[p] = <<>>
    /\ stream' = Tail(stream)
    /\ UNCHANGED <<edit, given>>

Next ==
    \/ Erase
    \/ \E c \in Plain : Type(c)
    \/ \E c \in Plain \cup Ends : Commit(c)
    \/ \E p \in Proc : Ask(p) \/ Take(p) \/ SeeEnd(p)
Spec == Init /\ [][Next]_vars
=============================================================================

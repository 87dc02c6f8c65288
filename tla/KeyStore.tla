------------------------------ MODULE KeyStore ------------------------------
(* What the counter, the list and the hash table of Project3/3a promise the    *)
(* threads that share them: a call takes effect once, at one moment between    *)
(* its start and its return, and a lookup or a read sees that moment.          *)
EXTENDS Integers, SequencesExt

CONSTANTS Threads, Keys, Slots, Ops

VARIABLES
    todo,      \* the request a thread has made and that has not taken effect
    content,   \* the keys of every list, the newest first
    total,     \* the counter
    answer     \* what a thread's last lookup or read gave

vars == <<todo, content, total, answer>>

NoRequest == <<"none", 0>>

Init ==
    /\ todo = [t \in Threads |-> NoRequest]
    /\ content = [b \in Slots |-> <<>>]
    /\ total = 0
    /\ answer = [t \in Threads |-> 0]

Ask(t) ==
    /\ todo[t] = NoRequest
    /\ \E o \in Ops, k \in Keys : todo' = [todo EXCEPT ![t] = <<o, k>>]
    /\ UNCHANGED <<content, total, answer>>

Holds(b, k) == k \in ToSet(content[b])

(* A request takes effect on the list b, or on the counter.                    *)
Serve(t, b) ==
    /\ todo[t] # NoRequest
    /\ todo' = [todo EXCEPT ![t] = NoRequest]
    /\ LET k == todo[t][2] IN
       \/ /\ todo[t][1] = "insert"
          /\ content' = [content EXCEPT ![b] = <<k>> \o @]
          /\ UNCHANGED <<total, answer>>
       \/ /\ todo[t][1] = "delete"
          /\ content' = [content EXCEPT ![b] = IF Holds(b, k) THEN RemoveFirst(@, k) ELSE @]
          /\ UNCHANGED <<total, answer>>
       \/ /\ todo[t][1] = "lookup"
          /\ answer' = [answer EXCEPT ![t] = IF Holds(b, k) THEN 1 ELSE 0]
          /\ UNCHANGED <<total, content>>
       \/ /\ todo[t][1] = "get"
          /\ answer' = [answer EXCEPT ![t] = total]
          /\ UNCHANGED <<total, content>>
       \/ /\ todo[t][1] \in {"increment", "decrement"}
          /\ total' = IF todo[t][1] = "increment" THEN total + 1 ELSE total - 1
          /\ UNCHANGED <<answer, content>>

(* The lists are emptied when no request is open.                              *)
Clear ==
    /\ \A t \in Threads : todo[t] = NoRequest
    /\ content' = [b \in Slots |-> <<>>]
    /\ UNCHANGED <<todo, total, answer>>

Next ==
    \/ \E t \in Threads : Ask(t) \/ \E b \in Slots : Serve(t, b)
    \/ Clear

Spec == Init /\ [][Next]_vars
=============================================================================

--------------------------- MODULE MCAddressSpace ---------------------------
(* The memory of processes and their open files, in one run: a behaviour is of *)
(* one of them, and the other stays as it starts.                              *)
EXTENDS AddressSpace, OpenFiles

VARIABLE part

CONSTANT Parts

MCInit ==
    /\ part \in Parts /\ Init /\ FilesInit
    /\ part # "files" => calls = CHOOSE c \in Programs : TRUE
MCNext ==
    \/ part = "memory" /\ Next /\ UNCHANGED <<part, files>>
    \/ part = "files" /\ FilesNext /\ UNCHANGED <<part, vars>>
MCSpec == MCInit /\ [][MCNext]_<<part, vars, files>>

(* With pages of two bytes: a call takes two pages or one, or gives back two,   *)
(* a size below 4 wraps around, and from 4 a program could give back all.      *)
MCDeltas == {-4, 0, 3}

MCModes == {{"r", "w"}}
MCPrograms == {{"open", "pipe", "close"}, {"open", "read", "write"}, {"open", "chdir", "dup", "close"}}
=============================================================================

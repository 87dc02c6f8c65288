------------------------------ MODULE MCLocks ------------------------------
EXTENDS LockedStore

(* Memory that holds zero, or an address, where the list's head is.            *)
MCHeads == {NULL, Wild}
=============================================================================

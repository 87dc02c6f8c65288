------------------------------- MODULE MCMlfq -------------------------------
(* Mlfq for TLC: two levels, slices of one and two ticks. *)
EXTENDS Mlfq, TLC

MCTicks == (0 :> 1) @@ (1 :> 2)
=============================================================================

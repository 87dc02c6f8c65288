----------------------------- MODULE MCProcTable -----------------------------
(* Instances of ProcTable for TLC. *)
EXTENDS ProcTable, TLC
PgDirSymmetry == Permutations(PgDir)
=============================================================================

----------------------------- MODULE MCFileSystem -----------------------------
EXTENDS FileSystem, TLC

ProcBlockSymmetry == Permutations(Proc) \cup Permutations(Block)
===============================================================================

------------------------------- MODULE MCVarMap -------------------------------
(* Small instances of VarMap. *)
EXTENDS VarMap, TLC

CONSTANTS main, other

ThreadsAlike == Permutations(Threads)
=============================================================================

------------------------- MODULE MCIsolatedExecution -------------------------
(* TLC instance of IsolatedExecution: the sizes are in the cfg files. *)
EXTENDS IsolatedExecution, TLC

RunSymmetry == Permutations(Runs)
=============================================================================

------------------------- MODULE MCRuntimeExecution -------------------------
(* TLC instance of RuntimeExecution: the sizes are in the cfg files. *)
EXTENDS RuntimeExecution
=============================================================================

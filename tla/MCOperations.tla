---------------------------- MODULE MCOperations ----------------------------
(* TLC instance of Operations: the sizes are in the cfg files. *)
EXTENDS Operations
=============================================================================

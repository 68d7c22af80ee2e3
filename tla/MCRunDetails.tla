---------------------------- MODULE MCRunDetails ----------------------------
(* TLC instance of RunDetails: the sizes are in the cfg files. *)
EXTENDS RunDetails
=============================================================================

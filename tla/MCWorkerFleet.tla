---------------------------- MODULE MCWorkerFleet ----------------------------
(* TLC instance of WorkerFleet: the sizes are in the cfg files. *)
EXTENDS WorkerFleet, TLC

Symmetry == Permutations(Workers)
==============================================================================

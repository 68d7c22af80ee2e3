--------------------------- MODULE MCStoreClients ---------------------------
(* TLC instance of StoreClients: the sizes are in the cfg files. *)
EXTENDS StoreClients, TLC

Symmetry == Permutations(Workers)
=============================================================================

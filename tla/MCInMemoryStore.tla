--------------------------- MODULE MCInMemoryStore ---------------------------
(* TLC instance of InMemoryStore: the sizes are in the cfg file. *)
EXTENDS InMemoryStore
=============================================================================

----------------------------- MODULE MCDashboard -----------------------------
(* TLC instance of Dashboard: the sizes are in the cfg files. *)
EXTENDS Dashboard
=============================================================================

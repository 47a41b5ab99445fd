------------------------------ MODULE MCServer ------------------------------
(* TLC instance of Server.                                                 *)
EXTENDS Server, TLC

\* ClientIds are only compared for equality.
Symmetry == Permutations(Clients)
=============================================================================

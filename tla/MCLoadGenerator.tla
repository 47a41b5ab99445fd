-------------------------- MODULE MCLoadGenerator --------------------------
(* TLC instance of LoadGenerator.                                          *)
EXTENDS LoadGenerator
=============================================================================

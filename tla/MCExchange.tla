----------------------------- MODULE MCExchange -----------------------------
(* TLC instance of Exchange.                                               *)
EXTENDS Exchange
=============================================================================

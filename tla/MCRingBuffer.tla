---------------------------- MODULE MCRingBuffer ----------------------------
(* TLC instance of RingBuffer.                                             *)
EXTENDS RingBuffer
=============================================================================

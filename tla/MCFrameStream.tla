--------------------------- MODULE MCFrameStream ---------------------------
(* TLC instance of FrameStream.                                            *)
EXTENDS FrameStream
=============================================================================

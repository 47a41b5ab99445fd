------------------------- MODULE MCPriceLevelQueue -------------------------
(* TLC instance of PriceLevelQueue.                                        *)
EXTENDS PriceLevelQueue, TLC

\* OrderIds and levels are only compared for equality.
Symmetry == Permutations(Ids) \cup Permutations(Levels)
=============================================================================

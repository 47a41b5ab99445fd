---------------------------- MODULE MCOrderBook ----------------------------
(* TLC instance of OrderBook, and the properties that need sums.           *)
EXTENDS OrderBook, FiniteSetsExt, TLC

\* OrderIds and ClientIds are only compared for equality.
Symmetry == Permutations(Ids) \cup Permutations(Clients)

\* What side s still offers.
Volume(b, s) ==
    MapThenSumSet(LAMBDA i : b.orders[i].remaining,
                  {i \in LiveIds(b) : b.orders[i].side = s})

\* Each step of a matching loop takes the same quantity from both parties: the
\* two resting orders, or the resting order and what the market order has left.
FillsBalance ==
    [][LET taken == [s \in Sides |-> Volume(book, s) - Volume(book', s)] IN
        /\ pc = "limit"  => taken["BID"] = taken["ASK"]
        /\ pc = "market" => /\ taken[Opposite[req.side]] = left - left'
                            /\ taken[req.side] = 0
      ]_bookVars
=============================================================================

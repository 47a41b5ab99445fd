---------------------------- MODULE LevelQueues ----------------------------
(***************************************************************************)
(* What the book relies on when it keeps its resting orders in             *)
(* PriceLevelQueues backed by an OrderPool, and what module OrderBook has  *)
(* instead of them: one FIFO of order ids per price level, and a number of *)
(* free slots that only a successful add takes and every removal returns.  *)
(***************************************************************************)
EXTENDS Naturals, Sequences

CONSTANTS Ids, Levels, Capacity

VARIABLES
    queue,      \* the ids resting at each level, oldest first
    free        \* slots left in the pool

Init ==
    /\ queue = [l \in Levels |-> << >>]
    /\ free = Capacity

Rests(i) == \E l \in Levels : \E k \in 1 .. Len(queue[l]) : queue[l][k] = i

Add(i, l) ==
    /\ ~Rests(i)
    /\ free > 0
    /\ queue' = [queue EXCEPT ![l] = Append(@, i)]
    /\ free' = free - 1

\* The order at position k leaves level l; the others keep their order.
Leave(l, k) ==
    /\ queue' = [queue EXCEPT ![l] = SubSeq(@, 1, k - 1) \o SubSeq(@, k + 1, Len(@))]
    /\ free' = free + 1

Next ==
    \E l \in Levels :
        \/ \E i \in Ids : Add(i, l)
        \/ \E k \in 1 .. Len(queue[l]) : Leave(l, k)

Spec == Init /\ [][Next]_<<queue, free>>
=============================================================================

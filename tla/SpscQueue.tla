----------------------------- MODULE SpscQueue -----------------------------
(***************************************************************************)
(* What the threads of the exchange rely on when they talk through a       *)
(* RingBuffer: a bounded FIFO.  A push appends, a pop takes the oldest     *)
(* item; a push that finds no room, or a pop that finds nothing, changes   *)
(* nothing.                                                                *)
(***************************************************************************)
EXTENDS Naturals, Sequences

CONSTANTS Values, Capacity

VARIABLES
    queue,      \* items pushed and not yet popped, oldest first
    got         \* the last item a pop handed out, << >> before the first

Init == queue = << >> /\ got = << >>

Enqueue(v) ==
    /\ Len(queue) < Capacity
    /\ queue' = Append(queue, v)
    /\ UNCHANGED got

Dequeue ==
    /\ queue # << >>
    /\ got' = <<Head(queue)>>
    /\ queue' = Tail(queue)

Next == (\E v \in Values : Enqueue(v)) \/ Dequeue

Spec == Init /\ [][Next]_<<queue, got>>
=============================================================================

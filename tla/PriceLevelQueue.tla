-------------------------- MODULE PriceLevelQueue --------------------------
(***************************************************************************)
(* The memory behind the book: the intrusive doubly linked list of         *)
(* price_level_queue.hpp over the slots of the OrderPool (order_pool.hpp), *)
(* and the OrderId -> Order* map, in the order in which orderbook.cpp uses *)
(* the three.  A removed order keeps its links in its freed slot; what     *)
(* reuses the slot must not see them.                                      *)
(*                                                                         *)
(* Module OrderBook abstracts all of this to sequences of ids and a count  *)
(* of free slots; RefinesLevels is the licence for that.                   *)
(***************************************************************************)
EXTENDS Naturals, Sequences

CONSTANTS
    Ids,        \* OrderIds
    Levels,     \* the bids_ and asks_ entries, one per side and price
    Capacity,   \* slots of the arena
    Blank       \* what a slot holds before its first order

Null  == 0
Slots == 1 .. Capacity
Ptr   == Slots \cup {Null}

\* The fields of class Order that survive in a freed slot.
Contents == [id : Ids, level : Levels]

ASSUME CapacityAssumption == Capacity \in Nat \ {0}
ASSUME ContentsAssumption == Blank \notin Contents

VARIABLES
    order,      \* arena_: the id and the price level of the Order in each slot
    prev, next, \* its links
    head, tail, size,   \* the members of each PriceLevelQueue
    free_list,  \* OrderPool's stack, top last
    orders      \* orders_: OrderId -> Order*

listVars  == <<prev, next, head, tail, size>>
queueVars == <<order, listVars, free_list, orders>>

\* The constructor pushes the slots in reverse: the lowest is on top.
Init ==
    /\ order = [s \in Slots |-> Blank]
    /\ prev = [s \in Slots |-> Null] /\ next = [s \in Slots |-> Null]
    /\ head = [l \in Levels |-> Null] /\ tail = [l \in Levels |-> Null]
    /\ size = [l \in Levels |-> 0]
    /\ free_list = [k \in 1 .. Capacity |-> Capacity + 1 - k]
    /\ orders = [i \in Ids |-> Null]

-----------------------------------------------------------------------------
(* OrderPool                                                               *)

Top == free_list[Len(free_list)]

allocate(i, l) ==
    /\ free_list' = SubSeq(free_list, 1, Len(free_list) - 1)
    /\ order' = [order EXCEPT ![Top] = [id |-> i, level |-> l]]

\* Mutant: the slot goes back twice.
deallocateTwice(s) == free_list' = free_list \o <<s, s>>

deallocate(s) == free_list' = Append(free_list, s)

-----------------------------------------------------------------------------
(* PriceLevelQueue                                                         *)

\* Mutant: the links of the slot's last order survive in it.
pushKeepsLinks(l, s) ==
    /\ head' = IF head[l] = Null THEN [head EXCEPT ![l] = s] ELSE head
    /\ next' = IF tail[l] = Null THEN next ELSE [next EXCEPT ![tail[l]] = s]
    /\ prev' = IF tail[l] = Null THEN prev ELSE [prev EXCEPT ![s] = tail[l]]
    /\ tail' = [tail EXCEPT ![l] = s]
    /\ size' = [size EXCEPT ![l] = @ + 1]

\* Mutant: the order is linked in at the front.
pushFront(l, s) ==
    /\ head' = [head EXCEPT ![l] = s]
    /\ next' = [next EXCEPT ![s] = head[l]]
    /\ prev' = IF head[l] = Null THEN [prev EXCEPT ![s] = Null]
                                 ELSE [prev EXCEPT ![head[l]] = s, ![s] = Null]
    /\ tail' = IF tail[l] = Null THEN [tail EXCEPT ![l] = s] ELSE tail
    /\ size' = [size EXCEPT ![l] = @ + 1]

\* push, of an order whose links allocate() has just set to nullptr.
push(l, s) ==
    /\ head' = IF head[l] = Null THEN [head EXCEPT ![l] = s] ELSE head
    /\ next' = IF tail[l] = Null THEN [next EXCEPT ![s] = Null]
                                 ELSE [next EXCEPT ![tail[l]] = s, ![s] = Null]
    /\ prev' = [prev EXCEPT ![s] = tail[l]]
    /\ tail' = [tail EXCEPT ![l] = s]
    /\ size' = [size EXCEPT ![l] = @ + 1]

front(l) == head[l]

\* pop, of a queue that is not empty.
pop(l) ==
    LET new == next[head[l]] IN
    /\ head' = [head EXCEPT ![l] = new]
    /\ prev' = IF new = Null THEN prev ELSE [prev EXCEPT ![new] = Null]
    /\ tail' = IF new = Null THEN [tail EXCEPT ![l] = Null] ELSE tail
    /\ size' = [size EXCEPT ![l] = @ - 1]
    /\ UNCHANGED next

remove(l, s) ==
    /\ next' = IF prev[s] = Null THEN next ELSE [next EXCEPT ![prev[s]] = next[s]]
    /\ head' = IF prev[s] = Null THEN [head EXCEPT ![l] = next[s]] ELSE head
    /\ prev' = IF next[s] = Null THEN prev ELSE [prev EXCEPT ![next[s]] = prev[s]]
    /\ tail' = IF next[s] = Null THEN [tail EXCEPT ![l] = prev[s]] ELSE tail
    /\ size' = [size EXCEPT ![l] = @ - 1]

-----------------------------------------------------------------------------
(* Orderbook                                                               *)

\* addOrder of a limit order; nothing happens when the pool is exhausted.
addOrder(i, l) ==
    /\ orders[i] = Null
    /\ \/ free_list = << >> /\ UNCHANGED queueVars
       \/ /\ free_list # << >>
          /\ allocate(i, l)
          /\ orders' = [orders EXCEPT ![i] = Top]
          /\ push(l, Top)

\* cancelOrder, also as the first half of modifyOrder.
cancelOrder(i) ==
    LET s == orders[i] IN
    /\ s # Null
    /\ remove(order[s].level, s)
    /\ orders' = [orders EXCEPT ![i] = Null]
    /\ deallocate(s)
    /\ UNCHANGED order

\* Mutant: the map keeps the pointer.
fillFrontKeepsPtr(l) ==
    /\ head[l] # Null
    /\ pop(l)
    /\ deallocate(front(l))
    /\ UNCHANGED <<order, orders>>

\* A matching loop is done with the front order of a level.
fillFront(l) ==
    LET s == front(l) IN
    /\ s # Null
    /\ pop(l)
    /\ orders' = [orders EXCEPT ![order[s].id] = Null]
    /\ deallocate(s)
    /\ UNCHANGED order

Next ==
    \/ \E i \in Ids, l \in Levels : addOrder(i, l)
    \/ \E i \in Ids : cancelOrder(i)
    \/ \E l \in Levels : fillFront(l)

Spec == Init /\ [][Next]_queueVars

-----------------------------------------------------------------------------
(* Properties                                                              *)

\* Every pointer is null or points into the arena, no size underflows, and the
\* free list never grows past the capacity reserved for it (order_pool.hpp:28).
QueueTypeOK ==
    /\ order \in [Slots -> Contents \cup {Blank}]
    /\ {prev, next} \subseteq [Slots -> Ptr]
    /\ {head, tail} \subseteq [Levels -> Ptr]
    /\ size \in [Levels -> 0 .. Capacity]
    /\ free_list \in Seq(Slots) /\ Len(free_list) <= Capacity
    /\ orders \in [Ids -> Ptr]

Lists == UNION {[1 .. n -> Slots] : n \in 0 .. Capacity}

\* The list of level l is q, read in either direction.
Spells(l, q) ==
    LET n == Len(q) IN
    /\ size[l] = n
    /\ head[l] = IF n = 0 THEN Null ELSE q[1]
    /\ tail[l] = IF n = 0 THEN Null ELSE q[n]
    /\ \A k \in 1 .. n :
        /\ prev[q[k]] = IF k = 1 THEN Null ELSE q[k - 1]
        /\ next[q[k]] = IF k = n THEN Null ELSE q[k + 1]

Listed(l) == CHOOSE q \in Lists : Spells(l, q)

\* Each level's head, tail, size and links describe one list, forwards and
\* backwards, and it holds exactly the orders the map has at that level, each
\* once.  A stale link in a reused slot, or an end that is not moved, would join
\* two levels or lose what is behind it.
LinksWellFormed ==
    \A l \in Levels : \E q \in Lists :
        /\ Spells(l, q)
        /\ \A j, k \in 1 .. Len(q) : q[j] = q[k] => j = k
        /\ \A s \in Slots :
            (\E k \in 1 .. Len(q) : q[k] = s)
            <=> (\E i \in Ids : orders[i] = s /\ order[s] = [id |-> i, level |-> l])

\* Every slot is either on the free list, once, or held by one id of the map:
\* no sequence of adds, cancels, modifies and fills leaks a slot, hands one out
\* twice, or leaves the map with a pointer to a freed Order.
SlotsPartitioned ==
    /\ \A j, k \in 1 .. Len(free_list) : free_list[j] = free_list[k] => j = k
    /\ \A i, j \in Ids : orders[i] = orders[j] /\ orders[i] # Null => i = j
    /\ \A s \in Slots :
        (\E k \in 1 .. Len(free_list) : free_list[k] = s) <=> (\A i \in Ids : orders[i] # s)

\* The ids of each level, front first.
QueuedIds == [l \in Levels |-> [k \in 1 .. size[l] |-> order[Listed(l)[k]].id]]

Abstract == INSTANCE LevelQueues WITH queue <- QueuedIds, free <- Len(free_list)

\* The linked lists and the pool implement the queues of ids and the counter of
\* free slots that module OrderBook is written with: an add goes to the back, a
\* fill takes the front, a cancel takes its own order and nothing else moves.
RefinesLevels == Abstract!Spec
=============================================================================

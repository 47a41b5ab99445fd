------------------------------ MODULE OrderBook ------------------------------
(***************************************************************************)
(* The autonomous price-time-priority book of exchange/engine              *)
(* (orderbook.hpp, orderbook.cpp): the OrderPool, the per-price queues,    *)
(* the OrderId -> Order* map, the cached best prices and level counters,   *)
(* and Orderbook::process() with everything it calls.                      *)
(*                                                                         *)
(* The book runs on one thread.  process() is cut into one step for the    *)
(* dispatch and the add/cancel/modify it performs, and one step for every  *)
(* iteration of the two matching loops, because each iteration pushes two  *)
(* messages on a ring that another thread drains at the same time.         *)
(*                                                                         *)
(* A price level is the sequence of the order ids queued in it, which      *)
(* stands for the intrusive list; the pool is the number of its free       *)
(* slots.  The code writes every operation twice, once per side; here the  *)
(* side is a parameter.                                                    *)
(***************************************************************************)
EXTENDS Integers, Sequences, FiniteSets

CONSTANTS
    Ids,        \* OrderIds a request may carry
    Clients,    \* ClientIds
    MaxPrice,   \* MAX_PRICE, the last tick of the ladder
    TopPrice,   \* the largest value of a Price; nothing compares one with MAX_PRICE
    Quantities, \* quantities a request may carry
    PoolSize,   \* PREALLOCATION_COUNT, capacity of the OrderPool
    None        \* "no such order" in the map

MinPrice == 1
Prices   == MinPrice .. MaxPrice
AskedPrices == MinPrice .. TopPrice
Sides    == {"BID", "ASK"}
Opposite == [s \in Sides |-> IF s = "BID" THEN "ASK" ELSE "BID"]

\* The fields of class Order the book reads (timestamps are left out).
Order == [client : Clients, side : Sides, price : Prices,
          initial : Quantities, remaining : Nat]

ASSUME LadderAssumption == MaxPrice \in Nat /\ MinPrice <= MaxPrice
ASSUME TopAssumption    == TopPrice \in Nat /\ MaxPrice <= TopPrice
ASSUME QtyAssumption    == Quantities \subseteq Nat
ASSUME PoolAssumption   == PoolSize \in Nat
ASSUME IdsAssumption    == IsFiniteSet(Ids)
ASSUME NoneAssumption   == None \notin Order

\* class OrderRequest.  A limit price is not 0, and need not be on the ladder; the
\* price of a market order is not looked at on NEW, and compared with the order's
\* on MODIFY; a CANCEL is read for its ids only.
LimitRequests ==
    [mtype : {"NEW", "MODIFY"}, id : Ids, client : Clients, side : Sides,
     otype : {"LIMIT"}, price : AskedPrices, quantity : Quantities]
MarketRequests ==
    [mtype : {"NEW"}, id : Ids, client : Clients, side : Sides,
     otype : {"MARKET"}, price : {0}, quantity : Quantities]
    \cup
    [mtype : {"MODIFY"}, id : Ids, client : Clients, side : Sides,
     otype : {"MARKET"}, price : AskedPrices \cup {0}, quantity : Quantities]
CancelRequests ==
    [mtype : {"CANCEL"}, id : Ids, client : Clients, side : {"BID"},
     otype : {"LIMIT"}, price : {0}, quantity : {0}]
Requests == LimitRequests \cup MarketRequests \cup CancelRequests

-----------------------------------------------------------------------------
(* The members of class Orderbook, as one value.                           *)

Books == [orders   : [Ids -> Order \cup {None}],
          levels   : [Sides -> [Prices -> Seq(Ids)]],
          best     : [Sides -> Prices],
          nonEmpty : [Sides -> Nat],
          free     : 0 .. PoolSize]

\* The value best_*_price_ has while its side is empty.
Sentinel(s) == IF s = "BID" THEN MinPrice ELSE MaxPrice

EmptyBook ==
    [orders   |-> [i \in Ids |-> None],
     levels   |-> [s \in Sides |-> [p \in Prices |-> << >>]],
     best     |-> [s \in Sides |-> Sentinel(s)],
     nonEmpty |-> [s \in Sides |-> 0],
     free     |-> PoolSize]

Better(s, p, q) == IF s = "BID" THEN p > q ELSE p < q

LiveIds(b) == {i \in Ids : b.orders[i] # None}

\* Mutant: the newest order of the best level.
FrontIsBack(b, s) == b.levels[s][b.best[s]][Len(b.levels[s][b.best[s]])]

\* The front order of the best level of side s.
Front(b, s) == Head(b.levels[s][b.best[s]])

\* update_best_bid / update_best_ask: walk from the cached best price towards
\* the sentinel of the *other* side of the ladder until a level is occupied.
UpdateBest(b, s) ==
    CHOOSE p \in Prices :
        /\ ~Better(s, p, b.best[s])
        /\ b.levels[s][p] # << >> \/ p = Sentinel(s)
        /\ \A q \in Prices :
              Better(s, q, p) /\ ~Better(s, q, b.best[s]) => b.levels[s][q] = << >>

\* Mutant: the cached best price survives the level it named.
BestAfterStale(b, s, p) == IF b.nonEmpty[s] = 1 THEN Sentinel(s) ELSE b.best[s]

\* What every removal does once level p of side s has become empty.
BestAfter(b, s, p) ==
    IF b.nonEmpty[s] = 1 THEN Sentinel(s)
    ELSE IF p = b.best[s] THEN UpdateBest(b, s) ELSE b.best[s]

LevelEmptied(b, s, p) ==
    [b EXCEPT !.nonEmpty[s] = @ - 1, !.best[s] = BestAfter(b, s, p)]

\* PriceLevelQueue::remove: unlink id wherever it is in the queue.
Without(q, id) ==
    LET k == CHOOSE i \in 1 .. Len(q) : q[i] = id
    IN  [i \in 1 .. Len(q) - 1 |-> IF i < k THEN q[i] ELSE q[i + 1]]

\* Mutant: the map keeps the order.
UnlinkKeepsMap(b, id, q) ==
    LET o  == b.orders[id]
        b1 == [b EXCEPT !.levels[o.side][o.price] = q, !.free = @ + 1]
    IN  IF q = << >> THEN LevelEmptied(b1, o.side, o.price) ELSE b1

\* Mutant: the slot is not returned to the pool.
UnlinkLeaks(b, id, q) ==
    LET o  == b.orders[id]
        b1 == [b EXCEPT !.levels[o.side][o.price] = q, !.orders[id] = None]
    IN  IF q = << >> THEN LevelEmptied(b1, o.side, o.price) ELSE b1

\* The order leaves the book: queue, level bookkeeping, map, pool.
Unlink(b, id, q) ==
    LET o  == b.orders[id]
        b1 == [b EXCEPT !.levels[o.side][o.price] = q,
                        !.orders[id] = None,
                        !.free = @ + 1]
    IN  IF q = << >> THEN LevelEmptied(b1, o.side, o.price) ELSE b1

cancelOrder(b, id) ==
    Unlink(b, id, Without(b.levels[b.orders[id].side][b.orders[id].price], id))

\* The Order that a request makes in its pool slot.
OrderOf(r) == [client |-> r.client, side |-> r.side, price |-> r.price,
               initial |-> r.quantity, remaining |-> r.quantity]

\* Mutant: the new order is linked at the head of its queue.
InsertAtFront(b, r) ==
    [b EXCEPT
        !.orders[r.id] = OrderOf(r),
        !.free = @ - 1,
        !.nonEmpty[r.side] = IF b.levels[r.side][r.price] = << >> THEN @ + 1 ELSE @,
        !.levels[r.side][r.price] = <<r.id>> \o @,
        !.best[r.side] = IF Better(r.side, r.price, @) THEN r.price ELSE @]

\* addOrder up to the matching, for a limit order that gets a pool slot.
Insert(b, r) ==
    [b EXCEPT
        !.orders[r.id] = OrderOf(r),
        !.free = @ - 1,
        !.nonEmpty[r.side] = IF b.levels[r.side][r.price] = << >> THEN @ + 1 ELSE @,
        !.levels[r.side][r.price] = Append(@, r.id),
        !.best[r.side] = IF Better(r.side, r.price, @) THEN r.price ELSE @]

\* Order::fill.  (It throws when n exceeds what is left; n never does.)
Reduce(b, id, n) == [b EXCEPT !.orders[id].remaining = @ - n]

\* Mutant: a partly filled order leaves the book too.
FillRemovesPartial(b, id, n) ==
    LET o == b.orders[id]
    IN  Unlink(Reduce(b, id, n), id, Tail(b.levels[o.side][o.price]))

\* One party of a trade: fill, then the removal of an order that has nothing
\* left, which is always the front of the best level of its side.
Fill(b, id, n) ==
    LET c == Reduce(b, id, n)
        o == c.orders[id]
    IN  IF o.remaining = 0 THEN Unlink(c, id, Tail(c.levels[o.side][o.price])) ELSE c

-----------------------------------------------------------------------------
VARIABLES
    book,       \* the members of Orderbook
    pc,         \* "idle", "limit" (matchOrders), "market" (matchMarket), "done",
                \* "undefined" after an access past the ladder
    req,        \* the OrderRequest being processed, None between requests
    left,       \* matchMarket's `remaining`
    filled,     \* matchOrders' `any_filled`
    result,     \* the ProcessResult
    out         \* MATCH messages pushed on out_ring_ for this request

bookVars == <<book, pc, req, left, filled, result, out>>

NoResult == [status |-> "NONE", suppress |-> FALSE]
Results  == [status : {"NONE", "SUCCESS", "FAILURE"}, suppress : BOOLEAN]
Matches  == [id : Ids, client : Clients]

BookInit ==
    /\ book = EmptyBook
    /\ pc = "idle"
    /\ req = None
    /\ left = 0
    /\ filled = FALSE
    /\ result = NoResult
    /\ out = << >>

\* process() ends here.
Return(status, suppress) ==
    /\ pc' = "done"
    /\ result' = [status |-> status, suppress |-> suppress]

\* A request reaches process().
Accept(r) ==
    /\ pc = "idle"
    /\ req' = r
    /\ out' = out

\* The matching function that is entered next, with its loop local.
EnterLimit     == pc' = "limit" /\ UNCHANGED <<left, filled, result>>
EnterMarket(r) == pc' = "market" /\ left' = r.quantity /\ UNCHANGED <<filled, result>>

\* addOrder(r) on book b, which is the current book or the one a modify has
\* just cancelled the old order in.  A limit price past MAX_PRICE that gets a slot
\* indexes bids_ or asks_ out of bounds; nothing can be said of the book from there.
addOrder(b, r) ==
    \/ /\ r.otype = "MARKET"
       /\ book' = b
       /\ EnterMarket(r)
    \/ /\ r.otype = "LIMIT"
       /\ b.orders[r.id] # None \/ b.free = 0
       /\ book' = b
       /\ Return("SUCCESS", FALSE)
       /\ UNCHANGED <<left, filled>>
    \/ /\ r.otype = "LIMIT"
       /\ b.orders[r.id] = None
       /\ b.free > 0
       /\ r.price \in Prices
       /\ book' = Insert(b, r)
       /\ EnterLimit
    \/ /\ r.otype = "LIMIT"
       /\ b.orders[r.id] = None
       /\ b.free > 0
       /\ r.price \notin Prices
       /\ book' = b
       /\ pc' = "undefined"
       /\ UNCHANGED <<left, filled, result>>

ProcessNew(r) ==
    /\ r.mtype = "NEW"
    /\ Accept(r)
    /\ addOrder(book, r)

\* Mutant: no ownership check.
MayCancelAnyone(b, r) == b.orders[r.id] # None

MayCancel(b, r) == b.orders[r.id] # None /\ b.orders[r.id].client = r.client

ProcessCancel(r) ==
    /\ r.mtype = "CANCEL"
    /\ Accept(r)
    /\ IF MayCancel(book, r)
       THEN book' = cancelOrder(book, r.id) /\ Return("SUCCESS", FALSE)
       ELSE book' = book /\ Return("FAILURE", FALSE)
    /\ UNCHANGED <<left, filled>>

MayModify(b, r) == MayCancel(b, r) /\ b.orders[r.id].side = r.side

\* modifyOrder keeps the order's place in its queue when price and quantity
\* are those the order was entered with.
KeepsPlace(b, r) ==
    r.price = b.orders[r.id].price /\ r.quantity = b.orders[r.id].initial

ProcessModify(r) ==
    /\ r.mtype = "MODIFY"
    /\ Accept(r)
    /\ \/ /\ ~MayModify(book, r)
          /\ Return("FAILURE", FALSE)
          /\ UNCHANGED <<book, left, filled>>
       \/ /\ MayModify(book, r)
          /\ ~KeepsPlace(book, r)
          /\ addOrder(cancelOrder(book, r.id), r)
       \/ /\ MayModify(book, r)
          /\ KeepsPlace(book, r)
          /\ book' = book
          /\ IF r.otype = "MARKET" THEN EnterMarket(r) ELSE EnterLimit

process(r) == ProcessNew(r) \/ ProcessCancel(r) \/ ProcessModify(r)

-----------------------------------------------------------------------------
(* matchOrders                                                             *)

Occupied(b, s) == b.nonEmpty[s] > 0 /\ b.levels[s][b.best[s]] # << >>

\* Mutant: equal prices do not trade.
CrossesStrictly(b) ==
    /\ Occupied(b, "BID")
    /\ Occupied(b, "ASK")
    /\ b.best["BID"] > b.best["ASK"]

\* The conditions of both loops and the crossing test.
Crosses(b) ==
    /\ Occupied(b, "BID")
    /\ Occupied(b, "ASK")
    /\ b.best["BID"] >= b.best["ASK"]

\* Mutant: a fill takes all of the bid.
LeastIsFirst(m, n) == m

Least(m, n) == IF m <= n THEN m ELSE n

MatchMsg(b, id) == [id |-> id, client |-> b.orders[id].client]

MatchStep ==
    LET bid == Front(book, "BID")
        ask == Front(book, "ASK")
        n   == Least(book.orders[bid].remaining, book.orders[ask].remaining)
    IN  /\ pc = "limit"
        /\ Crosses(book)
        /\ book' = Fill(Fill(book, bid, n), ask, n)
        /\ out' = out \o <<MatchMsg(book, bid), MatchMsg(book, ask)>>
        /\ filled' = TRUE
        /\ UNCHANGED <<pc, req, left, result>>

MatchDone ==
    /\ pc = "limit"
    /\ ~Crosses(book)
    /\ Return("SUCCESS", filled)
    /\ UNCHANGED <<book, req, left, filled, out>>

(* matchMarket                                                             *)

MarketStep ==
    LET s       == Opposite[req.side]
        resting == Front(book, s)
        n       == Least(left, book.orders[resting].remaining)
    IN  /\ pc = "market"
        /\ left > 0
        /\ Occupied(book, s)
        /\ book' = Fill(book, resting, n)
        /\ left' = left - n
        /\ out' = out \o <<[id |-> req.id, client |-> req.client],
                           MatchMsg(book, resting)>>
        /\ UNCHANGED <<pc, req, filled, result>>

\* Mutant: a market order is never acknowledged.
MarketDoneSilent ==
    /\ pc = "market"
    /\ left = 0 \/ ~Occupied(book, Opposite[req.side])
    /\ Return("SUCCESS", TRUE)
    /\ UNCHANGED <<book, req, left, filled, out>>

\* `return remaining == 0`, and `return false` when the level that should hold
\* the best price is empty (the loop is then entered with remaining > 0).
MarketDone ==
    /\ pc = "market"
    /\ left = 0 \/ ~Occupied(book, Opposite[req.side])
    /\ Return("SUCCESS", left = 0)
    /\ UNCHANGED <<book, req, left, filled, out>>

matchOrders == MatchStep \/ MatchDone
matchMarket == MarketStep \/ MarketDone

\* The caller has the ProcessResult; the locals of process() are gone.
Deliver ==
    /\ pc = "done"
    /\ pc' = "idle"
    /\ req' = None
    /\ left' = 0
    /\ filled' = FALSE
    /\ result' = NoResult
    /\ out' = << >>
    /\ UNCHANGED book

\* The end of what the model can say.
Undefined == pc = "undefined" /\ UNCHANGED bookVars

BookNext ==
    \/ \E r \in Requests : process(r)
    \/ matchOrders
    \/ matchMarket
    \/ Deliver
    \/ Undefined

BookSpec == BookInit /\ [][BookNext]_bookVars

-----------------------------------------------------------------------------
(* Properties                                                              *)

\* Every variable holds a value of its type; the cached best prices stay on the
\* ladder and the pool counter within its capacity (orderbook.hpp:95-103).
BookTypeOK ==
    /\ book \in Books
    /\ pc \in {"idle", "limit", "market", "done", "undefined"}
    /\ IF pc = "idle" THEN req = None ELSE req \in Requests
    /\ left \in Nat
    /\ filled \in BOOLEAN
    /\ result \in Results
    /\ out \in Seq(Matches)

\* The map and the queues describe the same orders: a queue holds exactly the
\* orders the map has with its side and price, each once.  Otherwise matching
\* reads a freed slot, or an order that can be cancelled never trades.
Queued(id, q) == \E i \in 1 .. Len(q) : q[i] = id

Indexed(b) ==
    \A id \in Ids, s \in Sides, p \in Prices :
        Queued(id, b.levels[s][p]) <=>
            b.orders[id] # None /\ b.orders[id].side = s /\ b.orders[id].price = p

Distinct(q) == \A i, j \in 1 .. Len(q) : q[i] = q[j] => i = j

QueuedOnce(b) == \A s \in Sides, p \in Prices : Distinct(b.levels[s][p])

MapMatchesQueues == Indexed(book) /\ QueuedOnce(book)

\* non_empty_*_levels_ counts the occupied levels and best_*_price_ is the best
\* occupied one (the sentinel when there is none).  Both are maintained
\* incrementally in add, cancel and the two matching loops; the loops trust them.
OccupiedLevels(b, s) == {p \in Prices : b.levels[s][p] # << >>}

CountExact(b) == \A s \in Sides : b.nonEmpty[s] = Cardinality(OccupiedLevels(b, s))

BestExact(b) ==
    \A s \in Sides :
        /\ \A p \in OccupiedLevels(b, s) : ~Better(s, p, b.best[s])
        /\ IF OccupiedLevels(b, s) = {} THEN b.best[s] = Sentinel(s)
                                        ELSE b.best[s] \in OccupiedLevels(b, s)

LevelIndexExact == CountExact(book) /\ BestExact(book)

\* Every pool slot is either free or holds an order of the map: no request
\* sequence leaks a slot or frees one twice (order_pool.hpp:42-54).
PoolExact(b) == b.free + Cardinality(LiveIds(b)) = PoolSize
PoolAccounted == PoolExact(book)

\* Between requests no resting bid reaches a resting ask: process() never
\* returns with a trade left to make.
Crossed(b) ==
    \E i, j \in LiveIds(b) :
        /\ b.orders[i].side = "BID"
        /\ b.orders[j].side = "ASK"
        /\ b.orders[i].price >= b.orders[j].price
RestingUncrossed == pc # "limit" => ~Crossed(book)

\* The two parties of the n-th trade of this request.
Parties(n) == {out[2 * n - 1].id, out[2 * n].id}

\* The order of request r is in the book as r asks for it.
RestsAsAsked(b, r) ==
    /\ b.orders[r.id] # None
    /\ b.orders[r.id].client  = r.client
    /\ b.orders[r.id].side    = r.side
    /\ b.orders[r.id].price   = r.price
    /\ b.orders[r.id].initial = r.quantity

\* A refused request: its order is not there, or not its client's to change.
RefusalAnswer ==
    IF req.mtype = "CANCEL" THEN ~MayCancel(book, req)
                            ELSE req.mtype = "MODIFY" /\ ~MayModify(book, req)

\* An accepted limit order: MATCHes take the place of the acknowledgement.  One that
\* did not trade rests as asked for after a MODIFY, since the cancel in modifyOrder
\* frees the slot its addOrder needs; after a NEW it is in the book unless the pool is
\* exhausted, and then its client is told SUCCESS for an order that does not exist,
\* where orderbook.cpp:106 has "reject the order".
LimitAnswer ==
    /\ result.suppress <=> out # << >>
    /\ out = << >> /\ req.mtype = "MODIFY" => RestsAsAsked(book, req)
    /\ out = << >> /\ book.orders[req.id] = None => book.free = 0

\* An accepted market order: unacknowledged only when all of it was filled; one that
\* was filled in part, or not at all, is acknowledged and has left nothing to trade.
MarketAnswer ==
    IF result.suppress
    THEN left = 0 /\ (req.quantity > 0 => out # << >>)
    ELSE left > 0 /\ \A p \in Prices : book.levels[Opposite[req.side]][p] = << >>

AcceptedAnswer ==
    /\ req.mtype = "CANCEL" => book.orders[req.id] = None
    /\ req.mtype # "CANCEL" /\ req.otype = "LIMIT"  => LimitAnswer
    /\ req.mtype # "CANCEL" /\ req.otype = "MARKET" => MarketAnswer

\* What process() returns and pushes is what has happened to the book: every trade of
\* the call is one of its own order, a refusal is justified, an accepted cancel has
\* removed its order, and accepted limit and market orders are answered as above.
AnswerIsTrue ==
    pc = "done" =>
        /\ \A n \in 1 .. Len(out) \div 2 : req.id \in Parties(n)
        /\ result.status = "FAILURE" => RefusalAnswer
        /\ result.status = "SUCCESS" => AcceptedAnswer

\* The position of a live order in its queue.
Place(b, id) ==
    LET q == b.levels[b.orders[id].side][b.orders[id].price]
    IN  CHOOSE i \in 1 .. Len(q) : q[i] = id

SameLevel(b, i, j) ==
    b.orders[i].side = b.orders[j].side /\ b.orders[i].price = b.orders[j].price

\* An order that a matching loop changes is ahead of every other of its side.
PriceTimeStep ==
    \A id, other \in LiveIds(book) :
        /\ pc \in {"limit", "market"}
        /\ book'.orders[id] # book.orders[id]
        /\ other # id
        /\ book.orders[other].side = book.orders[id].side
        => /\ ~Better(book.orders[id].side, book.orders[other].price,
                      book.orders[id].price)
           /\ SameLevel(book, id, other) => Place(book, id) < Place(book, other)

\* Whatever trades has priority: no other order of its side has a better price,
\* or the same price and an earlier place.
PriceTimePriority == [][PriceTimeStep]_bookVars

\* The order is not entered, or entered anew by its own modify, in this step.
Stays(id) == book.orders[id] # None /\ (pc = "idle" => book'.orders[id] = book.orders[id])

\* Whoever is ahead of an order that stays was ahead of it before; an order that is
\* entered has everybody ahead of it.
QueueStep ==
    \A id, other \in LiveIds(book') :
        id # other /\ SameLevel(book', id, other) =>
            IF Stays(id)
            THEN Place(book', other) < Place(book', id) =>
                     /\ book.orders[other] # None
                     /\ SameLevel(book, id, other)
                     /\ Place(book, other) < Place(book, id)
            ELSE Place(book', other) < Place(book', id)

\* Time priority: nobody enters a queue ahead of an order that stays in it; a modify
\* that changes price or quantity puts its order last, one that repeats both leaves
\* it where it is (orderbook.cpp:154).
NoQueueJump == [][QueueStep]_bookVars

\* Every order that changes was asked for, or is named in a new MATCH message.
AuthorisedStep ==
    \A id \in LiveIds(book) : book'.orders[id] # book.orders[id] =>
        \/ pc = "idle" /\ req'.id = id /\ req'.client = book.orders[id].client
        \/ \E i \in Len(out) + 1 .. Len(out') :
               out'[i] = [id |-> id, client |-> book.orders[id].client]

\* An order changes only by a request of its own client, or by a fill its client
\* is told of.
ChangesAreAuthorised == [][AuthorisedStep]_bookVars
=============================================================================

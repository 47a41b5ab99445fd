--------------------------- MODULE OrderBookProofs ---------------------------
(***************************************************************************)
(* Proofs about OrderBook, for every set of ids and clients, every ladder, *)
(* every set of quantities and every pool size.                            *)
(***************************************************************************)
EXTENDS OrderBook, FiniteSetTheorems, TLAPS

\* r is q with x unlinked.
Drops(q, x, r) ==
    /\ r \in Seq(Ids)
    /\ Distinct(r)
    /\ \A y \in Ids : Queued(y, r) <=> Queued(y, q) /\ y # x

\* PriceLevelQueue::remove takes exactly the order it is given out of a queue.
LEMMA WithoutDrops ==
    ASSUME NEW q \in Seq(Ids), Distinct(q), NEW x \in Ids, Queued(x, q)
    PROVE  Drops(q, x, Without(q, x))
<1> DEFINE k == CHOOSE i \in 1 .. Len(q) : q[i] = x
           r == [i \in 1 .. Len(q) - 1 |-> IF i < k THEN q[i] ELSE q[i + 1]]
<1>1. k \in 1 .. Len(q) /\ q[k] = x
  BY DEF Queued
<1>2. Len(q) \in Nat /\ Len(q) - 1 \in Nat
  BY <1>1
<1> HIDE DEF k
<1>3. r \in Seq(Ids) /\ Len(r) = Len(q) - 1
  BY <1>1, <1>2
<1>4. \A i \in 1 .. Len(r) : r[i] = IF i < k THEN q[i] ELSE q[i + 1]
  BY <1>3
<1> HIDE DEF r
<1>5. Distinct(r)
  BY <1>1, <1>2, <1>3, <1>4 DEF Distinct
<1>6. ASSUME NEW y \in Ids, Queued(y, r) PROVE Queued(y, q) /\ y # x
  BY <1>6, <1>1, <1>2, <1>3, <1>4 DEF Distinct, Queued
<1>7. ASSUME NEW y \in Ids, Queued(y, q), y # x PROVE Queued(y, r)
  <2>1. PICK i \in 1 .. Len(q) : q[i] = y
    BY <1>7 DEF Queued
  <2>2. CASE i < k
    BY <2>1, <2>2, <1>1, <1>2, <1>3, <1>4 DEF Queued
  <2>3. CASE i > k
    <3>1. i - 1 \in 1 .. Len(r) /\ r[i - 1] = y
      BY <2>1, <2>3, <1>1, <1>2, <1>3, <1>4
    <3> QED BY <3>1 DEF Queued
  <2> QED BY <2>1, <2>2, <2>3, <1>1, <1>2, <1>7
<1>8. Without(q, x) = r
  BY DEF Without, k, r
<1> QED BY <1>3, <1>5, <1>6, <1>7, <1>8 DEF Drops

\* PriceLevelQueue::pop takes exactly the front order out of a queue.
LEMMA TailDrops ==
    ASSUME NEW q \in Seq(Ids), Distinct(q), q # << >>
    PROVE  Drops(q, Head(q), Tail(q))
<1>1. Len(q) \in Nat \ {0} /\ Head(q) = q[1]
  OBVIOUS
<1>2. Tail(q) \in Seq(Ids) /\ Len(Tail(q)) = Len(q) - 1
      /\ \A i \in 1 .. Len(q) - 1 : Tail(q)[i] = q[i + 1]
  OBVIOUS
<1>3. Distinct(Tail(q))
  BY <1>1, <1>2 DEF Distinct
<1>4. ASSUME NEW y \in Ids, Queued(y, Tail(q)) PROVE Queued(y, q) /\ y # Head(q)
  BY <1>1, <1>2, <1>4 DEF Distinct, Queued
<1>5. ASSUME NEW y \in Ids, Queued(y, q), y # Head(q) PROVE Queued(y, Tail(q))
  <2>1. PICK i \in 1 .. Len(q) : q[i] = y
    BY <1>5 DEF Queued
  <2>2. i - 1 \in 1 .. Len(Tail(q)) /\ Tail(q)[i - 1] = y
    BY <2>1, <1>1, <1>2, <1>5
  <2> QED BY <2>2 DEF Queued
<1> QED BY <1>2, <1>3, <1>4, <1>5 DEF Drops

\* PriceLevelQueue::push adds exactly the new order to a queue.
LEMMA AppendAdds ==
    ASSUME NEW q \in Seq(Ids), Distinct(q), NEW x \in Ids, ~Queued(x, q)
    PROVE  /\ Append(q, x) \in Seq(Ids)
           /\ Distinct(Append(q, x))
           /\ Append(q, x) # << >>
           /\ \A y \in Ids : Queued(y, Append(q, x)) <=> Queued(y, q) \/ y = x
<1>1. /\ Append(q, x) \in Seq(Ids)
      /\ Len(q) \in Nat /\ Len(Append(q, x)) = Len(q) + 1
      /\ \A i \in 1 .. Len(q) : Append(q, x)[i] = q[i]
      /\ Append(q, x)[Len(q) + 1] = x
  OBVIOUS
<1>2. Distinct(Append(q, x))
  BY <1>1 DEF Distinct, Queued
<1>3. Queued(x, Append(q, x))
  BY <1>1 DEF Queued
<1>4. ASSUME NEW y \in Ids PROVE Queued(y, Append(q, x)) <=> Queued(y, q) \/ y = x
  BY <1>1, <1>3 DEF Queued
<1>5. Append(q, x) # << >>
  BY <1>1
<1> QED BY <1>1, <1>2, <1>4, <1>5

-----------------------------------------------------------------------------
(* The cached best price                                                   *)

\* A set of prices has a least one, so the walk of update_best_* has a place to stop.
LEMMA LeastNat ==
    ASSUME NEW T \in SUBSET Nat, T # {}
    PROVE  \E x \in T : \A y \in T : x <= y
<1> DEFINE R == {ss \in Nat \X Nat : ss[1] < ss[2]}
<1>1. R = OpToRel(<, Nat)
  BY Zenon DEF OpToRel
<1>2. IsWellFoundedOn(R, Nat)
  BY <1>1, NatLessThanWellFounded, Zenon
<1>3. PICK x \in T : \A y \in T : ~(<<y, x>> \in R)
  BY <1>2, WFMin
<1>4. ASSUME NEW y \in T PROVE x <= y
  <2>1. <<y, x>> \in Nat \X Nat /\ <<y, x>>[1] = y /\ <<y, x>>[2] = x
    OBVIOUS
  <2>2. ~(y < x)
    BY <1>3, <2>1, Zenon
  <2> QED BY <2>2
<1> QED BY <1>4

\* A side with an occupied level has a best one.
LEMMA BestOccupied ==
    ASSUME NEW T \in SUBSET Prices, T # {}, NEW s \in Sides
    PROVE  \E p \in T : \A q \in T : ~Better(s, q, p)
<1> USE LadderAssumption DEF Prices, MinPrice
<1>1. CASE s = "ASK"
  BY <1>1, LeastNat DEF Better
<1>2. CASE s = "BID"
  <2> DEFINE D == {d \in Nat : MaxPrice - d \in T}
  <2>1. PICK t \in T : TRUE
    OBVIOUS
  <2>2. MaxPrice - t \in D
    BY <2>1
  <2>3. PICK d \in D : \A e \in D : d <= e
    BY <2>2, LeastNat
  <2>4. MaxPrice - d \in T
    BY <2>3
  <2>5. ASSUME NEW q \in T PROVE ~(q > MaxPrice - d)
    BY <2>3
  <2> QED BY <1>2, <2>4, <2>5 DEF Better
<1> QED BY <1>1, <1>2 DEF Sides

\* update_best_*: from a best price no occupied level is better than, the walk
\* stops at the best occupied level.
LEMMA UpdateBestExact ==
    ASSUME NEW b \in Books, NEW s \in Sides,
           OccupiedLevels(b, s) # {},
           \A p \in OccupiedLevels(b, s) : ~Better(s, p, b.best[s])
    PROVE  /\ UpdateBest(b, s) \in OccupiedLevels(b, s)
           /\ \A p \in OccupiedLevels(b, s) : ~Better(s, p, UpdateBest(b, s))
<1> DEFINE Stops(p) ==
        /\ ~Better(s, p, b.best[s])
        /\ b.levels[s][p] # << >> \/ p = Sentinel(s)
        /\ \A q \in Prices :
              Better(s, q, p) /\ ~Better(s, q, b.best[s]) => b.levels[s][q] = << >>
<1>1. OccupiedLevels(b, s) \subseteq Prices
  BY DEF OccupiedLevels
<1>2. PICK t \in OccupiedLevels(b, s) : \A q \in OccupiedLevels(b, s) : ~Better(s, q, t)
  BY <1>1, BestOccupied
<1>3. t \in Prices /\ Stops(t)
  BY <1>1, <1>2 DEF OccupiedLevels
<1> DEFINE u == UpdateBest(b, s)
<1>4. u \in Prices /\ Stops(u)
  BY <1>3 DEF UpdateBest
<1> HIDE DEF u
<1>5. ~Better(s, t, u)
  BY <1>2, <1>4 DEF OccupiedLevels
<1>6. u \in OccupiedLevels(b, s)
  <2>1. CASE u = Sentinel(s)
    BY <2>1, <1>2, <1>3, <1>4, <1>5, LadderAssumption
       DEF Sentinel, Better, Sides, Prices, MinPrice, OccupiedLevels
  <2>2. CASE u # Sentinel(s)
    BY <2>2, <1>4 DEF OccupiedLevels
  <2> QED BY <2>1, <2>2
<1>7. ASSUME NEW p \in OccupiedLevels(b, s) PROVE ~Better(s, p, u)
  BY <1>4, <1>7 DEF OccupiedLevels
<1> QED BY <1>6, <1>7 DEF u

-----------------------------------------------------------------------------
(* The inductive invariant of the book, as a property of one book value    *)

BookInv(b) ==
    /\ b \in Books
    /\ Indexed(b)
    /\ QueuedOnce(b)
    /\ CountExact(b)
    /\ BestExact(b)
    /\ PoolExact(b)

\* The ladder is a finite array, so its occupied levels can be counted.
LEMMA PricesFinite == IsFiniteSet(Prices) /\ Cardinality({}) = 0
BY FS_Interval, FS_EmptySet, LadderAssumption DEF Prices, MinPrice

\* Taking one order, or one level, away lowers the count by exactly one.
LEMMA RemoveOne ==
    ASSUME NEW S, IsFiniteSet(S), NEW x \in S
    PROVE  /\ IsFiniteSet(S \ {x})
           /\ Cardinality(S) \in Nat
           /\ Cardinality(S \ {x}) \in Nat
           /\ Cardinality(S \ {x}) = Cardinality(S) - 1
<1>1. IsFiniteSet(S \ {x}) /\ Cardinality(S \ {x}) = Cardinality(S) - 1
  BY FS_RemoveElement
<1> QED BY <1>1, FS_CardinalityType

\* The book the constructor builds.
LEMMA EmptyBookInv == BookInv(EmptyBook)
<1> DEFINE b == EmptyBook
<1>1. \A s \in Sides : Sentinel(s) \in Prices
  BY LadderAssumption DEF Sentinel, Prices, MinPrice
<1>2. \A s \in Sides, p \in Prices : b.levels[s][p] = << >>
  BY DEF EmptyBook
<1>3. b \in Books
  BY <1>1, PoolAssumption DEF EmptyBook, Books
<1>4. \A s \in Sides : OccupiedLevels(b, s) = {} /\ b.nonEmpty[s] = 0 /\ b.best[s] = Sentinel(s)
  BY <1>2 DEF OccupiedLevels, EmptyBook
<1>5. LiveIds(b) = {} /\ b.free = PoolSize /\ \A i \in Ids : b.orders[i] = None
  BY DEF LiveIds, EmptyBook
<1> HIDE DEF b
<1>6. Indexed(b) /\ QueuedOnce(b)
  BY <1>2, <1>5 DEF Indexed, Queued, QueuedOnce, Distinct
<1>7. CountExact(b) /\ BestExact(b)
  BY <1>4, PricesFinite DEF CountExact, BestExact
<1>8. PoolExact(b)
  BY <1>5, PricesFinite, PoolAssumption DEF PoolExact
<1> QED BY <1>3, <1>6, <1>7, <1>8 DEF BookInv, b

-----------------------------------------------------------------------------
(* Every operation on the book keeps the invariant                         *)

\* Order::fill changes what is left of an order and nothing the index uses.
LEMMA ReduceInv ==
    ASSUME NEW b, BookInv(b), NEW id \in LiveIds(b), NEW n \in Nat,
           n <= b.orders[id].remaining,
           NEW c, c = Reduce(b, id, n)
    PROVE  /\ BookInv(c)
           /\ c.levels = b.levels /\ c.best = b.best /\ c.nonEmpty = b.nonEmpty
           /\ LiveIds(c) = LiveIds(b)
           /\ \A i \in Ids \ {id} : c.orders[i] = b.orders[i]
           /\ c.orders[id].remaining = b.orders[id].remaining - n
           /\ c.orders[id].side = b.orders[id].side
           /\ c.orders[id].price = b.orders[id].price
           /\ c.orders[id].client = b.orders[id].client
<1>1. id \in Ids /\ b.orders[id] \in Order /\ b \in Books
  BY DEF LiveIds, BookInv, Books
<1>2. /\ c.orders = [b.orders EXCEPT ![id] = [b.orders[id] EXCEPT !.remaining = @ - n]]
      /\ c.levels = b.levels /\ c.best = b.best
      /\ c.nonEmpty = b.nonEmpty /\ c.free = b.free
      /\ c = [orders |-> c.orders, levels |-> c.levels, best |-> c.best,
              nonEmpty |-> c.nonEmpty, free |-> c.free]
  BY <1>1 DEF Books, Reduce
<1>3. /\ \A i \in Ids \ {id} : c.orders[i] = b.orders[i]
      /\ c.orders[id] = [b.orders[id] EXCEPT !.remaining = @ - n]
  BY <1>1, <1>2 DEF Books
<1>4. /\ c.orders[id] \in Order
      /\ c.orders[id].side = b.orders[id].side
      /\ c.orders[id].price = b.orders[id].price
      /\ c.orders[id].client = b.orders[id].client
      /\ c.orders[id].remaining = b.orders[id].remaining - n
  BY <1>1, <1>3 DEF Order
<1>5. c.orders[id] # None /\ b.orders[id] # None
  BY <1>4, <1>1, NoneAssumption
<1>6. c \in Books
  BY <1>1, <1>2, <1>4 DEF Books
<1>7. LiveIds(c) = LiveIds(b)
  BY <1>1, <1>3, <1>5 DEF LiveIds
<1>8. Indexed(c)
  BY <1>1, <1>2, <1>3, <1>4, <1>5 DEF Indexed, BookInv
<1>9. QueuedOnce(c) /\ CountExact(c) /\ BestExact(c) /\ PoolExact(c)
  BY <1>2, <1>7 DEF BookInv, QueuedOnce, CountExact, BestExact, PoolExact, OccupiedLevels
<1> QED BY <1>2, <1>3, <1>4, <1>6, <1>7, <1>8, <1>9 DEF BookInv

\* An order leaves the book: the removal of cancelOrder and of a filled order.
LEMMA UnlinkInv ==
    ASSUME NEW b, BookInv(b), NEW id \in LiveIds(b), NEW q,
           Drops(b.levels[b.orders[id].side][b.orders[id].price], id, q),
           NEW c, c = Unlink(b, id, q)
    PROVE  /\ BookInv(c)
           /\ c.orders = [b.orders EXCEPT ![id] = None]
           /\ c.free > 0
           /\ \A s \in Sides : s # b.orders[id].side =>
                 /\ c.levels[s] = b.levels[s]
                 /\ c.best[s] = b.best[s]
                 /\ c.nonEmpty[s] = b.nonEmpty[s]
<1> DEFINE o  == b.orders[id]
           b1 == [b EXCEPT !.levels[o.side][o.price] = q,
                           !.orders[id] = None,
                           !.free = @ + 1]
           s0 == o.side
           p0 == o.price
<1>1. id \in Ids /\ o # None /\ o \in Order /\ b \in Books
  BY DEF LiveIds, BookInv, Books
<1>2. s0 \in Sides /\ p0 \in Prices
  BY <1>1 DEF Order
<1>a. /\ Drops(b.levels[s0][p0], id, q)
      /\ b.orders[id].side = s0 /\ b.orders[id].price = p0
  OBVIOUS
<1>3. q \in Seq(Ids) /\ b.free \in Nat /\ PoolSize \in Nat
  BY <1>1, PoolAssumption DEF Drops, Books
<1>4. /\ b1.orders = [b.orders EXCEPT ![id] = None]
      /\ b1.levels = [b.levels EXCEPT ![s0][p0] = q]
      /\ b1.best = b.best
      /\ b1.nonEmpty = b.nonEmpty
      /\ b1.free = b.free + 1
  BY <1>1, SMTT(40) DEF Books
<1>5. /\ b1.levels \in [Sides -> [Prices -> Seq(Ids)]]
      /\ b1.levels[s0][p0] = q
      /\ \A s \in Sides, p \in Prices : s # s0 \/ p # p0 => b1.levels[s][p] = b.levels[s][p]
      /\ \A s \in Sides : s # s0 => b1.levels[s] = b.levels[s]
  BY <1>1, <1>2, <1>3, <1>4 DEF Books
<1>6. /\ IsFiniteSet(LiveIds(b)) /\ LiveIds(b1) = LiveIds(b) \ {id}
      /\ Cardinality(LiveIds(b1)) = Cardinality(LiveIds(b)) - 1
      /\ Cardinality(LiveIds(b1)) \in Nat
      /\ IsFiniteSet(LiveIds(b1))
  <2>1. IsFiniteSet(LiveIds(b))
    BY IdsAssumption, FS_Subset DEF LiveIds
  <2>2. LiveIds(b1) = LiveIds(b) \ {id}
    BY <1>1, <1>4 DEF LiveIds, Books
  <2> QED BY <2>1, <2>2, RemoveOne
<1>7. b1.free \in 0 .. PoolSize /\ b1.free + Cardinality(LiveIds(b1)) = PoolSize /\ b1.free > 0
  <2>1. b.free + Cardinality(LiveIds(b)) = PoolSize /\ Cardinality(LiveIds(b)) \in Nat
    BY <1>6, FS_CardinalityType, SMTT(40) DEF BookInv, PoolExact
  <2> QED BY <1>3, <1>4, <1>6, <2>1
<1>8. b1 \in Books
  BY <1>1, <1>4, <1>5, <1>7, Zenon DEF Books
<1>9. c = IF q = << >> THEN LevelEmptied(b1, s0, p0) ELSE b1
  BY DEF Unlink
<1> HIDE DEF b1, s0, p0
<1>b. ASSUME q = << >>
      PROVE  /\ c.orders = b1.orders /\ c.levels = b1.levels /\ c.free = b1.free
             /\ c.nonEmpty = [b1.nonEmpty EXCEPT ![s0] = b1.nonEmpty[s0] - 1]
             /\ c.best = [b1.best EXCEPT ![s0] = BestAfter(b1, s0, p0)]
  <2>1. c = [b1 EXCEPT !.nonEmpty[s0] = b1.nonEmpty[s0] - 1,
                       !.best[s0] = BestAfter(b1, s0, p0)]
    BY <1>b, <1>9 DEF LevelEmptied
  <2> QED BY <2>1, <1>8 DEF Books
<1>10. /\ c.orders = b1.orders /\ c.levels = b1.levels /\ c.free = b1.free
       /\ \A s \in Sides : s # s0 => c.best[s] = b.best[s] /\ c.nonEmpty[s] = b.nonEmpty[s]
  <2>1. CASE q = << >>
    BY <2>1, <1>b, <1>1, <1>4 DEF Books
  <2>2. CASE q # << >>
    BY <2>2, <1>4, <1>9
  <2> QED BY <2>1, <2>2
<1>11. Indexed(c)
  <2> SUFFICES ASSUME NEW y \in Ids, NEW s \in Sides, NEW p \in Prices
               PROVE  Queued(y, c.levels[s][p]) <=>
                        c.orders[y] # None /\ c.orders[y].side = s /\ c.orders[y].price = p
    BY DEF Indexed
  <2>1. Queued(y, b.levels[s][p]) <=>
          b.orders[y] # None /\ b.orders[y].side = s /\ b.orders[y].price = p
    BY DEF BookInv, Indexed
  <2>2. Queued(y, c.levels[s][p]) <=> Queued(y, b.levels[s][p]) /\ y # id
    <3>1. CASE s = s0 /\ p = p0
      BY <3>1, <1>a, <1>5, <1>10 DEF Drops
    <3>2. CASE ~(s = s0 /\ p = p0)
      BY <3>2, <2>1, <1>a, <1>5, <1>10
    <3> QED BY <3>1, <3>2
  <2>3. c.orders[y] = IF y = id THEN None ELSE b.orders[y]
    BY <1>1, <1>4, <1>10 DEF Books
  <2> QED BY <2>1, <2>2, <2>3
<1>12. QueuedOnce(c)
  <2> SUFFICES ASSUME NEW s \in Sides, NEW p \in Prices PROVE Distinct(c.levels[s][p])
    BY DEF QueuedOnce
  <2>1. CASE s = s0 /\ p = p0
    BY <2>1, <1>a, <1>5, <1>10 DEF Drops
  <2>2. CASE ~(s = s0 /\ p = p0)
    BY <2>2, <1>5, <1>10 DEF BookInv, QueuedOnce
  <2> QED BY <2>1, <2>2
<1>14. \A s \in Sides : s # s0 => OccupiedLevels(c, s) = OccupiedLevels(b, s)
  BY <1>5, <1>10 DEF OccupiedLevels
<1>15. p0 \in OccupiedLevels(b, s0) /\ OccupiedLevels(b, s0) \subseteq Prices
       /\ IsFiniteSet(OccupiedLevels(b, s0))
  <2>1. Queued(id, b.levels[s0][p0])
    BY <1>1, <1>2, <1>a DEF BookInv, Indexed
  <2>2. b.levels[s0][p0] # << >>
    BY <2>1 DEF Queued
  <2> QED BY <1>2, <2>2, PricesFinite, FS_Subset DEF OccupiedLevels
<1>16. CASE q # << >>
  <2>1. c = b1
    BY <1>9, <1>16
  <2>2. \A s \in Sides : OccupiedLevels(c, s) = OccupiedLevels(b, s)
    <3>1. ASSUME NEW p \in Prices
          PROVE  c.levels[s0][p] # << >> <=> b.levels[s0][p] # << >>
      <4>1. CASE p = p0
        BY <4>1, <1>5, <1>10, <1>15, <1>16 DEF OccupiedLevels
      <4>2. CASE p # p0
        BY <4>2, <1>2, <1>5, <1>10
      <4> QED BY <4>1, <4>2
    <3> QED BY <3>1, <1>14 DEF OccupiedLevels
  <2>3. CountExact(c) /\ BestExact(c)
    BY <2>1, <2>2, <1>4 DEF CountExact, BestExact, BookInv
  <2>4. PoolExact(c) /\ c \in Books
    BY <2>1, <1>7, <1>8 DEF PoolExact
  <2> QED BY <2>3, <2>4, <1>4, <1>5, <1>7, <1>10, <1>11, <1>12, <1>a DEF BookInv
<1>17. CASE q = << >>
  <2>1. /\ c.nonEmpty = [b.nonEmpty EXCEPT ![s0] = @ - 1]
        /\ c.best = [b.best EXCEPT ![s0] = BestAfter(b1, s0, p0)]
        /\ c.best[s0] = BestAfter(b1, s0, p0)
    BY <1>b, <1>1, <1>2, <1>4, <1>17 DEF Books
  <2>2. OccupiedLevels(c, s0) = OccupiedLevels(b, s0) \ {p0}
        /\ OccupiedLevels(b1, s0) = OccupiedLevels(c, s0)
    BY <1>2, <1>5, <1>10, <1>17 DEF OccupiedLevels
  <2>3. /\ Cardinality(OccupiedLevels(c, s0)) = Cardinality(OccupiedLevels(b, s0)) - 1
        /\ Cardinality(OccupiedLevels(c, s0)) \in Nat
        /\ IsFiniteSet(OccupiedLevels(c, s0))
    BY <2>2, <1>15, RemoveOne
  <2>4. b.nonEmpty[s0] = Cardinality(OccupiedLevels(b, s0))
        /\ b.nonEmpty[s0] \in Nat
    BY <1>1, <1>2 DEF BookInv, CountExact, Books
  <2>5. c.nonEmpty[s0] = Cardinality(OccupiedLevels(c, s0)) /\ c.nonEmpty[s0] \in Nat
    BY <2>1, <2>3, <2>4, <1>1, <1>2 DEF Books
  <2>6. CountExact(c)
    BY <2>5, <1>10, <1>14 DEF CountExact, BookInv
  <2>7. OccupiedLevels(c, s0) = {} <=> b.nonEmpty[s0] = 1
    BY <2>3, <2>4, FS_EmptySet
  <2>8. \A p \in OccupiedLevels(c, s0) : ~Better(s0, p, b.best[s0])
    BY <2>2, <1>2 DEF BookInv, BestExact
  <2>9. /\ \A p \in OccupiedLevels(c, s0) : ~Better(s0, p, c.best[s0])
        /\ IF OccupiedLevels(c, s0) = {} THEN c.best[s0] = Sentinel(s0)
                                         ELSE c.best[s0] \in OccupiedLevels(c, s0)
    <3>1. CASE OccupiedLevels(c, s0) = {}
      BY <3>1, <2>1, <2>7, <1>4 DEF BestAfter
    <3>2. CASE OccupiedLevels(c, s0) # {} /\ p0 = b.best[s0]
      <4>1. c.best[s0] = UpdateBest(b1, s0)
        BY <3>2, <2>1, <2>7, <1>4 DEF BestAfter
      <4>2. /\ UpdateBest(b1, s0) \in OccupiedLevels(b1, s0)
            /\ \A p \in OccupiedLevels(b1, s0) : ~Better(s0, p, UpdateBest(b1, s0))
        BY <3>2, <2>2, <2>8, <1>2, <1>4, <1>8, UpdateBestExact
      <4> QED BY <4>1, <4>2, <2>2, <3>2
    <3>3. CASE OccupiedLevels(c, s0) # {} /\ p0 # b.best[s0]
      <4>1. c.best[s0] = b.best[s0]
        BY <3>3, <2>1, <2>7, <1>4 DEF BestAfter
      <4>2. b.best[s0] \in OccupiedLevels(b, s0)
        BY <1>2, <1>15 DEF BookInv, BestExact
      <4> QED BY <4>1, <4>2, <3>3, <2>2, <2>8
    <3> QED BY <3>1, <3>2, <3>3
  <2>10. BestExact(c)
    BY <2>9, <1>10, <1>14 DEF BestExact, BookInv
  <2>11. c.best[s0] \in Prices
    BY <2>9, <1>15, <2>2, <1>2, LadderAssumption DEF Sentinel, Prices, MinPrice
  <2>12. c \in Books
    <3>1. c = [orders |-> c.orders, levels |-> c.levels, best |-> c.best,
               nonEmpty |-> c.nonEmpty, free |-> c.free]
      BY <1>8, <1>9, <1>17 DEF LevelEmptied, Books
    <3>2. c.best \in [Sides -> Prices] /\ c.nonEmpty \in [Sides -> Nat]
      BY <2>1, <2>5, <2>11, <1>1, <1>2 DEF Books
    <3> QED BY <3>1, <3>2, <1>8, <1>10 DEF Books
  <2>13. PoolExact(c)
    BY <1>7, <1>10 DEF PoolExact, LiveIds
  <2> QED BY <2>6, <2>10, <2>12, <2>13, <1>4, <1>5, <1>7, <1>10, <1>11, <1>12, <1>a DEF BookInv
<1> QED BY <1>16, <1>17

\* The same as a relation between the books before and after.
Unlinked(b, id, c) ==
    /\ BookInv(c)
    /\ c.orders = [b.orders EXCEPT ![id] = None]
    /\ \A s \in Sides : s # b.orders[id].side =>
          /\ c.levels[s] = b.levels[s]
          /\ c.best[s] = b.best[s]
          /\ c.nonEmpty[s] = b.nonEmpty[s]

\* What Unlink returns, for any queue that drops the order.
LEMMA UnlinkResult ==
    ASSUME NEW b, BookInv(b), NEW id \in LiveIds(b), NEW q,
           Drops(b.levels[b.orders[id].side][b.orders[id].price], id, q),
           NEW c, c = Unlink(b, id, q)
    PROVE  Unlinked(b, id, c)
  BY UnlinkInv, SMTT(30) DEF Unlinked

\* A limit order enters the book: addOrder on a free id and a free slot.
LEMMA InsertInv ==
    ASSUME NEW b, BookInv(b), NEW r,
           r.id \in Ids, r.client \in Clients, r.side \in Sides,
           r.price \in Prices, r.quantity \in Quantities,
           b.orders[r.id] = None, b.free > 0,
           NEW c, c = Insert(b, r)
    PROVE  BookInv(c)
<1> DEFINE id == r.id
           s0 == r.side
           p0 == r.price
           o  == [client |-> r.client, side |-> r.side, price |-> r.price,
                  initial |-> r.quantity, remaining |-> r.quantity]
           q  == Append(b.levels[s0][p0], id)
           n0 == IF b.levels[s0][p0] = << >> THEN b.nonEmpty[s0] + 1 ELSE b.nonEmpty[s0]
           t0 == IF Better(s0, p0, b.best[s0]) THEN p0 ELSE b.best[s0]
<1>1. b \in Books /\ id \in Ids /\ s0 \in Sides /\ p0 \in Prices
  BY DEF BookInv
<1>2. o \in Order /\ o # None /\ o.side = s0 /\ o.price = p0
  <2>1. o \in Order /\ o.side = s0 /\ o.price = p0
    BY QtyAssumption DEF Order
  <2> QED BY <2>1, NoneAssumption
<1>3. c = [b EXCEPT !.orders[id] = o, !.free = b.free - 1, !.nonEmpty[s0] = n0,
                    !.levels[s0][p0] = q, !.best[s0] = t0]
  BY DEF Insert, OrderOf
<1>4. ~Queued(id, b.levels[s0][p0])
  BY <1>1 DEF BookInv, Indexed
<1>5. b.levels[s0][p0] \in Seq(Ids) /\ Distinct(b.levels[s0][p0])
  BY <1>1 DEF BookInv, QueuedOnce, Books
<1>6. /\ q \in Seq(Ids) /\ Distinct(q) /\ q # << >>
      /\ \A y \in Ids : Queued(y, q) <=> Queued(y, b.levels[s0][p0]) \/ y = id
  BY <1>1, <1>4, <1>5, AppendAdds
<1>7. n0 \in Nat /\ t0 \in Prices
  BY <1>1 DEF Books
<1> HIDE DEF o, q, n0, t0, id, s0, p0
<1>8. /\ c.orders = [b.orders EXCEPT ![id] = o]
      /\ c.levels = [b.levels EXCEPT ![s0][p0] = q]
      /\ c.best = [b.best EXCEPT ![s0] = t0]
      /\ c.nonEmpty = [b.nonEmpty EXCEPT ![s0] = n0]
      /\ c.free = b.free - 1
      /\ c = [orders |-> c.orders, levels |-> c.levels, best |-> c.best,
              nonEmpty |-> c.nonEmpty, free |-> c.free]
  BY <1>1, <1>3 DEF Books
<1>9. /\ c.levels \in [Sides -> [Prices -> Seq(Ids)]]
      /\ c.levels[s0][p0] = q
      /\ \A s \in Sides, p \in Prices : s # s0 \/ p # p0 => c.levels[s][p] = b.levels[s][p]
  BY <1>1, <1>6, <1>8 DEF Books
<1>10. /\ c.best \in [Sides -> Prices] /\ c.best[s0] = t0
       /\ c.nonEmpty \in [Sides -> Nat] /\ c.nonEmpty[s0] = n0
       /\ \A s \in Sides : s # s0 => c.best[s] = b.best[s] /\ c.nonEmpty[s] = b.nonEmpty[s]
  BY <1>1, <1>7, <1>8 DEF Books
<1>11. /\ c.orders \in [Ids -> Order \cup {None}] /\ c.orders[id] = o
       /\ \A y \in Ids : y # id => c.orders[y] = b.orders[y]
  BY <1>1, <1>2, <1>8 DEF Books
<1>12. c.free \in 0 .. PoolSize
  BY <1>1, <1>8, PoolAssumption DEF Books
<1>13. c \in Books
  BY <1>8, <1>9, <1>10, <1>11, <1>12 DEF Books
<1>14. Indexed(c)
  <2> SUFFICES ASSUME NEW y \in Ids, NEW s \in Sides, NEW p \in Prices
               PROVE  Queued(y, c.levels[s][p]) <=>
                        c.orders[y] # None /\ c.orders[y].side = s /\ c.orders[y].price = p
    BY DEF Indexed
  <2>1. Queued(y, b.levels[s][p]) <=>
          b.orders[y] # None /\ b.orders[y].side = s /\ b.orders[y].price = p
    BY DEF BookInv, Indexed
  <2>2. CASE s = s0 /\ p = p0
    BY <2>1, <2>2, <1>2, <1>6, <1>9, <1>11
  <2>3. CASE ~(s = s0 /\ p = p0)
    <3>1. b.orders[id] = None
      BY DEF id
    <3> QED BY <3>1, <2>1, <2>3, <1>1, <1>2, <1>9, <1>11
  <2> QED BY <2>2, <2>3
<1>15. QueuedOnce(c)
  <2> SUFFICES ASSUME NEW s \in Sides, NEW p \in Prices PROVE Distinct(c.levels[s][p])
    BY DEF QueuedOnce
  <2>1. CASE s = s0 /\ p = p0
    BY <2>1, <1>6, <1>9
  <2>2. CASE ~(s = s0 /\ p = p0)
    BY <2>2, <1>9 DEF BookInv, QueuedOnce
  <2> QED BY <2>1, <2>2
<1>16. /\ OccupiedLevels(c, s0) = OccupiedLevels(b, s0) \cup {p0}
       /\ \A s \in Sides : s # s0 => OccupiedLevels(c, s) = OccupiedLevels(b, s)
       /\ p0 \in OccupiedLevels(b, s0) <=> b.levels[s0][p0] # << >>
       /\ IsFiniteSet(OccupiedLevels(b, s0))
  <2>1. OccupiedLevels(c, s0) = OccupiedLevels(b, s0) \cup {p0}
    <3> SUFFICES ASSUME NEW p \in Prices
                 PROVE  c.levels[s0][p] # << >> <=> b.levels[s0][p] # << >> \/ p = p0
      BY <1>1 DEF OccupiedLevels
    <3> QED BY <1>1, <1>6, <1>9
  <2>2. \A s \in Sides : s # s0 => OccupiedLevels(c, s) = OccupiedLevels(b, s)
    BY <1>9 DEF OccupiedLevels
  <2> QED BY <2>1, <2>2, <1>1, PricesFinite, FS_Subset DEF OccupiedLevels
<1>17. CountExact(c)
  <2>1. b.nonEmpty[s0] = Cardinality(OccupiedLevels(b, s0))
    BY <1>1 DEF BookInv, CountExact
  <2>2. n0 = Cardinality(OccupiedLevels(c, s0))
    <3>1. CASE b.levels[s0][p0] = << >>
      <4>1. n0 = b.nonEmpty[s0] + 1
        BY <3>1 DEF n0
      <4> QED BY <3>1, <4>1, <2>1, <1>16, FS_AddElement, ZenonT(30)
    <3>2. CASE b.levels[s0][p0] # << >>
      <4>1. n0 = b.nonEmpty[s0]
        BY <3>2 DEF n0
      <4>2. OccupiedLevels(c, s0) = OccupiedLevels(b, s0)
        BY <3>2, <1>16
      <4> QED BY <4>1, <4>2, <2>1
    <3> QED BY <3>1, <3>2
  <2> QED BY <2>2, <1>10, <1>16 DEF CountExact, BookInv
<1>18. BestExact(c)
  <2>1. /\ \A p \in OccupiedLevels(b, s0) : ~Better(s0, p, b.best[s0])
        /\ IF OccupiedLevels(b, s0) = {} THEN b.best[s0] = Sentinel(s0)
                                         ELSE b.best[s0] \in OccupiedLevels(b, s0)
    BY <1>1 DEF BookInv, BestExact
  <2>2. OccupiedLevels(b, s0) \subseteq Prices /\ b.best[s0] \in Prices
    BY <1>1 DEF OccupiedLevels, Books
  <2>3. /\ \A p \in OccupiedLevels(c, s0) : ~Better(s0, p, t0)
        /\ t0 \in OccupiedLevels(c, s0)
    <3>1. CASE Better(s0, p0, b.best[s0])
      BY <3>1, <2>1, <2>2, <1>1, <1>16, LadderAssumption DEF t0, Better, Prices, MinPrice
    <3>2. CASE ~Better(s0, p0, b.best[s0]) /\ OccupiedLevels(b, s0) # {}
      BY <3>2, <2>1, <2>2, <1>1, <1>16 DEF t0
    <3>3. CASE ~Better(s0, p0, b.best[s0]) /\ OccupiedLevels(b, s0) = {}
      <4>1. b.best[s0] = p0
        BY <3>3, <2>1, <1>1, LadderAssumption DEF Better, Sentinel, Prices, MinPrice, Sides
      <4> QED BY <4>1, <3>3, <1>16 DEF t0
    <3> QED BY <3>1, <3>2, <3>3
  <2> QED BY <2>3, <1>10, <1>16 DEF BestExact, BookInv
<1>19. PoolExact(c)
  <2>1. id \notin LiveIds(b) /\ LiveIds(c) = LiveIds(b) \cup {id}
    BY <1>1, <1>2, <1>11 DEF LiveIds, id
  <2>2. IsFiniteSet(LiveIds(b))
    BY IdsAssumption, FS_Subset DEF LiveIds
  <2>3. Cardinality(LiveIds(c)) = Cardinality(LiveIds(b)) + 1 /\ Cardinality(LiveIds(b)) \in Nat
    BY <2>1, <2>2, FS_AddElement, FS_CardinalityType
  <2>4. b.free + Cardinality(LiveIds(b)) = PoolSize /\ b.free \in Nat
    BY <1>1, PoolAssumption DEF BookInv, PoolExact, Books
  <2> QED BY <2>3, <2>4, <1>8, PoolAssumption DEF PoolExact
<1> QED BY <1>13, <1>14, <1>15, <1>17, <1>18, <1>19 DEF BookInv

\* c has no order that b does not have, on the same level.
Shrinks(b, c) ==
    \A i \in Ids : c.orders[i] # None =>
        /\ b.orders[i] # None
        /\ c.orders[i].side = b.orders[i].side
        /\ c.orders[i].price = b.orders[i].price

\* Taking orders off a book never crosses it.
LEMMA ShrinkUncrossed ==
    ASSUME NEW b, NEW c, Shrinks(b, c), ~Crossed(b)
    PROVE  ~Crossed(c)
BY DEF Shrinks, Crossed, LiveIds

\* cancelOrder, as process() calls it and as modifyOrder does.
LEMMA CancelInv ==
    ASSUME NEW b, BookInv(b), NEW id \in LiveIds(b), NEW c, c = cancelOrder(b, id)
    PROVE  /\ BookInv(c)
           /\ Shrinks(b, c)
           /\ c.orders = [b.orders EXCEPT ![id] = None]
           /\ c.orders[id] = None
           /\ c.free > 0
<1> DEFINE q == b.levels[b.orders[id].side][b.orders[id].price]
<1>1. b \in Books /\ id \in Ids /\ b.orders[id] \in Order /\ b.orders[id] # None
  BY DEF BookInv, LiveIds, Books
<1>2. b.orders[id].side \in Sides /\ b.orders[id].price \in Prices
  BY <1>1 DEF Order
<1>3. q \in Seq(Ids) /\ Distinct(q) /\ Queued(id, q)
  BY <1>1, <1>2, SMTT(40) DEF BookInv, Books, QueuedOnce, Indexed
<1>4. Drops(q, id, Without(q, id))
  BY <1>1, <1>3, WithoutDrops, Zenon
<1>5. c = Unlink(b, id, Without(q, id))
  BY SMTT(40) DEF cancelOrder
<1>6. BookInv(c) /\ c.orders = [b.orders EXCEPT ![id] = None] /\ c.free > 0
  <2> DEFINE w == Without(q, id)
  <2>1. Drops(b.levels[b.orders[id].side][b.orders[id].price], id, w) /\ c = Unlink(b, id, w)
    BY <1>4, <1>5, Zenon
  <2> HIDE DEF w, q
  <2> QED BY <2>1, UnlinkInv, SMTT(40)
<1>7. Shrinks(b, c) /\ c.orders[id] = None
  BY <1>1, <1>6 DEF Shrinks, Books
<1> QED BY <1>6, <1>7

\* The front order of the best level is a live order of that side and level.
LEMMA FrontLive ==
    ASSUME NEW b, BookInv(b), NEW s \in Sides, Occupied(b, s)
    PROVE  /\ Front(b, s) \in LiveIds(b)
           /\ b.orders[Front(b, s)].side = s
           /\ b.orders[Front(b, s)].price = b.best[s]
           /\ b.orders[Front(b, s)] \in Order
<1> DEFINE q == b.levels[s][b.best[s]]
<1>1. b \in Books /\ b.best[s] \in Prices /\ q \in Seq(Ids) /\ q # << >>
  BY DEF BookInv, Books, Occupied
<1>2. Front(b, s) \in Ids /\ Queued(Front(b, s), q)
  BY <1>1 DEF Front, Queued
<1>3. /\ b.orders[Front(b, s)] # None
      /\ b.orders[Front(b, s)].side = s
      /\ b.orders[Front(b, s)].price = b.best[s]
  BY <1>1, <1>2 DEF BookInv, Indexed
<1> QED BY <1>1, <1>2, <1>3 DEF LiveIds, Books

\* One party of one iteration of a matching loop.
LEMMA FillInv ==
    ASSUME NEW b, BookInv(b), NEW s \in Sides, Occupied(b, s),
           NEW id, id = Front(b, s),
           NEW n \in Nat, n <= b.orders[id].remaining,
           NEW c, c = Fill(b, id, n)
    PROVE  /\ BookInv(c)
           /\ Shrinks(b, c)
           /\ \A i \in Ids \ {id} : c.orders[i] = b.orders[i]
           /\ \A t \in Sides : t # s =>
                 /\ c.levels[t] = b.levels[t]
                 /\ c.best[t] = b.best[t]
                 /\ c.nonEmpty[t] = b.nonEmpty[t]
<1>0. PICK b1 : b1 = Reduce(b, id, n)
  OBVIOUS
<1>1. /\ id \in LiveIds(b) /\ id \in Ids /\ b.orders[id].side = s
      /\ b.orders[id].price = b.best[s] /\ b.best[s] \in Prices
  BY FrontLive DEF LiveIds, BookInv, Books
<1>2. /\ BookInv(b1) /\ LiveIds(b1) = LiveIds(b)
      /\ b1.levels = b.levels /\ b1.best = b.best /\ b1.nonEmpty = b.nonEmpty
      /\ b1.orders[id].side = s /\ b1.orders[id].price = b.best[s]
      /\ \A i \in Ids \ {id} : b1.orders[i] = b.orders[i]
  BY <1>0, <1>1, ReduceInv
<1>3. c = IF b1.orders[id].remaining = 0
          THEN Unlink(b1, id, Tail(b1.levels[b1.orders[id].side][b1.orders[id].price]))
          ELSE b1
  BY <1>0 DEF Fill
<1>4. Shrinks(b, b1)
  BY <1>1, <1>2 DEF Shrinks, LiveIds
<1>5. CASE b1.orders[id].remaining # 0
  BY <1>2, <1>3, <1>4, <1>5
<1>6. CASE b1.orders[id].remaining = 0
  <2> DEFINE q == b.levels[s][b.best[s]]
  <2>1. q \in Seq(Ids) /\ Distinct(q) /\ q # << >> /\ id = Head(q)
    BY <1>1, SMTT(40) DEF BookInv, Books, QueuedOnce, Occupied, Front
  <2>2. Drops(q, id, Tail(q))
    BY <2>1, TailDrops
  <2>3. /\ id \in LiveIds(b1)
        /\ Drops(b1.levels[b1.orders[id].side][b1.orders[id].price], id, Tail(q))
        /\ c = Unlink(b1, id, Tail(q))
    BY <2>2, <1>1, <1>2, <1>3, <1>6
  <2>4. BookInv(b1) /\ id \in LiveIds(b1)
    BY <2>3, <1>2
  <2>5. /\ BookInv(c) /\ c.orders = [b1.orders EXCEPT ![id] = None]
        /\ \A u \in Sides : u # b1.orders[id].side =>
              /\ c.levels[u] = b1.levels[u]
              /\ c.best[u] = b1.best[u]
              /\ c.nonEmpty[u] = b1.nonEmpty[u]
    <3>1. Unlinked(b1, id, c)
      BY <2>3, <2>4, UnlinkResult
    <3> QED BY <3>1, SMTT(60) DEF Unlinked
  <2>6. /\ c.orders[id] = None
        /\ \A i \in Ids \ {id} : c.orders[i] = b1.orders[i]
    BY <2>5, <1>1, <1>2 DEF BookInv, Books
  <2>7. Shrinks(b, c)
    BY <2>6, <1>4, <1>1 DEF Shrinks
  <2> QED BY <2>5, <2>6, <2>7, <1>2, SMTT(60)
<1> QED BY <1>5, <1>6

\* The loop conditions, which look at the cached counter and the best level only, see
\* every occupied level of a side.
LEMMA OccupiedSeen ==
    ASSUME NEW b, BookInv(b), NEW s \in Sides, ~Occupied(b, s), NEW p \in Prices
    PROVE  b.levels[s][p] = << >>
<1> SUFFICES ASSUME p \in OccupiedLevels(b, s) PROVE Occupied(b, s)
  BY DEF OccupiedLevels
<1>1. b.best[s] \in OccupiedLevels(b, s)
  BY DEF BookInv, BestExact
<1>2. IsFiniteSet(OccupiedLevels(b, s))
  BY PricesFinite, FS_Subset DEF OccupiedLevels
<1>3. Cardinality(OccupiedLevels(b, s)) > 0
  BY <1>1, <1>2, FS_EmptySet, FS_CardinalityType
<1>4. b.nonEmpty[s] > 0
  BY <1>3 DEF BookInv, CountExact
<1> QED BY <1>1, <1>4 DEF Occupied, OccupiedLevels

\* The crossing test of matchOrders, which looks at the two cached best prices
\* only, sees every pair of orders that can trade.
LEMMA NoCrossMissed ==
    ASSUME NEW b, BookInv(b), ~Crosses(b)
    PROVE  ~Crossed(b)
<1> SUFFICES ASSUME Crossed(b) PROVE Crosses(b)
  OBVIOUS
<1>1. PICK i \in LiveIds(b), j \in LiveIds(b) :
          /\ b.orders[i].side = "BID"
          /\ b.orders[j].side = "ASK"
          /\ b.orders[i].price >= b.orders[j].price
  BY DEF Crossed
<1>2. ASSUME NEW s \in Sides, NEW k \in LiveIds(b), b.orders[k].side = s
      PROVE  /\ Occupied(b, s)
             /\ ~Better(s, b.orders[k].price, b.best[s])
             /\ b.best[s] \in Prices /\ b.orders[k].price \in Prices
  <2> DEFINE p == b.orders[k].price
  <2>1. b \in Books /\ k \in Ids /\ b.orders[k] \in Order /\ b.orders[k] # None
    BY DEF LiveIds, BookInv, Books
  <2>2. p \in Prices /\ b.best[s] \in Prices
    BY <2>1 DEF Order, Books
  <2>3. Queued(k, b.levels[s][p])
    BY <1>2, <2>1, <2>2 DEF BookInv, Indexed
  <2>4. p \in OccupiedLevels(b, s)
    BY <2>2, <2>3 DEF Queued, OccupiedLevels
  <2>5. ~Better(s, p, b.best[s])
    BY <2>4 DEF BookInv, BestExact
  <2>6. Occupied(b, s)
    BY <2>2, <2>4, OccupiedSeen DEF OccupiedLevels
  <2> QED BY <2>2, <2>5, <2>6
<1>3. /\ Occupied(b, "BID") /\ Occupied(b, "ASK")
      /\ ~(b.orders[i].price > b.best["BID"])
      /\ ~(b.orders[j].price < b.best["ASK"])
      /\ b.best["BID"] \in Int /\ b.best["ASK"] \in Int
      /\ b.orders[i].price \in Int /\ b.orders[j].price \in Int
  BY <1>1, <1>2, LadderAssumption DEF Sides, Better, Prices, MinPrice
<1> QED BY <1>1, <1>3 DEF Crosses

-----------------------------------------------------------------------------
(* The steps of process()                                                  *)

\* Type correctness alone is not inductive: that the cached best price stays on
\* the ladder, and that the front of the best level is an order at all, needs
\* the index to be exact; that process() returns an uncrossed book needs the
\* index and the uncrossed book it started from.
BookIInv == BookTypeOK /\ BookInv(book) /\ RestingUncrossed

\* What process() may rely on about the OrderRequest it is given.
LEMMA RequestFields ==
    ASSUME NEW r \in Requests
    PROVE  /\ r.id \in Ids /\ r.client \in Clients /\ r.side \in Sides
           /\ r.quantity \in Nat
           /\ r.mtype # "CANCEL" => r.quantity \in Quantities
           /\ r.mtype # "CANCEL" => r.otype \in {"LIMIT", "MARKET"}
<1>1. CASE r \in LimitRequests
  BY <1>1, QtyAssumption DEF LimitRequests
<1>2. CASE r \in MarketRequests
  BY <1>2, QtyAssumption DEF MarketRequests
<1>3. CASE r \in CancelRequests
  BY <1>3 DEF CancelRequests, Sides
<1> QED BY <1>1, <1>2, <1>3 DEF Requests

\* addOrder, from any consistent book that is uncrossed.
LEMMA AddOrderStep ==
    ASSUME BookTypeOK, NEW r \in Requests, r.mtype # "CANCEL",
           NEW b, BookInv(b), ~Crossed(b),
           addOrder(b, r)
    PROVE  /\ BookInv(book') /\ RestingUncrossed'
           /\ pc' \in {"limit", "market", "done", "undefined"}
           /\ left' \in Nat /\ filled' \in BOOLEAN /\ result' \in Results
<1> USE RequestFields
<1>1. CASE r.otype = "MARKET" /\ book' = b /\ EnterMarket(r)
  BY <1>1 DEF EnterMarket, BookTypeOK, RestingUncrossed
<1>2. CASE r.otype = "LIMIT" /\ book' = b /\ Return("SUCCESS", FALSE)
           /\ UNCHANGED <<left, filled>>
  BY <1>2 DEF Return, BookTypeOK, RestingUncrossed, Results
<1>3. CASE r.otype = "LIMIT" /\ b.orders[r.id] = None /\ b.free > 0 /\ r.price \in Prices
           /\ book' = Insert(b, r) /\ EnterLimit
  <2>1. BookInv(book')
    BY <1>3, InsertInv
  <2> QED BY <1>3, <2>1 DEF EnterLimit, BookTypeOK, RestingUncrossed
<1>4. CASE book' = b /\ pc' = "undefined" /\ UNCHANGED <<left, filled, result>>
  BY <1>4 DEF BookTypeOK, RestingUncrossed
<1> QED BY <1>1, <1>2, <1>3, <1>4 DEF addOrder

\* A request reaches the book.
LEMMA ProcessStep ==
    ASSUME BookIInv, NEW r \in Requests, process(r)
    PROVE  BookIInv'
<1> USE RequestFields
<1>1. /\ pc = "idle" /\ req' = r /\ out' = out
      /\ BookTypeOK /\ BookInv(book) /\ ~Crossed(book)
  BY DEF BookIInv, RestingUncrossed, process, ProcessNew, ProcessCancel, ProcessModify, Accept
<1>2. SUFFICES /\ BookInv(book') /\ RestingUncrossed'
               /\ pc' \in {"limit", "market", "done", "undefined"}
               /\ left' \in Nat /\ filled' \in BOOLEAN /\ result' \in Results
  BY <1>1 DEF BookIInv, BookTypeOK, BookInv
<1>3. CASE ProcessNew(r)
  BY <1>1, <1>3, AddOrderStep DEF ProcessNew
<1>4. CASE ProcessCancel(r)
  <2>1. CASE MayCancel(book, r)
    <3>1. r.id \in LiveIds(book) /\ book' = cancelOrder(book, r.id) /\ Return("SUCCESS", FALSE)
      BY <1>4, <2>1 DEF ProcessCancel, MayCancel, LiveIds
    <3>2. BookInv(book') /\ ~Crossed(book')
      BY <1>1, <3>1, CancelInv, ShrinkUncrossed
    <3> QED BY <1>1, <1>4, <3>1, <3>2
            DEF ProcessCancel, Return, BookTypeOK, RestingUncrossed, Results
  <2>2. CASE ~MayCancel(book, r)
    <3>1. book' = book /\ Return("FAILURE", FALSE) /\ UNCHANGED <<left, filled>>
      BY <1>4, <2>2 DEF ProcessCancel
    <3> QED BY <1>1, <3>1 DEF Return, BookTypeOK, RestingUncrossed, Results
  <2> QED BY <2>1, <2>2
<1>5. CASE ProcessModify(r)
  <2>1. CASE ~MayModify(book, r) /\ Return("FAILURE", FALSE) /\ UNCHANGED <<book, left, filled>>
    BY <1>1, <2>1 DEF Return, BookTypeOK, RestingUncrossed, Results
  <2>2. CASE MayModify(book, r) /\ addOrder(cancelOrder(book, r.id), r)
    <3>1. r.id \in LiveIds(book) /\ r.mtype # "CANCEL"
      BY <1>5, <2>2 DEF ProcessModify, MayModify, MayCancel, LiveIds
    <3>2. PICK b : b = cancelOrder(book, r.id)
      OBVIOUS
    <3>3. BookInv(b) /\ ~Crossed(b)
      BY <1>1, <3>1, <3>2, CancelInv, ShrinkUncrossed
    <3>4. addOrder(b, r)
      BY <2>2, <3>2
    <3> QED BY <1>1, <3>1, <3>3, <3>4, AddOrderStep
  <2>3. CASE book' = book /\ IF r.otype = "MARKET" THEN EnterMarket(r) ELSE EnterLimit
    BY <1>1, <2>3 DEF EnterMarket, EnterLimit, BookTypeOK, RestingUncrossed
  <2> QED BY <1>5, <2>1, <2>2, <2>3 DEF ProcessModify
<1> QED BY <1>3, <1>4, <1>5 DEF process

\* One iteration of matchOrders trades the two best orders.
LEMMA MatchStepInv ==
    ASSUME BookIInv, MatchStep
    PROVE  /\ BookIInv' /\ Shrinks(book, book')
           /\ Occupied(book, "BID") /\ Occupied(book, "ASK")
           /\ \A i \in Ids : book'.orders[i] # book.orders[i] =>
                 i = Front(book, "BID") \/ i = Front(book, "ASK")
<1> DEFINE bid == Front(book, "BID")
           ask == Front(book, "ASK")
           n   == Least(book.orders[bid].remaining, book.orders[ask].remaining)
<1>1. BookTypeOK /\ BookInv(book) /\ "BID" \in Sides /\ "ASK" \in Sides
  BY DEF BookIInv, Sides
<1>2. /\ pc = "limit" /\ Occupied(book, "BID") /\ Occupied(book, "ASK")
      /\ book' = Fill(Fill(book, bid, n), ask, n)
      /\ out' = out \o <<MatchMsg(book, bid), MatchMsg(book, ask)>>
      /\ filled' = TRUE
      /\ UNCHANGED <<pc, req, left, result>>
  BY DEF MatchStep, Crosses
<1>3. /\ bid \in LiveIds(book) /\ book.orders[bid] \in Order /\ book.orders[bid].side = "BID"
      /\ ask \in LiveIds(book) /\ book.orders[ask] \in Order /\ book.orders[ask].side = "ASK"
  BY <1>1, <1>2, FrontLive
<1>4. bid # ask /\ bid \in Ids /\ ask \in Ids
  BY <1>3 DEF LiveIds
<1>5. n \in Nat /\ n <= book.orders[bid].remaining /\ n <= book.orders[ask].remaining
  BY <1>3 DEF Least, Order
<1> HIDE DEF n
<1>6. PICK c : c = Fill(book, bid, n)
  OBVIOUS
<1>7. /\ BookInv(c) /\ Shrinks(book, c)
      /\ \A i \in Ids \ {bid} : c.orders[i] = book.orders[i]
      /\ c.levels["ASK"] = book.levels["ASK"]
      /\ c.best["ASK"] = book.best["ASK"]
      /\ c.nonEmpty["ASK"] = book.nonEmpty["ASK"]
  BY <1>1, <1>2, <1>4, <1>5, <1>6, FillInv, SMTT(40)
<1>a. c.orders[ask] = book.orders[ask]
  BY <1>4, <1>7
<1>8. Occupied(c, "ASK") /\ ask = Front(c, "ASK")
  BY <1>2, <1>7, Zenon DEF Occupied, Front
<1>9. /\ BookInv(book') /\ Shrinks(c, book')
      /\ \A i \in Ids \ {ask} : book'.orders[i] = c.orders[i]
  <2>1. book' = Fill(c, ask, n) /\ n <= c.orders[ask].remaining
    BY <1>2, <1>5, <1>6, <1>a
  <2> HIDE DEF ask
  <2> QED BY <2>1, <1>1, <1>5, <1>7, <1>8, FillInv
<1>10. Shrinks(book, book')
  BY <1>7, <1>9 DEF Shrinks
<1>11. out' \in Seq(Matches)
  <2>1. MatchMsg(book, bid) \in Matches /\ MatchMsg(book, ask) \in Matches
    BY <1>3, <1>4 DEF MatchMsg, Matches, Order
  <2> HIDE DEF bid, ask
  <2> QED BY <2>1, <1>1, <1>2 DEF BookTypeOK
<1>12. \A i \in Ids : book'.orders[i] # book.orders[i] => i = bid \/ i = ask
  BY <1>7, <1>9
<1>13. BookIInv'
  BY <1>1, <1>2, <1>9, <1>11 DEF BookIInv, BookTypeOK, BookInv, RestingUncrossed
<1> QED BY <1>2, <1>10, <1>12, <1>13

\* One iteration of matchMarket trades the best opposite order.
LEMMA MarketStepInv ==
    ASSUME BookIInv, MarketStep
    PROVE  /\ BookIInv' /\ Shrinks(book, book')
           /\ Opposite[req.side] \in Sides /\ Occupied(book, Opposite[req.side])
           /\ \A i \in Ids : book'.orders[i] # book.orders[i] =>
                 i = Front(book, Opposite[req.side])
<1> DEFINE s  == Opposite[req.side]
           id == Front(book, s)
           n  == Least(left, book.orders[id].remaining)
<1>1. BookTypeOK /\ BookInv(book) /\ pc = "market" /\ req \in Requests /\ ~Crossed(book)
  BY DEF BookIInv, BookTypeOK, MarketStep, RestingUncrossed
<1>2. s \in Sides
  BY <1>1, RequestFields DEF Opposite, Sides
<1>3. /\ Occupied(book, s)
      /\ book' = Fill(book, id, n)
      /\ left' = left - n
      /\ out' = out \o <<[id |-> req.id, client |-> req.client], MatchMsg(book, id)>>
      /\ UNCHANGED <<pc, req, filled, result>>
  BY DEF MarketStep
<1> HIDE DEF s
<1>4. id \in LiveIds(book) /\ book.orders[id] \in Order
  BY <1>1, <1>2, <1>3, FrontLive
<1>5. n \in Nat /\ n <= book.orders[id].remaining /\ left - n \in Nat
  BY <1>1, <1>4 DEF Least, Order, BookTypeOK
<1> HIDE DEF n
<1>6. /\ BookInv(book') /\ Shrinks(book, book')
      /\ \A j \in Ids \ {id} : book'.orders[j] = book.orders[j]
  <2>1. PICK i : i = id
    OBVIOUS
  <2>2. i = Front(book, s) /\ book' = Fill(book, i, n) /\ n <= book.orders[i].remaining
    BY <2>1, <1>3, <1>5
  <2>3. /\ BookInv(book') /\ Shrinks(book, book')
        /\ \A j \in Ids \ {i} : book'.orders[j] = book.orders[j]
    BY <2>2, <1>1, <1>2, <1>3, <1>5, FillInv
  <2> QED BY <2>1, <2>3
<1>7. ~Crossed(book')
  BY <1>1, <1>6, ShrinkUncrossed
<1>8. out' \in Seq(Matches)
  <2>1. MatchMsg(book, id) \in Matches /\ [id |-> req.id, client |-> req.client] \in Matches
    BY <1>1, <1>4, RequestFields DEF MatchMsg, Matches, Order, LiveIds
  <2> HIDE DEF id
  <2> QED BY <2>1, <1>1, <1>3 DEF BookTypeOK
<1>9. BookIInv'
  BY <1>1, <1>3, <1>5, <1>6, <1>7, <1>8 DEF BookIInv, BookTypeOK, BookInv, RestingUncrossed
<1>10. \A i \in Ids : book'.orders[i] # book.orders[i] => i = Front(book, s)
  BY <1>6
<1> QED BY <1>2, <1>3, <1>6, <1>9, <1>10 DEF s

-----------------------------------------------------------------------------
(* The theorems                                                            *)

\* Every step of the book keeps the invariant.
LEMMA BookStep ==
    ASSUME BookIInv, [BookNext]_bookVars
    PROVE  BookIInv'
<1>1. ASSUME NEW r \in Requests, process(r) PROVE BookIInv'
  BY <1>1, ProcessStep
<1>2. CASE MatchStep
  BY <1>2, MatchStepInv
<1>3. CASE MatchDone
  <2>1. ~Crossed(book)
    BY <1>3, NoCrossMissed DEF MatchDone, BookIInv
  <2> QED BY <1>3, <2>1 DEF MatchDone, Return, Results, BookIInv, BookTypeOK, RestingUncrossed
<1>4. CASE MarketStep
  BY <1>4, MarketStepInv
<1>5. CASE MarketDone
  BY <1>5 DEF MarketDone, Return, Results, BookIInv, BookTypeOK, RestingUncrossed
<1>6. CASE Deliver
  <2>1. out' \in Seq(Matches) /\ result' \in Results
    BY <1>6 DEF Deliver, NoResult, Results
  <2> QED BY <1>6, <2>1 DEF Deliver, BookIInv, BookTypeOK, RestingUncrossed
<1>7. CASE UNCHANGED bookVars
  BY <1>7 DEF bookVars, BookIInv, BookTypeOK, RestingUncrossed
<1> QED BY <1>1, <1>2, <1>3, <1>4, <1>5, <1>6, <1>7
        DEF BookNext, matchOrders, matchMarket, Undefined

\* The empty book satisfies the invariant.
LEMMA BookInitInv == BookInit => BookIInv
<1> SUFFICES ASSUME BookInit PROVE BookIInv
  OBVIOUS
<1>1. BookInv(book)
  BY EmptyBookInv DEF BookInit
<1>2. ~Crossed(book)
  BY DEF BookInit, Crossed, LiveIds, EmptyBook
<1>3. out \in Seq(Matches) /\ result \in Results
  BY DEF BookInit, NoResult, Results
<1> QED BY <1>1, <1>2, <1>3 DEF BookInit, BookIInv, BookTypeOK, BookInv, RestingUncrossed

\* The invariant holds in every reachable state of the book.
THEOREM BookInvariant == BookSpec => []BookIInv
<1>1. BookInit => BookIInv
  BY BookInitInv
<1>2. BookIInv /\ [BookNext]_bookVars => BookIInv'
  BY BookStep
<1> QED BY <1>1, <1>2, PTL DEF BookSpec

\* Every variable of the book keeps its type, whatever requests arrive.
THEOREM BookTypeCorrect == BookSpec => []BookTypeOK
<1>1. BookIInv => BookTypeOK
  BY DEF BookIInv
<1> QED BY <1>1, BookInvariant, PTL

\* The map and the queues describe the same orders in every reachable state:
\* matching never reads a freed slot, and what can be cancelled can trade.
THEOREM MapCorrect == BookSpec => []MapMatchesQueues
<1>1. BookIInv => MapMatchesQueues
  BY DEF BookIInv, BookInv, MapMatchesQueues
<1> QED BY <1>1, BookInvariant, PTL

\* The level counters and the cached best prices are exact in every reachable
\* state, inside the matching loops too.
THEOREM IndexCorrect == BookSpec => []LevelIndexExact
<1>1. BookIInv => LevelIndexExact
  BY DEF BookIInv, BookInv, LevelIndexExact
<1> QED BY <1>1, BookInvariant, PTL

\* No pool slot leaks and none is freed twice.
THEOREM PoolCorrect == BookSpec => []PoolAccounted
<1>1. BookIInv => PoolAccounted
  BY DEF BookIInv, BookInv, PoolAccounted
<1> QED BY <1>1, BookInvariant, PTL

\* process() never returns with two resting orders that should have traded.
THEOREM UncrossedCorrect == BookSpec => []RestingUncrossed
<1>1. BookIInv => RestingUncrossed
  BY DEF BookIInv
<1> QED BY <1>1, BookInvariant, PTL

\* The front of the best level has priority over every other order of its side.
LEMMA FrontFirst ==
    ASSUME NEW b, BookInv(b), NEW s \in Sides, Occupied(b, s),
           NEW id, id = Front(b, s),
           NEW other \in LiveIds(b), other # id, b.orders[other].side = s
    PROVE  /\ ~Better(s, b.orders[other].price, b.orders[id].price)
           /\ SameLevel(b, id, other) => Place(b, id) < Place(b, other)
<1>1. /\ b \in Books /\ other \in Ids /\ b.orders[other] # None
      /\ b.orders[other] \in Order
      /\ b.orders[id].side = s /\ b.orders[id].price = b.best[s]
      /\ b.best[s] \in Prices
  <2>1. b.orders[id].side = s /\ b.orders[id].price = b.best[s]
    BY FrontLive
  <2> QED BY <2>1 DEF LiveIds, BookInv, Books
<1>2. b.orders[other].price \in Prices
  BY <1>1 DEF Order
<1>3. Queued(other, b.levels[s][b.orders[other].price])
  BY <1>1, <1>2 DEF BookInv, Indexed
<1>4. b.orders[other].price \in OccupiedLevels(b, s)
  BY <1>2, <1>3 DEF OccupiedLevels, Queued
<1>5. ~Better(s, b.orders[other].price, b.best[s])
  BY <1>4 DEF BookInv, BestExact
<1>6. ASSUME SameLevel(b, id, other) PROVE Place(b, id) < Place(b, other)
  <2> DEFINE q == b.levels[s][b.best[s]]
  <2>1. b.orders[other].price = b.best[s] /\ Queued(other, q)
    BY <1>1, <1>3, <1>6 DEF SameLevel
  <2>2. q \in Seq(Ids) /\ Distinct(q) /\ q # << >> /\ id = q[1] /\ 1 \in 1 .. Len(q)
    BY <1>1, SMTT(40) DEF BookInv, Books, QueuedOnce, Occupied, Front
  <2>3. Place(b, id) \in 1 .. Len(q) /\ q[Place(b, id)] = id
    BY <2>2, <1>1, Zenon DEF Place
  <2>4. Place(b, other) \in 1 .. Len(q) /\ q[Place(b, other)] = other
    BY <2>1, <1>1 DEF Place, Queued
  <2>5. Place(b, id) = 1
    BY <2>2, <2>3 DEF Distinct
  <2> QED BY <2>2, <2>4, <2>5
<1> QED BY <1>1, <1>5, <1>6

\* What trades has price-time priority, in every step of every behaviour.
THEOREM PriorityCorrect == BookSpec => PriceTimePriority
<1>1. BookIInv /\ [BookNext]_bookVars => [PriceTimeStep]_bookVars
  <2> SUFFICES ASSUME BookIInv, BookNext,
                      NEW id \in LiveIds(book), NEW other \in LiveIds(book),
                      pc \in {"limit", "market"},
                      book'.orders[id] # book.orders[id],
                      other # id,
                      book.orders[other].side = book.orders[id].side
               PROVE  /\ ~Better(book.orders[id].side, book.orders[other].price,
                                 book.orders[id].price)
                      /\ SameLevel(book, id, other) => Place(book, id) < Place(book, other)
    BY DEF PriceTimeStep
  <2>1. BookTypeOK /\ BookInv(book) /\ id \in Ids
    BY DEF BookIInv, LiveIds
  <2>2. PICK s \in Sides : Occupied(book, s) /\ id = Front(book, s)
    <3>1. CASE MatchStep
      BY <3>1, <2>1, MatchStepInv DEF Sides
    <3>2. CASE MarketStep
      BY <3>2, <2>1, MarketStepInv
    <3>3. CASE UNCHANGED book
      BY <3>3
    <3>4. ~\E r \in Requests : process(r)
      BY DEF process, ProcessNew, ProcessCancel, ProcessModify, Accept
    <3> QED BY <3>1, <3>2, <3>3, <3>4
            DEF BookNext, matchOrders, matchMarket, MatchDone, MarketDone, Deliver,
                Undefined, bookVars
  <2>3. book.orders[id].side = s
    BY <2>1, <2>2, FrontLive
  <2> QED BY <2>1, <2>2, <2>3, FrontFirst
<1> QED BY <1>1, BookInvariant, PTL DEF BookSpec, PriceTimePriority

-----------------------------------------------------------------------------
(* Who may change an order                                                 *)

\* Only the new order enters the map.
LEMMA InsertOrders ==
    ASSUME NEW b \in Books, NEW r, r.id \in Ids, NEW c, c = Insert(b, r)
    PROVE  c.orders = [b.orders EXCEPT ![r.id] = OrderOf(r)]
BY DEF Insert, Books, OrderOf

\* addOrder leaves every order that is in the book alone.
LEMMA AddOrderOthers ==
    ASSUME NEW b \in Books, NEW r \in Requests, addOrder(b, r), NEW i \in Ids,
           b.orders[i] # None
    PROVE  book'.orders[i] = b.orders[i]
<1>1. CASE book' = b
  BY <1>1
<1>2. CASE b.orders[r.id] = None /\ book' = Insert(b, r)
  <2>1. book'.orders = [b.orders EXCEPT ![r.id] = OrderOf(r)]
    BY <1>2, RequestFields, InsertOrders
  <2> QED BY <1>2, <2>1 DEF Books
<1> QED BY <1>1, <1>2 DEF addOrder

\* A request that changes an order carries its id and comes from its client.
LEMMA ProcessAuthorised ==
    ASSUME BookIInv, NEW r \in Requests, process(r),
           NEW id \in LiveIds(book), book'.orders[id] # book.orders[id]
    PROVE  pc = "idle" /\ req' = r /\ r.id = id /\ r.client = book.orders[id].client
<1>1. /\ pc = "idle" /\ req' = r /\ BookInv(book) /\ book \in Books
      /\ id \in Ids /\ book.orders[id] # None
  BY DEF BookIInv, BookTypeOK, LiveIds, process, ProcessNew, ProcessCancel, ProcessModify, Accept
<1>2. ~addOrder(book, r)
  BY <1>1, AddOrderOthers
<1>3. ASSUME r.id # id, MayCancel(book, r), NEW c, c = cancelOrder(book, r.id)
      PROVE  c \in Books /\ c.orders[id] = book.orders[id]
  <2>1. r.id \in LiveIds(book)
    BY <1>3, RequestFields DEF MayCancel, LiveIds
  <2>2. BookInv(c) /\ c.orders = [book.orders EXCEPT ![r.id] = None]
    BY <1>1, <1>3, <2>1, CancelInv
  <2> QED BY <1>1, <1>3, <2>2 DEF BookInv, Books
<1>4. book' # book
  OBVIOUS
<1>5. CASE ProcessCancel(r)
  <2>1. MayCancel(book, r) /\ book' = cancelOrder(book, r.id)
    BY <1>4, <1>5 DEF ProcessCancel
  <2>2. r.id = id
    BY <1>3, <2>1
  <2> QED BY <1>1, <2>1, <2>2 DEF MayCancel
<1>6. CASE ProcessModify(r)
  <2>1. MayCancel(book, r) /\ addOrder(cancelOrder(book, r.id), r)
    BY <1>4, <1>6 DEF ProcessModify, MayModify
  <2>2. PICK c : c = cancelOrder(book, r.id)
    OBVIOUS
  <2>3. ASSUME r.id # id PROVE FALSE
    <3>1. c \in Books /\ c.orders[id] = book.orders[id]
      BY <1>3, <2>1, <2>2, <2>3
    <3> QED BY <3>1, <1>1, <2>1, <2>2, AddOrderOthers
  <2> QED BY <1>1, <2>1, <2>3 DEF MayCancel
<1> QED BY <1>2, <1>5, <1>6 DEF process, ProcessNew

\* The two messages of a trade are the new ones on the ring.
LEMMA TwoMore ==
    ASSUME NEW S, NEW q \in Seq(S), NEW x \in S, NEW y \in S,
           NEW r, r = q \o <<x, y>>
    PROVE  /\ r \in Seq(S) /\ Len(q) \in Nat /\ Len(r) = Len(q) + 2
           /\ \A i \in 1 .. Len(q) : r[i] = q[i]
           /\ r[Len(q) + 1] = x /\ r[Len(q) + 2] = y
<1>1. <<x, y>> \in Seq(S) /\ Len(<<x, y>>) = 2
  OBVIOUS
<1>2. Len(r) = Len(q) + 2 /\ r \in Seq(S) /\ Len(q) \in Nat
  BY <1>1
<1>3. \A i \in 1 .. Len(q) : r[i] = q[i]
  BY <1>1
<1>4. r[Len(q) + 1] = x /\ r[Len(q) + 2] = y
  BY <1>1
<1> QED BY <1>2, <1>3, <1>4

\* An order changes only by a request of its own client, or by a fill that a
\* MATCH message pushed in the same step tells its client of.
THEOREM AuthorisationCorrect == BookSpec => ChangesAreAuthorised
<1>1. BookIInv /\ [BookNext]_bookVars => [AuthorisedStep]_bookVars
  <2> SUFFICES ASSUME BookIInv, BookNext, NEW id \in LiveIds(book),
                      book'.orders[id] # book.orders[id]
               PROVE  \/ pc = "idle" /\ req'.id = id /\ req'.client = book.orders[id].client
                      \/ \E i \in Len(out) + 1 .. Len(out') :
                             out'[i] = [id |-> id, client |-> book.orders[id].client]
    BY DEF AuthorisedStep
  <2>1. /\ out \in Seq(Matches) /\ id \in Ids /\ BookInv(book)
        /\ "BID" \in Sides /\ "ASK" \in Sides
    BY DEF BookIInv, BookTypeOK, LiveIds, Sides
  <2>2. ASSUME NEW r \in Requests, process(r)
        PROVE  pc = "idle" /\ req'.id = id /\ req'.client = book.orders[id].client
    BY <2>2, ProcessAuthorised
  <2>3. ASSUME NEW i \in LiveIds(book) PROVE MatchMsg(book, i) \in Matches
    BY <2>3 DEF LiveIds, BookIInv, BookTypeOK, Books, MatchMsg, Matches, Order
  <2>4. CASE MatchStep
    <3> DEFINE bid == Front(book, "BID")
               ask == Front(book, "ASK")
    <3>1. id = bid \/ id = ask
      BY <2>1, <2>4, MatchStepInv
    <3>2. bid \in LiveIds(book) /\ ask \in LiveIds(book)
      BY <2>1, <2>4, MatchStepInv, FrontLive
    <3>3. out' = out \o <<MatchMsg(book, bid), MatchMsg(book, ask)>>
      BY <2>4 DEF MatchStep
    <3> HIDE DEF bid, ask
    <3>4. /\ Len(out) \in Nat /\ Len(out') = Len(out) + 2
          /\ out'[Len(out) + 1] = MatchMsg(book, bid)
          /\ out'[Len(out) + 2] = MatchMsg(book, ask)
      BY <2>1, <2>3, <3>2, <3>3, TwoMore
    <3>5. Len(out) + 1 \in Len(out) + 1 .. Len(out') /\ Len(out) + 2 \in Len(out) + 1 .. Len(out')
      BY <3>4
    <3> QED BY <3>1, <3>4, <3>5 DEF MatchMsg
  <2>5. CASE MarketStep
    <3>1. PICK rest : rest = Front(book, Opposite[req.side])
      OBVIOUS
    <3>2. /\ req \in Requests /\ Occupied(book, Opposite[req.side])
          /\ out' = out \o <<[id |-> req.id, client |-> req.client], MatchMsg(book, rest)>>
      BY <2>5, <3>1 DEF MarketStep, BookIInv, BookTypeOK
    <3>3. Opposite[req.side] \in Sides /\ [id |-> req.id, client |-> req.client] \in Matches
      BY <3>2, RequestFields DEF Opposite, Sides, Matches
    <3>4. rest \in LiveIds(book)
      BY <2>1, <3>1, <3>2, <3>3, FrontLive
    <3>5. id = rest
      BY <2>1, <2>5, <3>1, MarketStepInv
    <3>6. /\ Len(out) \in Nat /\ Len(out') = Len(out) + 2
          /\ out'[Len(out) + 2] = MatchMsg(book, rest)
      BY <2>1, <2>3, <3>2, <3>3, <3>4, TwoMore
    <3>7. Len(out) + 2 \in Len(out) + 1 .. Len(out')
      BY <3>6
    <3> QED BY <3>5, <3>6, <3>7 DEF MatchMsg
  <2>6. ~UNCHANGED book
    OBVIOUS
  <2> QED BY <2>2, <2>4, <2>5, <2>6
          DEF BookNext, matchOrders, matchMarket, MatchDone, MarketDone, Deliver,
                Undefined, bookVars
<1> QED BY <1>1, BookInvariant, PTL DEF BookSpec, ChangesAreAuthorised

-----------------------------------------------------------------------------
(* What process() returns is what happened                                 *)

\* Whatever can trade in book b, trades with x.
OwnCross(b, x) ==
    \A i, j \in LiveIds(b) :
        /\ b.orders[i].side = "BID"
        /\ b.orders[j].side = "ASK"
        /\ b.orders[i].price >= b.orders[j].price
        => i = x \/ j = x

\* The messages come in pairs, and x is a party of every pair.
PairsWith(o, x) ==
    \E h \in Nat : /\ Len(o) = 2 * h
                   /\ \A n \in 1 .. h : x \in {o[2 * n - 1].id, o[2 * n].id}

\* AnswerIsTrue speaks of the moment process() returns; on the way there the
\* matching loops keep what it needs.  That only the requested order can trade
\* is inherited from the uncrossed book the request found.
AnswerInv ==
    /\ pc = "idle" => out = << >> /\ filled = FALSE
    /\ pc # "idle" => PairsWith(out, req.id)
    /\ pc = "limit" =>
          /\ req.mtype # "CANCEL" /\ req.otype = "LIMIT"
          /\ filled <=> out # << >>
          /\ OwnCross(book, req.id)
          /\ out = << >> => RestsAsAsked(book, req)
    /\ pc = "market" =>
          /\ req.mtype # "CANCEL" /\ req.otype = "MARKET"
          /\ left = req.quantity \/ out # << >>
    /\ AnswerIsTrue

\* No message yet.
LEMMA NoPairs == ASSUME NEW x PROVE PairsWith(<< >>, x)
<1>1. Len(<< >>) = 2 * 0 /\ 0 \in Nat /\ \A n \in 1 .. 0 : FALSE
  OBVIOUS
<1> QED BY <1>1 DEF PairsWith

\* One more trade of x.
LEMMA OneMorePair ==
    ASSUME NEW o \in Seq(Matches), NEW m1 \in Matches, NEW m2 \in Matches,
           NEW x, x \in {m1.id, m2.id}, PairsWith(o, x), NEW r, r = o \o <<m1, m2>>
    PROVE  PairsWith(r, x) /\ r # << >>
<1>1. PICK h \in Nat : Len(o) = 2 * h /\ \A n \in 1 .. h : x \in {o[2 * n - 1].id, o[2 * n].id}
  BY DEF PairsWith
<1>2. /\ Len(r) = Len(o) + 2
      /\ \A i \in 1 .. Len(o) : r[i] = o[i]
      /\ r[Len(o) + 1] = m1 /\ r[Len(o) + 2] = m2
  BY TwoMore
<1>3. h + 1 \in Nat /\ Len(r) = 2 * (h + 1)
  BY <1>1, <1>2
<1>4. ASSUME NEW n \in 1 .. h + 1 PROVE x \in {r[2 * n - 1].id, r[2 * n].id}
  <2>1. CASE n \in 1 .. h
    <3>1. 2 * n - 1 \in 1 .. Len(o) /\ 2 * n \in 1 .. Len(o)
      BY <2>1, <1>1
    <3>2. r[2 * n - 1] = o[2 * n - 1] /\ r[2 * n] = o[2 * n]
      BY <3>1, <1>2
    <3> QED BY <3>2, <2>1, <1>1
  <2>2. CASE n = h + 1
    <3>1. 2 * n - 1 = Len(o) + 1 /\ 2 * n = Len(o) + 2
      BY <2>2, <1>1
    <3> QED BY <3>1, <1>2
  <2> QED BY <2>1, <2>2, <1>1
<1>5. PairsWith(r, x)
  BY <1>3, <1>4 DEF PairsWith
<1>6. r # << >>
  BY <1>3
<1> QED BY <1>5, <1>6

\* The second conjunct of AnswerIsTrue.
LEMMA PairsAnswer ==
    ASSUME NEW o, NEW x, PairsWith(o, x)
    PROVE  \A n \in 1 .. Len(o) \div 2 : x \in {o[2 * n - 1].id, o[2 * n].id}
<1>1. PICK h \in Nat : Len(o) = 2 * h /\ \A n \in 1 .. h : x \in {o[2 * n - 1].id, o[2 * n].id}
  BY DEF PairsWith
<1>2. (2 * h) \div 2 = h
  OBVIOUS
<1> QED BY <1>1, <1>2

\* process() returns from a matching loop or early.
LEMMA ReturnAnswer ==
    ASSUME pc' = "done", PairsWith(out', req'.id),
           result'.status = "FAILURE" => RefusalAnswer',
           result'.status = "SUCCESS" => AcceptedAnswer'
    PROVE  AnswerInv'
<1>1. \A n \in 1 .. Len(out') \div 2 : req'.id \in Parties(n)'
  BY PairsAnswer DEF Parties
<1>2. AnswerIsTrue'
  BY <1>1 DEF AnswerIsTrue
<1> QED BY <1>2 DEF AnswerInv

\* An order that arrives on an uncrossed book is part of every cross it makes.
LEMMA InsertOwnCross ==
    ASSUME NEW b \in Books, ~Crossed(b), NEW r, r.id \in Ids, NEW c, c = Insert(b, r)
    PROVE  OwnCross(c, r.id)
<1>1. c.orders = [b.orders EXCEPT ![r.id] = OrderOf(r)]
  BY InsertOrders
<1>2. \A i \in Ids : i # r.id => c.orders[i] = b.orders[i]
  BY <1>1 DEF Books
<1> QED BY <1>2 DEF OwnCross, Crossed, LiveIds

\* addOrder, for a NEW or as the second half of a modify, whose first half has
\* made room for it.
LEMMA AddOrderAnswer ==
    ASSUME BookTypeOK, NEW r \in Requests, r.mtype # "CANCEL",
           NEW b, BookInv(b), ~Crossed(b), addOrder(b, r),
           r.mtype = "MODIFY" => b.orders[r.id] = None /\ b.free > 0,
           req' = r, out' = << >>, filled = FALSE
    PROVE  AnswerInv'
<1>0. r.id \in Ids /\ r.mtype \in {"NEW", "MODIFY"} /\ PairsWith(out', r.id) /\ b \in Books
  BY RequestFields, NoPairs DEF Requests, LimitRequests, MarketRequests, CancelRequests, BookInv
<1>1. CASE r.otype = "MARKET" /\ book' = b /\ EnterMarket(r)
  BY <1>0, <1>1 DEF EnterMarket, AnswerInv, AnswerIsTrue
<1>2. CASE r.otype = "LIMIT" /\ (b.orders[r.id] # None \/ b.free = 0)
           /\ book' = b /\ Return("SUCCESS", FALSE)
  <2>1. r.mtype # "MODIFY"
    BY <1>2, <1>0 DEF BookInv, Books
  <2>2. pc' = "done" /\ result'.suppress = FALSE /\ result'.status = "SUCCESS"
    BY <1>2 DEF Return
  <2>3. LimitAnswer'
    BY <1>2, <2>1, <2>2 DEF LimitAnswer
  <2>4. AcceptedAnswer'
    BY <1>2, <2>3 DEF AcceptedAnswer
  <2> QED BY <1>0, <2>2, <2>4, ReturnAnswer
<1>3. CASE r.otype = "LIMIT" /\ r.price \in Prices /\ book' = Insert(b, r) /\ EnterLimit
  <2>1. OwnCross(book', r.id)
    BY <1>0, <1>3, InsertOwnCross
  <2>2. book'.orders = [b.orders EXCEPT ![r.id] = OrderOf(r)]
    BY <1>0, <1>3, InsertOrders
  <2>3. OrderOf(r) \in Order
    BY <1>0, <1>3, RequestFields, QtyAssumption DEF OrderOf, Order
  <2>4. book'.orders[r.id] = OrderOf(r) /\ OrderOf(r) # None
    BY <1>0, <2>2, <2>3, NoneAssumption DEF Books
  <2>5. RestsAsAsked(book', r)
    BY <2>4 DEF RestsAsAsked, OrderOf
  <2>6. pc' = "limit" /\ filled' = FALSE
    BY <1>3 DEF EnterLimit
  <2> QED BY <1>0, <1>3, <2>1, <2>5, <2>6 DEF AnswerInv, AnswerIsTrue
<1>4. CASE pc' = "undefined"
  BY <1>0, <1>4 DEF AnswerInv, AnswerIsTrue
<1> QED BY <1>1, <1>2, <1>3, <1>4 DEF addOrder

\* A request reaches the book.
LEMMA ProcessAnswer ==
    ASSUME BookIInv, AnswerInv, NEW r \in Requests, process(r)
    PROVE  AnswerInv'
<1>1. /\ pc = "idle" /\ req' = r /\ out = << >> /\ out' = << >> /\ filled = FALSE
      /\ BookTypeOK /\ BookInv(book) /\ ~Crossed(book) /\ r.id \in Ids
      /\ PairsWith(out', r.id)
  BY NoPairs, RequestFields DEF BookIInv, RestingUncrossed, AnswerInv, process,
     ProcessNew, ProcessCancel, ProcessModify, Accept
<1>2. CASE ProcessNew(r)
  <2>1. r.mtype = "NEW" /\ addOrder(book, r)
    BY <1>2 DEF ProcessNew
  <2> QED BY <1>1, <2>1, AddOrderAnswer
<1>3. CASE ProcessCancel(r)
  <2>1. r.mtype = "CANCEL" /\ pc' = "done"
    BY <1>3 DEF ProcessCancel, Return
  <2>2. CASE MayCancel(book, r)
    <3>1. r.id \in LiveIds(book)
      BY <1>1, <2>2 DEF MayCancel, LiveIds
    <3>2. result'.status = "SUCCESS" /\ book' = cancelOrder(book, r.id)
      BY <1>3, <2>2 DEF ProcessCancel, Return
    <3>3. book'.orders[r.id] = None
      <4>1. book'.orders = [book.orders EXCEPT ![r.id] = None]
        BY <1>1, <3>1, <3>2, CancelInv
      <4> QED BY <1>1, <4>1 DEF BookInv, Books
    <3>4. AcceptedAnswer'
      BY <1>1, <2>1, <3>3 DEF AcceptedAnswer
    <3> QED BY <1>1, <2>1, <3>2, <3>4, ReturnAnswer
  <2>3. CASE ~MayCancel(book, r)
    <3>1. result'.status = "FAILURE" /\ book' = book
      BY <1>3, <2>3 DEF ProcessCancel, Return
    <3>2. RefusalAnswer'
      BY <1>1, <2>1, <2>3, <3>1 DEF RefusalAnswer, MayCancel
    <3> QED BY <1>1, <2>1, <3>1, <3>2, ReturnAnswer
  <2> QED BY <2>2, <2>3
<1>4. CASE ProcessModify(r)
  <2>0. r.mtype = "MODIFY" /\ r.otype \in {"LIMIT", "MARKET"}
    BY <1>4, RequestFields DEF ProcessModify
  <2>1. CASE ~MayModify(book, r) /\ book' = book /\ Return("FAILURE", FALSE)
    <3>1. pc' = "done" /\ result'.status = "FAILURE"
      BY <2>1 DEF Return
    <3>2. RefusalAnswer'
      BY <1>1, <2>0, <2>1 DEF RefusalAnswer, MayModify, MayCancel
    <3> QED BY <1>1, <3>1, <3>2, ReturnAnswer
  <2>2. CASE MayModify(book, r) /\ addOrder(cancelOrder(book, r.id), r)
    <3>1. r.id \in LiveIds(book)
      BY <1>1, <2>2 DEF MayModify, MayCancel, LiveIds
    <3>2. PICK b : b = cancelOrder(book, r.id)
      OBVIOUS
    <3>3. BookInv(b) /\ Shrinks(book, b) /\ b.orders[r.id] = None /\ b.free > 0
      <4>1. BookInv(book)
        BY <1>1
      <4> QED BY <4>1, <3>1, <3>2, CancelInv, ZenonT(90)
    <3>4. ~Crossed(b)
      BY <1>1, <3>3, ShrinkUncrossed
    <3> QED BY <1>1, <2>0, <2>2, <3>2, <3>3, <3>4, AddOrderAnswer
  <2>3. CASE MayModify(book, r) /\ KeepsPlace(book, r) /\ book' = book
             /\ IF r.otype = "MARKET" THEN EnterMarket(r) ELSE EnterLimit
    <3>1. RestsAsAsked(book', r)
      BY <2>3 DEF MayModify, MayCancel, KeepsPlace, RestsAsAsked
    <3>2. OwnCross(book', r.id)
      BY <1>1, <2>3 DEF OwnCross, Crossed
    <3>3. \/ pc' = "limit" /\ r.otype = "LIMIT" /\ filled' = FALSE
          \/ pc' = "market" /\ r.otype = "MARKET" /\ left' = r.quantity
      BY <1>1, <2>0, <2>3 DEF EnterMarket, EnterLimit
    <3> QED BY <1>1, <2>0, <3>1, <3>2, <3>3 DEF AnswerInv, AnswerIsTrue
  <2> QED BY <1>4, <2>1, <2>2, <2>3 DEF ProcessModify
<1> QED BY <1>2, <1>3, <1>4 DEF process

\* An iteration of matchOrders trades the requested order.
LEMMA MatchStepAnswer ==
    ASSUME BookIInv, AnswerInv, MatchStep
    PROVE  AnswerInv'
<1> DEFINE bid == Front(book, "BID")
           ask == Front(book, "ASK")
<1>1. /\ pc = "limit" /\ Crosses(book) /\ BookInv(book) /\ OwnCross(book, req.id)
      /\ out' = out \o <<MatchMsg(book, bid), MatchMsg(book, ask)>>
      /\ out \in Seq(Matches) /\ PairsWith(out, req.id)
      /\ pc' = pc /\ req' = req /\ filled' = TRUE
      /\ req.mtype # "CANCEL" /\ req.otype = "LIMIT"
      /\ "BID" \in Sides /\ "ASK" \in Sides
  BY DEF MatchStep, BookIInv, BookTypeOK, AnswerInv, Sides
<1>2. /\ bid \in LiveIds(book) /\ book.orders[bid] \in Order
      /\ book.orders[bid].side = "BID" /\ book.orders[bid].price = book.best["BID"]
      /\ ask \in LiveIds(book) /\ book.orders[ask] \in Order
      /\ book.orders[ask].side = "ASK" /\ book.orders[ask].price = book.best["ASK"]
      /\ book.best["BID"] >= book.best["ASK"]
  BY <1>1, FrontLive DEF Crosses
<1> HIDE DEF bid, ask
<1>3. req.id = bid \/ req.id = ask
  BY <1>1, <1>2 DEF OwnCross
<1>4. PairsWith(out', req.id) /\ out' # << >>
  <2>1. MatchMsg(book, bid) \in Matches /\ MatchMsg(book, ask) \in Matches
    BY <1>2 DEF MatchMsg, Matches, Order, LiveIds
  <2>2. req.id \in {MatchMsg(book, bid).id, MatchMsg(book, ask).id}
    BY <1>3 DEF MatchMsg
  <2> QED BY <1>1, <2>1, <2>2, OneMorePair
<1>5. OwnCross(book', req.id)
  <2>1. Shrinks(book, book')
    BY MatchStepInv
  <2> QED BY <1>1, <2>1, SMTT(30) DEF Shrinks, OwnCross, LiveIds
<1> QED BY <1>1, <1>4, <1>5 DEF AnswerInv, AnswerIsTrue

\* An iteration of matchMarket trades on the requested order's account.
LEMMA MarketStepAnswer ==
    ASSUME BookIInv, AnswerInv, MarketStep
    PROVE  AnswerInv'
<1>0. PICK rest : rest = Front(book, Opposite[req.side])
  OBVIOUS
<1>1. /\ pc = "market" /\ BookInv(book) /\ req \in Requests
      /\ out' = out \o <<[id |-> req.id, client |-> req.client], MatchMsg(book, rest)>>
      /\ out \in Seq(Matches) /\ PairsWith(out, req.id)
      /\ pc' = pc /\ req' = req /\ req.otype = "MARKET" /\ req.mtype # "CANCEL"
      /\ Occupied(book, Opposite[req.side])
  BY <1>0 DEF MarketStep, BookIInv, BookTypeOK, AnswerInv
<1>2. Opposite[req.side] \in Sides /\ req.id \in Ids /\ req.client \in Clients
  BY <1>1, RequestFields DEF Opposite, Sides
<1>3. rest \in LiveIds(book) /\ book.orders[rest] \in Order
  BY <1>0, <1>1, <1>2, FrontLive
<1>4. PairsWith(out', req.id) /\ out' # << >>
  <2> DEFINE m == [id |-> req.id, client |-> req.client]
  <2>1. m \in Matches /\ MatchMsg(book, rest) \in Matches /\ req.id = m.id
    BY <1>2, <1>3 DEF MatchMsg, Matches, Order, LiveIds
  <2> HIDE DEF m
  <2>2. out' = out \o <<m, MatchMsg(book, rest)>>
    BY <1>1 DEF m
  <2> QED BY <1>1, <2>1, <2>2, OneMorePair
<1> QED BY <1>1, <1>4 DEF AnswerInv, AnswerIsTrue

\* matchOrders returns.
LEMMA MatchDoneAnswer ==
    ASSUME BookIInv, AnswerInv, MatchDone
    PROVE  AnswerInv'
<1>1. /\ pc = "limit" /\ pc' = "done" /\ UNCHANGED <<book, req, left, filled, out>>
      /\ result'.suppress = filled /\ result'.status = "SUCCESS" /\ filled \in BOOLEAN
  BY DEF MatchDone, Return, BookIInv, BookTypeOK
<1>2. /\ req.mtype # "CANCEL" /\ req.otype = "LIMIT"
      /\ filled <=> out # << >>
      /\ out = << >> => RestsAsAsked(book, req)
      /\ PairsWith(out, req.id)
  BY <1>1 DEF AnswerInv
<1>3. LimitAnswer'
  BY <1>1, <1>2 DEF LimitAnswer, RestsAsAsked
<1>4. AcceptedAnswer'
  BY <1>1, <1>2, <1>3 DEF AcceptedAnswer
<1> QED BY <1>1, <1>2, <1>4, ReturnAnswer

\* matchMarket returns: with nothing left of its order, or nothing left to trade with.
LEMMA MarketDoneAnswer ==
    ASSUME BookIInv, AnswerInv, MarketDone
    PROVE  AnswerInv'
<1>1. /\ pc = "market" /\ pc' = "done" /\ UNCHANGED <<book, req, left, filled, out>>
      /\ result' = [status |-> "SUCCESS", suppress |-> left = 0]
      /\ left = 0 \/ ~Occupied(book, Opposite[req.side])
      /\ left \in Nat /\ BookInv(book) /\ req \in Requests
  BY DEF MarketDone, Return, BookIInv, BookTypeOK
<1>a. result'.status = "SUCCESS" /\ (result'.suppress <=> left = 0)
  BY <1>1, Zenon
<1>2. /\ req.mtype # "CANCEL" /\ req.otype = "MARKET"
      /\ left = req.quantity \/ out # << >>
      /\ PairsWith(out, req.id)
  BY <1>1 DEF AnswerInv
<1>3. Opposite[req.side] \in Sides
  BY <1>1, RequestFields DEF Opposite, Sides
<1>4. left # 0 => \A p \in Prices : book.levels[Opposite[req.side]][p] = << >>
  BY <1>1, <1>3, OccupiedSeen
<1>5. MarketAnswer'
  <2>1. CASE left = 0
    <3>1. result'.suppress
      BY <1>a, <2>1
    <3>2. left' = 0 /\ (req'.quantity > 0 => out' # << >>)
      BY <1>1, <1>2, <2>1
    <3> QED BY <3>1, <3>2 DEF MarketAnswer
  <2>2. CASE left # 0
    <3>1. left > 0 /\ ~result'.suppress
      BY <1>1, <1>a, <2>2
    <3> QED BY <1>1, <1>4, <2>2, <3>1 DEF MarketAnswer
  <2> QED BY <2>1, <2>2
<1>6. AcceptedAnswer'
  BY <1>1, <1>2, <1>5 DEF AcceptedAnswer
<1> QED BY <1>1, <1>2, <1>6, <1>a, ReturnAnswer

\* What process() returns and pushes is what has happened to the book: a refusal is
\* justified, an accepted cancel has removed its order, MATCHes take the place of a
\* limit order's acknowledgement, a limit order that did not trade rests unless the
\* pool is exhausted (after a MODIFY always, and as asked for), and a market order
\* goes unacknowledged exactly when nothing of it is left, else it has left the
\* opposite side empty (Orderbook::process, matchOrders, matchMarket).
THEOREM AnswerCorrect == BookSpec => []AnswerIsTrue
<1>1. BookInit => AnswerInv
  BY DEF BookInit, AnswerInv, AnswerIsTrue
<1>2. BookIInv /\ AnswerInv /\ [BookNext]_bookVars => AnswerInv'
  <2> SUFFICES ASSUME BookIInv, AnswerInv, [BookNext]_bookVars PROVE AnswerInv'
    OBVIOUS
  <2>1. ASSUME NEW r \in Requests, process(r) PROVE AnswerInv'
    BY <2>1, ProcessAnswer
  <2>2. CASE MatchStep
    BY <2>2, MatchStepAnswer
  <2>3. CASE MatchDone
    BY <2>3, MatchDoneAnswer
  <2>4. CASE MarketStep
    BY <2>4, MarketStepAnswer
  <2>5. CASE MarketDone
    BY <2>5, MarketDoneAnswer
  <2>6. CASE Deliver
    BY <2>6 DEF Deliver, AnswerInv, AnswerIsTrue
  <2>7. CASE UNCHANGED bookVars
    BY <2>7 DEF bookVars, AnswerInv, AnswerIsTrue, Parties, RefusalAnswer, AcceptedAnswer,
                LimitAnswer, MarketAnswer, MayCancel, MayModify
  <2> QED BY <2>1, <2>2, <2>3, <2>4, <2>5, <2>6, <2>7
          DEF BookNext, matchOrders, matchMarket, Undefined
<1>3. AnswerInv => AnswerIsTrue
  BY DEF AnswerInv
<1> QED BY <1>1, <1>2, <1>3, BookInvariant, PTL DEF BookSpec

-----------------------------------------------------------------------------
(* Time priority                                                           *)

\* i is ahead of j in queue q, and in one of the queues of book b.
Before(q, i, j) == \E m, n \in 1 .. Len(q) : m < n /\ q[m] = i /\ q[n] = j
Ahead(b, i, j)  == \E s \in Sides, p \in Prices : Before(b.levels[s][p], i, j)

\* Nobody gets ahead of anybody, from b to c.
NoJump(b, c) == \A i, j \in Ids : Ahead(c, i, j) => Ahead(b, i, j)

\* Place and SameLevel say the same as Ahead.
LEMMA PlaceAhead ==
    ASSUME NEW b, BookInv(b), NEW i \in LiveIds(b), NEW j \in LiveIds(b)
    PROVE  Ahead(b, i, j) <=> SameLevel(b, i, j) /\ Place(b, i) < Place(b, j)
<1>1. ASSUME NEW k \in LiveIds(b)
      PROVE  /\ k \in Ids /\ b.orders[k] # None
             /\ b.orders[k].side \in Sides /\ b.orders[k].price \in Prices
             /\ LET q == b.levels[b.orders[k].side][b.orders[k].price]
                IN  Place(b, k) \in 1 .. Len(q) /\ q[Place(b, k)] = k
  <2>1. b \in Books /\ k \in Ids /\ b.orders[k] # None /\ b.orders[k] \in Order
    BY <1>1 DEF LiveIds, BookInv, Books
  <2>2. b.orders[k].side \in Sides /\ b.orders[k].price \in Prices
    BY <2>1 DEF Order
  <2>3. PICK q : q = b.levels[b.orders[k].side][b.orders[k].price]
    OBVIOUS
  <2>4. Queued(k, q)
    BY <2>1, <2>2, <2>3 DEF BookInv, Indexed
  <2>5. Place(b, k) \in 1 .. Len(q) /\ q[Place(b, k)] = k
    BY <2>3, <2>4, Zenon DEF Place, Queued
  <2> QED BY <2>1, <2>2, <2>3, <2>5
<1>2. ASSUME SameLevel(b, i, j), Place(b, i) < Place(b, j) PROVE Ahead(b, i, j)
  <2>1. PICK q : q = b.levels[b.orders[i].side][b.orders[i].price]
    OBVIOUS
  <2>2. q = b.levels[b.orders[j].side][b.orders[j].price]
    BY <1>2, <2>1 DEF SameLevel
  <2>3. /\ Place(b, i) \in 1 .. Len(q) /\ q[Place(b, i)] = i
        /\ Place(b, j) \in 1 .. Len(q) /\ q[Place(b, j)] = j
    BY <1>1, <2>1, <2>2
  <2>4. Before(q, i, j)
    BY <1>2, <2>3 DEF Before
  <2> QED BY <1>1, <2>1, <2>4 DEF Ahead
<1>3. ASSUME Ahead(b, i, j) PROVE SameLevel(b, i, j) /\ Place(b, i) < Place(b, j)
  <2>1. PICK s \in Sides, p \in Prices : Before(b.levels[s][p], i, j)
    BY <1>3 DEF Ahead
  <2>2. PICK q : q = b.levels[s][p]
    OBVIOUS
  <2>3. PICK m \in 1 .. Len(q), n \in 1 .. Len(q) : m < n /\ q[m] = i /\ q[n] = j
    BY <2>1, <2>2 DEF Before
  <2>4. Queued(i, b.levels[s][p]) /\ Queued(j, b.levels[s][p])
    BY <2>2, <2>3 DEF Queued
  <2>5. /\ b.orders[i].side = s /\ b.orders[i].price = p
        /\ b.orders[j].side = s /\ b.orders[j].price = p
    BY <1>1, <2>4 DEF BookInv, Indexed
  <2>6. Distinct(q)
    BY <2>2 DEF BookInv, QueuedOnce
  <2>7. /\ Place(b, i) \in 1 .. Len(q) /\ q[Place(b, i)] = i
        /\ Place(b, j) \in 1 .. Len(q) /\ q[Place(b, j)] = j
    BY <1>1, <2>2, <2>5
  <2>8. Place(b, i) = m /\ Place(b, j) = n
    BY <2>3, <2>6, <2>7 DEF Distinct
  <2> QED BY <2>3, <2>5, <2>8 DEF SameLevel
<1> QED BY <1>2, <1>3

\* Who is ahead of somebody is in the book, with him.
LEMMA AheadLive ==
    ASSUME NEW b, BookInv(b), NEW i \in Ids, NEW j \in Ids, Ahead(b, i, j)
    PROVE  i \in LiveIds(b) /\ j \in LiveIds(b)
<1>1. PICK s \in Sides, p \in Prices : Before(b.levels[s][p], i, j)
  BY DEF Ahead
<1>2. Queued(i, b.levels[s][p]) /\ Queued(j, b.levels[s][p])
  BY <1>1 DEF Before, Queued
<1> QED BY <1>2 DEF BookInv, Indexed, LiveIds

\* PriceLevelQueue::remove keeps the order of the others.
LEMMA WithoutBefore ==
    ASSUME NEW q \in Seq(Ids), NEW x \in Ids, Queued(x, q), NEW i, NEW j,
           Before(Without(q, x), i, j)
    PROVE  Before(q, i, j)
<1>1. PICK k \in 1 .. Len(q) :
          Without(q, x) = [a \in 1 .. Len(q) - 1 |-> IF a < k THEN q[a] ELSE q[a + 1]]
  <2>1. \E a \in 1 .. Len(q) : q[a] = x
    BY DEF Queued
  <2> QED BY <2>1 DEF Without
<1>2. PICK r : r = Without(q, x)
  OBVIOUS
<1>3. Len(q) \in Nat /\ Len(q) - 1 \in Nat
  BY <1>1
<1>4. /\ Len(r) = Len(q) - 1
      /\ \A a \in 1 .. Len(q) - 1 : r[a] = IF a < k THEN q[a] ELSE q[a + 1]
  BY <1>1, <1>2, <1>3
<1>5. PICK m \in 1 .. Len(r), n \in 1 .. Len(r) : m < n /\ r[m] = i /\ r[n] = j
  BY <1>2 DEF Before
<1> DEFINE u == IF m < k THEN m ELSE m + 1
           v == IF n < k THEN n ELSE n + 1
<1>6. u \in 1 .. Len(q) /\ v \in 1 .. Len(q) /\ u < v
  BY <1>1, <1>3, <1>4, <1>5
<1>7. q[u] = i /\ q[v] = j
  BY <1>3, <1>4, <1>5
<1> QED BY <1>6, <1>7 DEF Before

\* So does PriceLevelQueue::pop.
LEMMA TailBefore ==
    ASSUME NEW q \in Seq(Ids), q # << >>, NEW i, NEW j, Before(Tail(q), i, j)
    PROVE  Before(q, i, j)
<1>1. /\ Len(q) \in Nat \ {0} /\ Len(Tail(q)) = Len(q) - 1
      /\ \A a \in 1 .. Len(q) - 1 : Tail(q)[a] = q[a + 1]
  OBVIOUS
<1>2. PICK m \in 1 .. Len(Tail(q)), n \in 1 .. Len(Tail(q)) :
          m < n /\ Tail(q)[m] = i /\ Tail(q)[n] = j
  BY DEF Before
<1>3. m + 1 \in 1 .. Len(q) /\ n + 1 \in 1 .. Len(q) /\ m + 1 < n + 1
  BY <1>1, <1>2
<1>4. q[m + 1] = i /\ q[n + 1] = j
  BY <1>1, <1>2
<1> QED BY <1>3, <1>4 DEF Before

\* PriceLevelQueue::push puts nobody ahead of anybody but the order it adds.
LEMMA AppendBefore ==
    ASSUME NEW q \in Seq(Ids), NEW x \in Ids, NEW i, NEW j, j # x, Before(Append(q, x), i, j)
    PROVE  Before(q, i, j)
<1>1. PICK r : r = Append(q, x)
  OBVIOUS
<1>2. /\ Len(q) \in Nat /\ Len(r) = Len(q) + 1 /\ r[Len(q) + 1] = x
      /\ \A a \in 1 .. Len(q) : r[a] = q[a]
  BY <1>1
<1>3. PICK m \in 1 .. Len(r), n \in 1 .. Len(r) : m < n /\ r[m] = i /\ r[n] = j
  BY <1>1 DEF Before
<1>4. n \in 1 .. Len(q) /\ m \in 1 .. Len(q)
  BY <1>2, <1>3
<1> QED BY <1>2, <1>3, <1>4 DEF Before

\* Unlink touches one queue.
LEMMA UnlinkLevels ==
    ASSUME NEW b \in Books, NEW id \in LiveIds(b), NEW q, NEW c, c = Unlink(b, id, q)
    PROVE  c.levels = [b.levels EXCEPT ![b.orders[id].side][b.orders[id].price] = q]
<1> DEFINE o  == b.orders[id]
           b1 == [b EXCEPT !.levels[o.side][o.price] = q,
                           !.orders[id] = None,
                           !.free = @ + 1]
<1>0. id \in Ids /\ o # None /\ o \in Order /\ b \in Books
  BY DEF LiveIds, Books
<1>1. b1.levels = [b.levels EXCEPT ![o.side][o.price] = q] /\ "levels" \in DOMAIN b1
  BY <1>0, SMTT(40) DEF Books
<1>2. c = IF q = << >> THEN LevelEmptied(b1, o.side, o.price) ELSE b1
  BY DEF Unlink
<1> HIDE DEF b1, o
<1>3. LevelEmptied(b1, o.side, o.price).levels = b1.levels
  BY <1>1 DEF LevelEmptied
<1> QED BY <1>1, <1>2, <1>3 DEF o

\* The removal of an order moves nobody ahead.
LEMMA UnlinkNoJump ==
    ASSUME NEW b, BookInv(b), NEW id \in LiveIds(b), NEW q, NEW c, c = Unlink(b, id, q),
           \A i, j : Before(q, i, j) =>
                        Before(b.levels[b.orders[id].side][b.orders[id].price], i, j)
    PROVE  NoJump(b, c)
<1>1. b \in Books /\ b.orders[id].side \in Sides /\ b.orders[id].price \in Prices
  BY DEF BookInv, LiveIds, Books, Order
<1>2. PICK s0, p0 : s0 = b.orders[id].side /\ p0 = b.orders[id].price
  OBVIOUS
<1>3. c.levels = [b.levels EXCEPT ![s0][p0] = q]
  BY <1>1, <1>2, UnlinkLevels
<1>4. \A s \in Sides, p \in Prices :
         c.levels[s][p] = IF s = s0 /\ p = p0 THEN q ELSE b.levels[s][p]
  BY <1>1, <1>3 DEF Books
<1>5. ASSUME NEW i \in Ids, NEW j \in Ids, Ahead(c, i, j) PROVE Ahead(b, i, j)
  <2>1. PICK s \in Sides, p \in Prices : Before(c.levels[s][p], i, j)
    BY <1>5 DEF Ahead
  <2>2. Before(b.levels[s][p], i, j)
    BY <1>2, <1>4, <2>1
  <2> QED BY <2>2 DEF Ahead
<1> QED BY <1>5 DEF NoJump

\* cancelOrder
LEMMA CancelNoJump ==
    ASSUME NEW b, BookInv(b), NEW id \in LiveIds(b), NEW c, c = cancelOrder(b, id)
    PROVE  NoJump(b, c)
<1>1. PICK q : q = b.levels[b.orders[id].side][b.orders[id].price]
  OBVIOUS
<1>2. b \in Books /\ id \in Ids /\ b.orders[id] \in Order /\ b.orders[id] # None
  BY DEF BookInv, LiveIds, Books
<1>3. b.orders[id].side \in Sides /\ b.orders[id].price \in Prices
  BY <1>2 DEF Order
<1>4. q \in Seq(Ids) /\ Queued(id, q)
  BY <1>1, <1>2, <1>3 DEF BookInv, Books, Indexed
<1>5. PICK w : w = Without(q, id)
  OBVIOUS
<1>6. \A i, j : Before(w, i, j) => Before(q, i, j)
  BY <1>2, <1>4, <1>5, WithoutBefore, SMTT(30)
<1>7. c = Unlink(b, id, w)
  BY <1>1, <1>5 DEF cancelOrder
<1> QED BY <1>1, <1>6, <1>7, UnlinkNoJump

\* One party of a trade.
LEMMA FillNoJump ==
    ASSUME NEW b, BookInv(b), NEW s \in Sides, Occupied(b, s),
           NEW id, id = Front(b, s),
           NEW n \in Nat, n <= b.orders[id].remaining,
           NEW c, c = Fill(b, id, n)
    PROVE  NoJump(b, c)
<1>0. PICK b1 : b1 = Reduce(b, id, n)
  OBVIOUS
<1>1. id \in LiveIds(b) /\ b.orders[id].side = s /\ b.orders[id].price = b.best[s]
  BY FrontLive
<1>2. /\ BookInv(b1) /\ LiveIds(b1) = LiveIds(b) /\ b1.levels = b.levels
      /\ b1.orders[id].side = s /\ b1.orders[id].price = b.best[s]
  BY <1>0, <1>1, ReduceInv
<1>3. NoJump(b, b1)
  BY <1>2 DEF NoJump, Ahead
<1>4. PICK q : q = b.levels[s][b.best[s]]
  OBVIOUS
<1>5. q \in Seq(Ids) /\ q # << >>
  BY <1>4 DEF BookInv, Books, Occupied
<1>6. PICK w : w = Tail(q)
  OBVIOUS
<1>7. \A i, j : Before(w, i, j) => Before(q, i, j)
  BY <1>5, <1>6, TailBefore
<1>8. c = IF b1.orders[id].remaining = 0 THEN Unlink(b1, id, w) ELSE b1
  BY <1>0, <1>2, <1>4, <1>6 DEF Fill
<1>9. ASSUME c = Unlink(b1, id, w) PROVE NoJump(b1, c)
  BY <1>1, <1>2, <1>4, <1>7, <1>9, UnlinkNoJump
<1> QED BY <1>3, <1>8, <1>9 DEF NoJump

\* A limit order enters the book behind everybody.
LEMMA InsertNoJump ==
    ASSUME NEW b \in Books, NEW r, r.id \in Ids, r.side \in Sides, r.price \in Prices,
           NEW c, c = Insert(b, r), NEW i \in Ids, NEW j \in Ids, j # r.id, Ahead(c, i, j)
    PROVE  Ahead(b, i, j)
<1>1. c.levels = [b.levels EXCEPT ![r.side][r.price] = Append(@, r.id)]
  BY DEF Insert, Books
<1>2. PICK s \in Sides, p \in Prices : Before(c.levels[s][p], i, j)
  BY DEF Ahead
<1>3. b.levels[s][p] \in Seq(Ids)
  BY DEF Books
<1>4. c.levels[s][p] = IF s = r.side /\ p = r.price THEN Append(b.levels[s][p], r.id)
                                                    ELSE b.levels[s][p]
  BY <1>1 DEF Books
<1>5. Before(b.levels[s][p], i, j)
  BY <1>2, <1>3, <1>4, AppendBefore
<1> QED BY <1>5 DEF Ahead

\* addOrder, on the book or on what a cancel left of it.
LEMMA AddOrderNoJump ==
    ASSUME NEW b \in Books, NEW r \in Requests, r.mtype # "CANCEL", addOrder(b, r),
           NEW i \in Ids, NEW j \in Ids, b.orders[r.id] = None => j # r.id, Ahead(book', i, j)
    PROVE  Ahead(b, i, j)
<1>1. CASE book' = b
  BY <1>1
<1>2. CASE r.price \in Prices /\ b.orders[r.id] = None /\ book' = Insert(b, r)
  <2>1. r.id \in Ids /\ r.side \in Sides
    BY RequestFields
  <2> QED BY <1>2, <2>1, InsertNoJump
<1> QED BY <1>1, <1>2 DEF addOrder

\* Everybody in its queue is ahead of an order that enters the book.
LEMMA InsertLast ==
    ASSUME NEW b, BookInv(b), NEW r, r.id \in Ids, r.side \in Sides, r.price \in Prices,
           b.orders[r.id] = None, NEW c, c = Insert(b, r), BookInv(c),
           NEW i \in LiveIds(c), i # r.id, SameLevel(c, i, r.id)
    PROVE  Ahead(c, i, r.id)
<1>1. b \in Books /\ i \in Ids /\ c.orders[i] # None
  BY DEF BookInv, LiveIds
<1>2. c.orders = [b.orders EXCEPT ![r.id] = OrderOf(r)]
  BY <1>1, InsertOrders
<1>3. c.orders[r.id].side = r.side /\ c.orders[r.id].price = r.price
  BY <1>1, <1>2 DEF Books, OrderOf
<1>4. PICK q : q = b.levels[r.side][r.price]
  OBVIOUS
<1>5. q \in Seq(Ids) /\ c.levels[r.side][r.price] = Append(q, r.id)
  BY <1>1, <1>4, ZenonT(30) DEF Insert, Books
<1>6. Queued(i, Append(q, r.id))
  <2>1. c.orders[i].side = r.side /\ c.orders[i].price = r.price
    BY <1>3 DEF SameLevel
  <2>2. Queued(i, c.levels[r.side][r.price])
    BY <1>1, <2>1 DEF BookInv, Indexed
  <2> QED BY <1>5, <2>2
<1>7. PICK w : w = Append(q, r.id)
  OBVIOUS
<1>8. /\ Len(q) \in Nat /\ Len(w) = Len(q) + 1 /\ w[Len(q) + 1] = r.id
      /\ \A a \in 1 .. Len(q) : w[a] = q[a]
  BY <1>5, <1>7
<1>9. PICK m \in 1 .. Len(w) : w[m] = i
  BY <1>6, <1>7 DEF Queued
<1>10. m < Len(q) + 1 /\ Len(q) + 1 \in 1 .. Len(w)
  BY <1>8, <1>9
<1>11. Before(w, i, r.id)
  BY <1>8, <1>9, <1>10 DEF Before
<1> QED BY <1>5, <1>7, <1>11, Zenon DEF Ahead

\* addOrder either leaves the book as it is or enters its order.
LEMMA AddOrderEnters ==
    ASSUME NEW b \in Books, NEW r \in Requests, addOrder(b, r)
    PROVE  \/ book' = b
           \/ b.orders[r.id] = None /\ r.price \in Prices /\ book' = Insert(b, r)
BY DEF addOrder

\* A request whose order stays as it is changes nothing at all; one that enters or
\* re-enters an order puts it behind everybody.
LEMMA ProcessOwn ==
    ASSUME BookIInv, BookIInv', NEW r \in Requests, process(r),
           NEW id \in LiveIds(book'), ~Stays(id)
    PROVE  id = r.id /\ \E b : /\ BookInv(b) /\ b.orders[r.id] = None
                                /\ r.price \in Prices /\ book' = Insert(b, r)
<1>1. /\ BookInv(book) /\ book \in Books /\ id \in Ids /\ r.id \in Ids /\ pc = "idle"
      /\ book'.orders[id] # None
  BY RequestFields DEF BookIInv, BookInv, LiveIds, process, ProcessNew, ProcessCancel,
     ProcessModify, Accept
<1>2. book'.orders[id] # book.orders[id]
  BY <1>1 DEF Stays
<1>3. ASSUME NEW b, BookInv(b), addOrder(b, r), book'.orders[id] # b.orders[id]
      PROVE  id = r.id /\ b.orders[r.id] = None /\ r.price \in Prices /\ book' = Insert(b, r)
  <2>1. b \in Books
    BY <1>3 DEF BookInv
  <2>2. b.orders[r.id] = None /\ r.price \in Prices /\ book' = Insert(b, r)
    BY <1>3, <2>1, AddOrderEnters
  <2>3. book'.orders = [b.orders EXCEPT ![r.id] = OrderOf(r)]
    BY <1>1, <2>1, <2>2, InsertOrders
  <2>4. id = r.id
    BY <1>1, <1>3, <2>1, <2>3 DEF Books
  <2> QED BY <2>2, <2>4
<1>4. CASE ProcessNew(r)
  BY <1>1, <1>2, <1>3, <1>4 DEF ProcessNew
<1>5. ASSUME MayCancel(book, r), NEW c, c = cancelOrder(book, r.id)
      PROVE  BookInv(c) /\ c.orders = [book.orders EXCEPT ![r.id] = None]
  <2>1. r.id \in LiveIds(book)
    BY <1>1, <1>5 DEF MayCancel, LiveIds
  <2> QED BY <1>1, <1>5, <2>1, CancelInv
<1>6. CASE ProcessCancel(r)
  <2>1. MayCancel(book, r) /\ book' = cancelOrder(book, r.id)
    BY <1>2, <1>6 DEF ProcessCancel
  <2>2. book'.orders = [book.orders EXCEPT ![r.id] = None]
    BY <1>5, <2>1
  <2> QED BY <1>1, <1>2, <2>2 DEF Books
<1>7. CASE ProcessModify(r)
  <2>1. MayCancel(book, r) /\ addOrder(cancelOrder(book, r.id), r)
    BY <1>2, <1>7 DEF ProcessModify, MayModify
  <2>2. PICK c : c = cancelOrder(book, r.id)
    OBVIOUS
  <2>3. BookInv(c) /\ c.orders = [book.orders EXCEPT ![r.id] = None]
    BY <1>5, <2>1, <2>2
  <2>4. book'.orders[id] # c.orders[id]
    BY <1>1, <1>2, <2>3 DEF Books
  <2> QED BY <1>3, <2>1, <2>2, <2>3, <2>4
<1> QED BY <1>4, <1>6, <1>7 DEF process

\* A modify that leaves its order's record as it is leaves the book as it is.
LEMMA ProcessKeeps ==
    ASSUME BookIInv, NEW r \in Requests, process(r), r.id \in LiveIds(book),
           book'.orders[r.id] = book.orders[r.id]
    PROVE  book' = book
<1>1. /\ BookInv(book) /\ book \in Books /\ r.id \in Ids
      /\ book.orders[r.id] # None
  BY RequestFields DEF BookIInv, BookInv, LiveIds
<1>2. CASE ProcessNew(r)
  BY <1>1, <1>2, AddOrderEnters DEF ProcessNew
<1>3. ASSUME NEW c, c = cancelOrder(book, r.id)
      PROVE  c \in Books /\ c.orders[r.id] = None
  <2>1. BookInv(c) /\ c.orders = [book.orders EXCEPT ![r.id] = None]
    BY <1>1, <1>3, CancelInv
  <2> QED BY <1>1, <2>1 DEF BookInv, Books
<1>4. CASE ProcessCancel(r)
  BY <1>1, <1>3, <1>4 DEF ProcessCancel
<1>5. CASE ProcessModify(r)
  <2> SUFFICES ASSUME ~KeepsPlace(book, r), addOrder(cancelOrder(book, r.id), r) PROVE FALSE
    BY <1>5 DEF ProcessModify
  <2>1. PICK c : c = cancelOrder(book, r.id)
    OBVIOUS
  <2>2. c \in Books /\ c.orders[r.id] = None
    BY <1>3, <2>1
  <2>3. book' = Insert(c, r)
    BY <1>1, <2>1, <2>2, AddOrderEnters
  <2>4. book'.orders = [c.orders EXCEPT ![r.id] = OrderOf(r)]
    BY <1>1, <2>2, <2>3, InsertOrders
  <2>5. book.orders[r.id] = OrderOf(r)
    BY <1>1, <2>2, <2>4 DEF Books
  <2> QED BY <2>5 DEF KeepsPlace, OrderOf
<1> QED BY <1>2, <1>4, <1>5 DEF process

\* A request puts nobody ahead of an order but, in a modify, its own.
LEMMA ProcessNoJump ==
    ASSUME BookIInv, NEW r \in Requests, process(r), NEW i \in Ids, NEW j \in Ids,
           book.orders[j] # None, j # r.id, Ahead(book', i, j)
    PROVE  Ahead(book, i, j)
<1>1. BookInv(book) /\ book \in Books
  BY DEF BookIInv, BookInv
<1>2. ASSUME MayCancel(book, r), NEW c, c = cancelOrder(book, r.id)
      PROVE  c \in Books /\ NoJump(book, c)
  <2>1. r.id \in LiveIds(book)
    BY <1>2, RequestFields DEF MayCancel, LiveIds
  <2>2. BookInv(c)
    BY <1>1, <1>2, <2>1, CancelInv
  <2> QED BY <1>1, <1>2, <2>1, <2>2, CancelNoJump DEF BookInv
<1>3. CASE book' = book
  BY <1>3
<1>4. CASE r.mtype = "NEW" /\ addOrder(book, r)
  BY <1>1, <1>4, AddOrderNoJump
<1>5. CASE MayCancel(book, r) /\ book' = cancelOrder(book, r.id)
  BY <1>2, <1>5 DEF NoJump
<1>6. CASE r.mtype = "MODIFY" /\ MayCancel(book, r) /\ addOrder(cancelOrder(book, r.id), r)
  <2>1. PICK c : c = cancelOrder(book, r.id)
    OBVIOUS
  <2>2. c \in Books /\ NoJump(book, c)
    BY <1>2, <1>6, <2>1
  <2>3. Ahead(c, i, j)
    BY <1>6, <2>1, <2>2, AddOrderNoJump
  <2> QED BY <2>2, <2>3 DEF NoJump
<1> QED BY <1>3, <1>4, <1>5, <1>6
        DEF process, ProcessNew, ProcessCancel, ProcessModify, MayModify

\* The trades of an iteration of matchOrders put nobody ahead.
LEMMA MatchStepNoJump ==
    ASSUME BookIInv, MatchStep
    PROVE  NoJump(book, book')
<1>0. PICK bid, ask : bid = Front(book, "BID") /\ ask = Front(book, "ASK")
  OBVIOUS
<1>1. PICK n : n = Least(book.orders[bid].remaining, book.orders[ask].remaining)
  OBVIOUS
<1>2. /\ BookInv(book) /\ "BID" \in Sides /\ "ASK" \in Sides
      /\ Occupied(book, "BID") /\ Occupied(book, "ASK")
      /\ book' = Fill(Fill(book, bid, n), ask, n)
  BY <1>0, <1>1 DEF BookIInv, MatchStep, Crosses, Sides
<1>3. /\ bid \in LiveIds(book) /\ book.orders[bid] \in Order /\ book.orders[bid].side = "BID"
      /\ ask \in LiveIds(book) /\ book.orders[ask] \in Order /\ book.orders[ask].side = "ASK"
  BY <1>0, <1>2, FrontLive
<1>4. bid # ask /\ bid \in Ids /\ ask \in Ids
  BY <1>3 DEF LiveIds
<1>5. n \in Nat /\ n <= book.orders[bid].remaining /\ n <= book.orders[ask].remaining
  BY <1>1, <1>3 DEF Least, Order
<1>6. PICK c : c = Fill(book, bid, n)
  OBVIOUS
<1>7. NoJump(book, c)
  BY <1>0, <1>2, <1>5, <1>6, FillNoJump
<1>8. /\ BookInv(c)
      /\ \A i \in Ids \ {bid} : c.orders[i] = book.orders[i]
      /\ c.levels["ASK"] = book.levels["ASK"]
      /\ c.best["ASK"] = book.best["ASK"]
      /\ c.nonEmpty["ASK"] = book.nonEmpty["ASK"]
  BY <1>0, <1>2, <1>5, <1>6, FillInv, SMTT(40)
<1>9. Occupied(c, "ASK") /\ ask = Front(c, "ASK")
  BY <1>0, <1>2, <1>8, Zenon DEF Occupied, Front
<1>10. book' = Fill(c, ask, n) /\ n <= c.orders[ask].remaining
  BY <1>2, <1>4, <1>5, <1>6, <1>8
<1>11. NoJump(c, book')
  BY <1>2, <1>5, <1>8, <1>9, <1>10, FillNoJump
<1> QED BY <1>7, <1>11 DEF NoJump

\* Nor does the trade of an iteration of matchMarket.
LEMMA MarketStepNoJump ==
    ASSUME BookIInv, MarketStep
    PROVE  NoJump(book, book')
<1>0. PICK s, id : s = Opposite[req.side] /\ id = Front(book, s)
  OBVIOUS
<1>1. PICK n : n = Least(left, book.orders[id].remaining)
  OBVIOUS
<1>2. /\ BookInv(book) /\ left \in Nat /\ s \in Sides /\ Occupied(book, s)
      /\ book' = Fill(book, id, n)
  <2>1. s \in Sides /\ Occupied(book, s)
    BY <1>0, MarketStepInv
  <2> QED BY <1>0, <1>1, <2>1 DEF BookIInv, BookTypeOK, MarketStep
<1>3. book.orders[id] \in Order
  BY <1>0, <1>2, FrontLive
<1>4. n \in Nat /\ n <= book.orders[id].remaining
  BY <1>1, <1>2, <1>3 DEF Least, Order
<1> QED BY <1>0, <1>2, <1>4, FillNoJump

\* Time priority: neither an add nor a removal in the middle of a queue puts anybody
\* ahead of an order that stays (PriceLevelQueue::push, remove and pop); a modify that
\* changes price or quantity puts its order behind everybody of its level, one that
\* repeats both leaves it where it is (modifyOrder).
THEOREM NoJumpCorrect == BookSpec => NoQueueJump
<1>1. BookIInv /\ BookIInv' /\ [BookNext]_bookVars => [QueueStep]_bookVars
  <2> SUFFICES ASSUME BookIInv, BookIInv', BookNext,
                      NEW id \in LiveIds(book'), NEW other \in LiveIds(book'),
                      id # other, SameLevel(book', id, other)
               PROVE  IF Stays(id)
                      THEN Place(book', other) < Place(book', id) =>
                               /\ book.orders[other] # None
                               /\ SameLevel(book, id, other)
                               /\ Place(book, other) < Place(book, id)
                      ELSE Place(book', other) < Place(book', id)
    BY DEF QueueStep
  <2>1. /\ BookInv(book) /\ BookInv(book') /\ id \in Ids /\ other \in Ids
        /\ SameLevel(book', other, id) /\ book'.orders[id] # None
    BY DEF BookIInv, LiveIds, SameLevel
  <2>2. ASSUME Stays(id), Ahead(book', other, id) PROVE Ahead(book, other, id)
    <3>1. ASSUME NEW r \in Requests, process(r) PROVE Ahead(book, other, id)
      <4>1. pc = "idle"
        BY <3>1 DEF process, ProcessNew, ProcessCancel, ProcessModify, Accept
      <4>2. book.orders[id] # None /\ book'.orders[id] = book.orders[id]
        BY <2>2, <4>1 DEF Stays
      <4>3. CASE id = r.id
        <5>1. book' = book
          BY <2>1, <3>1, <4>2, <4>3, ProcessKeeps DEF LiveIds
        <5> QED BY <2>2, <5>1
      <4>4. CASE id # r.id
        BY <2>1, <2>2, <3>1, <4>2, <4>4, ProcessNoJump
      <4> QED BY <4>3, <4>4
    <3>2. CASE MatchStep
      BY <2>1, <2>2, <3>2, MatchStepNoJump DEF NoJump
    <3>3. CASE MarketStep
      BY <2>1, <2>2, <3>3, MarketStepNoJump DEF NoJump
    <3>4. CASE UNCHANGED book
      BY <2>2, <3>4
    <3> QED BY <3>1, <3>2, <3>3, <3>4
            DEF BookNext, matchOrders, matchMarket, MatchDone, MarketDone, Deliver,
                Undefined, bookVars
  <2>3. ASSUME ~Stays(id) PROVE Ahead(book', other, id)
    <3>1. ASSUME NEW r \in Requests, process(r) PROVE Ahead(book', other, id)
      <4>1. id = r.id /\ r.id \in Ids /\ r.side \in Sides
        BY <2>3, <3>1, ProcessOwn, RequestFields
      <4>2. PICK b : /\ BookInv(b) /\ b.orders[r.id] = None
                     /\ r.price \in Prices /\ book' = Insert(b, r)
        BY <2>3, <3>1, ProcessOwn
      <4> QED BY <2>1, <4>1, <4>2, InsertLast
    <3>2. CASE Shrinks(book, book') /\ pc # "idle"
      BY <2>1, <2>3, <3>2 DEF Shrinks, Stays
    <3>3. CASE UNCHANGED book
      BY <2>1, <2>3, <3>3, SMTT(30) DEF Stays
    <3>4. CASE MatchStep
      BY <3>2, <3>4, MatchStepInv, SMTT(30) DEF MatchStep
    <3>5. CASE MarketStep
      BY <3>2, <3>5, MarketStepInv, ZenonT(30) DEF MarketStep
    <3> QED BY <3>1, <3>3, <3>4, <3>5
            DEF BookNext, matchOrders, matchMarket, MatchDone, MarketDone, Deliver,
                Undefined, bookVars
  <2>4. Ahead(book', other, id) <=> Place(book', other) < Place(book', id)
    BY <2>1, PlaceAhead
  <2>5. ASSUME Ahead(book, other, id)
        PROVE  /\ book.orders[other] # None
               /\ SameLevel(book, id, other)
               /\ Place(book, other) < Place(book, id)
    <3>1. other \in LiveIds(book) /\ id \in LiveIds(book)
      BY <2>1, <2>5, AheadLive
    <3>2. SameLevel(book, other, id) /\ Place(book, other) < Place(book, id)
      BY <2>1, <2>5, <3>1, PlaceAhead
    <3> QED BY <3>1, <3>2 DEF SameLevel, LiveIds
  <2> QED BY <2>2, <2>3, <2>4, <2>5
<1> QED BY <1>1, BookInvariant, PTL DEF BookSpec, NoQueueJump
=============================================================================

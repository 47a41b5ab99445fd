----------------------- MODULE PriceLevelQueueProofs -----------------------
(***************************************************************************)
(* Proofs about PriceLevelQueue, for every set of ids and levels and every *)
(* capacity of the pool: the intrusive lists, the pool and the map keep    *)
(* their shape, and together they implement the queues of LevelQueues.     *)
(***************************************************************************)
EXTENDS PriceLevelQueue, FiniteSetTheorems, FunctionTheorems, SequenceTheorems, TLAPS

-----------------------------------------------------------------------------
(* Sequences without repetitions                                           *)

In(x, q)    == \E k \in 1 .. Len(q) : q[k] = x
Distinct(q) == \A j, k \in 1 .. Len(q) : q[j] = q[k] => j = k

\* q without its element at position k.
Cut(q, k) == [i \in 1 .. Len(q) - 1 |-> IF i < k THEN q[i] ELSE q[i + 1]]

\* No list of different slots is longer than the arena.
LEMMA FitsArena ==
    ASSUME NEW q \in Seq(Slots), Distinct(q)
    PROVE  Len(q) <= Capacity
<1>1. Len(q) \in Nat /\ q \in [1 .. Len(q) -> Slots]
  OBVIOUS
<1>2. \A a, b \in 1 .. Len(q) : q[a] = q[b] => a = b
  BY DEF Distinct
<1>3. q \in Injection(1 .. Len(q), Slots)
  BY <1>1, <1>2, Fun_IsInj, Zenon
<1>4. IsFiniteSet(Slots) /\ Cardinality(Slots) = Capacity
  BY FS_Interval, CapacityAssumption DEF Slots
<1>5. Cardinality(1 .. Len(q)) <= Cardinality(Slots)
  BY <1>3, <1>4, FS_Injection, Zenon
<1>6. Cardinality(1 .. Len(q)) = Len(q)
  BY <1>1, FS_Interval
<1> QED BY <1>4, <1>5, <1>6

\* Appending a new element.
LEMMA AppendIn ==
    ASSUME NEW S, NEW q \in Seq(S), NEW x \in S, Distinct(q), ~In(x, q)
    PROVE  /\ Append(q, x) \in Seq(S)
           /\ Len(Append(q, x)) = Len(q) + 1
           /\ \A k \in 1 .. Len(q) : Append(q, x)[k] = q[k]
           /\ Append(q, x)[Len(q) + 1] = x
           /\ Distinct(Append(q, x))
           /\ \A y : In(y, Append(q, x)) <=> In(y, q) \/ y = x
<1>1. /\ Append(q, x) \in Seq(S)
      /\ Len(q) \in Nat /\ Len(Append(q, x)) = Len(q) + 1
      /\ \A k \in 1 .. Len(q) : Append(q, x)[k] = q[k]
      /\ Append(q, x)[Len(q) + 1] = x
  OBVIOUS
<1>2. PICK a : a = Append(q, x)
  OBVIOUS
<1>3. Distinct(a)
  BY <1>1, <1>2 DEF Distinct, In
<1>4. \A y : In(y, a) <=> In(y, q) \/ y = x
  BY <1>1, <1>2 DEF In
<1> QED BY <1>1, <1>2, <1>3, <1>4

\* Taking an element out.
LEMMA CutOut ==
    ASSUME NEW S, NEW q \in Seq(S), Distinct(q), NEW k \in 1 .. Len(q)
    PROVE  /\ Cut(q, k) \in Seq(S)
           /\ Len(Cut(q, k)) = Len(q) - 1
           /\ \A i \in 1 .. Len(q) - 1 : Cut(q, k)[i] = IF i < k THEN q[i] ELSE q[i + 1]
           /\ Distinct(Cut(q, k))
           /\ \A y : In(y, Cut(q, k)) <=> In(y, q) /\ y # q[k]
<1>1. Len(q) \in Nat /\ Len(q) - 1 \in Nat
  OBVIOUS
<1>2. PICK c : c = Cut(q, k)
  OBVIOUS
<1>3. c = [i \in 1 .. Len(q) - 1 |-> IF i < k THEN q[i] ELSE q[i + 1]]
  BY <1>2 DEF Cut
<1>4. \A i \in 1 .. Len(q) - 1 : (IF i < k THEN q[i] ELSE q[i + 1]) \in S
  BY <1>1
<1>5. /\ c \in Seq(S) /\ Len(c) = Len(q) - 1
      /\ \A i \in 1 .. Len(q) - 1 : c[i] = IF i < k THEN q[i] ELSE q[i + 1]
  BY <1>1, <1>3, <1>4
<1>6. Distinct(c)
  BY <1>1, <1>5, SMTT(30) DEF Distinct
<1>7. ASSUME NEW y, In(y, c) PROVE In(y, q) /\ y # q[k]
  BY <1>7, <1>1, <1>5 DEF In, Distinct
<1>8. ASSUME NEW y, In(y, q), y # q[k] PROVE In(y, c)
  <2>1. PICK i \in 1 .. Len(q) : q[i] = y
    BY <1>8 DEF In
  <2>2. CASE i < k
    BY <2>1, <2>2, <1>1, <1>5 DEF In
  <2>3. CASE i > k
    <3>1. i - 1 \in 1 .. Len(c) /\ c[i - 1] = y
      BY <2>1, <2>3, <1>1, <1>5
    <3> QED BY <3>1 DEF In
  <2> QED BY <2>1, <2>2, <2>3, <1>8, <1>1
<1> QED BY <1>2, <1>5, <1>6, <1>7, <1>8

-----------------------------------------------------------------------------
(* The inductive invariant                                                 *)

\* The order of slot s is live, and rests at level l.
Held(s, l) == \E i \in Ids : orders[i] = s /\ order[s] = [id |-> i, level |-> l]

\* q is the list of level l.
ListOf(l, q) ==
    /\ q \in Seq(Slots)
    /\ Spells(l, q)
    /\ Distinct(q)
    /\ \A s \in Slots : In(s, q) <=> Held(s, l)

\* The map's pointer leads to the order with that id.
PointsBack ==
    \A i \in Ids : orders[i] # Null =>
        \E l \in Levels : order[orders[i]] = [id |-> i, level |-> l]

\* The links alone are not inductive: an add needs its slot to be in no list,
\* and a removal needs the id and the level of the slot to be those of the order
\* the map has in it.
QueueIInv ==
    /\ QueueTypeOK
    /\ SlotsPartitioned
    /\ PointsBack
    /\ \A l \in Levels : \E q : ListOf(l, q)

\* The members of the type invariant, one by one.
LEMMA QueueTypes ==
    ASSUME QueueTypeOK
    PROVE  /\ prev \in [Slots -> Ptr] /\ next \in [Slots -> Ptr]
           /\ head \in [Levels -> Ptr] /\ tail \in [Levels -> Ptr]
           /\ order \in [Slots -> Contents \cup {Blank}]
           /\ orders \in [Ids -> Ptr]
           /\ free_list \in Seq(Slots)
           /\ size \in [Levels -> 0 .. Capacity]
BY DEF QueueTypeOK

\* A slot in a list is a slot of the arena, and belongs to one level only.
LEMMA ListSlots ==
    ASSUME NEW l \in Levels, NEW q, ListOf(l, q), NEW k \in 1 .. Len(q)
    PROVE  /\ q[k] \in Slots /\ q[k] # Null /\ Held(q[k], l)
           /\ \A m \in Levels : m # l => ~Held(q[k], m)
<1>1. q[k] \in Slots /\ q[k] # Null
  BY CapacityAssumption DEF ListOf, Slots, Null
<1>2. Held(q[k], l)
  BY <1>1 DEF ListOf, In
<1>3. ASSUME NEW m \in Levels, Held(q[k], m) PROVE m = l
  <2>1. order[q[k]].level = l
    BY <1>2 DEF Held
  <2>2. order[q[k]].level = m
    BY <1>3 DEF Held
  <2> QED BY <2>1, <2>2
<1> QED BY <1>1, <1>2, <1>3

\* Lists in the sense of the module are sequences without repetitions.
LEMMA ListsSuffice ==
    ASSUME \A l \in Levels : \E q : ListOf(l, q)
    PROVE  LinksWellFormed
<1> SUFFICES ASSUME NEW l \in Levels
             PROVE  \E q \in Lists :
                        /\ Spells(l, q)
                        /\ \A j, k \in 1 .. Len(q) : q[j] = q[k] => j = k
                        /\ \A s \in Slots :
                             (\E k \in 1 .. Len(q) : q[k] = s)
                             <=> (\E i \in Ids : orders[i] = s /\ order[s] = [id |-> i, level |-> l])
  BY DEF LinksWellFormed
<1>1. PICK q : ListOf(l, q)
  OBVIOUS
<1>2. q \in Lists
  <2>1. Len(q) \in 0 .. Capacity /\ q \in [1 .. Len(q) -> Slots]
    BY <1>1, FitsArena, CapacityAssumption DEF ListOf
  <2> QED BY <2>1 DEF Lists
<1> QED BY <1>1, <1>2, Zenon DEF ListOf, Distinct, In, Held

-----------------------------------------------------------------------------
(* addOrder                                                                *)

\* The slot allocate() hands out is in no list and held by nobody.
LEMMA TopIsFree ==
    ASSUME QueueIInv, free_list # << >>
    PROVE  /\ Top \in Slots /\ Top # Null
           /\ In(Top, free_list)
           /\ \A i \in Ids : orders[i] # Top
           /\ \A l \in Levels : ~Held(Top, l)
<1>1. Len(free_list) \in 1 .. Len(free_list) /\ Top \in Slots
  BY DEF QueueIInv, QueueTypeOK, Top
<1>2. Top # Null
  BY <1>1, CapacityAssumption DEF Slots, Null
<1>3. In(Top, free_list)
  BY <1>1 DEF In, Top
<1>4. \A i \in Ids : orders[i] # Top
  BY <1>1, <1>3 DEF QueueIInv, SlotsPartitioned, In
<1> QED BY <1>1, <1>2, <1>3, <1>4 DEF Held

\* Who is held after an add.
LEMMA AddedHeld ==
    ASSUME QueueIInv, NEW i \in Ids, NEW l \in Levels, orders[i] = Null,
           free_list # << >>, allocate(i, l), orders' = [orders EXCEPT ![i] = Top],
           NEW s \in Slots, NEW m \in Levels
    PROVE  Held(s, m)' <=> IF s = Top THEN m = l ELSE Held(s, m)
<1> DEFINE t == Top
<1>1. /\ t \in Slots /\ t # Null /\ s # Null
      /\ \A j \in Ids : orders[j] # t
  BY TopIsFree, CapacityAssumption DEF Slots, Null
<1>2. /\ order' = [order EXCEPT ![t] = [id |-> i, level |-> l]]
      /\ orders' = [orders EXCEPT ![i] = t]
      /\ order \in [Slots -> Contents \cup {Blank}] /\ orders \in [Ids -> Ptr]
  BY QueueTypes DEF allocate, QueueIInv
<1> HIDE DEF t
<1>3. CASE s = t
  <2>1. order'[s] = [id |-> i, level |-> l] /\ orders'[i] = s
    BY <1>2, <1>3, <1>1
  <2>2. ASSUME m = l PROVE Held(s, m)'
    BY <2>1, <2>2 DEF Held
  <2>3. ASSUME Held(s, m)' PROVE m = l
    <3>1. order'[s].level = m
      BY <2>3 DEF Held
    <3> QED BY <2>1, <3>1
  <2> QED BY <1>3, <2>2, <2>3 DEF t
<1>4. CASE s # t
  <2>1. order'[s] = order[s]
    BY <1>2, <1>4
  <2>2. \A j \in Ids : orders'[j] = s <=> orders[j] = s
    BY <1>1, <1>2, <1>4
  <2>3. Held(s, m)' <=> Held(s, m)
    BY <2>1, <2>2 DEF Held
  <2> QED BY <1>4, <2>3 DEF t
<1> QED BY <1>3, <1>4

\* push links the new order behind the last one of its level, and leaves the
\* lists of the other levels as they are.
LEMMA PushLists ==
    ASSUME QueueIInv, NEW i \in Ids, NEW l \in Levels, orders[i] = Null,
           free_list # << >>, allocate(i, l), orders' = [orders EXCEPT ![i] = Top],
           push(l, Top), NEW t, t = Top,
           NEW m \in Levels, NEW q, ListOf(m, q)
    PROVE  ListOf(m, IF m = l THEN Append(q, t) ELSE q)'
<1>1. t \in Slots /\ t # Null /\ ~Held(t, m) /\ ~Held(t, l)
  BY TopIsFree
<1>2. /\ prev \in [Slots -> Ptr] /\ next \in [Slots -> Ptr]
      /\ head \in [Levels -> Ptr] /\ tail \in [Levels -> Ptr]
      /\ size \in [Levels -> 0 .. Capacity]
  BY QueueTypes DEF QueueIInv
<1>3. /\ head' = IF head[l] = Null THEN [head EXCEPT ![l] = t] ELSE head
      /\ next' = IF tail[l] = Null THEN [next EXCEPT ![t] = Null]
                                   ELSE [next EXCEPT ![tail[l]] = t, ![t] = Null]
      /\ prev' = [prev EXCEPT ![t] = tail[l]]
      /\ tail' = [tail EXCEPT ![l] = t]
      /\ size' = [size EXCEPT ![l] = @ + 1]
  BY DEF push
<1>4. \A s \in Slots : Held(s, m)' <=> IF s = t THEN m = l ELSE Held(s, m)
  BY AddedHeld
<1>5. /\ q \in Seq(Slots) /\ Len(q) \in Nat /\ Distinct(q) /\ ~In(t, q)
      /\ \A k \in 1 .. Len(q) : q[k] \in Slots /\ q[k] # Null /\ q[k] # t
      /\ \A s \in Slots : In(s, q) <=> Held(s, m)
  BY <1>1, CapacityAssumption DEF ListOf, In, Slots, Null
<1>6. CASE m = l
  <2> DEFINE n == Len(q)
  <2>0. PICK a : a = Append(q, t)
    OBVIOUS
  <2>1. /\ a \in Seq(Slots) /\ Len(a) = n + 1 /\ Distinct(a)
        /\ \A k \in 1 .. n : a[k] = q[k]
        /\ a[n + 1] = t
        /\ \A y : In(y, a) <=> In(y, q) \/ y = t
    BY <1>1, <1>5, <2>0, AppendIn
  <2>2. /\ size[l] = n
        /\ head[l] = IF n = 0 THEN Null ELSE q[1]
        /\ tail[l] = IF n = 0 THEN Null ELSE q[n]
        /\ \A k \in 1 .. n :
            /\ prev[q[k]] = IF k = 1 THEN Null ELSE q[k - 1]
            /\ next[q[k]] = IF k = n THEN Null ELSE q[k + 1]
    BY <1>6 DEF ListOf, Spells
  <2>3. /\ size'[l] = n + 1 /\ head'[l] = a[1] /\ tail'[l] = a[n + 1]
    BY <1>2, <1>3, <1>5, <2>1, <2>2
  <2>4. ASSUME NEW k \in 1 .. n + 1
        PROVE  prev'[a[k]] = IF k = 1 THEN Null ELSE a[k - 1]
    BY <1>1, <1>2, <1>3, <1>5, <2>1, <2>2
  <2>5. ASSUME NEW k \in 1 .. n + 1
        PROVE  next'[a[k]] = IF k = n + 1 THEN Null ELSE a[k + 1]
    <3>1. CASE k = n + 1
      BY <3>1, <1>1, <1>2, <1>3, <2>1
    <3>2. CASE k = n
      <4>1. tail[l] = q[n] /\ tail[l] # Null /\ tail[l] # t /\ tail[l] \in Slots /\ a[k] = q[n]
        BY <3>2, <1>5, <2>1, <2>2
      <4>2. next'[q[n]] = t
        BY <4>1, <1>1, <1>2, <1>3
      <4> QED BY <3>2, <4>1, <4>2, <2>1, <1>5
    <3>3. CASE k < n
      <4>1. a[k] = q[k] /\ q[k] # t /\ q[k] \in Slots /\ tail[l] = q[n] /\ q[k] # q[n]
        BY <3>3, <1>5, <2>1, <2>2 DEF Distinct
      <4>2. next'[q[k]] = next[q[k]]
        BY <4>1, <1>1, <1>2, <1>3
      <4>3. k + 1 \in 1 .. n /\ k \in 1 .. n /\ k # n
        BY <3>3, <1>5
      <4>4. next[q[k]] = q[k + 1] /\ a[k + 1] = q[k + 1]
        BY <4>3, <2>1, <2>2
      <4> QED BY <3>3, <4>1, <4>2, <4>4, <1>5
    <3> QED BY <3>1, <3>2, <3>3, <1>5
  <2>6. Spells(l, a)'
    BY <2>1, <2>3, <2>4, <2>5, <1>5 DEF Spells
  <2>7. \A s \in Slots : In(s, a) <=> Held(s, m)'
    BY <1>4, <1>5, <1>6, <2>1
  <2>8. ListOf(m, a)'
    BY <1>6, <2>1, <2>6, <2>7 DEF ListOf
  <2> QED BY <1>6, <2>0, <2>8
<1>7. CASE m # l
  <2>1. PICK r : ListOf(l, r)
    BY DEF QueueIInv
  <2>2. tail[l] = Null \/ Held(tail[l], l)
    BY <2>1, ListSlots, SMTT(30) DEF ListOf, Spells
  <2>3. ASSUME NEW k \in 1 .. Len(q) PROVE q[k] # tail[l]
    BY <1>5, <1>7, <2>2, ListSlots
  <2>4. ASSUME NEW k \in 1 .. Len(q) PROVE prev'[q[k]] = prev[q[k]] /\ next'[q[k]] = next[q[k]]
    BY <2>3, <1>2, <1>3, <1>5
  <2>5. size'[m] = size[m] /\ head'[m] = head[m] /\ tail'[m] = tail[m]
    BY <1>2, <1>3, <1>7
  <2>6. Spells(m, q)'
    BY <2>4, <2>5 DEF ListOf, Spells
  <2>7. \A s \in Slots : In(s, q) <=> Held(s, m)'
    BY <1>4, <1>5, <1>7
  <2>8. ListOf(m, q)'
    BY <1>5, <2>6, <2>7 DEF ListOf
  <2> QED BY <1>7, <2>8
<1> QED BY <1>6, <1>7

\* addOrder, when there is a slot for the order.
Adds(i, l) ==
    /\ orders[i] = Null /\ free_list # << >>
    /\ allocate(i, l)
    /\ orders' = [orders EXCEPT ![i] = Top]
    /\ push(l, Top)

\* An add keeps the invariant.
LEMMA AddInv ==
    ASSUME QueueIInv, NEW i \in Ids, NEW l \in Levels, Adds(i, l)
    PROVE  QueueIInv'
<1>0. PICK t : t = Top
  OBVIOUS
<1>1. /\ t \in Slots /\ t # Null /\ In(t, free_list)
      /\ \A j \in Ids : orders[j] # t
  BY <1>0, TopIsFree DEF Adds
<1>2. /\ prev \in [Slots -> Ptr] /\ next \in [Slots -> Ptr]
      /\ head \in [Levels -> Ptr] /\ tail \in [Levels -> Ptr]
      /\ order \in [Slots -> Contents \cup {Blank}] /\ orders \in [Ids -> Ptr]
      /\ free_list \in Seq(Slots) /\ Len(free_list) <= Capacity
      /\ size \in [Levels -> 0 .. Capacity]
  BY QueueTypes DEF QueueIInv, QueueTypeOK
<1>3. /\ free_list' = SubSeq(free_list, 1, Len(free_list) - 1)
      /\ order' = [order EXCEPT ![t] = [id |-> i, level |-> l]]
      /\ orders' = [orders EXCEPT ![i] = t]
      /\ free_list # << >> /\ orders[i] = Null /\ t = free_list[Len(free_list)]
  BY <1>0 DEF Adds, allocate, Top
<1>4. ASSUME NEW m \in Levels PROVE \E q : ListOf(m, q)'
  <2>1. PICK q : ListOf(m, q)
    BY DEF QueueIInv
  <2>2. ListOf(m, IF m = l THEN Append(q, t) ELSE q)'
    BY <1>0, <2>1, PushLists DEF Adds
  <2> QED BY <2>2
<1>5. /\ free_list' \in Seq(Slots) /\ Len(free_list) \in Nat
      /\ Len(free_list') = Len(free_list) - 1
      /\ \A k \in 1 .. Len(free_list') : free_list'[k] = free_list[k]
  <2> DEFINE n == Len(free_list) - 1
  <2>1. n \in Nat /\ \A k \in 1 .. n : free_list[k] \in Slots
    BY <1>2, <1>3
  <2>2. PICK f : f = SubSeq(free_list, 1, n)
    OBVIOUS
  <2>3. f \in Seq(Slots) /\ Len(f) = n /\ \A k \in 1 .. n : f[k] = free_list[k]
    <3>1. 1 \in Int /\ n \in Int
      BY <2>1
    <3>2. /\ f \in Seq(Slots)
          /\ Len(f) = IF 1 <= n THEN n - 1 + 1 ELSE 0
          /\ \A k \in 1 .. n - 1 + 1 : f[k] = free_list[1 + k - 1]
      BY <3>1, <2>1, <2>2, SubSeqProperties
    <3> HIDE DEF n
    <3>3. \A k \in 1 .. n : k \in 1 .. n - 1 + 1 /\ 1 + k - 1 = k
      BY <2>1
    <3> QED BY <3>2, <3>3, <2>1
  <2> QED BY <2>1, <2>2, <2>3, <1>2, <1>3
<1>6. PointsBack'
  <2> SUFFICES ASSUME NEW j \in Ids, orders'[j] # Null
               PROVE  \E m \in Levels : order'[orders'[j]] = [id |-> j, level |-> m]
    BY DEF PointsBack
  <2>1. CASE j = i
    BY <2>1, <1>1, <1>2, <1>3
  <2>2. CASE j # i
    <3>1. orders'[j] = orders[j] /\ orders[j] # Null /\ orders[j] # t /\ orders[j] \in Slots
      BY <2>2, <1>1, <1>2, <1>3 DEF Ptr
    <3>2. PICK m \in Levels : order[orders[j]] = [id |-> j, level |-> m]
      BY <3>1 DEF QueueIInv, PointsBack
    <3> QED BY <3>1, <3>2, <1>2, <1>3
  <2> QED BY <2>1, <2>2
<1>7. SlotsPartitioned'
  <2>1. \A j, k \in 1 .. Len(free_list') : free_list'[j] = free_list'[k] => j = k
    BY <1>5 DEF QueueIInv, SlotsPartitioned
  <2>2. \A j, k \in Ids : orders'[j] = orders'[k] /\ orders'[j] # Null => j = k
    BY <1>1, <1>2, <1>3 DEF QueueIInv, SlotsPartitioned
  <2>3. ASSUME NEW s \in Slots
        PROVE  (\E k \in 1 .. Len(free_list') : free_list'[k] = s)
                   <=> (\A j \in Ids : orders'[j] # s)
    <3>1. (\E k \in 1 .. Len(free_list) : free_list[k] = s) <=> (\A j \in Ids : orders[j] # s)
      BY DEF QueueIInv, SlotsPartitioned
    <3>2. CASE s = t
      <4>1. orders'[i] = s
        BY <3>2, <1>2, <1>3
      <4>2. ~\E k \in 1 .. Len(free_list') : free_list'[k] = s
        BY <3>2, <1>3, <1>5 DEF QueueIInv, SlotsPartitioned
      <4> QED BY <4>1, <4>2
    <3>3. CASE s # t
      <4>1. (\E k \in 1 .. Len(free_list') : free_list'[k] = s)
                <=> (\E k \in 1 .. Len(free_list) : free_list[k] = s)
        BY <3>3, <1>3, <1>5
      <4>2. s # Null
        BY CapacityAssumption DEF Slots, Null
      <4>3. (\A j \in Ids : orders'[j] # s) <=> (\A j \in Ids : orders[j] # s)
        BY <3>3, <4>2, <1>2, <1>3
      <4> QED BY <3>1, <4>1, <4>3
    <3> QED BY <3>2, <3>3
  <2> QED BY <2>1, <2>2, <2>3 DEF SlotsPartitioned
<1>8. QueueTypeOK'
  <2>1. order' \in [Slots -> Contents \cup {Blank}] /\ orders' \in [Ids -> Ptr]
    BY <1>1, <1>2, <1>3 DEF Contents, Ptr
  <2>2. /\ prev' \in [Slots -> Ptr] /\ next' \in [Slots -> Ptr]
        /\ head' \in [Levels -> Ptr] /\ tail' \in [Levels -> Ptr]
    BY <1>0, <1>1, <1>2 DEF Adds, push, Ptr
  <2>3. size' \in [Levels -> 0 .. Capacity]
    <3>1. DOMAIN size' = Levels /\ size' = [size EXCEPT ![l] = @ + 1]
      BY <1>2 DEF Adds, push
    <3>2. ASSUME NEW m \in Levels PROVE size'[m] \in 0 .. Capacity
      <4>1. PICK q : ListOf(m, q)'
        BY <1>4
      <4> QED BY <4>1, FitsArena, CapacityAssumption DEF ListOf, Spells
    <3> QED BY <3>1, <3>2, <1>2
  <2>4. Len(free_list') <= Capacity
    BY <1>2, <1>5, CapacityAssumption
  <2> QED BY <2>1, <2>2, <2>3, <2>4, <1>5 DEF QueueTypeOK
<1> QED BY <1>4, <1>6, <1>7, <1>8 DEF QueueIInv

-----------------------------------------------------------------------------
(* cancelOrder and the removal of a filled order                           *)

\* The order in slot s leaves level l, the map and the arena.
Removes(l, s) ==
    /\ remove(l, s)
    /\ orders' = [orders EXCEPT ![order[s].id] = Null]
    /\ deallocate(s)
    /\ UNCHANGED order

\* A cancel removes the slot the map has for the id, which is in the list of the
\* level that is written in it.
LEMMA CancelRemoves ==
    ASSUME QueueIInv, NEW i \in Ids, cancelOrder(i)
    PROVE  \E l \in Levels : \E q : \E k \in 1 .. Len(q) : ListOf(l, q) /\ Removes(l, q[k])
<1>1. PICK s : s = orders[i]
  OBVIOUS
<1>2. s # Null /\ s \in Slots
  BY <1>1, QueueTypes DEF cancelOrder, QueueIInv, Ptr
<1>3. PICK l \in Levels : order[s] = [id |-> i, level |-> l]
  BY <1>1, <1>2 DEF QueueIInv, PointsBack
<1>4. order[s].id = i /\ order[s].level = l
  BY <1>3
<1>5. Removes(l, s)
  BY <1>1, <1>4 DEF cancelOrder, Removes
<1>6. PICK q : ListOf(l, q)
  BY DEF QueueIInv
<1>7. PICK k \in 1 .. Len(q) : q[k] = s
  BY <1>1, <1>2, <1>3, <1>6 DEF ListOf, Held, In
<1> QED BY <1>5, <1>6, <1>7

\* pop of the front order does what remove of it would do.
LEMMA FillRemoves ==
    ASSUME QueueIInv, NEW l \in Levels, fillFront(l)
    PROVE  \E q : ListOf(l, q) /\ 1 \in 1 .. Len(q) /\ Removes(l, q[1])
<1>1. PICK q : ListOf(l, q)
  BY DEF QueueIInv
<1>2. head[l] # Null
  BY DEF fillFront, front
<1>3. Len(q) \in Nat /\ Len(q) # 0 /\ head[l] = q[1]
  BY <1>1, <1>2 DEF ListOf, Spells
<1>4. 1 \in 1 .. Len(q) /\ prev[q[1]] = Null
  BY <1>1, <1>3 DEF ListOf, Spells
<1>5. remove(l, q[1])
  BY <1>3, <1>4 DEF fillFront, pop, remove
<1>6. Removes(l, q[1])
  BY <1>3, <1>5 DEF fillFront, front, Removes
<1> QED BY <1>1, <1>4, <1>6

\* Who is held after a removal.
LEMMA RemovedHeld ==
    ASSUME QueueIInv, NEW l \in Levels, NEW s \in Slots, Held(s, l), Removes(l, s)
    PROVE  /\ order[s].id \in Ids /\ orders[order[s].id] = s
           /\ \A x \in Slots : \A j \in Ids : orders'[j] = x <=> orders[j] = x /\ x # s
           /\ \A x \in Slots, m \in Levels : Held(x, m)' <=> Held(x, m) /\ x # s
<1>1. PICK i \in Ids : orders[i] = s /\ order[s] = [id |-> i, level |-> l]
  BY DEF Held
<1>2. order[s].id = i
  BY <1>1
<1>3. /\ orders' = [orders EXCEPT ![i] = Null] /\ order' = order
      /\ orders \in [Ids -> Ptr]
      /\ \A x \in Slots : x # Null
      /\ \A j \in Ids : orders[j] = s => j = i
  BY <1>1, <1>2, QueueTypes, CapacityAssumption
     DEF Removes, QueueIInv, SlotsPartitioned, Slots, Null
<1>4. \A x \in Slots : \A j \in Ids : orders'[j] = x <=> orders[j] = x /\ x # s
  BY <1>1, <1>3
<1>5. \A x \in Slots, m \in Levels : Held(x, m)' <=> Held(x, m) /\ x # s
  BY <1>3, <1>4 DEF Held
<1> QED BY <1>1, <1>2, <1>4, <1>5

\* remove takes the order at position k out of its list, which closes up around
\* it, and leaves the lists of the other levels as they are.
LEMMA RemoveLists ==
    ASSUME QueueIInv, NEW l \in Levels, NEW q, ListOf(l, q), NEW k \in 1 .. Len(q),
           NEW s, s = q[k], Removes(l, s)
    PROVE  /\ ListOf(l, Cut(q, k))'
           /\ \A m \in Levels \ {l} : \A r : ListOf(m, r) => ListOf(m, r)'
<1>1. s \in Slots /\ s # Null /\ Held(s, l) /\ \A m \in Levels : m # l => ~Held(s, m)
  BY ListSlots
<1>2. /\ prev \in [Slots -> Ptr] /\ next \in [Slots -> Ptr]
      /\ head \in [Levels -> Ptr] /\ tail \in [Levels -> Ptr]
      /\ size \in [Levels -> 0 .. Capacity]
  BY QueueTypes DEF QueueIInv
<1>3. /\ next' = IF prev[s] = Null THEN next ELSE [next EXCEPT ![prev[s]] = next[s]]
      /\ head' = IF prev[s] = Null THEN [head EXCEPT ![l] = next[s]] ELSE head
      /\ prev' = IF next[s] = Null THEN prev ELSE [prev EXCEPT ![next[s]] = prev[s]]
      /\ tail' = IF next[s] = Null THEN [tail EXCEPT ![l] = prev[s]] ELSE tail
      /\ size' = [size EXCEPT ![l] = @ - 1]
  BY DEF Removes, remove
<1>4. \A x \in Slots, m \in Levels : Held(x, m)' <=> Held(x, m) /\ x # s
  BY <1>1, RemovedHeld
<1> DEFINE n == Len(q)
<1>5. /\ q \in Seq(Slots) /\ n \in Nat /\ Distinct(q)
      /\ \A j \in 1 .. n : q[j] \in Slots /\ q[j] # Null
      /\ \A x \in Slots : In(x, q) <=> Held(x, l)
  BY CapacityAssumption DEF ListOf, Slots, Null
<1>6. /\ size[l] = n
      /\ head[l] = IF n = 0 THEN Null ELSE q[1]
      /\ tail[l] = IF n = 0 THEN Null ELSE q[n]
      /\ \A j \in 1 .. n :
          /\ prev[q[j]] = IF j = 1 THEN Null ELSE q[j - 1]
          /\ next[q[j]] = IF j = n THEN Null ELSE q[j + 1]
  BY DEF ListOf, Spells
<1>7. /\ prev[s] = IF k = 1 THEN Null ELSE q[k - 1]
      /\ next[s] = IF k = n THEN Null ELSE q[k + 1]
      /\ k # 1 => k - 1 \in 1 .. n
      /\ k # n => k + 1 \in 1 .. n
  BY <1>5, <1>6
<1>8. ListOf(l, Cut(q, k))'
  <2>0. PICK c : c = Cut(q, k)
    OBVIOUS
  <2>1. /\ c \in Seq(Slots) /\ Len(c) = n - 1 /\ Distinct(c)
        /\ \A j \in 1 .. n - 1 : c[j] = IF j < k THEN q[j] ELSE q[j + 1]
        /\ \A y : In(y, c) <=> In(y, q) /\ y # s
    <3>1. q \in Seq(Slots) /\ Distinct(q)
      BY <1>5
    <3>2. /\ Cut(q, k) \in Seq(Slots)
          /\ Len(Cut(q, k)) = Len(q) - 1
          /\ \A i \in 1 .. Len(q) - 1 : Cut(q, k)[i] = IF i < k THEN q[i] ELSE q[i + 1]
          /\ Distinct(Cut(q, k))
          /\ \A y : In(y, Cut(q, k)) <=> In(y, q) /\ y # q[k]
      BY <3>1, CutOut, SMTT(30)
    <3> QED BY <2>0, <3>2
  <2>2. size'[l] = n - 1
    BY <1>2, <1>3, <1>6
  <2>3. head'[l] = IF n - 1 = 0 THEN Null ELSE c[1]
    <3>1. CASE k = 1
      <4>1. head'[l] = next[s]
        BY <3>1, <1>2, <1>3, <1>7
      <4> QED BY <3>1, <4>1, <1>5, <1>7, <2>1
    <3>2. CASE k # 1
      <4>1. head'[l] = head[l]
        BY <3>2, <1>3, <1>5, <1>7
      <4> QED BY <3>2, <4>1, <1>5, <1>6, <2>1
    <3> QED BY <3>1, <3>2
  <2>4. tail'[l] = IF n - 1 = 0 THEN Null ELSE c[n - 1]
    <3>1. CASE k = n
      <4>1. tail'[l] = prev[s]
        BY <3>1, <1>2, <1>3, <1>7
      <4> QED BY <3>1, <4>1, <1>5, <1>7, <2>1
    <3>2. CASE k # n
      <4>1. tail'[l] = tail[l]
        BY <3>2, <1>3, <1>5, <1>7
      <4> QED BY <3>2, <4>1, <1>5, <1>6, <2>1
    <3> QED BY <3>1, <3>2
  <2>5. ASSUME NEW j \in 1 .. n - 1
        PROVE  prev'[c[j]] = IF j = 1 THEN Null ELSE c[j - 1]
    <3>1. CASE j < k
      <4>1. c[j] = q[j] /\ j \in 1 .. n /\ (k # n => q[j] # q[k + 1])
        BY <3>1, <1>5, <1>7, <2>1 DEF Distinct
      <4>2. prev'[q[j]] = prev[q[j]]
        BY <4>1, <1>2, <1>3, <1>5, <1>7
      <4>3. j # 1 => c[j - 1] = q[j - 1]
        BY <3>1, <1>5, <2>1
      <4> QED BY <4>1, <4>2, <4>3, <1>6
    <3>2. CASE j = k
      <4>1. c[j] = q[k + 1] /\ k # n
        BY <3>2, <1>5, <2>1
      <4>2. prev'[q[k + 1]] = prev[s]
        BY <4>1, <1>2, <1>3, <1>5, <1>7
      <4>3. j # 1 => c[j - 1] = q[k - 1]
        BY <3>2, <1>5, <2>1
      <4> QED BY <3>2, <4>1, <4>2, <4>3, <1>7
    <3>3. CASE j > k
      <4>1. c[j] = q[j + 1] /\ j + 1 \in 1 .. n /\ k # n /\ q[j + 1] # q[k + 1]
        BY <3>3, <1>5, <1>7, <2>1 DEF Distinct
      <4>2. prev'[q[j + 1]] = prev[q[j + 1]]
        BY <4>1, <1>2, <1>3, <1>5, <1>7
      <4>3. c[j - 1] = q[j] /\ prev[q[j + 1]] = q[j]
        <5>1. j - 1 \in 1 .. n - 1 /\ ~(j - 1 < k) /\ j - 1 + 1 = j
          BY <3>3, <1>5
        <5>2. j + 1 # 1 /\ j + 1 - 1 = j
          BY <1>5
        <5> QED BY <5>1, <5>2, <4>1, <1>6, <2>1, SMTT(30)
      <4> QED BY <3>3, <4>1, <4>2, <4>3
    <3> QED BY <3>1, <3>2, <3>3, <1>5
  <2>6. ASSUME NEW j \in 1 .. n - 1
        PROVE  next'[c[j]] = IF j = n - 1 THEN Null ELSE c[j + 1]
    <3>1. CASE j < k - 1
      <4>1. c[j] = q[j] /\ j \in 1 .. n /\ k # 1 /\ q[j] # q[k - 1]
        BY <3>1, <1>5, <1>7, <2>1 DEF Distinct
      <4>2. next'[q[j]] = next[q[j]]
        BY <4>1, <1>2, <1>3, <1>5, <1>7
      <4>3. c[j + 1] = q[j + 1] /\ next[q[j]] = q[j + 1]
        <5>1. j + 1 \in 1 .. n - 1 /\ j + 1 < k /\ j # n
          BY <3>1, <1>5
        <5> QED BY <5>1, <4>1, <1>6, <2>1
      <4> QED BY <3>1, <4>1, <4>2, <4>3, <1>5
    <3>2. CASE j = k - 1
      <4>1. c[j] = q[k - 1] /\ k # 1
        BY <3>2, <1>5, <2>1
      <4>2. next'[q[k - 1]] = next[s]
        BY <4>1, <1>2, <1>3, <1>5, <1>7
      <4>3. j # n - 1 => c[j + 1] = q[k + 1]
        BY <3>2, <1>5, <2>1
      <4> QED BY <3>2, <4>1, <4>2, <4>3, <1>5, <1>7
    <3>3. CASE j >= k
      <4>1. c[j] = q[j + 1] /\ j + 1 \in 1 .. n /\ (k # 1 => q[j + 1] # q[k - 1])
        BY <3>3, <1>5, <1>7, <2>1 DEF Distinct
      <4>2. next'[q[j + 1]] = next[q[j + 1]]
        BY <4>1, <1>2, <1>3, <1>5, <1>7
      <4>3. j # n - 1 => c[j + 1] = q[j + 2]
        BY <3>3, <1>5, <2>1
      <4>4. next[q[j + 1]] = IF j + 1 = n THEN Null ELSE q[j + 1 + 1]
        BY <4>1, <1>6
      <4> QED BY <4>1, <4>2, <4>3, <4>4, <1>5
    <3> QED BY <3>1, <3>2, <3>3, <1>5
  <2>7. Spells(l, c)'
    BY <2>1, <2>2, <2>3, <2>4, <2>5, <2>6 DEF Spells
  <2>8. \A x \in Slots : In(x, c) <=> Held(x, l)'
    BY <1>4, <1>5, <2>1
  <2>9. ListOf(l, c)'
    BY <2>1, <2>7, <2>8 DEF ListOf
  <2> QED BY <2>0, <2>9
<1>9. ASSUME NEW m \in Levels \ {l}, NEW r, ListOf(m, r) PROVE ListOf(m, r)'
  <2>1. ASSUME NEW j \in 1 .. Len(r)
        PROVE  /\ r[j] \in Slots
               /\ prev[s] # Null => r[j] # prev[s]
               /\ next[s] # Null => r[j] # next[s]
    <3>1. r[j] \in Slots /\ ~Held(r[j], l)
      BY <1>9, ListSlots
    <3>2. /\ prev[s] # Null => Held(prev[s], l)
          /\ next[s] # Null => Held(next[s], l)
      BY <1>7, ListSlots
    <3> QED BY <3>1, <3>2
  <2>2. ASSUME NEW j \in 1 .. Len(r) PROVE prev'[r[j]] = prev[r[j]] /\ next'[r[j]] = next[r[j]]
    BY <2>1, <1>2, <1>3
  <2>3. size'[m] = size[m] /\ head'[m] = head[m] /\ tail'[m] = tail[m]
    BY <1>2, <1>3
  <2>4. Spells(m, r)'
    BY <1>9, <2>2, <2>3 DEF ListOf, Spells
  <2>5. \A x \in Slots : In(x, r) <=> Held(x, m)'
    BY <1>1, <1>4, <1>9 DEF ListOf
  <2> QED BY <1>9, <2>4, <2>5 DEF ListOf
<1> QED BY <1>8, <1>9

\* A removal preserves the invariant.
LEMMA RemoveInv ==
    ASSUME QueueIInv, NEW l \in Levels, NEW q, ListOf(l, q), NEW k \in 1 .. Len(q),
           Removes(l, q[k])
    PROVE  QueueIInv'
<1>0. PICK s : s = q[k]
  OBVIOUS
<1>1. s \in Slots /\ s # Null /\ Held(s, l) /\ Removes(l, s)
  BY <1>0, ListSlots
<1>2. /\ prev \in [Slots -> Ptr] /\ next \in [Slots -> Ptr]
      /\ head \in [Levels -> Ptr] /\ tail \in [Levels -> Ptr]
      /\ order \in [Slots -> Contents \cup {Blank}]
      /\ orders \in [Ids -> Ptr]
      /\ free_list \in Seq(Slots)
      /\ size \in [Levels -> 0 .. Capacity]
  BY QueueTypes DEF QueueIInv
<1>3. /\ order[s].id \in Ids /\ orders[order[s].id] = s
      /\ \A x \in Slots : \A j \in Ids : orders'[j] = x <=> orders[j] = x /\ x # s
      /\ orders' = [orders EXCEPT ![order[s].id] = Null]
      /\ order' = order /\ free_list' = Append(free_list, s)
  BY <1>1, RemovedHeld DEF Removes, deallocate
<1>4. ASSUME NEW m \in Levels PROVE \E r : ListOf(m, r)'
  <2>1. PICK r : ListOf(m, r)
    BY DEF QueueIInv
  <2>2. /\ ListOf(l, Cut(q, k))'
        /\ \A x \in Levels \ {l} : \A y : ListOf(x, y) => ListOf(x, y)'
    BY <1>0, <1>1, RemoveLists
  <2> QED BY <2>1, <2>2
<1>5. /\ free_list' \in Seq(Slots) /\ Distinct(free_list')
      /\ \A y : In(y, free_list') <=> In(y, free_list) \/ y = s
  <2>1. Distinct(free_list) /\ ~In(s, free_list)
    BY <1>1, <1>3 DEF QueueIInv, SlotsPartitioned, Distinct, In
  <2>2. PICK f : f = free_list
    OBVIOUS
  <2>3. f \in Seq(Slots) /\ Distinct(f) /\ ~In(s, f)
    BY <2>1, <2>2, <1>2
  <2>4. /\ Append(f, s) \in Seq(Slots)
        /\ Distinct(Append(f, s))
        /\ \A y : In(y, Append(f, s)) <=> In(y, f) \/ y = s
    BY <2>3, <1>1, AppendIn
  <2> QED BY <2>2, <2>4, <1>3
<1>6. PointsBack'
  <2> SUFFICES ASSUME NEW j \in Ids, orders'[j] # Null
               PROVE  \E m \in Levels : order'[orders'[j]] = [id |-> j, level |-> m]
    BY DEF PointsBack
  <2>1. orders'[j] = orders[j]
    BY <1>2, <1>3
  <2> QED BY <2>1, <1>3 DEF QueueIInv, PointsBack
<1>7. SlotsPartitioned'
  <2>1. \A j, i \in 1 .. Len(free_list') : free_list'[j] = free_list'[i] => j = i
    BY <1>5 DEF Distinct
  <2>2. \A j, i \in Ids : orders'[j] = orders'[i] /\ orders'[j] # Null => j = i
    BY <1>2, <1>3 DEF QueueIInv, SlotsPartitioned
  <2>3. ASSUME NEW x \in Slots
        PROVE  (\E j \in 1 .. Len(free_list') : free_list'[j] = x)
                   <=> (\A i \in Ids : orders'[i] # x)
    <3>1. In(x, free_list) <=> (\A i \in Ids : orders[i] # x)
      BY DEF QueueIInv, SlotsPartitioned, In
    <3>2. In(x, free_list') <=> (\A i \in Ids : orders'[i] # x)
      BY <3>1, <1>3, <1>5
    <3> QED BY <3>2 DEF In
  <2> QED BY <2>1, <2>2, <2>3 DEF SlotsPartitioned
<1>8. QueueTypeOK'
  <2>1. order' \in [Slots -> Contents \cup {Blank}] /\ orders' \in [Ids -> Ptr]
    BY <1>2, <1>3 DEF Ptr
  <2>2. /\ prev' \in [Slots -> Ptr] /\ next' \in [Slots -> Ptr]
        /\ head' \in [Levels -> Ptr] /\ tail' \in [Levels -> Ptr]
    <3>1. prev[s] \in Ptr /\ next[s] \in Ptr
      BY <1>1, <1>2
    <3>2. prev[s] # Null => prev[s] \in Slots
      BY <3>1 DEF Ptr
    <3>3. next[s] # Null => next[s] \in Slots
      BY <3>1 DEF Ptr
    <3>4. prev' \in [Slots -> Ptr] /\ next' \in [Slots -> Ptr]
      BY <1>1, <1>2, <3>1, <3>2, <3>3 DEF Removes, remove
    <3>5. head' \in [Levels -> Ptr] /\ tail' \in [Levels -> Ptr]
      BY <1>1, <1>2, <3>1 DEF Removes, remove
    <3> QED BY <3>4, <3>5
  <2>3. size' \in [Levels -> 0 .. Capacity]
    <3>1. size' = [size EXCEPT ![l] = @ - 1]
      BY <1>1 DEF Removes, remove
    <3>2. ASSUME NEW m \in Levels PROVE size'[m] \in 0 .. Capacity
      <4>1. PICK r : ListOf(m, r)'
        BY <1>4
      <4> QED BY <4>1, FitsArena, CapacityAssumption DEF ListOf, Spells
    <3> QED BY <3>1, <3>2, <1>2
  <2>4. Len(free_list') <= Capacity
    BY <1>5, FitsArena
  <2> QED BY <2>1, <2>2, <2>3, <2>4, <1>5 DEF QueueTypeOK
<1> QED BY <1>4, <1>6, <1>7, <1>8 DEF QueueIInv

-----------------------------------------------------------------------------
(* The invariants                                                          *)

\* Every list is empty at the start.
LEMMA EmptyLists ==
    ASSUME Init, NEW l \in Levels
    PROVE  ListOf(l, << >>)
<1>1. Spells(l, << >>)
  BY DEF Init, Spells
<1>2. \A x \in Slots : ~Held(x, l) /\ ~In(x, << >>)
  BY CapacityAssumption DEF Init, Held, In, Slots, Null
<1> QED BY <1>1, <1>2 DEF ListOf, Distinct

\* The arena starts as one free list.
LEMMA InitInv == Init => QueueIInv
<1> SUFFICES ASSUME Init PROVE QueueIInv
  OBVIOUS
<1>1. /\ order = [x \in Slots |-> Blank]
      /\ prev = [x \in Slots |-> Null] /\ next = [x \in Slots |-> Null]
      /\ head = [l \in Levels |-> Null] /\ tail = [l \in Levels |-> Null]
      /\ size = [l \in Levels |-> 0]
      /\ free_list = [k \in 1 .. Capacity |-> Capacity + 1 - k]
      /\ orders = [i \in Ids |-> Null]
  BY DEF Init
<1>2. Capacity \in Nat /\ \A k \in 1 .. Capacity : Capacity + 1 - k \in Slots
  BY CapacityAssumption DEF Slots
<1>3. /\ free_list \in Seq(Slots) /\ Len(free_list) = Capacity
      /\ \A k \in 1 .. Capacity : free_list[k] = Capacity + 1 - k
  BY <1>1, <1>2
<1>4. QueueTypeOK
  <2>1. Null \in Ptr /\ 0 \in 0 .. Capacity
    BY <1>2 DEF Ptr
  <2> QED BY <1>1, <1>2, <1>3, <2>1 DEF QueueTypeOK
<1>5. SlotsPartitioned
  <2>1. ASSUME NEW x \in Slots
        PROVE  /\ \E k \in 1 .. Len(free_list) : free_list[k] = x
               /\ x # Null
    <3>1. Capacity + 1 - x \in 1 .. Capacity /\ Capacity + 1 - (Capacity + 1 - x) = x /\ x # Null
      BY <1>2 DEF Slots, Null
    <3> QED BY <3>1, <1>3
  <2>2. \A j, k \in 1 .. Len(free_list) : free_list[j] = free_list[k] => j = k
    BY <1>2, <1>3
  <2> QED BY <1>1, <2>1, <2>2 DEF SlotsPartitioned
<1>6. PointsBack
  BY <1>1 DEF PointsBack
<1> QED BY <1>4, <1>5, <1>6, EmptyLists DEF QueueIInv

\* A step that changes nothing preserves the invariant.
LEMMA StutterInv ==
    ASSUME QueueIInv, UNCHANGED queueVars
    PROVE  QueueIInv'
<1>1. UNCHANGED <<order, prev, next, head, tail, size, free_list, orders>>
  BY DEF queueVars, listVars
<1>2. QueueTypeOK' /\ SlotsPartitioned' /\ PointsBack'
  BY <1>1, ZenonT(30) DEF QueueIInv, QueueTypeOK, SlotsPartitioned, PointsBack
<1>3. ASSUME NEW l \in Levels, NEW q, ListOf(l, q) PROVE ListOf(l, q)'
  BY <1>1, <1>3 DEF ListOf, Spells, Held
<1> QED BY <1>2, <1>3 DEF QueueIInv

\* The linked lists, the pool and the map stay consistent through every sequence
\* of addOrder, cancelOrder and fills (orderbook.cpp, price_level_queue.hpp,
\* order_pool.hpp).
THEOREM QueueInvariant == Spec => []QueueIInv
<1>1. QueueIInv /\ [Next]_queueVars => QueueIInv'
  <2> SUFFICES ASSUME QueueIInv, [Next]_queueVars PROVE QueueIInv'
    OBVIOUS
  <2>1. CASE UNCHANGED queueVars
    BY <2>1, StutterInv
  <2>2. ASSUME NEW i \in Ids, NEW l \in Levels, addOrder(i, l) PROVE QueueIInv'
    <3>1. CASE UNCHANGED queueVars
      BY <3>1, StutterInv
    <3>2. CASE ~UNCHANGED queueVars
      <4>1. Adds(i, l)
        BY <2>2, <3>2 DEF addOrder, Adds
      <4> QED BY <4>1, AddInv
    <3> QED BY <3>1, <3>2
  <2>3. ASSUME NEW i \in Ids, cancelOrder(i) PROVE QueueIInv'
    BY <2>3, CancelRemoves, RemoveInv
  <2>4. ASSUME NEW l \in Levels, fillFront(l) PROVE QueueIInv'
    BY <2>4, FillRemoves, RemoveInv
  <2> QED BY <2>1, <2>2, <2>3, <2>4 DEF Next
<1> QED BY <1>1, InitInv, PTL DEF Spec

\* Every pointer stays inside the arena, no size underflows and the free list
\* never outgrows what OrderPool's constructor reserved (order_pool.hpp:28).
THEOREM QueueTypeCorrect == Spec => []QueueTypeOK
<1>1. QueueIInv => QueueTypeOK
  BY DEF QueueIInv
<1> QED BY <1>1, QueueInvariant, PTL

\* Each level's head, tail, size and links describe one list, forwards and
\* backwards, of exactly the orders the map has there: push, pop and remove
\* never join two levels or lose an order (price_level_queue.hpp).
THEOREM LinksCorrect == Spec => []LinksWellFormed
<1>1. QueueIInv => LinksWellFormed
  BY ListsSuffice DEF QueueIInv
<1> QED BY <1>1, QueueInvariant, PTL

\* No slot is leaked, handed out twice or freed while the map points to it
\* (order_pool.hpp, and its callers in orderbook.cpp).
THEOREM NoSlotLeaks == Spec => []SlotsPartitioned
<1>1. QueueIInv => SlotsPartitioned
  BY DEF QueueIInv
<1> QED BY <1>1, QueueInvariant, PTL

-----------------------------------------------------------------------------
(* The refinement of LevelQueues                                           *)

\* A set of numbers has a least one.
LEMMA Least ==
    ASSUME NEW T \in SUBSET Nat, T # {}
    PROVE  \E x \in T : \A y \in T : x <= y
<1> DEFINE R == {ss \in Nat \X Nat : ss[1] < ss[2]}
<1>1. R = OpToRel(<, Nat)
  BY Zenon DEF OpToRel
<1>2. IsWellFoundedOn(R, Nat)
  BY <1>1, NatLessThanWellFounded, Zenon
<1>3. PICK x \in T : \A y \in T : ~(<<y, x>> \in R)
  BY <1>2, WFMin
<1>4. ASSUME NEW y \in T PROVE x <= y
  <2>1. <<y, x>> \in Nat \X Nat /\ <<y, x>>[1] = y /\ <<y, x>>[2] = x
    OBVIOUS
  <2>2. ~(y < x)
    BY <1>3, <2>1, Zenon
  <2> QED BY <2>2
<1> QED BY <1>4

\* The head and the next links determine the list: at the first position where
\* two readings differ, they followed the same link.
LEMMA OneReading ==
    ASSUME NEW l \in Levels, NEW q \in Seq(Slots), NEW r \in Seq(Slots),
           Spells(l, q), Spells(l, r)
    PROVE  r = q
<1> DEFINE n == Len(q)
           T == {k \in 1 .. n : q[k] # r[k]}
<1>1. n \in Nat /\ Len(r) = n
  BY DEF Spells
<1>2. ASSUME T # {} PROVE FALSE
  <2>0. T \in SUBSET Nat
    BY <1>1
  <2>1. PICK x \in T : \A y \in T : x <= y
    <3> HIDE DEF T
    <3> QED BY <1>2, <2>0, Least
  <2>2. x # 1
    BY <2>1, <1>1 DEF Spells
  <2>3. x - 1 \in 1 .. n /\ x - 1 # n /\ x - 1 + 1 = x
    BY <2>1, <2>2, <1>1
  <2>4. q[x - 1] = r[x - 1]
    BY <2>1, <2>3, <1>1
  <2>5. next[q[x - 1]] = q[x] /\ next[r[x - 1]] = r[x]
    BY <2>3, <1>1, SMTT(40) DEF Spells
  <2> QED BY <2>1, <2>4, <2>5
<1>3. \A k \in 1 .. n : q[k] = r[k]
  BY <1>2
<1> QED BY <1>1, <1>3

\* The ids of the orders in the slots of q.
IdsOf(q) == [k \in 1 .. Len(q) |-> order[q[k]].id]

\* What the refinement mapping shows of a level.
ReadsLists == \A l \in Levels : \A q : ListOf(l, q) => QueuedIds[l] = IdsOf(q)

\* The mapping reads the list of each level.
LEMMA MappingReads == ReadsLists
<1> SUFFICES ASSUME NEW l \in Levels, NEW q, ListOf(l, q) PROVE QueuedIds[l] = IdsOf(q)
  BY DEF ReadsLists
<1>1. q \in Seq(Slots) /\ Spells(l, q) /\ size[l] = Len(q)
  BY DEF ListOf, Spells
<1>2. q \in Lists
  <2>1. Len(q) \in 0 .. Capacity /\ q \in [1 .. Len(q) -> Slots]
    BY FitsArena, CapacityAssumption DEF ListOf
  <2> QED BY <2>1 DEF Lists
<1>3. Listed(l) \in Lists /\ Spells(l, Listed(l))
  BY <1>1, <1>2 DEF Listed
<1>4. Listed(l) \in Seq(Slots)
  <2>1. PICK n \in 0 .. Capacity : Listed(l) \in [1 .. n -> Slots]
    BY <1>3 DEF Lists
  <2>2. n \in Nat
    BY CapacityAssumption
  <2> QED BY <2>1, <2>2
<1>5. Listed(l) = q
  BY <1>1, <1>3, <1>4, OneReading
<1> QED BY <1>1, <1>5 DEF QueuedIds, IdsOf

\* Cut is what LevelQueues writes with two subsequences.
LEMMA CutIsSplice ==
    ASSUME NEW S, NEW q \in Seq(S), NEW k \in 1 .. Len(q)
    PROVE  Cut(q, k) = SubSeq(q, 1, k - 1) \o SubSeq(q, k + 1, Len(q))
<1> DEFINE n == Len(q)
<1>1. n \in Nat /\ k \in 1 .. n
  OBVIOUS
<1>2. PICK a : a = SubSeq(q, 1, k - 1)
  OBVIOUS
<1>3. PICK b : b = SubSeq(q, k + 1, n)
  OBVIOUS
<1>4. a \in Seq(S) /\ Len(a) = k - 1 /\ \A i \in 1 .. k - 1 : a[i] = q[i]
  <2>1. 1 \in Int /\ k - 1 \in Int /\ \A i \in 1 .. k - 1 : q[i] \in S
    BY <1>1
  <2>2. /\ a \in Seq(S)
        /\ Len(a) = IF 1 <= k - 1 THEN k - 1 - 1 + 1 ELSE 0
        /\ \A i \in 1 .. k - 1 - 1 + 1 : a[i] = q[1 + i - 1]
    BY <2>1, <1>2, SubSeqProperties
  <2>3. \A i \in 1 .. k - 1 : i \in 1 .. k - 1 - 1 + 1 /\ 1 + i - 1 = i
    BY <1>1
  <2> QED BY <2>2, <2>3, <1>1
<1>5. b \in Seq(S) /\ Len(b) = n - k /\ \A i \in 1 .. n - k : b[i] = q[k + i]
  <2>1. k + 1 \in Int /\ n \in Int /\ \A i \in k + 1 .. n : q[i] \in S
    BY <1>1
  <2>2. /\ b \in Seq(S)
        /\ Len(b) = IF k + 1 <= n THEN n - (k + 1) + 1 ELSE 0
        /\ \A i \in 1 .. n - (k + 1) + 1 : b[i] = q[k + 1 + i - 1]
    BY <2>1, <1>3, SubSeqProperties
  <2>3. \A i \in 1 .. n - k : i \in 1 .. n - (k + 1) + 1 /\ k + 1 + i - 1 = k + i
    BY <1>1
  <2> QED BY <2>2, <2>3, <1>1
<1>6. PICK c : c = a \o b
  OBVIOUS
<1>7. /\ c \in Seq(S) /\ Len(c) = n - 1
      /\ \A i \in 1 .. n - 1 : c[i] = IF i < k THEN q[i] ELSE q[i + 1]
  <2>1. c \in Seq(S) /\ Len(c) = Len(a) + Len(b)
    BY <1>4, <1>5, <1>6, ConcatProperties
  <2>2. ASSUME NEW i \in 1 .. n - 1 PROVE c[i] = IF i < k THEN q[i] ELSE q[i + 1]
    <3>1. c[i] = IF i <= Len(a) THEN a[i] ELSE b[i - Len(a)]
      BY <1>1, <1>4, <1>5, <1>6
    <3>2. CASE i < k
      BY <3>1, <3>2, <1>1, <1>4
    <3>3. CASE ~(i < k)
      <4>1. i - (k - 1) \in 1 .. n - k /\ k + (i - (k - 1)) = i + 1 /\ ~(i <= k - 1)
        BY <3>3, <1>1
      <4> QED BY <3>1, <3>3, <4>1, <1>4, <1>5
    <3> QED BY <3>2, <3>3
  <2> QED BY <2>1, <2>2, <1>1, <1>4, <1>5
<1>8. c = [i \in 1 .. n - 1 |-> IF i < k THEN q[i] ELSE q[i + 1]]
  BY <1>7
<1> QED BY <1>2, <1>3, <1>6, <1>8 DEF Cut

\* The ids of a level after an add.
LEMMA AddQueued ==
    ASSUME QueueIInv, NEW i \in Ids, NEW l \in Levels, Adds(i, l), ReadsLists'
    PROVE  QueuedIds' = [QueuedIds EXCEPT ![l] = Append(@, i)]
<1>0. PICK t : t = Top
  OBVIOUS
<1>1. t \in Slots /\ \A m \in Levels : ~Held(t, m)
  BY <1>0, TopIsFree DEF Adds
<1>2. /\ order' = [order EXCEPT ![t] = [id |-> i, level |-> l]]
      /\ order \in [Slots -> Contents \cup {Blank}]
  BY <1>0, QueueTypes DEF Adds, allocate, QueueIInv
<1>3. ASSUME NEW m \in Levels
      PROVE  QueuedIds'[m] = IF m = l THEN Append(QueuedIds[m], i) ELSE QueuedIds[m]
  <2>1. PICK q : ListOf(m, q)
    BY DEF QueueIInv
  <2>2. QueuedIds[m] = IdsOf(q)
    BY <2>1, MappingReads DEF ReadsLists
  <2>3. ListOf(m, IF m = l THEN Append(q, t) ELSE q)'
    BY <1>0, <2>1, PushLists DEF Adds
  <2>4. /\ q \in Seq(Slots) /\ Len(q) \in Nat
        /\ \A k \in 1 .. Len(q) : q[k] \in Slots /\ order'[q[k]] = order[q[k]]
    <3>1. q \in Seq(Slots) /\ Len(q) \in Nat
      BY <2>1 DEF ListOf
    <3>2. ASSUME NEW k \in 1 .. Len(q) PROVE q[k] \in Slots /\ q[k] # t
      BY <2>1, <1>1, ListSlots
    <3> QED BY <3>1, <3>2, <1>2
  <2>5. CASE m # l
    <3>1. QueuedIds'[m] = [k \in 1 .. Len(q) |-> order'[q[k]].id]
      BY <2>3, <2>5 DEF ReadsLists, IdsOf
    <3> QED BY <3>1, <2>2, <2>4, <2>5 DEF IdsOf
  <2>6. CASE m = l
    <3>0. PICK a : a = Append(q, t)
      OBVIOUS
    <3>1. QueuedIds'[m] = [k \in 1 .. Len(a) |-> order'[a[k]].id]
      <4>1. a = IF m = l THEN Append(q, t) ELSE q
        BY <2>6, <3>0
      <4>2. ListOf(m, a)'
        BY <2>3, <4>1
      <4> QED BY <4>2 DEF ReadsLists, IdsOf
    <3>2. /\ Len(a) = Len(q) + 1 /\ a[Len(q) + 1] = t
          /\ \A k \in 1 .. Len(q) : a[k] = q[k]
      BY <3>0, <2>4, <1>1
    <3>3. order'[t].id = i
      BY <1>1, <1>2
    <3>4. PICK x : x = IdsOf(q)
      OBVIOUS
    <3>5. x = [k \in 1 .. Len(q) |-> order[q[k]].id]
      BY <3>4 DEF IdsOf
    <3>6. Append(x, i) = [k \in 1 .. Len(q) + 1 |-> IF k <= Len(q) THEN x[k] ELSE i]
      BY <3>5, <2>4 DEF Append
    <3>7. \A k \in 1 .. Len(q) + 1 : order'[a[k]].id = IF k <= Len(q) THEN x[k] ELSE i
      BY <3>2, <3>3, <3>5, <2>4
    <3>8. QueuedIds'[m] = Append(x, i)
      BY <3>1, <3>2, <3>6, <3>7
    <3> QED BY <3>4, <3>8, <2>2, <2>6
  <2> QED BY <2>5, <2>6
<1>4. QueuedIds = [m \in Levels |-> QueuedIds[m]] /\ QueuedIds' = [m \in Levels |-> QueuedIds'[m]]
  BY DEF QueuedIds
<1> QED BY <1>3, <1>4

\* The ids of a level after the order at position k has left it.
LEMMA RemoveQueued ==
    ASSUME QueueIInv, NEW l \in Levels, NEW q, ListOf(l, q), NEW k \in 1 .. Len(q),
           Removes(l, q[k]), ReadsLists'
    PROVE  /\ k \in 1 .. Len(QueuedIds[l])
           /\ QueuedIds' = [QueuedIds EXCEPT ![l] =
                                SubSeq(@, 1, k - 1) \o SubSeq(@, k + 1, Len(@))]
<1>0. PICK s : s = q[k]
  OBVIOUS
<1>1. /\ ListOf(l, Cut(q, k))'
      /\ \A m \in Levels \ {l} : \A r : ListOf(m, r) => ListOf(m, r)'
  BY <1>0, RemoveLists
<1>2. order' = order
  BY DEF Removes
<1>3. PICK x : x = QueuedIds[l]
  OBVIOUS
<1>4. x = [j \in 1 .. Len(q) |-> order[q[j]].id]
  BY <1>3, MappingReads DEF ReadsLists, IdsOf
<1>5. q \in Seq(Slots) /\ Distinct(q) /\ Len(q) \in Nat
  BY DEF ListOf
<1>6. /\ Len(Cut(q, k)) = Len(q) - 1
      /\ \A i \in 1 .. Len(q) - 1 : Cut(q, k)[i] = IF i < k THEN q[i] ELSE q[i + 1]
  BY <1>5, CutOut, SMTT(30)
<1>7. QueuedIds'[l] = Cut(x, k)
  <2>1. PICK c : c = Cut(q, k)
    OBVIOUS
  <2>2. ListOf(l, c)'
    BY <1>1, <2>1
  <2>3. QueuedIds'[l] = [i \in 1 .. Len(q) - 1 |-> order[c[i]].id]
    BY <1>2, <1>6, <2>1, <2>2 DEF ReadsLists, IdsOf
  <2>4. Len(x) = Len(q)
    BY <1>4, <1>5
  <2>5. \A i \in 1 .. Len(q) - 1 : order[c[i]].id = IF i < k THEN x[i] ELSE x[i + 1]
    BY <1>4, <1>5, <1>6, <2>1
  <2> QED BY <2>3, <2>4, <2>5 DEF Cut
<1>8. ASSUME NEW m \in Levels, m # l PROVE QueuedIds'[m] = QueuedIds[m]
  <2>1. PICK r : ListOf(m, r)
    BY DEF QueueIInv
  <2>2. QueuedIds[m] = [i \in 1 .. Len(r) |-> order[r[i]].id]
    BY <2>1, MappingReads DEF ReadsLists, IdsOf
  <2>3. ListOf(m, r)'
    BY <1>1, <1>8, <2>1
  <2>4. QueuedIds'[m] = [i \in 1 .. Len(r) |-> order'[r[i]].id]
    BY <2>3 DEF ReadsLists, IdsOf
  <2> QED BY <2>2, <2>4, <1>2
<1>9. k \in 1 .. Len(x) /\ Cut(x, k) = SubSeq(x, 1, k - 1) \o SubSeq(x, k + 1, Len(x))
  <2> DEFINE S == {order[q[j]].id : j \in 1 .. Len(q)}
  <2>1. x \in Seq(S) /\ k \in 1 .. Len(x)
    BY <1>4, <1>5
  <2> HIDE DEF S
  <2> QED BY <2>1, CutIsSplice
<1>10. QueuedIds = [m \in Levels |-> QueuedIds[m]] /\ QueuedIds' = [m \in Levels |-> QueuedIds'[m]]
  BY DEF QueuedIds
<1> QED BY <1>3, <1>7, <1>8, <1>9, <1>10

\* An id whose map entry is null rests nowhere.
LEMMA NullRestsNowhere ==
    ASSUME QueueIInv, NEW i \in Ids, orders[i] = Null
    PROVE  ~Abstract!Rests(i)
<1> SUFFICES ASSUME NEW l \in Levels, NEW k \in 1 .. Len(QueuedIds[l]), QueuedIds[l][k] = i
             PROVE  FALSE
  BY DEF Abstract!Rests
<1>1. PICK q : ListOf(l, q)
  BY DEF QueueIInv
<1>2. QueuedIds[l] = [j \in 1 .. Len(q) |-> order[q[j]].id] /\ Len(q) \in Nat
  BY <1>1, MappingReads DEF ReadsLists, IdsOf, ListOf
<1>3. k \in 1 .. Len(q) /\ order[q[k]].id = i
  BY <1>2
<1>4. q[k] # Null /\ Held(q[k], l)
  BY <1>1, <1>3, ListSlots
<1>5. orders[i] = q[k]
  BY <1>3, <1>4 DEF Held
<1> QED BY <1>4, <1>5

\* The lists, the pool and the map implement what module OrderBook keeps instead
\* of them: addOrder appends an id that rests nowhere to its level and takes a
\* free slot, cancelOrder and a fill take one id out of its level, where the
\* others keep their order, and return the slot.
THEOREM LevelsImplemented == Spec => RefinesLevels
<1>1. Init => Abstract!Init
  <2> SUFFICES ASSUME Init PROVE Abstract!Init
    OBVIOUS
  <2>1. ASSUME NEW l \in Levels PROVE QueuedIds[l] = << >>
    <3>1. QueuedIds[l] = [k \in 1 .. Len(<< >>) |-> order[<< >>[k]].id]
      BY EmptyLists, MappingReads DEF ReadsLists, IdsOf
    <3>2. 1 .. Len(<< >>) = {}
      OBVIOUS
    <3>3. QueuedIds[l] \in [1 .. 0 -> {}]
      BY <3>1, <3>2
    <3>4. QueuedIds[l] \in Seq({}) /\ Len(QueuedIds[l]) = 0
      BY <3>3
    <3> QED BY <3>4, EmptySeq
  <2>2. QueuedIds = [l \in Levels |-> QueuedIds[l]]
    BY DEF QueuedIds
  <2>3. Len(free_list) = Capacity
    BY CapacityAssumption DEF Init
  <2> QED BY <2>1, <2>2, <2>3 DEF Abstract!Init
<1>2. QueueIInv /\ ReadsLists' /\ [Next]_queueVars
          => [Abstract!Next]_<<QueuedIds, Len(free_list)>>
  <2> SUFFICES ASSUME QueueIInv, ReadsLists', [Next]_queueVars
               PROVE  [Abstract!Next]_<<QueuedIds, Len(free_list)>>
    OBVIOUS
  <2>0. free_list \in Seq(Slots)
    BY QueueTypes DEF QueueIInv
  <2>1. CASE UNCHANGED queueVars
    <3>1. UNCHANGED <<order, prev, next, head, tail, size, free_list, orders>>
      BY <2>1 DEF queueVars, listVars
    <3>2. ASSUME NEW l \in Levels PROVE QueuedIds'[l] = QueuedIds[l]
      <4>1. PICK q : ListOf(l, q)
        BY DEF QueueIInv
      <4>2. ListOf(l, q)'
        BY <3>1, <4>1 DEF ListOf, Spells, Held
      <4>3. QueuedIds[l] = [i \in 1 .. Len(q) |-> order[q[i]].id]
        BY <4>1, MappingReads DEF ReadsLists, IdsOf
      <4>4. QueuedIds'[l] = [i \in 1 .. Len(q) |-> order'[q[i]].id]
        BY <4>2 DEF ReadsLists, IdsOf
      <4> QED BY <4>3, <4>4, <3>1
    <3>3. /\ QueuedIds = [m \in Levels |-> QueuedIds[m]]
          /\ QueuedIds' = [m \in Levels |-> QueuedIds'[m]]
      BY DEF QueuedIds
    <3> QED BY <3>1, <3>2, <3>3
  <2>2. ASSUME NEW i \in Ids, NEW l \in Levels, Adds(i, l) PROVE Abstract!Next
    <3>1. ~Abstract!Rests(i)
      BY <2>2, NullRestsNowhere DEF Adds
    <3>2. QueuedIds' = [QueuedIds EXCEPT ![l] = Append(@, i)]
      BY <2>2, AddQueued
    <3>3. Len(free_list) > 0 /\ Len(free_list') = Len(free_list) - 1
      <4>1. Len(free_list) \in Nat /\ Len(free_list) > 0
        BY <2>0, <2>2 DEF Adds
      <4>2. free_list' = SubSeq(free_list, 1, Len(free_list) - 1)
        BY <2>2 DEF Adds, allocate
      <4>3. \A k \in 1 .. Len(free_list) - 1 : free_list[k] \in Slots
        BY <2>0
      <4>4. Len(free_list') = IF 1 <= Len(free_list) - 1 THEN Len(free_list) - 1 - 1 + 1 ELSE 0
        BY <4>1, <4>2, <4>3, SubSeqProperties
      <4>5. \A n \in Nat : n > 0 => (IF 1 <= n - 1 THEN n - 1 - 1 + 1 ELSE 0) = n - 1
        OBVIOUS
      <4> QED BY <4>1, <4>4, <4>5, Zenon
    <3>4. Abstract!Add(i, l)
      BY <3>1, <3>2, <3>3 DEF Abstract!Add
    <3> QED BY <3>4 DEF Abstract!Next
  <2>3. ASSUME NEW l \in Levels, NEW q, ListOf(l, q), NEW k \in 1 .. Len(q), Removes(l, q[k])
        PROVE  Abstract!Next
    <3>1. /\ k \in 1 .. Len(QueuedIds[l])
          /\ QueuedIds' = [QueuedIds EXCEPT ![l] =
                                SubSeq(@, 1, k - 1) \o SubSeq(@, k + 1, Len(@))]
      BY <2>3, RemoveQueued
    <3>2. Len(free_list') = Len(free_list) + 1
      BY <2>0, <2>3, ListSlots DEF Removes, deallocate
    <3>3. Abstract!Leave(l, k)
      BY <3>1, <3>2 DEF Abstract!Leave
    <3> QED BY <3>1, <3>3 DEF Abstract!Next
  <2>4. ASSUME NEW i \in Ids, NEW l \in Levels, addOrder(i, l)
        PROVE  [Abstract!Next]_<<QueuedIds, Len(free_list)>>
    <3>1. UNCHANGED queueVars \/ Adds(i, l)
      BY <2>4 DEF addOrder, Adds
    <3> QED BY <3>1, <2>1, <2>2
  <2>5. ASSUME NEW i \in Ids, cancelOrder(i) PROVE Abstract!Next
    BY <2>5, <2>3, CancelRemoves
  <2>6. ASSUME NEW l \in Levels, fillFront(l) PROVE Abstract!Next
    BY <2>6, <2>3, FillRemoves
  <2> QED BY <2>1, <2>4, <2>5, <2>6 DEF Next
<1> QED BY <1>1, <1>2, QueueInvariant, MappingReads, PTL DEF Spec, RefinesLevels, Abstract!Spec
=============================================================================

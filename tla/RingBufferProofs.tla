-------------------------- MODULE RingBufferProofs --------------------------
(***************************************************************************)
(* Proofs about RingBuffer, for every ring size and every set of items:    *)
(* type correctness, absence of a data race on the slots, and that the     *)
(* ring implements a bounded FIFO.                                         *)
(***************************************************************************)
EXTENDS RingBuffer, TLAPS

\* The indices lie on the ring in the order r_seen, read_idx, w_seen, write_idx
\* and span less than one turn: a stale view is only ever behind.
Ordered ==
    /\ Dist(r_seen, read_idx) + Dist(read_idx, write_idx) = Dist(r_seen, write_idx)
    /\ Dist(read_idx, w_seen) + Dist(w_seen, write_idx) = Dist(read_idx, write_idx)

\* What each thread has established at its program counter.
InPush == /\ ppc # "idle" => Next1(write_idx) # r_seen /\ item \in Values
          /\ ppc = "publish" => buffer[write_idx] = item
InPop  == /\ cpc # "idle" => read_idx # w_seen
          /\ cpc = "publish" => taken = buffer[read_idx]

\* The slots between the indices hold items.
Filled == \A k \in 0 .. Dist(read_idx, write_idx) - 1 : buffer[Slot(k)] \in Values

RingInv == RingTypeOK /\ Ordered /\ InPush /\ InPop /\ Filled

\* How the distance between two indices moves when either is advanced.
LEMMA DistFacts ==
    ASSUME NEW i \in Slots, NEW j \in Slots
    PROVE  /\ Dist(i, j) \in Slots
           /\ Dist(i, j) = 0 <=> i = j
           /\ Next1(i) \in Slots
           /\ Next1(j) # i => Dist(i, Next1(j)) = Dist(i, j) + 1
           /\ i # j => Dist(Next1(i), j) = Dist(i, j) - 1
BY SizeAssumption DEF Slots, Dist, Next1

\* The invariant holds initially and every load and store keeps it.
THEOREM RingInvariant == Spec => []RingInv
<1> USE SizeAssumption
<1>1. Init => RingInv
  BY DEF Init, RingInv, RingTypeOK, Ordered, InPush, InPop, Filled, Dist, Slots
<1>2. RingInv /\ [Next]_vars => RingInv'
  <2> SUFFICES ASSUME RingInv, [Next]_vars PROVE RingInv'
    OBVIOUS
  <2> USE DEF RingInv
  <2>0. write_idx \in Slots /\ read_idx \in Slots /\ r_seen \in Slots /\ w_seen \in Slots
    BY DEF RingTypeOK
  <2>1. ASSUME NEW v \in Values, PushCheck(v) PROVE RingInv'
    <3>1. PICK r \in Slots :
            /\ StoredSince(r_seen, read_idx, r)
            /\ r_seen' = r
            /\ IF Next1(write_idx) = r
               THEN UNCHANGED <<ppc, item>>
               ELSE ppc' = "write" /\ item' = v
      BY <2>1 DEF PushCheck
    <3>2. ppc = "idle" /\ UNCHANGED <<write_idx, buffer, consVars>>
      BY <2>1 DEF PushCheck
    <3>3. RingTypeOK'
      BY <3>1, <3>2, <2>0 DEF RingTypeOK, consVars
    <3>4. Ordered'
      BY <3>1, <3>2, <2>0 DEF Ordered, consVars, StoredSince, Dist, Slots
    <3>5. InPush' /\ InPop' /\ Filled'
      BY <3>1, <3>2 DEF InPush, InPop, Filled, consVars, Slot
    <3> QED BY <3>3, <3>4, <3>5
  <2>2. CASE PushWrite
    <3>1. /\ ppc = "write" /\ ppc' = "publish"
          /\ buffer' = [buffer EXCEPT ![write_idx] = item]
          /\ UNCHANGED <<write_idx, r_seen, item, consVars>>
      BY <2>2 DEF PushWrite
    <3>2. item \in Values /\ buffer'[write_idx] = item
          /\ \A i \in Slots \ {write_idx} : buffer'[i] = buffer[i]
      BY <3>1, <2>0 DEF InPush, RingTypeOK
    <3>3. RingTypeOK' /\ Ordered'
      BY <3>1, <3>2, <2>0 DEF RingTypeOK, Ordered, consVars
    <3>4. \A k \in 0 .. Dist(read_idx, write_idx) - 1 : Slot(k) \in Slots \ {write_idx}
      BY <2>0 DEF Slot, Slots, Dist
    <3>5. Filled'
      BY <3>1, <3>2, <3>4 DEF Filled, consVars, Slot
    <3>6. cpc = "publish" => read_idx # write_idx
      BY <2>0 DEF InPop, Ordered, Dist, Slots
    <3> QED BY <3>1, <3>2, <3>3, <3>5, <3>6, <2>0 DEF InPush, InPop, consVars
  <2>3. CASE PushPublish
    <3>1. /\ ppc = "publish" /\ ppc' = "idle" /\ item' = Blank
          /\ write_idx' = Next1(write_idx)
          /\ UNCHANGED <<buffer, r_seen, consVars>>
      BY <2>3 DEF PushPublish
    <3>2. Next1(write_idx) # r_seen /\ buffer[write_idx] \in Values
      BY <3>1 DEF InPush
    <3>3. RingTypeOK'
      BY <3>1, <2>0, DistFacts DEF RingTypeOK, consVars
    <3>4. Ordered'
      BY <3>1, <3>2, <2>0 DEF Ordered, consVars, Dist, Next1, Slots
    <3>5. Dist(read_idx, Next1(write_idx)) = Dist(read_idx, write_idx) + 1
          /\ Slot(Dist(read_idx, write_idx)) = write_idx
      BY <3>2, <2>0 DEF Ordered, Dist, Next1, Slots, Slot
    <3>6. Filled'
      <4> SUFFICES ASSUME NEW k \in 0 .. Dist(read_idx, Next1(write_idx)) - 1
                   PROVE  buffer[Slot(k)] \in Values
        BY <3>1 DEF Filled, consVars, Slot
      <4>1. Dist(read_idx, write_idx) \in Nat
        BY <2>0, DistFacts DEF Slots
      <4>2. CASE k = Dist(read_idx, write_idx)
        BY <4>2, <3>2, <3>5
      <4>3. CASE k # Dist(read_idx, write_idx)
        BY <4>1, <4>3, <3>5 DEF Filled
      <4> QED BY <4>2, <4>3
    <3> QED BY <3>1, <3>3, <3>4, <3>6 DEF InPush, InPop, consVars
  <2>4. CASE PopCheck
    <3>1. PICK w \in Slots :
            /\ StoredSince(w_seen, write_idx, w)
            /\ w_seen' = w
            /\ cpc' = IF read_idx = w THEN "idle" ELSE "read"
      BY <2>4 DEF PopCheck
    <3>2. cpc = "idle" /\ UNCHANGED <<read_idx, taken, got, buffer, prodVars>>
      BY <2>4 DEF PopCheck
    <3>3. RingTypeOK'
      BY <3>1, <3>2, <2>0 DEF RingTypeOK, prodVars
    <3>4. Ordered'
      BY <3>1, <3>2, <2>0 DEF Ordered, prodVars, StoredSince, Dist, Slots
    <3> QED BY <3>1, <3>2, <3>3, <3>4 DEF InPush, InPop, Filled, prodVars, Slot
  <2>5. CASE PopRead
    <3>1. /\ cpc = "read" /\ cpc' = "publish" /\ taken' = buffer[read_idx]
          /\ UNCHANGED <<read_idx, w_seen, got, buffer, prodVars>>
      BY <2>5 DEF PopRead
    <3>2. RingTypeOK' /\ Ordered'
      BY <3>1, <2>0 DEF RingTypeOK, Ordered, prodVars
    <3> QED BY <3>1, <3>2 DEF InPush, InPop, Filled, prodVars, Slot
  <2>6. CASE PopPublish
    <3>1. /\ cpc = "publish" /\ cpc' = "idle" /\ taken' = Blank /\ got' = <<taken>>
          /\ read_idx' = Next1(read_idx)
          /\ UNCHANGED <<w_seen, buffer, prodVars>>
      BY <2>6 DEF PopPublish
    <3>2. read_idx # w_seen /\ taken = buffer[read_idx]
      BY <3>1 DEF InPop
    <3>3. read_idx # write_idx /\ Slot(0) = read_idx
      BY <3>2, <2>0 DEF Ordered, Dist, Slots, Slot
    <3>4. taken \in Values
      BY <3>2, <3>3, <2>0, DistFacts DEF Filled, Slots
    <3>5. RingTypeOK'
      BY <3>1, <3>4, <2>0, DistFacts DEF RingTypeOK, prodVars
    <3>6. Ordered'
      BY <3>1, <3>2, <3>3, <2>0 DEF Ordered, prodVars, Dist, Next1, Slots
    <3>7. \A k \in 0 .. Dist(Next1(read_idx), write_idx) - 1 :
            /\ k + 1 \in 0 .. Dist(read_idx, write_idx) - 1
            /\ Slot(k)' = Slot(k + 1)
      BY <3>1, <3>3, <2>0 DEF Dist, Next1, Slots, Slot
    <3>8. Filled'
      BY <3>1, <3>7 DEF Filled, prodVars
    <3> QED BY <3>1, <3>5, <3>6, <3>8 DEF InPush, InPop, prodVars
  <2>7. CASE UNCHANGED vars
    BY <2>7 DEF vars, prodVars, consVars, RingTypeOK, Ordered, InPush, InPop, Filled, Slot
  <2> QED BY <2>1, <2>2, <2>3, <2>4, <2>5, <2>6, <2>7 DEF Next, push, pop
<1> QED BY <1>1, <1>2, PTL DEF Spec

\* Types of the indices, the slots and the locals, for every ring size.
THEOREM RingTypeCorrect == Spec => []RingTypeOK
<1>1. RingInv => RingTypeOK
  BY DEF RingInv
<1> QED BY <1>1, RingInvariant, PTL

\* No slot is written while it is read, for every ring size.
THEOREM NoRace == Spec => []NoSlotRace
<1>1. RingInv => NoSlotRace
  <2> SUFFICES ASSUME RingInv, ppc = "write", cpc = "read", write_idx = read_idx
               PROVE  FALSE
    BY DEF NoSlotRace
  <2>1. read_idx \in Slots /\ w_seen \in Slots /\ read_idx # w_seen
    BY DEF RingInv, RingTypeOK, InPop
  <2> QED BY <2>1, SizeAssumption DEF RingInv, Ordered, Dist, Slots
<1> QED BY <1>1, RingInvariant, PTL

\* The items between the indices are a sequence of pushed items.
LEMMA ContentsSeq ==
    ASSUME RingInv
    PROVE  /\ Contents \in Seq(Values)
           /\ Len(Contents) = Dist(read_idx, write_idx)
           /\ Dist(read_idx, write_idx) \in Nat
           /\ \A k \in 1 .. Dist(read_idx, write_idx) : Contents[k] = buffer[Slot(k - 1)]
<1>1. Dist(read_idx, write_idx) \in Nat
  BY SizeAssumption, DistFacts DEF RingInv, RingTypeOK, Slots
<1>2. \A k \in 1 .. Dist(read_idx, write_idx) : buffer[Slot(k - 1)] \in Values
  BY <1>1 DEF RingInv, Filled
<1> QED BY <1>1, <1>2 DEF Contents

\* What publishing the write index does to the items of the ring.
LEMMA IsAppend ==
    ASSUME NEW s \in Seq(Values), NEW v \in Values, NEW t \in Seq(Values),
           Len(t) = Len(s) + 1, t[Len(s) + 1] = v,
           \A k \in 1 .. Len(s) : t[k] = s[k]
    PROVE  t = Append(s, v)
OBVIOUS

\* What publishing the read index does to the items of the ring.
LEMMA IsTail ==
    ASSUME NEW s \in Seq(Values), s # << >>, NEW t \in Seq(Values),
           Len(t) = Len(s) - 1, \A k \in 1 .. Len(t) : t[k] = s[k + 1]
    PROVE  t = Tail(s)
OBVIOUS

\* The ring is a FIFO of N - 1 items, for every ring size: the store that
\* publishes an index is the moment its item enters or leaves the queue.
THEOREM RingImplementsFifo == Spec => RefinesFifo
<1> USE SizeAssumption
<1>1. Init => Fifo!Init
  BY DEF Init, Fifo!Init, Contents, Dist
<1>2. RingInv /\ RingInv' /\ [Next]_vars => [Fifo!Next]_<<Contents, got>>
  <2> SUFFICES ASSUME RingInv, RingInv', [Next]_vars
               PROVE  [Fifo!Next]_<<Contents, got>>
    OBVIOUS
  <2>0. write_idx \in Slots /\ read_idx \in Slots /\ r_seen \in Slots /\ w_seen \in Slots
    BY DEF RingInv, RingTypeOK
  <2>1. ASSUME UNCHANGED <<read_idx, write_idx, buffer, got>>
        PROVE  UNCHANGED <<Contents, got>>
    BY <2>1 DEF Contents, Slot
  <2>2. CASE PushWrite
    <3>1. /\ buffer' = [buffer EXCEPT ![write_idx] = item]
          /\ UNCHANGED <<write_idx, read_idx, got>>
      BY <2>2 DEF PushWrite, consVars
    <3>2. \A i \in Slots \ {write_idx} : buffer'[i] = buffer[i]
      BY <3>1 DEF RingInv, RingTypeOK
    <3>3. \A k \in 1 .. Dist(read_idx, write_idx) : Slot(k - 1) \in Slots \ {write_idx}
      BY <2>0 DEF Slot, Slots, Dist
    <3>4. Slot(0)' = Slot(0) /\ \A k \in 1 .. Dist(read_idx, write_idx) : Slot(k - 1)' = Slot(k - 1)
      BY <3>1 DEF Slot
    <3>5. Contents' = Contents
      BY <3>1, <3>2, <3>3, <3>4 DEF Contents
    <3> QED BY <3>1, <3>5
  <2>3. CASE PushPublish
    <3>1. /\ write_idx' = Next1(write_idx)
          /\ UNCHANGED <<buffer, read_idx, got>>
          /\ Next1(write_idx) # r_seen /\ item \in Values /\ buffer[write_idx] = item
      BY <2>3 DEF PushPublish, consVars, RingInv, InPush
    <3>2. /\ Dist(read_idx, Next1(write_idx)) = Dist(read_idx, write_idx) + 1
          /\ Dist(read_idx, write_idx) < N - 1
          /\ Slot(Dist(read_idx, write_idx)) = write_idx
      BY <3>1, <2>0 DEF RingInv, Ordered, Dist, Next1, Slots, Slot
    <3>3. Contents' = [k \in 1 .. Dist(read_idx, write_idx) + 1 |-> buffer[Slot(k - 1)]]
      BY <3>1, <3>2 DEF Contents, Slot
    <3>4. Contents' = Append(Contents, item)
      <4> DEFINE n == Dist(read_idx, write_idx)
      <4>1. /\ Contents \in Seq(Values) /\ Len(Contents) = n /\ n \in Nat
            /\ \A k \in 1 .. n : Contents[k] = buffer[Slot(k - 1)]
        BY ContentsSeq
      <4> HIDE DEF n
      <4>2. PICK t : t = Contents'
        OBVIOUS
      <4>3. t = [k \in 1 .. n + 1 |-> buffer[Slot(k - 1)]] /\ buffer[Slot(n)] = item
        BY <4>2, <3>1, <3>2, <3>3 DEF n
      <4>4. ASSUME NEW k \in 1 .. n + 1
            PROVE  buffer[Slot(k - 1)] = IF k = n + 1 THEN item ELSE Contents[k]
        BY <4>1, <4>3
      <4>5. \A k \in 1 .. n + 1 : buffer[Slot(k - 1)] \in Values
        BY <4>1, <4>4, <3>1
      <4>6. t \in Seq(Values) /\ Len(t) = n + 1
        BY <4>1, <4>3, <4>5
      <4>7. t[n + 1] = item /\ \A k \in 1 .. n : t[k] = Contents[k]
        BY <4>1, <4>3, <4>4
      <4> QED BY <4>1, <4>2, <4>6, <4>7, <3>1, IsAppend
    <3>5. Fifo!Enqueue(item)
      BY <3>1, <3>2, <3>4, ContentsSeq DEF Fifo!Enqueue
    <3> QED BY <3>1, <3>5 DEF Fifo!Next
  <2>4. CASE PopPublish
    <3>1. /\ read_idx' = Next1(read_idx)
          /\ UNCHANGED <<buffer, write_idx>>
          /\ got' = <<taken>> /\ taken = buffer[read_idx] /\ read_idx # w_seen
      BY <2>4 DEF PopPublish, prodVars, RingInv, InPop
    <3>2. read_idx # write_idx /\ Slot(0) = read_idx
      BY <3>1, <2>0 DEF RingInv, Ordered, Dist, Slots, Slot
    <3>3. /\ Dist(read_idx, write_idx) > 0
          /\ Dist(Next1(read_idx), write_idx) = Dist(read_idx, write_idx) - 1
      BY <3>2, <2>0 DEF Dist, Next1, Slots
    <3>4. \A k \in 1 .. Dist(Next1(read_idx), write_idx) : Slot(k - 1)' = Slot(k)
      BY <3>1, <3>2, <2>0 DEF Dist, Next1, Slots, Slot
    <3>5. Contents' = [k \in 1 .. Dist(read_idx, write_idx) - 1 |-> buffer[Slot(k)]]
      BY <3>1, <3>3, <3>4 DEF Contents
    <3>6. /\ Contents # << >> /\ Head(Contents) = taken
          /\ Contents' = Tail(Contents)
      <4> DEFINE n == Dist(read_idx, write_idx)
      <4>1. /\ Contents \in Seq(Values) /\ Len(Contents) = n /\ n \in Nat
            /\ \A k \in 1 .. n : Contents[k] = buffer[Slot(k - 1)]
        BY ContentsSeq
      <4>a. n > 0
        BY <3>3
      <4> HIDE DEF n
      <4>2. PICK t : t = Contents'
        OBVIOUS
      <4>3. t = [k \in 1 .. n - 1 |-> buffer[Slot(k)]]
        BY <4>2, <3>5 DEF n
      <4>4. \A k \in 1 .. n - 1 : buffer[Slot(k)] = Contents[k + 1]
        BY <4>1
      <4>5. \A k \in 1 .. n - 1 : buffer[Slot(k)] \in Values
        BY <4>1, <4>4
      <4>6. t \in Seq(Values) /\ Len(t) = n - 1 /\ \A k \in 1 .. n - 1 : t[k] = Contents[k + 1]
        BY <4>1, <4>a, <4>3, <4>4, <4>5
      <4>7. Contents # << >> /\ Head(Contents) = taken
        BY <4>1, <4>a, <3>1, <3>2
      <4>8. t = Tail(Contents)
        BY <4>1, <4>6, <4>7, IsTail
      <4> QED BY <4>2, <4>7, <4>8
    <3>7. Fifo!Dequeue
      BY <3>1, <3>6 DEF Fifo!Dequeue
    <3> QED BY <3>7 DEF Fifo!Next
  <2> QED BY <2>1, <2>2, <2>3, <2>4
          DEF Next, push, pop, PushCheck, PopCheck, PopRead, vars, prodVars, consVars
<1> QED BY <1>1, <1>2, RingInvariant, PTL DEF Spec, RefinesFifo, Fifo!Spec
=============================================================================

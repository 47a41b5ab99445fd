------------------------ MODULE LoadGeneratorProofs ------------------------
(***************************************************************************)
(* Proofs about LoadGenerator, for every pipeline depth, backoff limit and *)
(* number of requests and responses on their way: the accounts of a        *)
(* client's pipeline.                                                      *)
(***************************************************************************)
EXTENDS LoadGenerator, SequenceTheorems, FiniteSetTheorems, TLAPS

-----------------------------------------------------------------------------
(* The inductive invariant                                                 *)

Request  == [kind : Kinds, old : BOOLEAN]
Response == {"ACK", "MATCH", "ERROR"}

\* The places of q whose responses give a slot back.
Frees(q) == {i \in 1 .. Len(q) : q[i] \in {"ACK", "ERROR"}}

\* What is on its way, and a client that is not connected: it has no slot in use.
OnTheWay ==
    /\ requests \in Seq(Request)
    /\ responses \in Seq(Response)
    /\ status # "up" => acks_pending = 0
    /\ status = "connecting" => pending_types = << >>

\* The ring of pending types and the counter move together, within the slots.
SlotsInUse ==
    /\ orders_in_flight = acks_pending
    /\ status # "none" => Len(pending_types) = acks_pending
    /\ acks_pending <= Slots

\* Until a connection is lost, every request that is unsent or unanswered and
\* every response that has yet to give a slot back has a slot of its own.
EveryOneHasASlot ==
    ~reconnected =>
        /\ status # "up" => requests = << >> /\ responses = << >> /\ write_buf = << >>
        /\ Len(write_buf) + Len(requests) + Cardinality(Frees(responses)) <= acks_pending

ClientIInv ==
    /\ ClientTypeOK
    /\ OnTheWay
    /\ SlotsInUse
    /\ EveryOneHasASlot

-----------------------------------------------------------------------------
(* Facts the steps share                                                   *)

\* The bounds are positive numbers.
LEMMA Bounds ==
    /\ Depth \in Nat \ {0} /\ WireCap \in Nat \ {0} /\ ReadCap \in Nat \ {0}
    /\ MaxBackoff \in Nat \ {0}
BY ClientAssumption

\* The places that give a slot back are finitely many.
LEMMA FreesFinite ==
    ASSUME NEW q \in Seq(Response)
    PROVE  /\ IsFiniteSet(Frees(q)) /\ Cardinality(Frees(q)) \in Nat
           /\ Frees(q) \subseteq 1 .. Len(q)
<1>1. Len(q) \in Nat /\ Frees(q) \in SUBSET (1 .. Len(q))
  BY DEF Frees
<1>2. IsFiniteSet(1 .. Len(q))
  BY <1>1, FS_Interval
<1>3. IsFiniteSet(Frees(q))
  BY <1>1, <1>2, FS_Subset
<1> QED BY <1>1, <1>3, FS_CardinalityType

\* A response at the end of q adds at most one place, a MATCH none.
LEMMA FreesAppend ==
    ASSUME NEW q \in Seq(Response), NEW x \in Response, NEW r, r = Append(q, x)
    PROVE  /\ r \in Seq(Response) /\ Len(r) = Len(q) + 1
           /\ Cardinality(Frees(r)) <= Cardinality(Frees(q)) + 1
           /\ x = "MATCH" => Cardinality(Frees(r)) = Cardinality(Frees(q))
<1>1. /\ r \in Seq(Response) /\ Len(r) = Len(q) + 1 /\ Len(q) \in Nat
      /\ r[Len(q) + 1] = x /\ \A i \in 1 .. Len(q) : r[i] = q[i]
  OBVIOUS
<1>2. \A i \in 1 .. Len(r) : i \in 1 .. Len(q) \/ i = Len(q) + 1
  BY <1>1
<1>3. \A i \in 1 .. Len(q) : i \in 1 .. Len(r) /\ i # Len(q) + 1
  BY <1>1
<1>4. Frees(r) \subseteq Frees(q) \cup {Len(q) + 1}
  BY <1>1, <1>2 DEF Frees
<1>5. ASSUME x = "MATCH" PROVE Frees(r) = Frees(q)
  BY <1>1, <1>2, <1>3, <1>5 DEF Frees
<1>6. /\ IsFiniteSet(Frees(q)) /\ Cardinality(Frees(q)) \in Nat
      /\ Cardinality(Frees(r)) \in Nat
  BY <1>1, FreesFinite
<1>7. /\ IsFiniteSet(Frees(q) \cup {Len(q) + 1})
      /\ Cardinality(Frees(q) \cup {Len(q) + 1}) \in {Cardinality(Frees(q)), Cardinality(Frees(q)) + 1}
  BY <1>6, FS_AddElement
<1>8. Cardinality(Frees(r)) <= Cardinality(Frees(q) \cup {Len(q) + 1})
  BY <1>4, <1>7, FS_Subset
<1> QED BY <1>1, <1>5, <1>6, <1>7, <1>8

\* An answer of the exchange gives at most one slot back.
LEMMA FreesAnswer ==
    ASSUME NEW q \in Seq(Response), NEW k \in Kinds, NEW answer \in Answers[k],
           NEW r, r = q \o answer
    PROVE  /\ r \in Seq(Response) /\ Len(r) = Len(q) + Len(answer)
           /\ Cardinality(Frees(r)) <= Cardinality(Frees(q)) + 1
<1>1. answer \in {<<"ACK">>, <<"MATCH">>, <<"MATCH", "ACK">>, <<"ERROR">>}
  BY DEF Answers, Kinds
<1>2. CASE answer = <<"MATCH", "ACK">>
  <2>1. PICK s \in Seq(Response) : s = Append(q, "MATCH")
    <3>1. "MATCH" \in Response
      BY DEF Response
    <3>2. Append(q, "MATCH") \in Seq(Response)
      BY <3>1
    <3> QED BY <3>2
  <2>2. r = Append(s, "ACK") /\ Len(answer) = 2
    BY <1>2, <2>1
  <2>3. Len(s) = Len(q) + 1 /\ Cardinality(Frees(s)) = Cardinality(Frees(q))
    BY <2>1, FreesAppend DEF Response
  <2>4. r \in Seq(Response) /\ Len(r) = Len(s) + 1
        /\ Cardinality(Frees(r)) <= Cardinality(Frees(s)) + 1
    BY <2>2, FreesAppend DEF Response
  <2> QED BY <2>2, <2>3, <2>4
<1>3. ASSUME NEW x \in Response, answer = <<x>>
      PROVE  /\ r \in Seq(Response) /\ Len(r) = Len(q) + Len(answer)
             /\ Cardinality(Frees(r)) <= Cardinality(Frees(q)) + 1
  <2>1. r = Append(q, x) /\ Len(answer) = 1
    BY <1>3
  <2> QED BY <2>1, FreesAppend
<1> QED BY <1>1, <1>2, <1>3 DEF Response

\* The places among the first n responses and those of the rest are together
\* the places of the whole.
LEMMA FreesSplit ==
    ASSUME NEW q \in Seq(Response), NEW n \in 0 .. Len(q),
           NEW r, r = SubSeq(q, n + 1, Len(q)),
           NEW F, F = {i \in 1 .. n : q[i] \in {"ACK", "ERROR"}}
    PROVE  /\ r \in Seq(Response) /\ Len(r) = Len(q) - n
           /\ Cardinality(F) \in Nat
           /\ Cardinality(F) + Cardinality(Frees(r)) <= Cardinality(Frees(q))
<1>1. /\ r \in Seq(Response) /\ Len(r) = Len(q) - n /\ Len(q) \in Nat /\ n \in Nat
      /\ \A i \in 1 .. Len(q) - n : r[i] = q[n + i]
  OBVIOUS
<1>2. /\ IsFiniteSet(Frees(q)) /\ IsFiniteSet(Frees(r))
      /\ Cardinality(Frees(q)) \in Nat /\ Cardinality(Frees(r)) \in Nat
      /\ Frees(r) \subseteq 1 .. Len(r)
  BY <1>1, FreesFinite
<1>3. PICK T : T = {i \in n + 1 .. Len(q) : q[i] \in {"ACK", "ERROR"}}
  OBVIOUS
<1>4. F \in SUBSET Frees(q) /\ T \in SUBSET Frees(q) /\ F \cap T = {}
  <2>1. \A i \in 1 .. n : i \in 1 .. Len(q) /\ i \notin n + 1 .. Len(q)
    BY <1>1
  <2>2. \A i \in n + 1 .. Len(q) : i \in 1 .. Len(q)
    BY <1>1
  <2> QED BY <1>3, <2>1, <2>2 DEF Frees
<1>5. IsFiniteSet(F) /\ IsFiniteSet(T) /\ Cardinality(F) \in Nat /\ Cardinality(T) \in Nat
  <2>1. IsFiniteSet(F) /\ IsFiniteSet(T)
    BY <1>2, <1>4, FS_Subset
  <2> QED BY <2>1, FS_CardinalityType
<1>6. Cardinality(F) + Cardinality(T) <= Cardinality(Frees(q))
  <2>1. F \cup T \in SUBSET Frees(q)
    BY <1>4
  <2>2. Cardinality(F \cup T) <= Cardinality(Frees(q))
    BY <1>2, <2>1, FS_Subset
  <2>3. Cardinality(F \cup T) = Cardinality(F) + Cardinality(T) - Cardinality(F \cap T)
    BY <1>5, FS_Union
  <2>4. Cardinality(F \cap T) = 0
    BY <1>4, FS_EmptySet
  <2> QED BY <1>5, <2>2, <2>3, <2>4
<1>7. Cardinality(Frees(r)) <= Cardinality(T)
  <2>1. PICK f : f = [i \in Frees(r) |-> n + i]
    OBVIOUS
  <2>2. ASSUME NEW i \in Frees(r) PROVE n + i \in T
    <3>1. i \in 1 .. Len(q) - n /\ r[i] \in {"ACK", "ERROR"}
      BY <1>1 DEF Frees
    <3>2. n + i \in n + 1 .. Len(q) /\ q[n + i] \in {"ACK", "ERROR"}
      BY <1>1, <3>1
    <3> QED BY <1>3, <3>2
  <2>3. f \in Injection(Frees(r), T)
    <3>1. f \in [Frees(r) -> T]
      BY <2>1, <2>2
    <3>2. ASSUME NEW i \in Frees(r), NEW j \in Frees(r), f[i] = f[j] PROVE i = j
      <4>1. i \in Nat /\ j \in Nat
        BY <1>1, <1>2
      <4>2. n + i = n + j
        BY <2>1, <3>2
      <4> QED BY <1>1, <4>1, <4>2
    <3> QED BY <3>1, <3>2 DEF Injection, IsInjective
  <2> QED BY <1>5, <2>3, FS_Injection
<1> QED BY <1>1, <1>2, <1>5, <1>6, <1>7

\* flushWrite moves frames from the buffer to the socket and loses none.
LEMMA FlushKeeps ==
    ASSUME NEW w \in Seq(Kinds), NEW armed \in BOOLEAN, requests \in Seq(Request),
           FlushOk(w, armed)
    PROVE  /\ requests' \in Seq(Request) /\ Len(requests') <= WireCap
           /\ write_buf' \in Seq(Kinds) /\ epollout' \in BOOLEAN
           /\ Len(write_buf') + Len(requests') = Len(w) + Len(requests)
<1>1. PICK m \in 0 .. Len(w) :
        /\ Len(requests) + m <= WireCap
        /\ requests' = requests \o Sent(SubSeq(w, 1, m))
        /\ write_buf' = SubSeq(w, m + 1, Len(w))
        /\ epollout' = (armed \/ m < Len(w))
  BY DEF FlushOk
<1>2. Len(w) \in Nat /\ m \in Nat /\ m <= Len(w) /\ Len(requests) \in Nat
  BY <1>1
<1>3. write_buf' \in Seq(Kinds) /\ Len(write_buf') = Len(w) - m
  BY <1>1, <1>2
<1>4. PICK h : h = SubSeq(w, 1, m)
  OBVIOUS
<1>5. h \in Seq(Kinds) /\ Len(h) = m
  BY <1>2, <1>4
<1>6. Sent(h) \in Seq(Request) /\ Len(Sent(h)) = m
  <2>1. \A i \in 1 .. m : [kind |-> h[i], old |-> FALSE] \in Request
    BY <1>5 DEF Request
  <2>2. Sent(h) \in [1 .. m -> Request]
    BY <1>5, <2>1 DEF Sent
  <2> QED BY <1>2, <2>2
<1>7. requests' \in Seq(Request) /\ Len(requests') = Len(requests) + m
  <2>1. PICK s \in Seq(Request) : s = Sent(h) /\ Len(s) = m
    BY <1>6
  <2>2. requests' = requests \o s
    BY <1>1, <1>4, <2>1
  <2> QED BY <2>1, <2>2, ConcatProperties
<1>8. epollout' \in BOOLEAN
  BY <1>1, Zenon
<1>9. Len(requests') <= WireCap
  BY <1>1, <1>7
<1>10. Len(write_buf') + Len(requests') = Len(w) + Len(requests)
  BY <1>2, <1>3, <1>7
<1> QED BY <1>3, <1>7, <1>8, <1>9, <1>10

\* reconnect() takes the slots in use back, and the exchange keeps some requests.
LEMMA ReconnectClears ==
    ASSUME NEW a \in Nat, NEW b \in 0 .. MaxBackoff, reconnect(a, a, b),
           requests \in Seq(Request), Len(requests) <= WireCap
    PROVE  /\ status' = "none" /\ acks_pending' = 0 /\ orders_in_flight' = 0
           /\ epollout' = FALSE /\ waiting' = TRUE /\ reconnected' = TRUE
           /\ backoff' \in 0 .. MaxBackoff
           /\ requests' \in Seq(Request) /\ Len(requests') <= WireCap
           /\ responses' = << >>
<1>1. /\ status' = "none" /\ acks_pending' = 0 /\ orders_in_flight' = a - a
      /\ epollout' = FALSE /\ waiting' = TRUE /\ reconnected' = TRUE
      /\ backoff' = Least(b + 1, MaxBackoff) /\ responses' = << >>
  BY DEF reconnect
<1>2. backoff' \in 0 .. MaxBackoff
  BY <1>1, Bounds DEF Least
<1>3. PICK m \in 0 .. Len(requests) : requests' = Stale(m)
  BY DEF reconnect
<1>4. requests' \in Seq(Request) /\ Len(requests') = m
  <2>1. \A i \in 1 .. m : [kind |-> requests[i].kind, old |-> TRUE] \in Request
    <3>1. \A i \in 1 .. m : i \in 1 .. Len(requests)
      BY <1>3
    <3>2. \A i \in 1 .. m : requests[i] \in Request
      BY <3>1
    <3> QED BY <3>2 DEF Request
  <2>2. requests' \in [1 .. m -> Request] /\ m \in Nat
    BY <1>3, <2>1 DEF Stale
  <2> QED BY <2>2
<1>5. Len(requests') <= WireCap
  BY <1>3, <1>4, Bounds
<1> QED BY <1>1, <1>2, <1>4, <1>5

\* The types of single variables, out of the invariant.
LEMMA ClientTypes ==
    ASSUME ClientIInv
    PROVE  /\ paced \in BOOLEAN /\ lossy \in BOOLEAN /\ due \in BOOLEAN /\ epollout \in BOOLEAN
           /\ waiting \in BOOLEAN /\ reconnected \in BOOLEAN
           /\ acks_pending \in Nat /\ orders_in_flight = acks_pending
           /\ acks_pending <= Slots /\ Slots \in 1 .. Depth
           /\ pending_types \in Seq(Kinds) /\ Len(pending_types) <= Depth
           /\ write_buf \in Seq(Kinds) /\ requests \in Seq(Request)
           /\ responses \in Seq(Response)
           /\ Len(requests) <= WireCap /\ Len(responses) <= ReadCap
           /\ backoff \in 0 .. MaxBackoff
<1>1. /\ paced \in BOOLEAN /\ lossy \in BOOLEAN /\ due \in BOOLEAN /\ epollout \in BOOLEAN
      /\ waiting \in BOOLEAN /\ reconnected \in BOOLEAN
  BY Zenon DEF ClientIInv, ClientTypeOK
<1>2. Slots \in 1 .. Depth
  BY Bounds DEF Slots
<1> QED BY <1>1, <1>2, Bounds DEF ClientIInv, ClientTypeOK, OnTheWay, SlotsInUse

\* The booleans of a state make up their part of the type invariant.
LEMMA BooleansTogether ==
    ASSUME paced' \in BOOLEAN, lossy' \in BOOLEAN, due' \in BOOLEAN, epollout' \in BOOLEAN,
           waiting' \in BOOLEAN, reconnected' \in BOOLEAN
    PROVE  {paced', lossy', due', epollout', waiting', reconnected'} \subseteq BOOLEAN
BY Zenon

\* A lost connection: no slot is in use, and nothing is promised any more.
LEMMA LostInv ==
    ASSUME ClientIInv, NEW a \in Nat, NEW b \in 0 .. MaxBackoff, reconnect(a, a, b),
           UNCHANGED <<paced, lossy>>, due' \in BOOLEAN,
           write_buf' \in Seq(Kinds),
           pending_types' \in Seq(Kinds), Len(pending_types') <= Depth
    PROVE  ClientIInv'
<1>1. /\ status' = "none" /\ acks_pending' = 0 /\ orders_in_flight' = 0
      /\ epollout' = FALSE /\ waiting' = TRUE /\ reconnected' = TRUE
      /\ backoff' \in 0 .. MaxBackoff
      /\ requests' \in Seq(Request) /\ Len(requests') <= WireCap
      /\ responses' = << >>
  BY ClientTypes, ReconnectClears
<1>2. {paced', lossy', due', epollout', waiting', reconnected'} \subseteq BOOLEAN
  <2>1. paced' \in BOOLEAN /\ lossy' \in BOOLEAN
    BY ClientTypes, Zenon
  <2> QED BY <1>1, <2>1, BooleansTogether, Zenon
<1>3. << >> \in Seq(Response) /\ Len(<< >>) = 0
  OBVIOUS
<1>4. ClientTypeOK'
  BY <1>1, <1>2, <1>3, Bounds DEF ClientTypeOK
<1>5. OnTheWay'
  BY <1>1, <1>3 DEF OnTheWay
<1>6. SlotsInUse'
  <2>1. Slots' = Slots
    BY DEF Slots
  <2> QED BY <1>1, <2>1, ClientTypes, Bounds, SMTT(30) DEF SlotsInUse
<1>7. EveryOneHasASlot'
  BY <1>1 DEF EveryOneHasASlot
<1> QED BY <1>4, <1>5, <1>6, <1>7 DEF ClientIInv

\* The invariant, put together on a connection that is up.
LEMMA UpInv ==
    ASSUME ClientIInv, UNCHANGED <<paced, lossy, waiting, reconnected>>, status' = "up",
           due' \in BOOLEAN, epollout' \in BOOLEAN, backoff' \in 0 .. MaxBackoff,
           acks_pending' \in Nat, acks_pending' <= Slots, orders_in_flight' = acks_pending',
           pending_types' \in Seq(Kinds), Len(pending_types') = acks_pending',
           write_buf' \in Seq(Kinds),
           requests' \in Seq(Request), Len(requests') <= WireCap,
           responses' \in Seq(Response), Len(responses') <= ReadCap,
           ~reconnected => Len(write_buf') + Len(requests') + Cardinality(Frees(responses')) <= acks_pending'
    PROVE  ClientIInv'
<1>1. {paced', lossy', due', epollout', waiting', reconnected'} \subseteq BOOLEAN
  <2>1. paced' \in BOOLEAN /\ lossy' \in BOOLEAN /\ waiting' \in BOOLEAN /\ reconnected' \in BOOLEAN
    BY ClientTypes, Zenon
  <2> QED BY <2>1, BooleansTogether, Zenon
<1>2. Slots' = Slots /\ Slots \in 1 .. Depth
  BY ClientTypes DEF Slots
<1>3. acks_pending' \in 0 .. Depth /\ Len(pending_types') <= Depth /\ orders_in_flight' \in Int
  BY <1>2, Bounds
<1>4. ClientTypeOK'
  BY <1>1, <1>3 DEF ClientTypeOK
<1>5. OnTheWay' /\ SlotsInUse'
  BY <1>2 DEF OnTheWay, SlotsInUse
<1>6. EveryOneHasASlot'
  BY DEF EveryOneHasASlot
<1> QED BY <1>4, <1>5, <1>6 DEF ClientIInv

\* buildBatch tops the pipeline up: the new requests take the slots that are
\* free, a partial send keeps every one of them, a failed one gives all back.
LEMMA BuildInv ==
    ASSUME ClientIInv,
           NEW a \in Nat, a <= Slots,
           NEW p \in Seq(Kinds), Len(p) = a,
           NEW armed \in BOOLEAN, NEW b \in 0 .. MaxBackoff,
           NEW rs \in Seq(Response), Len(rs) <= ReadCap,
           ~reconnected => Len(write_buf) + Len(requests) + Cardinality(Frees(rs)) <= a,
           buildBatch(a, p, a, armed, b),
           status' # "none" => responses' = rs
    PROVE  ClientIInv'
<1>1. /\ paced \in BOOLEAN /\ lossy \in BOOLEAN /\ due \in BOOLEAN
      /\ Slots \in 1 .. Depth /\ Depth \in Nat
      /\ write_buf \in Seq(Kinds) /\ requests \in Seq(Request) /\ Len(requests) <= WireCap
  BY ClientTypes, Bounds
<1>2. CASE /\ acks_pending' = a /\ pending_types' = p /\ orders_in_flight' = a
           /\ status' = "up" /\ epollout' = armed /\ backoff' = b
           /\ UNCHANGED <<paced, lossy, due, write_buf, waiting, requests, reconnected>>
  <2>1. responses' = rs
    BY <1>2
  <2>2. due' \in BOOLEAN /\ epollout' \in BOOLEAN
    BY <1>1, <1>2, Zenon
  <2> QED BY <1>1, <1>2, <2>1, <2>2, UpInv
<1>3. CASE /\ ~Holds(a) /\ due' = ~paced
           /\ \E batch \in [1 .. (IF a < Slots THEN Slots - a ELSE 0) -> Kinds] :
                LET n == Len(batch) IN
                /\ pending_types' = p \o batch
                /\ \/ /\ FlushOk(batch, armed)
                      /\ acks_pending' = a + n /\ orders_in_flight' = a + n
                      /\ status' = "up" /\ backoff' = b
                      /\ UNCHANGED <<waiting, reconnected>>
                   \/ /\ n > 0 /\ reconnect(a + n, a + n, b)
                      /\ write_buf' = batch
           /\ UNCHANGED <<paced, lossy>>
  <2>1. PICK batch \in [1 .. (IF a < Slots THEN Slots - a ELSE 0) -> Kinds] :
           /\ pending_types' = p \o batch
           /\ \/ /\ FlushOk(batch, armed)
                 /\ acks_pending' = a + Len(batch) /\ orders_in_flight' = a + Len(batch)
                 /\ status' = "up" /\ backoff' = b
                 /\ UNCHANGED <<waiting, reconnected>>
              \/ /\ reconnect(a + Len(batch), a + Len(batch), b)
                 /\ write_buf' = batch
    BY <1>3
  <2>2. PICK n : n = IF a < Slots THEN Slots - a ELSE 0
    OBVIOUS
  <2>3. n \in Nat /\ a + n <= Slots /\ a + n \in Nat /\ Slots <= Depth
    BY <1>1, <2>2
  <2>4. batch \in Seq(Kinds) /\ Len(batch) = n
    <3>1. batch \in [1 .. n -> Kinds]
      BY <2>1, <2>2
    <3> QED BY <2>3, <3>1
  <2>5. pending_types' \in Seq(Kinds) /\ Len(pending_types') = a + n
    BY <2>1, <2>4, ConcatProperties
  <2>6. due' \in BOOLEAN
    BY <1>3, Zenon
  <2>7. CASE /\ FlushOk(batch, armed)
             /\ acks_pending' = a + Len(batch) /\ orders_in_flight' = a + Len(batch)
             /\ status' = "up" /\ backoff' = b
             /\ UNCHANGED <<waiting, reconnected>>
    <3>1. /\ requests' \in Seq(Request) /\ Len(requests') <= WireCap
          /\ write_buf' \in Seq(Kinds) /\ epollout' \in BOOLEAN
          /\ Len(write_buf') + Len(requests') = Len(batch) + Len(requests)
      BY <1>1, <2>4, <2>7, FlushKeeps
    <3>2. responses' = rs
      BY <2>7
    <3>3. ASSUME ~reconnected
          PROVE  Len(write_buf') + Len(requests') + Cardinality(Frees(responses')) <= a + n
      <4>1. write_buf = << >> /\ Len(write_buf) = 0
        BY <1>3 DEF Holds
      <4>2. Cardinality(Frees(rs)) \in Nat /\ Len(requests) \in Nat
        BY <1>1, FreesFinite
      <4>3. Len(requests) + Cardinality(Frees(rs)) <= a
        BY <3>3, <4>1, <4>2
      <4>4. Len(write_buf') + Len(requests') = n + Len(requests)
        BY <2>4, <3>1
      <4> QED BY <2>3, <3>2, <4>2, <4>3, <4>4
    <3>4. acks_pending' = a + n /\ orders_in_flight' = a + n
      BY <2>4, <2>7
    <3> QED BY <1>3, <2>3, <2>5, <2>6, <2>7, <3>1, <3>2, <3>3, <3>4, UpInv
  <2>8. CASE /\ reconnect(a + Len(batch), a + Len(batch), b)
             /\ write_buf' = batch
    <3>1. PICK c \in Nat : c = a + Len(batch) /\ c <= Depth
      BY <1>1, <2>3, <2>4
    <3> QED BY <1>3, <2>3, <2>4, <2>5, <2>6, <2>8, <3>1, LostInv
  <2> QED BY <2>1, <2>7, <2>8
<1> QED BY <1>2, <1>3 DEF buildBatch

-----------------------------------------------------------------------------
(* One lemma per step                                                      *)

\* connectClient, whether connect() starts or fails at once.
LEMMA ConnectInv ==
    ASSUME ClientIInv, ConnectClient \/ ConnectFails
    PROVE  ClientIInv'
<1>1. /\ status = "none" /\ status' \in {"none", "connecting"} /\ epollout' \in BOOLEAN
      /\ acks_pending' = 0 /\ pending_types' = << >> /\ write_buf' = << >>
      /\ UNCHANGED <<paced, lossy, due, orders_in_flight, backoff, waiting, requests, responses,
                     reconnected>>
  BY ClientTypes DEF ConnectClient, ConnectFails
<1>2. {paced', lossy', due', epollout', waiting', reconnected'} \subseteq BOOLEAN
  <2>1. /\ paced' \in BOOLEAN /\ lossy' \in BOOLEAN /\ due' \in BOOLEAN
        /\ waiting' \in BOOLEAN /\ reconnected' \in BOOLEAN
    BY <1>1, ClientTypes, Zenon
  <2> QED BY <1>1, <2>1, BooleansTogether, Zenon
<1>3. << >> \in Seq(Kinds) /\ Len(<< >>) = 0
  OBVIOUS
<1>4. acks_pending = 0 /\ orders_in_flight = 0
  BY <1>1 DEF ClientIInv, OnTheWay, SlotsInUse
<1>5. ClientTypeOK'
  BY <1>1, <1>2, <1>3, <1>4, ClientTypes, Bounds DEF ClientTypeOK
<1>6. OnTheWay'
  BY <1>1, <1>3 DEF ClientIInv, OnTheWay
<1>7. SlotsInUse'
  <2>1. Slots' = Slots
    BY <1>1 DEF Slots
  <2> QED BY <1>1, <1>3, <1>4, <2>1, ClientTypes, Bounds DEF SlotsInUse
<1>8. EveryOneHasASlot'
  BY <1>1, <1>3, <1>4 DEF ClientIInv, EveryOneHasASlot
<1> QED BY <1>5, <1>6, <1>7, <1>8 DEF ClientIInv

\* The clock: the backoff or the inter-arrival time is over.
LEMMA ClockInv ==
    ASSUME ClientIInv, BackoffElapses \/ SlotElapses
    PROVE  ClientIInv'
<1>1. /\ due' \in BOOLEAN /\ waiting' \in BOOLEAN
      /\ UNCHANGED <<paced, lossy, status, acks_pending, pending_types, write_buf,
                     orders_in_flight, epollout, backoff, requests, responses, reconnected>>
  BY ClientTypes DEF BackoffElapses, SlotElapses
<1>2. {paced', lossy', due', epollout', waiting', reconnected'} \subseteq BOOLEAN
  <2>1. paced' \in BOOLEAN /\ lossy' \in BOOLEAN /\ epollout' \in BOOLEAN /\ reconnected' \in BOOLEAN
    BY <1>1, ClientTypes, Zenon
  <2> QED BY <1>1, <2>1, BooleansTogether, Zenon
<1>3. ClientTypeOK'
  BY <1>1, <1>2 DEF ClientIInv, ClientTypeOK
<1>4. OnTheWay' /\ SlotsInUse' /\ EveryOneHasASlot'
  BY <1>1 DEF ClientIInv, OnTheWay, SlotsInUse, EveryOneHasASlot, Slots
<1> QED BY <1>3, <1>4 DEF ClientIInv

\* A connection is lost.
LEMMA ConnectionLostInv ==
    ASSUME ClientIInv, ConnectionLost
    PROVE  ClientIInv'
<1>1. PICK a, b : a = acks_pending /\ b = backoff
  OBVIOUS
<1>2. a \in Nat /\ b \in 0 .. MaxBackoff /\ orders_in_flight = a
  BY <1>1, ClientTypes
<1>3. reconnect(a, a, b) /\ UNCHANGED <<paced, lossy, due, pending_types, write_buf>>
  BY <1>1, <1>2 DEF ConnectionLost
<1>4. /\ due' \in BOOLEAN /\ write_buf' \in Seq(Kinds)
      /\ pending_types' \in Seq(Kinds) /\ Len(pending_types') <= Depth
  BY <1>3, ClientTypes
<1> QED BY <1>2, <1>3, <1>4, LostInv

\* The rest of a batch goes out.
LEMMA FlushWriteInv ==
    ASSUME ClientIInv, FlushWrite
    PROVE  ClientIInv'
<1>1. PICK w, e : w = write_buf /\ e = epollout
  OBVIOUS
<1>2. /\ status = "up" /\ FlushOk(w, e) /\ w \in Seq(Kinds) /\ e \in BOOLEAN
      /\ UNCHANGED <<paced, lossy, due, status, acks_pending, pending_types, orders_in_flight,
                     backoff, waiting, responses, reconnected>>
  BY <1>1, ClientTypes DEF FlushWrite
<1>3. /\ requests' \in Seq(Request) /\ Len(requests') <= WireCap
      /\ write_buf' \in Seq(Kinds) /\ epollout' \in BOOLEAN
      /\ Len(write_buf') + Len(requests') = Len(write_buf) + Len(requests)
  BY <1>1, <1>2, ClientTypes, FlushKeeps
<1>4. ~reconnected =>
        Len(write_buf') + Len(requests') + Cardinality(Frees(responses')) <= acks_pending'
  BY <1>2, <1>3 DEF ClientIInv, EveryOneHasASlot
<1>5. /\ due' \in BOOLEAN /\ backoff' \in 0 .. MaxBackoff
      /\ acks_pending' \in Nat /\ acks_pending' <= Slots /\ orders_in_flight' = acks_pending'
      /\ pending_types' \in Seq(Kinds)
      /\ responses' \in Seq(Response) /\ Len(responses') <= ReadCap
  BY <1>2, ClientTypes
<1>6. Len(pending_types') = acks_pending' /\ status' = "up"
  BY <1>2 DEF ClientIInv, SlotsInUse
<1>7. UNCHANGED <<paced, lossy, waiting, reconnected>>
  BY <1>2
<1> QED BY <1>3, <1>4, <1>5, <1>6, <1>7, UpInv

\* A connection is established and gets its first batch.
LEMMA HandleConnectInv ==
    ASSUME ClientIInv, HandleConnect
    PROVE  ClientIInv'
<1>1. /\ status = "connecting" /\ buildBatch(0, << >>, orders_in_flight, FALSE, 0)
      /\ responses' = << >>
  BY DEF HandleConnect
<1>2. orders_in_flight = 0
  BY <1>1 DEF ClientIInv, OnTheWay, SlotsInUse
<1>3. /\ << >> \in Seq(Kinds) /\ << >> \in Seq(Response) /\ Len(<< >>) = 0
      /\ FALSE \in BOOLEAN
  OBVIOUS
<1>4. Cardinality(Frees(<< >>)) = 0
  <2>1. Frees(<< >>) = {}
    BY <1>3 DEF Frees
  <2> QED BY <2>1, FS_EmptySet
<1>5. ~reconnected => Len(write_buf) + Len(requests) + Cardinality(Frees(<< >>)) <= 0
  BY <1>1, <1>3, <1>4 DEF ClientIInv, EveryOneHasASlot
<1>6. 0 \in Nat /\ 0 <= Slots /\ 0 \in 0 .. MaxBackoff /\ 0 <= ReadCap
  BY ClientTypes, Bounds
<1>7. buildBatch(0, << >>, 0, FALSE, 0)
  BY <1>1, <1>2
<1> QED BY <1>1, <1>3, <1>5, <1>6, <1>7, BuildInv

\* Responses are read, each ACK and ERROR gives a slot back, and the pipeline is
\* topped up.
LEMMA HandleReadableInv ==
    ASSUME ClientIInv, NEW n \in 0 .. ReadCap, HandleReadable(n)
    PROVE  ClientIInv'
<1>1. PICK q, a, k, F, o, p, rs, e, b :
        /\ q = responses /\ a = acks_pending /\ o = pending_types
        /\ e = epollout /\ b = backoff
        /\ F = {i \in 1 .. n : q[i] \in {"ACK", "ERROR"}}
        /\ k = Freeing(n)
        /\ p = SubSeq(o, k + 1, Len(o))
        /\ rs = SubSeq(q, n + 1, Len(q))
  OBVIOUS
<1>2. /\ status = "up" /\ n <= Len(q)
      /\ buildBatch(a - k, p, orders_in_flight - k, e, b)
      /\ status' # "none" => responses' = rs
  BY <1>1 DEF HandleReadable
<1>3. /\ a \in Nat /\ orders_in_flight = a /\ a <= Slots /\ Slots \in 1 .. Depth
      /\ e \in BOOLEAN /\ b \in 0 .. MaxBackoff
      /\ q \in Seq(Response) /\ Len(q) <= ReadCap /\ Len(q) \in Nat
      /\ o \in Seq(Kinds) /\ Len(o) = a /\ n \in 0 .. Len(q)
  BY <1>1, <1>2, ClientTypes, Bounds DEF ClientIInv, SlotsInUse
<1>4. /\ rs \in Seq(Response) /\ Len(rs) = Len(q) - n /\ Cardinality(F) \in Nat
      /\ Cardinality(F) + Cardinality(Frees(rs)) <= Cardinality(Frees(q))
  BY <1>1, <1>3, FreesSplit
<1>5. k = Least(Cardinality(F), a)
  BY <1>1 DEF Freeing
<1>6. k \in Nat /\ k <= a /\ a - k \in Nat /\ a - k <= Slots
      /\ (Cardinality(F) <= a => k = Cardinality(F))
  BY <1>3, <1>4, <1>5, Bounds DEF Least
<1>7. p \in Seq(Kinds) /\ Len(p) = a - k
  BY <1>1, <1>3, <1>6
<1>8. Len(rs) <= ReadCap
  BY <1>3, <1>4, Bounds
<1>9. ASSUME ~reconnected
      PROVE  Len(write_buf) + Len(requests) + Cardinality(Frees(rs)) <= a - k
  <2>1. Len(write_buf) + Len(requests) + Cardinality(Frees(q)) <= a
    BY <1>1, <1>9 DEF ClientIInv, EveryOneHasASlot
  <2>2. /\ Len(write_buf) \in Nat /\ Len(requests) \in Nat
        /\ Cardinality(Frees(q)) \in Nat /\ Cardinality(Frees(rs)) \in Nat
    BY <1>3, <1>4, ClientTypes, FreesFinite, SMTT(30)
  <2>3. Cardinality(F) <= a
    BY <1>3, <1>4, <2>1, <2>2
  <2>4. k = Cardinality(F)
    BY <1>6, <2>3
  <2> QED BY <1>3, <1>4, <2>1, <2>2, <2>4, SMTT(30)
<1>10. PICK c \in Nat : c = a - k
  BY <1>6
<1>11. /\ c <= Slots /\ Len(p) = c /\ buildBatch(c, p, c, e, b)
       /\ ~reconnected => Len(write_buf) + Len(requests) + Cardinality(Frees(rs)) <= c
  BY <1>2, <1>3, <1>6, <1>7, <1>9, <1>10
<1> QED BY <1>2, <1>3, <1>4, <1>7, <1>8, <1>11, BuildInv

\* A paced client that had no event may send.
LEMMA UnblockInv ==
    ASSUME ClientIInv, Unblock
    PROVE  ClientIInv'
<1>1. PICK a, p, e, b, rs : /\ a = acks_pending /\ p = pending_types /\ e = epollout
                            /\ b = backoff /\ rs = responses
  OBVIOUS
<1>2. /\ a \in Nat /\ orders_in_flight = a /\ a <= Slots /\ e \in BOOLEAN
      /\ b \in 0 .. MaxBackoff /\ p \in Seq(Kinds)
      /\ rs \in Seq(Response) /\ Len(rs) <= ReadCap
  BY <1>1, ClientTypes
<1>3. /\ buildBatch(a, p, a, e, b) /\ status = "up"
      /\ status' # "none" => responses' = rs
  BY <1>1, <1>2 DEF Unblock
<1>4. /\ Len(p) = a
      /\ ~reconnected => Len(write_buf) + Len(requests) + Cardinality(Frees(rs)) <= a
  BY <1>1, <1>3 DEF ClientIInv, SlotsInUse, EveryOneHasASlot
<1> QED BY <1>2, <1>3, <1>4, BuildInv

\* A request is answered: it makes room for the one response that frees a slot.
LEMMA ReplyInv ==
    ASSUME ClientIInv, NEW k \in Kinds, NEW answer \in Answers[k], Reply(answer)
    PROVE  ClientIInv'
<1>1. /\ requests # << >> /\ requests' = Tail(requests)
      /\ UNCHANGED <<paced, lossy, due, status, acks_pending, pending_types, write_buf,
                     orders_in_flight, epollout, backoff, waiting, reconnected>>
  BY DEF Reply, clientVars
<1>2. PICK q, r : q = responses /\ r = responses'
  OBVIOUS
<1>3. \/ status = "up" /\ Len(q) + Len(answer) <= ReadCap /\ r = q \o answer
      \/ r = q
  BY <1>2 DEF Reply
<1>4. q \in Seq(Response) /\ Len(q) <= ReadCap /\ Cardinality(Frees(q)) \in Nat
  BY <1>2, ClientTypes, FreesFinite
<1>5. /\ r \in Seq(Response) /\ Len(r) <= ReadCap
      /\ Cardinality(Frees(r)) \in Nat
      /\ Cardinality(Frees(r)) <= Cardinality(Frees(q)) + 1
  <2>1. CASE Len(q) + Len(answer) <= ReadCap /\ r = q \o answer
    <3>1. /\ r \in Seq(Response) /\ Len(r) = Len(q) + Len(answer)
          /\ Cardinality(Frees(r)) <= Cardinality(Frees(q)) + 1
      BY <1>4, <2>1, FreesAnswer
    <3> QED BY <2>1, <3>1, FreesFinite
  <2>2. CASE r = q
    BY <1>4, <2>2
  <2> QED BY <1>3, <2>1, <2>2
<1>6. /\ requests' \in Seq(Request) /\ Len(requests') = Len(requests) - 1
      /\ Len(requests) \in Nat /\ Len(requests') <= WireCap
  <2>1. requests \in Seq(Request) /\ Len(requests) <= WireCap /\ WireCap \in Nat
    BY ClientTypes, Bounds
  <2>2. requests' \in Seq(Request) /\ Len(requests') = Len(requests) - 1 /\ Len(requests) \in Nat
    BY <1>1, <2>1
  <2> QED BY <2>1, <2>2
<1>7. ClientTypeOK'
  BY <1>1, <1>2, <1>5, <1>6 DEF ClientIInv, ClientTypeOK
<1>8. OnTheWay' /\ SlotsInUse'
  BY <1>1, <1>2, <1>5, <1>6 DEF ClientIInv, OnTheWay, SlotsInUse, Slots
<1>9. EveryOneHasASlot'
  <2>1. SUFFICES ASSUME ~reconnected
                 PROVE  /\ status = "up"
                        /\ Len(write_buf) + Len(requests') + Cardinality(Frees(r)) <= acks_pending
    BY <1>1, <1>2 DEF EveryOneHasASlot
  <2>2. /\ status = "up"
        /\ Len(write_buf) + Len(requests) + Cardinality(Frees(q)) <= acks_pending
    BY <1>1, <1>2, <2>1 DEF ClientIInv, EveryOneHasASlot
  <2>3. Len(write_buf) \in Nat /\ acks_pending \in Nat
    BY ClientTypes
  <2> QED BY <1>4, <1>5, <1>6, <2>2, <2>3
<1> QED BY <1>7, <1>8, <1>9 DEF ClientIInv

\* Another client trades against a resting order: a MATCH frees nothing.
LEMMA TradeInv ==
    ASSUME ClientIInv, Trade
    PROVE  ClientIInv'
<1>1. /\ status = "up" /\ Len(responses) < ReadCap /\ responses' = Append(responses, "MATCH")
      /\ UNCHANGED <<paced, lossy, due, status, acks_pending, pending_types, write_buf,
                     orders_in_flight, epollout, backoff, waiting, requests, reconnected>>
  BY DEF Trade, clientVars
<1>2. PICK q, r : q = responses /\ r = responses'
  OBVIOUS
<1>3. "MATCH" \in Response /\ q \in Seq(Response) /\ Len(q) \in Nat
  BY <1>2, ClientTypes DEF Response
<1>4. /\ r \in Seq(Response) /\ Len(r) = Len(q) + 1
      /\ Cardinality(Frees(r)) = Cardinality(Frees(q))
  BY <1>1, <1>2, <1>3, FreesAppend
<1>5. Len(r) <= ReadCap
  BY <1>1, <1>2, <1>3, <1>4, Bounds
<1>6. ClientTypeOK'
  BY <1>1, <1>2, <1>5 DEF ClientIInv, ClientTypeOK
<1>7. OnTheWay' /\ SlotsInUse' /\ EveryOneHasASlot'
  BY <1>1, <1>2, <1>4 DEF ClientIInv, OnTheWay, SlotsInUse, EveryOneHasASlot, Slots
<1> QED BY <1>6, <1>7 DEF ClientIInv

-----------------------------------------------------------------------------
(* The theorems                                                            *)

\* A client that has not connected yet satisfies the invariant.
LEMMA ClientInitInv ==
    ASSUME Init
    PROVE  ClientIInv
<1>1. /\ << >> \in Seq(Kinds) /\ << >> \in Seq(Request) /\ << >> \in Seq(Response)
      /\ Len(<< >>) = 0
  OBVIOUS
<1>2. {paced, lossy, due, epollout, waiting, reconnected} \subseteq BOOLEAN
  BY Zenon DEF Init
<1>3. ClientTypeOK
  BY <1>1, <1>2, Bounds DEF Init, ClientTypeOK
<1>4. OnTheWay
  BY <1>1 DEF Init, OnTheWay
<1>5. SlotsInUse
  BY <1>1, Bounds DEF Init, SlotsInUse, Slots
<1>6. Cardinality(Frees(<< >>)) = 0
  <2>1. Frees(<< >>) = {}
    BY <1>1 DEF Frees
  <2> QED BY <2>1, FS_EmptySet
<1>7. EveryOneHasASlot
  BY <1>1, <1>6 DEF Init, EveryOneHasASlot
<1> QED BY <1>3, <1>4, <1>5, <1>7 DEF ClientIInv

\* The invariant of a client of the load generator, through every order of
\* partial sends, reads, reconnects and late answers.
THEOREM ClientInvariant == Spec => []ClientIInv
<1>1. Init => ClientIInv
  BY ClientInitInv
<1>2. ClientIInv /\ [Next]_vars => ClientIInv'
  <2>1. SUFFICES ASSUME ClientIInv, [Next]_vars PROVE ClientIInv'
    OBVIOUS
  <2>2. CASE Next
    BY <2>1, <2>2, ConnectInv, ClockInv, HandleConnectInv, ConnectionLostInv, FlushWriteInv,
       UnblockInv, HandleReadableInv, ReplyInv, TradeInv DEF Next
  <2>3. CASE UNCHANGED vars
    <3>1. UNCHANGED <<paced, lossy, due, status, acks_pending, pending_types, write_buf,
                      orders_in_flight, epollout, backoff, waiting, requests, responses,
                      reconnected>>
      BY <2>3 DEF vars, clientVars
    <3> QED BY <2>1, <3>1 DEF ClientIInv, ClientTypeOK, OnTheWay, SlotsInUse,
                              EveryOneHasASlot, Slots
  <2> QED BY <2>1, <2>2, <2>3
<1> QED BY <1>1, <1>2, PTL DEF Spec

\* The state of a client is well-typed, and the ring of pending types holds no
\* more than PIPELINE_DEPTH entries.
THEOREM ClientTypeCorrect == Spec => []ClientTypeOK
<1>1. ClientIInv => ClientTypeOK
  BY DEF ClientIInv
<1> QED BY <1>1, ClientInvariant, PTL

\* The counters of buildBatch, handleReadable and reconnect agree, and until a
\* connection is lost no request is without a slot of the pipeline.
THEOREM PipelineHolds == Spec => []PipelineAccounted
<1>1. ASSUME ClientIInv PROVE PipelineAccounted
  <2>1. PICK Q : Q = {i \in DOMAIN requests : ~requests[i].old}
    OBVIOUS
  <2>2. requests \in Seq(Request) /\ Len(requests) \in Nat /\ DOMAIN requests = 1 .. Len(requests)
    BY <1>1, ClientTypes
  <2>3. Q \in SUBSET (1 .. Len(requests)) /\ IsFiniteSet(1 .. Len(requests))
        /\ Cardinality(1 .. Len(requests)) = Len(requests)
    BY <2>1, <2>2, FS_Interval
  <2>4. Cardinality(Q) <= Len(requests) /\ Cardinality(Q) \in Nat
    <3>1. Cardinality(Q) <= Len(requests) /\ IsFiniteSet(Q)
      BY <2>3, FS_Subset
    <3> QED BY <3>1, FS_CardinalityType
  <2>5. Cardinality(Frees(responses)) \in Nat /\ Len(write_buf) \in Nat
        /\ acks_pending \in Nat
    BY <1>1, ClientTypes, FreesFinite
  <2>6. ASSUME ~reconnected PROVE Len(write_buf) + Cardinality(Q) <= acks_pending
    <3>1. Len(write_buf) + Len(requests) + Cardinality(Frees(responses)) <= acks_pending
      BY <1>1, <2>6 DEF ClientIInv, EveryOneHasASlot
    <3> QED BY <2>2, <2>4, <2>5, <3>1
  <2>7. ~reconnected => Outstanding <= acks_pending
    BY <2>1, <2>6 DEF Outstanding
  <2> QED BY <1>1, <2>7 DEF ClientIInv, SlotsInUse, PipelineAccounted, Slots
<1> QED BY <1>1, ClientInvariant, PTL
=============================================================================

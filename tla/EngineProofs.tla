---------------------------- MODULE EngineProofs ----------------------------
(***************************************************************************)
(* Proofs about Engine, for every set of inputs, every capacity of the two *)
(* rings and every number of messages: the matching thread, its 1-ahead    *)
(* loop and its id counter around the book of OrderBookProofs.             *)
(***************************************************************************)
EXTENDS Engine, OrderBookProofs, SequenceTheorems

-----------------------------------------------------------------------------
(* The inductive invariant                                                 *)

\* What the inbound thread lets through.
Valid == {m \in Inputs : validate_message(m)}

\* The number of NEW requests in q.
NewsIn(q) == Cardinality({k \in 1 .. Len(q) : q[k].mtype = "NEW"})

\* The history variables hold what passed validation and what was pushed; the
\* rings and the loop hold valid messages.
CarriesValid ==
    /\ in_ring \in Seq(Valid) /\ accepted \in Seq(Valid) /\ executed \in Seq(Valid)
    /\ {cur, nxt} \subseteq Valid \cup {None}
    /\ sent \in Seq(Response)

\* Where the matching thread is in its loop, and what it holds there.
LoopShape ==
    /\ loc = "busy" <=> pc # "idle"
    /\ loc # "busy" => nxt = None
    /\ loc \in {"got", "busy"} => cur # None

\* next_id_ has counted the NEW requests that were executed.
IdsCounted == next_id = NewsIn(executed) /\ News <= Cardinality(Ids)

\* The order of request r has just entered book b.
Entered(b, r) == b.orders[r.id] # None /\ b.orders[r.id] = OrderOf(r)

\* What the matching loops know of the request they run for.
RequestKnown ==
    /\ \A i \in LiveIds(book) : i < next_id
    /\ pc # "idle" /\ req.mtype = "NEW" => req.id < next_id
    /\ pc = "limit" /\ req.mtype = "NEW" /\ out = << >> => Entered(book, req)
    /\ pc \in {"limit", "market"} => req.mtype # "CANCEL"
    /\ pc = "market" => req.otype = "MARKET"
    /\ pc = "done" => result.status # "NONE"
    /\ IdsAreFresh

\* An order that was cancelled: its id is spent, and nothing runs for it.
Gone(i) ==
    /\ i < next_id
    /\ book.orders[i] = None
    /\ pc \in {"limit", "market"} => req.id # i

CancelledAreGone ==
    /\ pc = "done" /\ req.mtype = "CANCEL" /\ result.status = "SUCCESS" => Gone(req.id)
    /\ \A k \in 1 .. Len(sent) :
          sent[k].kind = "CANCEL" /\ sent[k].status = "SUCCESS" => Gone(sent[k].id)

\* None of the parts is inductive alone: an id is fresh because next_id_ counts
\* what was executed, which the order of the pipeline makes a prefix of what was
\* accepted; a cancelled order stays out of every MATCH because no later request
\* can carry its id with success.
EngineIInv ==
    /\ EngineTypeOK
    /\ BookIInv
    /\ CarriesValid
    /\ LoopShape
    /\ PipelineIsFifo
    /\ IdsCounted
    /\ RequestKnown
    /\ CancelledAreGone
    /\ NoMatchAfterCancel

-----------------------------------------------------------------------------
(* Validation                                                              *)

\* What validate_message lets through is a request as the book may be given: a limit
\* price is not 0, but it may be past the ladder.
LEMMA ValidRequest ==
    ASSUME NEW m \in Valid
    PROVE  m \in Requests /\ m # None
<1>1. m \in Messages /\ Plain(m) /\ validate_message(m) /\ m # None
  BY InputsAssumption, EngineAssumption DEF Valid
<1>2. /\ m.id \in Ids /\ m.client \in Clients /\ m.price \in 0 .. TopPrice /\ m.quantity \in Nat
      /\ m = [mtype |-> m.mtype, id |-> m.id, client |-> m.client, side |-> m.side,
              otype |-> m.otype, price |-> m.price, quantity |-> m.quantity]
  BY <1>1 DEF Messages
<1>3. m.price # 0 => m.price \in AskedPrices
  BY <1>2, TopAssumption DEF AskedPrices, MinPrice
<1>4. CASE m.mtype = "CANCEL"
  BY <1>1, <1>2, <1>4 DEF Plain, Requests, CancelRequests
<1>5. CASE m.mtype \in {"NEW", "MODIFY"} /\ validate_terms(m)
  <2>1. m.quantity \in Quantities /\ m.side \in Sides
    BY <1>2, <1>5, InputsAssumption, MaxQuantityAssumption DEF validate_terms, Sides
  <2>2. CASE m.otype = "LIMIT"
    <3>1. m.price \in AskedPrices
      BY <1>3, <1>5, <2>2 DEF validate_terms
    <3>2. m \in LimitRequests
      BY <1>2, <1>5, <2>1, <2>2, <3>1 DEF LimitRequests
    <3> QED BY <1>1, <3>2 DEF Requests
  <2>3. CASE m.otype = "MARKET"
    <3>1. m.price \in AskedPrices \cup {0} /\ (m.mtype = "NEW" => m.price = 0)
      BY <1>1, <1>3, <2>3 DEF Plain
    <3>2. m \in MarketRequests
      BY <1>2, <1>5, <2>1, <2>3, <3>1 DEF MarketRequests
    <3> QED BY <1>1, <3>2 DEF Requests
  <2> QED BY <1>5, <2>2, <2>3 DEF validate_terms
<1> QED BY <1>1, <1>4, <1>5 DEF validate_message

\* Every message and its fields.
LEMMA ValidFields ==
    ASSUME NEW m \in Valid
    PROVE  /\ m.mtype \in {"NEW", "MODIFY", "CANCEL"}
           /\ m.id \in Ids
<1>1. m \in Requests
  BY ValidRequest
<1> QED BY <1>1 DEF Requests, LimitRequests, MarketRequests, CancelRequests

\* The request built from a valid message, with an id that is still to be had.
LEMMA RequestBuilt ==
    ASSUME NEW m \in Valid, m.mtype = "NEW" => next_id \in Ids
    PROVE  /\ ToRequest(m) \in Requests
           /\ ToRequest(m).mtype = m.mtype
           /\ ToRequest(m).id = IF m.mtype = "NEW" THEN next_id ELSE m.id
<1>1. m \in Requests
  BY ValidRequest
<1>2. CASE m.mtype # "NEW"
  BY <1>1, <1>2 DEF ToRequest
<1>3. CASE m.mtype = "NEW"
  <2>1. CASE m \in LimitRequests
    BY <1>3, <2>1 DEF ToRequest, LimitRequests, Requests
  <2>2. CASE m \in MarketRequests
    BY <1>3, <2>2 DEF ToRequest, MarketRequests, Requests
  <2>3. CASE m \in CancelRequests
    BY <1>3, <2>3 DEF CancelRequests
  <2> QED BY <1>1, <2>1, <2>2, <2>3 DEF Requests
<1> QED BY <1>2, <1>3

-----------------------------------------------------------------------------
(* Counting the NEW requests                                               *)

\* The positions of NEW requests are finitely many.
LEMMA NewsFinite ==
    ASSUME NEW S, NEW q \in Seq(S)
    PROVE  IsFiniteSet({k \in 1 .. Len(q) : q[k].mtype = "NEW"}) /\ NewsIn(q) \in Nat
<1>1. IsFiniteSet(1 .. Len(q))
  BY FS_Interval
<1>2. IsFiniteSet({k \in 1 .. Len(q) : q[k].mtype = "NEW"})
  BY <1>1, FS_Subset
<1> QED BY <1>2, FS_CardinalityType DEF NewsIn

\* One more request.
LEMMA NewsAppend ==
    ASSUME NEW S, NEW q \in Seq(S), NEW x \in S
    PROVE  NewsIn(Append(q, x)) = IF x.mtype = "NEW" THEN NewsIn(q) + 1 ELSE NewsIn(q)
<1> DEFINE A == {k \in 1 .. Len(q) : q[k].mtype = "NEW"}
           B == {k \in 1 .. Len(Append(q, x)) : Append(q, x)[k].mtype = "NEW"}
<1>1. /\ Len(q) \in Nat /\ Len(Append(q, x)) = Len(q) + 1
      /\ \A k \in 1 .. Len(q) : Append(q, x)[k] = q[k]
      /\ Append(q, x)[Len(q) + 1] = x
  OBVIOUS
<1>2. IsFiniteSet(A) /\ Len(q) + 1 \notin A
  BY <1>1, NewsFinite
<1>3. B = IF x.mtype = "NEW" THEN A \cup {Len(q) + 1} ELSE A
  BY <1>1
<1>4. Cardinality(A \cup {Len(q) + 1}) = Cardinality(A) + 1
  <2> HIDE DEF A
  <2> QED BY <1>2, FS_AddElement
<1> QED BY <1>3, <1>4 DEF NewsIn

\* A prefix has no more of them.
LEMMA NewsPrefix ==
    ASSUME NEW S, NEW p \in Seq(S), NEW q \in Seq(S), Len(p) <= Len(q),
           \A k \in 1 .. Len(p) : q[k] = p[k]
    PROVE  NewsIn(p) <= NewsIn(q)
<1> DEFINE A == {k \in 1 .. Len(p) : p[k].mtype = "NEW"}
           B == {k \in 1 .. Len(q) : q[k].mtype = "NEW"}
<1>1. A \subseteq B
  OBVIOUS
<1>2. IsFiniteSet(B)
  BY NewsFinite
<1>3. Cardinality(A) <= Cardinality(B)
  BY <1>1, <1>2, FS_Subset
<1> QED BY <1>3 DEF NewsIn

-----------------------------------------------------------------------------
(* The pipeline as a sequence                                              *)

\* The message the loop holds and has not executed, as a sequence.
Opt(x) == IF x = None THEN << >> ELSE <<x>>

\* While a request runs it is the one popped ahead, otherwise the current one.
HoldsOne == LoopShape => InFlight = Opt(IF loc = "busy" THEN nxt ELSE cur)

\* Nothing else can be in flight.
LEMMA InFlightIsOne == HoldsOne
<1>1. ASSUME NEW x PROVE /\ << >> \o Opt(x) = Opt(x)
                         /\ Opt(x) \o << >> = Opt(x)
  <2>1. Opt(x) \in Seq({x})
    <3>1. << >> \in Seq({x}) /\ <<x>> \in Seq({x})
      OBVIOUS
    <3> QED BY <3>1, Zenon DEF Opt
  <2> QED BY <2>1, ConcatEmptySeq
<1>2. ASSUME LoopShape PROVE InFlight = Opt(IF loc = "busy" THEN nxt ELSE cur)
  <2>1. CASE loc = "busy"
    <3>1. InFlight = << >> \o Opt(nxt)
      BY <2>1 DEF InFlight, Opt
    <3> QED BY <1>1, <2>1, <3>1
  <2>2. CASE loc # "busy"
    <3>1. InFlight = Opt(cur) \o << >>
      BY <1>2, <2>2 DEF InFlight, Opt, LoopShape
    <3> QED BY <1>1, <2>2, <3>1
  <2> QED BY <2>1, <2>2
<1> QED BY <1>2 DEF HoldsOne

\* A message enters the ring.
LEMMA FifoPush ==
    ASSUME NEW S, NEW s \in Seq(S), NEW r \in Seq(S), NEW x \in S
    PROVE  s \o Append(r, x) = Append(s \o r, x)
<1>1. s \o r \in Seq(S) /\ Append(r, x) \in Seq(S)
  BY ConcatProperties
<1>2. s \o Append(r, x) \in Seq(S) /\ Append(s \o r, x) \in Seq(S)
  BY <1>1, ConcatProperties
<1>3. /\ Len(s \o Append(r, x)) = Len(Append(s \o r, x))
      /\ \A i \in 1 .. Len(s \o Append(r, x)) : (s \o Append(r, x))[i] = Append(s \o r, x)[i]
  OBVIOUS
<1> QED BY <1>2, <1>3, SeqEqual

\* A message moves from the ring to the loop.
LEMMA FifoPop ==
    ASSUME NEW S, NEW e \in Seq(S), NEW r \in Seq(S), r # << >>
    PROVE  e \o r = (e \o <<Head(r)>>) \o Tail(r)
<1>1. /\ Head(r) \in S /\ Tail(r) \in Seq(S) /\ Len(Tail(r)) = Len(r) - 1
      /\ \A i \in 1 .. Len(Tail(r)) : Tail(r)[i] = r[i + 1]
  BY HeadTailProperties
<1>2. <<Head(r)>> \in Seq(S) /\ e \o r \in Seq(S) /\ e \o <<Head(r)>> \in Seq(S)
  BY <1>1, ConcatProperties
<1>3. (e \o <<Head(r)>>) \o Tail(r) \in Seq(S)
  BY <1>1, <1>2, ConcatProperties
<1>4. Len(e \o r) = Len((e \o <<Head(r)>>) \o Tail(r))
  BY <1>1, <1>2
<1>5. ASSUME NEW i \in 1 .. Len(e \o r)
      PROVE  (e \o r)[i] = ((e \o <<Head(r)>>) \o Tail(r))[i]
  BY <1>1, <1>2
<1> QED BY <1>2, <1>3, <1>4, <1>5, SeqEqual

\* The current message moves from the loop to what was executed.
LEMMA FifoExecute ==
    ASSUME NEW S, NEW e \in Seq(S), NEW x \in S
    PROVE  e \o <<x>> = Append(e, x)
OBVIOUS

-----------------------------------------------------------------------------
(* The steps that leave the book alone                                     *)

\* The parts of the invariant about the book need only look at its own steps.
LEMMA QuietStep ==
    ASSUME EngineIInv, UNCHANGED <<bookVars, next_id, sent>>
    PROVE  BookIInv' /\ RequestKnown' /\ CancelledAreGone' /\ NoMatchAfterCancel'
<1>1. UNCHANGED <<book, pc, req, left, filled, result, out, next_id, sent>>
  BY DEF bookVars
<1>2. BookIInv'
  BY BookStep DEF EngineIInv
<1>3. RequestKnown'
  BY <1>1 DEF EngineIInv, RequestKnown, IdsAreFresh
<1>4. CancelledAreGone' /\ NoMatchAfterCancel'
  BY <1>1 DEF EngineIInv, CancelledAreGone, Gone, NoMatchAfterCancel
<1> QED BY <1>2, <1>3, <1>4

\* What the rings and the loop carry are requests.
LEMMA CarriedTypes ==
    ASSUME NEW S, S \subseteq Valid, NEW q \in Seq(S)
    PROVE  q \in Seq(Requests)
BY ValidRequest

\* processRequest pushes a valid message, or nothing.
LEMMA SubmitInv ==
    ASSUME EngineIInv, NEW m \in Inputs, Submit(m)
    PROVE  EngineIInv'
<1>1. /\ UNCHANGED <<bookVars, next_id, sent>>
      /\ UNCHANGED <<out_ring, stop, cur, nxt, loc, executed, pc>>
  BY DEF Submit, pipeVars, bookVars
<1>2. BookIInv' /\ RequestKnown' /\ CancelledAreGone' /\ NoMatchAfterCancel'
  BY <1>1, QuietStep
<1>3. /\ in_ring \in Seq(Valid) /\ accepted \in Seq(Valid) /\ executed \in Seq(Valid)
      /\ {cur, nxt} \subseteq Valid \cup {None} /\ sent \in Seq(Response)
  BY DEF EngineIInv, CarriesValid
<1>4. InFlight' = InFlight /\ InFlight \in Seq(Valid)
  <2>1. InFlight' = InFlight
    BY <1>1 DEF InFlight
  <2>2. InFlight = Opt(IF loc = "busy" THEN nxt ELSE cur)
    BY InFlightIsOne DEF HoldsOne, EngineIInv
  <2>3. \A x \in Valid : <<x>> \in Seq(Valid)
    OBVIOUS
  <2> QED BY <1>3, <2>1, <2>2, <2>3 DEF Opt
<1>5. CASE in_ring' = in_ring /\ accepted' = accepted
  <2>1. CarriesValid' /\ LoopShape' /\ PipelineIsFifo' /\ IdsCounted'
    BY <1>1, <1>4, <1>5 DEF EngineIInv, CarriesValid, LoopShape, PipelineIsFifo, IdsCounted, News
  <2>2. EngineTypeOK'
    BY <1>1, <1>2, <1>5 DEF EngineIInv, EngineTypeOK, BookIInv
  <2> QED BY <1>2, <2>1, <2>2 DEF EngineIInv
<1>6. CASE /\ validate_message(m) /\ Len(in_ring) < InCap
           /\ in_ring' = Append(in_ring, m) /\ accepted' = Append(accepted, m)
  <2>1. m \in Valid
    BY <1>6 DEF Valid
  <2>2. in_ring' \in Seq(Valid) /\ accepted' \in Seq(Valid) /\ Len(in_ring') <= InCap
    BY <1>3, <1>6, <2>1, EngineAssumption
  <2>3. CarriesValid' /\ LoopShape'
    BY <1>1, <1>3, <2>2 DEF EngineIInv, CarriesValid, LoopShape
  <2>4. PipelineIsFifo'
    <3>1. executed \o InFlight \in Seq(Valid)
      BY <1>3, <1>4, ConcatProperties
    <3>2. (executed \o InFlight) \o Append(in_ring, m) = Append((executed \o InFlight) \o in_ring, m)
      BY <1>3, <2>1, <3>1, FifoPush
    <3> QED BY <1>1, <1>4, <1>6, <3>2 DEF EngineIInv, PipelineIsFifo
  <2>5. IdsCounted'
    <3>1. NewsIn(accepted') = IF m.mtype = "NEW" THEN NewsIn(accepted) + 1 ELSE NewsIn(accepted)
      BY <1>3, <1>6, <2>1, NewsAppend
    <3>2. m.mtype = "NEW" => NewsIn(accepted) < Cardinality(Ids)
      BY DEF Submit, News, NewsIn
    <3>3. NewsIn(accepted) \in Nat /\ Cardinality(Ids) \in Nat /\ NewsIn(accepted) <= Cardinality(Ids)
      BY <1>3, NewsFinite, IdsAssumption, FS_CardinalityType DEF EngineIInv, IdsCounted, News, NewsIn
    <3>4. NewsIn(accepted') <= Cardinality(Ids)
      BY <3>1, <3>2, <3>3
    <3> QED BY <1>1, <3>4 DEF EngineIInv, IdsCounted, News, NewsIn
  <2>6. EngineTypeOK'
    <3>1. in_ring' \in Seq(Requests)
      BY <2>2, CarriedTypes
    <3> QED BY <1>1, <1>2, <2>2, <3>1 DEF EngineIInv, EngineTypeOK, BookIInv
  <2> QED BY <1>2, <2>3, <2>4, <2>5, <2>6 DEF EngineIInv
<1> QED BY <1>5, <1>6 DEF Submit, Push

\* Steps that touch neither the pipeline nor the book.
LEMMA OutsideInv ==
    ASSUME EngineIInv, Route \/ RequestStop \/ UNCHANGED engineVars
    PROVE  EngineIInv'
<1>1. /\ UNCHANGED <<bookVars, next_id, sent>>
      /\ UNCHANGED <<in_ring, cur, nxt, loc, accepted, executed, pc>>
  BY DEF Route, RequestStop, engineVars, pipeVars, histVars, bookVars
<1>2. BookIInv' /\ RequestKnown' /\ CancelledAreGone' /\ NoMatchAfterCancel'
  BY <1>1, QuietStep
<1>3. CarriesValid' /\ LoopShape' /\ PipelineIsFifo' /\ IdsCounted'
  BY <1>1 DEF EngineIInv, CarriesValid, LoopShape, PipelineIsFifo, InFlight, IdsCounted, News
<1>4. out_ring' \in Seq(Response) /\ Len(out_ring') <= OutCap /\ stop' \in BOOLEAN
  <2>1. out_ring \in Seq(Response) /\ Len(out_ring) <= OutCap /\ stop \in BOOLEAN
    BY DEF EngineIInv, EngineTypeOK
  <2>2. CASE Route
    <3>1. out_ring' = Tail(out_ring) /\ out_ring # << >> /\ stop' = stop
      BY <2>2 DEF Route
    <3> QED BY <2>1, <3>1, EngineAssumption
  <2>3. CASE RequestStop
    BY <2>1, <2>3 DEF RequestStop
  <2>4. CASE UNCHANGED engineVars
    BY <2>1, <2>4 DEF engineVars
  <2> QED BY <2>2, <2>3, <2>4
<1>5. EngineTypeOK'
  BY <1>1, <1>2, <1>4 DEF EngineIInv, EngineTypeOK, BookIInv
<1> QED BY <1>2, <1>3, <1>5 DEF EngineIInv

\* The loop pops a message when it holds none.
LEMMA TakeInv ==
    ASSUME EngineIInv, TakeCurrent
    PROVE  EngineIInv'
<1>1. /\ UNCHANGED <<bookVars, next_id, sent>>
      /\ UNCHANGED <<out_ring, stop, nxt, accepted, executed, pc>>
      /\ loc = "head" /\ cur = None /\ in_ring # << >>
      /\ cur' = Head(in_ring) /\ in_ring' = Tail(in_ring) /\ loc' = "got"
  BY DEF TakeCurrent, histVars, bookVars
<1>2. BookIInv' /\ RequestKnown' /\ CancelledAreGone' /\ NoMatchAfterCancel'
  BY <1>1, QuietStep
<1>3. /\ in_ring \in Seq(Valid) /\ executed \in Seq(Valid) /\ accepted \in Seq(Valid)
      /\ {cur, nxt} \subseteq Valid \cup {None} /\ sent \in Seq(Response)
      /\ Len(in_ring) <= InCap
  BY DEF EngineIInv, CarriesValid, EngineTypeOK
<1>4. /\ cur' \in Valid /\ cur' # None /\ cur' \in Requests
      /\ in_ring' \in Seq(Valid) /\ Len(in_ring') <= InCap
  <2>1. Head(in_ring) \in Valid /\ Tail(in_ring) \in Seq(Valid) /\ Len(Tail(in_ring)) = Len(in_ring) - 1
    BY <1>1, <1>3
  <2> QED BY <1>1, <1>3, <2>1, ValidRequest, EngineAssumption
<1>5. CarriesValid' /\ LoopShape'
  BY <1>1, <1>3, <1>4 DEF EngineIInv, CarriesValid, LoopShape
<1>6. PipelineIsFifo'
  <2>1. HoldsOne'
    BY InFlightIsOne, PTL
  <2>2. InFlight = << >> /\ InFlight' = <<Head(in_ring)>>
    BY <1>1, <1>4, <1>5, <2>1, InFlightIsOne DEF HoldsOne, Opt, EngineIInv
  <2>3. executed \o << >> = executed
    BY <1>3, ConcatEmptySeq
  <2>4. executed \o in_ring = (executed \o <<Head(in_ring)>>) \o Tail(in_ring)
    BY <1>1, <1>3, FifoPop
  <2> QED BY <1>1, <2>2, <2>3, <2>4 DEF EngineIInv, PipelineIsFifo
<1>7. IdsCounted'
  BY <1>1 DEF EngineIInv, IdsCounted, News
<1>8. EngineTypeOK'
  <2>1. in_ring' \in Seq(Requests)
    BY <1>4, CarriedTypes
  <2> QED BY <1>1, <1>2, <1>4, <2>1 DEF EngineIInv, EngineTypeOK, BookIInv, Loc
<1> QED BY <1>2, <1>5, <1>6, <1>7, <1>8 DEF EngineIInv

\* The loop ends with what it holds.
LEMMA ExitInv ==
    ASSUME EngineIInv, Exit
    PROVE  EngineIInv'
<1>1. /\ UNCHANGED <<bookVars, next_id, sent>>
      /\ UNCHANGED <<in_ring, out_ring, stop, cur, nxt, accepted, executed, pc>>
      /\ loc = "head" /\ loc' = "exit"
  BY DEF Exit, histVars, bookVars
<1>2. BookIInv' /\ RequestKnown' /\ CancelledAreGone' /\ NoMatchAfterCancel'
  BY <1>1, QuietStep
<1>3. CarriesValid' /\ LoopShape' /\ PipelineIsFifo' /\ IdsCounted'
  BY <1>1 DEF EngineIInv, CarriesValid, LoopShape, PipelineIsFifo, InFlight, IdsCounted, News
<1>4. EngineTypeOK'
  BY <1>1, <1>2 DEF EngineIInv, EngineTypeOK, BookIInv, Loc
<1> QED BY <1>2, <1>3, <1>4 DEF EngineIInv

-----------------------------------------------------------------------------
(* executeRequest                                                          *)

\* What addOrder does, on the book or on what a cancel left of it.
LEMMA AddOrderEffect ==
    ASSUME NEW b \in Books, NEW r \in Requests, r.mtype # "CANCEL", addOrder(b, r)
    PROVE  /\ pc' \in {"limit", "market", "done", "undefined"}
           /\ \A i \in Ids : i # r.id => book'.orders[i] = b.orders[i]
           /\ pc' = "undefined" => book' = b
           /\ pc' = "limit" => Entered(book', r)
           /\ pc' = "market" => r.otype = "MARKET"
           /\ pc' = "done" => /\ result'.status = "SUCCESS"
                              /\ book' = b /\ r.otype = "LIMIT"
                              /\ b.orders[r.id] # None \/ b.free = 0
<1>1. CASE r.otype = "MARKET" /\ book' = b /\ EnterMarket(r)
  BY <1>1 DEF EnterMarket
<1>2. CASE /\ r.otype = "LIMIT" /\ (b.orders[r.id] # None \/ b.free = 0)
           /\ book' = b /\ Return("SUCCESS", FALSE)
  BY <1>2 DEF Return
<1>3. CASE r.price \in Prices /\ book' = Insert(b, r) /\ EnterLimit
  <2>1. r.id \in Ids
    BY RequestFields
  <2>2. book'.orders = [b.orders EXCEPT ![r.id] = OrderOf(r)]
    BY <1>3, <2>1, InsertOrders
  <2>3. OrderOf(r) \in Order
    BY <1>3, RequestFields, QtyAssumption DEF OrderOf, Order
  <2>4. book'.orders[r.id] = OrderOf(r) /\ OrderOf(r) # None
    BY <2>1, <2>2, <2>3, NoneAssumption DEF Books
  <2>5. pc' = "limit"
    BY <1>3 DEF EnterLimit
  <2> QED BY <2>2, <2>3, <2>4, <2>5 DEF Books, Entered
<1>4. CASE book' = b /\ pc' = "undefined"
  BY <1>4
<1> QED BY <1>1, <1>2, <1>3, <1>4 DEF addOrder

\* What process() does to the map before it matches, and what it has returned
\* when it does not match.
ProcessDid(r) ==
    /\ pc = "idle" /\ req' = r /\ out' = out /\ pc' \in {"limit", "market", "done", "undefined"}
    /\ \A i \in Ids : book'.orders[i] # None =>
          book.orders[i] # None \/ (i = r.id /\ r.mtype = "NEW")
    /\ pc' \in {"limit", "market"} =>
          r.mtype # "CANCEL" /\ (r.mtype = "NEW" \/ book.orders[r.id] # None)
    /\ pc' = "limit" /\ r.mtype = "NEW" => Entered(book', r)
    /\ pc' = "market" => r.otype = "MARKET"
    /\ pc' = "done" =>
          /\ result'.status # "NONE"
          /\ r.mtype = "NEW" => book' = book /\ (book.orders[r.id] # None \/ book.free = 0)
          /\ r.mtype = "CANCEL" /\ result'.status = "SUCCESS" =>
                book.orders[r.id] # None /\ book'.orders[r.id] = None

\* A request that reaches the book.
LEMMA ProcessEffect ==
    ASSUME BookIInv, NEW r \in Requests, process(r)
    PROVE  ProcessDid(r)
<1>1. /\ pc = "idle" /\ req' = r /\ out' = out
      /\ BookInv(book) /\ book \in Books /\ r.id \in Ids
  BY RequestFields DEF BookIInv, BookInv, process, ProcessNew, ProcessCancel, ProcessModify, Accept
<1>2. ASSUME MayCancel(book, r), NEW c, c = cancelOrder(book, r.id)
      PROVE  /\ c \in Books /\ c.orders[r.id] = None
             /\ \A i \in Ids : i # r.id => c.orders[i] = book.orders[i]
             /\ book.orders[r.id] # None /\ c.free > 0
  <2>1. r.id \in LiveIds(book) /\ book.orders[r.id] # None
    BY <1>1, <1>2 DEF MayCancel, LiveIds
  <2>2. BookInv(c) /\ c.orders = [book.orders EXCEPT ![r.id] = None] /\ c.free > 0
    BY <1>1, <1>2, <2>1, CancelInv, ZenonT(60)
  <2> QED BY <1>1, <2>1, <2>2 DEF BookInv, Books
<1>3. CASE ProcessNew(r)
  <2>1. r.mtype = "NEW" /\ addOrder(book, r)
    BY <1>3 DEF ProcessNew
  <2>2. /\ pc' \in {"limit", "market", "done", "undefined"}
        /\ \A i \in Ids : i # r.id => book'.orders[i] = book.orders[i]
        /\ pc' = "limit" => Entered(book', r)
        /\ pc' = "market" => r.otype = "MARKET"
        /\ pc' = "done" => /\ result'.status = "SUCCESS"
                           /\ book' = book
                           /\ book.orders[r.id] # None \/ book.free = 0
    BY <1>1, <2>1, AddOrderEffect
  <2> QED BY <1>1, <2>1, <2>2 DEF ProcessDid
<1>4. CASE ProcessCancel(r)
  <2>0. r.mtype = "CANCEL" /\ pc' = "done"
    BY <1>4 DEF ProcessCancel, Return
  <2>1. CASE MayCancel(book, r)
    <3>1. book' = cancelOrder(book, r.id) /\ result'.status = "SUCCESS"
      BY <1>4, <2>1 DEF ProcessCancel, Return
    <3>2. /\ book'.orders[r.id] = None /\ book.orders[r.id] # None
          /\ \A i \in Ids : i # r.id => book'.orders[i] = book.orders[i]
      BY <1>2, <2>1, <3>1
    <3> QED BY <1>1, <2>0, <3>1, <3>2 DEF ProcessDid
  <2>2. CASE ~MayCancel(book, r)
    <3>1. book' = book /\ result'.status = "FAILURE"
      BY <1>4, <2>2 DEF ProcessCancel, Return
    <3> QED BY <1>1, <2>0, <3>1 DEF ProcessDid
  <2> QED BY <2>1, <2>2
<1>5. CASE ProcessModify(r)
  <2>0. r.mtype = "MODIFY"
    BY <1>5 DEF ProcessModify
  <2>1. CASE Return("FAILURE", FALSE) /\ book' = book
    <3>1. pc' = "done" /\ result'.status = "FAILURE"
      BY <2>1 DEF Return
    <3> QED BY <1>1, <2>0, <2>1, <3>1 DEF ProcessDid
  <2>2. CASE MayModify(book, r) /\ addOrder(cancelOrder(book, r.id), r)
    <3>1. PICK c : c = cancelOrder(book, r.id)
      OBVIOUS
    <3>2. /\ c \in Books /\ c.orders[r.id] = None
          /\ \A i \in Ids : i # r.id => c.orders[i] = book.orders[i]
          /\ book.orders[r.id] # None /\ c.free > 0
      BY <1>2, <2>2, <3>1 DEF MayModify
    <3>3. /\ pc' \in {"limit", "market", "done", "undefined"}
          /\ \A i \in Ids : i # r.id => book'.orders[i] = c.orders[i]
          /\ pc' = "limit" => Entered(book', r)
          /\ pc' = "market" => r.otype = "MARKET"
          /\ pc' = "done" => result'.status = "SUCCESS"
      BY <2>0, <2>2, <3>1, <3>2, AddOrderEffect
    <3> QED BY <1>1, <2>0, <3>2, <3>3 DEF ProcessDid
  <2>3. CASE MayModify(book, r) /\ book' = book
             /\ IF r.otype = "MARKET" THEN EnterMarket(r) ELSE EnterLimit
    <3>1. book.orders[r.id] # None
      BY <2>3 DEF MayModify, MayCancel
    <3>2. pc' = "limit" \/ (pc' = "market" /\ r.otype = "MARKET")
      BY <2>3 DEF EnterMarket, EnterLimit
    <3> QED BY <1>1, <2>0, <2>3, <3>1, <3>2 DEF ProcessDid
  <2> QED BY <1>5, <2>1, <2>2, <2>3 DEF ProcessModify
<1> QED BY <1>3, <1>4, <1>5 DEF process

\* The request in the loop is the next one accepted, so that its id, if it is
\* to get one, is still to be had.
LEMMA NextIdLeft ==
    ASSUME EngineIInv, loc # "busy", cur # None
    PROVE  /\ cur \in Valid
           /\ accepted = Append(executed, cur) \o in_ring
           /\ NewsIn(Append(executed, cur)) =
                IF cur.mtype = "NEW" THEN next_id + 1 ELSE next_id
           /\ cur.mtype = "NEW" => next_id \in Ids
<1>1. /\ in_ring \in Seq(Valid) /\ accepted \in Seq(Valid) /\ executed \in Seq(Valid)
      /\ cur \in Valid
  BY DEF EngineIInv, CarriesValid
<1>2. InFlight = <<cur>>
  BY InFlightIsOne DEF HoldsOne, Opt, EngineIInv
<1>3. PICK p : p = Append(executed, cur)
  OBVIOUS
<1>4. p \in Seq(Valid) /\ executed \o <<cur>> = p
  BY <1>1, <1>3, FifoExecute
<1>5. accepted = p \o in_ring
  BY <1>2, <1>4 DEF EngineIInv, PipelineIsFifo
<1>6. NewsIn(p) = IF cur.mtype = "NEW" THEN next_id + 1 ELSE next_id
  <2>1. NewsIn(p) = IF cur.mtype = "NEW" THEN NewsIn(executed) + 1 ELSE NewsIn(executed)
    BY <1>1, <1>3, NewsAppend
  <2> QED BY <2>1 DEF EngineIInv, IdsCounted
<1>7. ASSUME cur.mtype = "NEW" PROVE next_id \in Ids
  <2>1. Len(p) <= Len(accepted) /\ \A k \in 1 .. Len(p) : accepted[k] = p[k]
    BY <1>1, <1>4, <1>5, ConcatProperties
  <2>2. NewsIn(p) <= NewsIn(accepted)
    BY <1>1, <1>4, <2>1, NewsPrefix
  <2>3. NewsIn(accepted) <= Cardinality(Ids)
    BY DEF EngineIInv, IdsCounted, News, NewsIn
  <2>4. next_id \in Nat /\ NewsIn(accepted) \in Nat /\ Cardinality(Ids) \in Nat
    BY <1>1, NewsFinite, IdsAssumption, FS_CardinalityType DEF EngineIInv, EngineTypeOK
  <2>5. next_id \in 0 .. Cardinality(Ids) - 1
    BY <1>6, <1>7, <2>2, <2>3, <2>4
  <2> QED BY <2>5, EngineAssumption
<1> QED BY <1>1, <1>3, <1>5, <1>6, <1>7

\* Ids that were live, or spent, before a request reaches the book are not the
\* one a NEW gets; any other request that goes on names a live order.
LEMMA ProcessGone ==
    ASSUME EngineIInv, NEW r \in Requests, ProcessDid(r),
           r.mtype = "NEW" => r.id = next_id /\ next_id' = next_id + 1,
           r.mtype # "NEW" => next_id' = next_id,
           NEW i \in Ids, i < next_id, book.orders[i] = None
    PROVE  Gone(i)'
<1>1. next_id \in Nat /\ i \in Nat /\ r.id \in Ids
  BY EngineAssumption, IdsAssumption, FS_CardinalityType, RequestFields DEF EngineIInv, EngineTypeOK
<1>2. r.mtype = "NEW" => r.id # i
  BY <1>1
<1>3. book'.orders[i] = None
  BY <1>2 DEF ProcessDid
<1>4. pc' \in {"limit", "market"} => r.id # i
  BY <1>2 DEF ProcessDid
<1>5. i < next_id'
  BY <1>1
<1> QED BY <1>3, <1>4, <1>5 DEF Gone, ProcessDid

\* The parts of the invariant about ids, when a request reaches the book.
LEMMA ExecuteIds ==
    ASSUME EngineIInv, NEW r \in Requests, ProcessDid(r), UNCHANGED sent,
           r.mtype = "NEW" => r.id = next_id /\ next_id' = next_id + 1,
           r.mtype # "NEW" => next_id' = next_id
    PROVE  RequestKnown' /\ CancelledAreGone' /\ NoMatchAfterCancel'
<1>1. next_id \in Nat /\ Ids \subseteq Nat /\ r.id \in Ids /\ sent \in Seq(Response)
  BY EngineAssumption, IdsAssumption, FS_CardinalityType, RequestFields
     DEF EngineIInv, EngineTypeOK, CarriesValid
<1>2. \A i \in Ids : book.orders[i] # None => i < next_id
  BY DEF EngineIInv, RequestKnown, LiveIds
<1>3. \A i \in LiveIds(book)' : i < next_id'
  <2>1. SUFFICES ASSUME NEW i \in Ids, book'.orders[i] # None PROVE i < next_id'
    BY DEF LiveIds
  <2>2. book.orders[i] # None \/ (i = r.id /\ r.mtype = "NEW")
    BY <2>1 DEF ProcessDid
  <2> QED BY <1>1, <1>2, <2>2
<1>4. r.mtype = "NEW" => r.id < next_id' /\ book.orders[r.id] = None
  BY <1>1, <1>2
<1>5. IdsAreFresh'
  <2>1. pc' = "done" /\ r.mtype = "NEW" => book'.orders[r.id] = None /\ book'.free = 0
    BY <1>4 DEF ProcessDid
  <2> QED BY <1>3, <2>1 DEF IdsAreFresh, ProcessDid
<1>6. RequestKnown'
  BY <1>3, <1>4, <1>5 DEF RequestKnown, ProcessDid
<1>7. ASSUME pc' = "done" /\ req'.mtype = "CANCEL" /\ result'.status = "SUCCESS"
      PROVE  Gone(req.id)'
  <2>1. req' = r /\ book.orders[r.id] # None /\ book'.orders[r.id] = None /\ next_id' = next_id
    BY <1>7 DEF ProcessDid
  <2> QED BY <1>1, <1>2, <1>7, <2>1 DEF Gone
<1>8. ASSUME NEW k \in 1 .. Len(sent), sent[k].kind = "CANCEL", sent[k].status = "SUCCESS"
      PROVE  Gone(sent[k].id)'
  <2>0. sent[k] \in Response
    BY <1>1, <1>8
  <2>1. PICK i \in Ids : i = sent[k].id
    BY <2>0 DEF Response
  <2>2. i < next_id /\ book.orders[i] = None
    BY <1>8, <2>1 DEF EngineIInv, CancelledAreGone, Gone
  <2>3. Gone(i)'
    BY <2>2, ProcessGone
  <2> QED BY <2>1, <2>3 DEF Gone
<1>9. CancelledAreGone'
  BY <1>7, <1>8 DEF CancelledAreGone
<1>10. NoMatchAfterCancel'
  BY DEF EngineIInv, NoMatchAfterCancel
<1> QED BY <1>6, <1>9, <1>10

\* The loop pops one message ahead and enters executeRequest.
LEMMA ExecuteInv ==
    ASSUME EngineIInv, Execute
    PROVE  EngineIInv'
<1>1. /\ loc # "busy" /\ nxt = None /\ cur # None /\ loc' = "busy"
      /\ executed' = Append(executed, cur)
      /\ UNCHANGED <<out_ring, stop, cur, accepted, sent>>
      /\ process(ToRequest(cur))
      /\ next_id' = IF cur.mtype = "NEW" THEN next_id + 1 ELSE next_id
  BY DEF Execute, EngineIInv, LoopShape
<1>2. /\ cur \in Valid
      /\ accepted = Append(executed, cur) \o in_ring
      /\ NewsIn(Append(executed, cur)) = next_id'
      /\ cur.mtype = "NEW" => next_id \in Ids
  BY <1>1, NextIdLeft
<1>3. /\ in_ring \in Seq(Valid) /\ executed \in Seq(Valid) /\ accepted \in Seq(Valid)
      /\ sent \in Seq(Response) /\ Len(in_ring) <= InCap /\ next_id \in Nat
      /\ BookIInv
  BY DEF EngineIInv, CarriesValid, EngineTypeOK
<1>4. PICK r \in Requests : /\ r = ToRequest(cur)
                            /\ r.mtype = cur.mtype
                            /\ r.mtype = "NEW" => r.id = next_id
  BY <1>2, RequestBuilt
<1>5. ProcessDid(r)
  BY <1>1, <1>3, <1>4, ProcessEffect
<1>6. BookIInv'
  BY <1>1, <1>3, <1>4, BookStep DEF BookNext
<1>7. RequestKnown' /\ CancelledAreGone' /\ NoMatchAfterCancel'
  BY <1>1, <1>4, <1>5, ExecuteIds
<1>8. PICK e \in Seq(Valid) : e = Append(executed, cur)
  <2>1. Append(executed, cur) \in Seq(Valid)
    BY <1>2, <1>3
  <2> QED BY <2>1, Zenon
<1>9. /\ nxt' \in Valid \cup {None} /\ in_ring' \in Seq(Valid) /\ Len(in_ring') <= InCap
      /\ e \o in_ring = (e \o Opt(nxt')) \o in_ring'
  <2>1. CASE in_ring = << >>
    <3>1. nxt' = None /\ in_ring' = in_ring /\ Opt(nxt') = << >>
      BY <2>1 DEF Execute, Opt
    <3>2. e \o << >> = e
      BY <1>8, ConcatEmptySeq
    <3> QED BY <1>3, <3>1, <3>2
  <2>2. CASE in_ring # << >>
    <3>1. nxt' = Head(in_ring) /\ in_ring' = Tail(in_ring)
      BY <2>2 DEF Execute
    <3>2. Head(in_ring) \in Valid /\ Tail(in_ring) \in Seq(Valid) /\ Len(Tail(in_ring)) = Len(in_ring) - 1
      BY <1>3, <2>2
    <3>3. Opt(nxt') = <<Head(in_ring)>>
      BY <3>1, <3>2, ValidRequest DEF Opt
    <3>4. e \o in_ring = (e \o <<Head(in_ring)>>) \o Tail(in_ring)
      BY <1>3, <1>8, <2>2, FifoPop
    <3>5. Len(in_ring') <= InCap
      BY <1>3, <3>1, <3>2, EngineAssumption
    <3> QED BY <3>1, <3>2, <3>3, <3>4, <3>5
  <2> QED BY <2>1, <2>2
<1>10. CarriesValid'
  BY <1>1, <1>2, <1>3, <1>8, <1>9 DEF CarriesValid
<1>11. LoopShape'
  BY <1>1, <1>5 DEF LoopShape, ProcessDid
<1>12. PipelineIsFifo'
  <2>1. HoldsOne'
    BY InFlightIsOne, PTL
  <2>2. InFlight' = Opt(nxt')
    BY <1>1, <1>11, <2>1 DEF HoldsOne, Opt
  <2> QED BY <1>1, <1>2, <1>8, <1>9, <2>2 DEF PipelineIsFifo
<1>13. IdsCounted'
  BY <1>1, <1>2 DEF EngineIInv, IdsCounted, News
<1>14. EngineTypeOK'
  <2>1. in_ring' \in Seq(Requests)
    BY <1>9, CarriedTypes
  <2>2. {cur', nxt'} \subseteq Requests \cup {None}
    BY <1>1, <1>2, <1>9, ValidRequest
  <2>3. next_id' \in Nat
    BY <1>1, <1>3
  <2> QED BY <1>1, <1>6, <1>9, <2>1, <2>2, <2>3 DEF EngineIInv, EngineTypeOK, BookIInv, Loc
<1> QED BY <1>6, <1>7, <1>10, <1>11, <1>12, <1>13, <1>14 DEF EngineIInv

-----------------------------------------------------------------------------
(* What goes on the outbound ring                                          *)

\* What was sent stays sent, and what is added are messages of this step.
Adds(msgs) ==
    /\ out_ring' \in Seq(Response) /\ Len(out_ring') <= OutCap
    /\ sent' \in Seq(Response) /\ Len(sent) <= Len(sent')
    /\ \A k \in 1 .. Len(sent) : sent'[k] = sent[k]
    /\ \A k \in Len(sent) + 1 .. Len(sent') : \E j \in 1 .. Len(msgs) : sent'[k] = msgs[j]

\* A full ring takes as many of the messages as it has room for.
LEMMA EmitAdds ==
    ASSUME EngineIInv, NEW msgs \in Seq(Response), Emit(msgs)
    PROVE  Adds(msgs)
<1>1. /\ out_ring \in Seq(Response) /\ Len(out_ring) <= OutCap /\ sent \in Seq(Response)
      /\ Len(out_ring) \in Nat /\ Len(sent) \in Nat /\ Len(msgs) \in Nat /\ OutCap \in Nat
  BY EngineAssumption DEF EngineIInv, EngineTypeOK, CarriesValid
<1>2. PICK n : n = IF Len(msgs) <= OutCap - Len(out_ring) THEN Len(msgs) ELSE OutCap - Len(out_ring)
  OBVIOUS
<1>3. n \in Nat /\ n <= Len(msgs) /\ Len(out_ring) + n <= OutCap
  BY <1>1, <1>2
<1>4. PICK in : in = SubSeq(msgs, 1, n)
  OBVIOUS
<1>5. in \in Seq(Response) /\ Len(in) = n /\ \A j \in 1 .. n : in[j] = msgs[j]
  BY <1>1, <1>3, <1>4
<1>6. out_ring' = out_ring \o in /\ sent' = sent \o in
  BY <1>2, <1>4 DEF Emit
<1>7. out_ring' \in Seq(Response) /\ Len(out_ring') = Len(out_ring) + n
  BY <1>1, <1>5, <1>6, ConcatProperties
<1>8. /\ sent' \in Seq(Response) /\ Len(sent') = Len(sent) + n
      /\ \A k \in 1 .. Len(sent) + n :
            sent'[k] = IF k <= Len(sent) THEN sent[k] ELSE in[k - Len(sent)]
  BY <1>1, <1>5, <1>6, ConcatProperties
<1>9. \A k \in 1 .. Len(sent) : sent'[k] = sent[k]
  BY <1>1, <1>3, <1>8
<1>10. ASSUME NEW k \in Len(sent) + 1 .. Len(sent')
       PROVE  \E j \in 1 .. Len(msgs) : sent'[k] = msgs[j]
  <2>1. PICK j : j = k - Len(sent)
    OBVIOUS
  <2>2. j \in 1 .. n /\ j \in 1 .. Len(msgs) /\ k \in 1 .. Len(sent) + n /\ ~(k <= Len(sent))
    BY <1>1, <1>3, <1>8, <2>1
  <2>3. sent'[k] = msgs[j]
    BY <1>5, <1>8, <2>1, <2>2
  <2> QED BY <2>2, <2>3
<1>11. Len(sent) <= Len(sent')
  BY <1>1, <1>3, <1>8
<1> QED BY <1>3, <1>7, <1>8, <1>9, <1>10, <1>11 DEF Adds

\* So does a full ring that a pop has made room on before the second push.
LEMMA EmitSecondAdds ==
    ASSUME EngineIInv, NEW msgs \in Seq(Response), EmitSecond(msgs)
    PROVE  Adds(msgs)
<1>1. /\ out_ring \in Seq(Response) /\ sent \in Seq(Response)
      /\ Len(out_ring) = OutCap /\ OutCap \in Nat \ {0}
      /\ out_ring' = Append(Tail(out_ring), msgs[2]) /\ sent' = Append(sent, msgs[2])
      /\ Len(msgs) = 2
  BY EngineAssumption DEF EngineIInv, EngineTypeOK, CarriesValid, EmitSecond
<1>2. PICK m \in Response : m = msgs[2]
  <2>1. 2 \in 1 .. Len(msgs)
    BY <1>1
  <2> QED BY <2>1, ElementOfSeq
<1>3. Tail(out_ring) \in Seq(Response) /\ Len(Tail(out_ring)) = OutCap - 1
  <2>1. out_ring # << >>
    BY <1>1
  <2> QED BY <1>1, <2>1, HeadTailProperties
<1>4. out_ring' \in Seq(Response) /\ Len(out_ring') <= OutCap
  BY <1>1, <1>2, <1>3
<1>5. /\ sent' \in Seq(Response) /\ Len(sent) \in Nat /\ Len(sent') = Len(sent) + 1
      /\ \A k \in 1 .. Len(sent) : sent'[k] = sent[k]
      /\ sent'[Len(sent) + 1] = m
  BY <1>1, <1>2
<1>6. \A k \in Len(sent) + 1 .. Len(sent') : k = Len(sent) + 1
  BY <1>5
<1>7. 2 \in 1 .. Len(msgs) /\ Len(sent) <= Len(sent')
  BY <1>1, <1>5
<1> QED BY <1>2, <1>4, <1>5, <1>6, <1>7 DEF Adds

\* A cancelled order stays gone when the map only shrinks and nothing new runs.
LEMMA GoneStays ==
    ASSUME NEW i \in Ids, Gone(i), next_id' = next_id, Shrinks(book, book'),
           pc' \in {"limit", "market"} => pc \in {"limit", "market"} /\ req' = req
    PROVE  Gone(i)'
BY DEF Gone, Shrinks

\* Whatever a step adds to what was sent: no CANCEL is acknowledged with success
\* before its order is gone, and no order that is gone is reported as traded.
LEMMA SentInv ==
    ASSUME EngineIInv, NEW msgs \in Seq(Response), Adds(msgs),
           next_id' = next_id, Shrinks(book, book'),
           pc' \in {"limit", "market"} => pc \in {"limit", "market"} /\ req' = req,
           \A j \in 1 .. Len(msgs) :
              msgs[j].kind = "CANCEL" /\ msgs[j].status = "SUCCESS" => Gone(msgs[j].id),
           \A j \in 1 .. Len(msgs) : msgs[j].kind = "MATCH" => ~Gone(msgs[j].id)
    PROVE  /\ \A k \in 1 .. Len(sent') :
                 sent'[k].kind = "CANCEL" /\ sent'[k].status = "SUCCESS" => Gone(sent[k].id)'
           /\ NoMatchAfterCancel'
<1>1. /\ sent \in Seq(Response) /\ sent' \in Seq(Response)
      /\ Len(sent) \in Nat /\ Len(sent') \in Nat /\ Len(sent) <= Len(sent')
  BY DEF EngineIInv, CarriesValid, Adds
<1>2. ASSUME NEW k \in 1 .. Len(sent')
      PROVE  /\ k \in 1 .. Len(sent) => sent'[k] = sent[k]
             /\ k \notin 1 .. Len(sent) => \E j \in 1 .. Len(msgs) : sent'[k] = msgs[j]
             /\ sent'[k].id \in Ids
  <2>1. sent'[k] \in Response
    BY <1>1
  <2>2. k \notin 1 .. Len(sent) => k \in Len(sent) + 1 .. Len(sent')
    BY <1>1
  <2> QED BY <2>1, <2>2 DEF Adds, Response
<1>3. ASSUME NEW k \in 1 .. Len(sent'), sent'[k].kind = "CANCEL", sent'[k].status = "SUCCESS"
      PROVE  Gone(sent'[k].id)
  <2>1. CASE k \in 1 .. Len(sent)
    BY <1>2, <1>3, <2>1 DEF EngineIInv, CancelledAreGone
  <2>2. CASE k \notin 1 .. Len(sent)
    BY <1>2, <1>3, <2>2
  <2> QED BY <2>1, <2>2
<1>4. ASSUME NEW k \in 1 .. Len(sent'), sent'[k].kind = "CANCEL", sent'[k].status = "SUCCESS"
      PROVE  Gone(sent[k].id)'
  <2>1. PICK i \in Ids : i = sent'[k].id
    BY <1>2
  <2>2. Gone(i)
    BY <1>3, <1>4, <2>1
  <2>3. Gone(i)'
    BY <2>2, GoneStays
  <2> QED BY <2>1, <2>3 DEF Gone
<1>5. ASSUME NEW i \in 1 .. Len(sent'), NEW j \in 1 .. Len(sent'), i < j,
             sent'[i].kind = "CANCEL", sent'[i].status = "SUCCESS", sent'[j].kind = "MATCH"
      PROVE  sent'[j].id # sent'[i].id
  <2>1. Gone(sent'[i].id)
    BY <1>3, <1>5
  <2>2. CASE j \notin 1 .. Len(sent)
    BY <1>2, <1>5, <2>1, <2>2
  <2>3. CASE j \in 1 .. Len(sent)
    <3>1. i \in 1 .. Len(sent)
      BY <1>1, <1>5, <2>3
    <3> QED BY <1>2, <1>5, <2>3, <3>1 DEF EngineIInv, NoMatchAfterCancel
  <2> QED BY <2>2, <2>3
<1> QED BY <1>4, <1>5 DEF NoMatchAfterCancel

-----------------------------------------------------------------------------
(* The matching loops and the acknowledgement                              *)

\* One step inside process(): an iteration takes orders that are in the book, or
\* the market order that is being run, and says so; the last step trades nothing.
MatchDid ==
    /\ pc \in {"limit", "market"} /\ req' = req
    /\ Shrinks(book, book')
    /\ \/ pc' = pc /\ out' # << >>
       \/ pc' = "done" /\ result'.status = "SUCCESS" /\ book' = book /\ out' = out
    /\ out' \in Seq(Matches) /\ Len(out) \in Nat /\ Len(out) <= Len(out')
    /\ \A k \in Len(out) + 1 .. Len(out') :
          book.orders[out'[k].id] # None \/ (pc = "market" /\ out'[k].id = req.id)

\* Both loops and both ways out of them.
LEMMA MatchEffect ==
    ASSUME BookIInv, matchOrders \/ matchMarket
    PROVE  MatchDid /\ BookIInv'
<1>1. /\ out \in Seq(Matches) /\ Len(out) \in Nat /\ BookInv(book)
      /\ "BID" \in Sides /\ "ASK" \in Sides
  BY DEF BookIInv, BookTypeOK, Sides
<1>2. BookIInv'
  BY BookStep DEF BookNext
<1>3. ASSUME NEW i \in LiveIds(book)
      PROVE  MatchMsg(book, i) \in Matches /\ MatchMsg(book, i).id = i /\ book.orders[i] # None
  BY <1>3 DEF LiveIds, BookIInv, BookTypeOK, Books, MatchMsg, Matches, Order
<1>4. ASSUME NEW x \in Matches, NEW y \in Matches, out' = out \o <<x, y>>,
             book.orders[x.id] # None \/ (pc = "market" /\ x.id = req.id),
             book.orders[y.id] # None
      PROVE  /\ out' # << >> /\ out' \in Seq(Matches) /\ Len(out) <= Len(out')
             /\ \A k \in Len(out) + 1 .. Len(out') :
                   book.orders[out'[k].id] # None \/ (pc = "market" /\ out'[k].id = req.id)
  <2>1. PICK o : o = out'
    OBVIOUS
  <2>2. /\ o \in Seq(Matches) /\ Len(o) = Len(out) + 2
        /\ o[Len(out) + 1] = x /\ o[Len(out) + 2] = y
    BY <1>1, <1>4, <2>1, TwoMore
  <2>3. \A k \in Len(out) + 1 .. Len(o) : k = Len(out) + 1 \/ k = Len(out) + 2
    BY <1>1, <2>2
  <2>4. o # << >> /\ Len(out) <= Len(o)
    BY <1>1, <2>2
  <2> QED BY <1>4, <2>1, <2>2, <2>3, <2>4
<1>5. CASE MatchStep
  <2>1. PICK bid, ask : bid = Front(book, "BID") /\ ask = Front(book, "ASK")
    OBVIOUS
  <2>2. Shrinks(book, book') /\ bid \in LiveIds(book) /\ ask \in LiveIds(book)
    BY <1>1, <1>5, <2>1, MatchStepInv, FrontLive
  <2>3. /\ out' = out \o <<MatchMsg(book, bid), MatchMsg(book, ask)>>
        /\ pc = "limit" /\ pc' = pc /\ req' = req
    BY <1>5, <2>1 DEF MatchStep
  <2> QED BY <1>1, <1>2, <1>3, <1>4, <2>2, <2>3 DEF MatchDid
<1>6. CASE MarketStep
  <2>1. PICK rest : rest = Front(book, Opposite[req.side])
    OBVIOUS
  <2>2. /\ req \in Requests /\ pc = "market" /\ pc' = pc /\ req' = req
        /\ out' = out \o <<[id |-> req.id, client |-> req.client], MatchMsg(book, rest)>>
    BY <1>6, <2>1 DEF MarketStep, BookIInv, BookTypeOK
  <2>3. Shrinks(book, book') /\ rest \in LiveIds(book)
    BY <1>1, <1>6, <2>1, MarketStepInv, FrontLive
  <2>4. [id |-> req.id, client |-> req.client] \in Matches
    BY <2>2, RequestFields DEF Matches
  <2> QED BY <1>1, <1>2, <1>3, <1>4, <2>2, <2>3, <2>4 DEF MatchDid
<1>7. CASE MatchDone \/ MarketDone
  <2>1. /\ pc \in {"limit", "market"} /\ pc' = "done" /\ result'.status = "SUCCESS"
        /\ book' = book /\ out' = out /\ req' = req
    BY <1>7 DEF MatchDone, MarketDone, Return
  <2>2. Shrinks(book, book')
    BY <2>1 DEF Shrinks
  <2>3. Len(out) + 1 .. Len(out') = {}
    BY <1>1, <2>1
  <2> QED BY <1>1, <1>2, <2>1, <2>2, <2>3 DEF MatchDid
<1> QED BY <1>5, <1>6, <1>7 DEF matchOrders, matchMarket

\* A step of a matching loop, with its messages.
LEMMA MatchInv ==
    ASSUME EngineIInv, Match
    PROVE  EngineIInv'
<1>1. /\ BookIInv /\ (matchOrders \/ matchMarket)
      /\ loc = "busy" /\ UNCHANGED <<in_ring, stop, cur, nxt, loc, next_id, accepted, executed>>
  BY DEF EngineIInv, Match, pipeVars
<1>2. MatchDid /\ BookIInv'
  BY <1>1, MatchEffect
<1>3. PICK o : o = out'
  OBVIOUS
<1>4. /\ o \in Seq(Matches) /\ Len(out) \in Nat /\ Len(o) \in Nat /\ Len(out) <= Len(o)
      /\ \A k \in Len(out) + 1 .. Len(o) :
            o[k] \in Matches /\
            (book.orders[o[k].id] # None \/ (pc = "market" /\ o[k].id = req.id))
  BY <1>2, <1>3 DEF MatchDid
<1>5. PICK msgs : msgs = [i \in 1 .. Len(o) - Len(out) |->
                            [kind |-> "MATCH", id |-> o[Len(out) + i].id,
                             client |-> o[Len(out) + i].client, status |-> "SUCCESS"]]
  OBVIOUS
<1>6. \A j \in 1 .. Len(o) - Len(out) : Len(out) + j \in Len(out) + 1 .. Len(o)
  BY <1>4
<1>7. /\ \A j \in 1 .. Len(o) - Len(out) : msgs[j] \in Response
      /\ \A j \in 1 .. Len(o) - Len(out) : msgs[j].kind = "MATCH" /\ ~Gone(msgs[j].id)
  BY <1>4, <1>5, <1>6 DEF Matches, Response, Gone
<1>8. msgs \in Seq(Response) /\ Len(msgs) = Len(o) - Len(out)
  <2>1. PICK n \in Nat : n = Len(o) - Len(out)
    BY <1>4
  <2>2. msgs \in [1 .. n -> Response]
    BY <1>5, <1>7, <2>1
  <2> QED BY <2>1, <2>2
<1>9. Adds(msgs)
  <2>1. Emit(msgs) \/ EmitSecond(msgs)
    BY <1>3, <1>5, Zenon DEF Match
  <2>2. CASE Emit(msgs)
    BY <1>8, <2>2, EmitAdds
  <2>3. CASE EmitSecond(msgs)
    BY <1>8, <2>3, EmitSecondAdds
  <2> QED BY <2>1, <2>2, <2>3
<1>10. /\ \A k \in 1 .. Len(sent') :
             sent'[k].kind = "CANCEL" /\ sent'[k].status = "SUCCESS" => Gone(sent[k].id)'
       /\ NoMatchAfterCancel'
  <2>1. \A j \in 1 .. Len(msgs) : msgs[j].kind = "MATCH" /\ ~Gone(msgs[j].id)
    BY <1>7, <1>8
  <2>2. pc' \in {"limit", "market"} => pc \in {"limit", "market"} /\ req' = req
    BY <1>2 DEF MatchDid
  <2>3. next_id' = next_id /\ Shrinks(book, book')
    BY <1>1, <1>2 DEF MatchDid
  <2> QED BY <1>8, <1>9, <2>1, <2>2, <2>3, SentInv
<1>11. CancelledAreGone'
  BY <1>2, <1>10 DEF CancelledAreGone, MatchDid, EngineIInv, RequestKnown
<1>12. RequestKnown'
  <2>1. \A i \in LiveIds(book)' : i < next_id'
    BY <1>1, <1>2 DEF MatchDid, Shrinks, LiveIds, EngineIInv, RequestKnown
  <2>2. CASE pc' = pc /\ out' # << >>
    BY <1>1, <1>2, <2>1, <2>2 DEF MatchDid, EngineIInv, RequestKnown, IdsAreFresh
  <2>3. CASE pc' = "done" /\ result'.status = "SUCCESS" /\ book' = book /\ out' = out
    BY <1>1, <1>2, <2>1, <2>3 DEF MatchDid, EngineIInv, RequestKnown, IdsAreFresh, Entered
  <2> QED BY <1>2, <2>2, <2>3 DEF MatchDid
<1>13. CarriesValid'
  BY <1>1, <1>9 DEF EngineIInv, CarriesValid, Adds
<1>14. LoopShape'
  BY <1>1, <1>2 DEF EngineIInv, LoopShape, MatchDid
<1>15. PipelineIsFifo' /\ IdsCounted'
  BY <1>1 DEF EngineIInv, PipelineIsFifo, InFlight, IdsCounted, News
<1>16. EngineTypeOK'
  BY <1>1, <1>2, <1>9 DEF EngineIInv, EngineTypeOK, BookIInv, Adds
<1> QED BY <1>2, <1>10, <1>11, <1>12, <1>13, <1>14, <1>15, <1>16 DEF EngineIInv

\* executeRequest acknowledges, and the loop moves on to the message popped ahead.
LEMMA AcknowledgeInv ==
    ASSUME EngineIInv, Acknowledge
    PROVE  EngineIInv'
<1>1. /\ loc = "busy" /\ loc' = "head" /\ cur' = nxt /\ nxt' = None
      /\ pc = "done" /\ pc' = "idle" /\ req' = None /\ book' = book
      /\ UNCHANGED <<in_ring, stop, next_id, accepted, executed>>
      /\ Deliver
  BY DEF Acknowledge, Deliver
<1>2. BookIInv' /\ req \in Requests /\ result \in Results /\ result.status # "NONE"
  BY <1>1, BookStep DEF EngineIInv, BookNext, BookIInv, BookTypeOK, RequestKnown
<1>3. PICK msgs : msgs = IF result.suppress THEN << >>
                         ELSE <<[kind |-> req.mtype, id |-> req.id, client |-> req.client,
                                 status |-> result.status]>>
  OBVIOUS
<1>4. PICK m : m = [kind |-> req.mtype, id |-> req.id, client |-> req.client,
                    status |-> result.status]
  OBVIOUS
<1>5. /\ m \in Response /\ m.kind # "MATCH"
      /\ m.kind = "CANCEL" /\ m.status = "SUCCESS" => Gone(m.id)
  <2>1. req.mtype \in {"NEW", "CANCEL", "MODIFY"} /\ req.id \in Ids /\ req.client \in Clients
    BY <1>2 DEF Requests, LimitRequests, MarketRequests, CancelRequests
  <2>2. result.status \in {"SUCCESS", "FAILURE"}
    BY <1>2 DEF Results
  <2>3. req.mtype = "CANCEL" /\ result.status = "SUCCESS" => Gone(req.id)
    BY <1>1 DEF EngineIInv, CancelledAreGone
  <2> QED BY <1>4, <2>1, <2>2, <2>3 DEF Response
<1>6. /\ msgs \in Seq(Response)
      /\ \A j \in 1 .. Len(msgs) : msgs[j] = m
  <2>1. CASE msgs = << >>
    BY <2>1
  <2>2. CASE msgs = <<m>>
    BY <1>5, <2>2
  <2> QED BY <1>3, <1>4, <2>1, <2>2
<1>7. Adds(msgs)
  <2>1. Emit(msgs)
    BY <1>3 DEF Acknowledge
  <2> QED BY <1>6, <2>1, EmitAdds
<1>8. /\ \A k \in 1 .. Len(sent') :
            sent'[k].kind = "CANCEL" /\ sent'[k].status = "SUCCESS" => Gone(sent[k].id)'
      /\ NoMatchAfterCancel'
  <2>1. Shrinks(book, book')
    BY <1>1 DEF Shrinks
  <2>2. /\ \A j \in 1 .. Len(msgs) :
              msgs[j].kind = "CANCEL" /\ msgs[j].status = "SUCCESS" => Gone(msgs[j].id)
        /\ \A j \in 1 .. Len(msgs) : msgs[j].kind = "MATCH" => ~Gone(msgs[j].id)
    BY <1>5, <1>6
  <2> QED BY <1>1, <1>6, <1>7, <2>1, <2>2, SentInv
<1>9. CancelledAreGone'
  BY <1>1, <1>8 DEF CancelledAreGone
<1>10. RequestKnown'
  BY <1>1 DEF EngineIInv, RequestKnown, IdsAreFresh
<1>11. CarriesValid' /\ LoopShape'
  BY <1>1, <1>7 DEF EngineIInv, CarriesValid, LoopShape, Adds
<1>12. PipelineIsFifo'
  <2>1. HoldsOne'
    BY InFlightIsOne, PTL
  <2>2. InFlight' = InFlight
    BY <1>1, <1>11, <2>1, InFlightIsOne DEF HoldsOne, Opt, EngineIInv
  <2> QED BY <1>1, <2>2 DEF EngineIInv, PipelineIsFifo
<1>13. IdsCounted'
  BY <1>1 DEF EngineIInv, IdsCounted, News
<1>14. EngineTypeOK'
  BY <1>1, <1>2, <1>7 DEF EngineIInv, EngineTypeOK, BookIInv, Adds, Loc
<1> QED BY <1>2, <1>8, <1>9, <1>10, <1>11, <1>12, <1>13, <1>14 DEF EngineIInv

-----------------------------------------------------------------------------
(* The theorems                                                            *)

\* Init and every step of the matching thread and of the server's ends of the
\* rings keep the invariant.
THEOREM EngineInvariant == EngineSpec => []EngineIInv
<1>1. EngineInit => EngineIInv
  <2> SUFFICES ASSUME EngineInit PROVE EngineIInv
    OBVIOUS
  <2>1. BookIInv /\ pc = "idle" /\ book = EmptyBook /\ req = None
    BY BookInitInv DEF EngineInit, BookInit
  <2>2. /\ in_ring = << >> /\ out_ring = << >> /\ cur = None /\ nxt = None
        /\ loc = "head" /\ next_id = 0 /\ stop = FALSE
        /\ accepted = << >> /\ executed = << >> /\ sent = << >>
    BY DEF EngineInit
  <2>3. CarriesValid /\ LoopShape
    BY <2>1, <2>2 DEF CarriesValid, LoopShape
  <2>4. PipelineIsFifo
    BY <2>2 DEF PipelineIsFifo, InFlight
  <2>5. IdsCounted
    <3>1. {k \in 1 .. Len(executed) : executed[k].mtype = "NEW"} = {}
          /\ {k \in 1 .. Len(accepted) : accepted[k].mtype = "NEW"} = {}
      BY <2>2
    <3>2. Cardinality({}) = 0 /\ Cardinality(Ids) \in Nat
      BY FS_EmptySet, IdsAssumption, FS_CardinalityType
    <3> QED BY <2>2, <3>1, <3>2 DEF IdsCounted, NewsIn, News
  <2>6. \A i \in Ids : book.orders[i] = None
    BY <2>1 DEF EmptyBook
  <2>7. RequestKnown /\ CancelledAreGone /\ NoMatchAfterCancel
    BY <2>1, <2>2, <2>6 DEF RequestKnown, IdsAreFresh, LiveIds, CancelledAreGone, NoMatchAfterCancel
  <2>8. EngineTypeOK
    <3>1. << >> \in Seq(Requests) /\ << >> \in Seq(Response) /\ Len(<< >>) <= InCap /\ Len(<< >>) <= OutCap
      BY EngineAssumption
    <3> QED BY <2>1, <2>2, <3>1 DEF EngineTypeOK, BookIInv, Loc
  <2> QED BY <2>1, <2>3, <2>4, <2>5, <2>7, <2>8 DEF EngineIInv
<1>2. EngineIInv /\ [EngineNext]_engineVars => EngineIInv'
  BY SubmitInv, OutsideInv, TakeInv, ExecuteInv, MatchInv, AcknowledgeInv, ExitInv
     DEF EngineNext, handleMatching
<1> QED BY <1>1, <1>2, PTL DEF EngineSpec

\* Type correctness: what reaches the book has a side and types it knows, a quantity
\* within the limit and a limit price that is not 0, whatever bytes the clients send,
\* and neither ring outgrows its capacity.
THEOREM EngineTypeCorrect == EngineSpec => []EngineTypeOK
<1>1. EngineIInv => EngineTypeOK
  BY DEF EngineIInv
<1> QED BY <1>1, EngineInvariant, PTL

\* The 1-ahead loop of handleMatching executes what in_ring_ accepted, all of
\* it, once and in order, whatever the requests and the capacities are.
THEOREM PipelineCorrect == EngineSpec => []PipelineIsFifo
<1>1. EngineIInv => PipelineIsFifo
  BY DEF EngineIInv
<1> QED BY <1>1, EngineInvariant, PTL

\* next_id_ is above the id of every order in the book, so that a NEW limit order
\* that does not trade rests under it as asked for, unless the pool is exhausted.
THEOREM IdsCorrect == EngineSpec => []IdsAreFresh
<1>1. EngineIInv => IdsAreFresh
  BY DEF EngineIInv, RequestKnown
<1> QED BY <1>1, EngineInvariant, PTL

\* Once a cancel is acknowledged with success, no MATCH names its order.
THEOREM CancelIsFinal == EngineSpec => []NoMatchAfterCancel
<1>1. EngineIInv => NoMatchAfterCancel
  BY DEF EngineIInv
<1> QED BY <1>1, EngineInvariant, PTL
=============================================================================

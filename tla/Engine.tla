------------------------------- MODULE Engine -------------------------------
(***************************************************************************)
(* The matching thread (exchange/engine/src/engine.cpp): the 1-ahead loop  *)
(* of handleMatching, executeRequest with its id assignment and its        *)
(* acknowledgement, around the book of OrderBook and between the two       *)
(* communication rings.  The server's two threads appear as the producer   *)
(* of in_ring and the consumer of out_ring; neither side checks what push  *)
(* returns.                                                                *)
(*                                                                         *)
(* The rings are bounded queues here; RingBuffer shows that the lock-free  *)
(* buffer behaves as one.                                                  *)
(***************************************************************************)
EXTENDS OrderBook, Validation

CONSTANTS
    Inputs,     \* InboundMessages the clients may send, valid or not
    InCap,      \* messages in_ring_ holds
    OutCap,     \* messages out_ring_ holds
    MaxMsgs     \* bound: messages the server pushes in a behaviour

\* An InboundMessage as it is cut from a frame.
Messages == [mtype : {"NEW", "CANCEL", "MODIFY", "OTHER"}, id : Ids, client : Clients,
             side : Sides \cup {"OTHER"}, otype : {"MARKET", "LIMIT", "OTHER"},
             price : 0 .. TopPrice, quantity : Nat]

\* Fields that are not read are 0: the price of a NEW market order, and all of a
\* CANCEL but its ids.
Plain(m) ==
    /\ m.mtype = "NEW" /\ m.otype = "MARKET" => m.price = 0
    /\ m.mtype = "CANCEL" => /\ m.side = "BID" /\ m.otype = "LIMIT"
                             /\ m.price = 0 /\ m.quantity = 0

ASSUME InputsAssumption == /\ Inputs \subseteq Messages
                           /\ \A m \in Inputs : Plain(m)
                           /\ Quantities = 0 .. MaxQuantity

\* Ids are assigned from 0 upwards.  Two messages fit the outbound ring, so that a pop
\* between the two pushes of a fill takes neither of them.
ASSUME EngineAssumption ==
    /\ Ids = 0 .. Cardinality(Ids) - 1
    /\ InCap \in Nat \ {0}
    /\ OutCap \in Nat /\ OutCap >= 2
    /\ MaxMsgs \in Nat
    /\ None \notin Inputs

VARIABLES
    in_ring, out_ring,
    cur, nxt,   \* the loop's two messages, None when have / have_next is false
    loc,        \* "head" of the loop, "got" a message, "busy" in executeRequest, "exit"
    next_id,
    stop,
    accepted, executed,   \* history: requests that entered in_ring_ / were executed
    sent                  \* history: responses pushed to out_ring_, in order

pipeVars   == <<cur, nxt, loc, next_id>>
histVars   == <<accepted, executed, sent>>
engineVars == <<bookVars, in_ring, out_ring, stop, pipeVars, histVars>>

Loc == {"head", "got", "busy", "exit"}

Response == [kind : {"NEW", "CANCEL", "MODIFY", "MATCH"}, id : Ids,
             client : Clients, status : {"SUCCESS", "FAILURE"}]

EngineInit ==
    /\ BookInit
    /\ in_ring = << >> /\ out_ring = << >>
    /\ cur = None /\ nxt = None
    /\ loc = "head"
    /\ next_id = 0
    /\ stop = FALSE
    /\ accepted = << >> /\ executed = << >> /\ sent = << >>

\* RingBuffer::push on a ring that holds cap messages; the result is ignored.
Push(q, cap, m) == IF Len(q) < cap THEN Append(q, m) ELSE q

\* Push on the outbound ring, in order, what the current step produces.
Emit(msgs) ==
    LET room == OutCap - Len(out_ring)
        in   == SubSeq(msgs, 1, IF Len(msgs) <= room THEN Len(msgs) ELSE room)
    IN  out_ring' = out_ring \o in /\ sent' = sent \o in

\* The second of two pushes finds the room that a pop has made since the first was
\* dropped on a full ring.  (On any other ring a pop between the pushes has the effect
\* of one before or after both.)
EmitSecond(msgs) ==
    /\ Len(msgs) = 2
    /\ Len(out_ring) = OutCap
    /\ out_ring' = Append(Tail(out_ring), msgs[2])
    /\ sent' = Append(sent, msgs[2])

-----------------------------------------------------------------------------
(* The server's ends of the rings                                          *)

News == Cardinality({k \in 1 .. Len(accepted) : accepted[k].mtype = "NEW"})

\* processRequest: validate, then `in_ring_.push(state.inbound())`.  What is not
\* valid goes to the error channel, which the engine does not see.
Submit(m) ==
    /\ Len(accepted) < MaxMsgs
    /\ m.mtype = "NEW" => News < Cardinality(Ids)
    /\ in_ring' = IF validate_message(m) THEN Push(in_ring, InCap, m) ELSE in_ring
    /\ accepted' = IF validate_message(m) /\ Len(in_ring) < InCap
                   THEN Append(accepted, m) ELSE accepted
    /\ UNCHANGED <<bookVars, out_ring, stop, pipeVars, executed, sent>>

\* routeOutboundMessages: `out_ring_.pop(nxt)`.
Route ==
    /\ out_ring # << >>
    /\ out_ring' = Tail(out_ring)
    /\ UNCHANGED <<bookVars, in_ring, stop, pipeVars, histVars>>

\* Exchange::stop, or a fatal error of the inbound thread.
RequestStop ==
    /\ ~stop
    /\ stop' = TRUE
    /\ UNCHANGED <<bookVars, in_ring, out_ring, pipeVars, histVars>>

-----------------------------------------------------------------------------
(* handleMatching                                                          *)

TakeCurrent ==
    /\ loc = "head" /\ ~stop
    /\ cur = None
    /\ in_ring # << >>
    /\ cur' = Head(in_ring)
    /\ in_ring' = Tail(in_ring)
    /\ loc' = "got"
    /\ UNCHANGED <<bookVars, out_ring, stop, nxt, next_id, histVars>>

\* Mutant: a NEW keeps the id its message came with.
ToRequestKeepsId(m) == m

\* The OrderRequest executeRequest builds from message m.
ToRequest(m) == IF m.mtype = "NEW" THEN [m EXCEPT !.id = next_id] ELSE m

\* Mutant: next_id_ is used but not advanced.
ExecuteReusesId ==
    /\ loc = "got" \/ (loc = "head" /\ ~stop /\ cur # None)
    /\ nxt' = IF in_ring = << >> THEN None ELSE Head(in_ring)
    /\ in_ring' = IF in_ring = << >> THEN in_ring ELSE Tail(in_ring)
    /\ process(ToRequest(cur))
    /\ loc' = "busy"
    /\ executed' = Append(executed, cur)
    /\ UNCHANGED <<out_ring, stop, cur, next_id, accepted, sent>>

\* Pop one message ahead, then enter executeRequest with the current one.
Execute ==
    /\ loc = "got" \/ (loc = "head" /\ ~stop /\ cur # None)
    /\ nxt' = IF in_ring = << >> THEN None ELSE Head(in_ring)
    /\ in_ring' = IF in_ring = << >> THEN in_ring ELSE Tail(in_ring)
    /\ next_id' = IF cur.mtype = "NEW" THEN next_id + 1 ELSE next_id
    /\ process(ToRequest(cur))
    /\ loc' = "busy"
    /\ executed' = Append(executed, cur)
    /\ UNCHANGED <<out_ring, stop, cur, accepted, sent>>

\* A step inside process(); its MATCH messages go on the outbound ring.
Match ==
    LET msgs == [i \in 1 .. Len(out') - Len(out) |->
                   [kind |-> "MATCH", id |-> out'[Len(out) + i].id,
                    client |-> out'[Len(out) + i].client, status |-> "SUCCESS"]] IN
    /\ loc = "busy"
    /\ matchOrders \/ matchMarket
    /\ Emit(msgs) \/ EmitSecond(msgs)
    /\ UNCHANGED <<in_ring, stop, pipeVars, accepted, executed>>

\* Mutant: the message popped ahead is forgotten.
AcknowledgeDropsNext ==
    /\ loc = "busy"
    /\ Deliver
    /\ Emit(IF result.suppress THEN << >>
            ELSE <<[kind |-> req.mtype, id |-> req.id, client |-> req.client,
                    status |-> result.status]>>)
    /\ cur' = None
    /\ nxt' = None
    /\ loc' = "head"
    /\ UNCHANGED <<in_ring, stop, next_id, accepted, executed>>

\* executeRequest acknowledges unless told not to; the loop moves on.
Acknowledge ==
    /\ loc = "busy"
    /\ Deliver
    /\ Emit(IF result.suppress THEN << >>
            ELSE <<[kind |-> req.mtype, id |-> req.id, client |-> req.client,
                    status |-> result.status]>>)
    /\ cur' = nxt
    /\ nxt' = None
    /\ loc' = "head"
    /\ UNCHANGED <<in_ring, stop, next_id, accepted, executed>>

\* Mutant: the flag is read only when there is nothing left to execute.
ExitWhenDrained ==
    /\ loc = "head" /\ stop /\ cur = None /\ in_ring = << >>
    /\ loc' = "exit"
    /\ UNCHANGED <<bookVars, in_ring, out_ring, stop, cur, nxt, next_id, histVars>>

Exit ==
    /\ loc = "head" /\ stop
    /\ loc' = "exit"
    /\ UNCHANGED <<bookVars, in_ring, out_ring, stop, cur, nxt, next_id, histVars>>

handleMatching == TakeCurrent \/ Execute \/ Match \/ Acknowledge \/ Exit

EngineNext ==
    \/ \E m \in Inputs : Submit(m)
    \/ Route
    \/ RequestStop
    \/ handleMatching

\* The matching thread is pinned to a core and spins; the outbound thread keeps
\* draining its ring.  Nobody is obliged to send a request or to stop.
EngineSpec ==
    EngineInit /\ [][EngineNext]_engineVars
               /\ WF_engineVars(handleMatching) /\ WF_engineVars(Route)

-----------------------------------------------------------------------------
(* Properties                                                              *)

\* Every variable of the matching thread holds a value of its type, the rings stay
\* within their capacity, and what reaches the engine is what validate_message tests
\* for: a side and types it knows, a quantity up to the limit, a limit price that is
\* not 0.  Validation does not keep a limit price off the end of the ladder.
EngineTypeOK ==
    /\ BookTypeOK
    /\ in_ring \in Seq(Requests) /\ Len(in_ring) <= InCap
    /\ out_ring \in Seq(Response) /\ Len(out_ring) <= OutCap
    /\ {cur, nxt} \subseteq Requests \cup {None}
    /\ loc \in Loc
    /\ next_id \in Nat
    /\ stop \in BOOLEAN

\* The messages taken from in_ring_ and not yet executed, oldest first.
InFlight ==
    (IF cur = None \/ loc = "busy" THEN << >> ELSE <<cur>>)
    \o (IF nxt = None THEN << >> ELSE <<nxt>>)

\* The 1-ahead pipeline neither drops, repeats nor reorders a request: what the
\* ring accepted is what was executed, what the loop holds and what the ring
\* still holds, in that order.
PipelineIsFifo == accepted = executed \o InFlight \o in_ring

\* Ids are never reused: a live order has an id below next_id_, so a NEW never
\* meets orders_.contains(id) (orderbook.cpp:103).  A limit order that did not trade
\* is then in the book under the id it is told, or nowhere and the pool is exhausted.
IdsAreFresh ==
    /\ \A i \in LiveIds(book) : i < next_id
    /\ pc = "done" /\ req.mtype = "NEW" /\ req.otype = "LIMIT" /\ out = << >>
       => IF book.orders[req.id] = None THEN book.free = 0
                                        ELSE book.orders[req.id] = OrderOf(req)

\* After a successful cancel has been acknowledged, the order is never reported
\* as traded: neither a later request nor the message already popped can.
NoMatchAfterCancel ==
    \A i, j \in 1 .. Len(sent) :
        i < j /\ sent[i].kind = "CANCEL" /\ sent[i].status = "SUCCESS"
              /\ sent[j].kind = "MATCH" => sent[j].id # sent[i].id

\* Every request the ring accepted is executed, unless the exchange is stopped or an
\* order past the ladder is entered.  At most MaxMsgs are accepted, so this is to say
\* that the two histories end up equal.
AcceptedIsExecuted == <>[](executed = accepted \/ stop \/ pc = "undefined")

\* A stop request ends the matching thread, unless an order past the ladder does.
StopEnds == stop ~> (loc = "exit" \/ pc = "undefined")
=============================================================================

---------------------------- MODULE LoadGenerator ----------------------------
(***************************************************************************)
(* One client of the load generator (client/src/load_generator.cpp,        *)
(* ClientState), as fast as it can or paced (EXPECTED_THROUGHPUT > 0), and *)
(* the exchange as that client meets it.  The clients share nothing but    *)
(* the event loop, so one stands for all.                                  *)
(*                                                                         *)
(* The exchange answers a request as Engine and Server do: an ACK, or the  *)
(* MATCHes of an order that traded, or both for a market order that was    *)
(* filled in part; ERROR is what validation refuses, while a request the   *)
(* book fails leaves as an ACK, since its server_error stays NONE.  The    *)
(* exchange knows clients by id, so a request sent before a reconnect may  *)
(* be answered on the connection that follows.  A full ring on the way     *)
(* drops a request or its answer, and nobody is told.                      *)
(*                                                                         *)
(* The ids the client collects for its CANCEL and MODIFY requests, and the *)
(* statistics other than orders_in_flight, are left out.                   *)
(***************************************************************************)
EXTENDS Integers, Sequences, FiniteSets

CONSTANTS
    Depth,      \* PIPELINE_DEPTH
    WireCap,    \* bound: requests the exchange has not answered
    ReadCap,    \* bound: responses in the socket and the read buffer
    MaxBackoff  \* RECONNECT_DELAY_MS, in steps of 50 ms

ASSUME ClientAssumption == {Depth, WireCap, ReadCap, MaxBackoff} \subseteq Nat \ {0}

Kinds == {"NEW", "CANCEL", "MODIFY"}

\* What the exchange may answer to a request of each kind.  A MATCH stands for the
\* first fill of the order, Trade for the others.
Answers ==
    [k \in Kinds |->
        CASE k = "NEW"    -> {<<"ACK">>, <<"MATCH">>, <<"MATCH", "ACK">>, <<"ERROR">>}
          [] k = "CANCEL" -> {<<"ACK">>, <<"ERROR">>}
          [] k = "MODIFY" -> {<<"ACK">>, <<"MATCH">>, <<"ERROR">>}]

VARIABLES
    paced,              \* inter_arrival_ns_ > 0; never changes
    lossy,              \* the rings of the exchange may be full; never changes
    due,                \* next_send_ns has passed
    status,             \* "none" (fd == -1), "connecting", "up"
    acks_pending,
    pending_types,      \* the types between pending_head and pending_tail
    write_buf,          \* kinds of the frames of the batch not yet sent
    orders_in_flight,
    epollout,           \* EPOLLOUT is in the interest set of fd
    backoff, waiting,   \* reconnect_backoff_ms / 50; reconnect_at_ns is ahead
    requests,           \* sent and not answered: [kind, old connection or not]
    responses,          \* answered and not read
    reconnected         \* history: some connection has been lost

clientVars == <<paced, lossy, due, status, acks_pending, pending_types, write_buf,
                orders_in_flight, epollout, backoff, waiting>>
vars == <<clientVars, requests, responses, reconnected>>

Init ==
    /\ paced \in BOOLEAN /\ lossy \in BOOLEAN /\ due = TRUE
    /\ status = "none"
    /\ acks_pending = 0 /\ pending_types = << >> /\ write_buf = << >>
    /\ orders_in_flight = 0
    /\ epollout = FALSE
    /\ backoff = 0 /\ waiting = FALSE
    /\ requests = << >> /\ responses = << >>
    /\ reconnected = FALSE

\* Mutant: neither the backoff nor the slots freed are clamped.
LeastIsFirst(m, n) == m

Least(m, n) == IF m <= n THEN m ELSE n

\* The requests the exchange has read when the connection closes.
Stale(m) == [i \in 1 .. m |-> [kind |-> requests[i].kind, old |-> TRUE]]

\* reconnect(), when `a` acknowledgements are pending, `f` orders in flight and b
\* the backoff: close, correct the counter, set the time of the next attempt.
reconnect(a, f, b) ==
    /\ status' = "none"
    /\ orders_in_flight' = f - a
    /\ acks_pending' = 0
    /\ epollout' = FALSE
    /\ backoff' = Least(b + 1, MaxBackoff)
    /\ waiting' = TRUE
    /\ \E m \in 0 .. Len(requests) : requests' = Stale(m)
    /\ responses' = << >>
    /\ reconnected' = TRUE

Sent(kinds) == [i \in 1 .. Len(kinds) |-> [kind |-> kinds[i], old |-> FALSE]]

\* Mutant: EAGAIN does not arm EPOLLOUT.
FlushUnarmed(w, armed) ==
    \E m \in 0 .. Len(w) :
        /\ Len(requests) + m <= WireCap
        /\ requests' = requests \o Sent(SubSeq(w, 1, m))
        /\ write_buf' = SubSeq(w, m + 1, Len(w))
        /\ epollout' = armed

\* flushWrite on batch w: all of it is sent, or a part before EAGAIN, which arms
\* EPOLLOUT; nothing disarms it when the rest has gone out.
FlushOk(w, armed) ==
    \E m \in 0 .. Len(w) :
        /\ Len(requests) + m <= WireCap
        /\ requests' = requests \o Sent(SubSeq(w, 1, m))
        /\ write_buf' = SubSeq(w, m + 1, Len(w))
        /\ epollout' = (armed \/ m < Len(w))

\* Requests a client may have in its pipeline when it builds a batch.
Slots == IF paced THEN 1 ELSE Depth

\* The early returns of buildBatch, with `a` acknowledgements pending.
Holds(a) == write_buf # << >> \/ (IF paced THEN a >= Depth \/ ~due ELSE a = Depth)

\* buildBatch and its flushWrite, with `a` acknowledgements pending for the
\* requests in p, f orders in flight, EPOLLOUT armed or not, and backoff b.
\* next_send_ns moves on even when there is nothing to build.
buildBatch(a, p, f, armed, b) ==
    \/ /\ Holds(a)
       /\ acks_pending' = a /\ pending_types' = p /\ orders_in_flight' = f
       /\ status' = "up" /\ epollout' = armed /\ backoff' = b
       /\ UNCHANGED <<paced, lossy, due, write_buf, waiting, requests, reconnected>>
    \/ /\ ~Holds(a)
       /\ due' = ~paced
       /\ \E batch \in [1 .. (IF a < Slots THEN Slots - a ELSE 0) -> Kinds] :
            LET n == Len(batch) IN
            /\ pending_types' = p \o batch
            /\ \/ /\ FlushOk(batch, armed)
                  /\ acks_pending' = a + n /\ orders_in_flight' = f + n
                  /\ status' = "up" /\ backoff' = b
                  /\ UNCHANGED <<waiting, reconnected>>
               \/ /\ n > 0 /\ reconnect(a + n, f + n, b)
                  /\ write_buf' = batch
       /\ UNCHANGED <<paced, lossy>>

-----------------------------------------------------------------------------
(* The event loop                                                          *)

\* connectClient: everything but orders_in_flight starts over.
ConnectClient ==
    /\ status = "none" /\ ~waiting
    /\ status' = "connecting"
    /\ acks_pending' = 0 /\ pending_types' = << >> /\ write_buf' = << >>
    /\ epollout' = TRUE
    /\ UNCHANGED <<paced, lossy, due, orders_in_flight, backoff, waiting, requests,
                   responses, reconnected>>

\* connect() fails at once; the time of the next attempt is left as it is.
ConnectFails ==
    /\ status = "none" /\ ~waiting
    /\ acks_pending' = 0 /\ pending_types' = << >> /\ write_buf' = << >>
    /\ UNCHANGED <<paced, lossy, due, status, orders_in_flight, epollout, backoff,
                   waiting, requests, responses, reconnected>>

BackoffElapses ==
    /\ waiting
    /\ waiting' = FALSE
    /\ UNCHANGED <<paced, lossy, due, status, acks_pending, pending_types, write_buf,
                   orders_in_flight, epollout, backoff, requests, responses, reconnected>>

\* handleConnect without error: EPOLLIN only, then the first batch.
HandleConnect ==
    /\ status = "connecting"
    /\ buildBatch(0, << >>, orders_in_flight, FALSE, 0)
    /\ responses' = << >>

\* A refused, reset or closed connection, or a failed send or receive.
ConnectionLost ==
    /\ status # "none"
    /\ reconnect(acks_pending, orders_in_flight, backoff)
    /\ UNCHANGED <<paced, lossy, due, pending_types, write_buf>>

FlushWrite ==
    /\ status = "up" /\ epollout /\ write_buf # << >>
    /\ FlushOk(write_buf, epollout)
    /\ UNCHANGED <<paced, lossy, due, status, acks_pending, pending_types, orders_in_flight,
                   backoff, waiting, responses, reconnected>>

\* Mutant: a MATCH gives a slot back too.
FreeingAll(n) == Least(n, acks_pending)

\* How many of the first n responses give a slot back: ACK and ERROR do.
Freeing(n) ==
    Least(Cardinality({i \in 1 .. n : responses[i] \in {"ACK", "ERROR"}}), acks_pending)

\* handleReadable: n complete responses are read (none, when the bytes end inside
\* the first frame) and the pipeline is topped up.
HandleReadable(n) ==
    LET k == Freeing(n)
    IN  /\ status = "up"
        /\ responses # << >> /\ n <= Len(responses)
        /\ buildBatch(acks_pending - k,
                      SubSeq(pending_types, k + 1, Len(pending_types)),
                      orders_in_flight - k, epollout, backoff)
        /\ responses' = IF status' = "none" THEN << >>
                        ELSE SubSeq(responses, n + 1, Len(responses))

\* The inter-arrival time of a paced client is over.
SlotElapses ==
    /\ paced /\ ~due
    /\ due' = TRUE
    /\ UNCHANGED <<paced, lossy, status, acks_pending, pending_types, write_buf,
                   orders_in_flight, epollout, backoff, waiting, requests, responses,
                   reconnected>>

\* The end of a turn of run(): a paced client may send though it had no event.
Unblock ==
    /\ paced /\ status = "up"
    /\ acks_pending < Depth /\ write_buf = << >>
    /\ buildBatch(acks_pending, pending_types, orders_in_flight, epollout, backoff)
    /\ responses' = IF status' = "none" THEN << >> ELSE responses

-----------------------------------------------------------------------------
(* The exchange                                                            *)

\* The oldest request is answered.  One of an old connection is answered on the
\* current one, or its answer finds no connection.  When lossy, the in ring, the
\* out ring or the staging ring of the connection may be full and the answer lost;
\* one frame lost of two leaves another member of Answers.
Reply(answer) ==
    /\ requests # << >>
    /\ answer \in Answers[Head(requests).kind]
    /\ requests' = Tail(requests)
    /\ \/ /\ status = "up"
          /\ Len(responses) + Len(answer) <= ReadCap
          /\ responses' = responses \o answer
       \/ /\ Head(requests).old \/ status # "up" \/ lossy
          /\ UNCHANGED responses
    /\ UNCHANGED <<clientVars, reconnected>>

\* A resting order of this client trades against another client's.
Trade ==
    /\ status = "up" /\ Len(responses) < ReadCap
    /\ responses' = Append(responses, "MATCH")
    /\ UNCHANGED <<clientVars, requests, reconnected>>

Next ==
    \/ ConnectClient \/ ConnectFails \/ BackoffElapses
    \/ HandleConnect \/ ConnectionLost \/ FlushWrite
    \/ SlotElapses \/ Unblock
    \/ \E n \in 0 .. ReadCap : HandleReadable(n)
    \/ \E k \in Kinds : \E answer \in Answers[k] : Reply(answer)
    \/ Trade

\* The event loop waits for nothing but events and deadlines, so what epoll or
\* the clock reports is handled.  The exchange goes on reading requests: a full
\* socket delays an answer, hence the strong fairness, and a full ring loses it,
\* but neither stops the requests behind it.
Spec ==
    /\ Init /\ [][Next]_vars
    /\ WF_vars(FlushWrite) /\ WF_vars(\E n \in 0 .. ReadCap : HandleReadable(n))
    /\ WF_vars(SlotElapses) /\ WF_vars(Unblock)
    /\ SF_vars(\E k \in Kinds : \E answer \in Answers[k] : Reply(answer))

-----------------------------------------------------------------------------
(* Properties                                                              *)

\* Every variable holds a value of its type, and the ring of pending types its
\* PIPELINE_DEPTH entries.
ClientTypeOK ==
    /\ status \in {"none", "connecting", "up"}
    /\ acks_pending \in 0 .. Depth
    /\ pending_types \in Seq(Kinds) /\ Len(pending_types) <= Depth
    /\ write_buf \in Seq(Kinds)
    /\ orders_in_flight \in Int
    /\ {paced, lossy, due, epollout, waiting, reconnected} \subseteq BOOLEAN
    /\ backoff \in 0 .. MaxBackoff
    /\ Len(requests) <= WireCap /\ Len(responses) <= ReadCap

\* Requests of this connection that the exchange has not answered.
Outstanding ==
    Len(write_buf) + Cardinality({i \in DOMAIN requests : ~requests[i].old})

\* The accounts of the pipeline: orders_in_flight is corrected for what a lost
\* connection takes with it, the ring of pending types moves with acks_pending,
\* and until a connection is lost the client has no more unanswered requests than
\* slots in use, of which a paced client has one (config.hpp:34-40), however its
\* responses are batched.
PipelineAccounted ==
    /\ orders_in_flight = acks_pending
    /\ status # "none" => Len(pending_types) = acks_pending
    /\ acks_pending <= IF paced THEN 1 ELSE Depth
    /\ status = "up" /\ ~reconnected => Outstanding <= acks_pending

\* No client stalls of itself: a batch that was sent in part goes out through
\* EPOLLOUT, whatever is read in between, and a client with nothing pending sends
\* its next request: a paced one though no event comes for it, one that is not
\* paced when an answer comes, so only if the exchange loses none.
NothingStalls ==
    /\ write_buf # << >> /\ status = "up" ~> write_buf = << >> \/ status # "up"
    /\ acks_pending = 0 /\ status = "up" /\ (paced \/ ~lossy) ~>
            acks_pending > 0 \/ status # "up"

\* README: a response frees its pipeline slot.  With every response read and none
\* lost, each slot in use belongs to a request that has not been answered.
AnsweredFreesSlot ==
    ~lossy /\ status = "up" /\ ~reconnected /\ responses = << >> =>
        acks_pending = Outstanding
=============================================================================

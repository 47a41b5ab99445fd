------------------------------- MODULE Server -------------------------------
(***************************************************************************)
(* The TCP gateway (exchange/server): the inbound thread that accepts,     *)
(* reads and parses, the outbound thread that routes and sends, and the    *)
(* two-phase close they run over fd-indexed slots whose descriptors the    *)
(* kernel reuses.  The matching engine is the module Engine; here it       *)
(* answers each request with one or two messages.                          *)
(*                                                                         *)
(* A step of a thread is what lies between two of its accesses to state    *)
(* the other one writes: the condemned flags, client_map_, the slots of    *)
(* outbound_map_ and the rings.  Connections are numbered in the order the *)
(* peers open them, which the code never sees: the number is how the       *)
(* properties tell a descriptor from its next user.                        *)
(***************************************************************************)
EXTENDS Integers, Sequences, FiniteSets

CONSTANTS
    Clients,    \* ClientIds; each peer uses its own
    MaxFd,      \* descriptors 1 .. MaxFd can be open
    MaxConns,   \* bound: connections opened in a behaviour
    MaxFrames,  \* bound: frames sent by the peers in a behaviour
    RingCap,    \* messages each communication ring, and the error channel, holds
    StageCap,   \* responses the staging ring of a connection holds
    BufCap,     \* frames a write buffer holds: PIPELINE_DEPTH
    None

ASSUME ServerAssumption ==
    /\ {MaxFd, MaxConns, MaxFrames} \subseteq Nat
    /\ {RingCap, StageCap, BufCap} \subseteq Nat \ {0}
    /\ None \notin Clients

Fds   == 1 .. MaxFd
Conns == 1 .. MaxConns

\* A response, numbered by the engine; an error report has number 0.
Msg == [to : Clients, n : Nat]

\* A connection as the kernel and its peer see it; fd is 0 in the accept queue
\* and -1 once the server has closed it.
Connection == [client : Clients, fd : Fds \cup {0, -1}, up : BOOLEAN,
               input : Seq({"ok", "bad"}), got : Seq(Msg)]

\* InboundState: client_id_ is the one of the last valid message.
InboundState == [conn : Conns, client_id : Clients \cup {None}]

\* OutboundState: the staging ring, the frames appended to write_buf_ since it
\* was last empty, how many of them are sent, and latency_count_.
OutboundState == [conn : Conns, staging : Seq(Msg), buf : Seq(Msg),
                  sent : Nat, latency : Nat]

ASSUME NoneAssumption == None \notin InboundState \cup OutboundState

VARIABLES
    conns,          \* the kernel's connections
    inbound_map, outbound_map,
    client_map,     \* ClientId -> fd, -1 when cleared, 0 when absent
    condemned_inbound, condemned_outbound,
    ready,          \* events of the current epoll_wait(epoll_in_), <<fd, kind>>; the
                    \* listening socket is 0, the event in hand has kind "now"
    in_ring, out_ring, error_channel,
    opc, ofd,       \* the outbound thread's place in serveResponses, and its scan
    routing,        \* resolved and undelivered: cur, nxt of routeOutboundMessages
    writable_fds, epollout_armed,
    todo,           \* fds left in the current loop of beginSends or over events_out_
    frames, serial  \* frames the peers sent; responses the engine made

flags   == <<condemned_inbound, condemned_outbound>>
rings   == <<in_ring, out_ring, error_channel>>
outVars == <<opc, ofd, routing, writable_fds, epollout_armed, todo>>
vars    == <<conns, inbound_map, outbound_map, client_map, flags, ready, rings,
             outVars, frames, serial>>

Init ==
    /\ conns = << >>
    /\ inbound_map = [fd \in Fds |-> None] /\ outbound_map = [fd \in Fds |-> None]
    /\ client_map = [c \in Clients |-> 0]
    /\ condemned_inbound = [fd \in Fds |-> FALSE]
    /\ condemned_outbound = [fd \in Fds |-> FALSE]
    /\ ready = {}
    /\ in_ring = << >> /\ out_ring = << >> /\ error_channel = << >>
    /\ opc = "scan" /\ ofd = 1
    /\ routing = << >>
    /\ writable_fds = {} /\ epollout_armed = {} /\ todo = {}
    /\ frames = 0 /\ serial = 0

\* Mutant: no test for a full ring.
PushUnchecked(q, cap, m) == Append(q, m)

\* A push whose result nobody looks at.
Push(q, cap, m) == IF Len(q) < cap THEN Append(q, m) ELSE q

-----------------------------------------------------------------------------
(* The peers, the kernel and the engine                                    *)

Backlog == {k \in DOMAIN conns : conns[k].fd = 0}
OpenFds == {conns[k].fd : k \in DOMAIN conns} \cap Fds
Lowest(S) == CHOOSE x \in S : \A y \in S : x <= y

\* A peer holds one connection at a time.
Connect(c) ==
    /\ Len(conns) < MaxConns
    /\ \A k \in DOMAIN conns : conns[k].client = c => ~conns[k].up
    /\ conns' = Append(conns, [client |-> c, fd |-> 0, up |-> TRUE,
                               input |-> << >>, got |-> << >>])
    /\ UNCHANGED <<inbound_map, outbound_map, client_map, flags, ready, rings,
                   outVars, frames, serial>>

SendFrame(k, f) ==
    /\ frames < MaxFrames
    /\ conns[k].up /\ conns[k].fd # -1
    /\ conns' = [conns EXCEPT ![k].input = Append(@, f)]
    /\ frames' = frames + 1
    /\ UNCHANGED <<inbound_map, outbound_map, client_map, flags, ready, rings,
                   outVars, serial>>

HangUp(k) ==
    /\ conns[k].up
    /\ conns' = [conns EXCEPT ![k].up = FALSE]
    /\ UNCHANGED <<inbound_map, outbound_map, client_map, flags, ready, rings,
                   outVars, frames, serial>>

\* The engine answers the client of a request and, on a trade, another one.
Answer(others) ==
    /\ in_ring # << >>
    /\ others = {} \/ \E d \in Clients : others = {d} /\ client_map[d] # 0
    /\ in_ring' = Tail(in_ring)
    /\ LET first == Push(out_ring, RingCap, [to |-> Head(in_ring), n |-> serial + 1])
       IN  IF others = {}
           THEN out_ring' = first
           ELSE \E d \in others :
                    out_ring' = Push(first, RingCap, [to |-> d, n |-> serial + 2])
    /\ serial' = serial + 1 + Cardinality(others)
    /\ UNCHANGED <<conns, inbound_map, outbound_map, client_map, flags, ready,
                   error_channel, outVars, frames>>

-----------------------------------------------------------------------------
(* The inbound thread                                                      *)

\* fds epoll_in_ watches: added when accepted, removed when condemned by this
\* thread or closed.
Polled == {fd \in Fds : inbound_map[fd] # None /\ ~condemned_inbound[fd]}

\* Mutant: the inbound thread closes what it has condemned itself.
ReapedEarly == {fd \in Fds : condemned_inbound[fd] /\ inbound_map[fd] # None}

\* What handleDisconnectsInbound tears down: both threads are done with it.
Reaped == {fd \in Fds : condemned_outbound[fd] /\ inbound_map[fd] # None}

\* Events of a level-triggered epoll_wait on `fds`.
EventsIn(fds, cs) ==
    {<<fd, "hup">> : fd \in {f \in fds : ~cs[inbound_map[f].conn].up}}
    \cup {<<fd, "in">> : fd \in {f \in fds : /\ cs[inbound_map[f].conn].up
                                             /\ cs[inbound_map[f].conn].input # << >>}}
    \cup (IF \E k \in DOMAIN cs : cs[k].fd = 0 THEN {<<0, "in">>} ELSE {})

\* Mutant: client_map_ keeps the route.
RoutesAfterKept(fds) == client_map

\* The routes once the slots of fds are torn down.
RoutesAfter(fds) ==
    [c \in Clients |->
        IF \E fd \in fds : inbound_map[fd].client_id = c THEN -1 ELSE client_map[c]]

\* The head of the loop of handleRequests: handleDisconnectsInbound clears the
\* routing entry, closes the descriptor and clears both flags; then epoll_wait.
InboundTurn ==
    LET closed == [k \in DOMAIN conns |->
                     IF conns[k].fd \in Reaped
                     THEN [conns[k] EXCEPT !.fd = -1, !.input = << >>, !.got = << >>]
                     ELSE conns[k]]
    IN  /\ ready = {}
        /\ client_map' = RoutesAfter(Reaped)
        /\ conns' = closed
        /\ inbound_map' = [fd \in Fds |->
                             IF fd \in Reaped THEN None ELSE inbound_map[fd]]
        /\ condemned_inbound' = [fd \in Fds |-> condemned_inbound[fd] /\ fd \notin Reaped]
        /\ condemned_outbound' = [fd \in Fds |-> condemned_outbound[fd] /\ fd \notin Reaped]
        /\ ready' = EventsIn(Polled \ Reaped, closed)
        /\ UNCHANGED <<outbound_map, rings, outVars, frames, serial>>

\* The for loop over events_in_ handles one event at a time.
InHand == {e \in ready : e[2] = "now"}

\* Take up an EPOLLIN event: readAndProcessBytes drops it when either thread has
\* condemned the descriptor.
TakeEvent(fd) ==
    LET dropped == fd # 0 /\ (condemned_inbound[fd] \/ condemned_outbound[fd])
    IN  /\ InHand = {} /\ <<fd, "in">> \in ready
        /\ ready' = (ready \ {<<fd, "in">>}) \cup IF dropped THEN {} ELSE {<<fd, "now">>}
        /\ UNCHANGED <<conns, inbound_map, outbound_map, client_map, flags, rings,
                       outVars, frames, serial>>

\* registerConnections: one turn of the accept loop.  The flags are cleared and
\* the two slots filled before the thread touches anything else.
Register ==
    LET k  == Lowest(Backlog)
        fd == Lowest(Fds \ OpenFds)
    IN  /\ <<0, "now">> \in ready
        /\ Backlog # {} /\ Fds \ OpenFds # {}
        /\ conns' = [conns EXCEPT ![k].fd = fd]
        /\ condemned_inbound' = [condemned_inbound EXCEPT ![fd] = FALSE]
        /\ condemned_outbound' = [condemned_outbound EXCEPT ![fd] = FALSE]
        /\ outbound_map' = [outbound_map EXCEPT ![fd] =
              [conn |-> k, staging |-> << >>, buf |-> << >>, sent |-> 0, latency |-> 0]]
        /\ inbound_map' = [inbound_map EXCEPT ![fd] = [conn |-> k, client_id |-> None]]
        /\ UNCHANGED <<client_map, ready, rings, outVars, frames, serial>>

\* The new descriptor cannot be set up and is closed again: after a failed fcntl
\* the loop goes on, after a failed epoll_ctl it ends.
RegisterFails(goesOn) ==
    /\ <<0, "now">> \in ready
    /\ Backlog # {} /\ Fds \ OpenFds # {}
    /\ conns' = [conns EXCEPT ![Lowest(Backlog)].fd = -1, ![Lowest(Backlog)].input = << >>]
    /\ ready' = IF goesOn THEN ready ELSE ready \ {<<0, "now">>}
    /\ UNCHANGED <<inbound_map, outbound_map, client_map, flags, rings, outVars,
                   frames, serial>>

\* accept() fails: the queue is empty, or no descriptor is left.
RegisterEnd ==
    /\ <<0, "now">> \in ready
    /\ Backlog = {} \/ Fds \ OpenFds = {}
    /\ ready' = ready \ {<<0, "now">>}
    /\ UNCHANGED <<conns, inbound_map, outbound_map, client_map, flags, rings,
                   outVars, frames, serial>>

\* EPOLLRDHUP or EPOLLHUP on the inbound side.
HandleHangUp(fd) ==
    /\ InHand = {} /\ <<fd, "hup">> \in ready
    /\ condemned_inbound' = [condemned_inbound EXCEPT ![fd] = TRUE]
    /\ ready' = ready \ {<<fd, "hup">>}
    /\ UNCHANGED <<conns, inbound_map, outbound_map, client_map, condemned_outbound,
                   rings, outVars, frames, serial>>

\* One frame of processRequest: a malformed or invalid one goes to the error
\* channel, the others name their client's route and go to the engine.
ReadFrame(fd) ==
    LET k == inbound_map[fd].conn
        c == conns[k].client
    IN  /\ <<fd, "now">> \in ready
        /\ conns[k].input # << >>
        /\ conns' = [conns EXCEPT ![k].input = Tail(@)]
        /\ IF Head(conns[k].input) = "ok"
           THEN /\ inbound_map' = [inbound_map EXCEPT ![fd].client_id = c]
                /\ client_map' = [client_map EXCEPT ![c] = fd]
                /\ in_ring' = Push(in_ring, RingCap, c)
                /\ UNCHANGED error_channel
           ELSE /\ error_channel' =
                     Push(error_channel, RingCap, [fd |-> fd, to |-> c])
                /\ UNCHANGED <<inbound_map, client_map, in_ring>>
        /\ UNCHANGED <<outbound_map, flags, ready, out_ring, outVars, frames, serial>>

\* recv() has nothing more: EAGAIN, or 0 with an EAGAIN still in errno.
ReadEnd(fd) ==
    /\ <<fd, "now">> \in ready
    /\ conns[inbound_map[fd].conn].input = << >>
    /\ ready' = ready \ {<<fd, "now">>}
    /\ UNCHANGED <<conns, inbound_map, outbound_map, client_map, flags, rings,
                   outVars, frames, serial>>

\* recv() fails, or returns 0 with anything else in errno: the connection is
\* condemned and what was received with it is not processed.
ReadFails(fd) ==
    /\ <<fd, "now">> \in ready
    /\ ~conns[inbound_map[fd].conn].up
    /\ condemned_inbound' = [condemned_inbound EXCEPT ![fd] = TRUE]
    /\ ready' = ready \ {<<fd, "now">>}
    /\ UNCHANGED <<conns, inbound_map, outbound_map, client_map, condemned_outbound,
                   rings, outVars, frames, serial>>

handleRequests ==
    \/ InboundTurn
    \/ \E fd \in 0 .. MaxFd : TakeEvent(fd)
    \/ Register \/ RegisterEnd \/ \E goesOn \in BOOLEAN : RegisterFails(goesOn)
    \/ \E fd \in Fds : HandleHangUp(fd) \/ ReadFrame(fd) \/ ReadEnd(fd) \/ ReadFails(fd)

-----------------------------------------------------------------------------
(* The outbound thread                                                     *)

inbound == <<conns, inbound_map, client_map, ready, frames, serial>>

\* handleDisconnectsOutbound: the scan loads the flag of the next condemned fd ...
\* The flags before it were down when they were loaded one by one; here they are
\* down at once, since a flag raised behind the scan waits for the next pass.
ScanHit(fd) ==
    /\ opc = "scan" /\ fd >= ofd
    /\ condemned_inbound[fd]
    /\ \A g \in ofd .. fd - 1 : ~condemned_inbound[g]
    /\ opc' = "reap" /\ ofd' = fd
    /\ UNCHANGED <<inbound, outbound_map, flags, rings, routing, writable_fds,
                   epollout_armed, todo>>

ScanEnd ==
    /\ opc = "scan"
    /\ \A g \in ofd .. MaxFd : ~condemned_inbound[g]
    /\ opc' = "route" /\ ofd' = 1
    /\ UNCHANGED <<inbound, outbound_map, flags, rings, routing, writable_fds,
                   epollout_armed, todo>>

\* Mutant: the inbound thread is not told.
ReleaseSilently(fd) ==
    /\ writable_fds' = writable_fds \ {fd}
    /\ epollout_armed' = epollout_armed \ {fd}
    /\ outbound_map' = [outbound_map EXCEPT ![fd] = None]
    /\ UNCHANGED condemned_outbound

\* The outbound thread is done with fd: every trace of it goes, then the flag
\* that lets the inbound thread close it.
Release(fd) ==
    /\ writable_fds' = writable_fds \ {fd}
    /\ epollout_armed' = epollout_armed \ {fd}
    /\ outbound_map' = [outbound_map EXCEPT ![fd] = None]
    /\ condemned_outbound' = [condemned_outbound EXCEPT ![fd] = TRUE]

\* ... and then looks at the slot, which it releases if it is in use.
ScanReap ==
    /\ opc = "reap"
    /\ opc' = "scan" /\ ofd' = ofd + 1
    /\ IF outbound_map[ofd] # None
       THEN Release(ofd)
       ELSE UNCHANGED <<writable_fds, epollout_armed, outbound_map, condemned_outbound>>
    /\ UNCHANGED <<inbound, condemned_inbound, rings, routing, todo>>

\* Pop a response and resolve its descriptor.
Resolve ==
    /\ routing' = Append(routing, [msg |-> Head(out_ring),
                                   fd |-> client_map[Head(out_ring).to]])
    /\ out_ring' = Tail(out_ring)

\* routeOutboundMessages pops and resolves one message ahead of the one it
\* delivers.
RouteFirst ==
    /\ opc = "route"
    /\ IF out_ring = << >>
       THEN opc' = "errors" /\ UNCHANGED <<routing, out_ring>>
       ELSE opc' = "ahead" /\ Resolve
    /\ UNCHANGED <<inbound, outbound_map, flags, in_ring, error_channel, ofd,
                   writable_fds, epollout_armed, todo>>

RouteAhead ==
    /\ opc = "ahead"
    /\ opc' = "deliver"
    /\ IF out_ring = << >> THEN UNCHANGED <<routing, out_ring>> ELSE Resolve
    /\ UNCHANGED <<inbound, outbound_map, flags, in_ring, error_channel, ofd,
                   writable_fds, epollout_armed, todo>>

\* Mutant: the descriptor is not added to writable_fds_.
StageUnscheduled(fd, m) ==
    IF fd \in Fds /\ ~condemned_inbound[fd] /\ outbound_map[fd] # None
    THEN /\ outbound_map' = [outbound_map EXCEPT ![fd].staging = Push(@, StageCap, m)]
         /\ UNCHANGED writable_fds
    ELSE UNCHANGED <<outbound_map, writable_fds>>

\* Stage a message for fd, if the slot is live and not condemned.
Stage(fd, m) ==
    IF fd \in Fds /\ ~condemned_inbound[fd] /\ outbound_map[fd] # None
    THEN /\ outbound_map' = [outbound_map EXCEPT ![fd].staging = Push(@, StageCap, m)]
         /\ writable_fds' = writable_fds \cup {fd}
    ELSE UNCHANGED <<outbound_map, writable_fds>>

Deliver ==
    /\ opc = "deliver"
    /\ Stage(Head(routing).fd, Head(routing).msg)
    /\ routing' = Tail(routing)
    /\ opc' = IF Tail(routing) = << >> THEN "errors" ELSE "ahead"
    /\ UNCHANGED <<inbound, flags, rings, ofd, epollout_armed, todo>>

DrainError ==
    /\ opc = "errors"
    /\ error_channel # << >>
    /\ Stage(Head(error_channel).fd, [to |-> Head(error_channel).to, n |-> 0])
    /\ error_channel' = Tail(error_channel)
    /\ UNCHANGED <<inbound, flags, in_ring, out_ring, opc, ofd, routing,
                   epollout_armed, todo>>

ErrorsEnd ==
    /\ opc = "errors"
    /\ error_channel = << >>
    /\ opc' = "send" /\ todo' = writable_fds
    /\ UNCHANGED <<inbound, outbound_map, flags, rings, ofd, routing, writable_fds,
                   epollout_armed>>

\* Serialise as many staged responses as the write buffer has room for.
appendResponse(o) ==
    LET room == BufCap - Len(o.buf)
        m    == IF Len(o.staging) <= room THEN Len(o.staging) ELSE room
    IN  [o EXCEPT !.buf = @ \o SubSeq(o.staging, 1, m),
                  !.staging = SubSeq(@, m + 1, Len(@)),
                  !.latency = IF @ + m <= BufCap THEN @ + m ELSE BufCap]

\* Mutant: a partial send is started over.
SentForgets(o, n) ==
    IF o.sent + n = Len(o.buf)
    THEN [o EXCEPT !.buf = << >>, !.sent = 0, !.latency = 0]
    ELSE o

\* send() accepted the next n frames of o's buffer; finishBatch once all are sent.
Sent(o, n) ==
    IF o.sent + n = Len(o.buf)
    THEN [o EXCEPT !.buf = << >>, !.sent = 0, !.latency = 0]
    ELSE [o EXCEPT !.sent = @ + n]

\* Arming EPOLLOUT: the epoll_ctl may fail.
Arm(fd) == {epollout_armed, epollout_armed \cup {fd}}

\* sendResponse sends it all, or a part before EAGAIN, which arms EPOLLOUT.
sendResponse(fd, o, n) ==
    /\ conns' = [k \in DOMAIN conns |->
                   IF conns[k].fd = fd
                   THEN [conns[k] EXCEPT !.got = @ \o SubSeq(o.buf, o.sent + 1, o.sent + n)]
                   ELSE conns[k]]
    /\ outbound_map' = [outbound_map EXCEPT ![fd] = Sent(o, n)]

\* A fatal send error needs a peer that is gone.
SendFails(fd) == \E k \in DOMAIN conns : conns[k].fd = fd /\ ~conns[k].up

\* beginSends, for one fd of writable_fds_.  Its second test of the flag, after the
\* send, is left out: what it would erase, the next pass erases.
BeginSend(fd) ==
    /\ opc = "send" /\ fd \in todo
    /\ todo' = todo \ {fd}
    /\ \/ /\ condemned_inbound[fd] \/ outbound_map[fd] = None
          /\ writable_fds' = writable_fds \ {fd}
          /\ UNCHANGED <<conns, outbound_map, flags, epollout_armed>>
       \/ /\ ~condemned_inbound[fd] /\ outbound_map[fd] # None
          /\ LET o    == appendResponse(outbound_map[fd])
                 rest == Len(o.buf) - o.sent
             IN  \/ \E n \in 0 .. rest :
                      /\ sendResponse(fd, o, n)
                      /\ epollout_armed' \in IF n < rest THEN Arm(fd) ELSE {epollout_armed}
                      /\ writable_fds' = IF n = rest /\ o.staging = << >>
                                         THEN writable_fds \ {fd} ELSE writable_fds
                      /\ UNCHANGED flags
                 \/ /\ rest > 0 /\ SendFails(fd)
                    /\ Release(fd)
                    /\ UNCHANGED <<conns, condemned_inbound>>
    /\ UNCHANGED <<inbound_map, client_map, ready, rings, opc, ofd, routing,
                   frames, serial>>

\* epoll_wait(epoll_out_) reports some of the armed descriptors; the loop of
\* serveResponses starts over when none is left.
SendsEnd ==
    /\ opc = "send" /\ todo = {}
    /\ todo' \in SUBSET epollout_armed
    /\ opc' = IF todo' = {} THEN "scan" ELSE "events"
    /\ UNCHANGED <<inbound, outbound_map, flags, rings, ofd, routing, writable_fds,
                   epollout_armed>>

\* One event of epoll_out_: a hang-up condemns, anything else retries the send
\* and disarms EPOLLOUT when nothing is left.
OutEvent(fd) ==
    /\ opc = "events" /\ fd \in todo
    /\ todo' = todo \ {fd}
    /\ opc' = IF todo' = {} THEN "scan" ELSE "events"
    /\ \/ /\ condemned_inbound[fd] \/ outbound_map[fd] = None
          /\ UNCHANGED <<conns, outbound_map, flags, epollout_armed, writable_fds>>
       \/ /\ ~condemned_inbound[fd] /\ SendFails(fd)
          /\ Release(fd)
          /\ UNCHANGED <<conns, condemned_inbound>>
       \/ /\ ~condemned_inbound[fd] /\ outbound_map[fd] # None
          /\ LET o    == outbound_map[fd]
                 rest == Len(o.buf) - o.sent
             IN  \E n \in 0 .. rest :
                   /\ sendResponse(fd, o, n)
                   /\ epollout_armed' \in IF n = rest THEN {epollout_armed \ {fd}}
                                                       ELSE Arm(fd)
          /\ UNCHANGED <<flags, writable_fds>>
    /\ UNCHANGED <<inbound_map, client_map, ready, rings, ofd, routing,
                   frames, serial>>

serveResponses ==
    \/ \E fd \in Fds : ScanHit(fd) \/ BeginSend(fd) \/ OutEvent(fd)
    \/ ScanEnd \/ ScanReap
    \/ RouteFirst \/ RouteAhead \/ Deliver
    \/ DrainError \/ ErrorsEnd
    \/ SendsEnd

Next ==
    \/ \E c \in Clients : Connect(c)
    \/ \E k \in DOMAIN conns : HangUp(k) \/ \E f \in {"ok", "bad"} : SendFrame(k, f)
    \/ \E others \in SUBSET Clients : Answer(others)
    \/ handleRequests
    \/ serveResponses

\* Both threads are pinned to a core, never block and poll with a timeout of 0.
Spec == Init /\ [][Next]_vars /\ WF_vars(handleRequests) /\ WF_vars(serveResponses)

-----------------------------------------------------------------------------
(* Properties                                                              *)

\* Every variable of the two threads holds a value of its type, and every ring
\* and buffer stays within its capacity.
ServerTypeOK ==
    /\ conns \in Seq(Connection)
    /\ inbound_map \in [Fds -> InboundState \cup {None}]
    /\ outbound_map \in [Fds -> OutboundState \cup {None}]
    /\ client_map \in [Clients -> Fds \cup {0, -1}]
    /\ condemned_inbound \in [Fds -> BOOLEAN]
    /\ condemned_outbound \in [Fds -> BOOLEAN]
    /\ ready \subseteq (0 .. MaxFd) \X {"in", "hup", "now"}
    /\ in_ring \in Seq(Clients) /\ out_ring \in Seq(Msg)
    /\ \A q \in {in_ring, out_ring, error_channel} : Len(q) <= RingCap
    /\ \A fd \in Fds : outbound_map[fd] # None =>
           /\ Len(outbound_map[fd].staging) <= StageCap
           /\ Len(outbound_map[fd].buf) <= BufCap
    /\ opc \in {"scan", "reap", "route", "ahead", "deliver", "errors", "send", "events"}
    /\ ofd \in 1 .. MaxFd + 1
    /\ Len(routing) <= 2
    /\ writable_fds \subseteq Fds /\ epollout_armed \subseteq Fds /\ todo \subseteq Fds

\* The two-phase close: a descriptor is closed only when the outbound thread has
\* dropped every trace of it, and its flags are clear for the next user.
FreeSlotIsClean ==
    \A fd \in Fds \ OpenFds :
        /\ inbound_map[fd] = None /\ outbound_map[fd] = None
        /\ ~condemned_inbound[fd] /\ ~condemned_outbound[fd]
        /\ fd \notin writable_fds \cup epollout_armed

\* A response is never forgotten on a live connection: while one is staged or
\* part of it unsent, the descriptor is one that beginSends will visit, whether or
\* not EPOLLOUT could be armed; and every frame of the write buffer has its entry
\* in latency_batch_, whose own bound drops entries silently.
PendingIsTracked ==
    \A fd \in Fds : outbound_map[fd] # None =>
        /\ outbound_map[fd].latency = Len(outbound_map[fd].buf)
        /\ \/ condemned_inbound[fd]
           \/ outbound_map[fd].staging = << >> /\ outbound_map[fd].buf = << >>
           \/ fd \in writable_fds

\* A route is never stale at rest: while client_map_ names a descriptor for a
\* client, that descriptor is open and belongs to a connection of this client,
\* whatever was closed, refused or reused in between.
RouteIsLive ==
    \A c \in Clients : client_map[c] > 0 =>
        /\ inbound_map[client_map[c]] # None
        /\ conns[inbound_map[client_map[c]].conn].client = c

\* A connection receives the engine's responses in the order they were made and
\* none twice, across partial sends, the look-ahead and reuse of its descriptor.
DeliveredInOrder ==
    \A k \in DOMAIN conns : \A i, j \in DOMAIN conns[k].got :
        i < j /\ conns[k].got[i].n # 0 /\ conns[k].got[j].n # 0 =>
            conns[k].got[i].n < conns[k].got[j].n

\* Once a peer has hung up, the server closes the connection: neither thread
\* waits for the other for ever.
HungUpIsClosed ==
    \A k \in Conns :
        (k \in DOMAIN conns /\ ~conns[k].up /\ conns[k].fd \in Fds)
            ~> (k \in DOMAIN conns /\ conns[k].fd = -1)

\* server.cpp:206: the outbound thread never acts on a stale condemned flag for
\* a freshly accepted descriptor.
NoStaleCondemned ==
    opc = "reap" /\ outbound_map[ofd] # None => condemned_inbound[ofd]

\* README: each message of the outbound ring is routed to the descriptor of the
\* client it is for.
RoutesToOwner ==
    \A fd \in Fds : outbound_map[fd] # None =>
        \A i \in DOMAIN outbound_map[fd].staging :
            outbound_map[fd].staging[i].n > 0 =>
                outbound_map[fd].staging[i].to = conns[outbound_map[fd].conn].client
=============================================================================

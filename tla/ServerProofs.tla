---------------------------- MODULE ServerProofs ----------------------------
(***************************************************************************)
(* Proofs about Server, for every number of descriptors, connections and   *)
(* frames and every capacity: the two threads of the gateway, the          *)
(* two-phase close between them and the way of a response to its client.   *)
(***************************************************************************)
EXTENDS Server, SequenceTheorems, FiniteSetTheorems, WellFoundedInduction, TLAPS

-----------------------------------------------------------------------------
(* The inductive invariant                                                 *)

Report == [fd : Fds, to : Clients]
Routed == [msg : Msg, fd : Fds \cup {0, -1}]

\* What the threads carry from one step to the next, and where the outbound
\* thread is in its loop.
Carried ==
    /\ Len(conns) <= MaxConns
    /\ error_channel \in Seq(Report)
    /\ routing \in Seq(Routed)
    /\ serial \in Nat
    /\ opc = "reap" => ofd \in Fds
    /\ opc = "ahead" => Len(routing) = 1
    /\ opc = "deliver" => Len(routing) \in {1, 2}
    /\ opc \notin {"ahead", "deliver"} => routing = << >>

\* A slot of inbound_map_ and the connection that has its descriptor name each
\* other; an event in hand has a slot.
SlotsLinked ==
    /\ \A fd \in Fds : inbound_map[fd] # None =>
          /\ inbound_map[fd].conn \in DOMAIN conns
          /\ conns[inbound_map[fd].conn].fd = fd
    /\ \A k \in DOMAIN conns : conns[k].fd \in Fds =>
          inbound_map[conns[k].fd] # None /\ inbound_map[conns[k].fd].conn = k
    /\ \A e \in ready : e[1] # 0 => inbound_map[e[1]] # None

\* The two phases of a close: the outbound slot goes first, with every trace of
\* it, and a flag is set for a descriptor in use only.
TwoPhase ==
    /\ \A fd \in Fds : outbound_map[fd] # None => inbound_map[fd] # None
    /\ \A fd \in Fds : outbound_map[fd] = None => fd \notin writable_fds \cup epollout_armed
    /\ \A fd \in Fds : condemned_inbound[fd] => inbound_map[fd] # None
    /\ \A fd \in Fds : condemned_outbound[fd] =>
          inbound_map[fd] # None /\ outbound_map[fd] = None

\* A route names a slot that names the client back, so that the teardown of the
\* slot finds the route.
RoutesKnown ==
    \A c \in Clients : client_map[c] \in Fds =>
        /\ inbound_map[client_map[c]] # None
        /\ inbound_map[client_map[c]].client_id = c
        /\ conns[inbound_map[client_map[c]].conn].client = c

\* Response a was made before b; an error report has no number.
Precedes(a, b)   == a.n # 0 /\ b.n # 0 => a.n < b.n
Ordered(q)       == \A i, j \in DOMAIN q : i < j => Precedes(q[i], q[j])
AllPrecede(p, q) == \A i \in DOMAIN p, j \in DOMAIN q : Precedes(p[i], q[j])

\* The responses on their way to the slots, in the order they were made.
ComingInOrder ==
    /\ \A j \in DOMAIN out_ring : out_ring[j].n \in 1 .. serial
    /\ \A j \in DOMAIN routing : routing[j].msg.n \in 1 .. serial
    /\ \A i, j \in DOMAIN out_ring : i < j => out_ring[i].n < out_ring[j].n
    /\ \A i, j \in DOMAIN routing : i < j => routing[i].msg.n < routing[j].msg.n
    /\ \A i \in DOMAIN routing, j \in DOMAIN out_ring : routing[i].msg.n < out_ring[j].n

\* The responses of q were all made before any that is still to be delivered.
Behind(q) ==
    /\ \A i \in DOMAIN q : q[i].n <= serial
    /\ \A i \in DOMAIN q, j \in DOMAIN routing : q[i].n < routing[j].msg.n
    /\ \A i \in DOMAIN q, j \in DOMAIN out_ring : q[i].n < out_ring[j].n

\* A slot sends and stages in order what follows what its peer has got.
SlotInOrder(o, g) ==
    /\ Ordered(o.buf) /\ Ordered(o.staging) /\ AllPrecede(o.buf, o.staging)
    /\ AllPrecede(g, o.staging)
    /\ \A i \in DOMAIN g, j \in o.sent + 1 .. Len(o.buf) : Precedes(g[i], o.buf[j])
    /\ Behind(o.buf) /\ Behind(o.staging)

DeliveryInOrder ==
    /\ \A k \in DOMAIN conns :
          /\ conns[k].fd \notin Fds => conns[k].got = << >>
          /\ Ordered(conns[k].got) /\ Behind(conns[k].got)
    /\ \A k \in DOMAIN conns :
          conns[k].fd \in Fds /\ outbound_map[conns[k].fd] # None =>
              SlotInOrder(outbound_map[conns[k].fd], conns[k].got)

\* Nothing beyond the end of a write buffer is sent.
SentWithin ==
    \A fd \in Fds : outbound_map[fd] # None =>
        outbound_map[fd].sent <= Len(outbound_map[fd].buf)

ServerIInv ==
    /\ ServerTypeOK
    /\ Carried
    /\ SlotsLinked
    /\ TwoPhase
    /\ RoutesKnown
    /\ ComingInOrder
    /\ DeliveryInOrder
    /\ SentWithin
    /\ PendingIsTracked

-----------------------------------------------------------------------------
(* Facts the steps share                                                   *)

\* A set of numbers has a least one: what accept() and the kernel hand out next.
LEMMA LowestIn ==
    ASSUME NEW S \in SUBSET Nat, S # {}
    PROVE  Lowest(S) \in S
<1> DEFINE R == {ss \in Nat \X Nat : ss[1] < ss[2]}
<1>1. R = OpToRel(<, Nat)
  BY Zenon DEF OpToRel
<1>2. IsWellFoundedOn(R, Nat)
  BY <1>1, NatLessThanWellFounded, Zenon
<1>3. PICK x \in S : \A y \in S : ~(<<y, x>> \in R)
  BY <1>2, WFMin
<1>4. ASSUME NEW y \in S PROVE x <= y
  <2>1. <<y, x>> \in Nat \X Nat /\ <<y, x>>[1] = y /\ <<y, x>>[2] = x
    OBVIOUS
  <2>2. ~(y < x)
    BY <1>3, <2>1, Zenon
  <2> QED BY <2>2
<1> QED BY <1>4 DEF Lowest

\* One connection changes.
LEMMA ConnUpdate ==
    ASSUME NEW cs \in Seq(Connection), NEW k \in DOMAIN cs, NEW x \in Connection,
           NEW ds, ds = [cs EXCEPT ![k] = x]
    PROVE  /\ ds \in Seq(Connection) /\ Len(ds) = Len(cs) /\ DOMAIN ds = DOMAIN cs
           /\ ds[k] = x
           /\ \A l \in DOMAIN cs : l # k => ds[l] = cs[l]
<1>1. ds \in Seq(Connection) /\ Len(ds) = Len(cs)
  BY ExceptSeq
<1> QED BY <1>1

\* A push that nobody looks at.
LEMMA PushType ==
    ASSUME NEW S, NEW q \in Seq(S), NEW cap \in Nat, NEW m \in S, Len(q) <= cap,
           NEW r, r = Push(q, cap, m)
    PROVE  /\ r \in Seq(S) /\ Len(r) <= cap
           /\ r = q \/ r = Append(q, m)
<1>1. CASE Len(q) < cap
  BY <1>1 DEF Push
<1>2. CASE ~(Len(q) < cap)
  BY <1>2 DEF Push
<1> QED BY <1>1, <1>2

\* The capacities are positive numbers.
LEMMA Capacities ==
    /\ MaxFd \in Nat /\ MaxConns \in Nat /\ MaxFrames \in Nat
    /\ RingCap \in Nat \ {0} /\ StageCap \in Nat \ {0} /\ BufCap \in Nat \ {0}
BY ServerAssumption

\* A connection of a sequence of them, with its fields.
LEMMA ConnFields ==
    ASSUME NEW x \in Connection
    PROVE  /\ x.client \in Clients /\ x.fd \in Fds \cup {0, -1} /\ x.up \in BOOLEAN
           /\ x.input \in Seq({"ok", "bad"}) /\ x.got \in Seq(Msg)
BY DEF Connection

\* The connections keep what the two threads know of them.
SameConns ==
    /\ conns' \in Seq(Connection) /\ Len(conns') = Len(conns) /\ DOMAIN conns' = DOMAIN conns
    /\ \A k \in DOMAIN conns : /\ conns'[k].fd = conns[k].fd
                               /\ conns'[k].client = conns[k].client
                               /\ conns'[k].got = conns[k].got

\* Slots and routes, when a step leaves them alone.
LEMMA SlotsKept ==
    ASSUME ServerIInv, SameConns, UNCHANGED inbound_map,
           \A e \in ready' : \E d \in ready : d[1] = e[1]
    PROVE  SlotsLinked' /\ (UNCHANGED client_map => RoutesKnown')
<1>1. SlotsLinked'
  BY DEF ServerIInv, SameConns, SlotsLinked
<1>2. ASSUME UNCHANGED client_map PROVE RoutesKnown'
  BY <1>2 DEF ServerIInv, SameConns, SlotsLinked, RoutesKnown
<1> QED BY <1>1, <1>2

\* The order of delivery, when a step leaves the way of the responses alone.
LEMMA OrderKept ==
    ASSUME ServerIInv, SameConns, UNCHANGED <<outbound_map, routing, out_ring, serial>>
    PROVE  ComingInOrder' /\ DeliveryInOrder' /\ SentWithin'
<1>1. ComingInOrder'
  BY DEF ServerIInv, ComingInOrder
<1>2. \A q : Behind(q) => Behind(q)'
  BY DEF Behind
<1>3. DeliveryInOrder'
  BY <1>2 DEF ServerIInv, SameConns, DeliveryInOrder, SlotInOrder
<1>4. SentWithin'
  BY DEF ServerIInv, SentWithin
<1> QED BY <1>1, <1>3, <1>4

-----------------------------------------------------------------------------
(* Steps that touch a few variables only                                   *)

\* Connections that do not change at all.
LEMMA ConnsUnchanged ==
    ASSUME ServerIInv, UNCHANGED conns
    PROVE  SameConns
BY DEF ServerIInv, ServerTypeOK, SameConns

\* Events are taken up and done with.
LEMMA ReadyInv ==
    ASSUME ServerIInv,
           \/ \E fd \in 0 .. MaxFd : TakeEvent(fd)
           \/ RegisterEnd
           \/ \E fd \in Fds : ReadEnd(fd)
    PROVE  ServerIInv'
<1>1. /\ UNCHANGED <<conns, inbound_map, outbound_map, client_map, condemned_inbound,
                     condemned_outbound, in_ring, out_ring, error_channel,
                     opc, ofd, routing, writable_fds, epollout_armed, todo, serial>>
      /\ \A e \in ready' : e \in ready \/ \E fd \in 0 .. MaxFd : e = <<fd, "now">> /\ <<fd, "in">> \in ready
  BY DEF TakeEvent, RegisterEnd, ReadEnd, flags, rings, outVars
<1>2. /\ ready' \subseteq (0 .. MaxFd) \X {"in", "hup", "now"}
      /\ \A e \in ready' : \E d \in ready : d[1] = e[1]
  <2>1. \A fd \in 0 .. MaxFd : /\ <<fd, "now">> \in (0 .. MaxFd) \X {"in", "hup", "now"}
                               /\ <<fd, "now">>[1] = <<fd, "in">>[1]
    OBVIOUS
  <2>2. ready \subseteq (0 .. MaxFd) \X {"in", "hup", "now"}
    BY DEF ServerIInv, ServerTypeOK
  <2>3. ASSUME NEW e \in ready'
        PROVE  e \in (0 .. MaxFd) \X {"in", "hup", "now"} /\ \E d \in ready : d[1] = e[1]
    <3>1. CASE e \in ready
      BY <2>2, <3>1
    <3>2. CASE \E fd \in 0 .. MaxFd : e = <<fd, "now">> /\ <<fd, "in">> \in ready
      <4>1. PICK fd \in 0 .. MaxFd : e = <<fd, "now">> /\ <<fd, "in">> \in ready
        BY <3>2
      <4> QED BY <2>1, <4>1, Zenon
    <3> QED BY <1>1, <2>3, <3>1, <3>2
  <2> QED BY <2>3
<1>3. SameConns
  BY <1>1, ConnsUnchanged
<1>4. SlotsLinked' /\ RoutesKnown' /\ ComingInOrder' /\ DeliveryInOrder' /\ SentWithin'
  BY <1>1, <1>2, <1>3, SlotsKept, OrderKept
<1>5. Carried' /\ TwoPhase' /\ PendingIsTracked'
  BY <1>1 DEF ServerIInv, Carried, TwoPhase, PendingIsTracked
<1>6. ServerTypeOK'
  BY <1>1, <1>2 DEF ServerIInv, ServerTypeOK
<1> QED BY <1>4, <1>5, <1>6 DEF ServerIInv

\* A hang-up, or a failed recv(), condemns the descriptor.
LEMMA CondemnInv ==
    ASSUME ServerIInv, NEW fd \in Fds, HandleHangUp(fd) \/ ReadFails(fd)
    PROVE  ServerIInv'
<1>1. /\ UNCHANGED <<conns, inbound_map, outbound_map, client_map,
                     condemned_outbound, in_ring, out_ring, error_channel,
                     opc, ofd, routing, writable_fds, epollout_armed, todo, serial>>
      /\ ready' \subseteq ready
      /\ condemned_inbound' = [condemned_inbound EXCEPT ![fd] = TRUE]
      /\ \E e \in ready : e[1] = fd
  BY DEF HandleHangUp, ReadFails, rings, outVars
<1>2. fd # 0 /\ inbound_map[fd] # None
  BY <1>1, Capacities DEF ServerIInv, SlotsLinked, Fds
<1>3. SameConns
  BY <1>1, ConnsUnchanged
<1>4. SlotsLinked' /\ RoutesKnown' /\ ComingInOrder' /\ DeliveryInOrder' /\ SentWithin'
  BY <1>1, <1>3, SlotsKept, OrderKept
<1>5. condemned_inbound' \in [Fds -> BOOLEAN]
  BY <1>1 DEF ServerIInv, ServerTypeOK
<1>6. /\ condemned_inbound'[fd]
      /\ \A g \in Fds : g # fd => (condemned_inbound'[g] <=> condemned_inbound[g])
  BY <1>1, Zenon DEF ServerIInv, ServerTypeOK
<1>7. TwoPhase' /\ PendingIsTracked' /\ Carried'
  BY <1>1, <1>2, <1>6 DEF ServerIInv, Carried, TwoPhase, PendingIsTracked
<1>8. ServerTypeOK'
  BY <1>1, <1>5 DEF ServerIInv, ServerTypeOK
<1> QED BY <1>4, <1>7, <1>8 DEF ServerIInv

\* The outbound thread moves on in its loop.
LEMMA LoopInv ==
    ASSUME ServerIInv,
           (\E fd \in Fds : ScanHit(fd)) \/ ScanEnd \/ ErrorsEnd \/ SendsEnd
    PROVE  ServerIInv'
<1>1. /\ UNCHANGED <<conns, inbound_map, outbound_map, client_map, condemned_inbound,
                     condemned_outbound, ready, in_ring, out_ring, error_channel,
                     routing, writable_fds, epollout_armed, serial>>
      /\ opc \notin {"ahead", "deliver"} /\ opc' \in {"scan", "reap", "route", "send", "events"}
      /\ ofd' \in Fds \/ (opc' # "reap" /\ ofd' \in {ofd, 1})
      /\ todo' = todo \/ todo' \subseteq writable_fds \cup epollout_armed
  <2>1. CASE \E fd \in Fds : ScanHit(fd)
    BY <2>1 DEF ScanHit, inbound, flags, rings
  <2>2. CASE ScanEnd
    BY <2>2 DEF ScanEnd, inbound, flags, rings
  <2>3. CASE ErrorsEnd
    BY <2>3 DEF ErrorsEnd, inbound, flags, rings
  <2>4. CASE SendsEnd
    BY <2>4 DEF SendsEnd, inbound, flags, rings
  <2> QED BY <2>1, <2>2, <2>3, <2>4
<1>2. SameConns
  BY <1>1, ConnsUnchanged
<1>3. SlotsLinked' /\ RoutesKnown' /\ ComingInOrder' /\ DeliveryInOrder' /\ SentWithin'
  BY <1>1, <1>2, SlotsKept, OrderKept
<1>4. TwoPhase' /\ PendingIsTracked'
  BY <1>1 DEF ServerIInv, TwoPhase, PendingIsTracked
<1>5. ofd' \in 1 .. MaxFd + 1 /\ todo' \subseteq Fds
  <2>1. todo' \subseteq Fds
    BY <1>1 DEF ServerIInv, ServerTypeOK
  <2>2. ofd' \in 1 .. MaxFd + 1
    BY <1>1, Capacities DEF ServerIInv, ServerTypeOK, Fds
  <2> QED BY <2>1, <2>2
<1>6. Carried'
  BY <1>1 DEF ServerIInv, Carried
<1>7. ServerTypeOK'
  BY <1>1, <1>5 DEF ServerIInv, ServerTypeOK
<1> QED BY <1>3, <1>4, <1>6, <1>7 DEF ServerIInv

\* A peer sends or hangs up.
LEMMA PeerInv ==
    ASSUME ServerIInv, NEW k \in DOMAIN conns,
           HangUp(k) \/ \E f \in {"ok", "bad"} : SendFrame(k, f)
    PROVE  ServerIInv'
<1>1. /\ UNCHANGED <<inbound_map, outbound_map, client_map, condemned_inbound,
                     condemned_outbound, ready, in_ring, out_ring, error_channel,
                     opc, ofd, routing, writable_fds, epollout_armed, todo, serial>>
  BY DEF HangUp, SendFrame, flags, rings, outVars
<1>2. conns \in Seq(Connection) /\ conns[k] \in Connection
  BY DEF ServerIInv, ServerTypeOK
<1>3. PICK x \in Connection : /\ conns' = [conns EXCEPT ![k] = x]
                              /\ x.fd = conns[k].fd /\ x.client = conns[k].client
                              /\ x.got = conns[k].got
  <2>1. CASE HangUp(k)
    <3>1. conns' = [conns EXCEPT ![k] = [conns[k] EXCEPT !.up = FALSE]]
      BY <2>1 DEF HangUp
    <3>2. PICK x : x = [conns[k] EXCEPT !.up = FALSE]
      OBVIOUS
    <3>3. /\ x \in Connection /\ x.fd = conns[k].fd /\ x.client = conns[k].client
          /\ x.got = conns[k].got
      BY <1>2, <3>2 DEF Connection
    <3> QED BY <3>1, <3>2, <3>3
  <2>2. ASSUME NEW f \in {"ok", "bad"}, SendFrame(k, f)
        PROVE  conns' = [conns EXCEPT ![k] = [conns[k] EXCEPT !.input = Append(conns[k].input, f)]]
               /\ [conns[k] EXCEPT !.input = Append(conns[k].input, f)] \in Connection
    <3>1. Append(conns[k].input, f) \in Seq({"ok", "bad"})
      BY <1>2 DEF Connection
    <3> QED BY <1>2, <2>2, <3>1 DEF Connection, SendFrame
  <2> QED BY <1>2, <2>1, <2>2 DEF Connection
<1>4. SameConns
  BY <1>2, <1>3, ConnUpdate DEF SameConns
<1>5. SlotsLinked' /\ RoutesKnown' /\ ComingInOrder' /\ DeliveryInOrder' /\ SentWithin'
  BY <1>1, <1>4, SlotsKept, OrderKept
<1>6. TwoPhase' /\ PendingIsTracked' /\ Carried'
  BY <1>1, <1>4 DEF ServerIInv, TwoPhase, PendingIsTracked, Carried, SameConns
<1>7. ServerTypeOK'
  BY <1>1, <1>4 DEF ServerIInv, ServerTypeOK, SameConns
<1> QED BY <1>5, <1>6, <1>7 DEF ServerIInv

\* A new peer is in the accept queue: it has no slot and has received nothing.
LEMMA ConnectInv ==
    ASSUME ServerIInv, NEW c \in Clients, Connect(c)
    PROVE  ServerIInv'
<1>1. /\ UNCHANGED <<inbound_map, outbound_map, client_map, condemned_inbound,
                     condemned_outbound, ready, in_ring, out_ring, error_channel,
                     opc, ofd, routing, writable_fds, epollout_armed, todo, serial>>
      /\ Len(conns) < MaxConns
  BY DEF Connect, flags, rings, outVars
<1>2. PICK x : x = [client |-> c, fd |-> 0, up |-> TRUE, input |-> << >>, got |-> << >>]
  OBVIOUS
<1>3. conns' = Append(conns, x)
  BY <1>2 DEF Connect
<1>4. x \in Connection /\ x.fd = 0 /\ x.fd \notin Fds /\ x.got = << >>
  BY <1>2, Capacities DEF Connection, Fds
<1>5. /\ conns \in Seq(Connection) /\ conns' \in Seq(Connection)
      /\ Len(conns') = Len(conns) + 1 /\ Len(conns) \in Nat
      /\ DOMAIN conns = 1 .. Len(conns) /\ DOMAIN conns' = 1 .. Len(conns')
      /\ \A k \in DOMAIN conns : conns'[k] = conns[k]
      /\ conns'[Len(conns')] = x
  BY <1>3, <1>4 DEF ServerIInv, ServerTypeOK
<1>6. \A k \in DOMAIN conns' : k \in DOMAIN conns \/ k = Len(conns')
  BY <1>5
<1>7. \A k \in DOMAIN conns : k \in DOMAIN conns'
  BY <1>5
<1>8. SlotsLinked' /\ RoutesKnown'
  BY <1>1, <1>4, <1>5, <1>6, <1>7 DEF ServerIInv, SlotsLinked, RoutesKnown
<1>9. ComingInOrder' /\ TwoPhase' /\ SentWithin' /\ PendingIsTracked'
  BY <1>1 DEF ServerIInv, ComingInOrder, TwoPhase, SentWithin, PendingIsTracked
<1>10. DeliveryInOrder'
  <2>1. \A q : Behind(q) => Behind(q)'
    BY <1>1 DEF Behind
  <2>2. Ordered(<< >>) /\ Behind(<< >>)
    BY DEF Ordered, Behind
  <2>3. \A k \in DOMAIN conns' :
           /\ conns'[k].fd \notin Fds => conns'[k].got = << >>
           /\ Ordered(conns'[k].got) /\ Behind(conns'[k].got)
    BY <1>4, <1>5, <1>6, <2>2 DEF ServerIInv, DeliveryInOrder
  <2>4. \A k \in DOMAIN conns' : Behind(conns[k].got)'
    BY <1>1, <2>3 DEF Behind
  <2>5. ASSUME NEW k \in DOMAIN conns', conns'[k].fd \in Fds, outbound_map'[conns'[k].fd] # None
        PROVE  SlotInOrder(outbound_map[conns[k].fd], conns[k].got)'
    <3>1. k \in DOMAIN conns /\ conns'[k] = conns[k]
      BY <1>4, <1>5, <1>6, <2>5
    <3>2. SlotInOrder(outbound_map[conns[k].fd], conns[k].got)
      BY <1>1, <2>5, <3>1 DEF ServerIInv, DeliveryInOrder
    <3> QED BY <1>1, <2>1, <3>1, <3>2 DEF SlotInOrder
  <2> QED BY <2>3, <2>4, <2>5 DEF DeliveryInOrder
<1>11. Len(conns') <= MaxConns
  BY <1>1, <1>5, Capacities
<1>12. Carried'
  BY <1>1, <1>11 DEF ServerIInv, Carried
<1>13. ServerTypeOK'
  BY <1>1, <1>5 DEF ServerIInv, ServerTypeOK
<1> QED BY <1>8, <1>9, <1>10, <1>12, <1>13 DEF ServerIInv

\* What accept() takes from the queue, and the descriptor the kernel gives it.
LEMMA Accepted ==
    ASSUME ServerIInv, Backlog # {}, Fds \ OpenFds # {}
    PROVE  /\ Lowest(Backlog) \in DOMAIN conns /\ conns[Lowest(Backlog)].fd = 0
           /\ Lowest(Fds \ OpenFds) \in Fds
           /\ \A k \in DOMAIN conns : conns[k].fd # Lowest(Fds \ OpenFds)
<1>1. Backlog \in SUBSET Nat /\ Fds \ OpenFds \in SUBSET Nat
  BY Capacities DEF ServerIInv, ServerTypeOK, Backlog, Fds
<1>2. Lowest(Backlog) \in Backlog /\ Lowest(Fds \ OpenFds) \in Fds \ OpenFds
  BY <1>1, LowestIn
<1>3. Lowest(Backlog) \in DOMAIN conns /\ conns[Lowest(Backlog)].fd = 0
  BY <1>2 DEF Backlog
<1>4. PICK fd \in Fds \ OpenFds : fd = Lowest(Fds \ OpenFds)
  BY <1>2
<1>5. \A k \in DOMAIN conns : conns[k].fd # fd
  BY <1>4 DEF OpenFds
<1> QED BY <1>3, <1>4, <1>5

\* A descriptor that nobody has leaves no trace.
LEMMA FreeIsClean ==
    ASSUME ServerIInv, NEW fd \in Fds, \A k \in DOMAIN conns : conns[k].fd # fd
    PROVE  /\ inbound_map[fd] = None /\ outbound_map[fd] = None
           /\ ~condemned_inbound[fd] /\ ~condemned_outbound[fd]
           /\ fd \notin writable_fds \cup epollout_armed
BY DEF ServerIInv, SlotsLinked, TwoPhase

\* A connection that cannot be set up is closed again.
LEMMA RegisterFailsInv ==
    ASSUME ServerIInv, NEW goesOn \in BOOLEAN, RegisterFails(goesOn)
    PROVE  ServerIInv'
<1>1. /\ UNCHANGED <<inbound_map, outbound_map, client_map, condemned_inbound,
                     condemned_outbound, in_ring, out_ring, error_channel,
                     opc, ofd, routing, writable_fds, epollout_armed, todo, serial>>
      /\ ready' \subseteq ready
  BY DEF RegisterFails, flags, rings, outVars
<1>2. PICK k : k = Lowest(Backlog)
  OBVIOUS
<1>3. k \in DOMAIN conns /\ conns[k].fd = 0 /\ 0 \notin Fds /\ -1 \notin Fds
  BY <1>2, Accepted, Capacities DEF RegisterFails, Fds
<1>4. conns \in Seq(Connection) /\ conns[k] \in Connection /\ conns[k].got = << >>
  BY <1>3 DEF ServerIInv, ServerTypeOK, DeliveryInOrder
<1>5. PICK x : x = [conns[k] EXCEPT !.fd = -1, !.input = << >>]
  OBVIOUS
<1>6. x \in Connection /\ x.fd = -1 /\ x.got = << >> /\ x.client = conns[k].client
  <2>1. << >> \in Seq({"ok", "bad"}) /\ -1 \in Fds \cup {0, -1}
    OBVIOUS
  <2>2. x.fd = -1 /\ x.got = << >> /\ x.client = conns[k].client
    BY <1>4, <1>5 DEF Connection
  <2>3. x \in Connection
    <3>1. x = [client |-> conns[k].client, fd |-> -1, up |-> conns[k].up,
               input |-> << >>, got |-> conns[k].got]
      BY <1>4, <1>5 DEF Connection
    <3> QED BY <1>4, <2>1, <3>1, ConnFields DEF Connection
  <2> QED BY <2>2, <2>3
<1>7. conns' = [conns EXCEPT ![k] = x]
  BY <1>2, <1>3, <1>4, <1>5 DEF RegisterFails
<1>8. /\ conns' \in Seq(Connection) /\ Len(conns') = Len(conns) /\ DOMAIN conns' = DOMAIN conns
      /\ conns'[k] = x /\ \A l \in DOMAIN conns : l # k => conns'[l] = conns[l]
  BY <1>3, <1>4, <1>6, <1>7, ConnUpdate
<1>9. SlotsLinked' /\ RoutesKnown'
  BY <1>1, <1>3, <1>6, <1>8 DEF ServerIInv, SlotsLinked, RoutesKnown
<1>10. ComingInOrder' /\ TwoPhase' /\ SentWithin' /\ PendingIsTracked'
  BY <1>1 DEF ServerIInv, ComingInOrder, TwoPhase, SentWithin, PendingIsTracked
<1>11. DeliveryInOrder'
  <2>1. \A q : Behind(q) => Behind(q)'
    BY <1>1 DEF Behind
  <2>2. \A l \in DOMAIN conns : conns'[l].got = conns[l].got
    BY <1>4, <1>6, <1>8
  <2>3. \A l \in DOMAIN conns : conns'[l].fd \in Fds => conns'[l].fd = conns[l].fd
    BY <1>3, <1>6, <1>8
  <2>4. \A l \in DOMAIN conns : conns'[l].fd \notin Fds => conns[l].fd \notin Fds
    BY <1>3, <1>8
  <2> QED BY <1>1, <1>8, <2>1, <2>2, <2>3, <2>4 DEF ServerIInv, DeliveryInOrder, SlotInOrder
<1>12. Carried'
  BY <1>1, <1>8 DEF ServerIInv, Carried
<1>13. ServerTypeOK'
  BY <1>1, <1>8 DEF ServerIInv, ServerTypeOK
<1> QED BY <1>9, <1>10, <1>11, <1>12, <1>13 DEF ServerIInv

\* A connection gets a descriptor that nobody has, and two fresh slots.
LEMMA RegisterInv ==
    ASSUME ServerIInv, Register
    PROVE  ServerIInv'
<1>1. PICK k, fd : k = Lowest(Backlog) /\ fd = Lowest(Fds \ OpenFds)
  OBVIOUS
<1>2. PICK in, o : /\ in = [conn |-> k, client_id |-> None]
                   /\ o = [conn |-> k, staging |-> << >>, buf |-> << >>, sent |-> 0, latency |-> 0]
  OBVIOUS
<1>3. /\ UNCHANGED <<client_map, ready, in_ring, out_ring, error_channel,
                     opc, ofd, routing, writable_fds, epollout_armed, todo, serial>>
      /\ Backlog # {} /\ Fds \ OpenFds # {}
      /\ conns' = [conns EXCEPT ![k].fd = fd]
      /\ condemned_inbound' = [condemned_inbound EXCEPT ![fd] = FALSE]
      /\ condemned_outbound' = [condemned_outbound EXCEPT ![fd] = FALSE]
      /\ outbound_map' = [outbound_map EXCEPT ![fd] = o]
      /\ inbound_map' = [inbound_map EXCEPT ![fd] = in]
  BY <1>1, <1>2 DEF Register, rings, outVars
<1>4. /\ k \in DOMAIN conns /\ conns[k].fd = 0 /\ 0 \notin Fds /\ fd \in Fds
      /\ \A l \in DOMAIN conns : conns[l].fd # fd
  <2>1. 0 \notin Fds
    BY Capacities DEF Fds
  <2> QED BY <1>1, <1>3, <2>1, Accepted
<1>5. /\ inbound_map[fd] = None /\ outbound_map[fd] = None
      /\ ~condemned_inbound[fd] /\ ~condemned_outbound[fd]
      /\ fd \notin writable_fds \cup epollout_armed
  BY <1>4, FreeIsClean
<1>6. /\ conns \in Seq(Connection) /\ conns[k] \in Connection /\ conns[k].got = << >>
      /\ k \in Conns
  <2>1. k \in 1 .. Len(conns) /\ Len(conns) <= MaxConns /\ Len(conns) \in Nat
    BY <1>4 DEF ServerIInv, ServerTypeOK, Carried
  <2> QED BY <1>4, <2>1, Capacities DEF ServerIInv, ServerTypeOK, DeliveryInOrder, Conns
<1>7. PICK x : x = [conns[k] EXCEPT !.fd = fd]
  OBVIOUS
<1>8. /\ x \in Connection /\ x.fd = fd /\ x.got = << >> /\ x.client = conns[k].client
      /\ in \in InboundState /\ in # None /\ in.conn = k
      /\ o \in OutboundState /\ o # None
      /\ o.staging = << >> /\ o.buf = << >> /\ o.sent = 0 /\ o.latency = 0
  <2>1. x \in Connection /\ x.fd = fd /\ x.got = << >> /\ x.client = conns[k].client
    BY <1>4, <1>6, <1>7 DEF Connection
  <2>2. in \in InboundState /\ in.conn = k
    BY <1>2, <1>6 DEF InboundState
  <2>3. /\ o \in OutboundState
        /\ o.staging = << >> /\ o.buf = << >> /\ o.sent = 0 /\ o.latency = 0
    <3>1. << >> \in Seq(Msg)
      OBVIOUS
    <3> QED BY <1>2, <1>6, <3>1 DEF OutboundState
  <2> QED BY <2>1, <2>2, <2>3, NoneAssumption
<1>9. /\ conns' \in Seq(Connection) /\ Len(conns') = Len(conns) /\ DOMAIN conns' = DOMAIN conns
      /\ conns'[k] = x /\ \A l \in DOMAIN conns : l # k => conns'[l] = conns[l]
  BY <1>3, <1>4, <1>6, <1>7, <1>8, ConnUpdate
<1>10. /\ inbound_map' \in [Fds -> InboundState \cup {None}] /\ inbound_map'[fd] = in
       /\ \A g \in Fds : g # fd => inbound_map'[g] = inbound_map[g]
       /\ outbound_map' \in [Fds -> OutboundState \cup {None}] /\ outbound_map'[fd] = o
       /\ \A g \in Fds : g # fd => outbound_map'[g] = outbound_map[g]
  BY <1>3, <1>4, <1>8 DEF ServerIInv, ServerTypeOK
<1>11. condemned_inbound' = condemned_inbound /\ condemned_outbound' = condemned_outbound
  BY <1>3, <1>5, Zenon DEF ServerIInv, ServerTypeOK
<1>12. SlotsLinked'
  <2>1. ASSUME NEW g \in Fds, inbound_map'[g] # None
        PROVE  inbound_map'[g].conn \in DOMAIN conns' /\ conns'[inbound_map'[g].conn].fd = g
    BY <1>4, <1>8, <1>9, <1>10, <2>1 DEF ServerIInv, SlotsLinked
  <2>2. ASSUME NEW l \in DOMAIN conns', conns'[l].fd \in Fds
        PROVE  inbound_map'[conns'[l].fd] # None /\ inbound_map'[conns'[l].fd].conn = l
    BY <1>4, <1>8, <1>9, <1>10, <2>2 DEF ServerIInv, SlotsLinked
  <2>3. ASSUME NEW e \in ready', e[1] # 0 PROVE inbound_map'[e[1]] # None
    <3>1. e[1] \in Fds
      BY <1>3, <2>3, Capacities DEF ServerIInv, ServerTypeOK, Fds
    <3> QED BY <1>3, <1>8, <1>10, <2>3, <3>1 DEF ServerIInv, SlotsLinked
  <2> QED BY <2>1, <2>2, <2>3 DEF SlotsLinked
<1>13. RoutesKnown'
  <2>1. SUFFICES ASSUME NEW c \in Clients, client_map[c] \in Fds
                 PROVE  /\ inbound_map'[client_map[c]] # None
                        /\ inbound_map'[client_map[c]].client_id = c
                        /\ conns'[inbound_map'[client_map[c]].conn].client = c
    BY <1>3 DEF RoutesKnown
  <2>2. client_map[c] # fd /\ inbound_map'[client_map[c]] = inbound_map[client_map[c]]
    BY <1>5, <1>10, <2>1 DEF ServerIInv, RoutesKnown
  <2>3. \A l \in DOMAIN conns : conns'[l].client = conns[l].client
    BY <1>8, <1>9
  <2> QED BY <2>1, <2>2, <2>3 DEF ServerIInv, RoutesKnown, SlotsLinked
<1>14. ComingInOrder'
  BY <1>3 DEF ServerIInv, ComingInOrder
<1>15. TwoPhase' /\ SentWithin' /\ PendingIsTracked'
  BY <1>3, <1>5, <1>8, <1>10, <1>11 DEF ServerIInv, TwoPhase, SentWithin, PendingIsTracked
<1>16. DeliveryInOrder'
  <2>1. \A q : Behind(q) => Behind(q)'
    BY <1>3 DEF Behind
  <2>2. \A l \in DOMAIN conns : conns'[l].got = conns[l].got
    BY <1>6, <1>8, <1>9
  <2>3. \A l \in DOMAIN conns : l # k => conns'[l].fd = conns[l].fd /\ conns[l].fd # fd
    BY <1>4, <1>9
  <2>4. ASSUME NEW l \in DOMAIN conns
        PROVE  /\ conns'[l].fd \notin Fds => conns'[l].got = << >>
               /\ Ordered(conns'[l].got) /\ Behind(conns[l].got)'
    <3>1. Behind(conns[l].got)
      BY DEF ServerIInv, DeliveryInOrder
    <3>2. Behind(conns[l].got)'
      BY <1>3, <2>2, <3>1 DEF Behind
    <3> QED BY <1>4, <1>6, <2>2, <2>3, <3>2 DEF ServerIInv, DeliveryInOrder
  <2>5. ASSUME NEW l \in DOMAIN conns, conns'[l].fd \in Fds, outbound_map'[conns'[l].fd] # None
        PROVE  SlotInOrder(outbound_map[conns[l].fd], conns[l].got)'
    <3>1. CASE l = k
      <4>1. outbound_map'[conns'[l].fd] = o /\ conns'[l].got = << >>
        BY <1>8, <1>9, <1>10, <3>1
      <4>2. Behind(<< >>)'
        BY DEF Behind
      <4> QED BY <1>8, <4>1, <4>2 DEF SlotInOrder, Ordered, AllPrecede
    <3>2. CASE l # k
      <4>1. /\ conns'[l].fd = conns[l].fd /\ conns'[l].got = conns[l].got
            /\ outbound_map'[conns[l].fd] = outbound_map[conns[l].fd]
        BY <1>10, <2>2, <2>3, <2>5, <3>2
      <4>2. SlotInOrder(outbound_map[conns[l].fd], conns[l].got)
        BY <2>5, <4>1 DEF ServerIInv, DeliveryInOrder
      <4> QED BY <2>1, <4>1, <4>2 DEF SlotInOrder
    <3> QED BY <3>1, <3>2
  <2> QED BY <1>9, <2>4, <2>5 DEF DeliveryInOrder
<1>17. Carried'
  BY <1>3, <1>9 DEF ServerIInv, Carried
<1>18. ServerTypeOK'
  <2>1. \A g \in Fds : outbound_map'[g] # None =>
           Len(outbound_map'[g].staging) <= StageCap /\ Len(outbound_map'[g].buf) <= BufCap
    BY <1>8, <1>10, Capacities DEF ServerIInv, ServerTypeOK
  <2> QED BY <1>3, <1>9, <1>10, <1>11, <2>1 DEF ServerIInv, ServerTypeOK
<1> QED BY <1>12, <1>13, <1>14, <1>15, <1>16, <1>17, <1>18 DEF ServerIInv

\* handleDisconnectsInbound and epoll_wait: what both threads are done with is
\* closed, and every event is of a descriptor that has a slot.
LEMMA InboundTurnInv ==
    ASSUME ServerIInv, InboundTurn
    PROVE  ServerIInv'
<1>1. PICK R : R = Reaped
  OBVIOUS
<1>2. PICK cs : cs = [k \in DOMAIN conns |->
                        IF conns[k].fd \in R
                        THEN [conns[k] EXCEPT !.fd = -1, !.input = << >>, !.got = << >>]
                        ELSE conns[k]]
  OBVIOUS
<1>3. /\ UNCHANGED <<outbound_map, in_ring, out_ring, error_channel, opc, ofd, routing,
                     writable_fds, epollout_armed, todo, serial>>
      /\ client_map' = RoutesAfter(R)
      /\ conns' = cs
      /\ inbound_map' = [fd \in Fds |-> IF fd \in R THEN None ELSE inbound_map[fd]]
      /\ condemned_inbound' = [fd \in Fds |-> condemned_inbound[fd] /\ fd \notin R]
      /\ condemned_outbound' = [fd \in Fds |-> condemned_outbound[fd] /\ fd \notin R]
      /\ ready' = EventsIn(Polled \ R, cs)
  BY <1>1, <1>2 DEF InboundTurn, rings, outVars
<1>4. /\ R \subseteq Fds
      /\ \A fd \in R : inbound_map[fd] # None /\ outbound_map[fd] = None
  BY <1>1 DEF Reaped, ServerIInv, TwoPhase
<1>5. -1 \notin Fds /\ 0 \notin Fds
  BY Capacities DEF Fds
<1>6. /\ conns \in Seq(Connection) /\ Len(conns) \in Nat /\ DOMAIN conns = 1 .. Len(conns)
      /\ \A k \in DOMAIN conns : conns[k] \in Connection
  BY DEF ServerIInv, ServerTypeOK
<1>7. ASSUME NEW k \in DOMAIN conns
      PROVE  /\ cs[k] \in Connection /\ cs[k].client = conns[k].client
             /\ conns[k].fd \in R => cs[k].fd = -1 /\ cs[k].got = << >>
             /\ conns[k].fd \notin R => cs[k] = conns[k]
  <2>1. CASE conns[k].fd \in R
    <3>1. PICK x : x = [conns[k] EXCEPT !.fd = -1, !.input = << >>, !.got = << >>]
      OBVIOUS
    <3>2. x = [client |-> conns[k].client, fd |-> -1, up |-> conns[k].up,
               input |-> << >>, got |-> << >>]
      BY <1>6, <3>1 DEF Connection
    <3>3. << >> \in Seq({"ok", "bad"}) /\ << >> \in Seq(Msg) /\ -1 \in Fds \cup {0, -1}
      OBVIOUS
    <3>4. x \in Connection
      BY <1>6, <3>2, <3>3, ConnFields DEF Connection
    <3>5. cs[k] = x
      BY <1>2, <2>1, <3>1
    <3> QED BY <2>1, <3>2, <3>4, <3>5
  <2>2. CASE conns[k].fd \notin R
    BY <1>2, <1>6, <2>2
  <2> QED BY <2>1, <2>2
<1>8. cs \in Seq(Connection) /\ Len(cs) = Len(conns) /\ DOMAIN cs = DOMAIN conns
  <2>1. DOMAIN cs = 1 .. Len(conns)
    BY <1>2, <1>6
  <2>2. cs \in [1 .. Len(conns) -> Connection]
    BY <1>2, <1>6, <1>7
  <2> QED BY <1>6, <2>1, <2>2
<1>9. /\ inbound_map' \in [Fds -> InboundState \cup {None}]
      /\ \A fd \in Fds : inbound_map'[fd] = IF fd \in R THEN None ELSE inbound_map[fd]
  BY <1>3 DEF ServerIInv, ServerTypeOK
<1>10. /\ condemned_inbound' \in [Fds -> BOOLEAN] /\ condemned_outbound' \in [Fds -> BOOLEAN]
       /\ \A fd \in Fds : condemned_inbound'[fd] <=> condemned_inbound[fd] /\ fd \notin R
       /\ \A fd \in Fds : condemned_outbound'[fd] <=> condemned_outbound[fd] /\ fd \notin R
  BY <1>3, Zenon
<1>11. /\ client_map' \in [Clients -> Fds \cup {0, -1}]
       /\ \A c \in Clients : client_map'[c] \in Fds =>
             client_map'[c] = client_map[c] /\ client_map[c] \notin R
  <2>1. \A c \in Clients : client_map'[c] =
           IF \E fd \in R : inbound_map[fd].client_id = c THEN -1 ELSE client_map[c]
    BY <1>3 DEF RoutesAfter
  <2>2. client_map' \in [Clients -> Fds \cup {0, -1}]
    BY <1>3 DEF RoutesAfter, ServerIInv, ServerTypeOK
  <2>3. ASSUME NEW c \in Clients, client_map'[c] \in Fds
        PROVE  client_map'[c] = client_map[c] /\ client_map[c] \notin R
    <3>1. client_map'[c] = client_map[c] /\ ~ \E fd \in R : inbound_map[fd].client_id = c
      BY <1>5, <2>1, <2>3
    <3> QED BY <2>3, <3>1 DEF ServerIInv, RoutesKnown
  <2> QED BY <2>2, <2>3
<1>12. ASSUME NEW e \in ready'
       PROVE  /\ e \in (0 .. MaxFd) \X {"in", "hup", "now"}
              /\ e[1] # 0 => e[1] \in Fds \ R /\ inbound_map[e[1]] # None
  <2>1. \/ \E fd \in Polled \ R, a \in {"in", "hup"} : e = <<fd, a>>
        \/ e = <<0, "in">>
    BY <1>3, <1>12 DEF EventsIn
  <2>2. CASE e = <<0, "in">>
    BY <2>2, Capacities
  <2>3. ASSUME NEW fd \in Polled \ R, NEW a \in {"in", "hup"}, e = <<fd, a>>
        PROVE  /\ e \in (0 .. MaxFd) \X {"in", "hup", "now"}
               /\ e[1] \in Fds \ R /\ inbound_map[e[1]] # None
    <3>1. fd \in Fds \ R /\ inbound_map[fd] # None /\ fd \in 0 .. MaxFd
      BY <2>3, Capacities DEF Polled, Fds
    <3> QED BY <2>3, <3>1
  <2> QED BY <2>1, <2>2, <2>3
<1>13. SlotsLinked'
  <2>1. ASSUME NEW g \in Fds, inbound_map'[g] # None
        PROVE  inbound_map'[g].conn \in DOMAIN cs /\ cs[inbound_map'[g].conn].fd = g
    <3>1. g \notin R /\ inbound_map'[g] = inbound_map[g]
      BY <1>9, <2>1
    <3> QED BY <1>7, <1>8, <2>1, <3>1 DEF ServerIInv, SlotsLinked
  <2>2. ASSUME NEW l \in DOMAIN cs, cs[l].fd \in Fds
        PROVE  inbound_map'[cs[l].fd] # None /\ inbound_map'[cs[l].fd].conn = l
    <3>1. conns[l].fd \notin R /\ cs[l] = conns[l] /\ l \in DOMAIN conns
      BY <1>5, <1>7, <1>8, <2>2
    <3> QED BY <1>9, <2>2, <3>1 DEF ServerIInv, SlotsLinked
  <2>3. ASSUME NEW e \in ready', e[1] # 0 PROVE inbound_map'[e[1]] # None
    BY <1>9, <1>12, <2>3
  <2> QED BY <1>3, <2>1, <2>2, <2>3 DEF SlotsLinked
<1>14. RoutesKnown'
  <2>1. ASSUME NEW c \in Clients, client_map'[c] \in Fds
        PROVE  /\ inbound_map'[client_map'[c]] # None
               /\ inbound_map'[client_map'[c]].client_id = c
               /\ cs[inbound_map'[client_map'[c]].conn].client = c
    <3>1. PICK fd \in Fds : fd = client_map[c] /\ fd = client_map'[c] /\ fd \notin R
      BY <1>11, <2>1
    <3>2. inbound_map'[fd] = inbound_map[fd]
      BY <1>9, <3>1
    <3>3. /\ inbound_map[fd] # None /\ inbound_map[fd].client_id = c
          /\ inbound_map[fd].conn \in DOMAIN conns /\ conns[inbound_map[fd].conn].client = c
      BY <3>1 DEF ServerIInv, RoutesKnown, SlotsLinked
    <3> QED BY <1>7, <3>1, <3>2, <3>3
  <2> QED BY <1>3, <2>1 DEF RoutesKnown
<1>15. TwoPhase' /\ SentWithin' /\ PendingIsTracked'
  <2>1. \A fd \in Fds : outbound_map[fd] # None => fd \notin R
    BY <1>4
  <2> QED BY <1>3, <1>4, <1>9, <1>10, <2>1 DEF ServerIInv, TwoPhase, SentWithin, PendingIsTracked
<1>16. ComingInOrder' /\ Carried'
  BY <1>3, <1>8 DEF ServerIInv, ComingInOrder, Carried
<1>17. DeliveryInOrder'
  <2>1. \A q : Behind(q) => Behind(q)'
    BY <1>3 DEF Behind
  <2>2. Ordered(<< >>) /\ Behind(<< >>)
    BY DEF Ordered, Behind
  <2>3. ASSUME NEW l \in DOMAIN conns
        PROVE  /\ cs[l].fd \notin Fds => cs[l].got = << >>
               /\ Ordered(cs[l].got) /\ Behind(conns[l].got)'
    <3>1. Behind(cs[l].got)
      BY <1>7, <2>2 DEF ServerIInv, DeliveryInOrder
    <3>2. Behind(conns[l].got)'
      BY <1>3, <3>1 DEF Behind
    <3> QED BY <1>7, <2>2, <3>2 DEF ServerIInv, DeliveryInOrder
  <2>4. ASSUME NEW l \in DOMAIN conns, cs[l].fd \in Fds, outbound_map[cs[l].fd] # None
        PROVE  SlotInOrder(outbound_map[conns[l].fd], conns[l].got)'
    <3>1. cs[l] = conns[l]
      BY <1>5, <1>7, <2>4
    <3>2. SlotInOrder(outbound_map[conns[l].fd], conns[l].got)
      BY <2>4, <3>1 DEF ServerIInv, DeliveryInOrder
    <3> QED BY <1>3, <2>1, <3>1, <3>2 DEF SlotInOrder
  <2> QED BY <1>3, <1>8, <2>3, <2>4 DEF DeliveryInOrder
<1>18. ServerTypeOK'
  BY <1>3, <1>8, <1>9, <1>10, <1>11, <1>12 DEF ServerIInv, ServerTypeOK
<1> QED BY <1>13, <1>14, <1>15, <1>16, <1>17, <1>18 DEF ServerIInv

\* processRequest: the route of the client and the slot name each other from then
\* on, and a push never overfills its ring.
LEMMA ReadFrameInv ==
    ASSUME ServerIInv, NEW fd \in Fds, ReadFrame(fd)
    PROVE  ServerIInv'
<1>1. PICK k : k = inbound_map[fd].conn
  OBVIOUS
<1>2. PICK c : c = conns[k].client
  OBVIOUS
<1>3. /\ UNCHANGED <<outbound_map, condemned_inbound, condemned_outbound, ready, out_ring,
                     opc, ofd, routing, writable_fds, epollout_armed, todo, serial>>
      /\ <<fd, "now">> \in ready
      /\ conns[k].input # << >>
      /\ conns' = [conns EXCEPT ![k].input = Tail(@)]
      /\ \/ /\ inbound_map' = [inbound_map EXCEPT ![fd].client_id = c]
            /\ client_map' = [client_map EXCEPT ![c] = fd]
            /\ in_ring' = Push(in_ring, RingCap, c)
            /\ UNCHANGED error_channel
         \/ /\ error_channel' = Push(error_channel, RingCap, [fd |-> fd, to |-> c])
            /\ UNCHANGED <<inbound_map, client_map, in_ring>>
  BY <1>1, <1>2 DEF ReadFrame, flags, outVars
<1>4. inbound_map[fd] # None /\ k \in DOMAIN conns /\ conns[k].fd = fd
  <2>1. fd # 0 /\ <<fd, "now">>[1] = fd
    BY Capacities DEF Fds
  <2>2. inbound_map[fd] # None
    BY <1>3, <2>1, Zenon DEF ServerIInv, SlotsLinked
  <2> QED BY <1>1, <2>2 DEF ServerIInv, SlotsLinked
<1>5. /\ conns \in Seq(Connection) /\ conns[k] \in Connection /\ c \in Clients
      /\ inbound_map[fd] \in InboundState
      /\ in_ring \in Seq(Clients) /\ error_channel \in Seq(Report)
      /\ Len(in_ring) <= RingCap /\ Len(error_channel) <= RingCap /\ Len(out_ring) <= RingCap
  BY <1>2, <1>4, ConnFields DEF ServerIInv, ServerTypeOK, Carried
<1>6. SameConns
  <2>1. PICK x : x = [conns[k] EXCEPT !.input = Tail(conns[k].input)]
    OBVIOUS
  <2>2. Tail(conns[k].input) \in Seq({"ok", "bad"})
    BY <1>3, <1>5, ConnFields
  <2>3. /\ x \in Connection /\ x.fd = conns[k].fd /\ x.client = conns[k].client
        /\ x.got = conns[k].got
    BY <1>5, <2>1, <2>2 DEF Connection
  <2>4. conns' = [conns EXCEPT ![k] = x]
    BY <1>3, <2>1
  <2> QED BY <1>4, <1>5, <2>3, <2>4, ConnUpdate DEF SameConns
<1>7. ComingInOrder' /\ DeliveryInOrder' /\ SentWithin'
  BY <1>3, <1>6, OrderKept
<1>8. PICK in : in = [inbound_map[fd] EXCEPT !.client_id = c]
  OBVIOUS
<1>9. in \in InboundState /\ in # None /\ in.conn = k /\ in.client_id = c
  BY <1>1, <1>5, <1>8, NoneAssumption DEF InboundState
<1>10. CASE /\ inbound_map' = [inbound_map EXCEPT ![fd].client_id = c]
            /\ client_map' = [client_map EXCEPT ![c] = fd]
            /\ in_ring' = Push(in_ring, RingCap, c)
            /\ UNCHANGED error_channel
  <2>1. /\ inbound_map' \in [Fds -> InboundState \cup {None}] /\ inbound_map'[fd] = in
        /\ \A g \in Fds : g # fd => inbound_map'[g] = inbound_map[g]
    BY <1>8, <1>9, <1>10 DEF ServerIInv, ServerTypeOK
  <2>2. /\ client_map' \in [Clients -> Fds \cup {0, -1}] /\ client_map'[c] = fd
        /\ \A d \in Clients : d # c => client_map'[d] = client_map[d]
    BY <1>5, <1>10 DEF ServerIInv, ServerTypeOK
  <2>3. in_ring' \in Seq(Clients) /\ Len(in_ring') <= RingCap
    BY <1>5, <1>10, PushType, Capacities
  <2>4. SlotsLinked'
    <3>1. \A e \in ready : e[1] # 0 => e[1] \in Fds
      BY Capacities DEF ServerIInv, ServerTypeOK, Fds
    <3> QED BY <1>1, <1>3, <1>4, <1>6, <1>9, <2>1, <3>1 DEF ServerIInv, SlotsLinked, SameConns
  <2>5. RoutesKnown'
    <3>1. SUFFICES ASSUME NEW d \in Clients, client_map'[d] \in Fds
                   PROVE  /\ inbound_map'[client_map'[d]] # None
                          /\ inbound_map'[client_map'[d]].client_id = d
                          /\ conns'[inbound_map'[client_map'[d]].conn].client = d
      BY DEF RoutesKnown
    <3>2. CASE client_map'[d] = fd
      <4>1. d = c
        <5>1. CASE d # c
          BY <1>1, <1>2, <2>2, <3>2, <5>1 DEF ServerIInv, RoutesKnown
        <5> QED BY <5>1
      <4> QED BY <1>2, <1>4, <1>6, <1>9, <2>1, <3>2, <4>1 DEF SameConns
    <3>3. CASE client_map'[d] # fd
      <4>1. client_map'[d] = client_map[d] /\ inbound_map'[client_map[d]] = inbound_map[client_map[d]]
        BY <2>1, <2>2, <3>1, <3>3
      <4> QED BY <1>6, <3>1, <4>1 DEF ServerIInv, RoutesKnown, SlotsLinked, SameConns
    <3> QED BY <3>2, <3>3
  <2>6. Carried' /\ TwoPhase' /\ PendingIsTracked'
    BY <1>3, <1>6, <1>9, <1>10, <2>1 DEF ServerIInv, Carried, TwoPhase, PendingIsTracked, SameConns
  <2>7. ServerTypeOK'
    BY <1>3, <1>5, <1>6, <1>10, <2>1, <2>2, <2>3 DEF ServerIInv, ServerTypeOK, SameConns
  <2> QED BY <1>7, <2>4, <2>5, <2>6, <2>7 DEF ServerIInv
<1>11. CASE /\ error_channel' = Push(error_channel, RingCap, [fd |-> fd, to |-> c])
            /\ UNCHANGED <<inbound_map, client_map, in_ring>>
  <2>1. SlotsLinked' /\ RoutesKnown'
    BY <1>3, <1>6, <1>11, SlotsKept
  <2>2. error_channel' \in Seq(Report) /\ Len(error_channel') <= RingCap
    <3>1. [fd |-> fd, to |-> c] \in Report
      BY <1>5 DEF Report
    <3> QED BY <1>5, <1>11, <3>1, PushType, Capacities
  <2>3. Carried' /\ TwoPhase' /\ PendingIsTracked'
    BY <1>3, <1>6, <1>11, <2>2 DEF ServerIInv, Carried, TwoPhase, PendingIsTracked, SameConns
  <2>4. ServerTypeOK'
    BY <1>3, <1>5, <1>6, <1>11, <2>2 DEF ServerIInv, ServerTypeOK, SameConns
  <2> QED BY <1>7, <2>1, <2>3, <2>4 DEF ServerIInv
<1> QED BY <1>3, <1>10, <1>11

-----------------------------------------------------------------------------
(* The engine and the way of a response to its slot                        *)

\* The order of a sequence of responses, all of them numbered up to s.
Rising(q, s) ==
    /\ \A j \in DOMAIN q : q[j].n \in 1 .. s
    /\ \A i, j \in DOMAIN q : i < j => q[i].n < q[j].n

\* A response with a higher number is pushed, or dropped.
LEMMA PushRises ==
    ASSUME NEW q \in Seq(Msg), NEW s \in Nat, Rising(q, s), Len(q) <= RingCap,
           NEW m \in Msg, m.n = s + 1, NEW r, r = Push(q, RingCap, m)
    PROVE  /\ r \in Seq(Msg) /\ Len(r) <= RingCap /\ Rising(r, s + 1)
           /\ \A j \in DOMAIN r : (j \in DOMAIN q /\ r[j] = q[j]) \/ r[j].n = s + 1
<1>1. r \in Seq(Msg) /\ Len(r) <= RingCap /\ (r = q \/ r = Append(q, m))
  <2>1. RingCap \in Nat
    BY Capacities
  <2>2. r = q \/ r = Append(q, m)
    BY DEF Push
  <2>3. r \in Seq(Msg)
    BY <2>2
  <2>4. Len(r) <= RingCap
    BY <2>1 DEF Push
  <2> QED BY <2>2, <2>3, <2>4
<1>2. CASE r = q
  BY <1>1, <1>2 DEF Rising
<1>3. CASE r = Append(q, m)
  BY <1>1, <1>3 DEF Rising
<1> QED BY <1>1, <1>2, <1>3

\* Every slot and peer stays behind the responses that are to come.
LEMMA BehindKept ==
    ASSUME ServerIInv, SameConns, UNCHANGED outbound_map,
           \A q \in Seq(Msg) : Behind(q) => Behind(q)'
    PROVE  DeliveryInOrder' /\ SentWithin'
<1>1. \A k \in DOMAIN conns : conns[k].got \in Seq(Msg) /\ conns[k].fd \in Fds \cup {0, -1}
  BY ConnFields DEF ServerIInv, ServerTypeOK
<1>2. \A fd \in Fds : outbound_map[fd] # None =>
         outbound_map[fd].buf \in Seq(Msg) /\ outbound_map[fd].staging \in Seq(Msg)
  BY DEF ServerIInv, ServerTypeOK, OutboundState
<1>3. ASSUME NEW k \in DOMAIN conns'
      PROVE  /\ conns'[k].fd \notin Fds => conns'[k].got = << >>
             /\ Ordered(conns'[k].got) /\ Behind(conns[k].got)'
  <2>1. PICK g \in Seq(Msg) : g = conns[k].got /\ g = conns'[k].got /\ k \in DOMAIN conns
    BY <1>1 DEF SameConns
  <2>2. Ordered(g) /\ Behind(g)
    BY <2>1 DEF ServerIInv, DeliveryInOrder
  <2>3. Behind(g)'
    BY <2>2
  <2> QED BY <2>1, <2>2, <2>3 DEF ServerIInv, DeliveryInOrder, SameConns, Behind
<1>4. ASSUME NEW k \in DOMAIN conns', conns'[k].fd \in Fds, outbound_map'[conns'[k].fd] # None
      PROVE  SlotInOrder(outbound_map[conns[k].fd], conns[k].got)'
  <2>1. PICK g, o : /\ g = conns[k].got /\ g = conns'[k].got /\ k \in DOMAIN conns
                    /\ o = outbound_map[conns[k].fd] /\ o = outbound_map'[conns'[k].fd]
    BY DEF SameConns
  <2>2. SlotInOrder(o, g) /\ o.buf \in Seq(Msg) /\ o.staging \in Seq(Msg)
    BY <1>2, <1>4, <2>1 DEF ServerIInv, DeliveryInOrder, SameConns
  <2>3. SlotInOrder(o, g)'
    BY <2>2 DEF SlotInOrder
  <2> QED BY <2>1, <2>3 DEF SlotInOrder, Behind
<1>5. DeliveryInOrder'
  BY <1>3, <1>4 DEF DeliveryInOrder
<1> QED BY <1>5 DEF ServerIInv, SentWithin

\* The engine's answers have numbers that nobody has seen.
LEMMA AnswerInv ==
    ASSUME ServerIInv, NEW others \in SUBSET Clients, Answer(others)
    PROVE  ServerIInv'
<1>1. /\ UNCHANGED <<conns, inbound_map, outbound_map, client_map, condemned_inbound,
                     condemned_outbound, ready, error_channel,
                     opc, ofd, routing, writable_fds, epollout_armed, todo>>
      /\ in_ring # << >> /\ in_ring' = Tail(in_ring)
      /\ serial' = serial + 1 + Cardinality(others)
  BY DEF Answer, flags, outVars
<1>2. /\ in_ring \in Seq(Clients) /\ Len(in_ring) <= RingCap /\ serial \in Nat
      /\ out_ring \in Seq(Msg) /\ Len(out_ring) <= RingCap /\ Rising(out_ring, serial)
      /\ Len(error_channel) <= RingCap
  BY DEF ServerIInv, ServerTypeOK, Carried, ComingInOrder, Rising
<1>3. Head(in_ring) \in Clients /\ in_ring' \in Seq(Clients) /\ Len(in_ring') <= RingCap
  BY <1>1, <1>2, Capacities
<1>4. PICK f : f = Push(out_ring, RingCap, [to |-> Head(in_ring), n |-> serial + 1])
  OBVIOUS
<1>5. /\ f \in Seq(Msg) /\ Len(f) <= RingCap /\ Rising(f, serial + 1)
      /\ \A j \in DOMAIN f : (j \in DOMAIN out_ring /\ f[j] = out_ring[j]) \/ f[j].n = serial + 1
  <2>1. [to |-> Head(in_ring), n |-> serial + 1] \in Msg
    BY <1>2, <1>3 DEF Msg
  <2> QED BY <1>2, <1>4, <2>1, PushRises
<1> DEFINE Grown(r, s) ==
             /\ r \in Seq(Msg) /\ Len(r) <= RingCap /\ Rising(r, s)
             /\ s \in Nat /\ serial < s
             /\ \A j \in DOMAIN r : (j \in DOMAIN out_ring /\ r[j] = out_ring[j]) \/ r[j].n > serial
<1>6. PICK r, s : r = out_ring' /\ s = serial' /\ Grown(r, s)
  <2>1. CASE others = {}
    <3>1. out_ring' = f /\ serial' = serial + 1
      BY <1>1, <1>2, <1>4, <2>1, FS_EmptySet DEF Answer
    <3> QED BY <1>2, <1>5, <3>1
  <2>2. ASSUME NEW d \in Clients, others = {d}
        PROVE  Grown(out_ring', serial')
    <3>1. /\ out_ring' = Push(f, RingCap, [to |-> d, n |-> serial + 2])
          /\ serial' = serial + 2
      <4>1. Cardinality({d}) = 1 /\ {d} # {}
        BY FS_Singleton
      <4> QED BY <1>1, <1>2, <1>4, <2>2, <4>1 DEF Answer
    <3>2. [to |-> d, n |-> serial + 2] \in Msg /\ [to |-> d, n |-> serial + 2].n = (serial + 1) + 1
      BY <1>2 DEF Msg
    <3>3. /\ out_ring' \in Seq(Msg) /\ Len(out_ring') <= RingCap
          /\ Rising(out_ring', (serial + 1) + 1)
          /\ \A j \in DOMAIN out_ring' :
                (j \in DOMAIN f /\ out_ring'[j] = f[j]) \/ out_ring'[j].n = (serial + 1) + 1
      <4>1. PICK m \in Msg : m = [to |-> d, n |-> serial + 2] /\ m.n = (serial + 1) + 1
        BY <3>2
      <4>2. PICK r : r = out_ring'
        OBVIOUS
      <4>3. r = Push(f, RingCap, m)
        BY <3>1, <4>1, <4>2
      <4>4. PICK s \in Nat : s = serial + 1
        BY <1>2
      <4>5. /\ r \in Seq(Msg) /\ Len(r) <= RingCap /\ Rising(r, s + 1)
            /\ \A j \in DOMAIN r : (j \in DOMAIN f /\ r[j] = f[j]) \/ r[j].n = s + 1
        BY <1>5, <4>1, <4>3, <4>4, PushRises
      <4> QED BY <4>2, <4>4, <4>5
    <3>4. (serial + 1) + 1 = serial + 2
      BY <1>2
    <3> QED BY <1>2, <1>5, <3>1, <3>3, <3>4
  <2>3. Grown(out_ring', serial')
    BY <2>1, <2>2 DEF Answer
  <2> HIDE DEF Grown
  <2> QED BY <2>3
<1>7. SameConns
  BY <1>1, ConnsUnchanged
<1>8. SlotsLinked' /\ RoutesKnown'
  BY <1>1, <1>7, SlotsKept
<1>9. ComingInOrder'
  <2>1. \A j \in DOMAIN routing : routing[j].msg.n \in 1 .. serial
    BY DEF ServerIInv, ComingInOrder
  <2>2. \A j \in DOMAIN r : r[j].n \in 1 .. s
    BY <1>6 DEF Rising
  <2>3. ASSUME NEW i \in DOMAIN routing, NEW j \in DOMAIN r PROVE routing[i].msg.n < r[j].n
    BY <1>2, <1>6, <2>1, <2>2 DEF ServerIInv, ComingInOrder
  <2>4. \A j \in DOMAIN routing : routing[j].msg.n \in 1 .. s
    BY <1>2, <1>6, <2>1
  <2> QED BY <1>1, <1>6, <2>2, <2>3, <2>4 DEF ServerIInv, ComingInOrder, Rising
<1>10. ASSUME NEW q \in Seq(Msg), Behind(q) PROVE Behind(q)'
  <2>1. \A i \in DOMAIN q : q[i].n \in Nat /\ q[i].n <= serial
    <3>1. \A i \in DOMAIN q : q[i] \in Msg
      OBVIOUS
    <3> QED BY <1>10, <3>1 DEF Behind, Msg
  <2>2. \A j \in DOMAIN r : r[j].n \in Nat
    BY <1>6 DEF Rising
  <2>3. \A i \in DOMAIN q, j \in DOMAIN r : q[i].n < r[j].n
    BY <1>2, <1>6, <1>10, <2>1, <2>2 DEF Behind
  <2>4. \A i \in DOMAIN q : q[i].n <= s
    BY <1>2, <1>6, <2>1
  <2> QED BY <1>1, <1>6, <1>10, <2>3, <2>4 DEF Behind
<1>11. DeliveryInOrder' /\ SentWithin'
  BY <1>1, <1>7, <1>10, BehindKept
<1>12. TwoPhase' /\ PendingIsTracked' /\ Carried'
  BY <1>1, <1>6 DEF ServerIInv, TwoPhase, PendingIsTracked, Carried
<1>13. ServerTypeOK'
  BY <1>1, <1>2, <1>3, <1>6 DEF ServerIInv, ServerTypeOK
<1> QED BY <1>8, <1>9, <1>11, <1>12, <1>13 DEF ServerIInv

\* routeOutboundMessages moves a response from the ring to its look-ahead.
LEMMA RouteInv ==
    ASSUME ServerIInv, RouteFirst \/ RouteAhead
    PROVE  ServerIInv'
<1>1. /\ UNCHANGED <<conns, inbound_map, outbound_map, client_map, condemned_inbound,
                     condemned_outbound, ready, in_ring, error_channel, ofd,
                     writable_fds, epollout_armed, todo, serial>>
      /\ \/ out_ring = << >> /\ UNCHANGED <<routing, out_ring>>
         \/ out_ring # << >> /\ Resolve
      /\ \/ opc = "route" /\ out_ring = << >> /\ opc' = "errors"
         \/ opc = "route" /\ out_ring # << >> /\ opc' = "ahead"
         \/ opc = "ahead" /\ opc' = "deliver"
  BY DEF RouteFirst, RouteAhead, inbound, flags
<1>2. SameConns
  BY <1>1, ConnsUnchanged
<1>3. SlotsLinked' /\ RoutesKnown'
  BY <1>1, <1>2, SlotsKept
<1>4. TwoPhase' /\ PendingIsTracked'
  BY <1>1 DEF ServerIInv, TwoPhase, PendingIsTracked
<1>5. /\ out_ring \in Seq(Msg) /\ Len(out_ring) <= RingCap /\ Len(out_ring) \in Nat
      /\ routing \in Seq(Routed) /\ Len(routing) \in Nat
      /\ client_map \in [Clients -> Fds \cup {0, -1}] /\ serial \in Nat
      /\ opc = "route" => routing = << >>
      /\ opc = "ahead" => Len(routing) = 1
  BY DEF ServerIInv, ServerTypeOK, Carried
<1>6. CASE out_ring = << >> /\ UNCHANGED <<routing, out_ring>>
  <2>1. ComingInOrder' /\ DeliveryInOrder' /\ SentWithin'
    BY <1>1, <1>2, <1>6, OrderKept
  <2>2. Carried'
    BY <1>1, <1>5, <1>6 DEF ServerIInv, Carried
  <2>3. ServerTypeOK'
    BY <1>1, <1>6 DEF ServerIInv, ServerTypeOK
  <2> QED BY <1>3, <1>4, <2>1, <2>2, <2>3 DEF ServerIInv
<1>7. CASE out_ring # << >> /\ Resolve
  <2>1. PICK m, x, r, w : /\ m = Head(out_ring)
                          /\ x = [msg |-> m, fd |-> client_map[m.to]]
                          /\ r = Append(routing, x) /\ w = Tail(out_ring)
    OBVIOUS
  <2>2. routing' = r /\ out_ring' = w
    BY <1>7, <2>1 DEF Resolve
  <2>3. /\ m \in Msg /\ m = out_ring[1] /\ w \in Seq(Msg) /\ Len(w) = Len(out_ring) - 1
        /\ 1 \in DOMAIN out_ring
        /\ \A j \in DOMAIN w : w[j] = out_ring[j + 1] /\ j + 1 \in DOMAIN out_ring /\ 1 < j + 1
    BY <1>5, <1>7, <2>1
  <2>4. x \in Routed /\ x.msg = m
    BY <1>5, <2>1, <2>3 DEF Routed, Msg
  <2>5. /\ r \in Seq(Routed) /\ Len(r) = Len(routing) + 1
        /\ \A j \in DOMAIN routing : r[j] = routing[j]
        /\ \A j \in DOMAIN r : (j \in DOMAIN routing /\ r[j] = routing[j])
                               \/ (j = Len(routing) + 1 /\ r[j] = x)
    BY <1>5, <2>1, <2>4
  <2>6. ComingInOrder'
    <3>1. \A j \in DOMAIN w : w[j].n \in 1 .. serial /\ m.n < w[j].n
      BY <2>3 DEF ServerIInv, ComingInOrder
    <3>2. \A j \in DOMAIN r : r[j].msg.n \in 1 .. serial
      BY <2>3, <2>4, <2>5 DEF ServerIInv, ComingInOrder
    <3>3. ASSUME NEW i \in DOMAIN w, NEW j \in DOMAIN w, i < j PROVE w[i].n < w[j].n
      <4>1. i + 1 < j + 1
        BY <1>5, <2>3, <3>3
      <4> QED BY <2>3, <3>3, <4>1 DEF ServerIInv, ComingInOrder
    <3>4. ASSUME NEW i \in DOMAIN r, NEW j \in DOMAIN r, i < j PROVE r[i].msg.n < r[j].msg.n
      <4>1. i \in DOMAIN routing /\ r[i] = routing[i]
        BY <1>5, <2>5, <3>4
      <4> QED BY <2>3, <2>4, <2>5, <3>4, <4>1 DEF ServerIInv, ComingInOrder
    <3>5. ASSUME NEW i \in DOMAIN r, NEW j \in DOMAIN w PROVE r[i].msg.n < w[j].n
      BY <2>3, <2>4, <2>5, <3>1 DEF ServerIInv, ComingInOrder
    <3> QED BY <1>1, <2>2, <3>1, <3>2, <3>3, <3>4, <3>5 DEF ComingInOrder
  <2>7. ASSUME NEW q \in Seq(Msg), Behind(q) PROVE Behind(q)'
    <3>1. \A i \in DOMAIN q, j \in DOMAIN r : q[i].n < r[j].msg.n
      BY <2>3, <2>4, <2>5, <2>7 DEF Behind
    <3>2. \A i \in DOMAIN q, j \in DOMAIN w : q[i].n < w[j].n
      BY <2>3, <2>7 DEF Behind
    <3> QED BY <1>1, <2>2, <2>7, <3>1, <3>2 DEF Behind
  <2>8. DeliveryInOrder' /\ SentWithin'
    BY <1>1, <1>2, <2>7, BehindKept
  <2>9. Len(w) <= RingCap /\ Len(r) <= 2
    BY <1>1, <1>5, <1>7, <2>3, <2>5, Capacities, SMTT(40)
  <2>10. Carried'
    <3>1. /\ opc' = "ahead" => Len(r) = 1
          /\ opc' = "deliver" => Len(r) = 2
          /\ opc' \in {"ahead", "deliver"}
      BY <1>1, <1>5, <1>7, <2>5
    <3> QED BY <1>1, <2>2, <2>5, <3>1 DEF ServerIInv, Carried
  <2>11. ServerTypeOK'
    BY <1>1, <2>2, <2>3, <2>9 DEF ServerIInv, ServerTypeOK
  <2> QED BY <1>3, <1>4, <2>6, <2>8, <2>10, <2>11 DEF ServerIInv
<1> QED BY <1>1, <1>6, <1>7

-----------------------------------------------------------------------------
(* The outbound slots                                                      *)

\* What both threads leave alone while the outbound thread works on a slot.
Outside == <<inbound_map, client_map, condemned_inbound, ready, in_ring, out_ring, serial>>

\* What holds again once the outbound thread is done with the slot of fd.
SlotStep ==
    /\ SlotsLinked' /\ RoutesKnown' /\ TwoPhase' /\ DeliveryInOrder' /\ SentWithin'
    /\ PendingIsTracked'
    /\ conns' \in Seq(Connection) /\ Len(conns') = Len(conns)
    /\ outbound_map' \in [Fds -> OutboundState \cup {None}]
    /\ condemned_outbound' \in [Fds -> BOOLEAN]
    /\ \A fd \in Fds : outbound_map'[fd] # None =>
          /\ Len(outbound_map'[fd].staging) <= StageCap
          /\ Len(outbound_map'[fd].buf) <= BufCap
    /\ writable_fds' \subseteq Fds /\ epollout_armed' \subseteq Fds

\* The outbound thread gives up a slot of a descriptor in use.
LEMMA ReleaseStep ==
    ASSUME ServerIInv, NEW fd \in Fds, inbound_map[fd] # None, Release(fd),
           UNCHANGED <<conns, Outside, routing>>
    PROVE  SlotStep
<1>1. /\ UNCHANGED <<conns, inbound_map, client_map, condemned_inbound, ready, out_ring,
                     routing, serial>>
      /\ writable_fds' = writable_fds \ {fd}
      /\ epollout_armed' = epollout_armed \ {fd}
      /\ outbound_map' = [outbound_map EXCEPT ![fd] = None]
      /\ condemned_outbound' = [condemned_outbound EXCEPT ![fd] = TRUE]
  BY DEF Release, Outside
<1>2. SameConns
  BY <1>1, ConnsUnchanged
<1>3. SlotsLinked' /\ RoutesKnown'
  BY <1>1, <1>2, SlotsKept
<1>4. /\ outbound_map' \in [Fds -> OutboundState \cup {None}] /\ outbound_map'[fd] = None
      /\ \A g \in Fds : g # fd => outbound_map'[g] = outbound_map[g]
  BY <1>1 DEF ServerIInv, ServerTypeOK
<1>5. /\ condemned_outbound' \in [Fds -> BOOLEAN]
      /\ \A g \in Fds : g # fd => (condemned_outbound'[g] <=> condemned_outbound[g])
  BY <1>1, Zenon DEF ServerIInv, ServerTypeOK
<1>6. TwoPhase' /\ SentWithin' /\ PendingIsTracked'
  BY <1>1, <1>4, <1>5 DEF ServerIInv, TwoPhase, SentWithin, PendingIsTracked
<1>7. DeliveryInOrder'
  <2>1. \A q : Behind(q) => Behind(q)'
    BY <1>1 DEF Behind
  <2>2. \A g \in Fds : outbound_map'[g] # None => outbound_map'[g] = outbound_map[g]
    BY <1>4
  <2> QED BY <1>1, <2>1, <2>2 DEF ServerIInv, DeliveryInOrder, SlotInOrder
<1>8. /\ conns' \in Seq(Connection) /\ Len(conns') = Len(conns)
      /\ writable_fds' \subseteq Fds /\ epollout_armed' \subseteq Fds
  BY <1>1 DEF ServerIInv, ServerTypeOK
<1>9. \A g \in Fds : outbound_map'[g] # None =>
         Len(outbound_map'[g].staging) <= StageCap /\ Len(outbound_map'[g].buf) <= BufCap
  BY <1>4 DEF ServerIInv, ServerTypeOK
<1> QED BY <1>3, <1>4, <1>5, <1>6, <1>7, <1>8, <1>9 DEF SlotStep

\* handleDisconnectsOutbound releases a slot that is in use.
LEMMA ScanReapInv ==
    ASSUME ServerIInv, ScanReap
    PROVE  ServerIInv'
<1>1. /\ UNCHANGED <<conns, inbound_map, client_map, condemned_inbound, ready, in_ring,
                     out_ring, error_channel, routing, todo, serial>>
      /\ opc = "reap" /\ opc' = "scan" /\ ofd' = ofd + 1
  BY DEF ScanReap, inbound, rings
<1>2. ofd \in Fds /\ ofd' \in 1 .. MaxFd + 1 /\ routing = << >>
  BY <1>1, Capacities DEF ServerIInv, Carried, Fds
<1>3. SlotStep
  <2>1. CASE outbound_map[ofd] # None
    <3>1. PICK fd \in Fds : fd = ofd
      BY <1>2
    <3>2. Release(fd) /\ inbound_map[fd] # None
      BY <2>1, <3>1 DEF ScanReap, ServerIInv, TwoPhase
    <3> QED BY <1>1, <3>2, ReleaseStep DEF Outside
  <2>2. CASE outbound_map[ofd] = None
    <3>1. UNCHANGED <<writable_fds, epollout_armed, outbound_map, condemned_outbound>>
      BY <2>2 DEF ScanReap
    <3>2. SameConns
      BY <1>1, ConnsUnchanged
    <3>3. SlotsLinked' /\ RoutesKnown' /\ DeliveryInOrder' /\ SentWithin'
      BY <1>1, <3>1, <3>2, SlotsKept, OrderKept
    <3>4. TwoPhase' /\ PendingIsTracked'
      BY <1>1, <3>1 DEF ServerIInv, TwoPhase, PendingIsTracked
    <3> QED BY <1>1, <3>1, <3>3, <3>4 DEF SlotStep, ServerIInv, ServerTypeOK
  <2> QED BY <2>1, <2>2
<1>4. ComingInOrder' /\ Carried'
  BY <1>1, <1>2 DEF ServerIInv, ComingInOrder, Carried
<1>5. ServerTypeOK'
  BY <1>1, <1>2, <1>3 DEF ServerIInv, ServerTypeOK, SlotStep
<1> QED BY <1>3, <1>4, <1>5 DEF ServerIInv, SlotStep

\* A slot of the outbound map, with its fields and bounds.
LEMMA SlotFields ==
    ASSUME ServerIInv, NEW fd \in Fds, outbound_map[fd] # None,
           NEW o, o = outbound_map[fd]
    PROVE  /\ o \in OutboundState /\ inbound_map[fd] # None
           /\ o.conn \in Conns /\ o.staging \in Seq(Msg) /\ o.buf \in Seq(Msg)
           /\ o.sent \in Nat /\ o.latency \in Nat
           /\ Len(o.staging) <= StageCap /\ Len(o.buf) <= BufCap
           /\ o.sent <= Len(o.buf) /\ o.latency = Len(o.buf)
<1>1. o \in OutboundState
  BY DEF ServerIInv, ServerTypeOK
<1> QED BY <1>1 DEF ServerIInv, ServerTypeOK, TwoPhase, SentWithin, PendingIsTracked, OutboundState

\* One slot of the outbound map changes, and the connection it belongs to with it.
LEMMA OneSlotStep ==
    ASSUME ServerIInv, NEW fd \in Fds, outbound_map[fd] # None,
           NEW p \in OutboundState, outbound_map' = [outbound_map EXCEPT ![fd] = p],
           UNCHANGED <<Outside, condemned_outbound>>,
           Len(p.staging) <= StageCap, Len(p.buf) <= BufCap,
           p.sent <= Len(p.buf), p.latency = Len(p.buf),
           writable_fds' \subseteq writable_fds \cup {fd}, writable_fds \subseteq writable_fds' \cup {fd},
           epollout_armed' \subseteq epollout_armed \cup {fd},
           condemned_inbound[fd] \/ (p.staging = << >> /\ p.buf = << >>) \/ fd \in writable_fds',
           conns' \in Seq(Connection), Len(conns') = Len(conns), DOMAIN conns' = DOMAIN conns,
           \A k \in DOMAIN conns : /\ conns'[k].fd = conns[k].fd
                                   /\ conns'[k].client = conns[k].client
                                   /\ conns[k].fd # fd => conns'[k].got = conns[k].got,
           \A k \in DOMAIN conns : conns[k].fd = fd =>
               (Ordered(conns[k].got) /\ Behind(conns[k].got) /\ SlotInOrder(p, conns[k].got))',
           \A q \in Seq(Msg) : Behind(q) => Behind(q)'
    PROVE  SlotStep
<1>1. /\ UNCHANGED <<inbound_map, client_map, condemned_inbound, ready, out_ring, serial>>
      /\ p # None
  BY NoneAssumption DEF Outside
<1>2. /\ outbound_map' \in [Fds -> OutboundState \cup {None}] /\ outbound_map'[fd] = p
      /\ \A g \in Fds : g # fd => outbound_map'[g] = outbound_map[g]
  BY DEF ServerIInv, ServerTypeOK
<1>3. SlotsLinked' /\ RoutesKnown'
  BY <1>1 DEF ServerIInv, SlotsLinked, RoutesKnown
<1>4. TwoPhase' /\ SentWithin' /\ PendingIsTracked'
  BY <1>1, <1>2 DEF ServerIInv, TwoPhase, SentWithin, PendingIsTracked
<1>5. DeliveryInOrder'
  <2>1. ASSUME NEW k \in DOMAIN conns', conns[k].fd # fd
        PROVE  /\ conns'[k].fd \notin Fds => conns'[k].got = << >>
               /\ (Ordered(conns[k].got) /\ Behind(conns[k].got))'
               /\ conns'[k].fd \in Fds /\ outbound_map'[conns'[k].fd] # None =>
                     SlotInOrder(outbound_map[conns[k].fd], conns[k].got)'
    <3>1. PICK g \in Seq(Msg) : g = conns[k].got /\ g = conns'[k].got
      BY <2>1, ConnFields DEF ServerIInv, ServerTypeOK
    <3>2. Ordered(g) /\ Behind(g) /\ (conns[k].fd \notin Fds => g = << >>)
      BY <3>1, Zenon DEF ServerIInv, DeliveryInOrder
    <3>3. Behind(g)'
      BY <3>2
    <3>4. ASSUME conns[k].fd \in Fds, outbound_map'[conns[k].fd] # None
          PROVE  SlotInOrder(outbound_map[conns[k].fd], conns[k].got)'
      <4>1. PICK o : o = outbound_map[conns[k].fd] /\ o = outbound_map'[conns'[k].fd] /\ o # None
        BY <1>2, <2>1, <3>4
      <4>2. SlotInOrder(o, g)
        BY <3>1, <3>4, <4>1 DEF ServerIInv, DeliveryInOrder
      <4>3. o.buf \in Seq(Msg) /\ o.staging \in Seq(Msg)
        BY <3>4, <4>1, SlotFields
      <4>4. SlotInOrder(o, g)'
        BY <4>2, <4>3 DEF SlotInOrder
      <4> QED BY <3>1, <4>1, <4>4, Zenon DEF SlotInOrder, Behind
    <3> QED BY <3>1, <3>2, <3>3, <3>4 DEF Ordered, Behind
  <2>2. ASSUME NEW k \in DOMAIN conns', conns[k].fd = fd
        PROVE  /\ conns'[k].fd \in Fds
               /\ (Ordered(conns[k].got) /\ Behind(conns[k].got))'
               /\ SlotInOrder(outbound_map[conns[k].fd], conns[k].got)'
    <3>1. outbound_map'[conns'[k].fd] = p /\ conns'[k].fd = fd
      BY <1>2, <2>2
    <3>2. (Ordered(conns[k].got) /\ Behind(conns[k].got) /\ SlotInOrder(p, conns[k].got))'
      BY <2>2
    <3> QED BY <3>1, <3>2 DEF SlotInOrder, Behind
  <2> QED BY <2>1, <2>2 DEF DeliveryInOrder
<1>6. \A g \in Fds : outbound_map'[g] # None =>
         Len(outbound_map'[g].staging) <= StageCap /\ Len(outbound_map'[g].buf) <= BufCap
  BY <1>2 DEF ServerIInv, ServerTypeOK
<1>7. /\ writable_fds' \subseteq Fds /\ epollout_armed' \subseteq Fds
      /\ condemned_outbound' \in [Fds -> BOOLEAN]
  BY DEF ServerIInv, ServerTypeOK
<1> QED BY <1>2, <1>3, <1>4, <1>5, <1>6, <1>7 DEF SlotStep

\* A response or an error report is staged, or dropped.
LEMMA StageStep ==
    ASSUME ServerIInv, NEW fd, NEW m \in Msg, Stage(fd, m),
           UNCHANGED <<conns, Outside, condemned_outbound, epollout_armed>>,
           \A q \in Seq(Msg) : Behind(q) => Behind(q)',
           \A q \in Seq(Msg) : Behind(q) => \A i \in DOMAIN q : Precedes(q[i], m),
           Behind(<<m>>)'
    PROVE  SlotStep
<1>1. SameConns
  BY ConnsUnchanged
<1>2. CASE UNCHANGED <<outbound_map, writable_fds>>
  <2>1. SlotsLinked' /\ RoutesKnown' /\ DeliveryInOrder' /\ SentWithin'
    BY <1>1, <1>2, SlotsKept, BehindKept DEF Outside
  <2>2. TwoPhase' /\ PendingIsTracked'
    BY <1>2 DEF ServerIInv, TwoPhase, PendingIsTracked, Outside
  <2> QED BY <1>2, <2>1, <2>2 DEF SlotStep, ServerIInv, ServerTypeOK
<1>3. CASE /\ fd \in Fds /\ outbound_map[fd] # None
           /\ outbound_map' = [outbound_map EXCEPT ![fd].staging = Push(@, StageCap, m)]
           /\ writable_fds' = writable_fds \cup {fd}
  <2>1. PICK o, s, p : /\ o = outbound_map[fd] /\ s = Push(o.staging, StageCap, m)
                       /\ p = [o EXCEPT !.staging = s]
    OBVIOUS
  <2>2. /\ o \in OutboundState /\ o.staging \in Seq(Msg) /\ o.buf \in Seq(Msg)
        /\ Len(o.staging) <= StageCap /\ Len(o.buf) <= BufCap
        /\ o.sent <= Len(o.buf) /\ o.latency = Len(o.buf)
    BY <1>3, <2>1, SlotFields
  <2>3. s \in Seq(Msg) /\ Len(s) <= StageCap /\ (s = o.staging \/ s = Append(o.staging, m))
    <3>1. StageCap \in Nat /\ Len(o.staging) \in Nat
      BY <2>2, Capacities
    <3>2. s = o.staging \/ (s = Append(o.staging, m) /\ Len(o.staging) < StageCap)
      BY <2>1 DEF Push
    <3>3. Append(o.staging, m) \in Seq(Msg) /\ Len(Append(o.staging, m)) = Len(o.staging) + 1
      BY <2>2
    <3>4. CASE s = o.staging
      BY <2>2, <3>4
    <3>5. CASE s = Append(o.staging, m) /\ Len(o.staging) < StageCap
      BY <3>1, <3>3, <3>5
    <3> QED BY <3>2, <3>4, <3>5
  <2>4. /\ p \in OutboundState /\ p.staging = s /\ p.buf = o.buf /\ p.sent = o.sent
        /\ p.latency = o.latency
    BY <2>1, <2>2, <2>3 DEF OutboundState
  <2>5. outbound_map' = [outbound_map EXCEPT ![fd] = p]
    BY <1>3, <2>1
  <2>6. ASSUME NEW k \in DOMAIN conns, conns[k].fd = fd
        PROVE  (Ordered(conns[k].got) /\ Behind(conns[k].got) /\ SlotInOrder(p, conns[k].got))'
    <3>1. PICK g \in Seq(Msg) : g = conns[k].got /\ g = conns'[k].got
      BY <2>6, ConnFields DEF ServerIInv, ServerTypeOK
    <3>2. Ordered(g) /\ Behind(g) /\ SlotInOrder(o, g)
      BY <1>3, <2>1, <2>6, <3>1 DEF ServerIInv, DeliveryInOrder
    <3>3. /\ \A i \in DOMAIN g : Precedes(g[i], m)
          /\ \A i \in DOMAIN o.buf : Precedes(o.buf[i], m)
          /\ \A i \in DOMAIN o.staging : Precedes(o.staging[i], m)
      BY <2>2, <3>2 DEF SlotInOrder
    <3>4. \A j \in DOMAIN s : \/ j \in DOMAIN o.staging /\ s[j] = o.staging[j]
                              \/ j = Len(o.staging) + 1 /\ s[j] = m
      BY <2>2, <2>3
    <3>5. ASSUME NEW i \in DOMAIN s, NEW j \in DOMAIN s, i < j PROVE Precedes(s[i], s[j])
      <4>1. i \in DOMAIN o.staging /\ s[i] = o.staging[i]
        BY <2>2, <2>3, <3>4, <3>5
      <4> QED BY <3>2, <3>3, <3>4, <3>5, <4>1 DEF SlotInOrder, Ordered
    <3>6. Ordered(s) /\ AllPrecede(o.buf, s) /\ AllPrecede(g, s)
      BY <3>2, <3>3, <3>4, <3>5 DEF SlotInOrder, Ordered, AllPrecede
    <3>7. Behind(g)' /\ Behind(o.buf)' /\ Behind(o.staging)'
      BY <2>2, <3>2 DEF SlotInOrder
    <3>8. Behind(s)'
      <4>1. DOMAIN <<m>> = {1} /\ <<m>>[1] = m
        OBVIOUS
      <4> QED BY <3>4, <3>7, <4>1 DEF Behind
    <3>9. SlotInOrder(p, g)'
      BY <2>4, <3>2, <3>6, <3>7, <3>8 DEF SlotInOrder
    <3> QED BY <3>1, <3>2, <3>7, <3>9 DEF Ordered, Behind, SlotInOrder, AllPrecede, Precedes
  <2>7. /\ UNCHANGED <<Outside, condemned_outbound>>
        /\ Len(p.staging) <= StageCap /\ Len(p.buf) <= BufCap
        /\ p.sent <= Len(p.buf) /\ p.latency = Len(p.buf)
        /\ writable_fds' \subseteq writable_fds \cup {fd}
        /\ writable_fds \subseteq writable_fds' \cup {fd}
        /\ epollout_armed' \subseteq epollout_armed \cup {fd}
        /\ fd \in writable_fds'
    BY <1>3, <2>2, <2>3, <2>4 DEF Outside
  <2>8. /\ conns' \in Seq(Connection) /\ Len(conns') = Len(conns) /\ DOMAIN conns' = DOMAIN conns
        /\ \A k \in DOMAIN conns : /\ conns'[k].fd = conns[k].fd
                                   /\ conns'[k].client = conns[k].client
                                   /\ conns[k].fd # fd => conns'[k].got = conns[k].got
    BY <1>1 DEF SameConns
  <2>9. fd \in Fds /\ outbound_map[fd] # None
    BY <1>3
  <2> QED BY <2>4, <2>5, <2>6, <2>7, <2>8, <2>9, OneSlotStep
<1> QED BY <1>2, <1>3 DEF Stage

\* The response that was resolved first is staged in the slot of its descriptor.
LEMMA DeliverInv ==
    ASSUME ServerIInv, Deliver
    PROVE  ServerIInv'
<1>1. /\ UNCHANGED <<conns, Outside, condemned_outbound, epollout_armed>>
      /\ UNCHANGED <<error_channel, ofd, todo>>
      /\ opc = "deliver" /\ routing' = Tail(routing)
      /\ opc' = IF Tail(routing) = << >> THEN "errors" ELSE "ahead"
      /\ Stage(Head(routing).fd, Head(routing).msg)
  BY DEF Deliver, inbound, flags, rings, Outside
<1>2. PICK x, r : x = Head(routing) /\ r = Tail(routing)
  OBVIOUS
<1>3. /\ routing \in Seq(Routed) /\ Len(routing) \in {1, 2} /\ routing # << >>
  BY <1>1 DEF ServerIInv, Carried
<1>4. /\ x \in Routed /\ x = routing[1] /\ 1 \in DOMAIN routing
      /\ r \in Seq(Routed) /\ Len(r) = Len(routing) - 1
      /\ \A j \in DOMAIN r : r[j] = routing[j + 1] /\ j + 1 \in DOMAIN routing /\ 1 < j + 1
  BY <1>2, <1>3
<1>5. PICK m \in Msg : m = x.msg
  BY <1>4 DEF Routed
<1>6. /\ \A q \in Seq(Msg) : Behind(q) => Behind(q)'
      /\ \A q \in Seq(Msg) : Behind(q) => \A i \in DOMAIN q : Precedes(q[i], m)
  <2>1. ASSUME NEW q \in Seq(Msg), Behind(q) PROVE Behind(q)'
    BY <1>1, <1>2, <1>4, <2>1 DEF Behind, Outside
  <2>2. ASSUME NEW q \in Seq(Msg), Behind(q) PROVE \A i \in DOMAIN q : Precedes(q[i], m)
    BY <1>4, <1>5, <2>2 DEF Behind, Precedes
  <2> QED BY <2>1, <2>2
<1>7. Behind(<<m>>)'
  <2>1. DOMAIN <<m>> = {1} /\ <<m>>[1] = m
    OBVIOUS
  <2>2. /\ m.n <= serial
        /\ \A j \in DOMAIN r : m.n < r[j].msg.n
        /\ \A j \in DOMAIN out_ring : m.n < out_ring[j].n
    BY <1>4, <1>5 DEF ServerIInv, ComingInOrder
  <2> QED BY <1>1, <1>2, <2>1, <2>2 DEF Behind, Outside
<1>8. SlotStep
  <2>1. PICK fd : fd = x.fd
    OBVIOUS
  <2>2. Stage(fd, m)
    BY <1>1, <1>2, <1>5, <2>1
  <2> QED BY <1>1, <1>6, <1>7, <2>2, StageStep
<1>9. ComingInOrder'
  <2>1. \A j \in DOMAIN r : r[j].msg.n \in 1 .. serial
    BY <1>4 DEF ServerIInv, ComingInOrder
  <2>2. ASSUME NEW i \in DOMAIN r, NEW j \in DOMAIN r, i < j PROVE r[i].msg.n < r[j].msg.n
    <3>1. i + 1 < j + 1
      BY <1>4, <2>2
    <3> QED BY <1>4, <2>2, <3>1 DEF ServerIInv, ComingInOrder
  <2>3. \A i \in DOMAIN r, j \in DOMAIN out_ring : r[i].msg.n < out_ring[j].n
    BY <1>4 DEF ServerIInv, ComingInOrder
  <2> QED BY <1>1, <1>2, <2>1, <2>2, <2>3 DEF ServerIInv, ComingInOrder, Outside
<1>10. /\ Len(r) <= 2 /\ opc' \in {"errors", "ahead"}
       /\ opc' = "ahead" => Len(r) = 1
       /\ opc' = "errors" => r = << >>
  BY <1>1, <1>2, <1>3, <1>4
<1>11. Carried'
  BY <1>1, <1>2, <1>4, <1>8, <1>10 DEF ServerIInv, Carried, SlotStep, Outside
<1>12. ServerTypeOK'
  BY <1>1, <1>2, <1>8, <1>10 DEF ServerIInv, ServerTypeOK, SlotStep, Outside
<1> QED BY <1>8, <1>9, <1>11, <1>12 DEF ServerIInv, SlotStep

\* An error report, which has no number, is staged for the descriptor it names.
LEMMA DrainErrorInv ==
    ASSUME ServerIInv, DrainError
    PROVE  ServerIInv'
<1>1. /\ UNCHANGED <<conns, Outside, condemned_outbound, epollout_armed>>
      /\ UNCHANGED <<opc, ofd, routing, todo>>
      /\ error_channel # << >> /\ error_channel' = Tail(error_channel)
      /\ Stage(Head(error_channel).fd, [to |-> Head(error_channel).to, n |-> 0])
  BY DEF DrainError, inbound, flags, Outside
<1>2. /\ error_channel \in Seq(Report) /\ Len(error_channel) <= RingCap /\ serial \in Nat
  BY DEF ServerIInv, Carried, ServerTypeOK
<1>3. /\ Head(error_channel) \in Report
      /\ error_channel' \in Seq(Report) /\ Len(error_channel') <= RingCap
  BY <1>1, <1>2, Capacities
<1>4. PICK m \in Msg : m = [to |-> Head(error_channel).to, n |-> 0] /\ m.n = 0
  <2>1. [to |-> Head(error_channel).to, n |-> 0] \in Msg
    BY <1>3 DEF Report, Msg
  <2> QED BY <2>1
<1>5. \A q \in Seq(Msg) : Behind(q) => Behind(q)'
  BY <1>1 DEF Behind, Outside
<1>6. \A q \in Seq(Msg) : Behind(q) => \A i \in DOMAIN q : Precedes(q[i], m)
  BY <1>4 DEF Precedes
<1>7. Behind(<<m>>)'
  <2>1. DOMAIN <<m>> = {1} /\ <<m>>[1] = m
    OBVIOUS
  <2>2. /\ m.n <= serial
        /\ \A j \in DOMAIN routing : m.n < routing[j].msg.n
        /\ \A j \in DOMAIN out_ring : m.n < out_ring[j].n
    BY <1>2, <1>4 DEF ServerIInv, ComingInOrder
  <2> QED BY <1>1, <2>1, <2>2 DEF Behind, Outside
<1>8. SlotStep
  <2>1. PICK fd : fd = Head(error_channel).fd
    OBVIOUS
  <2>2. Stage(fd, m)
    BY <1>1, <1>4, <2>1
  <2> QED BY <1>1, <1>5, <1>6, <1>7, <2>2, StageStep
<1>9. ComingInOrder'
  BY <1>1 DEF ServerIInv, ComingInOrder, Outside
<1>10. Carried'
  BY <1>1, <1>3, <1>8 DEF ServerIInv, Carried, SlotStep, Outside
<1>11. ServerTypeOK'
  BY <1>1, <1>3, <1>8 DEF ServerIInv, ServerTypeOK, SlotStep, Outside
<1> QED BY <1>8, <1>9, <1>10, <1>11 DEF ServerIInv, SlotStep

-----------------------------------------------------------------------------
(* Sending                                                                 *)

\* A slot within its bounds.
Sound(o) ==
    /\ o \in OutboundState
    /\ Len(o.staging) <= StageCap /\ Len(o.buf) <= BufCap
    /\ o.sent <= Len(o.buf) /\ o.latency = Len(o.buf)

\* appendResponse moves the oldest staged responses to the end of the buffer, and
\* latency_batch_ has room for all of them.
LEMMA AppendSound ==
    ASSUME NEW o, Sound(o), NEW g \in Seq(Msg), SlotInOrder(o, g),
           NEW p, p = appendResponse(o)
    PROVE  /\ Sound(p) /\ SlotInOrder(p, g)
           /\ o.staging = << >> /\ o.buf = << >> => p.staging = << >> /\ p.buf = << >>
<1>0. PICK B, S : B = o.buf /\ S = o.staging
  OBVIOUS
<1>1. /\ o \in OutboundState /\ S \in Seq(Msg) /\ B \in Seq(Msg)
      /\ o.sent \in Nat /\ o.latency \in Nat /\ o.conn \in Conns
      /\ Len(S) \in Nat /\ Len(B) \in Nat
      /\ BufCap \in Nat /\ StageCap \in Nat
      /\ Len(S) <= StageCap /\ Len(B) <= BufCap
      /\ o.sent <= Len(B) /\ o.latency = Len(B)
  BY <1>0, Capacities DEF Sound, OutboundState
<1>2. PICK m : m = IF Len(S) <= BufCap - Len(B) THEN Len(S)
                   ELSE BufCap - Len(B)
  OBVIOUS
<1>3. m \in Nat /\ m <= Len(S) /\ Len(B) + m <= BufCap
  BY <1>1, <1>2
<1>4. PICK h, t, b : /\ h = SubSeq(S, 1, m)
                     /\ t = SubSeq(S, m + 1, Len(S))
                     /\ b = B \o h
  OBVIOUS
<1>5. /\ h \in Seq(Msg) /\ Len(h) = m /\ \A i \in 1 .. m : h[i] = S[i]
      /\ t \in Seq(Msg) /\ Len(t) = Len(S) - m
      /\ \A i \in 1 .. Len(S) - m : t[i] = S[m + i]
  BY <1>1, <1>3, <1>4, SMTT(40)
<1>6. /\ b \in Seq(Msg) /\ Len(b) = Len(B) + m
      /\ \A i \in 1 .. Len(b) : b[i] = IF i <= Len(B) THEN B[i] ELSE h[i - Len(B)]
  BY <1>1, <1>3, <1>4, <1>5, ConcatProperties
<1>7. \A i \in DOMAIN b : \/ i \in DOMAIN B /\ b[i] = B[i]
                          \/ /\ i - Len(B) \in DOMAIN S
                             /\ i - Len(B) \in 1 .. m
                             /\ b[i] = S[i - Len(B)]
  <2>1. SUFFICES ASSUME NEW i \in 1 .. Len(b), i \notin DOMAIN B
                 PROVE  /\ i - Len(B) \in DOMAIN S
                        /\ i - Len(B) \in 1 .. m
                        /\ b[i] = S[i - Len(B)]
    BY <1>1, <1>6, SMTT(40)
  <2>2. i - Len(B) \in 1 .. m /\ i - Len(B) \in DOMAIN S /\ ~(i <= Len(B))
    BY <1>1, <1>3, <1>6, <2>1
  <2> QED BY <1>5, <1>6, <2>2
<1>8. \A i \in DOMAIN t : m + i \in DOMAIN S /\ t[i] = S[m + i]
  <2>1. DOMAIN t = 1 .. Len(S) - m /\ DOMAIN S = 1 .. Len(S)
    BY <1>1, <1>3, <1>5
  <2>2. ASSUME NEW i \in 1 .. Len(S) - m PROVE m + i \in 1 .. Len(S)
    BY <1>1, <1>3, <2>2
  <2>3. ASSUME NEW i \in 1 .. Len(S) - m PROVE t[i] = S[m + i]
    BY <1>5, <2>3
  <2> QED BY <2>1, <2>2, <2>3
<1>9. /\ p \in OutboundState /\ p.buf = b /\ p.staging = t /\ p.sent = o.sent
      /\ p.latency = Len(b)
  <2>1. p = [o EXCEPT !.buf = b, !.staging = t, !.latency = Len(b)]
    <3>1. o.latency + m <= BufCap /\ o.latency + m = Len(b)
      BY <1>1, <1>3, <1>6
    <3> QED BY <1>0, <1>2, <1>4, <3>1 DEF appendResponse
  <2>2. p = [conn |-> o.conn, staging |-> t, buf |-> b, sent |-> o.sent, latency |-> Len(b)]
    BY <1>1, <2>1 DEF OutboundState
  <2> QED BY <1>1, <1>5, <1>6, <2>2 DEF OutboundState
<1>10. Sound(p)
  BY <1>1, <1>3, <1>5, <1>6, <1>9 DEF Sound
<1>11. Ordered(b)
  <2>1. SUFFICES ASSUME NEW i \in DOMAIN b, NEW j \in DOMAIN b, i < j PROVE Precedes(b[i], b[j])
    BY DEF Ordered
  <2>2. CASE j \in DOMAIN B
    <3>1. i \in DOMAIN B /\ b[i] = B[i] /\ b[j] = B[j]
      BY <1>1, <1>6, <2>1, <2>2
    <3> QED BY <1>0, <2>1, <2>2, <3>1 DEF SlotInOrder, Ordered
  <2>3. CASE j \notin DOMAIN B
    <3>1. PICK l \in DOMAIN S : l = j - Len(B) /\ b[j] = S[l]
      BY <1>7, <2>3
    <3>2. CASE i \in DOMAIN B
      <4>1. b[i] = B[i]
        BY <1>1, <1>6, <3>2
      <4> QED BY <1>0, <3>1, <3>2, <4>1 DEF SlotInOrder, AllPrecede
    <3>3. CASE i \notin DOMAIN B
      <4>1. PICK e \in DOMAIN S : e = i - Len(B) /\ b[i] = S[e]
        BY <1>7, <3>3
      <4>2. e < l
        BY <1>1, <1>6, <2>1, <3>1, <4>1
      <4> QED BY <1>0, <3>1, <4>1, <4>2 DEF SlotInOrder, Ordered
    <3> QED BY <3>2, <3>3
  <2> QED BY <2>2, <2>3
<1>12. Ordered(t) /\ AllPrecede(g, t)
  <2>1. ASSUME NEW i \in DOMAIN t, NEW j \in DOMAIN t, i < j PROVE Precedes(t[i], t[j])
    <3>1. m + i < m + j
      BY <1>3, <1>5, <2>1
    <3> QED BY <1>0, <1>8, <3>1 DEF SlotInOrder, Ordered
  <2> QED BY <1>0, <1>8, <2>1 DEF SlotInOrder, Ordered, AllPrecede
<1>13. AllPrecede(b, t)
  <2>1. SUFFICES ASSUME NEW i \in DOMAIN b, NEW j \in DOMAIN t PROVE Precedes(b[i], t[j])
    BY DEF AllPrecede
  <2>2. CASE i \in DOMAIN B /\ b[i] = B[i]
    BY <1>0, <1>8, <2>2 DEF SlotInOrder, AllPrecede
  <2>3. CASE /\ i - Len(B) \in DOMAIN S /\ i - Len(B) \in 1 .. m
             /\ b[i] = S[i - Len(B)]
    <3>1. i - Len(B) < m + j
      BY <1>3, <1>5, <2>3
    <3> QED BY <1>0, <1>8, <2>3, <3>1 DEF SlotInOrder, Ordered
  <2> QED BY <1>7, <2>2, <2>3
<1>14. ASSUME NEW i \in DOMAIN g, NEW j \in o.sent + 1 .. Len(b) PROVE Precedes(g[i], b[j])
  <2>1. j \in DOMAIN b
    BY <1>1, <1>6
  <2>2. CASE j \in DOMAIN B /\ b[j] = B[j]
    <3>1. j \in o.sent + 1 .. Len(B)
      BY <1>1, <1>6, <2>2
    <3> QED BY <1>0, <2>2, <3>1 DEF SlotInOrder
  <2>3. CASE j - Len(B) \in DOMAIN S /\ b[j] = S[j - Len(B)]
    BY <1>0, <2>3 DEF SlotInOrder, AllPrecede
  <2> QED BY <1>7, <2>1, <2>2, <2>3
<1>15. Behind(b) /\ Behind(t)
  BY <1>0, <1>7, <1>8 DEF SlotInOrder, Behind
<1>16. SlotInOrder(p, g)
  BY <1>0, <1>9, <1>11, <1>12, <1>13, <1>14, <1>15 DEF SlotInOrder
<1>17. ASSUME S = << >>, B = << >> PROVE p.staging = << >> /\ p.buf = << >>
  BY <1>1, <1>3, <1>5, <1>6, <1>9, <1>17
<1> QED BY <1>0, <1>10, <1>16, <1>17

\* h is g followed by the frames u + 1 .. u + n of the buffer B.
Extends(h, g, B, u, n) ==
    /\ h \in Seq(Msg) /\ Len(h) = Len(g) + n
    /\ DOMAIN h = 1 .. Len(h) /\ DOMAIN g = 1 .. Len(g) /\ DOMAIN B = 1 .. Len(B)
    /\ \A i \in DOMAIN h : \/ i \in DOMAIN g /\ h[i] = g[i]
                           \/ \E l \in u + 1 .. u + n :
                                 l \in DOMAIN B /\ l = u + (i - Len(g)) /\ h[i] = B[l]

\* What a peer has got after send() took frames u + 1 .. u + n of the buffer B.
LEMMA Taken ==
    ASSUME NEW B \in Seq(Msg), NEW g \in Seq(Msg), NEW u \in Nat, NEW n \in Nat,
           u + n <= Len(B), NEW h, h = g \o SubSeq(B, u + 1, u + n)
    PROVE  Extends(h, g, B, u, n)
<1>1. Len(B) \in Nat /\ Len(g) \in Nat
  OBVIOUS
<1>3. PICK s : s = SubSeq(B, u + 1, u + n)
  OBVIOUS
<1>4. s \in Seq(Msg) /\ Len(s) = n /\ \A i \in 1 .. n : s[i] = B[u + i]
  <2>1. \A i \in u + 1 .. u + n : i \in 1 .. Len(B)
    BY <1>1
  <2>2. /\ s \in Seq(Msg)
        /\ Len(s) = IF u + 1 <= u + n THEN (u + n) - (u + 1) + 1 ELSE 0
        /\ \A i \in 1 .. (u + n) - (u + 1) + 1 : s[i] = B[(u + 1) + i - 1]
    <3>1. u + 1 \in 1 .. Len(B) + 1 /\ u + n \in (u + 1) - 1 .. Len(B)
      BY <1>1
    <3> QED BY <1>1, <1>3, <3>1, SubSeqProperties
  <2>3. /\ (u + n) - (u + 1) + 1 = n /\ (~(u + 1 <= u + n) => n = 0)
        /\ \A i \in 1 .. n : (u + 1) + i - 1 = u + i
    BY <1>1
  <2> QED BY <2>2, <2>3
<1>5. /\ h \in Seq(Msg) /\ Len(h) = Len(g) + n
      /\ \A i \in 1 .. Len(h) : h[i] = IF i <= Len(g) THEN g[i] ELSE s[i - Len(g)]
  <2>1. h = g \o s
    BY <1>3
  <2>2. /\ g \o s \in Seq(Msg) /\ Len(g \o s) = Len(g) + Len(s)
        /\ \A i \in 1 .. Len(g) + Len(s) :
              (g \o s)[i] = IF i <= Len(g) THEN g[i] ELSE s[i - Len(g)]
    BY <1>4, ConcatProperties, Zenon
  <2> QED BY <1>4, <2>1, <2>2, Zenon
<1>6. DOMAIN h = 1 .. Len(h) /\ DOMAIN g = 1 .. Len(g) /\ DOMAIN B = 1 .. Len(B)
  BY <1>5
<1>7. ASSUME NEW i \in 1 .. Len(h), i <= Len(g) PROVE i \in DOMAIN g /\ h[i] = g[i]
  <2>1. i \in DOMAIN g
    BY <1>1, <1>5, <1>6, <1>7
  <2> QED BY <1>5, <1>7, <2>1
<1>8. ASSUME NEW i \in 1 .. Len(h), ~(i <= Len(g))
      PROVE  \E l \in u + 1 .. u + n :
                l \in DOMAIN B /\ l = u + (i - Len(g)) /\ h[i] = B[l]
  <2>2. PICK e : e = i - Len(g)
    OBVIOUS
  <2>3. e \in 1 .. n
    BY <1>1, <1>5, <1>8, <2>2
  <2>4. u + e \in u + 1 .. u + n /\ u + e \in DOMAIN B
    BY <1>1, <1>6, <2>3
  <2>5. h[i] = B[u + e]
    BY <1>4, <1>5, <1>8, <2>2, <2>3
  <2> QED BY <2>2, <2>4, <2>5
<1> QED BY <1>5, <1>6, <1>7, <1>8 DEF Extends

\* A sound slot p is what is left of o once a peer that has got h took n frames.
SentFrom(o, n, p, h) ==
    /\ h \in Seq(Msg) /\ Ordered(h) /\ Behind(h)
    /\ Sound(p) /\ SlotInOrder(p, h) /\ p.staging = o.staging
    /\ n = Len(o.buf) - o.sent => p.buf = << >>
    /\ o.buf = << >> => p.buf = << >>

\* send() takes the next n frames of the buffer: the peer gets them in order, and
\* what is left still follows what it has got.
LEMMA SentSound ==
    ASSUME NEW o, Sound(o), NEW g \in Seq(Msg), Ordered(g), Behind(g), SlotInOrder(o, g),
           NEW n \in 0 .. Len(o.buf) - o.sent,
           NEW h, h = g \o SubSeq(o.buf, o.sent + 1, o.sent + n),
           NEW p, p = Sent(o, n)
    PROVE  SentFrom(o, n, p, h)
<1>0. PICK B, S, u : B = o.buf /\ S = o.staging /\ u = o.sent
  OBVIOUS
<1>1. /\ o \in OutboundState /\ S \in Seq(Msg) /\ B \in Seq(Msg)
      /\ u \in Nat /\ o.latency \in Nat /\ o.conn \in Conns
      /\ Len(S) \in Nat /\ Len(B) \in Nat /\ BufCap \in Nat /\ Len(g) \in Nat
      /\ Len(S) <= StageCap /\ Len(B) <= BufCap
      /\ u <= Len(B) /\ o.latency = Len(B)
  BY <1>0, Capacities DEF Sound, OutboundState
<1>2. n \in Nat /\ u + n <= Len(B)
  BY <1>0, <1>1
<1>3. h = g \o SubSeq(B, u + 1, u + n)
  BY <1>0
<1>4. Extends(h, g, B, u, n)
  BY <1>1, <1>2, <1>3, Taken
<1>5. /\ h \in Seq(Msg) /\ Len(h) = Len(g) + n
      /\ DOMAIN h = 1 .. Len(h) /\ DOMAIN g = 1 .. Len(g) /\ DOMAIN B = 1 .. Len(B)
  BY <1>4 DEF Extends
<1>6. \A i \in DOMAIN h : \/ i \in DOMAIN g /\ h[i] = g[i]
                          \/ \E l \in u + 1 .. u + n :
                                l \in DOMAIN B /\ l = u + (i - Len(g)) /\ h[i] = B[l]
  BY <1>4 DEF Extends
<1>7. \A i \in DOMAIN g, j \in u + 1 .. Len(B) : Precedes(g[i], B[j])
  BY <1>0 DEF SlotInOrder
<1>8. /\ Ordered(B) /\ Ordered(S) /\ AllPrecede(B, S) /\ AllPrecede(g, S)
      /\ Behind(B) /\ Behind(S)
  BY <1>0 DEF SlotInOrder
<1>9. Ordered(h)
  <2>1. SUFFICES ASSUME NEW i \in DOMAIN h, NEW j \in DOMAIN h, i < j PROVE Precedes(h[i], h[j])
    BY DEF Ordered
  <2>2. CASE j \in DOMAIN g /\ h[j] = g[j]
    <3>1. i \in DOMAIN g /\ h[i] = g[i]
      BY <1>1, <1>5, <2>1, <2>2
    <3> QED BY <2>1, <2>2, <3>1 DEF Ordered
  <2>3. CASE \E l \in u + 1 .. u + n : l \in DOMAIN B /\ l = u + (j - Len(g)) /\ h[j] = B[l]
    <3>1. PICK l \in u + 1 .. u + n : l \in DOMAIN B /\ l = u + (j - Len(g)) /\ h[j] = B[l]
      BY <2>3
    <3>2. CASE i \in DOMAIN g /\ h[i] = g[i]
      <4>1. l \in u + 1 .. Len(B)
        BY <1>1, <1>2
      <4> QED BY <1>7, <3>1, <3>2, <4>1
    <3>3. CASE \E e \in u + 1 .. u + n : e \in DOMAIN B /\ e = u + (i - Len(g)) /\ h[i] = B[e]
      <4>1. PICK e \in u + 1 .. u + n : e \in DOMAIN B /\ e = u + (i - Len(g)) /\ h[i] = B[e]
        BY <3>3
      <4>2. e < l
        BY <1>1, <1>5, <2>1, <3>1, <4>1
      <4> QED BY <1>8, <3>1, <4>1, <4>2 DEF Ordered
    <3> QED BY <1>6, <3>2, <3>3
  <2> QED BY <1>6, <2>2, <2>3
<1>10. Behind(h) /\ AllPrecede(h, S)
  BY <1>6, <1>8 DEF Behind, AllPrecede
<1>11. CASE u + n = Len(B)
  <2>1. p = [o EXCEPT !.buf = << >>, !.sent = 0, !.latency = 0]
    BY <1>0, <1>11 DEF Sent
  <2>2. p = [conn |-> o.conn, staging |-> S, buf |-> << >>, sent |-> 0, latency |-> 0]
    BY <1>0, <1>1, <2>1 DEF OutboundState
  <2>3. << >> \in Seq(Msg)
    OBVIOUS
  <2>4. /\ p \in OutboundState /\ p.buf = << >> /\ p.staging = S /\ p.sent = 0 /\ p.latency = 0
    BY <1>1, <2>2, <2>3 DEF OutboundState
  <2>5. Sound(p)
    BY <1>1, <2>4 DEF Sound
  <2>6. Behind(<< >>) /\ Ordered(<< >>) /\ AllPrecede(<< >>, S)
    BY DEF Behind, Ordered, AllPrecede
  <2>7. SlotInOrder(p, h)
    BY <1>8, <1>10, <2>4, <2>6 DEF SlotInOrder
  <2> QED BY <1>0, <1>5, <1>9, <1>10, <2>4, <2>5, <2>7 DEF SentFrom
<1>12. CASE u + n # Len(B)
  <2>1. p = [o EXCEPT !.sent = u + n]
    BY <1>0, <1>12 DEF Sent
  <2>2. p = [conn |-> o.conn, staging |-> S, buf |-> B, sent |-> u + n, latency |-> o.latency]
    BY <1>0, <1>1, <2>1 DEF OutboundState
  <2>3. u + n \in Nat
    BY <1>1, <1>2
  <2>4. /\ p \in OutboundState /\ p.buf = B /\ p.staging = S /\ p.sent = u + n
        /\ p.latency = o.latency
    BY <1>1, <2>2, <2>3 DEF OutboundState
  <2>5. Sound(p)
    BY <1>1, <1>2, <2>4 DEF Sound
  <2>6. ASSUME NEW i \in DOMAIN h, NEW j \in u + n + 1 .. Len(B) PROVE Precedes(h[i], B[j])
    <3>1. j \in u + 1 .. Len(B) /\ j \in DOMAIN B
      BY <1>1, <1>2
    <3>2. CASE i \in DOMAIN g /\ h[i] = g[i]
      BY <1>7, <3>1, <3>2
    <3>3. CASE \E l \in u + 1 .. u + n : l \in DOMAIN B /\ l = u + (i - Len(g)) /\ h[i] = B[l]
      <4>1. PICK l \in u + 1 .. u + n : l \in DOMAIN B /\ h[i] = B[l]
        BY <3>3
      <4>2. l < j
        BY <1>1, <1>2, <4>1
      <4> QED BY <1>8, <3>1, <4>1, <4>2 DEF Ordered
    <3> QED BY <1>6, <3>2, <3>3
  <2>7. SlotInOrder(p, h)
    BY <1>8, <1>10, <2>4, <2>6 DEF SlotInOrder
  <2>8. n # Len(B) - u
    BY <1>1, <1>2, <1>12
  <2>9. B # << >> \/ p.buf = << >>
    BY <2>4
  <2> QED BY <1>0, <1>5, <1>9, <1>10, <2>4, <2>5, <2>7, <2>8, <2>9 DEF SentFrom
<1> QED BY <1>11, <1>12

\* A send on a sound slot, from beginSends or from an event of epoll_out_.
LEMMA SendStep ==
    ASSUME ServerIInv, NEW fd \in Fds, outbound_map[fd] # None,
           NEW o, Sound(o),
           \A k \in DOMAIN conns : conns[k].fd = fd => SlotInOrder(o, conns[k].got),
           NEW n \in 0 .. Len(o.buf) - o.sent, sendResponse(fd, o, n),
           UNCHANGED <<Outside, routing, condemned_outbound>>,
           writable_fds' \subseteq writable_fds, writable_fds \subseteq writable_fds' \cup {fd},
           epollout_armed' \subseteq epollout_armed \cup {fd},
           \/ condemned_inbound[fd]
           \/ fd \in writable_fds'
           \/ o.staging = << >> /\ (o.buf = << >> \/ n = Len(o.buf) - o.sent)
    PROVE  SlotStep
<1>1. PICK p : p = Sent(o, n)
  OBVIOUS
<1>2. PICK cs : cs = [k \in DOMAIN conns |->
                        IF conns[k].fd = fd
                        THEN [conns[k] EXCEPT !.got = conns[k].got \o SubSeq(o.buf, o.sent + 1, o.sent + n)]
                        ELSE conns[k]]
  OBVIOUS
<1>3. conns' = cs /\ outbound_map' = [outbound_map EXCEPT ![fd] = p]
  BY <1>1, <1>2 DEF sendResponse
<1>4. /\ conns \in Seq(Connection) /\ Len(conns) \in Nat /\ DOMAIN conns = 1 .. Len(conns)
      /\ \A k \in DOMAIN conns : conns[k] \in Connection
  BY DEF ServerIInv, ServerTypeOK
<1>5. PICK k \in DOMAIN conns : conns[k].fd = fd
  BY SlotFields DEF ServerIInv, SlotsLinked
<1>6. /\ Sound(p) /\ p.staging = o.staging
      /\ n = Len(o.buf) - o.sent => p.buf = << >>
      /\ o.buf = << >> => p.buf = << >>
  <2>1. PICK g : g = conns[k].got
    OBVIOUS
  <2>2. g \in Seq(Msg) /\ Ordered(g) /\ Behind(g) /\ SlotInOrder(o, g)
    BY <1>4, <1>5, <2>1, ConnFields DEF ServerIInv, DeliveryInOrder
  <2>3. PICK h : h = g \o SubSeq(o.buf, o.sent + 1, o.sent + n)
    OBVIOUS
  <2>4. SentFrom(o, n, p, h)
    BY <1>1, <2>2, <2>3, SentSound
  <2> QED BY <2>4 DEF SentFrom
<1>7. ASSUME NEW l \in DOMAIN conns
      PROVE  /\ cs[l] \in Connection /\ cs[l].fd = conns[l].fd /\ cs[l].client = conns[l].client
             /\ conns[l].fd # fd => cs[l].got = conns[l].got
             /\ conns[l].fd = fd => /\ cs[l].got \in Seq(Msg)
                                    /\ Ordered(cs[l].got) /\ Behind(cs[l].got)
                                    /\ SlotInOrder(p, cs[l].got)
  <2>1. CASE conns[l].fd # fd
    BY <1>2, <1>4, <2>1
  <2>2. CASE conns[l].fd = fd
    <3>1. PICK g, h : g = conns[l].got /\ h = g \o SubSeq(o.buf, o.sent + 1, o.sent + n)
      OBVIOUS
    <3>2. g \in Seq(Msg) /\ Ordered(g) /\ Behind(g) /\ SlotInOrder(o, g)
      BY <1>4, <2>2, <3>1, ConnFields DEF ServerIInv, DeliveryInOrder
    <3>3. h \in Seq(Msg) /\ Ordered(h) /\ Behind(h) /\ SlotInOrder(p, h)
      <4>1. SentFrom(o, n, p, h)
        BY <1>1, <3>1, <3>2, SentSound
      <4> QED BY <4>1 DEF SentFrom
    <3>4. cs[l] = [conns[l] EXCEPT !.got = h]
      BY <1>2, <2>2, <3>1
    <3>5. cs[l] \in Connection /\ cs[l].got = h /\ cs[l].fd = conns[l].fd
          /\ cs[l].client = conns[l].client
      BY <1>4, <3>3, <3>4 DEF Connection
    <3> QED BY <2>2, <3>3, <3>5
  <2> QED BY <2>1, <2>2
<1>8. cs \in Seq(Connection) /\ Len(cs) = Len(conns) /\ DOMAIN cs = DOMAIN conns
  <2>1. DOMAIN cs = 1 .. Len(conns)
    BY <1>2, <1>4
  <2>2. cs \in [1 .. Len(conns) -> Connection]
    BY <1>2, <1>4, <1>7
  <2> QED BY <1>4, <2>1, <2>2
<1>9. ASSUME NEW q, Behind(q) PROVE Behind(q)'
  BY <1>9 DEF Behind, Outside
<1>10. ASSUME NEW l \in DOMAIN conns, conns[l].fd = fd
       PROVE  (Ordered(conns[l].got) /\ Behind(conns[l].got) /\ SlotInOrder(p, conns[l].got))'
  <2>1. PICK h : h = cs[l].got /\ h = conns'[l].got
    BY <1>3
  <2>2. Ordered(h) /\ Behind(h) /\ SlotInOrder(p, h)
    BY <1>7, <1>10, <2>1
  <2>3. Behind(h)' /\ SlotInOrder(p, h)'
    BY <1>9, <2>2 DEF SlotInOrder
  <2> QED BY <2>1, <2>2, <2>3 DEF Ordered, Behind, SlotInOrder, AllPrecede, Precedes
<1>11. /\ p \in OutboundState
       /\ Len(p.staging) <= StageCap /\ Len(p.buf) <= BufCap
       /\ p.sent <= Len(p.buf) /\ p.latency = Len(p.buf)
  BY <1>6 DEF Sound
<1>12. /\ writable_fds' \subseteq writable_fds \cup {fd}
       /\ condemned_inbound[fd] \/ (p.staging = << >> /\ p.buf = << >>) \/ fd \in writable_fds'
       /\ UNCHANGED <<Outside, condemned_outbound>>
  BY <1>6
<1>13. /\ conns' \in Seq(Connection) /\ Len(conns') = Len(conns) /\ DOMAIN conns' = DOMAIN conns
       /\ \A l \in DOMAIN conns : /\ conns'[l].fd = conns[l].fd
                                  /\ conns'[l].client = conns[l].client
                                  /\ conns[l].fd # fd => conns'[l].got = conns[l].got
  BY <1>3, <1>7, <1>8
<1> QED BY <1>3, <1>9, <1>10, <1>11, <1>12, <1>13, OneSlotStep, ZenonT(40)

\* The rest of a step that sends: the loop goes on or starts over.
LEMMA SendingInv ==
    ASSUME ServerIInv, SlotStep, UNCHANGED <<Outside, error_channel, routing, ofd>>,
           todo' \subseteq todo, opc \in {"send", "events"}, opc' \in {"scan", "send", "events"}
    PROVE  ServerIInv'
<1>1. ComingInOrder'
  BY DEF ServerIInv, ComingInOrder, Outside
<1>2. Carried'
  BY DEF ServerIInv, Carried, SlotStep, Outside
<1>3. ServerTypeOK'
  BY DEF ServerIInv, ServerTypeOK, SlotStep, Outside
<1> QED BY <1>1, <1>2, <1>3 DEF ServerIInv, SlotStep

\* A slot with its connection: what a send starts from.
LEMMA SlotReady ==
    ASSUME ServerIInv, NEW fd \in Fds, outbound_map[fd] # None,
           NEW o, o = outbound_map[fd]
    PROVE  /\ Sound(o) /\ inbound_map[fd] # None
           /\ \A k \in DOMAIN conns : conns[k].fd = fd =>
                 conns[k].got \in Seq(Msg) /\ SlotInOrder(o, conns[k].got)
           /\ \/ condemned_inbound[fd]
              \/ o.staging = << >> /\ o.buf = << >>
              \/ fd \in writable_fds
<1>1. Sound(o) /\ inbound_map[fd] # None
  BY SlotFields DEF Sound
<1>2. ASSUME NEW k \in DOMAIN conns, conns[k].fd = fd
      PROVE  conns[k].got \in Seq(Msg) /\ SlotInOrder(o, conns[k].got)
  <2>1. conns[k] \in Connection
    BY DEF ServerIInv, ServerTypeOK
  <2>2. conns[k].got \in Seq(Msg)
    BY <2>1, ConnFields
  <2> QED BY <1>2, <2>2 DEF ServerIInv, DeliveryInOrder
<1>3. \/ condemned_inbound[fd]
      \/ o.staging = << >> /\ o.buf = << >>
      \/ fd \in writable_fds
  BY DEF ServerIInv, PendingIsTracked
<1> QED BY <1>1, <1>2, <1>3

\* beginSends for one descriptor: it is skipped, sent to, or released.
LEMMA BeginSendInv ==
    ASSUME ServerIInv, NEW fd \in Fds, BeginSend(fd)
    PROVE  ServerIInv'
<1>1. /\ UNCHANGED <<inbound_map, client_map, ready, in_ring, out_ring, error_channel, opc,
                     ofd, routing, serial>>
      /\ opc = "send" /\ todo' = todo \ {fd}
  BY DEF BeginSend, rings
<1>2. CASE /\ condemned_inbound[fd] \/ outbound_map[fd] = None
           /\ writable_fds' = writable_fds \ {fd}
           /\ UNCHANGED <<conns, outbound_map, flags, epollout_armed>>
  <2>1. UNCHANGED <<conns, outbound_map, condemned_inbound, condemned_outbound, epollout_armed>>
    BY <1>2 DEF flags
  <2>2. SameConns
    BY <2>1, ConnsUnchanged
  <2>3. SlotsLinked' /\ RoutesKnown' /\ DeliveryInOrder' /\ SentWithin'
    BY <1>1, <2>1, <2>2, SlotsKept, OrderKept
  <2>4. TwoPhase' /\ PendingIsTracked'
    BY <1>1, <1>2, <2>1 DEF ServerIInv, TwoPhase, PendingIsTracked
  <2>5. SlotStep
    BY <1>1, <1>2, <2>1, <2>3, <2>4 DEF SlotStep, ServerIInv, ServerTypeOK
  <2> QED BY <1>1, <2>1, <2>5, SendingInv DEF Outside
<1>3. ASSUME ~condemned_inbound[fd], outbound_map[fd] # None,
             NEW o, o = appendResponse(outbound_map[fd]),
             NEW n \in 0 .. Len(o.buf) - o.sent, sendResponse(fd, o, n),
             epollout_armed' \in IF n < Len(o.buf) - o.sent THEN Arm(fd) ELSE {epollout_armed},
             writable_fds' = IF n = Len(o.buf) - o.sent /\ o.staging = << >>
                             THEN writable_fds \ {fd} ELSE writable_fds,
             UNCHANGED flags
      PROVE  ServerIInv'
  <2>1. UNCHANGED <<Outside, routing, condemned_outbound>>
    BY <1>1, <1>3 DEF flags, Outside
  <2>2. PICK x : x = outbound_map[fd]
    OBVIOUS
  <2>3. PICK k \in DOMAIN conns : conns[k].fd = fd
    BY <1>3, SlotFields DEF ServerIInv, SlotsLinked
  <2>4. Sound(x) /\ (\A l \in DOMAIN conns : conns[l].fd = fd =>
                        conns[l].got \in Seq(Msg) /\ SlotInOrder(x, conns[l].got))
        /\ ((x.staging = << >> /\ x.buf = << >>) \/ fd \in writable_fds)
    BY <1>3, <2>2, SlotReady
  <2>5. o = appendResponse(x)
    BY <1>3, <2>2
  <2>6. ASSUME NEW l \in DOMAIN conns, conns[l].fd = fd
        PROVE  /\ Sound(o) /\ SlotInOrder(o, conns[l].got)
               /\ x.staging = << >> /\ x.buf = << >> => o.staging = << >> /\ o.buf = << >>
    <3>1. PICK g \in Seq(Msg) : g = conns[l].got /\ SlotInOrder(x, g)
      BY <2>4, <2>6
    <3> QED BY <2>4, <2>5, <3>1, AppendSound
  <2>7. /\ Sound(o)
        /\ \A l \in DOMAIN conns : conns[l].fd = fd => SlotInOrder(o, conns[l].got)
        /\ (o.staging = << >> /\ o.buf = << >>) \/ fd \in writable_fds
    BY <2>3, <2>4, <2>6
  <2>8. /\ writable_fds' \subseteq writable_fds /\ writable_fds \subseteq writable_fds' \cup {fd}
        /\ \/ fd \in writable_fds'
           \/ o.staging = << >> /\ (o.buf = << >> \/ n = Len(o.buf) - o.sent)
    BY <1>3, <2>7
  <2>9. epollout_armed' \subseteq epollout_armed \cup {fd}
    BY <1>3 DEF Arm
  <2>10. SlotStep
    BY <1>3, <2>1, <2>7, <2>8, <2>9, SendStep
  <2> QED BY <1>1, <2>1, <2>10, SendingInv
<1>4. CASE outbound_map[fd] # None /\ Release(fd) /\ UNCHANGED <<conns, condemned_inbound>>
  <2>1. inbound_map[fd] # None
    BY <1>4, SlotReady
  <2>2. UNCHANGED <<conns, Outside, routing>>
    BY <1>1, <1>4 DEF Outside
  <2>3. SlotStep
    BY <1>4, <2>1, <2>2, ReleaseStep
  <2> QED BY <1>1, <2>2, <2>3, SendingInv
<1> QED BY <1>2, <1>3, <1>4 DEF BeginSend

\* One event of epoll_out_: it is skipped, releases its slot, or sends.
LEMMA OutEventInv ==
    ASSUME ServerIInv, NEW fd \in Fds, OutEvent(fd)
    PROVE  ServerIInv'
<1>1. /\ UNCHANGED <<inbound_map, client_map, ready, in_ring, out_ring, error_channel,
                     ofd, routing, serial>>
      /\ opc = "events" /\ todo' = todo \ {fd} /\ opc' \in {"scan", "events"}
  BY DEF OutEvent, rings
<1>2. CASE /\ UNCHANGED <<conns, outbound_map, flags, epollout_armed, writable_fds>>
  <2>1. UNCHANGED <<conns, outbound_map, condemned_inbound, condemned_outbound,
                    epollout_armed, writable_fds>>
    BY <1>2 DEF flags
  <2>2. SameConns
    BY <2>1, ConnsUnchanged
  <2>3. SlotsLinked' /\ RoutesKnown' /\ DeliveryInOrder' /\ SentWithin'
    BY <1>1, <2>1, <2>2, SlotsKept, OrderKept
  <2>4. TwoPhase' /\ PendingIsTracked'
    BY <1>1, <2>1 DEF ServerIInv, TwoPhase, PendingIsTracked
  <2>5. SlotStep
    BY <1>1, <2>1, <2>3, <2>4 DEF SlotStep, ServerIInv, ServerTypeOK
  <2> QED BY <1>1, <2>1, <2>5, SendingInv DEF Outside
<1>3. ASSUME ~condemned_inbound[fd], outbound_map[fd] # None,
             NEW o, o = outbound_map[fd],
             NEW n \in 0 .. Len(o.buf) - o.sent, sendResponse(fd, o, n),
             epollout_armed' \in IF n = Len(o.buf) - o.sent THEN {epollout_armed \ {fd}}
                                                            ELSE Arm(fd),
             UNCHANGED <<flags, writable_fds>>
      PROVE  ServerIInv'
  <2>1. UNCHANGED <<Outside, routing, condemned_outbound>>
    BY <1>1, <1>3 DEF flags, Outside
  <2>2. /\ Sound(o)
        /\ \A l \in DOMAIN conns : conns[l].fd = fd => SlotInOrder(o, conns[l].got)
        /\ (o.staging = << >> /\ o.buf = << >>) \/ fd \in writable_fds
    BY <1>3, SlotReady
  <2>3. /\ writable_fds' \subseteq writable_fds /\ writable_fds \subseteq writable_fds' \cup {fd}
        /\ \/ fd \in writable_fds'
           \/ o.staging = << >> /\ (o.buf = << >> \/ n = Len(o.buf) - o.sent)
    BY <1>3, <2>2
  <2>4. epollout_armed' \subseteq epollout_armed \cup {fd}
    BY <1>3 DEF Arm
  <2>5. SlotStep
    BY <1>3, <2>1, <2>2, <2>3, <2>4, SendStep
  <2> QED BY <1>1, <2>1, <2>5, SendingInv
<1>4. CASE SendFails(fd) /\ Release(fd) /\ UNCHANGED <<conns, condemned_inbound>>
  <2>1. inbound_map[fd] # None
    BY <1>4 DEF SendFails, ServerIInv, SlotsLinked
  <2>2. UNCHANGED <<conns, Outside, routing>>
    BY <1>1, <1>4 DEF Outside
  <2>3. SlotStep
    BY <1>4, <2>1, <2>2, ReleaseStep
  <2> QED BY <1>1, <2>2, <2>3, SendingInv
<1> QED BY <1>2, <1>3, <1>4 DEF OutEvent

-----------------------------------------------------------------------------
(* The theorems                                                            *)

\* A gateway that has just started satisfies the invariant.
LEMMA ServerInitInv ==
    ASSUME Init
    PROVE  ServerIInv
<1>1. << >> \in Seq(Connection) /\ << >> \in Seq(Clients) /\ << >> \in Seq(Msg)
      /\ << >> \in Seq(Report) /\ << >> \in Seq(Routed) /\ Len(<< >>) = 0
      /\ DOMAIN << >> = {}
  OBVIOUS
<1>2. /\ \A fd \in Fds : inbound_map[fd] = None /\ outbound_map[fd] = None
      /\ \A fd \in Fds : ~condemned_inbound[fd] /\ ~condemned_outbound[fd]
      /\ condemned_inbound \in [Fds -> BOOLEAN] /\ condemned_outbound \in [Fds -> BOOLEAN]
      /\ inbound_map \in [Fds -> InboundState \cup {None}]
      /\ outbound_map \in [Fds -> OutboundState \cup {None}]
      /\ client_map \in [Clients -> Fds \cup {0, -1}]
      /\ \A c \in Clients : client_map[c] = 0
  BY DEF Init
<1>3. 0 \notin Fds /\ 1 \in 1 .. MaxFd + 1
  BY Capacities DEF Fds
<1>4. ServerTypeOK
  BY <1>1, <1>2, <1>3, Capacities DEF Init, ServerTypeOK
<1>5. Carried
  BY <1>1, Capacities DEF Init, Carried
<1>6. SlotsLinked /\ TwoPhase /\ RoutesKnown /\ SentWithin /\ PendingIsTracked
  BY <1>1, <1>2, <1>3 DEF Init, SlotsLinked, TwoPhase, RoutesKnown, SentWithin, PendingIsTracked
<1>7. ComingInOrder /\ DeliveryInOrder
  BY <1>1 DEF Init, ComingInOrder, DeliveryInOrder
<1> QED BY <1>4, <1>5, <1>6, <1>7 DEF ServerIInv

\* Every step of a peer, of the engine and of either thread preserves it.
LEMMA ServerStepInv ==
    ASSUME ServerIInv, [Next]_vars
    PROVE  ServerIInv'
<1>1. CASE \E c \in Clients : Connect(c)
  BY <1>1, ConnectInv
<1>2. CASE \E k \in DOMAIN conns : HangUp(k) \/ \E f \in {"ok", "bad"} : SendFrame(k, f)
  BY <1>2, PeerInv
<1>3. CASE \E others \in SUBSET Clients : Answer(others)
  BY <1>3, AnswerInv
<1>4. CASE handleRequests
  BY <1>4, InboundTurnInv, ReadyInv, RegisterInv, RegisterFailsInv, CondemnInv, ReadFrameInv
     DEF handleRequests
<1>5. CASE serveResponses
  BY <1>5, LoopInv, ScanReapInv, RouteInv, DeliverInv, DrainErrorInv, BeginSendInv, OutEventInv
     DEF serveResponses
<1>6. CASE UNCHANGED vars
  <2>1. /\ UNCHANGED <<conns, inbound_map, outbound_map, client_map, condemned_inbound,
                       condemned_outbound, ready, in_ring, out_ring, error_channel>>
        /\ UNCHANGED <<opc, ofd, routing, writable_fds, epollout_armed, todo, serial>>
    BY <1>6 DEF vars, flags, rings, outVars
  <2>2. SameConns
    BY <2>1, ConnsUnchanged
  <2>3. SlotsLinked' /\ RoutesKnown' /\ ComingInOrder' /\ DeliveryInOrder' /\ SentWithin'
    BY <2>1, <2>2, SlotsKept, OrderKept
  <2>4. TwoPhase' /\ PendingIsTracked' /\ Carried'
    BY <2>1 DEF ServerIInv, TwoPhase, PendingIsTracked, Carried
  <2>5. ServerTypeOK'
    BY <2>1 DEF ServerIInv, ServerTypeOK
  <2> QED BY <2>3, <2>4, <2>5 DEF ServerIInv
<1> QED BY <1>1, <1>2, <1>3, <1>4, <1>5, <1>6 DEF Next

\* The invariant of the gateway: the slots the two threads share, the phases of a
\* close and the order of the responses on their way, after any interleaving of
\* handleRequests and serveResponses.
THEOREM ServerInvariant == Spec => []ServerIInv
<1>1. Init => ServerIInv
  BY ServerInitInv
<1>2. ServerIInv /\ [Next]_vars => ServerIInv'
  BY ServerStepInv
<1> QED BY <1>1, <1>2, PTL DEF Spec

\* The state of both threads is well-typed, and no ring, staging queue or write
\* buffer exceeds its capacity.
THEOREM ServerTypeCorrect == Spec => []ServerTypeOK
<1>1. ServerIInv => ServerTypeOK
  BY DEF ServerIInv
<1> QED BY <1>1, ServerInvariant, PTL

\* handleDisconnectsInbound closes a descriptor only when handleDisconnectsOutbound
\* or a failed send has dropped every trace of it: the next accept() finds it clean.
THEOREM CloseIsClean == Spec => []FreeSlotIsClean
<1>1. ASSUME ServerIInv PROVE FreeSlotIsClean
  <2>1. ASSUME NEW fd \in Fds \ OpenFds PROVE \A k \in DOMAIN conns : conns[k].fd # fd
    BY DEF OpenFds
  <2> QED BY <1>1, <2>1, FreeIsClean DEF FreeSlotIsClean
<1> QED BY <1>1, ServerInvariant, PTL

\* A response staged or partly sent on a live connection is on a descriptor that
\* beginSends visits, and every buffered frame has its entry in latency_batch_.
THEOREM PendingTracked == Spec => []PendingIsTracked
<1>1. ServerIInv => PendingIsTracked
  BY DEF ServerIInv
<1> QED BY <1>1, ServerInvariant, PTL

\* A route of client_map_ names an open descriptor of a connection of its client.
THEOREM RoutesLive == Spec => []RouteIsLive
<1>1. ASSUME ServerIInv PROVE RouteIsLive
  <2>1. ASSUME NEW c \in Clients, client_map[c] > 0 PROVE client_map[c] \in Fds
    <3>1. client_map[c] \in Fds \cup {0, -1}
      BY <1>1 DEF ServerIInv, ServerTypeOK
    <3> QED BY <2>1, <3>1
  <2> QED BY <1>1, <2>1 DEF ServerIInv, RoutesKnown, RouteIsLive
<1> QED BY <1>1, ServerInvariant, PTL

\* A peer gets the engine's responses in the order they were made, none twice.
THEOREM DeliveryOrdered == Spec => []DeliveredInOrder
<1>1. ASSUME ServerIInv PROVE DeliveredInOrder
  <2>1. \A k \in DOMAIN conns : Ordered(conns[k].got)
    BY <1>1 DEF ServerIInv, DeliveryInOrder
  <2> QED BY <2>1 DEF DeliveredInOrder, Ordered, Precedes
<1> QED BY <1>1, ServerInvariant, PTL
=============================================================================

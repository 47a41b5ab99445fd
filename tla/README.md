# A TLA+ model of the client-exchange simulation

The repository holds a small exchange (`exchange/`): a TCP gateway with two
threads, a matching engine with one, and lock-free rings between them; and a load
generator (`client/`) that keeps many connections busy. This directory models its
logic in TLA+, checks it with TLC on small instances, and proves the safety of every
component, for every size, with TLAPS.

## The system

| Component | State | Operations | Talks to |
|---|---|---|---|
| `Orderbook` | OrderId map, price-level queues per side, cached best prices, level counters, order pool | `process` (NEW, CANCEL, MODIFY), `matchOrders`, `matchMarket` | called by the engine; pushes MATCH on the outbound ring |
| `OrderPool`, `PriceLevelQueue` | free list; intrusive lists | `allocate`, `deallocate`; `push`, `pop`, `remove` | private to the book |
| `Engine` | the current message and the one popped ahead, `next_id_` | `handleMatching`, `executeRequest` | pops the inbound ring, pushes the outbound ring |
| `RingBuffer` | two atomic indices, slots | `push`, `pop` | one producer thread, one consumer thread |
| `Server`, inbound thread | `inbound_map_`, `client_map_`, condemned flags | accept, read, parse, validate, `handleDisconnectsInbound` | epoll, inbound ring, error channel |
| `Server`, outbound thread | `outbound_map_`, `writable_fds_`, `epollout_armed_` | scan of condemned descriptors, routing, batching, sending | outbound ring, error channel, epoll |
| `Exchange`, `main` | the stop flag; the lifetime of everything else | `run`, `stop` on a signal, destruction | every thread |
| `LoadGenerator` | per client: pipeline slots, pending types, write buffer, backoff | connect, read, top up, flush, reconnect | the exchange, over TCP |
| `Buffer` | bytes, length, read offset, bytes written | `read_from`, `advance`; `append`, `write_to`, `try_reset`; `clear` | the sockets, in server and client |
| `LatencyHandler` | a bounded store of samples | `push_sample`, the report on destruction | the outbound thread |
| validation, protocol, order factory | - | pure functions and random data | the components above |
| `bench/` scripts, trade log | - | measurement and output | - |

What makes it hard:

* **Three threads without locks.** Each ring has one producer and one consumer that
  see each other's index late. The two server threads share slots indexed by
  descriptor, and the kernel reuses descriptors.
* **Two look-ahead loops.** The engine and the router each hold one message popped
  ahead of the one they work on.
* **Incremental indexes.** The best prices and level counters are kept by hand in
  five places; both matching loops trust them.
* **Limits met silently.** Pool, rings, staging rings and latency batch are bounded;
  the code rarely looks at the result of a push.
* **Partial progress.** Sends and receives stop in the middle of a frame, connections
  are lost with requests outstanding, a market order fills in part.
* **Reused memory and late destruction.** Pool slots keep the links of their last
  order; members are destroyed before the threads that use them are joined.

`PROJECT.json` lists these as hazards at their lines, each with the properties that
would catch it, and a note where the properties do not reach.

What makes each component correct: the book's indexes agree, fills respect price
and time, and no slot is lost; the engine executes what was accepted, in order and
once; the ring is a FIFO without races; the server closes each descriptor exactly
when both threads are done with it, leaves no route to it, and neither forgets nor
reorders responses; a buffer passes on exactly the bytes it was given; the client
never has more requests outstanding than slots and does not stall of itself; the
process ends when it is told to.

## Modules

**`OrderBook`** models `orderbook.cpp` with the pool and the queues. The value
`book` has the members of the class: `orders` (the map), `levels` (a queue is the
sequence of its ids), `best`, `nonEmpty`, `free` (the free slots of the pool). The
code writes each operation once per side; here the side is a parameter, and
`Sentinel`, `Better` and `UpdateBest` carry the difference. `process(r)` is one step
for the dispatch and the add, cancel or modify it performs; each iteration of
`matchOrders` and `matchMarket` is a step of its own (`MatchStep`, `MarketStep`),
because it pushes two messages that another thread can see. `req`, `left`, `filled`,
`result` and `out` are the locals of the call and what it has pushed. Requests carry
prices up to `TopPrice`, which may lie past `MaxPrice`, because nothing in the code
compares the two; one that gets a slot at such a price indexes the ladder out of bounds,
and from there on (`pc = "undefined"`) the model says nothing of the program. Timestamps
are left out, and `prefetch` has no effect on state.

**`PriceLevelQueue`** is the memory under that: the slots of the pool with the id and
level of the order in them and its `prev` and `next` links, `head`, `tail` and `size`
of each level, the stack `free_list` and the map to slots. `addOrder`, `cancelOrder`
and `fillFront` call `allocate`, `push`, `remove`, `pop` and `deallocate` in the code's
order, and like the code leave the links of a removed order in its slot.
**`LevelQueues`** is what `OrderBook` has in its place, one FIFO of ids per level and
a counter of free slots; `RefinesLevels` states that the memory implements it, and is
the licence for the abstraction in `OrderBook`.

**`Validation`** has the field checks of `validation.hpp`; a field of an enumeration
may hold a value outside it (`"OTHER"`), as bytes copied from a frame may.

**`Engine`** extends it with `handleMatching` and `executeRequest`: `cur` and `nxt`
are the loop's two messages, `loc` where it is. `Submit` and `Route` are the
server's ends of the two rings, with validation in front of the first one;
`RequestStop` is `Exchange::stop`. The variables `accepted`, `executed` and `sent` are
history. `EngineTypeOK` asks that what passes validation is a request of `OrderBook`:
a known side and type, a quantity up to the limit, a limit price that is not 0. The two
pushes of a fill are one step with two outcomes. In `Emit` a pop by the server comes
before or after both; `EmitSecond` is the one interleaving that this misses, a pop
between them on a full ring, where the first MATCH is dropped and the second kept.

**`SpscQueue`** says what the threads expect of a ring, a bounded FIFO.
**`RingBuffer`** models `ring_buffer.hpp` at the granularity of its loads and
stores. An acquire load may return any value stored since the last one the thread
saw; the release store publishes the slot with the index. `RefinesFifo` states that
`RingBuffer` implements `SpscQueue`, mapping the queue to the items between the
indices.

**`Server`** models both threads of the gateway. A step is what lies between two
accesses to state that the other thread writes. `conns` is the kernel's view:
connections are numbered in the order they are opened, and `fd` is the descriptor a
connection has. The condemned flags, `client_map`, `inbound_map`, `outbound_map`,
`writable_fds` and `epollout_armed` are the members of the same names. `ready` holds
the events of the current `epoll_wait` of the inbound thread. `opc` is the outbound
thread's place in `serveResponses`; the scan of the condemned flags is two steps per
descriptor (`ScanHit`, `ScanReap`), because the flag and the slot are two loads, and
routing resolves (`RouteFirst`, `RouteAhead`) and delivers (`Deliver`) in different
steps, because the code does. A frame is valid (`ok`) or not (`bad`). The engine
answers each request with one message, or two on a trade.

The set-up of an accepted descriptor may fail in both ways the code distinguishes
(`RegisterFails`), and so may arming `EPOLLOUT` (`Arm`).

**`FrameStream`** models one direction of a connection at the level of bytes: the
`Buffer` of the writer, the kernel's bytes and the `Buffer` of the reader, with every
operation of the class. `mode` selects the direction, because the two sides use the
class differently: the client builds a batch only on an empty buffer and receives
once per event, the server appends behind what is unsent and receives until the socket
is empty or the buffer full. One turn of the loop that fills a buffer is a step
(`AppendFrame`, `left` turns to go); a byte is its position in the stream, with frames
numbered modulo `Wrap`, so streams have no end and TLC still finds finitely many
states. `Send` and `readRequest`/`handleReadable` move any number of bytes.
`Reconnect` drops the connection at any moment but inside that loop, which does not
look at the socket.

**`LoadGenerator`** models one client, paced (`EXPECTED_THROUGHPUT` above 0) or as
fast as it can, which is the configured mode: slots, pending types, the unsent part of
a batch, the inter-arrival time (`due`), backoff, and the exchange as that client
meets it. `Unblock` is the end of a turn of the event loop, which serves paced clients
that had no event. Answers to requests of a lost connection may arrive on the next
one, because the server routes by client id. The variable `lossy` says whether the
rings of the exchange may be full, so that a request or its answer disappears
(`server.cpp:291`, `engine.cpp:145`, `connection_info.hpp:96`).

**`Exchange`** models the process: `main` installs the signal handlers, starts the
threads, waits for the stop flag and destroys the members. A thread is running or
not; what it does meanwhile is the business of the other modules. The flag and the
notification are two steps of the handler. `blocked` is the main thread inside
`stop_.wait`: a thread that stores the flag without notifying leaves it there.
`destroyed` holds the objects whose lifetime is over; a running thread that uses one
may crash the process at any step (`Crash`), which is what undefined behaviour is
reduced to.

`MC*` modules hold the constants and symmetry sets of the TLC instances, and
`FillsBalance`, which needs sums. An operator with a comment that starts with
`Mutant:` is a version of the definition after it with a plausible defect; it is not
part of the model and shows that a property can fail. `PROJECT.json` maps every
definition to the lines it models.

## What TLC checks

| Run | Checks | Instance |
|---|---|---|
| `book` | types, `MapMatchesQueues`, `LevelIndexExact`, `PoolAccounted`, `RestingUncrossed`, `AnswerIsTrue`, `PriceTimePriority`, `NoQueueJump`, `ChangesAreAuthorised`, `FillsBalance` | 4 ids, 2 clients, 3 ticks and a price past them, quantities 1 and 2, a pool of 3 |
| `queue` | types, `LinksWellFormed`, `SlotsPartitioned`, `RefinesLevels` | 4 ids, 2 levels, 3 slots |
| `engine` | types, `PipelineIsFifo`, `IdsAreFresh`, `NoMatchAfterCancel`, `AcceptedIsExecuted`, `StopEnds` | rings of 2, 4 messages of 8 valid and 4 invalid kinds, with limit and market orders of quantity 0 and a price past the ladder, 3 ids and a pool of 2 |
| `ring` | types, `NoSlotRace`, `RefinesFifo`, `Drains` | 4 slots, 3 values |
| `server` | types, `FreeSlotIsClean`, `PendingIsTracked`, `RouteIsLive`, `DeliveredInOrder` | 2 clients, 2 descriptors, 2 connections, 2 frames |
| `server_live` | `HungUpIsClosed` | 2 clients, 1 descriptor, 2 connections |
| `stream` | types, `StreamIntact`, `RoomToRead`, `AllGoesThrough` | frames of 3 bytes, buffers of 2 frames, 4 bytes in the kernel |
| `client` | types, `PipelineAccounted`, `NothingStalls` | pipeline of 2, 3 requests and 3 responses in transit, both modes, answers lost or not |
| `exchange` | types, `SharedOutlivesThreads`, `SignalEnds` | 3 samples |

What they show, beyond types. `book`: the indexes of the book agree, nothing trades
out of turn or jumps a queue, only an order's owner and trades change it, both sides
of a fill lose the same quantity, and what `process` returns and pushes is what happened:
`AnswerIsTrue` says for each kind of request what its answer means, the acknowledgement
of a market order that was filled in part included. One clause is as weak as the code: a
NEW limit order that is acknowledged and did not trade is in the book *or the pool is
exhausted*. `NoQueueJump` has an order that is entered, also by a modify of price or
quantity, go last, and everybody else stay.
`queue`: a reused slot never joins two lists, none is leaked or freed twice.
`engine`: nothing is dropped, repeated or reordered by the look-ahead, ids are not
reused, a cancelled order does not trade, and the thread makes progress and stops
(unless an order past the ladder is entered).
`server`: what is left of a closed connection cannot reach the next user of its
descriptor except through the two windows below, and pending responses stay scheduled.
`stream`: frames are never cut, shifted, lost or stuck, and bytes of an old connection
never reach a new one. `client`: its accounts agree, also when answers are lost, and it
stalls neither on a partial send nor, when paced, on the absence of events. (A client
that is not paced depends on answers: one that loses all of them sends nothing more.) `exchange`: every handled signal ends
the process, after a failed set-up too, and rings and latency store outlive the
threads.

Why the bounds are enough for the cases of interest. Three ticks let a best level
empty with an unoccupied tick before the next one; three orders let one leave the
middle of a queue; a full pool meets a modify and, since it is smaller than the set of
ids, a new order. With four ids on three slots at two levels
every way to leave a queue meets every way to reuse the slot. Rings of two fill while the engine is busy, and four messages let a cancel
or a modify arrive behind the orders it names. A ring of four slots wraps, fills and
empties with views that lag by several positions. A second connection on a single
descriptor reuses it; a second descriptor lets both be open. A write buffer of two
frames can be sent in part, with more responses staged behind it. Four bytes in the
kernel are neither a whole number of frames nor a buffer, so frames of three bytes are
split everywhere. One price past the ladder stands for all, since the index is out of
bounds for each. `MaxMsgs`, `MaxConns`, `MaxFrames`, `WireCap`, `Wrap` and the client's
`ReadCap` bound the behaviours and are no part of the code.

`CHECK_DEADLOCK FALSE` is used for `Engine`, where the matching thread ends after a
stop and the bounded input is used up, and for `Exchange`, where the process ends.

**Fairness.** The matching thread and both server threads are pinned to a core and
spin on loops that never block (`epoll_wait` with timeout 0), so each is weakly fair
as a whole, and so is each consumer of a ring; inside a call, a thread goes on. Nobody
is obliged to send, connect, hang up or stop, and no single branch of a thread is
fair by itself: `send()` may take nothing for ever. In `FrameStream` the flushing and
the reading side are each weakly fair: epoll is level-triggered and a writer that is
blocked is retried when the kernel has room. In `LoadGenerator` the handling of
events, the passing of time and the end of the loop's turn are weakly fair; the
exchange's answer is strongly fair, since a full socket delays it again and again; the
exchange reads on in any case, whether the answer is delivered or lost. In `Exchange` every thread gets the processor and a handler that has
started returns; nothing has to fail and nobody has to send a signal.

### Where code and documents disagree

Three runs state what a document or a comment says and end in a counterexample.

* `server_misroute`: a response whose descriptor has been resolved is delivered to
  the client that the descriptor belongs to by then (`server.cpp:365`).
* `server_stale`: the scan of the outbound thread may act on a condemned flag that it
  loaded before the descriptor was closed and accepted again, and tear down the new
  connection (`server.cpp:543`), which the comment at line 206 rules out.
* `client_slots`: the README says that a response frees its slot; a MATCH does not,
  and the book sends no ACK for an order that traded. A paced client, which has one
  slot, sends nothing more after its first such answer.

Others the models have in them without a run of their own:

* `exchange/server/desc.txt:22` has the server busy-wait on a full inbound ring;
  `server.cpp:291` ignores the result of the push (`Submit`), and the request is gone
  without an answer.
* `orderbook.cpp:106` says "reject the order" of one that finds the pool exhausted;
  `addOrder` returns false, which `process` reports as a success, so the client is told
  SUCCESS and an id for an order that does not exist. `LimitAnswer` and `IdsAreFresh`
  state exactly this case as the exception.
* `README.md:204` calls `MAX_PRICE` the maximum valid limit price; `validation.hpp:20`
  tests a price for 0 only, and a larger one reaches `orderbook.cpp:111`, where it
  indexes past the ladder (`Undefined`). The mid price of the load generator is a random
  walk that can get there in a long run.
* `test_validation.cpp:45` asserts that an ASK at limit price 0 is valid ("ASK allows price = 0
  (market order semantics)"); `validation.hpp:20` refuses it on either side
  (`validate_terms`).
* `server.cpp:228` says "loop until socket drained or error", and the comment at 247
  gives a full buffer as the reason to call `readRequest` again. A full buffer holds
  whole frames only, so parsing empties and resets it and `readRequest` never returns
  true (`RoomToRead` and `ParseEnd`). Level-triggered epoll makes this harmless. For
  the same reason the compaction in `Buffer::read_from` is never reached while the
  capacities are whole numbers of frames.
* A failed set-up stores the stop flag without notifying (`server.cpp:153`), so the
  process stays, without a listening socket, until a signal comes (`InboundFails`).
* Members of `Server` and `Engine` are destroyed before their threads are joined
  (`server.hpp:41`, `engine.hpp:47`): `Crash` is reachable after a stop.
* `MAX_CLIENTS` sizes the arrays that descriptors index and is compared with nothing.
* `infra/protocol.hpp:21` speaks of outbound frames of 64 bytes and errors of 33;
  `OUTBOUND_BSIZE` is 32, and the longest error takes 31.
* `latency.hpp:119` divides by the ticks per nanosecond truncated to an integer, which
  overstates latencies by up to the fraction that is cut off.

## What TLAPS proves

Every safety property that a passing run checks is a theorem for all values of the constants, except
`FillsBalance`: the invariants, the action properties of the book and the two
refinements. Each proof module has one inductive invariant, proved with one step or
lemma per action. Those of the book, the engine, the server, the stream, the client and
the process hold on the instances of their runs when TLC checks them as invariants.
Why the properties are not inductive by themselves:

**`OrderBookProofs`** (any ladder, finite set of ids, set of clients, set of
quantities and pool size): `BookTypeCorrect`, `MapCorrect`, `IndexCorrect`,
`PoolCorrect`, `UncrossedCorrect`, `AnswerCorrect`, and for steps `PriorityCorrect`,
`NoJumpCorrect` and `AuthorisationCorrect`. That the book is uncrossed at the end of
`matchOrders` follows from the loop condition only if the cached best prices are exact;
that they stay exact when a level empties follows only if the counter says whether
another level is occupied; that a removal finds its order in the queue follows only if
the map matches the queues; and that the pool counter stays within bounds follows only
from its sum with the live orders. `BookIInv` is the conjunction of those facts with
what each program point knows: a book is crossed only inside `matchOrders`, and the
request in hand is a `Requests` record. `AnswerCorrect` adds what the loops leave behind:
an order that is still in hand when `matchOrders` ends has traded or rests as asked, and
`matchMarket` ends with quantity left only on an empty side. `BookInvariant` proves it inductive with one
lemma per way in which the book changes (insertion, removal from any place of a queue,
reduction, fill); `process` and the loops combine these. Assumptions:
`LadderAssumption` (the ladder is not empty), `TopAssumption` (prices go at least to its
end, so the theorems hold with and without prices past it), `QtyAssumption` (quantities are naturals),
`PoolAssumption`, `IdsAssumption` (finitely many ids, for the cardinalities) and
`NoneAssumption`.

**`PriceLevelQueueProofs`** (any set of ids and levels, any capacity): `LinksCorrect`,
`NoSlotLeaks`, `QueueTypeCorrect` and `LevelsImplemented`, the refinement of
`LevelQueues`. `QueueIInv` says that each level is the list of *some* sequence of
different slots (`ListOf`), that the slots are partitioned into free and linked ones, and
that the map and the slots point to each other. The sequence is what makes it
inductive: links that are pairwise consistent could still form a cycle beside the list.
Insertion, removal and pop each turn the sequence of one level into another one and
leave the others alone, because no slot is in two of them; the abstract queue of the
refinement is that sequence with slots replaced by ids. Assumptions:
`CapacityAssumption`, `ContentsAssumption`.

**`EngineProofs`** (any inputs, ring capacities and numbers of messages), on top of
`BookIInv`: `EngineTypeCorrect`, `PipelineCorrect`, `IdsCorrect`, `CancelIsFinal`. Ids are
fresh because `next_id` counts the executed NEW requests (`IdsCounted`) and every live id
is below it (`RequestKnown`); that no MATCH follows the ACK of a cancel needs that the id
of every acknowledged cancel is spent, is not in the book and is not the one being
matched (`CancelledAreGone`). `EngineTypeCorrect` contains the interface between the two
components: what validation lets through, out of messages with any price, is a request of
the book, which is not to say that its price is on the ladder. Assumptions:
those of the book, `InputsAssumption`, `EngineAssumption`, `MaxQuantityAssumption`.

**`ServerProofs`** (any number of clients, descriptors, connections and frames, any
capacity): `CloseIsClean`, `PendingTracked`, `RoutesLive`, `DeliveryOrdered`,
`ServerTypeCorrect`. A free descriptor is clean because the outbound slot goes first and
takes its traces with it (`TwoPhase`), and because slots and connections name each other
(`SlotsLinked`), so that an accept finds a descriptor of nobody. A route is live because
the slot it names knows the client (`RoutesKnown`), which is how the teardown finds the
route. The order of delivery needs the order of all responses on their way: ring before
routing before staging before write buffer before what the peer has (`ComingInOrder`,
`DeliveryInOrder`), through misrouted responses too. `Carried` says where the outbound
thread is, `SentWithin` that a partial send stays within its buffer. Assumptions:
`ServerAssumption` (the capacities are positive) and `NoneAssumption` (an
empty `optional` is no state of a connection).

**`FrameStreamProofs`** (frames of any size, buffers of any whole number of frames, any
kernel buffer): `StreamStaysIntact`, `RoomIsLeft`, `StreamTypeCorrect`. `StreamIntact` is a
statement about the concatenation of three sequences; a send or a receive moves a piece
from one to the next and leaves the concatenation as it is, a parsed frame is its first
piece, an appended one its last. What it needs besides is that `append`, whose result
the client ignores, always has room (`BatchFits`), and that the read offset is at a
frame and before the end of the data (`Offsets`), which is also why there is room to
read. Assumptions: `FrameAssumption`, `CapAssumption`, and `WrapAssumption`, which keeps
the numbers of frames in transit apart and stands for the unbounded stream.

**`LoadGeneratorProofs`** (any pipeline depth, backoff limit and sockets):
`PipelineHolds`, `ClientTypeCorrect`. Until a connection is lost, a slot is in use for
every request that is unsent or unanswered *and* for every response that has yet to
give one back (`EveryOneHasASlot`); without the responses the claim is not inductive,
because reading one frees a slot. Assumption: `ClientAssumption`.

**`ExchangeProofs`** (any size of the latency store): `SharedOutlives`,
`ExchangeTypeCorrect`. It takes where the main thread is in the destruction and which
threads it has joined on its way there (`JoinedAreQuiet`, `SharedGoLast`). Assumption:
`SampleAssumption`.

**`RingBufferProofs`** (any ring of at least two slots): `RingTypeCorrect`, `NoRace`
(the threads never touch the same slot at once) and `RingImplementsFifo` (the
refinement of `SpscQueue`). The invariant orders the indices on the ring: the
consumer's view of the write index lies between the read and the write index, the
producer's view of the read index lies behind the real one, and what each thread is
about to touch is on its own side of the other's index. It needs
`SizeAssumption` and `BlankAssumption` only; that the size is a power of two matters
to the code's mask and not to the argument.

Only model-checked: the liveness properties (`AcceptedIsExecuted`, `StopEnds`, `Drains`,
`HungUpIsClosed`, `AllGoesThrough`, `NothingStalls`, `SignalEnds`), since the prover
handles neither fairness nor `ENABLED`, and `FillsBalance`, a sum over a set, which takes
induction over data. The three runs that end in a counterexample say nothing that could
be proved.

## What is not modelled

* The layout of frames: a frame has a length, and is valid or not.
* What follows an order past the ladder. Such an order is in the model; the access out
  of bounds has no bounded set of outcomes, so a behaviour that makes it ends there.
* Two details of the outbound thread that make no difference: the scan loads the flags it
  passes over one by one, and `beginSends` tests the flag again after a send. What
  either could see later, the next pass sees.
* The rehash of `client_map_` during a lookup by the other thread; the model takes
  the table as a total function. A connection of the model uses one client id, not 0.
* The client's ring of active order ids, which only chooses the targets of CANCEL and
  MODIFY (a target that is not alive is a FAILURE of the book, which leaves as an OK
  frame, because `server_error` stays `NONE`: an acknowledgement to the client), its
  statistics, and `main.cpp` with `stop()`.
* Trade log, latency calibration and percentiles, prefetching, core pinning, the
  strings of `protocol.hpp`, benchmark scripts: output, measurement and hints.

## Plan

1. `OrderBook`, `Engine`, `RingBuffer`, `Server`, `LoadGenerator` with their runs;
   proofs for the book and the ring. *Done.*
2. `PriceLevelQueue` and its refinement of `LevelQueues`, `Validation` in front of the
   engine, `FrameStream`, `Exchange`, routes over reconnects, failures of the set-up of
   a connection, the paced client. *Done.*
3. Proofs of every safety property of every component, and of both refinements.
   `Engine`, `FrameStream` and `LoadGenerator` count and append without recursion, so that
   they can be proved about. *Done.*
4. What could come next: the engine stated over the abstract book, so that its proof
   needs the book's promises only; and the gateway composed with the engine over
   `SpscQueue`.

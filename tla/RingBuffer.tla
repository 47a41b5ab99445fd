----------------------------- MODULE RingBuffer -----------------------------
(***************************************************************************)
(* The lock-free ring of exchange/include/ring_buffer.hpp, one producer    *)
(* and one consumer, at the granularity of its loads and stores.  It       *)
(* carries requests to the engine, responses back, errors from the inbound *)
(* to the outbound thread, and (one thread at both ends) the staged        *)
(* responses of a connection.                                              *)
(*                                                                         *)
(* Each thread knows its own index; its acquire load of the other one may  *)
(* return any value stored since the last one it saw.  The release store   *)
(* makes the slot visible with the index, so slots need no such latitude.  *)
(***************************************************************************)
EXTENDS Integers, Sequences

CONSTANTS
    N,          \* slots; a power of two in the code, which its mask needs
    Values,     \* items
    Blank       \* a slot or local that holds no item yet

ASSUME SizeAssumption  == N \in Nat /\ N >= 2
ASSUME BlankAssumption == Blank \notin Values

VARIABLES
    write_idx, read_idx,    \* the two atomics
    buffer,                 \* the slots
    r_seen,     \* the producer's latest view of read_idx
    w_seen,     \* the consumer's latest view of write_idx
    ppc, item,  \* push: "idle", "write" the slot, "publish" the index; its argument
    cpc, taken, \* pop: "idle", "read" the slot, "publish" the index; its result
    got         \* the last item a pop returned

prodVars == <<write_idx, r_seen, ppc, item>>
consVars == <<read_idx, w_seen, cpc, taken, got>>
vars     == <<buffer, prodVars, consVars>>

Slots == 0 .. N - 1

\* Mutant: the mask is forgotten.
Next1Unmasked(i) == i + 1

\* (i + 1) & mask
Next1(i) == IF i = N - 1 THEN 0 ELSE i + 1

\* size(): how far index j is ahead of index i on the ring.
Dist(i, j) == IF j >= i THEN j - i ELSE N + (j - i)

\* v was stored between the load that returned `seen` and the latest value `now`.
StoredSince(seen, now, v) == v \in Slots /\ Dist(seen, v) <= Dist(seen, now)

Init ==
    /\ write_idx = 0 /\ read_idx = 0
    /\ buffer = [i \in Slots |-> Blank]
    /\ r_seen = 0 /\ w_seen = 0
    /\ ppc = "idle" /\ item = Blank
    /\ cpc = "idle" /\ taken = Blank
    /\ got = << >>

-----------------------------------------------------------------------------
(* push                                                                    *)

\* Mutant: a full ring is overwritten.
PushCheckOverwrites(v) ==
    /\ ppc = "idle"
    /\ ppc' = "write" /\ item' = v
    /\ UNCHANGED <<write_idx, r_seen, buffer, consVars>>

\* Load both indices; return false when the ring looks full.
PushCheck(v) ==
    /\ ppc = "idle"
    /\ \E r \in Slots :
        /\ StoredSince(r_seen, read_idx, r)
        /\ r_seen' = r
        /\ IF Next1(write_idx) = r
           THEN UNCHANGED <<ppc, item>>
           ELSE ppc' = "write" /\ item' = v
    /\ UNCHANGED <<write_idx, buffer, consVars>>

PushWrite ==
    /\ ppc = "write"
    /\ buffer' = [buffer EXCEPT ![write_idx] = item]
    /\ ppc' = "publish"
    /\ UNCHANGED <<write_idx, r_seen, item, consVars>>

\* Mutant: the index may become visible before the slot.
PushPublishEarly ==
    /\ ppc \in {"write", "publish"}
    /\ write_idx' = Next1(write_idx)
    /\ ppc' = "idle"
    /\ item' = Blank
    /\ UNCHANGED <<buffer, r_seen, consVars>>

PushPublish ==
    /\ ppc = "publish"
    /\ write_idx' = Next1(write_idx)
    /\ ppc' = "idle"
    /\ item' = Blank
    /\ UNCHANGED <<buffer, r_seen, consVars>>

(* pop                                                                     *)

\* Mutant: the last item is taken for an empty ring.
PopCheckLeavesOne ==
    /\ cpc = "idle"
    /\ \E w \in Slots :
        /\ StoredSince(w_seen, write_idx, w)
        /\ w_seen' = w
        /\ cpc' = IF w \in {read_idx, Next1(read_idx)} THEN "idle" ELSE "read"
    /\ UNCHANGED <<read_idx, taken, got, buffer, prodVars>>

\* Load both indices; return false when the ring looks empty.
PopCheck ==
    /\ cpc = "idle"
    /\ \E w \in Slots :
        /\ StoredSince(w_seen, write_idx, w)
        /\ w_seen' = w
        /\ cpc' = IF read_idx = w THEN "idle" ELSE "read"
    /\ UNCHANGED <<read_idx, taken, got, buffer, prodVars>>

PopRead ==
    /\ cpc = "read"
    /\ taken' = buffer[read_idx]
    /\ cpc' = "publish"
    /\ UNCHANGED <<read_idx, w_seen, got, buffer, prodVars>>

PopPublish ==
    /\ cpc = "publish"
    /\ read_idx' = Next1(read_idx)
    /\ cpc' = "idle"
    /\ got' = <<taken>>
    /\ taken' = Blank
    /\ UNCHANGED <<w_seen, buffer, prodVars>>

push == (\E v \in Values : PushCheck(v)) \/ PushWrite \/ PushPublish
pop  == PopCheck \/ PopRead \/ PopPublish

Next == push \/ pop

\* Neither thread blocks inside push or pop, and the consumers poll: every
\* outer loop of the exchange pops again.  Nobody is obliged to push.
Spec == Init /\ [][Next]_vars /\ WF_vars(PushWrite \/ PushPublish) /\ WF_vars(pop)

-----------------------------------------------------------------------------
(* Properties                                                              *)

\* Every index stays on the ring and every local holds a value of its type.
RingTypeOK ==
    /\ {write_idx, read_idx, r_seen, w_seen} \subseteq Slots
    /\ buffer \in [Slots -> Values \cup {Blank}]
    /\ ppc \in {"idle", "write", "publish"} /\ item \in Values \cup {Blank}
    /\ cpc \in {"idle", "read", "publish"} /\ taken \in Values \cup {Blank}
    /\ got \in {<< >>} \cup {<<v>> : v \in Values}

\* The producer never writes the slot the consumer is reading: slots are not
\* atomic, so this is the absence of a data race on buffer[].
NoSlotRace == ~(ppc = "write" /\ cpc = "read" /\ write_idx = read_idx)

\* The slot at distance k from the read index.
Slot(k) == IF read_idx + k < N THEN read_idx + k ELSE read_idx + k - N

\* The items between the two indices, oldest first.
Contents == [k \in 1 .. Dist(read_idx, write_idx) |-> buffer[Slot(k - 1)]]

\* The ring implements a FIFO of N - 1 items that loses, repeats and reorders
\* nothing, however the loads and stores of the two threads interleave.
Fifo == INSTANCE SpscQueue WITH queue <- Contents, Capacity <- N - 1
RefinesFifo == Fifo!Spec

\* What is pushed is popped: while the ring holds an item the consumer gets to
\* take one, however stale its view of the write index was.
Drains == write_idx # read_idx ~> cpc = "publish"
=============================================================================

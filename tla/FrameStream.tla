---------------------------- MODULE FrameStream ----------------------------
(***************************************************************************)
(* One direction of a TCP connection: the Buffer (infra/buffer.hpp) that   *)
(* frames are appended to, the kernel's byte stream, and the Buffer they   *)
(* are read and cut into frames from.  send() and recv() move any number   *)
(* of bytes, so a frame may be split anywhere.                             *)
(*                                                                         *)
(* `mode` says which direction it is: "request" has the client as writer   *)
(* (buildBatch, flushWrite) and the inbound thread as reader (readRequest, *)
(* processRequest); "response" has the outbound thread (beginSends,        *)
(* sendResponse) and the client (handleReadable).  A byte is its position  *)
(* in the stream of the current connection, frames being numbered modulo   *)
(* Wrap: the stream has no end.                                            *)
(***************************************************************************)
EXTENDS Integers, Sequences

CONSTANTS
    Frame,      \* INBOUND_BSIZE or OUTBOUND_BSIZE
    WriteCap,   \* capacity of the writer's buffer in bytes
    ReadCap,    \* capacity of the reader's buffer in bytes
    WireCap,    \* bytes the kernel holds for the connection
    Wrap        \* modulus of the frame numbers

\* Both capacities are whole numbers of frames (connection_info.hpp, client_state.hpp).
ASSUME FrameAssumption == Frame \in Nat \ {0}
ASSUME CapAssumption   == /\ WriteCap \in Nat \ {0} /\ WriteCap % Frame = 0
                          /\ ReadCap \in Nat \ {0} /\ ReadCap % Frame = 0
                          /\ WireCap \in Nat \ {0}
\* Frames on their way have different numbers.
ASSUME WrapAssumption  == Wrap \in Nat /\ Wrap * Frame > WriteCap + WireCap + ReadCap

-----------------------------------------------------------------------------
(* class Buffer: data_[0 .. len_), bytes_written_ and read_off_.           *)

Byte    == 0 .. Wrap * Frame - 1
Buffers == [data : Seq(Byte), written : Nat, off : Nat]

Fresh == [data |-> << >>, written |-> 0, off |-> 0]

length(b)                == Len(b.data) - b.off
remaining_capacity(b, N) == N - Len(b.data)
view(b)                  == SubSeq(b.data, b.off + 1, Len(b.data))
remaining_to_send(b)     == Len(b.data) - b.written
unsent(b)                == SubSeq(b.data, b.written + 1, Len(b.data))

\* Mutant: a buffer that is exactly full has room.
has_roomFull(b, N) == Len(b.data) <= N

has_room(b, N) == Len(b.data) + Frame <= N

append(b, N, bytes) == IF has_room(b, N) THEN [b EXCEPT !.data = @ \o bytes] ELSE b

\* What read_from does before recv(): the memmove of a partial tail.
compact(b, N) ==
    IF b.off > 0 /\ Len(b.data) = N
    THEN [b EXCEPT !.data = view(b), !.off = 0] ELSE b

\* Mutant: the indices run on after the last byte.
advanceOnly(b) == [b EXCEPT !.off = @ + Frame]

advance(b) ==
    IF b.off + Frame >= Len(b.data)
    THEN [b EXCEPT !.data = << >>, !.off = 0] ELSE [b EXCEPT !.off = @ + Frame]

\* Mutant: nothing is reset.
try_resetNever(b) == b

try_reset(b) ==
    IF b.written = Len(b.data) THEN [b EXCEPT !.data = << >>, !.written = 0] ELSE b

clear(b) == [b EXCEPT !.data = << >>, !.written = 0, !.off = 0]

-----------------------------------------------------------------------------
VARIABLES
    mode,           \* the direction
    w, wire, r,     \* the writer's buffer, the kernel's, the reader's
    wpc,            \* "idle", "build" in the loop of buildBatch / beginSends, or
                    \* "flush" in flushWrite / sendResponse
    left,           \* frames that loop may still append
    rpc,            \* "idle", "read" in readRequest's loop, "parse"
    taken, parsed   \* numbers of the next frame to write and to parse

vars == <<mode, w, wire, r, wpc, left, rpc, taken, parsed>>

Init ==
    /\ mode \in {"request", "response"}
    /\ w = Fresh /\ wire = << >> /\ r = Fresh
    /\ wpc = "idle" /\ left = 0 /\ rpc = "idle"
    /\ taken = 0 /\ parsed = 0

\* The bytes of frame number k.
FrameBytes(k) == [i \in 1 .. Frame |-> (k % Wrap) * Frame + i - 1]

\* The client's buildBatch: only when its last batch is gone, and for at most
\* the requests the pipeline has room for, which is what the buffer holds.
buildBatch(n) ==
    /\ mode = "request" /\ wpc = "idle"
    /\ length(w) = 0
    /\ w' = clear(w)
    /\ wpc' = "build" /\ left' = n
    /\ UNCHANGED <<mode, wire, r, rpc, taken, parsed>>

\* The server's beginSends with n staged responses.  The descriptor stays in
\* writable_fds_ until all is sent, so n may be 0.
beginSends(n) ==
    /\ mode = "response" /\ wpc = "idle"
    /\ n = 0 => remaining_to_send(w) > 0
    /\ wpc' = "build" /\ left' = n
    /\ UNCHANGED <<mode, w, wire, r, rpc, taken, parsed>>

\* The server appends behind what is unsent while there is room; the client does
\* not ask, and nobody looks at the result of append.
MayAppend == left > 0 /\ (mode = "response" => has_room(w, WriteCap))

\* One turn of either loop.
AppendFrame ==
    /\ wpc = "build" /\ MayAppend
    /\ w' = append(w, WriteCap, FrameBytes(taken))
    /\ taken' = (taken + 1) % Wrap
    /\ left' = left - 1
    /\ UNCHANGED <<mode, wire, r, wpc, rpc, parsed>>

BuildEnd ==
    /\ wpc = "build" /\ ~MayAppend
    /\ wpc' = "flush" /\ left' = 0
    /\ UNCHANGED <<mode, w, wire, r, rpc, taken, parsed>>

\* The client's EPOLLOUT, once the kernel has room again.
retryFlush ==
    /\ mode = "request" /\ wpc = "idle"
    /\ length(w) > 0 /\ Len(wire) < WireCap
    /\ wpc' = "flush"
    /\ UNCHANGED <<mode, w, wire, r, left, rpc, taken, parsed>>

\* write_to: send() takes n bytes.
Send(n) ==
    /\ wpc = "flush" /\ remaining_to_send(w) > 0
    /\ Len(wire) + n <= WireCap /\ n <= remaining_to_send(w)
    /\ wire' = wire \o SubSeq(w.data, w.written + 1, w.written + n)
    /\ w' = [w EXCEPT !.written = @ + n]
    /\ UNCHANGED <<mode, r, wpc, left, rpc, taken, parsed>>

\* EAGAIN, or everything is sent; then the buffer is reset (finishBatch too).
FlushEnd ==
    /\ wpc = "flush"
    /\ remaining_to_send(w) = 0 \/ Len(wire) = WireCap
    /\ w' = IF remaining_to_send(w) = 0 THEN try_reset(w) ELSE w
    /\ wpc' = "idle"
    /\ UNCHANGED <<mode, wire, r, left, rpc, taken, parsed>>

-----------------------------------------------------------------------------
(* The reader                                                              *)

\* recv() into what the buffer has left after read_from's compaction.
read_from(n) ==
    /\ n <= remaining_capacity(compact(r, ReadCap), ReadCap)
    /\ r' = [compact(r, ReadCap) EXCEPT !.data = @ \o SubSeq(wire, 1, n)]
    /\ wire' = SubSeq(wire, n + 1, Len(wire))

\* EPOLLIN on the server: readRequest is entered.
readAndProcessBytes ==
    /\ mode = "request" /\ rpc = "idle" /\ wire # << >>
    /\ rpc' = "read"
    /\ UNCHANGED <<mode, w, wire, r, wpc, left, taken, parsed>>

\* readRequest receives until the socket is empty or the buffer full.
readRequest(n) ==
    /\ rpc = "read"
    /\ remaining_capacity(r, ReadCap) > 0 /\ n <= Len(wire)
    /\ read_from(n)
    /\ UNCHANGED <<mode, w, wpc, left, rpc, taken, parsed>>

readRequestEnd ==
    /\ rpc = "read"
    /\ remaining_capacity(r, ReadCap) = 0 \/ wire = << >>
    /\ rpc' = "parse"
    /\ UNCHANGED <<mode, w, wire, r, wpc, left, taken, parsed>>

\* EPOLLIN on the client: one recv().
handleReadable(n) ==
    /\ mode = "response" /\ rpc = "idle" /\ n <= Len(wire)
    /\ read_from(n)
    /\ rpc' = "parse"
    /\ UNCHANGED <<mode, w, wpc, left, taken, parsed>>

HoldsFrame(b) == length(b) >= Frame

\* One turn of the loop of processRequest, or of handleReadable.
ParseFrame ==
    /\ rpc = "parse" /\ HoldsFrame(r)
    /\ r' = advance(r)
    /\ parsed' = (parsed + 1) % Wrap
    /\ UNCHANGED <<mode, w, wire, wpc, left, rpc, taken>>

\* No whole frame is left; readRequest is called again if the buffer is full.
ParseEnd ==
    /\ rpc = "parse" /\ ~HoldsFrame(r)
    /\ rpc' = IF mode = "request" /\ remaining_capacity(r, ReadCap) = 0
              THEN "read" ELSE "idle"
    /\ UNCHANGED <<mode, w, wire, r, wpc, left, taken, parsed>>

\* Mutant: the client reconnects with its buffers as they are.
ReconnectKeeps ==
    /\ wpc # "build"
    /\ w' = IF mode = "request" THEN w ELSE Fresh
    /\ r' = IF mode = "request" THEN Fresh ELSE r
    /\ wire' = << >>
    /\ wpc' = "idle" /\ left' = 0 /\ rpc' = "idle"
    /\ taken' = 0 /\ parsed' = 0
    /\ UNCHANGED mode

\* The connection is lost, with what it carried; connectClient clears the
\* client's buffers, the server starts with new ones.  Nobody looks at the
\* connection while a batch is built.
Reconnect ==
    /\ wpc # "build"
    /\ w' = IF mode = "request" THEN clear(w) ELSE Fresh
    /\ r' = IF mode = "request" THEN Fresh ELSE clear(r)
    /\ wire' = << >>
    /\ wpc' = "idle" /\ left' = 0 /\ rpc' = "idle"
    /\ taken' = 0 /\ parsed' = 0
    /\ UNCHANGED mode

Flush ==
    \/ retryFlush \/ beginSends(0) \/ AppendFrame \/ BuildEnd
    \/ \E n \in 1 .. WireCap : Send(n)
    \/ FlushEnd

Read ==
    \/ readAndProcessBytes
    \/ \E n \in 1 .. WireCap : readRequest(n) \/ handleReadable(n)
    \/ readRequestEnd
    \/ ParseFrame \/ ParseEnd

Next ==
    \/ \E n \in 1 .. WriteCap \div Frame : buildBatch(n) \/ beginSends(n)
    \/ Flush
    \/ Read
    \/ Reconnect

\* Neither side waits for anything but the kernel: epoll is level-triggered, a
\* blocked writer has EPOLLOUT armed or is retried.  Nobody has to write.
Spec == Init /\ [][Next]_vars /\ WF_vars(Flush) /\ WF_vars(Read)

-----------------------------------------------------------------------------
(* Properties                                                              *)

\* Every variable holds a value of its type, no index passes the data it is an
\* index of, and nothing is written past the end of a buffer.
StreamTypeOK ==
    /\ mode \in {"request", "response"}
    /\ {w, r} \subseteq Buffers
    /\ wire \in Seq(Byte) /\ Len(wire) <= WireCap
    /\ Len(w.data) <= WriteCap /\ w.written <= Len(w.data)
    /\ Len(r.data) <= ReadCap /\ r.off <= Len(r.data)
    /\ wpc \in {"idle", "build", "flush"} /\ left \in Nat
    /\ rpc \in {"idle", "read", "parse"}
    /\ taken \in 0 .. Wrap - 1 /\ parsed \in 0 .. Wrap - 1

\* How far frame k is behind the next one to parse, and what is on its way.
Ahead(k) == (k - parsed) % Wrap
InFlight(k) == Ahead(k) < Ahead(taken)

\* What is received and not parsed, in the kernel, and not yet sent is the rest
\* of the stream: however it is cut, the next frame parsed starts where the last
\* one ended, and no byte is lost, repeated or left over from an old connection.
StreamIntact ==
    LET rest == view(r) \o wire \o unsent(w)
    IN  /\ Len(rest) = Ahead(taken) * Frame
        /\ \A i \in 1 .. Len(rest) :
               rest[i] = (parsed * Frame + i - 1) % (Wrap * Frame)

\* The rest of a frame that arrived in part fits behind it: recv() is never given
\* a length of 0, whose result 0 both readers take for a closed connection, and
\* readRequest is not called again for a buffer that stays full (server.cpp:249).
RoomToRead ==
    length(r) < Frame => Frame - length(r) <= remaining_capacity(r, ReadCap)

\* Whatever is written goes through, unless the connection is lost: every frame
\* is parsed, and a write buffer that has something to send empties, though the
\* server keeps appending behind what is unsent: try_reset is reached, so the room
\* of the buffer is not lost.
AllGoesThrough ==
    /\ \A k \in 0 .. Wrap - 1 : InFlight(k) ~> ~InFlight(k)
    /\ w.data # << >> ~> w.data = << >>
=============================================================================

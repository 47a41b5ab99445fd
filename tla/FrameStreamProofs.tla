------------------------- MODULE FrameStreamProofs -------------------------
(***************************************************************************)
(* Proofs about FrameStream, for frames, buffers and a kernel buffer of    *)
(* every size: the stream stays whole however it is cut.                   *)
(***************************************************************************)
EXTENDS FrameStream, SequenceTheorems, TLAPS

-----------------------------------------------------------------------------
(* The inductive invariant                                                 *)

\* The writer's buffer is never read through its read offset, the reader's
\* offset is at a frame, and before the end of the data: advance resets it.
Offsets ==
    /\ w.off = 0
    /\ \E j \in 0 .. ReadCap : r.off = j * Frame
    /\ r.off = 0 \/ r.off < Len(r.data)

\* The client does not ask for room: what it is going to append fits.
BatchFits ==
    wpc = "build" /\ mode = "request" =>
        w.written = 0 /\ Len(w.data) + left * Frame <= WriteCap

StreamIInv == StreamTypeOK /\ StreamIntact /\ Offsets /\ BatchFits

-----------------------------------------------------------------------------
(* Arithmetic                                                              *)

\* A number below the modulus is its own remainder.
LEMMA ModBelow ==
    ASSUME NEW x \in Nat, NEW K \in Nat, x < K
    PROVE  x % K = x
OBVIOUS

\* One modulus above.
LEMMA ModAbove ==
    ASSUME NEW x \in Nat, NEW K \in Nat, K <= x, x < K + K
    PROVE  x % K = x - K
OBVIOUS

\* A modulus more changes nothing.
LEMMA ModPlus ==
    ASSUME NEW x \in Nat, NEW K \in Nat, x < K
    PROVE  (x + K) % K = x
<1>1. PICK y \in Nat : y = x + K /\ K <= y /\ y < K + K /\ y - K = x
  OBVIOUS
<1> QED  BY <1>1, ModAbove

\* One modulus below.
LEMMA ModUnder ==
    ASSUME NEW x \in Int, NEW K \in Nat, x < 0, -K <= x, K > 0
    PROVE  x % K = x + K
OBVIOUS

\* Multiples of the frame that differ are a frame apart.
LEMMA Apart ==
    ASSUME NEW F \in Nat \ {0}, NEW a \in Int, NEW b \in Int, a * F < b * F
    PROVE  a * F + F <= b * F /\ a < b
OBVIOUS

\* A multiple, from its remainder.
LEMMA Multiple ==
    ASSUME NEW F \in Nat \ {0}, NEW x \in Nat, x % F = 0
    PROVE  \E k \in Nat : x = k * F
OBVIOUS

\* How far the writer's frame t is ahead of the parser's frame p, modulo W.
LEMMA Distance ==
    ASSUME NEW W \in Nat \ {0}, NEW p \in 0 .. W - 1, NEW t \in 0 .. W - 1
    PROVE  /\ (t - p) % W \in 0 .. W - 1
           /\ t >= p => (t - p) % W = t - p
           /\ t < p  => (t - p) % W = t - p + W
<1>1. CASE t >= p
  <2>1. (t - p) % W = t - p
    BY <1>1, t - p \in Nat, t - p < W, ModBelow
  <2> QED  BY <1>1, <2>1
<1>2. CASE t < p
  <2>1. (t - p) % W = t - p + W
    BY <1>2, t - p \in Int, t - p < 0, -W <= t - p, ModUnder
  <2> QED  BY <1>2, <2>1
<1> QED  BY <1>1, <1>2

\* The number of the next frame.
LEMMA NextFrame ==
    ASSUME NEW W \in Nat \ {0}, NEW t \in 0 .. W - 1
    PROVE  /\ (t + 1) % W \in 0 .. W - 1
           /\ t + 1 < W => (t + 1) % W = t + 1
           /\ t + 1 = W => (t + 1) % W = 0
<1>1. CASE t + 1 < W
  <2>1. (t + 1) % W = t + 1
    BY <1>1, t + 1 \in Nat, ModBelow
  <2> QED  BY <1>1, <2>1
<1>2. CASE t + 1 = W
  <2>1. (t + 1) % W = t + 1 - W
    BY <1>2, t + 1 \in Nat, W <= t + 1, t + 1 < W + W, ModAbove
  <2> QED  BY <1>2, <2>1
<1> QED  BY <1>1, <1>2

\* The writer moves ahead by one.
LEMMA DistanceAppend ==
    ASSUME NEW W \in Nat \ {0}, NEW p \in 0 .. W - 1, NEW t \in 0 .. W - 1,
           ((t - p) % W) + 1 < W
    PROVE  (((t + 1) % W) - p) % W = ((t - p) % W) + 1
<1>1. PICK a \in 0 .. W - 1 : /\ a = (t - p) % W
                              /\ t >= p => a = t - p
                              /\ t < p  => a = t - p + W
  BY Distance
<1>2. PICK u \in 0 .. W - 1 : /\ u = (t + 1) % W
                              /\ t + 1 < W => u = t + 1
                              /\ t + 1 = W => u = 0
  BY NextFrame
<1>3. PICK b \in 0 .. W - 1 : /\ b = (u - p) % W
                              /\ u >= p => b = u - p
                              /\ u < p  => b = u - p + W
  BY Distance
<1>4. a + 1 < W
  BY <1>1
<1>5. b = a + 1
  BY <1>4, <1>1, <1>2, <1>3
<1> QED  BY <1>1, <1>2, <1>3, <1>5

\* The parser catches up by one.
LEMMA DistanceDrop ==
    ASSUME NEW W \in Nat \ {0}, NEW p \in 0 .. W - 1, NEW t \in 0 .. W - 1,
           (t - p) % W >= 1
    PROVE  (t - ((p + 1) % W)) % W = ((t - p) % W) - 1
<1>1. PICK a \in 0 .. W - 1 : /\ a = (t - p) % W
                              /\ t >= p => a = t - p
                              /\ t < p  => a = t - p + W
  BY Distance
<1>2. PICK u \in 0 .. W - 1 : /\ u = (p + 1) % W
                              /\ p + 1 < W => u = p + 1
                              /\ p + 1 = W => u = 0
  BY NextFrame
<1>3. PICK b \in 0 .. W - 1 : /\ b = (t - u) % W
                              /\ t >= u => b = t - u
                              /\ t < u  => b = t - u + W
  BY Distance
<1>4. a >= 1
  BY <1>1
<1>5. b = a - 1
  BY <1>4, <1>1, <1>2, <1>3
<1> QED  BY <1>1, <1>2, <1>3, <1>5

\* Where a byte is in the stream once a frame is parsed.
LEMMA IndexDrop ==
    ASSUME NEW F \in Nat \ {0}, NEW W \in Nat \ {0},
           NEW p \in 0 .. W - 1, NEW i \in Nat \ {0}, i < W * F
    PROVE  (p * F + (i + F) - 1) % (W * F) = (((p + 1) % W) * F + i - 1) % (W * F)
<1>1. PICK u \in 0 .. W - 1 : /\ u = (p + 1) % W
                              /\ p + 1 < W => u = p + 1
                              /\ p + 1 = W => u = 0
  BY NextFrame
<1>2. p * F + (i + F) - 1 = (p + 1) * F + i - 1
  OBVIOUS
<1>3. CASE p + 1 < W
  BY <1>1, <1>2, <1>3
<1>4. CASE p + 1 = W
  <2>1. PICK M \in Nat : M = W * F
    OBVIOUS
  <2>2. PICK N \in Nat : N = i - 1 /\ N < M
    BY <2>1
  <2>3. N % M = N
    BY <2>2, ModBelow
  <2>4. (N + M) % M = N
    BY <2>2, ModPlus
  <2>5. (p + 1) * F + i - 1 = N + M
    BY <1>4, <2>1, <2>2
  <2>6. u = 0 /\ u * F + i - 1 = N
    BY <1>1, <1>4, <2>2
  <2>7. (p * F + (i + F) - 1) % (W * F) = N
    BY <2>1, <2>4, <2>5, <1>2
  <2> QED  BY <1>1, <2>1, <2>3, <2>6, <2>7
<1> QED  BY <1>3, <1>4

\* The sizes are numbers, and the buffers whole numbers of frames.
LEMMA Sizes ==
    /\ Frame \in Nat \ {0} /\ WriteCap \in Nat \ {0} /\ ReadCap \in Nat \ {0}
    /\ WireCap \in Nat \ {0} /\ Wrap \in Nat \ {0} /\ Wrap * Frame \in Nat \ {0}
    /\ WriteCap + WireCap + ReadCap < Wrap * Frame
    /\ \E k \in Nat \ {0} : ReadCap = k * Frame
    /\ \E k \in Nat \ {0} : WriteCap = k * Frame /\ WriteCap \div Frame = k
<1>1. /\ Frame \in Nat \ {0} /\ WriteCap \in Nat \ {0} /\ ReadCap \in Nat \ {0}
      /\ WireCap \in Nat \ {0} /\ Wrap \in Nat /\ WriteCap % Frame = 0 /\ ReadCap % Frame = 0
      /\ WriteCap + WireCap + ReadCap < Wrap * Frame
  BY FrameAssumption, CapAssumption, WrapAssumption
<1>2. Wrap \in Nat \ {0} /\ Wrap * Frame \in Nat \ {0}
  <2>1. Wrap # 0
    BY <1>1
  <2> QED  BY <1>1, <2>1
<1>3. \E k \in Nat \ {0} : ReadCap = k * Frame
  <2>1. PICK k \in Nat : ReadCap = k * Frame
    BY <1>1, Multiple
  <2>2. k # 0
    BY <1>1, <2>1
  <2> QED  BY <2>1, <2>2
<1>4. \E k \in Nat \ {0} : WriteCap = k * Frame /\ WriteCap \div Frame = k
  <2>1. PICK k \in Nat : WriteCap = k * Frame
    BY <1>1, Multiple
  <2>2. k # 0
    BY <1>1, <2>1
  <2>3. (k * Frame) \div Frame = k
    BY <1>1
  <2> QED  BY <2>1, <2>2, <2>3
<1> QED  BY <1>1, <1>2, <1>3, <1>4

-----------------------------------------------------------------------------
(* The contents of the stream                                              *)

\* What StreamIntact says of the rest of the stream, for a parser at frame p and
\* a writer at frame t.
Stream(q, p, t) ==
    /\ Len(q) = ((t - p) % Wrap) * Frame
    /\ \A i \in 1 .. Len(q) : q[i] = (p * Frame + i - 1) % (Wrap * Frame)

Rest == view(r) \o wire \o unsent(w)

\* Stream is StreamIntact.
LEMMA IntactIsStream == StreamIntact <=> Stream(Rest, parsed, taken)
BY DEF StreamIntact, Stream, Rest, Ahead

\* The sizes, without what they are multiples of.
LEMMA Numbers ==
    /\ Frame \in Nat \ {0} /\ WriteCap \in Nat \ {0} /\ ReadCap \in Nat \ {0}
    /\ WireCap \in Nat \ {0} /\ Wrap \in Nat \ {0} /\ Wrap * Frame \in Nat \ {0}
    /\ WriteCap + WireCap + ReadCap < Wrap * Frame
BY Sizes

\* Where a byte of the writer's next frame is in the stream.
LEMMA IndexAppend ==
    ASSUME NEW p \in 0 .. Wrap - 1, NEW t \in 0 .. Wrap - 1, NEW j \in 1 .. Frame
    PROVE  /\ t * Frame + j - 1 \in 0 .. Wrap * Frame - 1
           /\ (p * Frame + (((t - p) % Wrap) * Frame + j) - 1) % (Wrap * Frame)
                = t * Frame + j - 1
<1>0. PICK F \in Nat \ {0}, W \in Nat \ {0} : F = Frame /\ W = Wrap
  BY Numbers
<1>a. p \in 0 .. W - 1 /\ t \in 0 .. W - 1 /\ j \in 1 .. F
  BY <1>0
<1> USE <1>a
<1>1. PICK a \in 0 .. W - 1 : /\ a = (t - p) % W
                              /\ t >= p => a = t - p
                              /\ t < p  => a = t - p + W
  BY Distance
<1>2. PICK T \in Nat : T = t * F
  OBVIOUS
<1>3. PICK M \in Nat : M = W * F
  OBVIOUS
<1>4. T + F <= M
  <2>1. t * F < W * F
    OBVIOUS
  <2> QED  BY <2>1, <1>2, <1>3, Apart
<1>5. PICK N \in Nat : N = T + j - 1
  BY <1>2
<1>6. N < M
  BY <1>4, <1>5
<1>7. p * F + a * F = (IF t >= p THEN T ELSE T + M)
  <2>1. p * F + a * F = (p + a) * F
    OBVIOUS
  <2>2. CASE t >= p
    <3>1. p + a = t
      BY <1>1, <2>2
    <3> QED  BY <2>1, <2>2, <3>1, <1>2
  <2>3. CASE t < p
    <3>1. p + a = t + W
      BY <1>1, <2>3
    <3>2. (t + W) * F = t * F + W * F
      OBVIOUS
    <3> QED  BY <2>1, <2>3, <3>1, <3>2, <1>2, <1>3
  <2> QED  BY <2>2, <2>3
<1>8. PICK S \in Nat : S = p * F + a * F
  OBVIOUS
<1>9. p * F + (a * F + j) - 1 = S + j - 1
  <2>1. p * F \in Int /\ a * F \in Int
    OBVIOUS
  <2> QED  BY <2>1, <1>8
<1>10. (S + j - 1) % M = N
  <2>1. CASE t >= p
    <3>1. S + j - 1 = N
      BY <2>1, <1>5, <1>7, <1>8
    <3> QED  BY <3>1, <1>6, ModBelow
  <2>2. CASE t < p
    <3>1. S + j - 1 = N + M
      BY <2>2, <1>5, <1>7, <1>8
    <3>2. (N + M) % M = N
      BY <1>6, ModPlus
    <3> QED  BY <3>1, <3>2
  <2> QED  BY <2>1, <2>2
<1>11. /\ t * F + j - 1 \in 0 .. W * F - 1
       /\ (p * F + (((t - p) % W) * F + j) - 1) % (W * F) = t * F + j - 1
  <2>1. t * F + j - 1 = N /\ N \in 0 .. M - 1
    BY <1>2, <1>5, <1>6
  <2>2. (p * F + (a * F + j) - 1) % M = N
    BY <1>9, <1>10, Zenon
  <2> QED  BY <2>1, <2>2, <1>1, <1>3
<1> QED  BY <1>0, <1>11

\* A frame is a sequence of bytes.
LEMMA FrameIsBytes ==
    ASSUME NEW t \in 0 .. Wrap - 1
    PROVE  /\ FrameBytes(t) \in Seq(Byte) /\ Len(FrameBytes(t)) = Frame
           /\ \A i \in 1 .. Frame : FrameBytes(t)[i] = t * Frame + i - 1
<1>1. t % Wrap = t
  BY Numbers, ModBelow
<1>2. PICK T \in Int : T = t * Frame
  BY Numbers
<1>3. FrameBytes(t) = [i \in 1 .. Frame |-> T + i - 1]
  BY <1>1, <1>2 DEF FrameBytes
<1>4. ASSUME NEW i \in 1 .. Frame
      PROVE  T + i - 1 \in Byte
  BY <1>2, Numbers, IndexAppend DEF Byte
<1>5. [i \in 1 .. Frame |-> T + i - 1] \in Seq(Byte)
  BY <1>4, Numbers, IsASeq
<1>6. Len([i \in 1 .. Frame |-> T + i - 1]) = Frame
  BY Numbers
<1> QED  BY <1>2, <1>3, <1>5, <1>6

\* The writer's next frame continues the stream.
LEMMA StreamAppend ==
    ASSUME NEW p \in 0 .. Wrap - 1, NEW t \in 0 .. Wrap - 1, NEW q \in Seq(Byte),
           Stream(q, p, t), Len(q) + Frame < Wrap * Frame
    PROVE  Stream(q \o FrameBytes(t), p, (t + 1) % Wrap)
<1>1. PICK a \in 0 .. Wrap - 1 : a = (t - p) % Wrap
  BY Numbers, Distance
<1>2. Len(q) = a * Frame
  BY <1>1 DEF Stream
<1>3. (a + 1) * Frame = a * Frame + Frame
  BY Numbers
<1>4. a + 1 < Wrap
  BY <1>2, <1>3, Numbers, Apart
<1>5. (((t + 1) % Wrap) - p) % Wrap = a + 1
  BY <1>1, <1>4, Numbers, DistanceAppend
<1>6. PICK f \in Seq(Byte) :
          /\ f = FrameBytes(t) /\ Len(f) = Frame
          /\ \A i \in 1 .. Frame : f[i] = t * Frame + i - 1
  BY FrameIsBytes
<1>7. Len(q \o f) = Len(q) + Frame
  BY <1>6, ConcatProperties
<1>8. ASSUME NEW i \in 1 .. Len(q \o f)
      PROVE  (q \o f)[i] = (p * Frame + i - 1) % (Wrap * Frame)
  <2>1. CASE i <= Len(q)
    <3>1. (q \o f)[i] = q[i] /\ i \in 1 .. Len(q)
      BY <2>1, <1>6, <1>7, ConcatProperties
    <3> QED  BY <3>1 DEF Stream
  <2>2. CASE i > Len(q)
    <3>1. PICK j \in 1 .. Frame : i = Len(q) + j
      <4>1. Len(q) \in Nat /\ i - Len(q) \in 1 .. Frame /\ i = Len(q) + (i - Len(q))
        BY <2>2, <1>7, Numbers
      <4> QED  BY <4>1
    <3>2. (q \o f)[i] = f[j]
      BY <3>1, <1>6, <1>7, ConcatProperties, Numbers
    <3>3. (p * Frame + (((t - p) % Wrap) * Frame + j) - 1) % (Wrap * Frame)
             = t * Frame + j - 1
      BY IndexAppend
    <3> QED  BY <3>1, <3>2, <3>3, <1>1, <1>2, <1>6
  <2> QED  BY <2>1, <2>2, <1>7, Numbers
<1> QED  BY <1>2, <1>3, <1>5, <1>6, <1>7, <1>8 DEF Stream

\* What is left when the parser has taken a frame.
LEMMA StreamDrop ==
    ASSUME NEW p \in 0 .. Wrap - 1, NEW t \in 0 .. Wrap - 1, NEW q \in Seq(Byte),
           Stream(q, p, t), Len(q) >= Frame, NEW q1 \in Seq(Byte),
           Len(q1) = Len(q) - Frame, \A i \in 1 .. Len(q1) : q1[i] = q[i + Frame]
    PROVE  Stream(q1, (p + 1) % Wrap, t)
<1>1. PICK a \in 0 .. Wrap - 1 : a = (t - p) % Wrap
  BY Numbers, Distance
<1>2. Len(q) = a * Frame
  BY <1>1 DEF Stream
<1>3. a # 0
  <2>1. a = 0 => a * Frame = 0
    BY Numbers
  <2> QED  BY <1>2, <2>1, Numbers
<1>4. (a - 1) * Frame = a * Frame - Frame
  BY Numbers
<1>5. (t - ((p + 1) % Wrap)) % Wrap = a - 1
  <2>1. (t - p) % Wrap >= 1 /\ Wrap \in Nat \ {0}
    BY <1>1, <1>3, Numbers
  <2>2. (t - ((p + 1) % Wrap)) % Wrap = ((t - p) % Wrap) - 1
    BY <2>1, DistanceDrop, Zenon
  <2> QED  BY <1>1, <2>2
<1>6. a * Frame < Wrap * Frame
  BY Numbers
<1>7. ASSUME NEW i \in 1 .. Len(q1)
      PROVE  q1[i] = (((p + 1) % Wrap) * Frame + i - 1) % (Wrap * Frame)
  <2>1. i + Frame \in 1 .. Len(q) /\ i \in Nat \ {0} /\ i < Wrap * Frame
    <3>1. PICK m \in Nat : m = Len(q)
      OBVIOUS
    <3>2. PICK M \in Nat : M = Wrap * Frame /\ m < M
      BY <3>1, <1>2, <1>6, Numbers
    <3>3. i \in 1 .. m - Frame
      BY <3>1
    <3>4. i + Frame \in 1 .. m /\ i \in Nat \ {0} /\ i < M
      BY <3>2, <3>3, Numbers
    <3> QED  BY <3>1, <3>2, <3>4
  <2>2. q1[i] = (p * Frame + (i + Frame) - 1) % (Wrap * Frame)
    BY <2>1 DEF Stream
  <2>3. (p * Frame + (i + Frame) - 1) % (Wrap * Frame)
           = (((p + 1) % Wrap) * Frame + i - 1) % (Wrap * Frame)
    BY <2>1, Numbers, IndexDrop
  <2> QED  BY <2>2, <2>3
<1>8. Len(q1) = ((t - ((p + 1) % Wrap)) % Wrap) * Frame
  BY <1>2, <1>4, <1>5
<1> QED  BY <1>7, <1>8 DEF Stream

-----------------------------------------------------------------------------
(* Sequences                                                               *)

\* What is behind the first i elements.
LEMMA Behind ==
    ASSUME NEW s \in Seq(Byte), NEW i \in 0 .. Len(s)
    PROVE  /\ SubSeq(s, i + 1, Len(s)) \in Seq(Byte)
           /\ Len(SubSeq(s, i + 1, Len(s))) = Len(s) - i
           /\ \A k \in 1 .. Len(s) - i : SubSeq(s, i + 1, Len(s))[k] = s[i + k]
<1>1. Len(s) \in Nat
  OBVIOUS
<1> QED  BY <1>1

\* The same when x is appended.
LEMMA TailAppend ==
    ASSUME NEW s \in Seq(Byte), NEW x \in Seq(Byte), NEW i \in 0 .. Len(s)
    PROVE  SubSeq(s \o x, i + 1, Len(s \o x)) = SubSeq(s, i + 1, Len(s)) \o x
<1>1. PICK sx \in Seq(Byte) :
          /\ sx = s \o x /\ Len(sx) = Len(s) + Len(x)
          /\ \A k \in 1 .. Len(s) + Len(x) :
                 sx[k] = IF k <= Len(s) THEN s[k] ELSE x[k - Len(s)]
  <2>1. /\ s \o x \in Seq(Byte) /\ Len(s \o x) = Len(s) + Len(x)
        /\ \A k \in 1 .. Len(s) + Len(x) :
               (s \o x)[k] = IF k <= Len(s) THEN s[k] ELSE x[k - Len(s)]
    BY ConcatProperties
  <2> QED  BY <2>1, Zenon
<1>2. PICK mid \in Seq(Byte) :
          /\ mid = SubSeq(s, i + 1, Len(s)) /\ Len(mid) = Len(s) - i
          /\ \A k \in 1 .. Len(s) - i : mid[k] = s[i + k]
  <2>1. /\ SubSeq(s, i + 1, Len(s)) \in Seq(Byte)
        /\ Len(SubSeq(s, i + 1, Len(s))) = Len(s) - i
        /\ \A k \in 1 .. Len(s) - i : SubSeq(s, i + 1, Len(s))[k] = s[i + k]
    BY Behind
  <2> QED  BY <2>1, Zenon
<1>3. PICK lhs \in Seq(Byte) :
          /\ lhs = SubSeq(sx, i + 1, Len(sx)) /\ Len(lhs) = Len(sx) - i
          /\ \A k \in 1 .. Len(sx) - i : lhs[k] = sx[i + k]
  <2>1. i \in 0 .. Len(sx)
    BY <1>1
  <2>2. /\ SubSeq(sx, i + 1, Len(sx)) \in Seq(Byte)
        /\ Len(SubSeq(sx, i + 1, Len(sx))) = Len(sx) - i
        /\ \A k \in 1 .. Len(sx) - i : SubSeq(sx, i + 1, Len(sx))[k] = sx[i + k]
    BY <2>1, Behind
  <2> QED  BY <2>2, Zenon
<1>4. PICK rhs \in Seq(Byte) :
          /\ rhs = mid \o x /\ Len(rhs) = Len(mid) + Len(x)
          /\ \A k \in 1 .. Len(mid) + Len(x) :
                 rhs[k] = IF k <= Len(mid) THEN mid[k] ELSE x[k - Len(mid)]
  <2>1. /\ mid \o x \in Seq(Byte) /\ Len(mid \o x) = Len(mid) + Len(x)
        /\ \A k \in 1 .. Len(mid) + Len(x) :
               (mid \o x)[k] = IF k <= Len(mid) THEN mid[k] ELSE x[k - Len(mid)]
    BY ConcatProperties
  <2> QED  BY <2>1, Zenon
<1>5. PICK m \in Nat, n \in Nat :
          /\ m = Len(s) /\ n = Len(x) /\ i \in 0 .. m
          /\ Len(sx) = m + n /\ Len(mid) = m - i
  <2>1. Len(s) \in Nat /\ Len(x) \in Nat
    OBVIOUS
  <2> QED  BY <2>1, <1>1, <1>2
<1>6. ASSUME NEW k \in 1 .. Len(lhs)
      PROVE  lhs[k] = rhs[k]
  <2>1. /\ k \in 1 .. Len(sx) - i /\ k \in 1 .. Len(mid) + Len(x)
        /\ i + k \in 1 .. Len(s) + Len(x)
    BY <1>3, <1>5
  <2>2. lhs[k] = IF i + k <= Len(s) THEN s[i + k] ELSE x[(i + k) - Len(s)]
    <3>1. lhs[k] = sx[i + k]
      BY <2>1, <1>3, Zenon
    <3>2. sx[i + k] = IF i + k <= Len(s) THEN s[i + k] ELSE x[(i + k) - Len(s)]
      BY <2>1, <1>1, Zenon
    <3> QED  BY <3>1, <3>2, Zenon
  <2>3. rhs[k] = IF k <= Len(mid) THEN mid[k] ELSE x[k - Len(mid)]
    BY <2>1, <1>4, Zenon
  <2>4. /\ i + k <= Len(s) <=> k <= Len(mid)
        /\ (i + k) - Len(s) = k - Len(mid)
        /\ k <= Len(mid) => k \in 1 .. Len(s) - i
    BY <2>1, <1>5
  <2>5. CASE k <= Len(mid)
    <3>1. mid[k] = s[i + k]
      BY <2>4, <2>5, <1>2, Zenon
    <3> QED  BY <2>2, <2>3, <2>4, <2>5, <3>1, Zenon
  <2>6. CASE ~(k <= Len(mid))
    BY <2>2, <2>3, <2>4, <2>6, Zenon
  <2> QED  BY <2>5, <2>6, Zenon
<1>7. Len(lhs) = Len(rhs)
  BY <1>3, <1>4, <1>5
<1>8. lhs = rhs
  BY <1>6, <1>7, SeqEqual
<1> QED  BY <1>1, <1>2, <1>3, <1>4, <1>8, Zenon

Joined(a, b, c) == (a \o b) \o c

\* Bytes may be appended in any grouping.
LEMMA Regroup ==
    ASSUME NEW a \in Seq(Byte), NEW b \in Seq(Byte), NEW c \in Seq(Byte)
    PROVE  Joined(a, b, c) = a \o (b \o c)
BY ConcatAssociative DEF Joined

\* The first of four pieces.
LEMMA FirstPiece ==
    ASSUME NEW x \in Seq(Byte), NEW y \in Seq(Byte), NEW b \in Seq(Byte), NEW c \in Seq(Byte)
    PROVE  /\ Joined(y, b, c) \in Seq(Byte)
           /\ Joined(x \o y, b, c) = x \o Joined(y, b, c)
<1>1. Joined(x, y, b) = x \o (y \o b)
  BY Regroup
<1>2. PICK a \in Seq(Byte) : a = y \o b
  BY ConcatProperties
<1>3. Joined(x, a, c) = x \o (a \o c)
  BY Regroup, ZenonT(40)
<1>4. a \o c \in Seq(Byte)
  BY ConcatProperties
<1> QED  BY <1>1, <1>2, <1>3, <1>4 DEF Joined

\* What send() takes from the front of what is unsent.
LEMMA TailSplit ==
    ASSUME NEW s \in Seq(Byte), NEW i \in Nat, NEW n \in Nat, i + n <= Len(s)
    PROVE  /\ SubSeq(s, i + 1, i + n) \in Seq(Byte)
           /\ Len(SubSeq(s, i + 1, i + n)) = n
           /\ SubSeq(s, i + n + 1, Len(s)) \in Seq(Byte)
           /\ SubSeq(s, i + 1, Len(s)) \in Seq(Byte)
           /\ Len(SubSeq(s, i + n + 1, Len(s))) = Len(s) - i - n
           /\ SubSeq(s, i + 1, Len(s))
                = SubSeq(s, i + 1, i + n) \o SubSeq(s, i + n + 1, Len(s))
<1>1. /\ Len(s) \in Nat /\ i + 1 \in 1 .. Len(s) + 1 /\ i + n \in (i + 1) - 1 .. Len(s)
      /\ Len(s) \in i + n .. Len(s)
  BY LenProperties
<1>2. SubSeq(s, i + 1, i + n) \o SubSeq(s, (i + n) + 1, Len(s)) = SubSeq(s, i + 1, Len(s))
  BY <1>1, ConcatAdjacentSubSeq
<1>3. SubSeq(s, i + 1, i + n) \in Seq(Byte) /\ Len(SubSeq(s, i + 1, i + n)) = n
  BY <1>1
<1>4. /\ SubSeq(s, i + n + 1, Len(s)) \in Seq(Byte)
      /\ Len(SubSeq(s, i + n + 1, Len(s))) = Len(s) - i - n
  BY <1>1
<1>5. SubSeq(s, i + 1, Len(s)) \in Seq(Byte)
  BY <1>1
<1> QED  BY <1>2, <1>3, <1>4, <1>5

-----------------------------------------------------------------------------
(* What is on its way                                                      *)

\* The three parts of the rest of the stream, and how long it may be.
LEMMA Parts ==
    ASSUME StreamTypeOK
    PROVE  /\ view(r) \in Seq(Byte) /\ Len(view(r)) = Len(r.data) - r.off
           /\ unsent(w) \in Seq(Byte) /\ Len(unsent(w)) = Len(w.data) - w.written
           /\ wire \in Seq(Byte) /\ Len(wire) \in Nat
           /\ Rest \in Seq(Byte)
           /\ Len(Rest) = (Len(r.data) - r.off) + Len(wire) + (Len(w.data) - w.written)
<1>1. /\ r.data \in Seq(Byte) /\ r.off \in Nat /\ r.off <= Len(r.data)
      /\ w.data \in Seq(Byte) /\ w.written \in Nat /\ w.written <= Len(w.data)
      /\ wire \in Seq(Byte)
  BY DEF StreamTypeOK, Buffers
<1>2. view(r) \in Seq(Byte) /\ Len(view(r)) = Len(r.data) - r.off
  BY <1>1 DEF view
<1>3. unsent(w) \in Seq(Byte) /\ Len(unsent(w)) = Len(w.data) - w.written
  BY <1>1 DEF unsent
<1>4. /\ view(r) \o wire \in Seq(Byte)
      /\ Len(view(r) \o wire) = Len(view(r)) + Len(wire)
  BY <1>1, <1>2, ConcatProperties
<1>5. Rest \in Seq(Byte) /\ Len(Rest) = Len(view(r) \o wire) + Len(unsent(w))
  BY <1>3, <1>4, ConcatProperties DEF Rest
<1> QED  BY <1>1, <1>2, <1>3, <1>4, <1>5

\* A step that leaves the rest of the stream as it is keeps it intact.
LEMMA RestKept ==
    ASSUME StreamIntact, Rest' = Rest, UNCHANGED <<taken, parsed>>
    PROVE  StreamIntact'
<1>1. Stream(Rest, parsed, taken)
  BY IntactIsStream
<1>2. Stream(Rest, parsed, taken)'
  BY <1>1 DEF Stream
<1> QED  BY <1>2 DEF StreamIntact, Stream, Rest, Ahead

-----------------------------------------------------------------------------
(* Every action preserves the invariant                                    *)

\* No bytes, no frames on their way.
LEMMA EmptyStream ==
    /\ Stream(view(Fresh) \o << >> \o unsent(Fresh), 0, 0)
    /\ << >> \in Seq(Byte) /\ Len(<< >>) = 0
    /\ Fresh \in Buffers /\ Fresh.data = << >> /\ Fresh.off = 0 /\ Fresh.written = 0
    /\ 0 \in 0 .. Wrap - 1
<1>1. << >> \in Seq(Byte) /\ Len(<< >>) = 0
  OBVIOUS
<1>2. Fresh \in Buffers /\ Fresh.data = << >> /\ Fresh.off = 0 /\ Fresh.written = 0
  BY <1>1 DEF Fresh, Buffers
<1>3. view(Fresh) = << >> /\ unsent(Fresh) = << >>
  BY <1>2 DEF view, unsent
<1>4. PICK q : q = view(Fresh) \o << >> \o unsent(Fresh) /\ Len(q) = 0
  BY <1>3
<1>5. 0 \in 0 .. Wrap - 1 /\ (0 - 0) % Wrap = 0
  BY Numbers, Distance
<1>6. ((0 - 0) % Wrap) * Frame = 0
  BY <1>5, Numbers
<1>7. Stream(q, 0, 0)
  BY <1>4, <1>6 DEF Stream
<1> QED  BY <1>1, <1>2, <1>4, <1>5, <1>7

\* A step that only moves a program counter.
LEMMA OnlyControl ==
    ASSUME StreamIInv, UNCHANGED <<mode, w, wire, r, taken, parsed>>,
           wpc' \in {"idle", "build", "flush"}, left' \in Nat,
           rpc' \in {"idle", "read", "parse"}, BatchFits'
    PROVE  StreamIInv'
<1>1. StreamTypeOK'
  BY DEF StreamIInv, StreamTypeOK
<1>2. StreamIntact'
  <2>1. Rest' = Rest
    BY DEF Rest, view, unsent
  <2> QED  BY <2>1, RestKept DEF StreamIInv
<1>3. Offsets'
  BY DEF StreamIInv, Offsets
<1> QED  BY <1>1, <1>2, <1>3 DEF StreamIInv

\* buildBatch starts with an empty buffer, which holds the batch.
LEMMA BuildBatchStep ==
    ASSUME StreamIInv, NEW n \in 1 .. WriteCap \div Frame, buildBatch(n)
    PROVE  StreamIInv'
<1> USE DEF buildBatch
<1>1. /\ w.data \in Seq(Byte) /\ w.off = 0 /\ w.written \in Nat /\ w.written <= Len(w.data)
      /\ w \in Buffers
  BY DEF StreamIInv, StreamTypeOK, Offsets, Buffers
<1>2. Len(w.data) = 0 /\ w.data = << >> /\ w.written = 0
  BY <1>1 DEF length
<1>3. w'.data = << >> /\ w'.written = 0 /\ w'.off = 0 /\ w' \in Buffers
  BY <1>1, EmptyStream DEF clear, Buffers
<1>4. n * Frame <= WriteCap /\ n \in Nat
  <2>1. PICK k \in Nat \ {0} : WriteCap = k * Frame /\ WriteCap \div Frame = k
    BY Sizes
  <2>2. n \in 1 .. k
    BY <2>1
  <2>3. n * Frame <= k * Frame
    BY <2>2, Numbers
  <2> QED  BY <2>1, <2>2, <2>3
<1>5. StreamTypeOK'
  BY <1>3, <1>4, Numbers DEF StreamIInv, StreamTypeOK
<1>6. StreamIntact'
  <2>1. unsent(w)' = unsent(w)
    BY <1>2, <1>3 DEF unsent
  <2>2. Rest' = Rest
    BY <2>1 DEF Rest, view
  <2> QED  BY <2>2, RestKept DEF StreamIInv
<1>7. Offsets'
  BY <1>3 DEF StreamIInv, Offsets
<1>8. BatchFits'
  <2>1. PICK N \in Nat : N = n * Frame
    BY <1>4, Numbers
  <2>2. Len(w'.data) + left' * Frame <= WriteCap
    BY <2>1, <1>3, <1>4, Numbers
  <2> QED  BY <2>2, <1>3 DEF BatchFits
<1> QED  BY <1>5, <1>6, <1>7, <1>8 DEF StreamIInv

\* append has room when the loops call it, so the frame they count is in the stream.
LEMMA AppendFrameStep ==
    ASSUME StreamIInv, AppendFrame
    PROVE  StreamIInv'
<1> USE DEF AppendFrame
<1>1. /\ w.data \in Seq(Byte) /\ w.off = 0 /\ w.written \in Nat /\ w.written <= Len(w.data)
      /\ w \in Buffers /\ mode \in {"request", "response"} /\ left \in Nat /\ left > 0
      /\ taken \in 0 .. Wrap - 1 /\ parsed \in 0 .. Wrap - 1
  BY DEF StreamIInv, StreamTypeOK, Offsets, Buffers, MayAppend
<1>2. (left - 1) * Frame = left * Frame - Frame /\ left * Frame >= Frame
  BY <1>1, Numbers
<1>3. has_room(w, WriteCap)
  <2>1. CASE mode = "response"
    BY <2>1 DEF MayAppend
  <2>2. CASE mode = "request"
    <3>1. Len(w.data) + left * Frame <= WriteCap
      BY <2>2 DEF StreamIInv, BatchFits
    <3>2. left * Frame \in Nat /\ Len(w.data) \in Nat
      BY <1>1, Numbers
    <3> QED  BY <3>1, <3>2, <1>2, Numbers DEF has_room
  <2> QED  BY <2>1, <2>2, <1>1
<1>4. PICK f \in Seq(Byte) : f = FrameBytes(taken) /\ Len(f) = Frame
  BY <1>1, FrameIsBytes
<1>5. /\ w.data \o f \in Seq(Byte) /\ Len(w.data \o f) = Len(w.data) + Frame
  BY <1>1, <1>4, ConcatProperties
<1>6. /\ w'.data = w.data \o f /\ w'.off = 0 /\ w'.written = w.written /\ w' \in Buffers
  BY <1>1, <1>3, <1>4, <1>5 DEF append, Buffers
<1>7. Len(w'.data) <= WriteCap /\ w'.written <= Len(w'.data)
  BY <1>1, <1>3, <1>5, <1>6, Numbers DEF has_room
<1>8. taken' \in 0 .. Wrap - 1
  BY <1>1, Numbers, NextFrame
<1>9. StreamTypeOK'
  BY <1>1, <1>6, <1>7, <1>8 DEF StreamIInv, StreamTypeOK
<1>10. StreamIntact'
  <2>1. unsent(w)' = unsent(w) \o f
    <3>1. PICK i \in 0 .. Len(w.data) : i = w.written
      BY <1>1
    <3>2. SubSeq(w.data \o f, i + 1, Len(w.data \o f)) = SubSeq(w.data, i + 1, Len(w.data)) \o f
      BY <1>1, TailAppend
    <3> QED  BY <3>1, <3>2, <1>6 DEF unsent
  <2>2. StreamTypeOK
    BY DEF StreamIInv
  <2>3. /\ view(r) \in Seq(Byte) /\ unsent(w) \in Seq(Byte) /\ wire \in Seq(Byte)
        /\ Rest \in Seq(Byte)
        /\ Len(Rest) = (Len(r.data) - r.off) + Len(wire) + (Len(w.data) - w.written)
    BY <2>2, Parts
  <2>4. view(r) \o wire \in Seq(Byte)
    BY <2>3, ConcatProperties
  <2>5. Rest' = Rest \o f
    <3>1. Rest' = (view(r) \o wire) \o (unsent(w) \o f)
      BY <2>1 DEF Rest, view
    <3>2. ((view(r) \o wire) \o unsent(w)) \o f = (view(r) \o wire) \o (unsent(w) \o f)
      <4>1. PICK a \in Seq(Byte), b \in Seq(Byte) : a = view(r) \o wire /\ b = unsent(w)
        BY <2>3, <2>4
      <4>2. (a \o b) \o f = a \o (b \o f)
        BY ConcatAssociative
      <4> QED  BY <4>1, <4>2
    <3> QED  BY <3>1, <3>2 DEF Rest
  <2>6. Len(Rest) + Frame < Wrap * Frame
    <3>1. /\ Len(r.data) \in Nat /\ Len(r.data) <= ReadCap /\ r.off \in Nat
          /\ Len(wire) \in Nat /\ Len(wire) <= WireCap /\ Len(w.data) \in Nat
      BY <2>2 DEF StreamTypeOK, Buffers
    <3>2. Len(w.data) + Frame <= WriteCap
      BY <1>3 DEF has_room
    <3>3. PICK a \in Nat, b \in Nat, c \in Nat, d \in Nat, e \in Nat :
              /\ a = Len(r.data) /\ b = r.off /\ c = Len(wire)
              /\ d = Len(w.data) /\ e = w.written
      BY <3>1, <1>1
    <3>4. Len(Rest) = (a - b) + c + (d - e) /\ a <= ReadCap /\ c <= WireCap
          /\ d + Frame <= WriteCap
      BY <2>3, <3>1, <3>2, <3>3
    <3> HIDE <3>3
    <3> QED  BY <3>4, Numbers
  <2>7. Stream(Rest, parsed, taken)
    BY IntactIsStream DEF StreamIInv
  <2>8. Stream(Rest \o FrameBytes(taken), parsed, (taken + 1) % Wrap)
    BY <2>3, <2>6, <2>7, <1>1, StreamAppend
  <2>9. Stream(Rest, parsed, taken)'
    BY <2>5, <2>8, <1>4 DEF Stream
  <2> QED  BY <2>9 DEF StreamIntact, Stream, Rest, Ahead
<1>11. Offsets'
  BY <1>6 DEF StreamIInv, Offsets
<1>12. BatchFits'
  <2>1. SUFFICES ASSUME mode = "request"
                 PROVE  w'.written = 0 /\ Len(w'.data) + left' * Frame <= WriteCap
    BY DEF BatchFits
  <2>2. w.written = 0 /\ Len(w.data) + left * Frame <= WriteCap
    BY <2>1 DEF StreamIInv, BatchFits
  <2>3. left * Frame \in Nat /\ Len(w.data) \in Nat /\ left' = left - 1
    BY <1>1, Numbers
  <2> QED  BY <2>2, <2>3, <1>2, <1>5, <1>6, Numbers
<1> QED  BY <1>9, <1>10, <1>11, <1>12 DEF StreamIInv

\* send() moves bytes from the writer to the kernel.
LEMMA SendStep ==
    ASSUME StreamIInv, NEW n \in 1 .. WireCap, Send(n)
    PROVE  StreamIInv'
<1> USE DEF Send
<1>1. /\ w.data \in Seq(Byte) /\ w.off = 0 /\ w.written \in Nat /\ w.written <= Len(w.data)
      /\ w \in Buffers /\ wire \in Seq(Byte) /\ Len(w.data) \in Nat
  BY DEF StreamIInv, StreamTypeOK, Offsets, Buffers
<1>2. n \in Nat /\ w.written + n <= Len(w.data)
  <2>1. n \in Nat
    BY Numbers
  <2>2. n <= Len(w.data) - w.written
    BY DEF remaining_to_send
  <2> QED  BY <1>1, <2>1, <2>2
<1>3. PICK i \in Nat : i = w.written
  BY <1>1
<1>4. PICK d \in Seq(Byte) : d = w.data /\ i + n <= Len(d)
  BY <1>1, <1>2, <1>3
<1>5. PICK x \in Seq(Byte), y \in Seq(Byte) :
          /\ x = SubSeq(w.data, i + 1, i + n) /\ Len(x) = n
          /\ y = SubSeq(w.data, i + n + 1, Len(w.data))
          /\ SubSeq(w.data, i + 1, Len(w.data)) = x \o y
  <2>1. /\ SubSeq(d, i + 1, i + n) \in Seq(Byte)
        /\ Len(SubSeq(d, i + 1, i + n)) = n
        /\ SubSeq(d, i + n + 1, Len(d)) \in Seq(Byte)
        /\ SubSeq(d, i + 1, Len(d)) \in Seq(Byte)
        /\ Len(SubSeq(d, i + n + 1, Len(d))) = Len(d) - i - n
        /\ SubSeq(d, i + 1, Len(d))
             = SubSeq(d, i + 1, i + n) \o SubSeq(d, i + n + 1, Len(d))
    BY <1>2, <1>4, TailSplit
  <2> QED  BY <2>1, <1>4
<1>6. w'.data = w.data /\ w'.off = 0 /\ w'.written = i + n /\ w' \in Buffers
  <2>1. i + n \in Nat
    BY <1>2
  <2> QED  BY <1>1, <1>3, <2>1 DEF Buffers
<1>7. wire' = wire \o x /\ wire' \in Seq(Byte) /\ Len(wire') = Len(wire) + n
  <2>1. wire' = wire \o x
    BY <1>3, <1>5
  <2>2. wire \o x \in Seq(Byte) /\ Len(wire \o x) = Len(wire) + Len(x)
    BY <1>1, ConcatProperties
  <2> QED  BY <2>1, <2>2, <1>5
<1>8. StreamTypeOK'
  BY <1>1, <1>2, <1>3, <1>6, <1>7 DEF StreamIInv, StreamTypeOK
<1>9. StreamIntact'
  <2>1. unsent(w) = x \o y /\ unsent(w)' = y
    BY <1>3, <1>5, <1>6 DEF unsent
  <2>2. view(r) \in Seq(Byte) /\ view(r)' = view(r)
    BY Parts DEF StreamIInv, view
  <2>3. (view(r) \o (wire \o x)) \o y = (view(r) \o wire) \o (x \o y)
    <3>1. PICK a \in Seq(Byte), b \in Seq(Byte) : a = view(r) /\ b = wire
      BY <2>2, <1>1
    <3>2. Joined(a, b, x) = a \o (b \o x)
      BY Regroup, ZenonT(40)
    <3>3. PICK c \in Seq(Byte) : c = a \o b
      BY ConcatProperties
    <3>4. Joined(c, x, y) = c \o (x \o y)
      BY Regroup, ZenonT(40)
    <3> QED  BY <3>1, <3>2, <3>3, <3>4 DEF Joined
  <2>4. Rest' = Rest
    BY <2>1, <2>2, <2>3, <1>7 DEF Rest
  <2> QED  BY <2>4, RestKept DEF StreamIInv
<1>10. Offsets'
  BY <1>6 DEF StreamIInv, Offsets
<1>11. BatchFits'
  BY DEF BatchFits
<1> QED  BY <1>8, <1>9, <1>10, <1>11 DEF StreamIInv

\* The buffer is reset when all of it is sent: nothing unsent is dropped.
LEMMA FlushEndStep ==
    ASSUME StreamIInv, FlushEnd
    PROVE  StreamIInv'
<1> USE DEF FlushEnd
<1>1. /\ w.data \in Seq(Byte) /\ w.off = 0 /\ w.written \in Nat /\ w.written <= Len(w.data)
      /\ w \in Buffers /\ Len(w.data) \in Nat
  BY DEF StreamIInv, StreamTypeOK, Offsets, Buffers
<1>2. CASE remaining_to_send(w) = 0
  <2>1. w.written = Len(w.data)
    BY <1>1, <1>2 DEF remaining_to_send
  <2>2. w'.data = << >> /\ w'.off = 0 /\ w'.written = 0 /\ w' \in Buffers
    BY <1>1, <1>2, <2>1, EmptyStream DEF try_reset, Buffers
  <2>3. StreamTypeOK'
    BY <2>2, Numbers DEF StreamIInv, StreamTypeOK
  <2>4. StreamIntact'
    <3>1. unsent(w) = << >>
      BY <1>1, <2>1, SubSeqEmpty DEF unsent
    <3>2. unsent(w)' = << >>
      BY <2>2 DEF unsent
    <3>3. Rest' = Rest
      BY <3>1, <3>2 DEF Rest, view
    <3> QED  BY <3>3, RestKept DEF StreamIInv
  <2>5. Offsets'
    BY <2>2 DEF StreamIInv, Offsets
  <2>6. BatchFits'
    BY DEF BatchFits
  <2> QED  BY <2>3, <2>4, <2>5, <2>6 DEF StreamIInv
<1>3. CASE remaining_to_send(w) # 0
  <2>1. BatchFits'
    BY DEF BatchFits
  <2> QED  BY <1>3, <2>1, OnlyControl DEF StreamIInv, StreamTypeOK
<1> QED  BY <1>2, <1>3

\* recv() moves bytes from the kernel to the reader, and the memmove before it
\* keeps what is not parsed.
LEMMA ReadFromStep ==
    ASSUME StreamIInv, NEW n \in 1 .. WireCap, n <= Len(wire), read_from(n),
           UNCHANGED <<mode, w, wpc, left, taken, parsed>>,
           rpc' \in {"idle", "read", "parse"}
    PROVE  StreamIInv'
<1>1. /\ r.data \in Seq(Byte) /\ r.off \in Nat /\ r.off <= Len(r.data) /\ r.written \in Nat
      /\ r \in Buffers /\ wire \in Seq(Byte) /\ Len(r.data) \in Nat /\ Len(wire) \in Nat
      /\ Len(r.data) <= ReadCap /\ Len(wire) <= WireCap
      /\ view(r) \in Seq(Byte) /\ unsent(w) \in Seq(Byte)
      /\ Len(view(r)) = Len(r.data) - r.off
  BY Parts DEF StreamIInv, StreamTypeOK, Offsets, Buffers
<1>2. n \in Nat /\ n > 0
  BY Numbers
<1>3. PICK b \in Buffers :
          /\ b = compact(r, ReadCap) /\ view(b) = view(r) /\ b.off <= Len(b.data)
          /\ b.off = r.off \/ b.off = 0
          /\ b.off = 0 \/ b.off < Len(b.data)
  <2>1. CASE r.off > 0 /\ Len(r.data) = ReadCap
    <3>1. PICK v \in Seq(Byte) : v = view(r) /\ Len(v) \in Nat
      BY <1>1
    <3>2. PICK b : b = [r EXCEPT !.data = v, !.off = 0]
      OBVIOUS
    <3>3. b \in Buffers /\ b.data = v /\ b.off = 0
      BY <3>1, <3>2, <1>1 DEF Buffers
    <3>4. view(b) = v
      <4>1. SubSeq(v, 1, Len(v)) = v
        BY <3>1, SubSeqFull
      <4> QED  BY <3>3, <4>1 DEF view
    <3>5. b = compact(r, ReadCap)
      BY <2>1, <3>1, <3>2 DEF compact
    <3> QED  BY <3>1, <3>3, <3>4, <3>5
  <2>2. CASE ~(r.off > 0 /\ Len(r.data) = ReadCap)
    <3>1. compact(r, ReadCap) = r
      BY <2>2 DEF compact
    <3> QED  BY <3>1, <1>1 DEF StreamIInv, Offsets
  <2> QED  BY <2>1, <2>2
<1>4. b.data \in Seq(Byte) /\ b.off \in Nat /\ b.written \in Nat /\ Len(b.data) \in Nat
  BY <1>3 DEF Buffers
<1>5. n <= ReadCap - Len(b.data)
  <2>1. n <= remaining_capacity(b, ReadCap)
    BY <1>3 DEF read_from
  <2> QED  BY <2>1 DEF remaining_capacity
<1>6. PICK x \in Seq(Byte), y \in Seq(Byte) :
          /\ x = SubSeq(wire, 1, n) /\ Len(x) = n
          /\ y = SubSeq(wire, n + 1, Len(wire)) /\ Len(y) = Len(wire) - n
          /\ wire = x \o y
  <2>1. PICK q \in Seq(Byte) : q = wire /\ 0 + n <= Len(q) /\ Len(q) \in Nat
    BY <1>1, <1>2
  <2>2. /\ SubSeq(q, 0 + 1, 0 + n) \in Seq(Byte)
        /\ Len(SubSeq(q, 0 + 1, 0 + n)) = n
        /\ SubSeq(q, 0 + n + 1, Len(q)) \in Seq(Byte)
        /\ Len(SubSeq(q, 0 + n + 1, Len(q))) = Len(q) - 0 - n
        /\ SubSeq(q, 0 + 1, Len(q))
             = SubSeq(q, 0 + 1, 0 + n) \o SubSeq(q, 0 + n + 1, Len(q))
    BY <2>1, <1>2, TailSplit
  <2>3. 0 + 1 = 1 /\ 0 + n = n /\ 0 + n + 1 = n + 1 /\ Len(q) - 0 - n = Len(q) - n
    BY <2>1, <1>2
  <2>4. SubSeq(q, 1, Len(q)) = q
    BY SubSeqFull
  <2>5. /\ SubSeq(q, 1, n) \in Seq(Byte) /\ Len(SubSeq(q, 1, n)) = n
        /\ SubSeq(q, n + 1, Len(q)) \in Seq(Byte)
        /\ Len(SubSeq(q, n + 1, Len(q))) = Len(q) - n
        /\ q = SubSeq(q, 1, n) \o SubSeq(q, n + 1, Len(q))
    BY <2>2, <2>3, <2>4, Zenon
  <2> QED  BY <2>1, <2>5
<1>7. b.data \o x \in Seq(Byte) /\ Len(b.data \o x) = Len(b.data) + n
  BY <1>4, <1>6, ConcatProperties
<1>8. r'.data = b.data \o x /\ r'.off = b.off /\ r' \in Buffers /\ wire' = y
  BY <1>3, <1>4, <1>6, <1>7 DEF read_from, Buffers
<1>9. Len(r'.data) <= ReadCap /\ r'.off < Len(r'.data)
  BY <1>2, <1>3, <1>4, <1>5, <1>7, <1>8, Numbers, SMTT(30)
<1>10. StreamTypeOK'
  <2>1. Len(wire') <= WireCap /\ wire' \in Seq(Byte)
    BY <1>1, <1>2, <1>6, <1>8, Numbers, SMTT(30)
  <2> QED  BY <2>1, <1>4, <1>8, <1>9 DEF StreamIInv, StreamTypeOK
<1>11. StreamIntact'
  <2>1. view(r)' = view(r) \o x
    <3>1. PICK i \in 0 .. Len(b.data) : i = b.off
      BY <1>3, <1>4
    <3>2. SubSeq(b.data \o x, i + 1, Len(b.data \o x))
             = SubSeq(b.data, i + 1, Len(b.data)) \o x
      BY <1>4, TailAppend
    <3>3. view(b) = SubSeq(b.data, i + 1, Len(b.data))
      BY <3>1 DEF view
    <3>4. view(r)' = SubSeq(b.data \o x, i + 1, Len(b.data \o x))
      BY <3>1, <1>8 DEF view
    <3> QED  BY <3>2, <3>3, <3>4, <1>3
  <2>2. PICK v \in Seq(Byte) : v = view(r)
    BY <1>1
  <2>3. Joined(v, x, y) = v \o (x \o y)
    BY Regroup
  <2>4. unsent(w)' = unsent(w)
    BY DEF unsent
  <2>5. Rest' = Rest
    BY <2>1, <2>2, <2>3, <2>4, <1>6, <1>8 DEF Rest, Joined
  <2> QED  BY <2>5, RestKept DEF StreamIInv
<1>12. Offsets'
  <2>1. \E j \in 0 .. ReadCap : b.off = j * Frame
    <3>1. CASE b.off = r.off
      BY <3>1 DEF StreamIInv, Offsets
    <3>2. CASE b.off = 0
      BY <3>2, Numbers
    <3> QED  BY <3>1, <3>2, <1>3
  <2> QED  BY <2>1, <1>8, <1>9 DEF StreamIInv, Offsets
<1>13. BatchFits'
  BY DEF StreamIInv, BatchFits
<1> QED  BY <1>10, <1>11, <1>12, <1>13 DEF StreamIInv

\* A parsed frame is the first of the rest of the stream.
LEMMA ParseFrameStep ==
    ASSUME StreamIInv, ParseFrame
    PROVE  StreamIInv'
<1> USE DEF ParseFrame
<1>1. /\ r.data \in Seq(Byte) /\ r.off \in Nat /\ r.off <= Len(r.data) /\ r.written \in Nat
      /\ r \in Buffers /\ Len(r.data) \in Nat /\ Len(r.data) <= ReadCap
      /\ taken \in 0 .. Wrap - 1 /\ parsed \in 0 .. Wrap - 1
  BY DEF StreamIInv, StreamTypeOK, Buffers
<1>2. r.off + Frame <= Len(r.data)
  BY <1>1, Numbers DEF HoldsFrame, length
<1>3. parsed' \in 0 .. Wrap - 1
  BY <1>1, Numbers, NextFrame
<1>4. /\ r' \in Buffers /\ Len(r'.data) <= ReadCap /\ r'.off <= Len(r'.data)
      /\ r'.off = 0 \/ r'.off < Len(r'.data)
      /\ r'.off = 0 \/ r'.off = r.off + Frame
      /\ view(r)' = SubSeq(r.data, r.off + Frame + 1, Len(r.data))
  <2>1. CASE r.off + Frame >= Len(r.data)
    <3>1. r'.data = << >> /\ r'.off = 0 /\ r' \in Buffers
      BY <2>1, <1>1, EmptyStream DEF advance, Buffers
    <3>2. view(r)' = << >>
      BY <3>1 DEF view
    <3>3. SubSeq(r.data, r.off + Frame + 1, Len(r.data)) = << >>
      BY <2>1, <1>1, Numbers, SubSeqEmpty
    <3>4. Len(r'.data) = 0 /\ 0 <= ReadCap
      BY <3>1, Numbers
    <3>5. r'.off <= Len(r'.data) /\ Len(r'.data) <= ReadCap
      BY <3>1, <3>4
    <3> QED  BY <3>1, <3>2, <3>3, <3>5
  <2>2. CASE ~(r.off + Frame >= Len(r.data))
    <3>0. r.off + Frame \in Nat
      BY <1>1, Numbers
    <3>1. r'.data = r.data /\ r'.off = r.off + Frame /\ r' \in Buffers
      BY <2>2, <3>0, <1>1 DEF advance, Buffers
    <3>2. view(r)' = SubSeq(r.data, r.off + Frame + 1, Len(r.data))
      BY <3>1 DEF view
    <3> QED  BY <3>0, <3>1, <3>2, <2>2, <1>1
  <2> QED  BY <2>1, <2>2
<1>5. StreamTypeOK'
  BY <1>3, <1>4 DEF StreamIInv, StreamTypeOK
<1>6. StreamIntact'
  <2>1. /\ view(r) \in Seq(Byte) /\ wire \in Seq(Byte) /\ unsent(w) \in Seq(Byte)
        /\ Rest \in Seq(Byte)
    BY Parts DEF StreamIInv
  <2>2. PICK i \in Nat : i = r.off
    BY <1>1
  <2>3. PICK d \in Seq(Byte) : d = r.data /\ i + Frame <= Len(d)
    BY <2>2, <1>1, <1>2
  <2>4. /\ SubSeq(d, i + 1, i + Frame) \in Seq(Byte)
        /\ Len(SubSeq(d, i + 1, i + Frame)) = Frame
        /\ SubSeq(d, i + Frame + 1, Len(d)) \in Seq(Byte)
        /\ SubSeq(d, i + 1, Len(d))
             = SubSeq(d, i + 1, i + Frame) \o SubSeq(d, i + Frame + 1, Len(d))
    <3>1. Frame \in Nat
      BY Numbers
    <3> QED  BY <2>3, <3>1, TailSplit
  <2>5. PICK x \in Seq(Byte), y \in Seq(Byte) :
            Len(x) = Frame /\ view(r) = x \o y /\ view(r)' = y
    BY <2>2, <2>3, <2>4, <1>4 DEF view
  <2>6. PICK q \in Seq(Byte) : /\ q = (y \o wire) \o unsent(w)
                               /\ ((x \o y) \o wire) \o unsent(w) = x \o q
    <3>1. PICK b \in Seq(Byte), c \in Seq(Byte) : b = wire /\ c = unsent(w)
      BY <2>1
    <3>2. /\ Joined(y, b, c) \in Seq(Byte)
          /\ Joined(x \o y, b, c) = x \o Joined(y, b, c)
      BY FirstPiece
    <3> QED  BY <3>1, <3>2 DEF Joined
  <2>7. Rest = x \o q
    BY <2>5, <2>6 DEF Rest
  <2>8. Rest' = q
    BY <2>5, <2>6 DEF Rest, unsent
  <2>9. PICK s \in Seq(Byte) :
            /\ s = Rest /\ Len(s) = Frame + Len(q)
            /\ \A k \in 1 .. Len(q) : q[k] = s[k + Frame]
    <3>1. /\ x \o q \in Seq(Byte) /\ Len(x \o q) = Len(x) + Len(q)
          /\ \A k \in 1 .. Len(x) + Len(q) :
                 (x \o q)[k] = IF k <= Len(x) THEN x[k] ELSE q[k - Len(x)]
      BY ConcatProperties
    <3>2. Len(q) \in Nat
      OBVIOUS
    <3>3. ASSUME NEW k \in 1 .. Len(q)
          PROVE  q[k] = (x \o q)[k + Frame]
      <4>1. k + Frame \in 1 .. Len(x) + Len(q) /\ k + Frame > Len(x) /\ (k + Frame) - Len(x) = k
        BY <2>5, <3>2, Numbers
      <4> QED  BY <3>1, <4>1
    <3> QED  BY <2>5, <2>7, <3>1, <3>3
  <2>10. Stream(s, parsed, taken)
    BY <2>9, IntactIsStream DEF StreamIInv
  <2>11. Len(s) >= Frame /\ Len(q) = Len(s) - Frame
    BY <2>9, Numbers
  <2>12. Stream(q, (parsed + 1) % Wrap, taken)
    BY <2>9, <2>10, <2>11, <1>1, StreamDrop
  <2>13. Stream(Rest, parsed, taken)'
    BY <2>8, <2>12 DEF Stream
  <2> QED  BY <2>13 DEF StreamIntact, Stream, Rest, Ahead
<1>7. Offsets'
  <2>1. \E j \in 0 .. ReadCap : r'.off = j * Frame
    <3>1. CASE r'.off = 0
      BY <3>1, Numbers
    <3>2. CASE r'.off = r.off + Frame
      <4>1. PICK j \in 0 .. ReadCap : r.off = j * Frame
        BY DEF StreamIInv, Offsets
      <4>2. (j + 1) * Frame = j * Frame + Frame /\ j + 1 <= (j + 1) * Frame
        BY Numbers
      <4>3. j + 1 <= ReadCap
        BY <3>2, <4>1, <4>2, <1>1, <1>2, Numbers
      <4> QED  BY <3>2, <4>1, <4>2, <4>3, Numbers
    <3> QED  BY <3>1, <3>2, <1>4
  <2> QED  BY <2>1, <1>4 DEF StreamIInv, Offsets
<1>8. BatchFits'
  BY DEF StreamIInv, BatchFits
<1> QED  BY <1>5, <1>6, <1>7, <1>8 DEF StreamIInv

\* Both ends start again with empty buffers: nothing of the old stream is left.
LEMMA ReconnectStep ==
    ASSUME StreamIInv, Reconnect
    PROVE  StreamIInv'
<1> USE DEF Reconnect
<1>1. w \in Buffers /\ r \in Buffers /\ mode \in {"request", "response"}
  BY DEF StreamIInv, StreamTypeOK
<1>2. /\ w' \in Buffers /\ w'.data = << >> /\ w'.off = 0 /\ w'.written = 0
      /\ r' \in Buffers /\ r'.data = << >> /\ r'.off = 0 /\ r'.written = 0
  BY <1>1, EmptyStream DEF clear, Buffers
<1>3. StreamTypeOK'
  BY <1>1, <1>2, EmptyStream, Numbers DEF StreamTypeOK
<1>4. StreamIntact'
  <2>1. view(r)' = view(Fresh) /\ unsent(w)' = unsent(Fresh)
    BY <1>2, EmptyStream DEF view, unsent
  <2>2. Stream(Rest, parsed, taken)'
    BY <2>1, EmptyStream DEF Stream, Rest
  <2> QED  BY <2>2 DEF StreamIntact, Stream, Rest, Ahead
<1>5. Offsets'
  BY <1>2, Numbers DEF Offsets
<1>6. BatchFits'
  BY DEF BatchFits
<1> QED  BY <1>3, <1>4, <1>5, <1>6 DEF StreamIInv

\* A connection begins with an intact, empty stream.
LEMMA InitHolds ==
    ASSUME Init
    PROVE  StreamIInv
<1> USE DEF Init
<1>1. StreamTypeOK
  BY EmptyStream, Numbers DEF StreamTypeOK
<1>2. StreamIntact
  BY EmptyStream, IntactIsStream DEF Rest
<1>3. Offsets
  BY EmptyStream, Numbers DEF Offsets
<1>4. BatchFits
  BY DEF BatchFits
<1> QED  BY <1>1, <1>2, <1>3, <1>4 DEF StreamIInv

\* The steps that change only where the writer and the reader are.
LEMMA ControlSteps ==
    ASSUME StreamIInv,
           \/ \E n \in 0 .. WriteCap \div Frame : beginSends(n)
           \/ BuildEnd \/ retryFlush \/ readAndProcessBytes \/ readRequestEnd \/ ParseEnd
    PROVE  StreamIInv'
<1>1. /\ wpc \in {"idle", "build", "flush"} /\ rpc \in {"idle", "read", "parse"}
      /\ left \in Nat /\ BatchFits
  BY DEF StreamIInv, StreamTypeOK
<1>2. CASE \E n \in 0 .. WriteCap \div Frame : beginSends(n)
  <2>1. PICK n \in 0 .. WriteCap \div Frame : beginSends(n)
    BY <1>2
  <2>2. n \in Nat
    BY Sizes
  <2>3. BatchFits'
    BY <2>1 DEF beginSends, BatchFits
  <2> QED  BY <2>1, <2>2, <2>3, <1>1, OnlyControl DEF beginSends
<1>3. CASE BuildEnd
  <2>1. BatchFits'
    BY <1>3 DEF BuildEnd, BatchFits
  <2> QED  BY <2>1, <1>1, <1>3, OnlyControl DEF BuildEnd
<1>4. CASE retryFlush
  <2>1. BatchFits'
    BY <1>4 DEF retryFlush, BatchFits
  <2> QED  BY <2>1, <1>1, <1>4, OnlyControl DEF retryFlush
<1>5. CASE readAndProcessBytes
  <2>1. BatchFits'
    BY <1>1, <1>5 DEF readAndProcessBytes, BatchFits
  <2> QED  BY <2>1, <1>1, <1>5, OnlyControl DEF readAndProcessBytes
<1>6. CASE readRequestEnd
  <2>1. BatchFits'
    BY <1>1, <1>6 DEF readRequestEnd, BatchFits
  <2> QED  BY <2>1, <1>1, <1>6, OnlyControl DEF readRequestEnd
<1>7. CASE ParseEnd
  <2>1. BatchFits'
    BY <1>1, <1>7 DEF ParseEnd, BatchFits
  <2> QED  BY <2>1, <1>1, <1>7, OnlyControl DEF ParseEnd
<1> QED  BY <1>2, <1>3, <1>4, <1>5, <1>6, <1>7

\* Every step preserves the invariant.
LEMMA StreamNext ==
    ASSUME StreamIInv, [Next]_vars
    PROVE  StreamIInv'
<1>0. /\ 0 \in 0 .. WriteCap \div Frame
      /\ \A n \in 1 .. WriteCap \div Frame : n \in 0 .. WriteCap \div Frame
  BY Sizes
<1>1. ASSUME NEW n \in 1 .. WriteCap \div Frame, buildBatch(n)
      PROVE  StreamIInv'
  BY <1>1, BuildBatchStep
<1>2. ASSUME NEW n \in 1 .. WriteCap \div Frame, beginSends(n)
      PROVE  StreamIInv'
  BY <1>0, <1>2, ControlSteps
<1>3. ASSUME Flush PROVE StreamIInv'
  <2>1. CASE beginSends(0)
    BY <1>0, <2>1, ControlSteps
  <2>2. CASE retryFlush \/ BuildEnd
    BY <2>2, ControlSteps
  <2>3. CASE AppendFrame
    BY <2>3, AppendFrameStep
  <2>4. CASE \E n \in 1 .. WireCap : Send(n)
    BY <2>4, SendStep
  <2>5. CASE FlushEnd
    BY <2>5, FlushEndStep
  <2> QED  BY <1>3, <2>1, <2>2, <2>3, <2>4, <2>5 DEF Flush
<1>4. ASSUME Read PROVE StreamIInv'
  <2>1. CASE readAndProcessBytes \/ readRequestEnd \/ ParseEnd
    BY <2>1, ControlSteps
  <2>2. ASSUME NEW n \in 1 .. WireCap, readRequest(n)
        PROVE  StreamIInv'
    BY <2>2, ReadFromStep DEF readRequest, StreamIInv, StreamTypeOK
  <2>3. ASSUME NEW n \in 1 .. WireCap, handleReadable(n)
        PROVE  StreamIInv'
    BY <2>3, ReadFromStep DEF handleReadable
  <2>4. CASE ParseFrame
    BY <2>4, ParseFrameStep
  <2> QED  BY <1>4, <2>1, <2>2, <2>3, <2>4 DEF Read
<1>5. ASSUME Reconnect PROVE StreamIInv'
  BY <1>5, ReconnectStep
<1>6. ASSUME UNCHANGED vars PROVE StreamIInv'
  <2>1. BatchFits'
    BY <1>6 DEF vars, StreamIInv, BatchFits
  <2> QED  BY <1>6, <2>1, OnlyControl DEF vars, StreamIInv, StreamTypeOK
<1> QED  BY <1>1, <1>2, <1>3, <1>4, <1>5, <1>6 DEF Next

-----------------------------------------------------------------------------
(* The theorems                                                            *)

\* The inductive invariant holds in every state of every connection.
THEOREM StreamInvariant == Spec => []StreamIInv
<1>1. Init => StreamIInv
  BY InitHolds
<1>2. StreamIInv /\ [Next]_vars => StreamIInv'
  BY StreamNext
<1> QED  BY <1>1, <1>2, PTL DEF Spec

\* No index of Buffer passes its data and nothing is written past the end of a
\* buffer, for buffers of any whole number of frames.
THEOREM StreamTypeCorrect == Spec => []StreamTypeOK
<1>1. StreamIInv => StreamTypeOK
  BY DEF StreamIInv
<1> QED  BY <1>1, StreamInvariant, PTL

\* However send() and recv() cut the bytes, the parser meets the frames whole, in
\* order and once, and nothing of a lost connection reaches the next one.
THEOREM StreamStaysIntact == Spec => []StreamIntact
<1>1. StreamIInv => StreamIntact
  BY DEF StreamIInv
<1> QED  BY <1>1, StreamInvariant, PTL

\* The rest of a frame that arrived in part fits behind it, so no recv() is given
\* a length of 0.
THEOREM RoomIsLeft == Spec => []RoomToRead
<1>1. ASSUME StreamIInv PROVE RoomToRead
  <2>1. /\ r.off \in Nat /\ Len(r.data) \in Nat /\ r.off <= Len(r.data)
        /\ Len(r.data) <= ReadCap
    BY <1>1 DEF StreamIInv, StreamTypeOK, Buffers
  <2>2. PICK k \in Nat \ {0} : ReadCap = k * Frame
    BY Sizes
  <2>3. PICK j \in 0 .. ReadCap : r.off = j * Frame
    BY <1>1 DEF StreamIInv, Offsets
  <2>4. r.off + Frame <= ReadCap
    <3>1. CASE r.off = 0
      <4>1. Frame <= k * Frame
        BY Numbers
      <4> QED  BY <3>1, <4>1, <2>2, Numbers
    <3>2. CASE r.off < Len(r.data)
      <4>1. j * Frame < k * Frame
        BY <3>2, <2>1, <2>2, <2>3, Numbers
      <4>2. j * Frame + Frame <= k * Frame
        BY <4>1, Numbers, Apart
      <4> QED  BY <4>2, <2>2, <2>3
    <3> QED  BY <1>1, <3>1, <3>2 DEF StreamIInv, Offsets
  <2> QED  BY <2>1, <2>4, Numbers DEF RoomToRead, length, remaining_capacity
<1> QED  BY <1>1, StreamInvariant, PTL
=============================================================================

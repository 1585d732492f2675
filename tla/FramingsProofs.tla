--------------------------- MODULE FramingsProofs ---------------------------
(***************************************************************************)
(* Machine-checked proofs about Framings, for any messages, any sizes of   *)
(* channels and any pieces the bytes come in: the dialogs implement        *)
(* FramedLink and hold nothing back -- the serialized one as long as sizes *)
(* are read whole and read back as they were sent -- and no slot of the    *)
(* mmap dialog's channel is lost.  What a dialog is still to relay is      *)
(* spelt by the bytes it holds followed by those on the wire.              *)
(***************************************************************************)
EXTENDS Framings, ChannelLemmas, ConstConfigProofs

-----------------------------------------------------------------------------
(* Streams that spell frames *)

\* After its first `at` elements, the stream is made of the frames that come after
\* the first n, each where the one before it ends
Spelt(stream, at, frames, n) ==
    \E start \in [n + 1 .. Len(frames) + 1 -> Nat] :
        /\ start[n + 1] = at
        /\ start[Len(frames) + 1] = Len(stream)
        /\ \A k, l \in n + 1 .. Len(frames) + 1 : k <= l => start[k] <= start[l]
        /\ \A k \in n + 1 .. Len(frames) :
            /\ start[k + 1] = start[k] + Len(frames[k])
            /\ \A j \in 1 .. Len(frames[k]) : stream[start[k] + j] = frames[k][j]

\* No frame is spelt by no byte.
LEMMA NothingSpelt == Spelt(<<>>, 0, <<>>, 0)
<1> DEFINE start == [k \in 1 .. 1 |-> 0]
<1>1. Len(<<>>) = 0
  BY EmptySeq
<1>2. /\ start \in [0 + 1 .. Len(<<>>) + 1 -> Nat]
      /\ start[0 + 1] = 0 /\ start[Len(<<>>) + 1] = Len(<<>>)
      /\ \A k, l \in 0 + 1 .. Len(<<>>) + 1 : k <= l => start[k] <= start[l]
  BY <1>1
<1>3. 0 + 1 .. Len(<<>>) = {}
  BY <1>1
<1> HIDE DEF start
<1> QED BY <1>2, <1>3, Zenon DEF Spelt

\* What an index of a sequence of that length is
LEMMA IndexBounds ==
    ASSUME NEW length \in Nat, NEW j \in 1 .. length
    PROVE  j \in Nat /\ 1 <= j /\ j <= length
OBVIOUS

\* An element of a frame is one of the stream.
LEMMA InFrame ==
    ASSUME NEW from \in Nat, NEW to, NEW size \in Nat, NEW last \in Nat, NEW j \in Nat,
           to = from + size, to <= last, 1 <= j, j <= size
    PROVE  from + j \in 1 .. last
OBVIOUS

\* Writing a frame after the others
LEMMA FrameWritten ==
    ASSUME NEW S, NEW stream \in Seq(S), NEW frames \in Seq(Seq(S)), NEW frame \in Seq(S),
           NEW n \in 0 .. Len(frames), NEW at \in Nat,
           Spelt(stream, at, frames, n)
    PROVE  Spelt(stream \o frame, at, Append(frames, frame), n)
<1>1. PICK start \in [n + 1 .. Len(frames) + 1 -> Nat] :
        /\ start[n + 1] = at
        /\ start[Len(frames) + 1] = Len(stream)
        /\ \A k, l \in n + 1 .. Len(frames) + 1 : k <= l => start[k] <= start[l]
        /\ \A k \in n + 1 .. Len(frames) :
            /\ start[k + 1] = start[k] + Len(frames[k])
            /\ \A j \in 1 .. Len(frames[k]) : stream[start[k] + j] = frames[k][j]
  BY DEF Spelt
<1> DEFINE s == stream \o frame
           f == Append(frames, frame)
           last == Len(frames) + 1
           next == [k \in n + 1 .. last + 1 |->
                        IF k = last + 1 THEN Len(stream) + Len(frame) ELSE start[k]]
<1>2. /\ s \in Seq(S) /\ Len(s) = Len(stream) + Len(frame)
      /\ Len(stream) \in Nat /\ Len(frame) \in Nat
      /\ \A i \in 1 .. Len(stream) : s[i] = stream[i]
      /\ \A i \in 1 .. Len(frame) : s[Len(stream) + i] = frame[i]
  BY ConcatProperties
<1>3. /\ f \in Seq(Seq(S)) /\ Len(f) = last /\ last \in Nat /\ n \in Nat
      /\ \A k \in 1 .. last - 1 : f[k] = frames[k] /\ Len(frames[k]) \in Nat
      /\ f[last] = frame
  BY AppendProperties, ElementOfSeq
<1>4. /\ \A k \in n + 1 .. last : next[k] = start[k] /\ start[k] \in Nat /\ start[k] <= Len(stream)
      /\ next[last + 1] = Len(stream) + Len(frame)
      /\ next[last] = Len(stream)
  <2>1. last \in n + 1 .. last /\ start[last] = Len(stream)
    BY <1>1, <1>3
  <2>2. ASSUME NEW k \in n + 1 .. last PROVE start[k] \in Nat /\ start[k] <= Len(stream)
    <3>1. start[k] \in Nat
      BY <1>1
    <3>2. k <= last
      BY <1>3
    <3>3. start[k] <= start[last]
      BY <1>1, <2>1, <3>2
    <3> QED BY <2>1, <3>1, <3>3
  <2>3. \A k \in n + 1 .. last : k \in n + 1 .. last + 1 /\ k # last + 1
    BY <1>3
  <2>4. last + 1 \in n + 1 .. last + 1
    BY <1>3
  <2> HIDE DEF last
  <2> QED BY <2>1, <2>2, <2>3, <2>4
<1>5. next \in [n + 1 .. last + 1 -> Nat]
  BY <1>2, <1>3, <1>4
<1> HIDE DEF next, s, f
<1>6. \A k, l \in n + 1 .. last + 1 : k <= l => next[k] <= next[l]
  <2> SUFFICES ASSUME NEW k \in n + 1 .. last + 1, NEW l \in n + 1 .. last + 1, k <= l
               PROVE  next[k] <= next[l]
    OBVIOUS
  <2>1. CASE l \in n + 1 .. last
    <3>1. k \in n + 1 .. last
      BY <1>3, <2>1
    <3>2. next[k] = start[k] /\ next[l] = start[l]
      BY <1>4, <2>1, <3>1
    <3> QED BY <1>1, <1>3, <2>1, <3>1, <3>2
  <2>2. CASE l = last + 1
    <3>1. next[l] = Len(stream) + Len(frame)
      BY <1>4, <2>2
    <3>2. CASE k \in n + 1 .. last
      <4>1. next[k] \in Nat /\ next[k] <= Len(stream)
        BY <1>4, <3>2
      <4> QED BY <1>2, <3>1, <4>1
    <3>3. CASE k = last + 1
      BY <1>2, <1>4, <2>2, <3>3
    <3> QED BY <1>3, <3>2, <3>3
  <2> QED BY <1>3, <2>1, <2>2
<1>7. ASSUME NEW k \in n + 1 .. last
      PROVE  /\ next[k + 1] = next[k] + Len(f[k])
             /\ \A j \in 1 .. Len(f[k]) : s[next[k] + j] = f[k][j]
  <2>1. CASE k = last
    BY <1>2, <1>3, <1>4, <2>1
  <2>2. CASE k # last
    <3>1. k \in n + 1 .. Len(frames) /\ k \in n + 1 .. last /\ k + 1 \in n + 1 .. last
          /\ k \in 1 .. last - 1
      BY <1>3, <2>2
    <3>2. /\ next[k + 1] = start[k + 1] /\ next[k] = start[k] /\ f[k] = frames[k]
          /\ start[k + 1] <= Len(stream) /\ Len(frames[k]) \in Nat /\ start[k] \in Nat
      BY <1>3, <1>4, <3>1
    <3>3. start[k + 1] = start[k] + Len(frames[k])
      BY <1>1, <3>1
    <3>4. ASSUME NEW j \in 1 .. Len(f[k]) PROVE s[next[k] + j] = f[k][j]
      <4>1. start[k] + j \in 1 .. Len(stream)
        <5>1. j \in Nat /\ 1 <= j /\ j <= Len(frames[k])
          <6>1. j \in 1 .. Len(frames[k])
            BY <3>2
          <6> QED BY <3>2, <6>1, IndexBounds, Zenon
        <5> QED BY <1>2, <3>2, <3>3, <5>1, InFrame, Zenon
      <4>2. stream[start[k] + j] = frames[k][j]
        BY <1>1, <3>1, <3>2
      <4> QED BY <1>2, <3>2, <4>1, <4>2
    <3> QED BY <3>2, <3>3, <3>4
  <2> QED BY <2>1, <2>2
<1>8. next[n + 1] = at
  BY <1>1, <1>3, <1>4
<1>9. next \in [n + 1 .. Len(f) + 1 -> Nat] /\ next[Len(f) + 1] = Len(s)
  BY <1>2, <1>3, <1>4, <1>5
<1>10. Len(f) = last
  BY <1>3
<1> HIDE DEF last
<1>11. Spelt(s, at, f, n)
  BY <1>6, <1>7, <1>8, <1>9, <1>10, Zenon DEF Spelt
<1> QED BY <1>11 DEF s, f

\* The first frame is found where it is expected, and the others come after it.
LEMMA FrameFound ==
    ASSUME NEW S, NEW stream \in Seq(S), NEW frames \in Seq(Seq(S)),
           NEW n \in 0 .. Len(frames), NEW at \in Nat,
           Spelt(stream, at, frames, n), n # Len(frames)
    PROVE  /\ frames[n + 1] \in Seq(S)
           /\ at + Len(frames[n + 1]) <= Len(stream)
           /\ \A j \in 1 .. Len(frames[n + 1]) : stream[at + j] = frames[n + 1][j]
           /\ Spelt(stream, at + Len(frames[n + 1]), frames, n + 1)
<1>1. PICK start \in [n + 1 .. Len(frames) + 1 -> Nat] :
        /\ start[n + 1] = at
        /\ start[Len(frames) + 1] = Len(stream)
        /\ \A k, l \in n + 1 .. Len(frames) + 1 : k <= l => start[k] <= start[l]
        /\ \A k \in n + 1 .. Len(frames) :
            /\ start[k + 1] = start[k] + Len(frames[k])
            /\ \A j \in 1 .. Len(frames[k]) : stream[start[k] + j] = frames[k][j]
  BY DEF Spelt
<1> DEFINE next == [k \in (n + 1) + 1 .. Len(frames) + 1 |-> start[k]]
<1>2. /\ n \in Nat /\ Len(frames) \in Nat /\ n + 1 \in 1 .. Len(frames)
      /\ n + 1 \in n + 1 .. Len(frames)
  OBVIOUS
<1>3. frames[n + 1] \in Seq(S)
  BY <1>2, ElementOfSeq
<1>4. start[n + 2] = at + Len(frames[n + 1]) /\ start[n + 2] <= Len(stream)
  <2>1. start[(n + 1) + 1] = at + Len(frames[n + 1])
    BY <1>1, <1>2
  <2>2. n + 2 \in n + 1 .. Len(frames) + 1 /\ Len(frames) + 1 \in n + 1 .. Len(frames) + 1
        /\ n + 2 <= Len(frames) + 1
    BY <1>2
  <2>3. start[n + 2] <= start[Len(frames) + 1]
    BY <1>1, <2>2
  <2> QED BY <1>1, <1>2, <2>1, <2>3
<1>5. \A j \in 1 .. Len(frames[n + 1]) : stream[at + j] = frames[n + 1][j]
  BY <1>1, <1>2
<1>6. /\ next \in [(n + 1) + 1 .. Len(frames) + 1 -> Nat]
      /\ \A k \in (n + 1) + 1 .. Len(frames) + 1 : next[k] = start[k]
  BY <1>2
<1> HIDE DEF next
<1>7. next[(n + 1) + 1] = at + Len(frames[n + 1]) /\ next[Len(frames) + 1] = Len(stream)
  BY <1>1, <1>2, <1>4, <1>6
<1>8. \A k, l \in (n + 1) + 1 .. Len(frames) + 1 : k <= l => next[k] <= next[l]
  BY <1>1, <1>2, <1>6
<1>9. \A k \in (n + 1) + 1 .. Len(frames) :
        /\ next[k + 1] = next[k] + Len(frames[k])
        /\ \A j \in 1 .. Len(frames[k]) : stream[next[k] + j] = frames[k][j]
  <2> SUFFICES ASSUME NEW k \in (n + 1) + 1 .. Len(frames)
               PROVE  /\ next[k + 1] = next[k] + Len(frames[k])
                      /\ \A j \in 1 .. Len(frames[k]) : stream[next[k] + j] = frames[k][j]
    OBVIOUS
  <2>1. next[k + 1] = start[k + 1] /\ next[k] = start[k] /\ k \in n + 1 .. Len(frames)
    BY <1>2, <1>6
  <2> QED BY <1>1, <2>1
<1>10. Spelt(stream, at + Len(frames[n + 1]), frames, n + 1)
  BY <1>6, <1>7, <1>8, <1>9, Zenon DEF Spelt
<1> QED BY <1>3, <1>4, <1>5, <1>10

\* Forgetting elements that come before the frames
LEMMA SpeltAfter ==
    ASSUME NEW S, NEW stream \in Seq(S), NEW frames \in Seq(Seq(S)),
           NEW n \in 0 .. Len(frames), NEW at \in Nat, NEW d \in 0 .. at,
           NEW rest \in Seq(S), Len(rest) = Len(stream) - d,
           \A i \in 1 .. Len(rest) : rest[i] = stream[d + i],
           Spelt(stream, at, frames, n)
    PROVE  Spelt(rest, at - d, frames, n)
<1>1. PICK start \in [n + 1 .. Len(frames) + 1 -> Nat] :
        /\ start[n + 1] = at
        /\ start[Len(frames) + 1] = Len(stream)
        /\ \A k, l \in n + 1 .. Len(frames) + 1 : k <= l => start[k] <= start[l]
        /\ \A k \in n + 1 .. Len(frames) :
            /\ start[k + 1] = start[k] + Len(frames[k])
            /\ \A j \in 1 .. Len(frames[k]) : stream[start[k] + j] = frames[k][j]
  BY DEF Spelt
<1> DEFINE next == [k \in n + 1 .. Len(frames) + 1 |-> start[k] - d]
<1>2. n \in Nat /\ Len(frames) \in Nat /\ d \in Nat /\ Len(stream) \in Nat /\ Len(rest) \in Nat
  OBVIOUS
<1>3. \A k \in n + 1 .. Len(frames) + 1 : start[k] \in Nat /\ at <= start[k] /\ start[k] <= Len(stream)
  <2>1. n + 1 \in n + 1 .. Len(frames) + 1 /\ Len(frames) + 1 \in n + 1 .. Len(frames) + 1
        /\ \A k \in n + 1 .. Len(frames) + 1 : n + 1 <= k /\ k <= Len(frames) + 1
    BY <1>2
  <2> QED BY <1>1, <2>1
<1>4. /\ next \in [n + 1 .. Len(frames) + 1 -> Nat]
      /\ \A k \in n + 1 .. Len(frames) + 1 : next[k] = start[k] - d
  BY <1>2, <1>3
<1> HIDE DEF next
<1>5. next[n + 1] = at - d /\ next[Len(frames) + 1] = Len(rest)
  <2>1. n + 1 \in n + 1 .. Len(frames) + 1 /\ Len(frames) + 1 \in n + 1 .. Len(frames) + 1
    BY <1>2
  <2> QED BY <1>1, <1>4, <2>1
<1>6. \A k, l \in n + 1 .. Len(frames) + 1 : k <= l => next[k] <= next[l]
  BY <1>1, <1>2, <1>3, <1>4
<1>7. \A k \in n + 1 .. Len(frames) :
        /\ next[k + 1] = next[k] + Len(frames[k])
        /\ \A j \in 1 .. Len(frames[k]) : rest[next[k] + j] = frames[k][j]
  <2> SUFFICES ASSUME NEW k \in n + 1 .. Len(frames)
               PROVE  /\ next[k + 1] = next[k] + Len(frames[k])
                      /\ \A j \in 1 .. Len(frames[k]) : rest[next[k] + j] = frames[k][j]
    OBVIOUS
  <2>1. /\ next[k + 1] = start[k + 1] - d /\ next[k] = start[k] - d /\ Len(frames[k]) \in Nat
        /\ start[k] \in Nat /\ start[k + 1] <= Len(stream) /\ d <= start[k]
        /\ start[k + 1] = start[k] + Len(frames[k])
    <3>1. k \in n + 1 .. Len(frames) + 1 /\ k + 1 \in n + 1 .. Len(frames) + 1 /\ k \in 1 .. Len(frames)
      BY <1>2
    <3>2. Len(frames[k]) \in Nat /\ start[k + 1] = start[k] + Len(frames[k])
      BY <1>1, <3>1, ElementOfSeq, SMTT(25)
    <3>3. start[k] \in Nat /\ start[k + 1] <= Len(stream) /\ d <= start[k]
      BY <1>2, <1>3, <3>1
    <3> QED BY <1>4, <3>1, <3>2, <3>3
  <2>2. ASSUME NEW j \in 1 .. Len(frames[k]) PROVE rest[next[k] + j] = frames[k][j]
    <3>1. next[k] + j \in 1 .. Len(rest) /\ d + (next[k] + j) = start[k] + j
      <4>1. j \in Nat /\ 1 <= j /\ j <= Len(frames[k])
        BY <2>1, IndexBounds, Zenon
      <4>2. start[k] + j \in 1 .. Len(stream)
        BY <1>2, <2>1, <4>1, InFrame, Zenon
      <4> DEFINE from == start[k]
                 last == Len(stream)
                 size == Len(rest)
      <4>3. /\ from \in Nat /\ last \in Nat /\ size \in Nat /\ d \in Nat /\ j \in Nat /\ 1 <= j
            /\ from + j \in 1 .. last /\ d <= from /\ size = last - d /\ next[k] = from - d
        BY <1>2, <2>1, <4>1, <4>2
      <4> HIDE DEF from, last, size
      <4>4. (from - d) + j \in 1 .. size /\ d + ((from - d) + j) = from + j
        BY <4>3
      <4> QED BY <4>3, <4>4, Zenon DEF from, last, size
    <3>2. stream[start[k] + j] = frames[k][j]
      BY <1>1
    <3> QED BY <3>1, <3>2
  <2>3. next[k + 1] = next[k] + Len(frames[k])
    BY <1>2, <2>1, SMTT(25)
  <2> QED BY <2>2, <2>3
<1> QED BY <1>4, <1>5, <1>6, <1>7, Zenon DEF Spelt

\* At the end of the stream no frame is left.
LEMMA SpeltOut ==
    ASSUME NEW S, NEW stream \in Seq(S), NEW frames \in Seq(Seq(S)),
           NEW n \in 0 .. Len(frames), NEW at \in Nat,
           Spelt(stream, at, frames, n), n = Len(frames)
    PROVE  at = Len(stream)
BY DEF Spelt

\* A frame that was read whole is the next one.
LEMMA FrameRead ==
    ASSUME NEW S, NEW head \in Seq(S), NEW rest \in Seq(S), NEW frames \in Seq(Seq(S)),
           NEW n \in 0 .. Len(frames), n # Len(frames),
           Spelt(head \o rest, 0, frames, n), Len(head) = Len(frames[n + 1])
    PROVE  head = frames[n + 1] /\ Spelt(rest, 0, frames, n + 1)
<1> DEFINE stream == head \o rest
<1>1. /\ stream \in Seq(S) /\ Len(stream) = Len(head) + Len(rest)
      /\ Len(head) \in Nat /\ Len(rest) \in Nat
      /\ \A i \in 1 .. Len(head) : stream[i] = head[i]
      /\ \A i \in 1 .. Len(rest) : stream[Len(head) + i] = rest[i]
  <2>1. /\ Len(head) \in Nat /\ Len(rest) \in Nat
        /\ \A i \in 1 .. Len(head) + Len(rest) :
                stream[i] = IF i <= Len(head) THEN head[i] ELSE rest[i - Len(head)]
    BY ConcatProperties, SMTT(25)
  <2>2. \A i \in 1 .. Len(rest) : Len(head) + i \in 1 .. Len(head) + Len(rest)
                                 /\ ~(Len(head) + i <= Len(head)) /\ Len(head) + i - Len(head) = i
    BY <2>1
  <2>3. \A i \in 1 .. Len(head) : i \in 1 .. Len(head) + Len(rest) /\ i <= Len(head)
    BY <2>1
  <2>4. stream \in Seq(S) /\ Len(stream) = Len(head) + Len(rest)
    BY ConcatProperties
  <2> HIDE DEF stream
  <2>5. ASSUME NEW i \in 1 .. Len(rest) PROVE stream[Len(head) + i] = rest[i]
    <3> DEFINE j == Len(head) + i
    <3>1. j \in 1 .. Len(head) + Len(rest) /\ ~(j <= Len(head)) /\ j - Len(head) = i
      BY <2>2
    <3> HIDE DEF j
    <3>2. stream[j] = rest[i]
      BY <2>1, <3>1
    <3> QED BY <3>2 DEF j
  <2> QED BY <2>1, <2>3, <2>4, <2>5
<1>2. Spelt(stream, 0, frames, n)
  OBVIOUS
<1> HIDE DEF stream
<1>3. /\ frames[n + 1] \in Seq(S)
      /\ \A j \in 1 .. Len(frames[n + 1]) : stream[0 + j] = frames[n + 1][j]
      /\ Spelt(stream, 0 + Len(frames[n + 1]), frames, n + 1)
  BY <1>1, <1>2, FrameFound
<1>4. \A j \in 1 .. Len(head) : 0 + j = j
  OBVIOUS
<1>5. head = frames[n + 1]
  BY <1>1, <1>3, <1>4, SeqEqual
<1>6. Spelt(stream, Len(head), frames, n + 1) /\ n + 1 \in 0 .. Len(frames)
  BY <1>1, <1>3
<1>7. /\ Len(head) \in 0 .. Len(head) /\ Len(rest) = Len(stream) - Len(head)
      /\ Len(head) - Len(head) = 0
  BY <1>1
<1>8. Spelt(rest, Len(head) - Len(head), frames, n + 1)
  BY <1>1, <1>6, <1>7, SpeltAfter
<1> QED BY <1>5, <1>7, <1>8

-----------------------------------------------------------------------------
(* The wire *)

Bytes == 0 .. Base - 1

\* Reading moves bytes from the front of the wire.
LEMMA PieceRead ==
    ASSUME wire \in Seq(Bytes), NEW n \in Nat, NEW piece \in Pieces(n), NEW r, Reads(piece, r)
    PROVE  /\ piece \in Seq(Bytes) /\ wire' \in Seq(Bytes)
           /\ Len(piece) \in 1 .. n
           /\ piece \o wire' = wire
<1>1. PICK k \in 1 .. IF n < Len(wire) THEN n ELSE Len(wire) : piece = SubSeq(wire, 1, k)
  BY DEF Pieces
<1>2. /\ Len(wire) \in Nat /\ k \in 1 .. Len(wire) /\ k \in 1 .. n
      /\ k \in 1 - 1 .. Len(wire) /\ Len(wire) \in k .. Len(wire) /\ 1 \in 1 .. Len(wire) + 1
  BY <1>1
<1>3. \A i \in 1 .. Len(wire) : wire[i] \in Bytes
  BY ElementOfSeq
<1>4. piece \in Seq(Bytes) /\ Len(piece) = k
  <2>1. /\ SubSeq(wire, 1, k) \in Seq(Bytes)
        /\ Len(SubSeq(wire, 1, k)) = IF 1 <= k THEN k - 1 + 1 ELSE 0
    BY <1>2, <1>3, SubSeqProperties
  <2> QED BY <1>1, <1>2, <2>1
<1>5. wire' = SubSeq(wire, k + 1, Len(wire))
  BY <1>4 DEF Reads
<1>6. wire' \in Seq(Bytes)
  BY <1>2, <1>3, <1>5, SubSeqProperties
<1>7. SubSeq(wire, 1, k) \o SubSeq(wire, k + 1, Len(wire)) = SubSeq(wire, 1, Len(wire))
  BY <1>2, ConcatAdjacentSubSeq
<1>8. SubSeq(wire, 1, Len(wire)) = wire
  BY SubSeqFull
<1> QED BY <1>1, <1>2, <1>4, <1>5, <1>6, <1>7, <1>8

\* What was relayed is what was sent, from the first message on
Relayed ==
    /\ sent \in Seq(Seq(Bytes)) /\ got \in Seq(Seq(Bytes)) /\ wire \in Seq(Bytes)
    /\ Len(got) <= Len(sent)
    /\ \A k \in 1 .. Len(got) : got[k] = sent[k]

\* Sending and relaying the next message keep it so.
LEMMA SentRelayed ==
    ASSUME Relayed, NEW m \in Payloads, NEW frame \in Seq(Bytes), Writes(m, frame)
    PROVE  /\ Relayed' /\ m \in Seq(Bytes) /\ UNCHANGED <<given, reader, got>>
           /\ sent' = Append(sent, m) /\ wire' = wire \o frame
           /\ Len(got) \in 0 .. Len(sent)
<1>1. m \in Seq(Bytes)
  BY WireAssumption DEF WireAssumption, Bytes
<1>2. /\ sent' \in Seq(Seq(Bytes)) /\ wire' \in Seq(Bytes) /\ Len(sent') = Len(sent) + 1
      /\ \A k \in 1 .. Len(sent) : sent'[k] = sent[k]
  BY <1>1, AppendProperties, ConcatProperties DEF Writes, Relayed
<1>3. Len(got) \in Nat /\ Len(sent) \in Nat
  BY DEF Relayed
<1>4. got \in Seq(Seq(Bytes)) /\ got' = got /\ \A k \in 1 .. Len(got) : got[k] = sent'[k]
  <2>1. got \in Seq(Seq(Bytes)) /\ got' = got
    BY DEF Writes, Relayed
  <2>2. ASSUME NEW k \in 1 .. Len(got) PROVE got[k] = sent'[k]
    <3>1. k \in 1 .. Len(sent) /\ got[k] = sent[k]
      BY <1>3 DEF Relayed
    <3> QED BY <1>2, <3>1
  <2> QED BY <2>1, <2>2
<1>5. Len(got) <= Len(sent') /\ Len(got) \in 0 .. Len(sent)
  BY <1>2, <1>3 DEF Relayed
<1> QED BY <1>1, <1>2, <1>4, <1>5, Zenon DEF Writes, Relayed

\* A receiver that delivers exactly the next message sent has relayed a prefix
\* one message longer.
LEMMA NextRelayed ==
    ASSUME Relayed, Len(got) # Len(sent), Relays(sent[Len(got) + 1]), UNCHANGED sent,
           wire' \in Seq(Bytes)
    PROVE  Relayed' /\ Len(got') = Len(got) + 1
<1>1. Len(got) \in Nat /\ Len(sent) \in Nat /\ Len(got) + 1 \in 1 .. Len(sent)
  BY DEF Relayed
<1>2. sent[Len(got) + 1] \in Seq(Bytes)
  BY <1>1, ElementOfSeq DEF Relayed
<1>3. /\ got' \in Seq(Seq(Bytes)) /\ Len(got') = Len(got) + 1
      /\ \A k \in 1 .. Len(got) : got'[k] = got[k]
      /\ got'[Len(got) + 1] = sent[Len(got) + 1]
  BY <1>2, AppendProperties DEF Relayed, Relays
<1>4. sent' \in Seq(Seq(Bytes)) /\ Len(got') <= Len(sent')
  BY <1>1, <1>3 DEF Relayed
<1>5. ASSUME NEW k \in 1 .. Len(got') PROVE got'[k] = sent'[k]
  <2>1. sent' = sent
    OBVIOUS
  <2>2. CASE k = Len(got) + 1
    BY <1>3, <2>1, <2>2
  <2>3. CASE k \in 1 .. Len(got)
    <3>1. got'[k] = got[k] /\ got[k] = sent[k]
      BY <1>3, <2>3 DEF Relayed
    <3> QED BY <2>1, <3>1
  <2> QED BY <1>1, <1>3, <2>2, <2>3
<1> QED BY <1>3, <1>4, <1>5, Zenon DEF Relayed

-----------------------------------------------------------------------------
(* The slots of the mmap dialog *)

MmapReaders ==
    [step : {"select", "allocating", "over"}, slot : Slots, closed : BOOLEAN,
     slots : [Slots -> {"free", "reserved", "published"}], bytes : [Slots -> Seq(Bytes)],
     inbox : Seq(Slots)]

\* What SlotsAccounted says, slot by slot and message by message, of a reader and of
\* what it relayed
Accounted(r, relayed) ==
    /\ \A s \in Slots : r.slots[s] = "reserved" <=> r.step = "select" /\ s = r.slot
    /\ \A s \in Slots : r.slots[s] = "published" => s \in ToSet(r.inbox)
    /\ \A s \in ToSet(r.inbox) : r.slots[s] = "published" \/ (r.step = "over" /\ s = r.slot)
    /\ IsInjective(r.inbox)
    /\ Len(r.inbox) <= Len(relayed)
    /\ \A i \in 1 .. Len(r.inbox) :
            r.bytes[r.inbox[i]] = relayed[Len(relayed) - Len(r.inbox) + i]

\* A reader whose inbox and slot are accounted for keeps every slot accounted for.
LEMMA AccountedSlots ==
    ASSUME reader \in MmapReaders, Accounted(reader, got) PROVE SlotsAccounted
<1>1. /\ reader.slots \in [Slots -> {"free", "reserved", "published"}]
      /\ reader.slot \in Slots /\ reader.inbox \in Seq(Slots)
  BY DEF MmapReaders
<1>2. Range(reader.inbox) = ToSet(reader.inbox)
  BY DEF Range, ToSet
<1>3. /\ ToSet(reader.inbox) \subseteq Slots
      /\ \A i \in 1 .. Len(reader.inbox) : reader.inbox[i] \in ToSet(reader.inbox)
  BY <1>1, ChannelElements
<1>4. Reserved = IF reader.step = "select" THEN {reader.slot} ELSE {}
  BY <1>1 DEF Accounted, Reserved
<1>5. Slots = Free \cup Reserved \cup Range(reader.inbox)
  BY <1>1, <1>2, <1>3 DEF Accounted, Free, Reserved
<1>6. \A i \in 1 .. Len(reader.inbox) :
            \/ reader.slots[reader.inbox[i]] = "published"
            \/ reader.step = "over" /\ reader.inbox[i] = reader.slot
  BY <1>3 DEF Accounted
<1> QED BY <1>4, <1>5, <1>6 DEF SlotsAccounted, Accounted

\* What SendReserved makes of a reader
Published(r, bytes) ==
    [r EXCEPT !.step = "allocating", !.bytes[r.slot] = bytes, !.slots[r.slot] = "published",
              !.inbox = Append(@, r.slot)]

\* A message that is read whole is published: its slot was reserved, and is not in
\* the channel yet.
LEMMA SlotPublished ==
    ASSUME NEW r \in MmapReaders, NEW relayed \in Seq(Seq(Bytes)), Accounted(r, relayed),
           r.step = "select", NEW bytes \in Seq(Bytes)
    PROVE  /\ Published(r, bytes) \in MmapReaders
           /\ Accounted(Published(r, bytes), Append(relayed, bytes))
<1> DEFINE q == Published(r, bytes)
           s == r.slot
           n == Len(r.inbox)
           g == Append(relayed, bytes)
<1>1. /\ s \in Slots /\ r.slots \in [Slots -> {"free", "reserved", "published"}]
      /\ r.bytes \in [Slots -> Seq(Bytes)] /\ r.inbox \in Seq(Slots) /\ n \in Nat
  BY DEF MmapReaders
<1>2. /\ q.step = "allocating" /\ q.inbox = Append(r.inbox, s)
      /\ q.slots = [r.slots EXCEPT ![s] = "published"]
      /\ q.bytes = [r.bytes EXCEPT ![s] = bytes]
      /\ q = [r EXCEPT !.step = "allocating", !.bytes[s] = bytes, !.slots[s] = "published",
                       !.inbox = Append(@, s)]
  BY DEF MmapReaders, Published
<1> HIDE DEF q
<1>3. q \in MmapReaders
  <2>1. q.inbox \in Seq(Slots)
    BY <1>1, <1>2, AppendProperties
  <2>2. /\ q.slots \in [Slots -> {"free", "reserved", "published"}]
        /\ q.bytes \in [Slots -> Seq(Bytes)]
    BY <1>1, <1>2
  <2> QED BY <1>2, <2>1, <2>2 DEF MmapReaders
<1>4. /\ Len(g) = Len(relayed) + 1 /\ Len(relayed) \in Nat
      /\ \A i \in 1 .. Len(relayed) : g[i] = relayed[i]
      /\ g[Len(relayed) + 1] = bytes
  BY AppendProperties
<1>5. /\ Len(q.inbox) = n + 1 /\ \A i \in 1 .. n : q.inbox[i] = r.inbox[i]
      /\ q.inbox[n + 1] = s
  BY <1>1, <1>2, AppendProperties
<1> HIDE DEF s, n, g
<1>6. r.slots[s] = "reserved" /\ s \notin ToSet(r.inbox)
  BY <1>1 DEF Accounted, s
<1>7. ToSet(q.inbox) = ToSet(r.inbox) \cup {s} /\ IsInjective(q.inbox)
  BY <1>1, <1>2, <1>6, SendToChannel DEF Accounted
<1>8. \A t \in Slots : q.slots[t] = IF t = s THEN "published" ELSE r.slots[t]
  BY <1>1, <1>2
<1>9. /\ \A t \in Slots : q.slots[t] = "reserved" <=> q.step = "select" /\ t = q.slot
      /\ \A t \in Slots : q.slots[t] = "published" => t \in ToSet(q.inbox)
      /\ \A t \in ToSet(q.inbox) : q.slots[t] = "published"
  <2>1. \A t \in ToSet(r.inbox) : t \in Slots /\ r.slots[t] = "published"
    BY <1>1, ChannelElements DEF Accounted
  <2> QED BY <1>1, <1>2, <1>6, <1>7, <1>8, <2>1 DEF Accounted, s
<1>10. n <= Len(relayed)
  BY DEF Accounted, n
<1>11. ASSUME NEW i \in 1 .. Len(q.inbox)
       PROVE  q.bytes[q.inbox[i]] = g[Len(g) - Len(q.inbox) + i]
  <2>1. i \in Nat /\ Len(g) - Len(q.inbox) = Len(relayed) - n
    <3>1. /\ Len(g) = Len(relayed) + 1 /\ Len(relayed) \in Nat
          /\ Len(q.inbox) = n + 1 /\ n \in Nat
      BY <1>1, <1>4, <1>5
    <3>2. \A a, b \in Nat : (a + 1) - (b + 1) = a - b
      OBVIOUS
    <3>3. Len(g) - Len(q.inbox) = Len(relayed) - n
      BY <3>1, <3>2, Zenon
    <3>4. i \in Nat
      OBVIOUS
    <3> QED BY <3>3, <3>4, Zenon
  <2>2. CASE i = n + 1
    <3>1. Len(relayed) - n + i = Len(relayed) + 1
      BY <1>1, <1>4, <2>2
    <3>2. q.bytes[s] = bytes
      BY <1>1, <1>2
    <3>3. Len(g) - Len(q.inbox) + i = Len(relayed) + 1 /\ q.inbox[i] = s
      BY <1>5, <2>1, <2>2, <3>1, Zenon
    <3> QED BY <1>4, <3>2, <3>3, Zenon
  <2>3. CASE i \in 1 .. n
    <3>1. Len(relayed) - n + i \in 1 .. Len(relayed)
      BY <1>1, <1>4, <1>10, <2>3
    <3>2. q.inbox[i] = r.inbox[i] /\ r.inbox[i] \in ToSet(r.inbox) /\ r.inbox[i] \in Slots
      BY <1>1, <1>5, <2>3, ChannelElements DEF n
    <3>3. q.bytes[q.inbox[i]] = r.bytes[r.inbox[i]]
      BY <1>1, <1>2, <1>6, <3>2, SMTT(25)
    <3>4. r.bytes[r.inbox[i]] = relayed[Len(relayed) - n + i]
      BY <2>3 DEF Accounted, n
    <3> QED BY <1>4, <2>1, <3>1, <3>3, <3>4
  <2> QED BY <1>1, <1>5, <2>2, <2>3
<1>12. Len(q.inbox) <= Len(g)
  BY <1>1, <1>4, <1>5, <1>10
<1>13. Accounted(q, g)
  BY <1>7, <1>9, <1>11, <1>12 DEF Accounted
<1> QED BY <1>3, <1>13 DEF g, q

\* A message that is consumed frees its slot, which nothing else uses.
LEMMA SlotConsumed ==
    ASSUME NEW r \in MmapReaders, NEW relayed \in Seq(Seq(Bytes)), Accounted(r, relayed),
           r.inbox # <<>>, NEW q,
           q = [r EXCEPT !.inbox = Tail(@), !.slots[Head(r.inbox)] = "free"]
    PROVE  q \in MmapReaders /\ Accounted(q, relayed)
<1> DEFINE h == Head(r.inbox)
           n == Len(r.inbox)
<1>1. /\ r.slots \in [Slots -> {"free", "reserved", "published"}]
      /\ r.bytes \in [Slots -> Seq(Bytes)] /\ r.inbox \in Seq(Slots) /\ n \in Nat \ {0}
  BY EmptySeq DEF MmapReaders
<1>2. /\ q.step = r.step /\ q.slot = r.slot /\ q.bytes = r.bytes /\ q.inbox = Tail(r.inbox)
      /\ q.slots = [r.slots EXCEPT ![h] = "free"]
  BY DEF MmapReaders
<1>3. /\ h \in Slots /\ h \in ToSet(r.inbox) /\ q.inbox \in Seq(Slots)
      /\ ToSet(q.inbox) = ToSet(r.inbox) \ {h} /\ IsInjective(q.inbox)
  BY <1>1, <1>2, ReceiveFromChannel DEF Accounted
<1>4. /\ Len(q.inbox) = n - 1
      /\ \A i \in 1 .. n - 1 : q.inbox[i] = r.inbox[i + 1]
  BY <1>1, <1>2, HeadTailProperties
<1> HIDE DEF h, n
<1>5. q \in MmapReaders
  <2>1. q.slots \in [Slots -> {"free", "reserved", "published"}]
    BY <1>1, <1>2, <1>3
  <2> QED BY <1>2, <1>3, <2>1 DEF MmapReaders
<1>6. r.slots[h] # "reserved"
  BY <1>3 DEF Accounted
<1>7. \A t \in Slots : q.slots[t] = IF t = h THEN "free" ELSE r.slots[t]
  BY <1>1, <1>2
<1>8. /\ \A t \in Slots : q.slots[t] = "reserved" <=> q.step = "select" /\ t = q.slot
      /\ \A t \in Slots : q.slots[t] = "published" => t \in ToSet(q.inbox)
      /\ \A t \in ToSet(q.inbox) : q.slots[t] = "published" \/ (q.step = "over" /\ t = q.slot)
  <2>1. ToSet(r.inbox) \subseteq Slots
    BY <1>1, ChannelElements
  <2> QED BY <1>2, <1>3, <1>6, <1>7, <2>1 DEF Accounted
<1>9. Len(relayed) \in Nat /\ n <= Len(relayed)
  BY DEF Accounted, n
<1>10. ASSUME NEW i \in 1 .. Len(q.inbox)
       PROVE  q.bytes[q.inbox[i]] = relayed[Len(relayed) - Len(q.inbox) + i]
  <2>1. /\ i \in 1 .. n - 1 /\ i + 1 \in 1 .. n
        /\ Len(relayed) - (n - 1) + i = Len(relayed) - n + (i + 1)
    <3>1. Len(q.inbox) = n - 1 /\ n \in Nat \ {0} /\ Len(relayed) \in Nat
      BY <1>1, <1>4, <1>9
    <3>2. i \in 1 .. n - 1
      BY <3>1
    <3> QED BY <3>1, <3>2
  <2>2. r.bytes[r.inbox[i + 1]] = relayed[Len(relayed) - n + (i + 1)]
    BY <2>1 DEF Accounted, n
  <2>3. q.inbox[i] = r.inbox[i + 1]
    BY <1>4, <2>1
  <2> QED BY <1>2, <1>4, <2>1, <2>2, <2>3
<1>11. Len(q.inbox) <= Len(relayed)
  BY <1>1, <1>4, <1>9
<1>12. Accounted(q, relayed)
  BY <1>3, <1>8, <1>10, <1>11 DEF Accounted
<1> QED BY <1>5, <1>12

\* Reading more bytes, reserving another slot, giving up and leaving
LEMMA SlotKept ==
    ASSUME NEW r \in MmapReaders, NEW relayed \in Seq(Seq(Bytes)), Accounted(r, relayed)
    PROVE  /\ \A bytes \in Seq(Bytes) :
                LET q == [r EXCEPT !.bytes[r.slot] = bytes]
                IN  r.step = "select" => q \in MmapReaders /\ Accounted(q, relayed)
           /\ \A s \in Slots :
                LET q == [r EXCEPT !.step = "select", !.slot = s, !.slots[s] = "reserved",
                                   !.bytes[s] = <<>>]
                IN  r.step = "allocating" /\ r.slots[s] = "free" =>
                        q \in MmapReaders /\ Accounted(q, relayed)
           /\ \A isClosed \in BOOLEAN :
                \A status \in {"free", r.slots[r.slot]} :
                LET q == [[r EXCEPT !.step = "over"] EXCEPT !.closed = isClosed,
                                                            !.slots[r.slot] = status]
                IN  r.step = "allocating" => q \in MmapReaders /\ Accounted(q, relayed)
           /\ \A isClosed \in BOOLEAN :
                LET q == [[r EXCEPT !.step = "over"] EXCEPT !.closed = isClosed,
                                                            !.slots[r.slot] = "free"]
                IN  r.step = "select" => q \in MmapReaders /\ Accounted(q, relayed)
<1>1. /\ r.slot \in Slots /\ r.slots \in [Slots -> {"free", "reserved", "published"}]
      /\ r.bytes \in [Slots -> Seq(Bytes)] /\ r.inbox \in Seq(Slots) /\ Len(r.inbox) \in Nat
      /\ r.closed \in BOOLEAN /\ r.step \in {"select", "allocating", "over"}
  BY DEF MmapReaders
<1>2. /\ ToSet(r.inbox) \subseteq Slots
      /\ r.step # "over" =>
            /\ \A s \in ToSet(r.inbox) : r.slots[s] = "published"
            /\ \A i \in 1 .. Len(r.inbox) :
                    r.inbox[i] \in Slots /\ r.slots[r.inbox[i]] = "published"
  <2>1. /\ ToSet(r.inbox) \subseteq Slots
        /\ \A i \in 1 .. Len(r.inbox) : r.inbox[i] \in ToSet(r.inbox)
    BY <1>1, ChannelElements
  <2>2. r.step # "over" => \A s \in ToSet(r.inbox) : r.slots[s] = "published"
    BY DEF Accounted
  <2> QED BY <2>1, <2>2
<1>3. ASSUME NEW bytes \in Seq(Bytes), r.step = "select",
             NEW q, q = [r EXCEPT !.bytes[r.slot] = bytes]
      PROVE  q \in MmapReaders /\ Accounted(q, relayed)
  <2>1. /\ q.step = r.step /\ q.slot = r.slot /\ q.slots = r.slots /\ q.inbox = r.inbox
        /\ q.bytes = [r.bytes EXCEPT ![r.slot] = bytes]
    BY <1>3 DEF MmapReaders
  <2>2. q \in MmapReaders
    BY <1>1, <1>3, <2>1 DEF MmapReaders
  <2>3. r.slots[r.slot] = "reserved"
    BY <1>1, <1>3 DEF Accounted
  <2>4. \A i \in 1 .. Len(r.inbox) : q.bytes[r.inbox[i]] = r.bytes[r.inbox[i]]
    BY <1>1, <1>2, <1>3, <2>1, <2>3
  <2>5. \A i \in 1 .. Len(r.inbox) :
            q.bytes[r.inbox[i]] = relayed[Len(relayed) - Len(r.inbox) + i]
    BY <2>4 DEF Accounted
  <2> QED BY <2>1, <2>2, <2>5 DEF Accounted
<1>4. ASSUME NEW s \in Slots, r.step = "allocating", r.slots[s] = "free", NEW q,
             q = [r EXCEPT !.step = "select", !.slot = s, !.slots[s] = "reserved",
                           !.bytes[s] = <<>>]
      PROVE  q \in MmapReaders /\ Accounted(q, relayed)
  <2>1. /\ q.step = "select" /\ q.slot = s /\ q.inbox = r.inbox
        /\ q.slots = [r.slots EXCEPT ![s] = "reserved"]
        /\ q.bytes = [r.bytes EXCEPT ![s] = <<>>]
    BY <1>4 DEF MmapReaders
  <2>2. q \in MmapReaders
    BY <1>1, <1>4, <2>1, EmptySeq DEF MmapReaders
  <2>3. \A t \in Slots : q.slots[t] = IF t = s THEN "reserved" ELSE r.slots[t]
    BY <1>1, <2>1
  <2>4. \A i \in 1 .. Len(r.inbox) : q.bytes[r.inbox[i]] = r.bytes[r.inbox[i]]
    BY <1>1, <1>2, <1>4, <2>1
  <2>5. /\ \A t \in Slots : q.slots[t] = "reserved" <=> q.step = "select" /\ t = q.slot
        /\ \A t \in Slots : q.slots[t] = "published" => t \in ToSet(q.inbox)
        /\ \A t \in ToSet(q.inbox) : q.slots[t] = "published"
    BY <1>2, <1>4, <2>1, <2>3 DEF Accounted
  <2>6. \A i \in 1 .. Len(r.inbox) :
            q.bytes[r.inbox[i]] = relayed[Len(relayed) - Len(r.inbox) + i]
    BY <2>4 DEF Accounted
  <2> QED BY <2>1, <2>2, <2>5, <2>6 DEF Accounted
<1>5. ASSUME NEW isClosed \in BOOLEAN, NEW status \in {"free", r.slots[r.slot]},
             r.step = "allocating", NEW q,
             q = [[r EXCEPT !.step = "over"] EXCEPT !.closed = isClosed,
                                                    !.slots[r.slot] = status]
      PROVE  q \in MmapReaders /\ Accounted(q, relayed)
  <2>1. /\ q.step = "over" /\ q.slot = r.slot /\ q.inbox = r.inbox /\ q.bytes = r.bytes
        /\ q.slots = [r.slots EXCEPT ![r.slot] = status]
    BY <1>5 DEF MmapReaders
  <2>2. q \in MmapReaders
    <3>1. r.slots[r.slot] \in {"free", "reserved", "published"}
      BY <1>1
    <3>2. q.slots \in [Slots -> {"free", "reserved", "published"}]
      BY <1>1, <1>5, <2>1, <3>1
    <3> QED BY <1>5, <2>1, <3>2 DEF MmapReaders
  <2>3. /\ \A t \in Slots : q.slots[t] = IF t = r.slot THEN status ELSE r.slots[t]
        /\ \A t \in Slots : r.slots[t] # "reserved"
    BY <1>1, <1>5, <2>1 DEF Accounted
  <2>4. \A t \in Slots : q.slots[t] # "reserved" /\ (q.slots[t] = "published" => t \in ToSet(q.inbox))
    BY <1>1, <1>5, <2>1, <2>3 DEF Accounted
  <2>5. \A t \in ToSet(q.inbox) : q.slots[t] = "published" \/ t = q.slot
    BY <1>2, <1>5, <2>1, <2>3
  <2> QED BY <2>1, <2>2, <2>4, <2>5 DEF Accounted
<1>6. ASSUME NEW isClosed \in BOOLEAN, r.step = "select", NEW q,
             q = [[r EXCEPT !.step = "over"] EXCEPT !.closed = isClosed, !.slots[r.slot] = "free"]
      PROVE  q \in MmapReaders /\ Accounted(q, relayed)
  <2>1. /\ q.step = "over" /\ q.slot = r.slot /\ q.inbox = r.inbox /\ q.bytes = r.bytes
        /\ q.slots = [r.slots EXCEPT ![r.slot] = "free"]
    BY <1>6 DEF MmapReaders
  <2>2. q \in MmapReaders
    BY <1>1, <1>6 DEF MmapReaders
  <2>3. \A t \in Slots : q.slots[t] = IF t = r.slot THEN "free" ELSE r.slots[t]
    BY <1>1, <2>1
  <2>4. /\ \A t \in Slots : q.slots[t] = "reserved" <=> q.step = "select" /\ t = q.slot
        /\ \A t \in Slots : q.slots[t] = "published" => t \in ToSet(q.inbox)
        /\ \A t \in ToSet(q.inbox) : q.slots[t] = "published"
    <3>1. r.slots[r.slot] = "reserved" /\ r.slot \notin ToSet(r.inbox)
      BY <1>1, <1>2, <1>6 DEF Accounted
    <3> QED BY <1>2, <1>6, <2>1, <2>3, <3>1 DEF Accounted
  <2> QED BY <2>1, <2>2, <2>4 DEF Accounted
<1> QED BY <1>3, <1>4, <1>5, <1>6

-----------------------------------------------------------------------------
(* The mmap dialog *)

\* What was read of the next message
Held == IF reader.step = "select" THEN reader.bytes[reader.slot] ELSE <<>>

MmapInv ==
    /\ reader \in MmapReaders
    /\ Accounted(reader, got)
    /\ Relayed
    /\ \A k \in 1 .. Len(sent) : Len(sent[k]) = Size
    /\ reader.step = "select" => Len(reader.bytes[reader.slot]) < Size
    /\ reader.step # "over" => Spelt(Held \o wire, 0, sent, Len(got))

\* A step of the link, or none
LinkStep == Link!Next \/ UNCHANGED <<sent, got>>

\* The slots are those of the configuration, which does not change.
LEMMA SlotsFixed ==
    ASSUME UNCHANGED given, reader' \in MmapReaders, Accounted(reader', got')
    PROVE  reader' \in MmapReaders' /\ Accounted(reader, got)'
<1>1. Slots' = Slots
  BY DEF given, Slots, CONST_CONFIG
<1>2. MmapReaders' = MmapReaders
  BY <1>1 DEF MmapReaders, Bytes
<1> QED BY <1>1, <1>2 DEF Accounted

\* The sizes that a const parameter tells are powers of two.
LEMMA SizesGiven ==
    ASSUME NEW config_ \in UNION {Configs[f] : f \in DOMAIN Configs}
    PROVE  /\ From(config_).receiver_channel_size \in Nat \ {0}
           /\ From(config_).sender_max_msg_size \in Nat
           /\ From(config_).receiver_max_msg_size \in Nat
<1>1. IsLegal(From(config_))
  BY FramingsAssumption DEF FramingsAssumption
<1>2. /\ From(config_).receiver_channel_size \in PowersUpTo(MaxExponent)
      /\ From(config_).sender_max_msg_size \in PowersUpTo(MaxExponent)
      /\ From(config_).receiver_max_msg_size \in PowersUpTo(MaxExponent)
  BY <1>1, LegalFields
<1>3. PowersUpTo(MaxExponent) \subseteq Nat \ {0}
  <2>1. \A e \in 0..MaxExponent : e \in Nat /\ PowerOf2[e] \in Nat \ {0}
    BY PowerSteps
  <2> QED BY <2>1 DEF PowersUpTo
<1> QED BY <1>2, <1>3

\* A fresh pair of mmap ends meets its invariant.
LEMMA MmapStart ==
    ASSUME Init, form = "MmapBinary" PROVE MmapInv
<1>1. /\ MmapInit /\ Silent /\ config \in Configs[form] /\ form \in DOMAIN Configs
  BY DEF Init
<1>2. 1 \in Slots
  <2>1. config \in UNION {Configs[f] : f \in DOMAIN Configs}
    BY <1>1
  <2>2. From(config).receiver_channel_size \in Nat \ {0}
    BY <2>1, SizesGiven
  <2> QED BY <2>2 DEF Slots, CONST_CONFIG
<1>3. reader \in MmapReaders
  <2>1. <<>> \in Seq(Bytes) /\ <<>> \in Seq(Slots)
    BY EmptySeq
  <2> QED BY <1>1, <1>2, <2>1 DEF MmapInit, MmapReaders
<1>4. Accounted(reader, got)
  <2>1. Len(<<>>) = 0 /\ ToSet(<<>>) = {} /\ IsInjective(<<>>)
    BY EmptySeq, EmptyChannel
  <2>2. /\ reader.step = "select" /\ reader.slot = 1 /\ reader.inbox = <<>>
        /\ \A s \in Slots : reader.slots[s] = IF s = 1 THEN "reserved" ELSE "free"
    BY <1>1 DEF MmapInit
  <2> QED BY <1>1, <2>1, <2>2 DEF Accounted, Silent
<1>5. Relayed
  BY <1>1, EmptySeq DEF Relayed, Silent
<1>6. Held = <<>> /\ Held \o wire = <<>>
  <2>1. Held = <<>>
    BY <1>1, <1>2 DEF MmapInit, Held
  <2> QED BY <1>1, <2>1, ConcatEmptySeq, EmptySeq DEF Silent
<1>7. reader.step = "select" /\ reader.bytes[reader.slot] = <<>> /\ Len(<<>>) < Size /\ Len(<<>>) = 0
  BY <1>1, <1>2, MmapAssumption, EmptySeq DEF MmapInit, MmapAssumption
<1>8. Spelt(Held \o wire, 0, sent, Len(got))
  BY <1>1, <1>6, <1>7, NothingSpelt DEF Silent
<1>9. \A k \in 1 .. Len(sent) : Len(sent[k]) = Size
  BY <1>1, <1>7 DEF Silent
<1> QED BY <1>3, <1>4, <1>5, <1>7, <1>8, <1>9 DEF MmapInv

\* Each step of the mmap dialog preserves its invariant, and is one of the link.
LEMMA MmapStep ==
    ASSUME MmapInv, MmapNext PROVE MmapInv' /\ LinkStep /\ UNCHANGED given
<1> USE DEF given
<1>1. /\ reader.slot \in Slots /\ reader.bytes \in [Slots -> Seq(Bytes)]
      /\ reader.step \in {"select", "allocating", "over"}
      /\ Relayed /\ wire \in Seq(Bytes) /\ got \in Seq(Seq(Bytes)) /\ sent \in Seq(Seq(Bytes))
      /\ Len(got) \in 0 .. Len(sent) /\ Size \in Nat \ {0} /\ Held \in Seq(Bytes)
  BY EmptySeq, MmapAssumption DEF MmapInv, MmapReaders, Relayed, MmapAssumption, Held
<1>2. CASE MmapSend
  <2>1. PICK m \in Payloads : Len(m) = Size /\ Writes(m, m)
    BY <1>2 DEF MmapSend
  <2>2. m \in Seq(Bytes)
    BY WireAssumption DEF WireAssumption, Bytes
  <2>3. /\ Relayed' /\ UNCHANGED <<given, reader, got>>
        /\ sent' = Append(sent, m) /\ wire' = wire \o m
    BY <1>1, <2>1, <2>2, SentRelayed
  <2>4. \A k \in 1 .. Len(sent') : Len(sent'[k]) = Size
    BY <1>1, <2>1, <2>2, <2>3, AppendProperties DEF MmapInv
  <2>5. ASSUME reader.step # "over" PROVE Spelt(Held' \o wire', 0, sent', Len(got'))
    <3>1. Spelt((Held \o wire) \o m, 0, Append(sent, m), Len(got))
      BY <1>1, <2>2, <2>5, ConcatProperties, FrameWritten DEF MmapInv
    <3>2. (Held \o wire) \o m = Held \o (wire \o m)
      <4>1. Held \in Seq(Bytes) /\ wire \in Seq(Bytes) /\ m \in Seq(Bytes)
        BY <1>1, <2>2
      <4> QED BY <4>1, ConcatAssociative
    <3>3. Held' = Held
      BY <2>3 DEF Held
    <3> QED BY <2>3, <3>1, <3>2, <3>3
  <2>6. reader' \in MmapReaders' /\ Accounted(reader, got)'
    BY <2>3, SlotsFixed DEF MmapInv
  <2>7. MmapInv'
    BY <2>3, <2>4, <2>5, <2>6 DEF MmapInv
  <2>8. LinkStep
    BY <2>3 DEF LinkStep, Link!Next, Link!Send
  <2> QED BY <2>3, <2>7, <2>8
<1>3. CASE MmapRead
  <2> DEFINE s == reader.slot
             room == Size - Len(reader.bytes[s])
  <2>1. /\ reader.step = "select" /\ reader.bytes[s] \in Seq(Bytes) /\ Held = reader.bytes[s]
        /\ Len(Held) < Size /\ room \in Nat
    BY <1>1, <1>3 DEF MmapRead, MmapInv, Held
  <2>2. PICK piece \in Pieces(room) :
            LET bytes == reader.bytes[s] \o piece
            IN  IF Len(bytes) = Size
                THEN Reads(piece, SendReserved(s, bytes)) /\ Relays(bytes)
                ELSE Reads(piece, [reader EXCEPT !.bytes[s] = bytes]) /\ UNCHANGED got
    BY <1>3 DEF MmapRead
  <2> DEFINE bytes == reader.bytes[s] \o piece
  <2>3. PICK r : Reads(piece, r)
    BY <2>2
  <2>4. UNCHANGED <<given, sent>>
    BY <2>3 DEF Reads
  <2> HIDE DEF room
  <2>5. /\ piece \in Seq(Bytes) /\ wire' \in Seq(Bytes) /\ Len(piece) \in 1 .. room
        /\ piece \o wire' = wire
    BY <1>1, <2>1, <2>3, PieceRead
  <2>6. /\ bytes \in Seq(Bytes) /\ Len(bytes) = Len(Held) + Len(piece) /\ Len(bytes) <= Size
        /\ Len(bytes) \in Nat
    BY <1>1, <2>1, <2>5, ConcatProperties DEF room
  <2>7. bytes \o wire' = Held \o wire
    <3>1. (Held \o piece) \o wire' = Held \o (piece \o wire')
      <4>1. Held \in Seq(Bytes) /\ piece \in Seq(Bytes) /\ wire' \in Seq(Bytes)
        BY <1>1, <2>5
      <4> QED BY <4>1, ConcatAssociative
    <3> QED BY <2>1, <2>5, <3>1
  <2>8. Spelt(bytes \o wire', 0, sent, Len(got))
    BY <2>1, <2>7 DEF MmapInv
  <2>9. CASE Len(bytes) = Size
    <3>1. reader' = SendReserved(s, bytes) /\ Relays(bytes)
      BY <2>2, <2>9 DEF Reads
    <3>2. Len(got) # Len(sent)
      <4>1. bytes \o wire' \in Seq(Bytes) /\ Len(bytes \o wire') = Size + Len(wire')
        BY <2>5, <2>6, <2>9, ConcatProperties
      <4>2. Len(bytes \o wire') # 0
        BY <1>1, <2>5, <4>1
      <4> QED BY <1>1, <2>8, <4>1, <4>2, SpeltOut
    <3>3. Len(got) + 1 \in 1 .. Len(sent) /\ Len(sent[Len(got) + 1]) = Size
      BY <1>1, <3>2 DEF MmapInv
    <3>4. bytes = sent[Len(got) + 1] /\ Spelt(wire', 0, sent, Len(got) + 1)
      BY <1>1, <2>5, <2>6, <2>8, <2>9, <3>2, <3>3, FrameRead
    <3>5. Relayed' /\ Len(got') = Len(got) + 1
      BY <1>1, <2>4, <2>5, <3>1, <3>2, <3>4, NextRelayed
    <3>6. reader' \in MmapReaders /\ Accounted(reader', got')
      <4>1. got' = Append(got, bytes)
        BY <3>1 DEF Relays
      <4>2. reader' = Published(reader, bytes)
        BY <3>1 DEF SendReserved, Published
      <4> HIDE DEF bytes
      <4>3. /\ reader \in MmapReaders /\ got \in Seq(Seq(Bytes)) /\ Accounted(reader, got)
            /\ reader.step = "select" /\ bytes \in Seq(Bytes)
        BY <1>1, <2>1, <2>6 DEF MmapInv
      <4> QED BY <4>1, <4>2, <4>3, SlotPublished
    <3>7. reader'.step = "allocating"
      BY <3>1 DEF SendReserved, MmapInv, MmapReaders
    <3>8. Held' = <<>> /\ Held' \o wire' = wire'
      BY <2>5, <3>7, ConcatEmptySeq DEF Held
    <3>9. MmapInv'
      BY <2>4, <3>4, <3>5, <3>6, <3>7, <3>8, SlotsFixed DEF MmapInv
    <3>10. LinkStep
      BY <1>1, <2>4, <3>1, <3>2, <3>4 DEF LinkStep, Link!Next, Link!Deliver, Relays
    <3> QED BY <2>4, <3>9, <3>10
  <2>10. CASE Len(bytes) # Size
    <3>1. reader' = [reader EXCEPT !.bytes[s] = bytes] /\ UNCHANGED got
      BY <2>2, <2>10 DEF Reads
    <3>2. reader' \in MmapReaders /\ Accounted(reader', got')
      BY <1>1, <2>1, <2>6, <3>1, SlotKept DEF MmapInv
    <3>3. reader'.step = "select" /\ reader'.bytes[reader'.slot] = bytes
      BY <1>1, <2>1, <3>1 DEF MmapInv, MmapReaders
    <3>4. Held' \o wire' = bytes \o wire'
      BY <3>3 DEF Held
    <3>5. Len(bytes) < Size
      BY <1>1, <2>6, <2>10, SMTT(25)
    <3>6. Relayed'
      BY <1>1, <2>4, <2>5, <3>1 DEF Relayed
    <3>7. MmapInv'
      BY <2>4, <2>8, <3>1, <3>2, <3>3, <3>4, <3>5, <3>6, SlotsFixed DEF MmapInv
    <3> QED BY <2>4, <3>1, <3>7 DEF LinkStep
  <2> QED BY <2>9, <2>10
<1>4. CASE MmapReserve \/ MmapRefused \/ MmapConsume \/ MmapEnd
  <2>1. UNCHANGED <<given, sent, wire, got>>
    BY <1>4 DEF MmapReserve, MmapRefused, MmapConsume, MmapEnd, Turns
  <2>2. Relayed'
    BY <1>1, <2>1 DEF Relayed
  <2>3. ASSUME reader' \in MmapReaders, Accounted(reader', got'),
               reader'.step # "over" => reader.step # "over" /\ Held' = Held,
               reader'.step = "select" => Len(reader'.bytes[reader'.slot]) < Size
        PROVE  MmapInv'
    BY <1>1, <2>1, <2>2, <2>3, SlotsFixed DEF MmapInv
  <2>4. ASSUME MmapReserve PROVE MmapInv'
    <3>1. reader.step = "allocating"
      BY <2>4 DEF MmapReserve
    <3>2. PICK s \in Slots : reader.slots[s] = "free" /\ reader' = ReserveSlot(s)
      BY <2>4 DEF MmapReserve, Turns, Free
    <3>3. reader' \in MmapReaders /\ Accounted(reader', got')
      BY <1>1, <2>1, <3>1, <3>2, SlotKept DEF MmapInv, ReserveSlot
    <3>4. reader'.step = "select" /\ reader'.bytes[reader'.slot] = <<>>
      BY <1>1, <3>2 DEF ReserveSlot, MmapInv, MmapReaders
    <3>5. Held' = Held /\ Len(<<>>) < Size
      BY <1>1, <3>1, <3>4, EmptySeq DEF Held
    <3> QED BY <2>3, <3>1, <3>3, <3>4, <3>5
  <2>5. ASSUME MmapRefused PROVE MmapInv'
    <3>1. reader.step = "allocating" /\ AbortsWhenFull \in BOOLEAN
      BY <2>5 DEF MmapRefused, AbortsWhenFull
    <3>2. PICK status \in {"free", reader.slots[reader.slot]} :
            reader' = [[reader EXCEPT !.step = "over"] EXCEPT !.closed = AbortsWhenFull,
                                                              !.slots[reader.slot] = status]
      BY <2>5 DEF MmapRefused, Turns, Ended
    <3>3. reader' \in MmapReaders /\ Accounted(reader', got')
      BY <1>1, <2>1, <3>1, <3>2, SlotKept DEF MmapInv
    <3>4. reader'.step = "over"
      BY <3>2 DEF MmapInv, MmapReaders
    <3> QED BY <2>3, <3>3, <3>4
  <2>6. ASSUME MmapConsume PROVE MmapInv'
    <3>1. /\ reader.inbox # <<>>
          /\ reader' = [reader EXCEPT !.inbox = Tail(@), !.slots[Head(reader.inbox)] = "free"]
      BY <2>6 DEF MmapConsume, Turns
    <3>2. reader' \in MmapReaders /\ Accounted(reader', got')
      BY <1>1, <2>1, <3>1, SlotConsumed DEF MmapInv
    <3>3. UNCHANGED <<reader.step, reader.slot, reader.bytes>>
      BY <3>1 DEF MmapInv, MmapReaders
    <3> QED BY <2>3, <3>2, <3>3 DEF MmapInv, Held
  <2>7. ASSUME MmapEnd PROVE MmapInv'
    <3>1. reader.step = "select"
      BY <2>7 DEF MmapEnd
    <3>2. PICK isClosed \in BOOLEAN :
            reader' = [[reader EXCEPT !.step = "over"] EXCEPT !.closed = isClosed,
                                                              !.slots[reader.slot] = "free"]
      BY <2>7 DEF MmapEnd, Turns, Ended
    <3>3. reader' \in MmapReaders /\ Accounted(reader', got')
      BY <1>1, <2>1, <3>1, <3>2, SlotKept DEF MmapInv
    <3>4. reader'.step = "over"
      BY <3>2 DEF MmapInv, MmapReaders
    <3> QED BY <2>3, <3>3, <3>4
  <2>8. MmapInv'
    BY <1>4, <2>4, <2>5, <2>6, <2>7
  <2> QED BY <2>1, <2>8 DEF LinkStep
<1> QED BY <1>2, <1>3, <1>4 DEF MmapNext

-----------------------------------------------------------------------------
(* The textual dialog *)

TextReaders ==
    [step : {"select", "lines", "over"}, buffer : Seq(Bytes), next_line_index : Nat,
     this_line_search_start : Nat]

\* The frames of a textual dialog
Lines == [k \in 1 .. Len(sent) |-> Append(sent[k], EOL)]

\* Where the next line begins in the buffer
LineStart == IF reader.step = "lines" THEN reader.next_line_index ELSE 0

\* No end of line is where it is not looked for: in what was searched before the
\* last read, and in a buffer that waits for more
TextInv ==
    /\ reader \in TextReaders
    /\ Relayed
    /\ \A k \in 1 .. Len(sent) : \A j \in 1 .. Len(sent[k]) : sent[k][j] # EOL
    /\ reader.step = "select" =>
        \A i \in 1 .. Len(reader.buffer) : reader.buffer[i] # EOL
    /\ reader.step = "lines" =>
        /\ reader.next_line_index + reader.this_line_search_start <= Len(reader.buffer)
        /\ \A i \in reader.next_line_index + 1 ..
                        reader.next_line_index + reader.this_line_search_start :
            reader.buffer[i] # EOL
    /\ reader.step # "over" => Spelt(reader.buffer \o wire, LineStart, Lines, Len(got))

\* The lines that cross the wire are one sequence of bytes per message sent.
LEMMA LinesType ==
    ASSUME Relayed
    PROVE  /\ Lines \in Seq(Seq(Bytes)) /\ Len(Lines) = Len(sent) /\ Len(sent) \in Nat
           /\ \A k \in 1 .. Len(sent) :
                /\ sent[k] \in Seq(Bytes) /\ Len(sent[k]) \in Nat
                /\ Len(Lines[k]) = Len(sent[k]) + 1
                /\ \A j \in 1 .. Len(sent[k]) : Lines[k][j] = sent[k][j]
                /\ Lines[k][Len(sent[k]) + 1] = EOL
<1>1. /\ Len(sent) \in Nat
      /\ \A k \in 1 .. Len(sent) : sent[k] \in Seq(Bytes) /\ Len(sent[k]) \in Nat
  BY ElementOfSeq DEF Relayed
<1>2. EOL \in Bytes
  BY WireAssumption DEF WireAssumption, EOL, Bytes
<1>3. ASSUME NEW k \in 1 .. Len(sent)
      PROVE  /\ Append(sent[k], EOL) \in Seq(Bytes)
             /\ Len(Append(sent[k], EOL)) = Len(sent[k]) + 1
             /\ \A j \in 1 .. Len(sent[k]) : Append(sent[k], EOL)[j] = sent[k][j]
             /\ Append(sent[k], EOL)[Len(sent[k]) + 1] = EOL
  <2>1. sent[k] \in Seq(Bytes)
    BY <1>1
  <2> HIDE DEF EOL
  <2> QED BY <1>2, <2>1, AppendProperties
<1>4. Lines \in [1 .. Len(sent) -> Seq(Bytes)]
  BY <1>3 DEF Lines
<1>5. Lines \in Seq(Seq(Bytes)) /\ Len(Lines) = Len(sent)
  BY <1>1, <1>4
<1> QED BY <1>1, <1>3, <1>5 DEF Lines

\* The line that is relayed is the next message, whole: the first end of line that is
\* found is the one it was sent with.
LEMMA NextLine ==
    ASSUME TextInv, reader.step = "lines", Eols # {}
    PROVE  LET eol == Min(Eols)
               line == SubSeq(reader.buffer, reader.next_line_index + 1, eol - 1)
           IN  /\ Len(got) # Len(sent)
               /\ eol \in 1 .. Len(reader.buffer) /\ reader.next_line_index < eol
               /\ line = sent[Len(got) + 1]
               /\ Spelt(reader.buffer \o wire, eol, Lines, Len(got) + 1)
<1> DEFINE buffer == reader.buffer
           stream == buffer \o wire
           at == reader.next_line_index
           start == reader.this_line_search_start
           n == Len(got)
           m == sent[n + 1]
           e == at + Len(m) + 1
<1>1. /\ buffer \in Seq(Bytes) /\ wire \in Seq(Bytes) /\ at \in Nat /\ start \in Nat
      /\ n \in Nat /\ n \in 0 .. Len(sent) /\ at + start <= Len(buffer)
      /\ \A i \in at + 1 .. at + start : buffer[i] # EOL
      /\ Spelt(stream, at, Lines, n)
  BY DEF TextInv, TextReaders, Relayed, LineStart
<1>2. /\ stream \in Seq(Bytes) /\ Len(stream) = Len(buffer) + Len(wire)
      /\ Len(buffer) \in Nat /\ Len(wire) \in Nat
      /\ \A i \in 1 .. Len(buffer) : stream[i] = buffer[i]
  BY <1>1, ConcatProperties
<1>3. /\ Lines \in Seq(Seq(Bytes)) /\ Len(Lines) = Len(sent) /\ Len(sent) \in Nat
      /\ \A k \in 1 .. Len(sent) :
            /\ sent[k] \in Seq(Bytes) /\ Len(sent[k]) \in Nat
            /\ Len(Lines[k]) = Len(sent[k]) + 1
            /\ \A j \in 1 .. Len(sent[k]) : Lines[k][j] = sent[k][j]
            /\ Lines[k][Len(sent[k]) + 1] = EOL
  BY LinesType DEF TextInv
<1>4. Eols = {i \in 1 .. Len(buffer) : i > at + start /\ buffer[i] = EOL}
  BY <1>1, <1>2 DEF Eols
<1> HIDE DEF stream, at, start, buffer, n
<1>5. n # Len(sent)
  <2>1. PICK i \in 1 .. Len(buffer) : i > at + start
    BY <1>4
  <2>2. at # Len(stream)
    BY <1>1, <1>2, <2>1
  <2>3. /\ stream \in Seq(Bytes) /\ Lines \in Seq(Seq(Bytes)) /\ n \in 0 .. Len(Lines)
        /\ at \in Nat /\ Spelt(stream, at, Lines, n)
    BY <1>1, <1>2, <1>3
  <2>4. n # Len(Lines)
    BY <2>2, <2>3, SpeltOut
  <2> QED BY <1>3, <2>4
<1>6. n + 1 \in 1 .. Len(sent) /\ m \in Seq(Bytes) /\ Len(m) \in Nat /\ e \in Nat
  BY <1>1, <1>3, <1>5, SMTT(25)
<1>7. /\ at + Len(Lines[n + 1]) <= Len(stream)
      /\ \A j \in 1 .. Len(Lines[n + 1]) : stream[at + j] = Lines[n + 1][j]
      /\ Spelt(stream, at + Len(Lines[n + 1]), Lines, n + 1)
  BY <1>1, <1>2, <1>3, <1>5, FrameFound, SMTT(25)
<1>8. at + Len(Lines[n + 1]) = e /\ Len(Lines[n + 1]) = Len(m) + 1
  BY <1>1, <1>3, <1>6, SMTT(25)
<1>9. \A j \in 1 .. Len(m) : stream[at + j] = m[j] /\ m[j] # EOL
  <2> SUFFICES ASSUME NEW j \in 1 .. Len(m) PROVE stream[at + j] = m[j] /\ m[j] # EOL
    OBVIOUS
  <2>1. j \in 1 .. Len(Lines[n + 1])
    BY <1>6, <1>8
  <2>2. Lines[n + 1][j] = m[j] /\ m[j] # EOL
    BY <1>3, <1>6 DEF TextInv, n
  <2> QED BY <1>7, <2>1, <2>2
<1>10. stream[e] = EOL
  <2>1. Len(m) + 1 \in 1 .. Len(Lines[n + 1]) /\ at + (Len(m) + 1) = e
    BY <1>1, <1>6, <1>8
  <2> QED BY <1>3, <1>6, <1>7, <2>1
<1> HIDE DEF m, e
<1>11. ASSUME NEW y \in Eols PROVE e <= y
  <2>1. y \in 1 .. Len(buffer) /\ y > at + start /\ buffer[y] = EOL /\ stream[y] = EOL
    BY <1>2, <1>4
  <2>2. ASSUME y < e PROVE FALSE
    <3>1. y - at \in 1 .. Len(m) /\ at + (y - at) = y
      BY <1>1, <1>6, <2>1, <2>2 DEF e
    <3> QED BY <1>9, <2>1, <3>1
  <2> QED BY <1>6, <2>1, <2>2
<1>12. e \in Eols
  <2>1. PICK y \in Eols : y \in 1 .. Len(buffer)
    BY <1>4
  <2>2. e \in 1 .. Len(buffer)
    BY <1>1, <1>2, <1>6, <1>11, <2>1 DEF e
  <2>3. buffer[e] = EOL
    BY <1>2, <1>10, <2>2
  <2>4. e > at + start
    <3>1. e >= at + 1
      BY <1>1, <1>6 DEF e
    <3> QED BY <1>1, <1>6, <2>3, <3>1
  <2> QED BY <1>4, <2>2, <2>3, <2>4
<1>13. Min(Eols) = e
  <2>1. \E x \in Eols : \A y \in Eols : x <= y
    BY <1>11, <1>12
  <2>2. Min(Eols) \in Eols /\ \A y \in Eols : Min(Eols) <= y
    BY <2>1 DEF Min
  <2>3. e <= Min(Eols) /\ Min(Eols) <= e /\ Min(Eols) \in Nat
    BY <1>2, <1>4, <1>11, <1>12, <2>2
  <2> QED BY <1>6, <2>3
<1>14. e \in 1 .. Len(buffer) /\ at < e /\ e - 1 = at + Len(m)
  BY <1>1, <1>4, <1>6, <1>12 DEF e
<1>15. SubSeq(buffer, at + 1, e - 1) = m
  <2> DEFINE line == SubSeq(buffer, at + 1, e - 1)
  <2>1. \A i \in at + 1 .. e - 1 : i \in 1 .. Len(buffer) /\ buffer[i] \in Bytes
    BY <1>1, <1>2, <1>14, ElementOfSeq
  <2>2. /\ line \in Seq(Bytes)
        /\ Len(line) = IF at + 1 <= e - 1 THEN (e - 1) - (at + 1) + 1 ELSE 0
        /\ \A i \in 1 .. (e - 1) - (at + 1) + 1 : line[i] = buffer[(at + 1) + i - 1]
    BY <1>1, <1>6, <2>1, SubSeqProperties
  <2>3. Len(line) = Len(m) /\ (e - 1) - (at + 1) + 1 = Len(m)
    BY <1>1, <1>6, <1>14, <2>2
  <2> HIDE DEF line
  <2>4. ASSUME NEW i \in 1 .. Len(line) PROVE line[i] = m[i]
    <3>1. /\ i \in 1 .. Len(m) /\ (at + 1) + i - 1 = at + i /\ at + i \in at + 1 .. e - 1
      BY <1>1, <1>6, <1>14, <2>3
    <3>2. line[i] = buffer[at + i]
      BY <2>2, <2>3, <3>1
    <3>3. buffer[at + i] = stream[at + i]
      BY <1>2, <2>1, <3>1
    <3> QED BY <1>9, <3>1, <3>2, <3>3
  <2>5. line = m
    BY <1>6, <2>2, <2>3, <2>4, SeqEqual
  <2> QED BY <2>5 DEF line
<1> QED BY <1>5, <1>7, <1>8, <1>13, <1>14, <1>15 DEF stream, at, buffer, n, m

\* A fresh pair of textual ends meets its invariant.
LEMMA TextStart ==
    ASSUME Init, form = "Textual" PROVE TextInv
<1>1. TextInit /\ Silent
  BY DEF Init
<1>2. /\ <<>> \in Seq(Bytes) /\ <<>> \in Seq(Seq(Bytes)) /\ Len(<<>>) = 0
      /\ <<>> \o <<>> = <<>>
  BY EmptySeq, ConcatEmptySeq
<1>3. reader \in TextReaders /\ reader.step = "select" /\ reader.buffer = <<>>
  BY <1>1, <1>2 DEF TextInit, TextReaders
<1>4. Relayed
  BY <1>1, <1>2 DEF Relayed, Silent
<1>5. Lines = <<>>
  <2>1. Lines \in Seq(Seq(Bytes)) /\ Len(Lines) = 0
    BY <1>1, <1>2, <1>4, LinesType DEF Silent
  <2> QED BY <2>1, EmptySeq
<1>6. Spelt(reader.buffer \o wire, LineStart, Lines, Len(got))
  BY <1>1, <1>2, <1>3, <1>5, NothingSpelt DEF Silent, LineStart
<1> QED BY <1>1, <1>2, <1>3, <1>4, <1>6 DEF TextInv, Silent

\* Each step of the textual dialog preserves its invariant, and is one of the link.
LEMMA TextStep ==
    ASSUME TextInv, TextNext PROVE TextInv' /\ LinkStep /\ UNCHANGED given
<1>1. /\ Relayed /\ reader.buffer \in Seq(Bytes) /\ Len(reader.buffer) \in Nat
      /\ reader.next_line_index \in Nat /\ reader.this_line_search_start \in Nat
      /\ reader.step \in {"select", "lines", "over"} /\ LineStart \in Nat
      /\ wire \in Seq(Bytes) /\ got \in Seq(Seq(Bytes)) /\ sent \in Seq(Seq(Bytes))
      /\ Len(got) \in 0 .. Len(sent) /\ Len(wire) \in Nat /\ EOL \in Bytes
  <2>1. /\ Relayed /\ reader.buffer \in Seq(Bytes) /\ Len(reader.buffer) \in Nat
        /\ reader.next_line_index \in Nat /\ reader.this_line_search_start \in Nat
        /\ reader.step \in {"select", "lines", "over"}
    BY DEF TextInv, TextReaders
  <2>2. LineStart \in Nat
    BY <2>1 DEF LineStart
  <2>3. /\ wire \in Seq(Bytes) /\ got \in Seq(Seq(Bytes)) /\ sent \in Seq(Seq(Bytes))
        /\ Len(got) \in 0 .. Len(sent) /\ Len(wire) \in Nat
    BY <2>1 DEF Relayed
  <2>4. EOL \in Bytes
    BY WireAssumption DEF WireAssumption, Bytes, EOL
  <2> QED BY <2>1, <2>2, <2>3, <2>4
<1>2. /\ Lines \in Seq(Seq(Bytes)) /\ Len(Lines) = Len(sent)
      /\ reader.buffer \o wire \in Seq(Bytes)
      /\ Len(reader.buffer \o wire) = Len(reader.buffer) + Len(wire)
  BY <1>1, LinesType, ConcatProperties
<1>3. ASSUME TextSend PROVE TextInv' /\ LinkStep /\ UNCHANGED given
  <2>1. PICK m \in Payloads : EOL \notin Range(m) /\ Writes(m, m \o <<EOL>>)
    BY <1>3 DEF TextSend
  <2>2. m \in Seq(Bytes)
    BY WireAssumption DEF WireAssumption, Bytes
  <2> DEFINE frame == m \o <<EOL>>
  <2>3. frame \in Seq(Bytes) /\ frame = Append(m, EOL)
    <3> HIDE DEF EOL
    <3>1. <<EOL>> \in Seq(Bytes)
      BY <1>1
    <3> QED BY <1>1, <2>2, <3>1, ConcatProperties, AppendIsConcat
  <2> HIDE DEF frame
  <2>4. /\ Relayed' /\ UNCHANGED <<given, reader, got>>
        /\ sent' = Append(sent, m) /\ wire' = wire \o frame
    <3>1. Writes(m, frame)
      BY <2>1 DEF frame
    <3> QED BY <1>1, <2>3, <3>1, SentRelayed
  <2>5. /\ Len(sent') = Len(sent) + 1 /\ Len(sent) \in Nat
        /\ \A k \in 1 .. Len(sent) : sent'[k] = sent[k]
        /\ sent'[Len(sent) + 1] = m
    BY <1>1, <2>2, <2>4, AppendProperties
  <2>6. \A j \in 1 .. Len(m) : m[j] # EOL
    BY <2>1, <2>2 DEF Range
  <2>7. \A k \in 1 .. Len(sent') : \A j \in 1 .. Len(sent'[k]) : sent'[k][j] # EOL
    BY <2>5, <2>6 DEF TextInv
  <2>8. Lines' = Append(Lines, frame)
    <3>1. Lines' = [k \in 1 .. Len(sent) + 1 |-> Append(sent'[k], EOL)]
      BY <2>5 DEF Lines, EOL
    <3>2. /\ Append(Lines, frame) \in Seq(Seq(Bytes)) /\ Len(Append(Lines, frame)) = Len(sent) + 1
          /\ \A k \in 1 .. Len(sent) : Append(Lines, frame)[k] = Lines[k]
          /\ Append(Lines, frame)[Len(sent) + 1] = frame
      BY <1>2, <2>3, AppendProperties
    <3>3. Lines' \in Seq(Seq(Bytes)) /\ Len(Lines') = Len(sent) + 1
      <4>1. ASSUME NEW k \in 1 .. Len(sent) + 1 PROVE Append(sent'[k], EOL) \in Seq(Bytes)
        <5>1. sent' \in Seq(Seq(Bytes)) /\ k \in 1 .. Len(sent')
          <6>1. Append(sent, m) \in Seq(Seq(Bytes))
            BY <1>1, <2>2, AppendProperties
          <6> QED BY <2>4, <2>5, <6>1
        <5>2. sent'[k] \in Seq(Bytes)
          BY <5>1, ElementOfSeq
        <5> HIDE DEF EOL
        <5> QED BY <1>1, <5>2, AppendProperties
      <4>2. Lines' \in [1 .. Len(sent) + 1 -> Seq(Bytes)]
        BY <3>1, <4>1
      <4> QED BY <2>5, <4>2
    <3>4. ASSUME NEW k \in 1 .. Len(sent) + 1 PROVE Lines'[k] = Append(Lines, frame)[k]
      <4>1. Lines'[k] = Append(sent'[k], EOL)
        BY <3>1
      <4>2. CASE k \in 1 .. Len(sent)
        <5>1. Lines[k] = Append(sent[k], EOL)
          BY <4>2 DEF Lines
        <5> HIDE DEF EOL
        <5> QED BY <2>5, <3>2, <4>1, <4>2, <5>1
      <4>3. CASE k = Len(sent) + 1
        <5>1. Lines'[k] = Append(m, EOL)
          BY <2>5, <4>1, <4>3
        <5>2. Append(Lines, frame)[k] = frame
          BY <3>2, <4>3
        <5> QED BY <2>3, <5>1, <5>2
      <4>4. k \in 1 .. Len(sent) \/ k = Len(sent) + 1
        BY <2>5
      <4> QED BY <4>2, <4>3, <4>4, Zenon
    <3> QED BY <3>2, <3>3, <3>4, SeqEqual
  <2>9. ASSUME reader.step # "over" PROVE Spelt(reader'.buffer \o wire', LineStart', Lines', Len(got'))
    <3>1. Spelt((reader.buffer \o wire) \o frame, LineStart, Append(Lines, frame), Len(got))
      BY <1>1, <1>2, <2>3, <2>9, FrameWritten DEF TextInv
    <3>2. (reader.buffer \o wire) \o frame = reader.buffer \o (wire \o frame)
      <4> DEFINE buffer == reader.buffer
      <4>1. buffer \in Seq(Bytes) /\ wire \in Seq(Bytes) /\ frame \in Seq(Bytes)
        BY <1>1, <2>3
      <4> HIDE DEF buffer
      <4>2. (buffer \o wire) \o frame = buffer \o (wire \o frame)
        BY <4>1, ConcatAssociative
      <4> QED BY <4>2 DEF buffer
    <3>3. LineStart' = LineStart
      BY <2>4 DEF LineStart
    <3> QED BY <2>4, <2>8, <3>1, <3>2, <3>3
  <2>10. TextReaders' = TextReaders
    BY DEF TextReaders, Bytes
  <2>11. TextInv'
    BY <2>4, <2>7, <2>9, <2>10 DEF TextInv, EOL
  <2>12. LinkStep
    BY <2>4 DEF LinkStep, Link!Next, Link!Send
  <2> QED BY <2>4, <2>11, <2>12
\* Nothing is sent by the other steps: what is left is to spell the same lines
<1>4. ASSUME UNCHANGED <<given, sent>>, reader' \in TextReaders, Relayed',
             reader'.step = "select" =>
                \A i \in 1 .. Len(reader'.buffer) : reader'.buffer[i] # EOL,
             reader'.step = "lines" =>
                /\ reader'.next_line_index + reader'.this_line_search_start <= Len(reader'.buffer)
                /\ \A i \in reader'.next_line_index + 1 ..
                                reader'.next_line_index + reader'.this_line_search_start :
                    reader'.buffer[i] # EOL,
             reader'.step # "over" => Spelt(reader'.buffer \o wire', LineStart', Lines, Len(got'))
      PROVE  TextInv'
  <2>1. TextReaders' = TextReaders /\ Lines' = Lines /\ EOL' = EOL
    BY <1>4 DEF TextReaders, Bytes, Lines, EOL
  <2>2. \A k \in 1 .. Len(sent') : \A j \in 1 .. Len(sent'[k]) : sent'[k][j] # EOL
    BY <1>4 DEF TextInv
  <2> QED BY <1>4, <2>1, <2>2 DEF TextInv
<1>5. ASSUME TextRead PROVE TextInv' /\ LinkStep /\ UNCHANGED given
  <2>1. reader.step = "select"
    BY <1>5 DEF TextRead
  <2>2. PICK piece \in Pieces(Len(wire)) :
            Reads(piece, [step |-> "lines", buffer |-> reader.buffer \o piece,
                          next_line_index |-> 0, this_line_search_start |-> Len(reader.buffer)])
    BY <1>5 DEF TextRead
  <2>3. piece \in Seq(Bytes) /\ wire' \in Seq(Bytes) /\ piece \o wire' = wire
    BY <1>1, <2>2, PieceRead
  <2>4. /\ UNCHANGED <<given, sent, got>>
        /\ reader' = [step |-> "lines", buffer |-> reader.buffer \o piece,
                      next_line_index |-> 0, this_line_search_start |-> Len(reader.buffer)]
    BY <1>5, <2>2 DEF Reads, TextRead
  <2>5. /\ reader.buffer \o piece \in Seq(Bytes)
        /\ Len(reader.buffer) <= Len(reader.buffer \o piece)
        /\ \A i \in 1 .. Len(reader.buffer) : (reader.buffer \o piece)[i] = reader.buffer[i]
    BY <1>1, <2>3, ConcatProperties
  <2>6. (reader.buffer \o piece) \o wire' = reader.buffer \o wire
    <3> DEFINE buffer == reader.buffer
               left == wire'
    <3>1. buffer \in Seq(Bytes) /\ piece \in Seq(Bytes) /\ left \in Seq(Bytes)
      BY <1>1, <2>3
    <3> HIDE DEF buffer, left
    <3>2. (buffer \o piece) \o left = buffer \o (piece \o left)
      BY <3>1, ConcatAssociative
    <3>3. piece \o left = wire
      BY <2>3 DEF left
    <3> QED BY <3>2, <3>3 DEF buffer, left
  <2>7. reader' \in TextReaders
    BY <1>1, <2>4, <2>5 DEF TextReaders
  <2>8. Relayed'
    BY <1>1, <2>3, <2>4 DEF Relayed
  <2>9. /\ reader'.step = "lines" /\ reader'.buffer = reader.buffer \o piece
        /\ reader'.next_line_index = 0 /\ reader'.this_line_search_start = Len(reader.buffer)
        /\ LineStart' = LineStart
    BY <2>1, <2>4 DEF LineStart
  <2>10. Spelt(reader'.buffer \o wire', LineStart', Lines, Len(got'))
    BY <2>1, <2>4, <2>6, <2>9 DEF TextInv
  <2>11. /\ reader'.next_line_index + reader'.this_line_search_start <= Len(reader'.buffer)
         /\ \A i \in reader'.next_line_index + 1 ..
                        reader'.next_line_index + reader'.this_line_search_start :
                reader'.buffer[i] # EOL
    BY <1>1, <2>1, <2>5, <2>9 DEF TextInv
  <2>12. TextInv'
    BY <1>4, <2>4, <2>7, <2>8, <2>9, <2>10, <2>11
  <2> QED BY <2>4, <2>12 DEF LinkStep, given
<1>6. ASSUME TextLine PROVE TextInv' /\ LinkStep /\ UNCHANGED given
  <2> DEFINE eol == Min(Eols)
             line == SubSeq(reader.buffer, reader.next_line_index + 1, eol - 1)
  <2>1. reader.step = "lines" /\ Eols # {} /\ Relays(line) /\ UNCHANGED <<given, sent, wire>>
    BY <1>6 DEF TextLine, Turns
  <2>2. reader' = IF eol >= Len(reader.buffer)
                  THEN [reader EXCEPT !.step = "select", !.buffer = <<>>]
                  ELSE [reader EXCEPT !.next_line_index = eol, !.this_line_search_start = 0]
    BY <1>6 DEF TextLine, Turns
  <2>3. /\ Len(got) # Len(sent)
        /\ eol \in 1 .. Len(reader.buffer) /\ reader.next_line_index < eol
        /\ line = sent[Len(got) + 1]
        /\ Spelt(reader.buffer \o wire, eol, Lines, Len(got) + 1)
    BY <2>1, NextLine
  <2> HIDE DEF eol, line
  <2>4. Relayed' /\ Len(got') = Len(got) + 1 /\ Len(got) + 1 \in 0 .. Len(Lines)
    <3>1. wire' \in Seq(Bytes) /\ UNCHANGED sent /\ Relays(sent[Len(got) + 1])
      BY <1>1, <2>1, <2>3
    <3> QED BY <1>1, <1>2, <2>3, <3>1, NextRelayed
  <2>5. LinkStep
    BY <1>1, <2>1, <2>3 DEF LinkStep, Link!Next, Link!Deliver, Relays
  <2>6. CASE eol >= Len(reader.buffer)
    <3>1. /\ reader' = [reader EXCEPT !.step = "select", !.buffer = <<>>]
          /\ eol = Len(reader.buffer) /\ eol \in Nat
      BY <1>1, <2>2, <2>3, <2>6
    <3>2. /\ reader' \in TextReaders /\ reader'.step = "select" /\ reader'.buffer = <<>>
          /\ Len(<<>>) = 0
      BY <3>1, EmptySeq DEF TextInv, TextReaders
    <3>3. /\ Len(wire) = Len(reader.buffer \o wire) - eol /\ eol \in 0 .. eol /\ eol - eol = 0
          /\ \A i \in 1 .. Len(wire) : wire[i] = (reader.buffer \o wire)[eol + i]
      <4>1. \A i \in 1 .. Len(reader.buffer) + Len(wire) :
                (reader.buffer \o wire)[i] = IF i <= Len(reader.buffer) THEN reader.buffer[i]
                                             ELSE wire[i - Len(reader.buffer)]
        BY <1>1, ConcatProperties
      <4>2. Len(wire) = Len(reader.buffer \o wire) - eol /\ eol \in 0 .. eol /\ eol - eol = 0
        BY <1>1, <1>2, <3>1
      <4>3. ASSUME NEW i \in 1 .. Len(wire) PROVE wire[i] = (reader.buffer \o wire)[eol + i]
        <5> DEFINE j == eol + i
                   shown == Len(reader.buffer)
        <5>1. eol = shown /\ shown \in Nat /\ Len(wire) \in Nat /\ i \in Nat /\ 1 <= i /\ i <= Len(wire)
          BY <1>1, <3>1
        <5> HIDE DEF shown
        <5>2. j \in 1 .. shown + Len(wire) /\ ~(j <= shown) /\ j - shown = i
          BY <5>1
        <5> HIDE DEF j
        <5>3. (reader.buffer \o wire)[j] = wire[i]
          BY <4>1, <5>2 DEF shown
        <5> QED BY <5>3 DEF j
      <4> QED BY <4>2, <4>3
    <3>4. Spelt(wire, eol - eol, Lines, Len(got) + 1)
      BY <1>1, <1>2, <2>3, <2>4, <3>1, <3>3, SpeltAfter, ZenonT(40)
    <3>5. LineStart' = 0 /\ reader'.buffer \o wire' = wire
      BY <1>1, <2>1, <3>2, ConcatEmptySeq DEF LineStart
    <3>6. Spelt(reader'.buffer \o wire', LineStart', Lines, Len(got'))
      BY <2>4, <3>3, <3>4, <3>5
    <3>7. TextInv'
      BY <1>4, <2>1, <2>4, <3>2, <3>6
    <3> QED BY <2>1, <2>5, <3>7
  <2>7. CASE ~(eol >= Len(reader.buffer))
    <3>1. /\ reader' = [reader EXCEPT !.next_line_index = eol, !.this_line_search_start = 0]
          /\ eol \in Nat /\ eol <= Len(reader.buffer)
      BY <1>1, <2>2, <2>3, <2>7
    <3>2. /\ reader' \in TextReaders /\ reader'.step = "lines" /\ reader'.buffer = reader.buffer
          /\ reader'.next_line_index = eol /\ reader'.this_line_search_start = 0
      BY <2>1, <3>1 DEF TextInv, TextReaders
    <3>3. Spelt(reader'.buffer \o wire', LineStart', Lines, Len(got'))
      BY <2>1, <2>3, <2>4, <3>2 DEF LineStart
    <3>4. eol + 0 <= Len(reader.buffer) /\ \A i \in eol + 1 .. eol + 0 : FALSE
      BY <1>1, <3>1
    <3>5. TextInv'
      BY <1>4, <2>1, <2>4, <3>2, <3>3, <3>4
    <3> QED BY <2>1, <2>5, <3>5
  <2> QED BY <2>6, <2>7
<1>7. ASSUME TextRest PROVE TextInv' /\ LinkStep /\ UNCHANGED given
  <2> DEFINE at == reader.next_line_index
             rest == SubSeq(reader.buffer, at + 1, Len(reader.buffer))
  <2>1. /\ reader.step = "lines" /\ Eols = {} /\ UNCHANGED <<given, sent, wire, got>>
        /\ reader' = [reader EXCEPT !.step = "select", !.buffer = rest]
    BY <1>7 DEF TextRest, Turns, Rest
  <2>2. at \in Nat /\ at <= Len(reader.buffer) /\ Spelt(reader.buffer \o wire, at, Lines, Len(got))
    BY <1>1, <2>1 DEF TextInv, LineStart
  <2>3. /\ rest \in Seq(Bytes) /\ Len(rest) = Len(reader.buffer) - at
        /\ \A i \in 1 .. Len(rest) : rest[i] = reader.buffer[at + i]
    <3>1. \A i \in at + 1 .. Len(reader.buffer) : reader.buffer[i] \in Bytes
      BY <1>1, <2>2, ElementOfSeq
    <3>2. /\ rest \in Seq(Bytes)
          /\ Len(rest) = IF at + 1 <= Len(reader.buffer) THEN Len(reader.buffer) - (at + 1) + 1 ELSE 0
          /\ \A i \in 1 .. Len(reader.buffer) - (at + 1) + 1 :
                rest[i] = reader.buffer[(at + 1) + i - 1]
      <4> DEFINE from == at + 1
                 to == Len(reader.buffer)
                 buffer == reader.buffer
      <4>1. from \in Int /\ to \in Int
        BY <1>1, <2>2
      <4>2. \A i \in from .. to : buffer[i] \in Bytes
        BY <3>1
      <4> HIDE DEF from, to, buffer
      <4>3. /\ SubSeq(buffer, from, to) \in Seq(Bytes)
            /\ Len(SubSeq(buffer, from, to)) = IF from <= to THEN to - from + 1 ELSE 0
            /\ \A i \in 1 .. to - from + 1 : SubSeq(buffer, from, to)[i] = buffer[from + i - 1]
        BY <4>1, <4>2, SubSeqProperties
      <4> QED BY <4>3, Zenon DEF from, to, buffer
    <3> HIDE DEF rest
    <3>3. Len(rest) = Len(reader.buffer) - at /\ Len(reader.buffer) - (at + 1) + 1 = Len(rest)
      BY <1>1, <2>2, <3>2
    <3>4. ASSUME NEW i \in 1 .. Len(rest) PROVE rest[i] = reader.buffer[at + i]
      <4>1. (at + 1) + i - 1 = at + i
        BY <1>1, <2>2
      <4> QED BY <3>2, <3>3, <4>1
    <3> QED BY <3>2, <3>3, <3>4
  <2> HIDE DEF at, rest
  <2>4. \A i \in 1 .. Len(rest) : rest[i] # EOL
    <3> SUFFICES ASSUME NEW i \in 1 .. Len(rest) PROVE reader.buffer[at + i] # EOL
      BY <2>3
    <3>1. at + i \in 1 .. Len(reader.buffer) /\ at + i \in Nat /\ at + i >= at + 1
      BY <1>1, <2>2, <2>3
    <3>2. CASE at + i <= at + reader.this_line_search_start
      BY <1>1, <2>1, <2>2, <3>1, <3>2, SMTT(25) DEF TextInv, at
    <3>3. CASE at + i > at + reader.this_line_search_start
      <4>1. at + i \in DOMAIN reader.buffer
        BY <1>1, <3>1
      <4> QED BY <2>1, <3>3, <4>1 DEF Eols, at
    <3> QED BY <1>1, <2>2, <3>1, <3>2, <3>3
  <2>5. Spelt(rest \o wire, at - at, Lines, Len(got)) /\ at - at = 0
    <3> DEFINE stream == reader.buffer \o wire
               left == rest \o wire
    <3>1. /\ stream \in Seq(Bytes) /\ Len(stream) = Len(reader.buffer) + Len(wire)
          /\ \A i \in 1 .. Len(reader.buffer) + Len(wire) :
                stream[i] = IF i <= Len(reader.buffer) THEN reader.buffer[i]
                            ELSE wire[i - Len(reader.buffer)]
      BY <1>1, ConcatProperties
    <3>2. /\ left \in Seq(Bytes) /\ Len(left) = Len(rest) + Len(wire)
          /\ \A i \in 1 .. Len(rest) + Len(wire) :
                left[i] = IF i <= Len(rest) THEN rest[i] ELSE wire[i - Len(rest)]
      BY <1>1, <2>3, ConcatProperties
    <3>3. Spelt(stream, at, Lines, Len(got))
      BY <2>2
    <3> HIDE DEF stream, left
    <3>4. Len(left) = Len(stream) - at /\ at \in 0 .. at /\ at - at = 0 /\ Len(rest) \in Nat
      BY <1>1, <2>2, <2>3, <3>1, <3>2
    <3>5. ASSUME NEW i \in 1 .. Len(left) PROVE left[i] = stream[at + i]
      <4> DEFINE j == at + i
      <4>1. i \in 1 .. Len(rest) + Len(wire) /\ j \in 1 .. Len(reader.buffer) + Len(wire)
        BY <1>1, <2>2, <2>3, <3>2, <3>4
      <4>2. /\ i <= Len(rest) <=> j <= Len(reader.buffer)
            /\ j - Len(reader.buffer) = i - Len(rest)
        BY <1>1, <2>2, <2>3, <4>1
      <4>3. rest[i] = reader.buffer[j] \/ ~(i <= Len(rest))
        BY <2>3, <4>1
      <4> HIDE DEF j
      <4>4. left[i] = stream[j]
        BY <3>1, <3>2, <4>1, <4>2, <4>3
      <4> QED BY <4>4 DEF j
    <3>6. Spelt(left, at - at, Lines, Len(got))
      BY <1>1, <1>2, <2>2, <3>1, <3>2, <3>3, <3>4, <3>5, SpeltAfter
    <3> QED BY <3>4, <3>6 DEF left
  <2>6. reader' \in TextReaders /\ reader'.step = "select" /\ reader'.buffer = rest
    BY <2>1, <2>3 DEF TextInv, TextReaders
  <2>7. Relayed'
    BY <1>1, <2>1 DEF Relayed
  <2>8. Spelt(reader'.buffer \o wire', LineStart', Lines, Len(got'))
    BY <2>1, <2>5, <2>6 DEF LineStart
  <2>9. TextInv'
    BY <1>4, <2>1, <2>4, <2>6, <2>7, <2>8
  <2> QED BY <2>1, <2>9 DEF LinkStep
<1>8. ASSUME TextEnd PROVE TextInv' /\ LinkStep /\ UNCHANGED given
  <2>1. /\ UNCHANGED <<given, sent, wire, got>>
        /\ reader' = [reader EXCEPT !.step = "over"]
    BY <1>8 DEF TextEnd, Turns, Ended
  <2>2. reader' \in TextReaders /\ reader'.step = "over"
    BY <2>1 DEF TextInv, TextReaders
  <2>3. Relayed'
    BY <1>1, <2>1 DEF Relayed
  <2>4. TextInv'
    BY <1>4, <2>1, <2>2, <2>3
  <2> QED BY <2>1, <2>4 DEF LinkStep
<1> QED BY <1>3, <1>5, <1>6, <1>7, <1>8 DEF TextNext

-----------------------------------------------------------------------------
(* The serialized dialog *)

SerializedReaders == [step : {"size", "payload", "over"}, buffer : Seq(Bytes), expected : Nat]

\* The frames of a serialized dialog
SizeOf(m) == LittleEndian(Len(m), PayloadSizeLen)
Sized == [k \in 1 .. Len(sent) |-> SizeOf(sent[k]) \o sent[k]]

\* A payload that is being read is the next message's: its size was read, and what
\* its bytes and those of the wire spell starts with that size.
PayloadComing ==
    LET m == sent[Len(got) + 1]
    IN  /\ Len(got) # Len(sent)
        /\ reader.expected = Len(m) /\ Len(reader.buffer) < Len(m)
        /\ Spelt((SizeOf(m) \o reader.buffer) \o wire, 0, Sized, Len(got))

SerializedInv ==
    /\ config \in Configs["VariableBinary"]
    /\ reader \in SerializedReaders
    /\ Relayed
    /\ \A k \in 1 .. Len(sent) : Len(sent[k]) \in 1 .. CONST_CONFIG.sender_max_msg_size - 1
    /\ reader.step = "size" => Spelt(wire, 0, Sized, Len(got))
    /\ reader.step = "payload" => PayloadComing

\* The size of a message is read back from its bytes.
LEMMA SizeRead ==
    ASSUME SizesReadBack, config \in Configs["VariableBinary"], NEW m, Len(m) \in Nat,
           Len(m) \in 1 .. CONST_CONFIG.sender_max_msg_size - 1
    PROVE  /\ PayloadSizeLen \in Nat
           /\ SizeOf(m) \in Seq(Bytes) /\ Len(SizeOf(m)) = PayloadSizeLen
           /\ Decode(SizeOf(m)) = Len(m)
<1>1. /\ PayloadSizeLen \in Nat
      /\ SizeOf(m) \in Seq(Bytes) /\ Decode(SizeOf(m)) = Len(m)
  BY DEF SizesReadBack, CONST_CONFIG, PayloadSizeLen, SizeOf, Bytes
<1>2. SizeOf(m) = [i \in 1 .. PayloadSizeLen |-> Shifts(Len(m), Base)[i - 1] % Base]
  BY DEF SizeOf, LittleEndian, Digits
<1>3. Len(SizeOf(m)) = PayloadSizeLen
  <2>1. DOMAIN SizeOf(m) = 1 .. PayloadSizeLen
    BY <1>2
  <2>2. DOMAIN SizeOf(m) = 1 .. Len(SizeOf(m)) /\ Len(SizeOf(m)) \in Nat
    BY <1>1
  <2> HIDE DEF SizeOf
  <2> QED BY <1>1, <2>1, <2>2
<1> QED BY <1>1, <1>3

\* The sized payloads that cross the wire are one sequence of bytes per message
\* sent.
LEMMA SizedType ==
    ASSUME SizesReadBack, SerializedInv
    PROVE  /\ Sized \in Seq(Seq(Bytes)) /\ Len(Sized) = Len(sent) /\ Len(sent) \in Nat
           /\ \A k \in 1 .. Len(sent) :
                /\ sent[k] \in Seq(Bytes) /\ Len(sent[k]) \in Nat \ {0}
                /\ SizeOf(sent[k]) \in Seq(Bytes) /\ Len(SizeOf(sent[k])) = PayloadSizeLen
                /\ Decode(SizeOf(sent[k])) = Len(sent[k]) /\ PayloadSizeLen \in Nat
                /\ Sized[k] = SizeOf(sent[k]) \o sent[k]
                /\ Len(Sized[k]) = PayloadSizeLen + Len(sent[k])
<1>1. /\ Len(sent) \in Nat
      /\ \A k \in 1 .. Len(sent) : sent[k] \in Seq(Bytes) /\ Len(sent[k]) \in Nat
  BY ElementOfSeq DEF SerializedInv, Relayed
<1>2. ASSUME NEW k \in 1 .. Len(sent)
      PROVE  /\ Len(sent[k]) \in Nat \ {0} /\ PayloadSizeLen \in Nat
             /\ SizeOf(sent[k]) \in Seq(Bytes) /\ Len(SizeOf(sent[k])) = PayloadSizeLen
             /\ Decode(SizeOf(sent[k])) = Len(sent[k])
  <2>1. Len(sent[k]) \in 1 .. CONST_CONFIG.sender_max_msg_size - 1
    BY DEF SerializedInv
  <2>2. Len(sent[k]) \in Nat \ {0}
    BY <1>1, <2>1
  <2>3. config \in Configs["VariableBinary"]
    BY DEF SerializedInv
  <2> QED BY <1>1, <2>1, <2>2, <2>3, SizeRead
<1>3. ASSUME NEW k \in 1 .. Len(sent)
      PROVE  /\ SizeOf(sent[k]) \o sent[k] \in Seq(Bytes)
             /\ Len(SizeOf(sent[k]) \o sent[k]) = PayloadSizeLen + Len(sent[k])
  <2> DEFINE size == SizeOf(sent[k])
             m == sent[k]
  <2>1. size \in Seq(Bytes) /\ Len(size) = PayloadSizeLen /\ m \in Seq(Bytes)
    BY <1>1, <1>2
  <2> HIDE DEF size, m
  <2>2. size \o m \in Seq(Bytes) /\ Len(size \o m) = PayloadSizeLen + Len(m)
    BY <2>1, ConcatProperties
  <2> QED BY <2>2 DEF size, m
<1>4. Sized \in [1 .. Len(sent) -> Seq(Bytes)]
  BY <1>3 DEF Sized
<1>5. Sized \in Seq(Seq(Bytes)) /\ Len(Sized) = Len(sent)
  BY <1>1, <1>4
<1> QED BY <1>1, <1>2, <1>3, <1>5 DEF Sized

\* A fresh pair of serialized ends meets its invariant.
LEMMA SerializedStart ==
    ASSUME Init, form = "VariableBinary", SizesReadBack PROVE SerializedInv
<1>1. SerializedInit /\ Silent /\ config \in Configs["VariableBinary"]
  BY DEF Init
<1>2. /\ <<>> \in Seq(Bytes) /\ <<>> \in Seq(Seq(Bytes)) /\ Len(<<>>) = 0
  BY EmptySeq
<1>3. reader \in SerializedReaders /\ reader.step = "size"
  BY <1>1, <1>2 DEF SerializedInit, SerializedReaders, WaitingForPayloadSize
<1>4. Relayed
  BY <1>1, <1>2 DEF Relayed, Silent
<1>5. Sized = <<>>
  <2>1. 1 .. Len(sent) = {}
    BY <1>1, <1>2 DEF Silent
  <2>2. Sized \in [1 .. Len(sent) -> Seq(Bytes)]
    BY <2>1 DEF Sized
  <2>3. Sized \in Seq(Seq(Bytes)) /\ Len(Sized) = 0
    BY <1>1, <1>2, <2>2 DEF Silent
  <2> QED BY <2>3, EmptySeq
<1>6. Spelt(wire, 0, Sized, Len(got))
  BY <1>1, <1>2, <1>5, NothingSpelt DEF Silent
<1>7. \A k \in 1 .. Len(sent) : FALSE
  BY <1>1, <1>2 DEF Silent
<1> QED BY <1>1, <1>3, <1>4, <1>6, <1>7 DEF SerializedInv

\* Each step of the serialized dialog preserves its invariant, and is one of the link,
\* as long as no read cuts a size.
LEMMA SerializedStep ==
    ASSUME SizesReadBack, SizeAtOnce, SerializedInv, SerializedNext
    PROVE  SerializedInv' /\ LinkStep /\ UNCHANGED given
<1> DEFINE n == Len(got)
           next == sent[n + 1]
           payload == reader.buffer
<1>1. /\ Relayed /\ payload \in Seq(Bytes) /\ Len(payload) \in Nat
      /\ reader.step \in {"size", "payload", "over"} /\ reader.expected \in Nat
      /\ config \in Configs["VariableBinary"]
  BY DEF SerializedInv, SerializedReaders
<1>2. /\ wire \in Seq(Bytes) /\ got \in Seq(Seq(Bytes)) /\ sent \in Seq(Seq(Bytes))
      /\ n \in 0 .. Len(sent) /\ n \in Nat /\ Len(wire) \in Nat
  BY <1>1 DEF Relayed
<1>3. /\ Sized \in Seq(Seq(Bytes)) /\ Len(Sized) = Len(sent) /\ Len(sent) \in Nat
      /\ \A k \in 1 .. Len(sent) :
            /\ sent[k] \in Seq(Bytes) /\ Len(sent[k]) \in Nat \ {0}
            /\ SizeOf(sent[k]) \in Seq(Bytes) /\ Len(SizeOf(sent[k])) = PayloadSizeLen
            /\ Decode(SizeOf(sent[k])) = Len(sent[k]) /\ PayloadSizeLen \in Nat
            /\ Sized[k] = SizeOf(sent[k]) \o sent[k]
            /\ Len(Sized[k]) = PayloadSizeLen + Len(sent[k])
  BY SizedType
<1>4. ASSUME n # Len(sent)
      PROVE  /\ n + 1 \in 1 .. Len(sent) /\ next \in Seq(Bytes) /\ Len(next) \in Nat \ {0}
             /\ SizeOf(next) \in Seq(Bytes) /\ Len(SizeOf(next)) = PayloadSizeLen
             /\ Decode(SizeOf(next)) = Len(next) /\ PayloadSizeLen \in Nat
             /\ Sized[n + 1] = SizeOf(next) \o next
             /\ Len(Sized[n + 1]) = PayloadSizeLen + Len(next)
  <2>1. n + 1 \in 1 .. Len(sent)
    BY <1>2, <1>3, <1>4
  <2> HIDE DEF n
  <2> QED BY <1>3, <2>1
\* What does not change with the configuration
<1>5. ASSUME UNCHANGED given
      PROVE  /\ SerializedReaders' = SerializedReaders /\ CONST_CONFIG' = CONST_CONFIG
             /\ \A m : SizeOf(m)' = SizeOf(m)
             /\ PayloadSizeLen' = PayloadSizeLen
  <2>1. CONST_CONFIG' = CONST_CONFIG
    BY <1>5 DEF given, CONST_CONFIG
  <2>2. PayloadSizeLen' = PayloadSizeLen
    BY <2>1 DEF PayloadSizeLen
  <2> QED BY <2>1, <2>2 DEF SerializedReaders, Bytes, SizeOf, LittleEndian
<1>6. ASSUME SerializedSend PROVE SerializedInv' /\ LinkStep /\ UNCHANGED given
  <2>1. PICK m \in Payloads :
            /\ Len(m) \in 1 .. CONST_CONFIG.sender_max_msg_size - 1
            /\ Writes(m, SizeOf(m) \o m)
    BY <1>6 DEF SerializedSend, SizeOf
  <2>2. m \in Seq(Bytes) /\ Len(m) \in Nat
    BY WireAssumption DEF WireAssumption, Bytes
  <2>3. SizeOf(m) \in Seq(Bytes)
    BY <1>1, <2>1, <2>2, SizeRead
  <2> DEFINE size == SizeOf(m)
             frame == size \o m
  <2>4. frame \in Seq(Bytes)
    <3>1. size \in Seq(Bytes)
      BY <2>3
    <3> HIDE DEF size
    <3> QED BY <2>2, <3>1, ConcatProperties
  <2>5. /\ Relayed' /\ UNCHANGED <<given, reader, got>>
        /\ sent' = Append(sent, m) /\ wire' = wire \o frame
    <3>1. Writes(m, frame)
      BY <2>1
    <3> HIDE DEF frame
    <3> QED BY <1>1, <2>4, <3>1, SentRelayed
  <2>6. /\ Len(sent') = Len(sent) + 1 /\ sent' \in Seq(Seq(Bytes))
        /\ \A k \in 1 .. Len(sent) : sent'[k] = sent[k]
        /\ sent'[Len(sent) + 1] = m
    BY <1>2, <2>2, <2>5, AppendProperties
  <2>7. \A k \in 1 .. Len(sent') : Len(sent'[k]) \in 1 .. CONST_CONFIG.sender_max_msg_size - 1
    <3> SUFFICES ASSUME NEW k \in 1 .. Len(sent')
                 PROVE  Len(sent'[k]) \in 1 .. CONST_CONFIG.sender_max_msg_size - 1
      OBVIOUS
    <3>1. CASE k = Len(sent) + 1
      <4>1. sent'[k] = m
        BY <2>6, <3>1
      <4> QED BY <2>1, <4>1
    <3>2. CASE k \in 1 .. Len(sent)
      <4>1. sent'[k] = sent[k]
        BY <2>6, <3>2
      <4>2. Len(sent[k]) \in 1 .. CONST_CONFIG.sender_max_msg_size - 1
        BY <3>2 DEF SerializedInv
      <4> QED BY <4>1, <4>2
    <3>3. k = Len(sent) + 1 \/ k \in 1 .. Len(sent)
      BY <1>3, <2>6
    <3> QED BY <3>1, <3>2, <3>3, Zenon
  <2>8. Sized' = Append(Sized, frame)
    <3>1. Sized' = [k \in 1 .. Len(sent) + 1 |-> SizeOf(sent'[k]) \o sent'[k]]
      BY <1>5, <2>5, <2>6 DEF Sized
    <3>2. /\ Append(Sized, frame) \in Seq(Seq(Bytes)) /\ Len(Append(Sized, frame)) = Len(sent) + 1
          /\ \A k \in 1 .. Len(sent) : Append(Sized, frame)[k] = Sized[k]
          /\ Append(Sized, frame)[Len(sent) + 1] = frame
      <4> HIDE DEF frame
      <4> QED BY <1>3, <2>4, AppendProperties
    <3>3. ASSUME NEW k \in 1 .. Len(sent) + 1 PROVE Sized'[k] = Append(Sized, frame)[k]
      <4>1. Sized'[k] = SizeOf(sent'[k]) \o sent'[k]
        BY <3>1
      <4>2. CASE k \in 1 .. Len(sent)
        <5>1. Sized[k] = SizeOf(sent[k]) \o sent[k] /\ sent'[k] = sent[k]
          BY <2>6, <4>2 DEF Sized
        <5>2. Append(Sized, frame)[k] = Sized[k]
          BY <3>2, <4>2
        <5> QED BY <4>1, <5>1, <5>2, Zenon
      <4>3. CASE k = Len(sent) + 1
        <5>1. sent'[k] = m
          BY <2>6, <4>3
        <5>2. Append(Sized, frame)[k] = frame
          BY <3>2, <4>3
        <5> QED BY <4>1, <5>1, <5>2, Zenon
      <4>4. k \in 1 .. Len(sent) \/ k = Len(sent) + 1
        BY <1>3
      <4> QED BY <4>2, <4>3, <4>4, Zenon
    <3>4. ASSUME NEW k \in 1 .. Len(sent) + 1 PROVE Append(Sized, frame)[k] \in Seq(Bytes)
      <4>1. k \in 1 .. Len(Append(Sized, frame))
        BY <3>2
      <4> QED BY <3>2, <4>1, ElementOfSeq
    <3>5. Sized' \in Seq(Seq(Bytes)) /\ Len(Sized') = Len(sent) + 1
      <4>1. DOMAIN Sized' = 1 .. Len(sent) + 1 /\ \A k \in 1 .. Len(sent) + 1 : Sized'[k] \in Seq(Bytes)
        BY <3>1, <3>3, <3>4
      <4>2. Sized' \in [1 .. Len(sent) + 1 -> Seq(Bytes)]
        BY <3>1, <4>1
      <4>3. Len(sent) + 1 \in Nat
        BY <1>3
      <4> QED BY <4>2, <4>3
    <3> QED BY <3>2, <3>3, <3>5, SeqEqual
  <2> HIDE DEF frame
  <2>9. ASSUME reader.step = "size" PROVE Spelt(wire', 0, Sized', Len(got'))
    <3>1. Spelt(wire, 0, Sized, n)
      BY <2>9 DEF SerializedInv
    <3>2. Spelt(wire \o frame, 0, Append(Sized, frame), n)
      BY <1>2, <1>3, <2>4, <3>1, FrameWritten
    <3> QED BY <2>5, <2>8, <3>2
  <2>10. ASSUME reader.step = "payload"
         PROVE  PayloadComing'
    <3>1. /\ n # Len(sent) /\ reader.expected = Len(next) /\ Len(payload) < Len(next)
          /\ Spelt((SizeOf(next) \o payload) \o wire, 0, Sized, n)
      BY <2>10 DEF SerializedInv, PayloadComing
    <3>2. n + 1 \in 1 .. Len(sent) /\ SizeOf(next) \in Seq(Bytes)
      BY <1>4, <3>1
    <3>3. sent'[Len(got') + 1] = next /\ Len(got') # Len(sent')
      BY <1>2, <1>3, <2>5, <2>6, <3>2
    <3> DEFINE head == SizeOf(next) \o payload
    <3>4. head \in Seq(Bytes)
      <4> DEFINE a == SizeOf(next)
                 b == payload
      <4>1. a \in Seq(Bytes) /\ b \in Seq(Bytes)
        BY <1>1, <3>2
      <4> HIDE DEF a, b
      <4>2. a \o b \in Seq(Bytes)
        BY <4>1, ConcatProperties
      <4> QED BY <4>2 DEF a, b
    <3>5. Spelt(head \o wire, 0, Sized, n)
      BY <3>1
    <3> HIDE DEF head
    <3>6. head \o wire \in Seq(Bytes)
      BY <1>2, <3>4, ConcatProperties
    <3>7. Spelt((head \o wire) \o frame, 0, Append(Sized, frame), n)
      BY <1>2, <1>3, <2>4, <3>5, <3>6, FrameWritten
    <3>8. (head \o wire) \o frame = head \o (wire \o frame)
      BY <1>2, <2>4, <3>4, ConcatAssociative, SMTT(25)
    <3>9. SizeOf(sent[Len(got) + 1])' = SizeOf(next)
      BY <1>5, <2>5, <3>3 DEF SizeOf, LittleEndian
    <3>10. Spelt(head \o wire', 0, Sized', Len(got'))
      BY <2>5, <2>8, <3>7, <3>8
    <3>11. /\ (SizeOf(sent[Len(got) + 1])' \o reader'.buffer) \o wire' = head \o wire'
           /\ reader'.expected = Len(next) /\ Len(reader'.buffer) < Len(next)
      BY <2>5, <3>1, <3>9 DEF head
    <3> HIDE DEF next, n
    <3> QED BY <3>3, <3>10, <3>11 DEF PayloadComing
  <2>11. SerializedInv'
    BY <1>1, <1>5, <2>5, <2>7, <2>9, <2>10 DEF SerializedInv, given
  <2>12. LinkStep
    BY <2>5 DEF LinkStep, Link!Next, Link!Send
  <2> QED BY <2>5, <2>11, <2>12
\* Nothing is sent by the other steps: what is left is to spell the same frames
<1>7. ASSUME UNCHANGED <<given, sent>>, reader' \in SerializedReaders, Relayed',
             reader'.step = "size" => Spelt(wire', 0, Sized, Len(got')),
             reader'.step = "payload" => PayloadComing'
      PROVE  SerializedInv'
  <2>1. Sized' = Sized
    BY <1>5, <1>7 DEF Sized
  <2>2. \A k \in 1 .. Len(sent') : Len(sent'[k]) \in 1 .. CONST_CONFIG'.sender_max_msg_size - 1
    BY <1>5, <1>7 DEF SerializedInv
  <2>3. SerializedReaders' = SerializedReaders /\ config' = config
    BY <1>5, <1>7 DEF given
  <2> QED BY <1>1, <1>7, <2>1, <2>2, <2>3 DEF SerializedInv
<1>8. ASSUME UNCHANGED <<given, sent, got>>, n # Len(sent), reader'.expected = Len(next),
             Len(reader'.buffer) < Len(next),
             Spelt((SizeOf(next) \o reader'.buffer) \o wire', 0, Sized, n)
      PROVE  PayloadComing'
  <2>1. Sized' = Sized
    BY <1>5, <1>8 DEF Sized
  <2>2. SizeOf(sent[Len(got) + 1])' = SizeOf(next)
    BY <1>5, <1>8 DEF SizeOf, LittleEndian
  <2>3. sent'[Len(got') + 1] = next /\ Len(got') = n
    BY <1>8
  <2> QED BY <1>8, <2>1, <2>2, <2>3 DEF PayloadComing
<1>9. ASSUME SerializedReadSize PROVE SerializedInv' /\ LinkStep /\ UNCHANGED given
  <2>1. reader.step = "size" /\ UNCHANGED got
    BY <1>9 DEF SerializedReadSize
  <2>2. PICK bytes \in Pieces(PayloadSizeLen) :
            /\ Len(bytes) = PayloadSizeLen
            /\ Reads(bytes, [step |-> "payload", buffer |-> <<>>, expected |-> Decode(bytes)])
    BY <1>9, SizeAtOnce DEF SerializedReadSize
  <2>3. UNCHANGED <<given, sent>>
        /\ reader' = [step |-> "payload", buffer |-> <<>>, expected |-> Decode(bytes)]
    BY <2>2 DEF Reads
  <2>4. Spelt(wire, 0, Sized, n)
    BY <2>1 DEF SerializedInv
  <2>5. PICK k \in 1 .. IF PayloadSizeLen < Len(wire) THEN PayloadSizeLen ELSE Len(wire) :
            bytes = SubSeq(wire, 1, k)
    BY <2>2 DEF Pieces
  <2>6. Len(wire) # 0
    <3>1. PayloadSizeLen \in Nat
      BY <1>1 DEF SizesReadBack, PayloadSizeLen, CONST_CONFIG
    <3> QED BY <1>2, <2>5, <3>1
  <2>7. n # Len(sent)
    BY <1>2, <1>3, <2>4, <2>6, SpeltOut
  <2>8. /\ n + 1 \in 1 .. Len(sent) /\ next \in Seq(Bytes) /\ Len(next) \in Nat \ {0}
        /\ SizeOf(next) \in Seq(Bytes) /\ Len(SizeOf(next)) = PayloadSizeLen
        /\ Decode(SizeOf(next)) = Len(next) /\ PayloadSizeLen \in Nat
        /\ Sized[n + 1] = SizeOf(next) \o next
        /\ Len(Sized[n + 1]) = PayloadSizeLen + Len(next)
    BY <1>4, <2>7
  <2>9. /\ bytes \in Seq(Bytes) /\ wire' \in Seq(Bytes) /\ Len(bytes) \in 1 .. PayloadSizeLen
        /\ bytes \o wire' = wire
    BY <1>2, <2>2, <2>8, PieceRead
  <2>10. \A i \in 1 .. Len(Sized[n + 1]) : wire[0 + i] = Sized[n + 1][i]
    <3>1. /\ Sized \in Seq(Seq(Bytes)) /\ n \in 0 .. Len(Sized) /\ n # Len(Sized)
          /\ Spelt(wire, 0, Sized, n) /\ wire \in Seq(Bytes) /\ 0 \in Nat
      BY <1>2, <1>3, <2>4, <2>7
    <3> HIDE DEF n
    <3> QED BY <3>1, FrameFound
  <2> DEFINE size == SizeOf(next)
             m == next
  <2>11. /\ size \in Seq(Bytes) /\ m \in Seq(Bytes) /\ Len(size) = PayloadSizeLen
         /\ Sized[n + 1] = size \o m /\ Len(m) \in Nat \ {0} /\ Decode(size) = Len(m)
    BY <2>8
  <2>12. n \in Nat /\ n + 1 \in 1 .. Len(sent)
    BY <1>2, <2>8
  <2> HIDE DEF size, m, n
  <2>13. ASSUME NEW i \in 1 .. Len(bytes) PROVE bytes[i] = size[i]
    <3>1. i \in 1 .. PayloadSizeLen + Len(m) /\ i <= PayloadSizeLen /\ 0 + i = i
          /\ i \in 1 .. Len(bytes) + Len(wire') /\ i <= Len(bytes)
      BY <2>2, <2>8, <2>9, <2>11
    <3>2. (size \o m)[i] = size[i]
      BY <2>11, <3>1, ConcatProperties
    <3>3. (bytes \o wire')[i] = bytes[i]
      BY <2>9, <3>1, ConcatProperties
    <3>4. wire[i] = (size \o m)[i]
      <4>1. i \in 1 .. Len(Sized[n + 1])
        BY <2>8, <3>1 DEF m
      <4>2. wire[0 + i] = Sized[n + 1][i]
        BY <2>10, <4>1
      <4> QED BY <2>11, <3>1, <4>2
    <3> QED BY <2>9, <3>2, <3>3, <3>4
  <2>14. bytes = size
    BY <2>2, <2>9, <2>11, <2>13, SeqEqual
  <2>15. reader'.expected = Len(m) /\ reader'.buffer = <<>> /\ reader'.step = "payload"
    BY <2>3, <2>11, <2>14
  <2>16. size \o <<>> = size /\ Len(<<>>) = 0 /\ <<>> \in Seq(Bytes)
    BY <2>11, ConcatEmptySeq, EmptySeq
  <2>17. Spelt((size \o <<>>) \o wire', 0, Sized, n)
    BY <2>4, <2>9, <2>14, <2>16
  <2>18. PayloadComing'
    <3>1. n # Len(sent) /\ Len(reader'.buffer) < Len(next)
          /\ reader'.expected = Len(next)
      BY <2>7, <2>11, <2>15, <2>16 DEF m
    <3>2. Spelt((SizeOf(next) \o reader'.buffer) \o wire', 0, Sized, n)
      BY <2>15, <2>17 DEF size
    <3> QED BY <1>8, <2>1, <2>3, <3>1, <3>2 DEF n
  <2>19. reader' \in SerializedReaders
    BY <2>3, <2>11, <2>15, <2>16 DEF SerializedReaders
  <2>20. Relayed'
    BY <1>1, <2>1, <2>3, <2>9 DEF Relayed
  <2>21. SerializedInv'
    BY <1>7, <2>3, <2>15, <2>18, <2>19, <2>20
  <2> QED BY <2>1, <2>3, <2>21 DEF LinkStep
<1>10. ASSUME SerializedReadPayload PROVE SerializedInv' /\ LinkStep /\ UNCHANGED given
  <2>1. reader.step = "payload"
    BY <1>10 DEF SerializedReadPayload
  <2> DEFINE room == reader.expected - Len(payload)
  <2>2. PICK piece \in Pieces(room) :
            LET buffer == payload \o piece
            IN  IF Len(buffer) = reader.expected
                THEN Reads(piece, WaitingForPayloadSize) /\ Relays(buffer)
                ELSE Reads(piece, [reader EXCEPT !.buffer = buffer]) /\ UNCHANGED got
    BY <1>10 DEF SerializedReadPayload
  <2>3. /\ n # Len(sent) /\ reader.expected = Len(next) /\ Len(payload) < Len(next)
        /\ Spelt((SizeOf(next) \o payload) \o wire, 0, Sized, n)
    BY <2>1 DEF SerializedInv, PayloadComing
  <2>4. /\ n + 1 \in 1 .. Len(sent) /\ next \in Seq(Bytes) /\ Len(next) \in Nat \ {0}
        /\ SizeOf(next) \in Seq(Bytes) /\ Len(SizeOf(next)) = PayloadSizeLen
        /\ PayloadSizeLen \in Nat
        /\ Sized[n + 1] = SizeOf(next) \o next
        /\ Len(Sized[n + 1]) = PayloadSizeLen + Len(next)
    BY <1>4, <2>3
  <2>5. PICK r : Reads(piece, r)
    BY <2>2
  <2>6. UNCHANGED <<given, sent>>
    BY <2>5 DEF Reads
  <2>7. room \in Nat
    BY <1>1, <2>3
  <2> HIDE DEF room
  <2>8. /\ piece \in Seq(Bytes) /\ wire' \in Seq(Bytes) /\ Len(piece) \in 1 .. room
        /\ piece \o wire' = wire
    BY <1>2, <2>5, <2>7, PieceRead
  <2> DEFINE size == SizeOf(next)
             m == next
             b == payload
             left == wire'
             buffer == b \o piece
             head == size \o buffer
  <2>9. /\ size \in Seq(Bytes) /\ m \in Seq(Bytes) /\ b \in Seq(Bytes) /\ left \in Seq(Bytes)
        /\ Len(size) = PayloadSizeLen /\ Sized[n + 1] = size \o m /\ Len(m) \in Nat
        /\ Spelt((size \o b) \o wire, 0, Sized, n) /\ piece \o left = wire
        /\ reader.expected = Len(m) /\ Len(b) \in Nat /\ Len(b) < Len(m)
    BY <1>1, <2>3, <2>4, <2>8
  <2>10. piece \in Seq(Bytes) /\ Len(piece) \in 1 .. Len(m) - Len(b)
    BY <2>8, <2>9 DEF room
  <2>11. IF Len(buffer) = reader.expected
         THEN reader' = WaitingForPayloadSize /\ Relays(buffer)
         ELSE reader' = [reader EXCEPT !.buffer = buffer] /\ UNCHANGED got
    BY <2>2 DEF Reads
  <2> HIDE DEF size, m, b, left
  <2>12. /\ buffer \in Seq(Bytes) /\ Len(buffer) = Len(b) + Len(piece) /\ Len(buffer) <= Len(m)
         /\ Len(buffer) \in Nat
    BY <2>9, <2>10, ConcatProperties
  <2>13. head \o left = (size \o b) \o wire
    <3>1. (size \o b) \o (piece \o left) = ((size \o b) \o piece) \o left
      <4>1. size \o b \in Seq(Bytes)
        BY <2>9, ConcatProperties
      <4> DEFINE a == size \o b
      <4>2. a \in Seq(Bytes)
        BY <4>1
      <4> HIDE DEF a
      <4>3. a \in Seq(Bytes) /\ piece \in Seq(Bytes) /\ left \in Seq(Bytes)
        BY <2>9, <2>10, <4>2
      <4>4. (a \o piece) \o left = a \o (piece \o left)
        BY <4>3, ConcatAssociative
      <4> QED BY <4>4 DEF a
    <3>2. (size \o b) \o piece = size \o (b \o piece)
      <4>1. size \in Seq(Bytes) /\ b \in Seq(Bytes) /\ piece \in Seq(Bytes)
        BY <2>9, <2>10
      <4> QED BY <4>1, ConcatAssociative
    <3> QED BY <2>9, <3>1, <3>2
  <2> HIDE DEF buffer
  <2>14. head \in Seq(Bytes) /\ Len(head) = PayloadSizeLen + Len(buffer)
    BY <2>9, <2>12, ConcatProperties
  <2>15. Spelt(head \o left, 0, Sized, n)
    BY <2>9, <2>13
  <2>16. CASE Len(buffer) = Len(m)
    <3>1. reader' = WaitingForPayloadSize /\ Relays(buffer)
      BY <2>9, <2>11, <2>16
    <3>2. head = Sized[n + 1] /\ Spelt(left, 0, Sized, n + 1)
      <4>1. Len(head) = Len(Sized[n + 1])
        BY <2>4, <2>14, <2>16 DEF m
      <4>2. n # Len(Sized) /\ n \in 0 .. Len(Sized) /\ Sized \in Seq(Seq(Bytes))
        BY <1>2, <1>3, <2>3
      <4> HIDE DEF n, head
      <4> QED BY <2>9, <2>14, <2>15, <4>1, <4>2, FrameRead
    <3>3. buffer = m
      <4>1. size \o buffer = size \o m
        BY <2>9, <3>2
      <4> QED BY <2>9, <2>12, <4>1, ConcatSimplifications
    <3>4. Relays(sent[Len(got) + 1])
      BY <3>1, <3>3 DEF m
    <3>5. Relayed' /\ Len(got') = n + 1
      BY <1>1, <2>3, <2>6, <2>8, <3>4, NextRelayed
    <3>6. reader' \in SerializedReaders /\ reader'.step = "size"
      BY <3>1, EmptySeq DEF WaitingForPayloadSize, SerializedReaders
    <3>7. Spelt(wire', 0, Sized, Len(got'))
      BY <3>2, <3>5 DEF left
    <3>8. SerializedInv'
      BY <1>7, <2>6, <3>5, <3>6, <3>7
    <3>9. LinkStep
      BY <1>2, <2>3, <2>6, <3>4 DEF LinkStep, Link!Next, Link!Deliver, Relays
    <3> QED BY <2>6, <3>8, <3>9
  <2>17. CASE Len(buffer) # Len(m)
    <3>1. reader' = [reader EXCEPT !.buffer = buffer] /\ UNCHANGED got
      BY <2>9, <2>11, <2>17
    <3>2. /\ reader' \in SerializedReaders /\ reader'.step = "payload"
          /\ reader'.buffer = buffer /\ reader'.expected = Len(m)
      BY <2>1, <2>9, <2>12, <3>1 DEF SerializedInv, SerializedReaders
    <3>3. Len(buffer) < Len(m)
      BY <2>9, <2>12, <2>17
    <3>4. PayloadComing'
      <4>1. Spelt((SizeOf(next) \o reader'.buffer) \o wire', 0, Sized, n)
        BY <2>15, <3>2 DEF size, left
      <4>2. reader'.expected = Len(next) /\ Len(reader'.buffer) < Len(next)
        BY <3>2, <3>3 DEF m
      <4> QED BY <1>8, <2>3, <2>6, <3>1, <4>1, <4>2
    <3>5. Relayed'
      BY <1>1, <2>6, <2>8, <3>1 DEF Relayed
    <3>6. SerializedInv'
      BY <1>7, <2>6, <3>2, <3>4, <3>5
    <3> QED BY <2>6, <3>1, <3>6 DEF LinkStep
  <2> QED BY <2>16, <2>17
<1>11. ASSUME SerializedEnd PROVE SerializedInv' /\ LinkStep /\ UNCHANGED given
  <2>1. /\ UNCHANGED <<given, sent, wire, got>>
        /\ reader' = [reader EXCEPT !.step = "over"]
    BY <1>11 DEF SerializedEnd, Turns, Ended
  <2>2. reader' \in SerializedReaders /\ reader'.step = "over"
    BY <2>1 DEF SerializedInv, SerializedReaders
  <2>3. Relayed'
    BY <1>1, <2>1 DEF Relayed
  <2>4. SerializedInv'
    BY <1>7, <2>1, <2>2, <2>3
  <2> QED BY <2>1, <2>4 DEF LinkStep
<1> QED BY <1>6, <1>9, <1>10, <1>11 DEF SerializedNext

-----------------------------------------------------------------------------
(* Any of them *)

IInv ==
    /\ form \in {"Textual", "VariableBinary", "MmapBinary"}
    /\ form = "Textual" => TextInv
    /\ form = "MmapBinary" => MmapInv

\* A step that leaves the wire and both ends alone keeps every invariant and is
\* a stutter of the abstract link.
LEMMA Stutters ==
    ASSUME UNCHANGED wireVars
    PROVE  /\ LinkStep /\ UNCHANGED given
           /\ TextInv => TextInv'
           /\ MmapInv => MmapInv'
           /\ SerializedInv => SerializedInv'
<1>1. UNCHANGED <<given, sent, wire, reader, got>> /\ UNCHANGED <<form, config>>
  BY DEF wireVars, given
<1>2. LinkStep
  BY <1>1 DEF LinkStep
<1>3. CONST_CONFIG' = CONST_CONFIG
  BY <1>1 DEF CONST_CONFIG
<1>4. Relayed => Relayed'
  BY <1>1 DEF Relayed, Bytes
<1>5. TextInv => TextInv'
  <2>1. TextReaders' = TextReaders /\ Lines' = Lines /\ LineStart' = LineStart /\ EOL' = EOL
    BY <1>1 DEF TextReaders, Bytes, Lines, LineStart, EOL
  <2> QED BY <1>1, <1>4, <2>1 DEF TextInv
<1>6. MmapInv => MmapInv'
  <2>1. ASSUME MmapInv PROVE reader' \in MmapReaders' /\ Accounted(reader, got)'
    BY <1>1, <2>1, SlotsFixed DEF MmapInv
  <2>2. Held' = Held
    BY <1>1 DEF Held
  <2> QED BY <1>1, <1>4, <2>1, <2>2 DEF MmapInv
<1>7. SerializedInv => SerializedInv'
  <2>1. PayloadSizeLen' = PayloadSizeLen
    BY <1>3 DEF PayloadSizeLen
  <2>2. Sized' = Sized
    BY <1>1, <2>1 DEF Sized, SizeOf, LittleEndian
  <2>3. SizeOf(sent[Len(got) + 1])' = SizeOf(sent[Len(got) + 1])
    BY <1>1, <2>1 DEF SizeOf, LittleEndian
  <2>4. PayloadComing => PayloadComing'
    BY <1>1, <2>2, <2>3 DEF PayloadComing
  <2>5. SerializedReaders' = SerializedReaders
    BY DEF SerializedReaders, Bytes
  <2> QED BY <1>1, <1>3, <1>4, <2>2, <2>4, <2>5 DEF SerializedInv
<1> QED BY <1>1, <1>2, <1>5, <1>6, <1>7

\* Each step keeps the message form, and the serialized dialog's invariant is the only
\* one that hangs on the sizes.
LEMMA Steps ==
    ASSUME IInv, [Next]_wireVars
    PROVE  /\ IInv' /\ UNCHANGED <<form, config>>
           /\ form # "VariableBinary" => LinkStep
           /\ SizesReadBack /\ SizeAtOnce /\ (form = "VariableBinary" => SerializedInv) =>
                LinkStep /\ (form = "VariableBinary" => SerializedInv')
<1>1. CASE UNCHANGED wireVars
  BY <1>1, Stutters DEF IInv, given
<1>2. CASE Textual
  <2>1. TextInv' /\ LinkStep /\ UNCHANGED given
    BY <1>2, TextStep DEF IInv, Textual
  <2> QED BY <1>2, <2>1 DEF IInv, given, Textual
<1>3. CASE Mmap
  <2>1. MmapInv' /\ LinkStep /\ UNCHANGED given
    BY <1>3, MmapStep DEF IInv, Mmap
  <2> QED BY <1>3, <2>1 DEF IInv, given, Mmap
<1>4. CASE Serialized
  <2>1. UNCHANGED given
    BY <1>4 DEF Serialized, SerializedNext, SerializedSend, SerializedReadSize,
                SerializedReadPayload, SerializedEnd, Writes, Reads, Turns
  <2>2. ASSUME SizesReadBack, SizeAtOnce, SerializedInv PROVE SerializedInv' /\ LinkStep
    BY <1>4, <2>2, SerializedStep DEF Serialized
  <2> QED BY <1>4, <2>1, <2>2 DEF IInv, given, Serialized
<1> QED BY <1>1, <1>2, <1>3, <1>4 DEF Next, Over

\* Whatever the framing, the first state meets its invariant and starts the link.
LEMMA Starts ==
    ASSUME Init
    PROVE  /\ IInv /\ Link!Init
           /\ SizesReadBack => (form = "VariableBinary" => SerializedInv)
<1>1. form \in {"Textual", "VariableBinary", "MmapBinary"}
  BY FramingsAssumption DEF Init, FramingsAssumption
<1>2. IInv
  BY <1>1, TextStart, MmapStart DEF IInv
<1>3. Link!Init
  BY DEF Init, Silent, Link!Init
<1> QED BY <1>2, <1>3, SerializedStart

\* The message form is one of the three, and its dialog's invariant holds.
THEOREM Invariance == Spec => []IInv
<1>1. Init => IInv
  BY Starts
<1>2. IInv /\ [Next]_wireVars => IInv'
  BY Steps
<1> QED BY <1>1, <1>2, PTL DEF Spec

\* Each slot of the mmap dialog's channel is free, or the one being read into, or holds
\* a published message that the processor did not consume, whatever the size of the
\* channel and the strategy when it is full; and what a refused dialog cancels on its way
\* out, should the channel free it, is its last message only, with its bytes
\* (mmap_binary_dialog.rs).
THEOREM SlotsNeverLost == Spec => []SlotsAccounted
<1>1. IInv => SlotsAccounted
  <2>1. CASE form = "MmapBinary"
    BY <2>1, AccountedSlots DEF IInv, MmapInv
  <2>2. CASE form # "MmapBinary"
    BY <2>2 DEF SlotsAccounted
  <2> QED BY <2>1, <2>2
<1> QED BY <1>1, Invariance, PTL

\* The textual and the mmap dialogs implement the link: whatever the pieces their bytes
\* come in, messages are relayed whole, in order and one by one.
THEOREM LinesAndSlotsFramed == Spec /\ form # "VariableBinary" => Framed
<1> DEFINE Whole == form # "VariableBinary"
<1>1. Init => Link!Init
  BY Starts
<1>2. IInv /\ Whole /\ [Next]_wireVars => Whole' /\ [Link!Next]_<<sent, got>>
  BY Steps DEF LinkStep
<1> HIDE DEF Whole
<1>3. Spec /\ Whole => Framed
  BY <1>1, <1>2, Invariance, PTL DEF Spec, Framed, Link!Spec
<1> QED BY <1>3 DEF Whole

\* What was relayed is what was sent, once there are as many.
LEMMA AllRelayed ==
    ASSUME Relayed, Len(got) = Len(sent) PROVE got = sent
<1>1. \A k \in 1 .. Len(got) : got[k] = sent[k]
  BY DEF Relayed
<1> QED BY <1>1, SeqEqual DEF Relayed

\* A textual dialog that waits with nothing on the wire relayed all the lines.
LEMMA NoLineHeldBack ==
    ASSUME TextInv, wire = <<>>, reader.step = "select" PROVE got = sent
<1> DEFINE n == Len(got)
           buffer == reader.buffer
<1>1. /\ Relayed /\ buffer \in Seq(Bytes) /\ wire \in Seq(Bytes) /\ n \in 0 .. Len(sent)
      /\ Spelt(buffer \o wire, 0, Lines, n) /\ Len(buffer) \in Nat
      /\ \A i \in 1 .. Len(buffer) : buffer[i] # EOL
  BY DEF TextInv, TextReaders, Relayed, LineStart
<1>2. /\ Lines \in Seq(Seq(Bytes)) /\ Len(Lines) = Len(sent)
      /\ \A k \in 1 .. Len(sent) :
            /\ Len(sent[k]) \in Nat /\ Len(Lines[k]) = Len(sent[k]) + 1
            /\ Lines[k][Len(sent[k]) + 1] = EOL
  BY <1>1, LinesType
<1> HIDE DEF buffer
<1>3. Spelt(buffer, 0, Lines, n)
  BY <1>1, ConcatEmptySeq
<1>4. ASSUME n # Len(sent) PROVE FALSE
  <2>1. n + 1 \in 1 .. Len(sent) /\ n \in 0 .. Len(Lines) /\ n # Len(Lines)
    BY <1>1, <1>2, <1>4
  <2> DEFINE last == Len(sent[n + 1]) + 1
  <2>2. Len(Lines[n + 1]) = last /\ Lines[n + 1][last] = EOL /\ last \in 1 .. last /\ last \in Nat
    BY <1>2, <2>1
  <2> HIDE DEF n, last
  <2>3. /\ 0 + Len(Lines[n + 1]) <= Len(buffer)
        /\ \A j \in 1 .. Len(Lines[n + 1]) : buffer[0 + j] = Lines[n + 1][j]
    BY <1>1, <1>2, <1>3, <2>1, FrameFound
  <2>4. last \in 1 .. Len(buffer) /\ 0 + last = last /\ buffer[0 + last] = EOL
    BY <1>1, <2>2, <2>3
  <2> QED BY <1>1, <2>4
<1> QED BY <1>1, <1>4, AllRelayed

\* With the wire empty and no slot half filled, the mmap receiver has delivered
\* everything sent.
LEMMA NoSlotHeldBack ==
    ASSUME MmapInv, wire = <<>>, reader.step = "select" PROVE got = sent
<1> DEFINE n == Len(got)
<1>1. /\ Relayed /\ Held \in Seq(Bytes) /\ wire \in Seq(Bytes) /\ n \in 0 .. Len(sent)
      /\ sent \in Seq(Seq(Bytes)) /\ Spelt(Held \o wire, 0, sent, n)
      /\ Len(Held) < Size /\ Len(Held) \in Nat /\ Size \in Nat
  BY MmapAssumption DEF MmapInv, MmapReaders, Relayed, Held, MmapAssumption
<1>2. Spelt(Held, 0, sent, n)
  BY <1>1, ConcatEmptySeq
<1>3. ASSUME n # Len(sent) PROVE FALSE
  <2>1. Len(sent[n + 1]) = Size
    BY <1>1, <1>3 DEF MmapInv
  <2> HIDE DEF n
  <2>2. 0 + Len(sent[n + 1]) <= Len(Held)
    BY <1>1, <1>2, <1>3, FrameFound
  <2> QED BY <1>1, <2>1, <2>2
<1> QED BY <1>1, <1>3, AllRelayed

\* With the wire empty and no size read, the serialized receiver has delivered
\* everything sent.
LEMMA NoPayloadHeldBack ==
    ASSUME SizesReadBack, SerializedInv, wire = <<>>, reader.step = "size" PROVE got = sent
<1> DEFINE n == Len(got)
<1>1. /\ Relayed /\ wire \in Seq(Bytes) /\ n \in 0 .. Len(sent) /\ Spelt(wire, 0, Sized, n)
  BY DEF SerializedInv, Relayed
<1>2. /\ Sized \in Seq(Seq(Bytes)) /\ Len(Sized) = Len(sent)
      /\ \A k \in 1 .. Len(sent) : /\ Len(sent[k]) \in Nat \ {0} /\ PayloadSizeLen \in Nat
                                   /\ Len(Sized[k]) = PayloadSizeLen + Len(sent[k])
  BY SizedType
<1>3. ASSUME n # Len(sent) PROVE FALSE
  <2>1. n + 1 \in 1 .. Len(sent) /\ n \in 0 .. Len(Sized) /\ n # Len(Sized) /\ Len(wire) = 0
    BY <1>1, <1>2, <1>3, EmptySeq
  <2>2. Len(Sized[n + 1]) \in Nat \ {0}
    BY <1>2, <2>1
  <2> HIDE DEF n
  <2>3. 0 + Len(Sized[n + 1]) <= Len(wire)
    BY <1>1, <1>2, <2>1, FrameFound
  <2> QED BY <2>1, <2>2, <2>3
<1> QED BY <1>1, <1>3, AllRelayed

\* The invariants of the three framings give the property the run checks.
LEMMA HoldsNothingBack ==
    ASSUME IInv, form = "VariableBinary" => SizesReadBack /\ SerializedInv
    PROVE  NothingHeldBack
<1> SUFFICES ASSUME wire = <<>>, reader.step \in {"select", "size"} PROVE got = sent
  BY DEF NothingHeldBack
<1>1. CASE form = "Textual"
  <2>1. TextInv /\ reader.step = "select"
    BY <1>1 DEF IInv, TextInv, TextReaders
  <2> QED BY <2>1, NoLineHeldBack
<1>2. CASE form = "MmapBinary"
  <2>1. MmapInv /\ reader.step = "select"
    BY <1>2 DEF IInv, MmapInv, MmapReaders
  <2> QED BY <2>1, NoSlotHeldBack
<1>3. CASE form = "VariableBinary"
  <2>1. SizesReadBack /\ SerializedInv /\ reader.step = "size"
    BY <1>3 DEF SerializedInv, SerializedReaders
  <2> QED BY <2>1, NoPayloadHeldBack
<1> QED BY <1>1, <1>2, <1>3 DEF IInv

\* A textual or mmap dialog that waits for the socket, with nothing to read, relayed
\* all that was sent: the lines that came together in one read included.
THEOREM NoLineNorSlotHeldBack == Spec /\ form # "VariableBinary" => []NothingHeldBack
<1> DEFINE Whole == form # "VariableBinary"
<1>1. IInv /\ Whole => NothingHeldBack
  BY HoldsNothingBack
<1>2. IInv /\ Whole /\ [Next]_wireVars => Whole'
  BY Steps
<1> HIDE DEF Whole
<1>3. Spec /\ Whole => []NothingHeldBack
  BY <1>1, <1>2, Invariance, PTL DEF Spec
<1> QED BY <1>3 DEF Whole

\* All three dialogs implement the link, whatever the payloads and the pieces they come
\* in, as long as no read cuts the bytes of a size, and those bytes can tell the size of
\* whatever the sender takes (serialized_binary_dialog.rs).
THEOREM AllFramed == ASSUME SizeAtOnce, SizesReadBack PROVE Spec => Framed
<1> DEFINE Whole == form = "VariableBinary" => SerializedInv
<1>1. Init => Link!Init /\ Whole
  BY Starts
<1>2. IInv /\ Whole /\ [Next]_wireVars => Whole' /\ [Link!Next]_<<sent, got>>
  BY Steps DEF LinkStep
<1> HIDE DEF Whole
<1> QED BY <1>1, <1>2, Invariance, PTL DEF Spec, Framed, Link!Spec

\* ... none of them holds a message back, and a payload is read by the size it was
\* sent with.
THEOREM NothingLeftBehind ==
    ASSUME SizeAtOnce, SizesReadBack PROVE Spec => [](NothingHeldBack /\ SizeFilledUp)
<1> DEFINE Whole == form = "VariableBinary" => SerializedInv
<1>1. Init => Whole
  BY Starts
<1>2. IInv /\ Whole /\ [Next]_wireVars => Whole'
  BY Steps
<1>3. IInv /\ Whole => NothingHeldBack
  BY HoldsNothingBack
<1>4. IInv /\ Whole => SizeFilledUp
  <2> SUFFICES ASSUME IInv, Whole, reader.step = "payload"
               PROVE  reader.expected = Len(sent[Len(got) + 1])
    BY DEF SizeFilledUp
  <2>1. form = "VariableBinary"
    BY DEF IInv, TextInv, TextReaders, MmapInv, MmapReaders
  <2> QED BY <2>1 DEF SerializedInv, PayloadComing
<1> HIDE DEF Whole
<1> QED BY <1>1, <1>2, <1>3, <1>4, Invariance, PTL DEF Spec

-----------------------------------------------------------------------------
(* The configuration *)

\* A size is read back exactly if it needs no more bytes than the receiver's limit does.
LEMMA SizeTold ==
    ASSUME NEW n \in Nat, NEW limit \in Nat
    PROVE  /\ MinBytes(limit) \in Nat
           /\ LittleEndian(n, MinBytes(limit)) \in Seq(0 .. Base - 1)
           /\ Decode(LittleEndian(n, MinBytes(limit))) = n <=> MinBytes(n) <= MinBytes(limit)
           /\ n <= limit => MinBytes(n) <= MinBytes(limit)
<1> DEFINE len == DigitsOf(limit, Base)
<1>1. Base \in Nat \ {0, 1} /\ Base \in Nat \ {0}
  BY WireAssumption DEF WireAssumption
<1>2. len \in 0..limit /\ \A k \in Nat : len <= k <=> Shifts(limit, Base)[k] = 0
  BY <1>1, DigitsEnd
<1> HIDE DEF len
<1>3. len \in Nat /\ Shifts(limit, Base)[len] = 0
  BY <1>2
<1>4. Digits(n, Base, len) \in Seq(0 .. Base - 1)
  BY <1>1, <1>3, DigitsType
<1>5. DigitsOf(n, Base) <= len <=> Shifts(n, Base)[len] = 0
  BY <1>1, <1>3, DigitsEnd
<1>6. Numeral(Digits(n, Base, len), Base) = n <=> Shifts(n, Base)[len] = 0
  BY <1>1, <1>3, DigitsTell
<1>7. ASSUME n <= limit PROVE Shifts(n, Base)[len] = 0
  <2>1. Shifts(n, Base)[len] <= Shifts(limit, Base)[len]
    BY <1>1, <1>3, <1>7, ShiftsInOrder
  <2>2. Shifts(n, Base)[len] \in Nat
    BY <1>1, <1>3, ShiftsSteps
  <2> QED BY <1>3, <2>1, <2>2
<1> QED BY <1>3, <1>4, <1>5, <1>6, <1>7 DEF MinBytes, LittleEndian, Decode, len

\* The sizes of the messages the sender takes are read back exactly if none of them
\* needs more bytes than the receiver's limit does -- in particular as long as the
\* receiver's limit is not the lower one (serialized_binary_dialog.rs,
\* min_bytes_for_usize() and decode_usize_min()).
THEOREM SizesTold ==
    ASSUME "VariableBinary" \in DOMAIN Configs
    PROVE  /\ SizesReadBack <=>
                \A config_ \in Configs["VariableBinary"] :
                    \A n \in 1 .. From(config_).sender_max_msg_size - 1 :
                        MinBytes(n) <= MinBytes(From(config_).receiver_max_msg_size)
           /\ LimitsAgree => SizesReadBack
<1>1. ASSUME NEW config_ \in Configs["VariableBinary"]
      PROVE  /\ From(config_).sender_max_msg_size \in Nat
             /\ From(config_).receiver_max_msg_size \in Nat
  <2>1. config_ \in UNION {Configs[f] : f \in DOMAIN Configs}
    OBVIOUS
  <2> QED BY <2>1, SizesGiven
<1>2. SizesReadBack <=>
        \A config_ \in Configs["VariableBinary"] :
            \A n \in 1 .. From(config_).sender_max_msg_size - 1 :
                MinBytes(n) <= MinBytes(From(config_).receiver_max_msg_size)
  <2>1. ASSUME NEW config_ \in Configs["VariableBinary"],
               NEW n \in 1 .. From(config_).sender_max_msg_size - 1
        PROVE  LET len == MinBytes(From(config_).receiver_max_msg_size)
               IN  /\ len \in Nat /\ LittleEndian(n, len) \in Seq(0 .. Base - 1)
                   /\ Decode(LittleEndian(n, len)) = n <=> MinBytes(n) <= len
    <3>1. n \in Nat
      BY <1>1
    <3> QED BY <1>1, <3>1, SizeTold
  <2>2. ASSUME NEW config_ \in Configs["VariableBinary"]
        PROVE  MinBytes(From(config_).receiver_max_msg_size) \in Nat
    BY <1>1, SizeTold
  <2> QED BY <2>1, <2>2 DEF SizesReadBack
<1>3. ASSUME LimitsAgree, NEW config_ \in Configs["VariableBinary"],
             NEW n \in 1 .. From(config_).sender_max_msg_size - 1
      PROVE  MinBytes(n) <= MinBytes(From(config_).receiver_max_msg_size)
  <2>1. n \in Nat /\ n <= From(config_).receiver_max_msg_size
    BY <1>1, <1>3 DEF LimitsAgree
  <2> QED BY <1>1, <2>1, SizeTold
<1> QED BY <1>2, <1>3

\* Whatever fields a const parameter is made of, and whatever bytes are tried, each value
\* fits in its bits and can be extracted (config.rs, into() and from()).
LEMMA RoundTrip ==
    ASSUME IsLegal(CONST_CONFIG) PROVE ConfigRoundTrip
<1>1. ASSUME NEW field \in DOMAIN Layout, NEW value \in Legal(Octets)[field]
      PROVE  LET c == [CONST_CONFIG EXCEPT ![field] = value]
                 reprs == Reprs(c)
             IN  /\ \A f \in DOMAIN Layout : Fits(Layout[f], reprs[f])
                 /\ From(Into(c)) = c
  <2> DEFINE c == [CONST_CONFIG EXCEPT ![field] = value]
  <2>1. IsLegal(c)
    <3>1. /\ DOMAIN CONST_CONFIG = DOMAIN Layout
          /\ CONST_CONFIG = [f \in DOMAIN Layout |-> CONST_CONFIG[f]]
          /\ \A f \in DOMAIN Layout : CONST_CONFIG[f] \in Legal(0..255)[f]
      BY DEF IsLegal
    <3>2. value \in Legal(0..255)[field]
      BY FramingsAssumption, LegalOctets DEF FramingsAssumption
    <3>3. \A f \in DOMAIN Layout : c[f] = IF f = field THEN value ELSE CONST_CONFIG[f]
      BY <3>1
    <3>4. DOMAIN c = DOMAIN Layout /\ c = [f \in DOMAIN Layout |-> c[f]]
      BY <3>1
    <3> HIDE DEF c
    <3> QED BY <3>1, <3>2, <3>3, <3>4 DEF IsLegal
  <2> HIDE DEF c
  <2>2. (\A f \in DOMAIN Layout : Fits(Layout[f], Reprs(c)[f])) /\ From(Into(c)) = c
    BY <2>1, ConfigTold
  <2> QED BY <2>2 DEF c
<1>2. ASSUME NEW f_ \in [variant : Range(MessageForms), size : PowersUpTo(MaxExponent)]
      PROVE  FormFromRepr(FormAsRepr(f_)) = f_ /\ Fits(0..6, FormAsRepr(f_))
  <2>1. f_.variant \in Range(MessageForms) /\ f_.size \in PowersUpTo(MaxExponent)
        /\ f_ = [variant |-> f_.variant, size |-> f_.size]
    OBVIOUS
  <2>2. PICK i \in 1..3 : f_.variant = MessageForms[i]
    <3>1. DOMAIN MessageForms = 1..3
      BY DEF MessageForms
    <3> QED BY <2>1, <3>1 DEF Range
  <2>3. FormAsRepr(f_) \subseteq 0..6 /\ FormFromRepr(FormAsRepr(f_)) = f_
    BY <2>1, <2>2, FormTold
  <2>4. Fits(0..6, FormAsRepr(f_))
    <3> DEFINE lo == 0
               hi == 6
    <3>1. lo \in Nat /\ hi \in Nat /\ lo <= hi /\ hi - lo = 6
      OBVIOUS
    <3> HIDE DEF lo, hi
    <3>2. Max(lo..hi) - Min(lo..hi) = 6
      BY <3>1, Ends
    <3> QED BY <2>3, <3>2 DEF Fits, lo, hi
  <2> QED BY <2>3, <2>4
<1> QED BY <1>1, <1>2 DEF ConfigRoundTrip

\* The const parameter of any dialog tells the configuration it was made from, and the
\* message form the seven bits of its own (config.rs).
THEOREM ConfigsRoundTrip == Spec => []ConfigRoundTrip
<1> DEFINE Given == IsLegal(CONST_CONFIG)
<1>1. Init => Given
  BY FramingsAssumption DEF Init, FramingsAssumption, CONST_CONFIG
<1>2. IInv /\ Given /\ [Next]_wireVars => Given'
  <2> SUFFICES ASSUME IInv, Given, [Next]_wireVars PROVE Given'
    OBVIOUS
  <2>1. UNCHANGED config
    BY Steps
  <2> QED BY <2>1 DEF CONST_CONFIG
<1>3. Given => ConfigRoundTrip
  BY RoundTrip
<1> HIDE DEF Given
<1> QED BY <1>1, <1>2, <1>3, Invariance, PTL DEF Spec

=============================================================================

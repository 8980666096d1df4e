------------------------- MODULE FrameDecoderProofs -------------------------
(***************************************************************************)
(* Proofs about FrameDecoder: its type invariant for all parameters that   *)
(* the constructor lets pass, and its safety properties for all that suit  *)
(* the frames.                                                             *)
(***************************************************************************)
EXTENDS ByteOrderProofs, SequenceTheorems, FiniteSetTheorems

-----------------------------------------------------------------------------
(***************************************************************************)
(* Frames                                                                  *)
(***************************************************************************)

\* The piece of a sequence behind its first m elements, up to the n-th.
LEMMA PieceProperties ==
    ASSUME NEW S, NEW s \in Seq(S), NEW m \in Nat, NEW n \in 0 .. Len(s)
    PROVE  /\ SubSeq(s, m + 1, n) \in Seq(S)
           /\ Len(SubSeq(s, m + 1, n)) = IF m <= n THEN n - m ELSE 0
           /\ \A i \in 1 .. n - m : SubSeq(s, m + 1, n)[i] = s[m + i]
<1>1. Len(s) \in Nat /\ \A i \in 1 .. Len(s) : s[i] \in S
  OBVIOUS
<1>2. m + 1 \in Int /\ n \in Int /\ \A i \in m + 1 .. n : s[i] \in S
  BY <1>1
<1>3. /\ SubSeq(s, m + 1, n) \in Seq(S)
      /\ Len(SubSeq(s, m + 1, n)) = IF m + 1 <= n THEN n - (m + 1) + 1 ELSE 0
      /\ \A i \in 1 .. n - (m + 1) + 1 : SubSeq(s, m + 1, n)[i] = s[(m + 1) + i - 1]
  BY <1>2, SubSeqProperties
<1>4. (IF m + 1 <= n THEN n - (m + 1) + 1 ELSE 0) = IF m <= n THEN n - m ELSE 0
  OBVIOUS
<1>5. n - (m + 1) + 1 = n - m
  OBVIOUS
<1>6. ASSUME NEW i \in 1 .. n - m
      PROVE  SubSeq(s, m + 1, n)[i] = s[m + i]
  <2>1. (m + 1) + i - 1 = m + i
    OBVIOUS
  <2> QED
    BY <1>3, <1>5, <2>1
<1> QED
  BY <1>3, <1>4, <1>6

\* The number of bytes of a frame.
Size(y, n) == y.lengthFieldOffset + y.lengthFieldLength + y.header2 + n

LEMMA LayoutFacts ==
    ASSUME NEW y \in Layouts
    PROVE  /\ y.lengthFieldLength \in Nat /\ y.lengthFieldOffset \in Nat
           /\ y.header2 \in Nat /\ y.initialBytesToStrip \in Nat
           /\ y.maxFrameLength \in Nat /\ y.lengthAdjustment \in Int
           /\ y.networkByteOrder \in BOOLEAN /\ y.whole \in BOOLEAN
  BY LayoutAssumption DEF Layout

LEMMA FillType ==
    ASSUME NEW n \in Nat, NEW b \in Bytes
    PROVE  Fill(n, b) \in Seq(Bytes) /\ Len(Fill(n, b)) = n
<1>1. Fill(n, b) \in [1 .. n -> Bytes]
  BY DEF Fill
<1>2. \A f : f \in [1 .. n -> Bytes] => f \in Seq(Bytes) /\ Len(f) = n
  OBVIOUS
<1> QED
  BY <1>1, <1>2

LEMMA FieldValueType ==
    ASSUME NEW y \in Layouts, NEW n \in Nat
    PROVE  FieldValue(y, n) \in Nat /\ Size(y, n) \in Nat
  BY LayoutFacts DEF FieldValue, Size

\* A frame is not shorter than its header, which is not empty.
LEMMA SizeBounds ==
    ASSUME NEW y \in Layouts, NEW n \in Nat
    PROVE  /\ y.lengthFieldOffset + y.lengthFieldLength \in 0 .. Size(y, n)
           /\ Suits(y) => Size(y, n) > 0
<1> DEFINE o == y.lengthFieldOffset
           l == y.lengthFieldLength
           h == y.header2
<1>1. o \in Nat /\ l \in Nat /\ h \in Nat
  BY LayoutFacts
<1>2. Size(y, n) = o + l + h + n
  BY DEF Size
<1>3. Suits(y) => l > 0
  BY DEF Suits
<1> HIDE DEF o, l, h
<1>4. o + l \in 0 .. Size(y, n) /\ (Suits(y) => Size(y, n) > 0)
  BY <1>1, <1>2, <1>3
<1> QED
  BY <1>4 DEF o, l

\* A frame has the length field where the decoder looks for it.
LEMMA FrameShape ==
    ASSUME NEW y \in Layouts, NEW n \in Nat, NEW b \in Bytes
    PROVE  /\ Frame(y, n, b) \in Seq(Bytes)
           /\ Len(Frame(y, n, b)) = Size(y, n)
           /\ \A j \in 1 .. y.lengthFieldLength :
                Frame(y, n, b)[y.lengthFieldOffset + j] =
                  Written(FieldValue(y, n), y.lengthFieldLength, y.networkByteOrder)[j]
<1> DEFINE o == y.lengthFieldOffset
           l == y.lengthFieldLength
           h == y.header2
           w == Written(FieldValue(y, n), l, y.networkByteOrder)
           f1 == Fill(o, 1)
           f3 == Fill(h, 1)
           f4 == Fill(n, b)
<1>1. o \in Nat /\ l \in Nat /\ h \in Nat
  BY LayoutFacts
<1>2. 1 \in Bytes
  BY BaseAssumption DEF Bytes
<1>3. f1 \in Seq(Bytes) /\ Len(f1) = o
  BY <1>1, <1>2, FillType
<1>4. w \in Seq(Bytes) /\ Len(w) = l
  BY FieldValueType, LayoutFacts, WrittenType
<1>5. f3 \in Seq(Bytes) /\ Len(f3) = h
  BY <1>1, <1>2, FillType
<1>6. f4 \in Seq(Bytes) /\ Len(f4) = n
  BY FillType
<1>7. Frame(y, n, b) = ((f1 \o w) \o f3) \o f4
  BY DEF Frame
<1>8. Size(y, n) = o + l + h + n
  BY DEF Size
<1> HIDE DEF o, l, h, w, f1, f3, f4
<1>9. /\ f1 \o w \in Seq(Bytes) /\ Len(f1 \o w) = o + l
      /\ \A i \in 1 .. o + l : (f1 \o w)[i] = IF i <= o THEN f1[i] ELSE w[i - o]
  BY <1>3, <1>4, ConcatProperties
<1>10. /\ (f1 \o w) \o f3 \in Seq(Bytes) /\ Len((f1 \o w) \o f3) = o + l + h
       /\ \A i \in 1 .. o + l : ((f1 \o w) \o f3)[i] = (f1 \o w)[i]
  <2> DEFINE g == f1 \o w
  <2> HIDE DEF g
  <2>1. g \in Seq(Bytes) /\ Len(g) = o + l
    BY <1>9 DEF g
  <2>2. /\ g \o f3 \in Seq(Bytes) /\ Len(g \o f3) = Len(g) + Len(f3)
        /\ \A i \in 1 .. Len(g) + Len(f3) :
             (g \o f3)[i] = IF i <= Len(g) THEN g[i] ELSE f3[i - Len(g)]
    BY <2>1, <1>5, ConcatProperties
  <2>3. \A i \in 1 .. o + l : i \in 1 .. Len(g) + Len(f3) /\ i <= Len(g)
    BY <1>1, <1>5, <2>1
  <2> QED
    BY <2>1, <2>2, <2>3, <1>5 DEF g
<1>11. /\ ((f1 \o w) \o f3) \o f4 \in Seq(Bytes) /\ Len(((f1 \o w) \o f3) \o f4) = o + l + h + n
       /\ \A i \in 1 .. o + l : (((f1 \o w) \o f3) \o f4)[i] = ((f1 \o w) \o f3)[i]
  <2> DEFINE g == (f1 \o w) \o f3
  <2> HIDE DEF g
  <2>1. g \in Seq(Bytes) /\ Len(g) = o + l + h
    BY <1>10 DEF g
  <2>2. /\ g \o f4 \in Seq(Bytes) /\ Len(g \o f4) = Len(g) + Len(f4)
        /\ \A i \in 1 .. Len(g) + Len(f4) :
             (g \o f4)[i] = IF i <= Len(g) THEN g[i] ELSE f4[i - Len(g)]
    BY <2>1, <1>6, ConcatProperties
  <2>3. \A i \in 1 .. o + l : i \in 1 .. Len(g) + Len(f4) /\ i <= Len(g)
    BY <1>1, <1>6, <2>1
  <2> QED
    BY <2>1, <2>2, <2>3, <1>6 DEF g
<1>12. ASSUME NEW j \in 1 .. l
       PROVE  Frame(y, n, b)[o + j] = w[j]
  <2>1. o + j \in 1 .. o + l /\ ~ (o + j <= o) /\ (o + j) - o = j
    BY <1>1
  <2> QED
    BY <1>7, <1>9, <1>10, <1>11, <2>1
<1>13. Frame(y, n, b) \in Seq(Bytes) /\ Len(Frame(y, n, b)) = Size(y, n)
  BY <1>7, <1>8, <1>11
<1> QED
  BY <1>12, <1>13 DEF o, l, w

LEMMA ContentShape ==
    ASSUME NEW y \in Layouts, NEW n \in Nat, NEW b \in Bytes
    PROVE  LET strip == y.initialBytesToStrip
           IN  /\ Content(y, n, b) \in Seq(Bytes)
               /\ Len(Content(y, n, b)) = IF strip <= Size(y, n) THEN Size(y, n) - strip ELSE 0
               /\ \A i \in 1 .. Size(y, n) - strip :
                    Content(y, n, b)[i] = Frame(y, n, b)[strip + i]
<1> DEFINE f == Frame(y, n, b)
           strip == y.initialBytesToStrip
<1>1. f \in Seq(Bytes) /\ Len(f) = Size(y, n) /\ Size(y, n) \in Nat /\ strip \in Nat
  BY FrameShape, FieldValueType, LayoutFacts
<1>2. Content(y, n, b) = SubSeq(f, strip + 1, Len(f))
  BY DEF Content
<1> HIDE DEF f, strip
<1>3. Len(f) \in 0 .. Len(f)
  BY <1>1
<1>4. /\ SubSeq(f, strip + 1, Len(f)) \in Seq(Bytes)
      /\ Len(SubSeq(f, strip + 1, Len(f))) = IF strip <= Len(f) THEN Len(f) - strip ELSE 0
      /\ \A i \in 1 .. Len(f) - strip : SubSeq(f, strip + 1, Len(f))[i] = f[strip + i]
  BY <1>1, <1>3, PieceProperties
<1> QED
  BY <1>1, <1>2, <1>4 DEF f, strip

-----------------------------------------------------------------------------
(***************************************************************************)
(* The type invariant, for all parameters                                  *)
(***************************************************************************)

LEMMA ValueType ==
    ASSUME NEW bytes \in Seq(Bytes), NEW order \in BOOLEAN
    PROVE  Value(bytes, order) \in Nat
<1> DEFINE n == Len(bytes)
<1>1. n \in Nat
  OBVIOUS
<1>2. PICK value \in [0 .. n -> Nat] : Value(bytes, order) = value[n]
  BY ValueRecursion
<1> HIDE DEF n
<1>3. n \in 0 .. n
  BY <1>1
<1>4. value[n] \in Nat
  BY <1>3
<1> QED
  BY <1>2, <1>4

LEMMA EndOffsetType ==
    ASSUME TypeOK
    PROVE  lengthFieldEndOffset_ \in Nat
  BY LayoutFacts DEF TypeOK, lengthFieldEndOffset_

\* Whatever the decoder finds in the field, and adds to it, is a length.
LEMMA LengthType ==
    ASSUME TypeOK, HeaderArrived, NEW u \in getUnadjustedFrameLength
    PROVE  FrameLength(u) \in Nat
<1>1. /\ layout.lengthFieldLength \in Nat /\ layout.lengthFieldOffset \in Nat
      /\ layout.lengthAdjustment \in Int /\ layout.networkByteOrder \in BOOLEAN
  BY LayoutFacts DEF TypeOK
<1>2. u \in Nat
  <2>1. CASE layout.lengthFieldLength \in {1, 2, 4, 8}
    <3> DEFINE o == head + layout.lengthFieldOffset
               l == layout.lengthFieldLength
    <3>1. o \in Nat /\ o + l \in 0 .. Len(stream)
      <4>1. head \in Nat /\ tail \in Nat /\ Len(stream) \in Nat /\ tail <= Len(stream)
        BY DEF TypeOK
      <4> DEFINE x == layout.lengthFieldOffset
      <4>2. tail - head >= x + l
        BY DEF HeaderArrived, Buffered, lengthFieldEndOffset_
      <4>3. x \in Nat /\ l \in Nat
        BY <1>1
      <4> HIDE DEF x, l
      <4>4. head + x \in Nat /\ (head + x) + l \in 0 .. Len(stream)
        BY <4>1, <4>2, <4>3
      <4> QED
        BY <4>4 DEF x
    <3>2. SubSeq(stream, o + 1, o + l) \in Seq(Bytes)
      BY <3>1, PieceProperties DEF TypeOK
    <3>3. Value(SubSeq(stream, o + 1, o + l), layout.networkByteOrder) \in Nat
      BY <1>1, <3>2, ValueType
    <3> QED
      BY <2>1, <3>3 DEF getUnadjustedFrameLength, Read
  <2>2. CASE layout.lengthFieldLength \notin {1, 2, 4, 8}
    BY <2>2, BaseAssumption DEF getUnadjustedFrameLength
  <2> QED
    BY <2>1, <2>2
<1> DEFINE a == layout.lengthAdjustment + lengthFieldEndOffset_
<1>3. a \in Int /\ WordMod \in Nat \ {0} /\ WordMod * WordMod \in Nat \ {0}
  BY <1>1, EndOffsetType, BaseAssumption
<1> HIDE DEF a
<1>4. a % WordMod \in Nat
  BY <1>3
<1>5. \A x \in Nat, m \in Nat \ {0} : x % m \in Nat
  OBVIOUS
<1>6. u + (a % WordMod) \in Nat
  BY <1>2, <1>4
<1>7. (u + (a % WordMod)) % (WordMod * WordMod) \in Nat
  BY <1>3, <1>5, <1>6, Zenon
<1> QED
  BY <1>7 DEF FrameLength, a

LEMMA TypeSend ==
    ASSUME TypeOK, NEW n \in BodyLengths, NEW b \in Bytes, Send(n, b)
    PROVE  TypeOK'
<1>1. layout \in Layouts /\ n \in Nat
  BY BoundsAssumption DEF TypeOK
<1>2. Frame(layout, n, b) \in Seq(Bytes) /\ Content(layout, n, b) \in Seq(Bytes)
  BY <1>1, FrameShape, ContentShape
<1>3. stream' \in Seq(Bytes) /\ Len(stream) <= Len(stream')
  BY <1>2, ConcatProperties DEF TypeOK, Send
<1>4. Len(stream) \in Nat /\ Len(stream') \in Nat
  BY <1>3, LenProperties DEF TypeOK
<1>5. sent' \in Seq(Seq(Bytes))
  BY <1>2, AppendProperties DEF TypeOK, Send
<1>6. fits' \in Seq(BOOLEAN)
  <2>1. PICK x \in BOOLEAN : fits' = Append(fits, x)
    BY DEF Send
  <2> QED
    BY <2>1, AppendProperties DEF TypeOK
<1>7. ends' \in Seq(Nat)
  BY <1>4, AppendProperties DEF TypeOK, Send
<1>8. head' \in 0 .. tail' /\ tail' \in 0 .. Len(stream')
  BY <1>3, <1>4 DEF TypeOK, Send
<1> QED
  BY <1>3, <1>5, <1>6, <1>7, <1>8 DEF TypeOK, Send

LEMMA TypeDecodeField ==
    ASSUME TypeOK, DecodeField
    PROVE  TypeOK'
<1> DEFINE e == lengthFieldEndOffset_
<1>1. PICK u \in getUnadjustedFrameLength :
        \/ TooSmall(FrameLength(u))
        \/ TooLarge(FrameLength(u))
        \/ Incomplete(FrameLength(u))
        \/ StripTooLong(FrameLength(u))
        \/ Deliver(FrameLength(u))
  BY DEF DecodeField
<1> DEFINE length == FrameLength(u)
<1>2. length \in Nat /\ e \in Nat /\ HeaderArrived
  BY LengthType, EndOffsetType DEF DecodeField
<1> HIDE DEF length
<1>3. head \in Nat /\ tail \in Nat /\ head <= tail /\ tail <= Len(stream) /\ Len(stream) \in Nat
  BY DEF TypeOK
<1>4. ASSUME NEW h \in head .. tail, NEW x \in {0, 1}, Stop(h, x), torn' \in BOOLEAN
      PROVE  TypeOK'
  BY <1>3, <1>4 DEF TypeOK, Stop
<1>5. CASE TooSmall(length)
  <2>1. head + e \in head .. tail
    BY <1>2, <1>3 DEF HeaderArrived, Buffered
  <2> QED
    BY <1>4, <1>5, <2>1 DEF TooSmall, TypeOK
<1>6. CASE TooLarge(length)
  <2>1. head + Trimmed(length) \in head .. tail
    BY <1>2, <1>3 DEF Trimmed, Buffered
  <2>2. torn' \in BOOLEAN
    BY <1>6 DEF TooLarge
  <2> QED
    BY <1>4, <1>6, <2>1, <2>2 DEF TooLarge
<1>7. CASE Incomplete(length)
  <2>1. head \in head .. tail
    BY <1>3
  <2> QED
    BY <1>4, <1>7, <2>1 DEF Incomplete, TypeOK
<1>8. CASE StripTooLong(length)
  <2>1. head + length \in head .. tail
    BY <1>2, <1>3, <1>8 DEF StripTooLong, Complete, Buffered
  <2> QED
    BY <1>4, <1>8, <2>1 DEF StripTooLong, TypeOK
<1>9. CASE Deliver(length)
  <2> DEFINE m == head + layout.initialBytesToStrip
  <2>1. head + length \in head .. tail /\ head + length \in 0 .. Len(stream)
    BY <1>2, <1>3, <1>9 DEF Deliver, Complete, Buffered
  <2>2. m \in Nat
    BY <1>3, LayoutFacts DEF TypeOK
  <2> HIDE DEF m
  <2>3. SubSeq(stream, m + 1, head + length) \in Seq(Bytes)
    BY <2>1, <2>2, PieceProperties DEF TypeOK
  <2>4. frames' = Append(frames, SubSeq(stream, m + 1, head + length))
    BY <1>9 DEF Deliver, m
  <2>5. frames' \in Seq(Seq(Bytes))
    BY <2>3, <2>4, AppendProperties DEF TypeOK
  <2>6. head' \in 0 .. tail'
    BY <1>3, <1>9, <2>1 DEF Deliver
  <2> QED
    BY <1>9, <2>5, <2>6 DEF TypeOK, Deliver, AfterFrame, historyVars
<1> QED
  BY <1>1, <1>5, <1>6, <1>7, <1>8, <1>9 DEF length

LEMMA TypeStep ==
    ASSUME TypeOK, [Next]_vars
    PROVE  TypeOK'
<1>1. ASSUME NEW n \in BodyLengths, NEW b \in Bytes, Send(n, b)
      PROVE  TypeOK'
  BY <1>1, TypeSend
<1>2. ASSUME SomethingArrives
      PROVE  TypeOK'
  <2>1. PICK n \in 1 .. Len(stream) - tail : Arrive(n)
    BY <1>2 DEF SomethingArrives
  <2>2. head' \in 0 .. tail' /\ tail' \in 0 .. Len(stream')
    BY <2>1 DEF TypeOK, Arrive
  <2> QED
    BY <2>1, <2>2 DEF TypeOK, Arrive, historyVars
<1>3. CASE NoHeader
  <2>1. head' = head /\ exceptions' = exceptions
    BY <1>3 DEF NoHeader, Stop, TypeOK
  <2> QED
    BY <1>3, <2>1 DEF NoHeader, Stop, TypeOK
<1>4. CASE DecodeField
  BY <1>4, TypeDecodeField
<1>5. CASE UNCHANGED vars
  BY <1>5 DEF TypeOK, vars, historyVars
<1> QED
  BY <1>1, <1>2, <1>3, <1>4, <1>5 DEF Next, Decode, Quiet

\* The queue is a part of the stream, and a frame is never taken out of bytes
\* that have not arrived: for all parameters that the constructor's CHECKs let
\* pass, for all lengths that peers may write, and for all byte values.
THEOREM TypeCorrect == Spec => []TypeOK
<1>1. Init => TypeOK
  <2> SUFFICES ASSUME Init PROVE TypeOK
    OBVIOUS
  <2>1. \A S : <<>> \in Seq(S) /\ Len(<<>>) = 0
    BY EmptySeq
  <2>2. head \in 0 .. tail /\ tail \in 0 .. Len(stream)
    BY <2>1 DEF Init
  <2> QED
    BY <2>1, <2>2 DEF Init, TypeOK
<1>2. TypeOK /\ [Next]_vars => TypeOK'
  BY TypeStep
<1> QED
  BY <1>1, <1>2, PTL DEF Spec

-----------------------------------------------------------------------------
(***************************************************************************)
(* The inductive invariant: how the stream is made up of frames, and what  *)
(* the position of the decoder in it says of its output                    *)
(***************************************************************************)

\* Where the k-th frame ends.
Position(k) == IF k = 0 THEN 0 ELSE ends[k]

\* The i-th frame is that of a message of n bytes b.
FramedAs(i, n, b) ==
    /\ FieldValue(layout, n) < Power[layout.lengthFieldLength]
    /\ ends[i] = Position(i - 1) + Size(layout, n)
    /\ \A j \in 1 .. Size(layout, n) : stream[Position(i - 1) + j] = Frame(layout, n, b)[j]
    /\ sent[i] = Content(layout, n, b)
    /\ fits[i] = (/\ Size(layout, n) <= layout.maxFrameLength
                  /\ layout.initialBytesToStrip <= Size(layout, n))

\* The stream consists of the frames of what was sent.
StreamOfFrames ==
    /\ Len(fits) = Len(sent) /\ Len(ends) = Len(sent)
    /\ Len(stream) = Position(Len(sent))
    /\ \A i, j \in 0 .. Len(sent) : i <= j => Position(i) <= Position(j)
    /\ \A i \in 1 .. Len(sent) : \E n \in BodyLengths, b \in Bytes : FramedAs(i, n, b)

\* The decoder loses its place in the stream at a message that does not fit,
\* when it has passed on all messages ahead of the first such message.
TornLate ==
    torn => /\ GoodMessages < Len(sent) /\ GoodMessages <= Len(frames)
            /\ \A i \in 1 .. GoodMessages : frames[i] = sent[i]
            /\ exceptions > 0

\* When read() returns, no frame has arrived completely that the decoder has not
\* taken out of the queue.
NothingWaits ==
    pc = "idle" /\ exceptions = 0 =>
        \A i \in 1 .. Len(sent) : head < ends[i] => tail < ends[i]

Inv ==
    /\ TypeOK
    /\ StreamOfFrames
    /\ InSync
    /\ TornLate
    /\ NothingWaits

-----------------------------------------------------------------------------
(***************************************************************************)
(* The stream consists of frames                                           *)
(***************************************************************************)

LEMMA PositionType ==
    ASSUME TypeOK, StreamOfFrames
    PROVE  /\ Len(sent) \in Nat
           /\ \A k \in 0 .. Len(sent) : Position(k) \in Nat /\ Position(k) <= Len(stream)
<1>1. Len(sent) \in Nat /\ Len(ends) = Len(sent) /\ Len(stream) \in Nat
  BY DEF TypeOK, StreamOfFrames
<1>2. ASSUME NEW k \in 0 .. Len(sent)
      PROVE  Position(k) \in Nat
  <2>1. CASE k = 0
    BY <2>1 DEF Position
  <2>2. CASE k # 0
    <3>1. k \in 1 .. Len(ends)
      BY <1>1, <2>2
    <3> QED
      BY <2>2, <3>1 DEF Position, TypeOK
  <2> QED
    BY <2>1, <2>2
<1>3. ASSUME NEW k \in 0 .. Len(sent)
      PROVE  Position(k) <= Len(stream)
  <2>1. k <= Len(sent) /\ Len(sent) \in 0 .. Len(sent)
    BY <1>1
  <2> QED
    BY <2>1 DEF StreamOfFrames
<1> QED
  BY <1>1, <1>2, <1>3

\* What Send does to the sequences, element by element.
LEMMA SendAppends ==
    ASSUME TypeOK, StreamOfFrames, NEW n \in BodyLengths, NEW b \in Bytes, Send(n, b)
    PROVE  LET last == Len(sent) + 1
               size == Size(layout, n)
           IN  /\ Len(sent') = last /\ Len(fits') = last /\ Len(ends') = last
               /\ Len(stream') = Len(stream) + size
               /\ \A i \in 1 .. Len(sent) :
                    sent'[i] = sent[i] /\ fits'[i] = fits[i] /\ ends'[i] = ends[i]
               /\ sent'[last] = Content(layout, n, b)
               /\ fits'[last] = (/\ size <= layout.maxFrameLength
                                 /\ layout.initialBytesToStrip <= size)
               /\ ends'[last] = Len(stream')
               /\ \A i \in 1 .. Len(stream) : stream'[i] = stream[i]
               /\ \A j \in 1 .. size : stream'[Len(stream) + j] = Frame(layout, n, b)[j]
<1> DEFINE size == Size(layout, n)
           f == Frame(layout, n, b)
           x == size <= layout.maxFrameLength /\ layout.initialBytesToStrip <= size
<1>1. layout \in Layouts /\ n \in Nat
  BY BoundsAssumption DEF TypeOK
<1>2. f \in Seq(Bytes) /\ Len(f) = size /\ size \in Nat /\ Content(layout, n, b) \in Seq(Bytes)
  BY <1>1, FrameShape, ContentShape, FieldValueType
<1>3. stream' = stream \o f /\ fits' = Append(fits, x)
  BY <1>2 DEF Send
<1>4. x \in BOOLEAN
  OBVIOUS
<1>5. sent' = Append(sent, Content(layout, n, b)) /\ ends' = Append(ends, Len(stream'))
  BY DEF Send
<1> HIDE DEF f, size, x
<1>6. Len(sent) \in Nat /\ Len(fits) = Len(sent) /\ Len(ends) = Len(sent) /\ Len(stream) \in Nat
  BY DEF TypeOK, StreamOfFrames
<1>7. /\ Len(stream') = Len(stream) + size
      /\ \A i \in 1 .. Len(stream) : stream'[i] = stream[i]
      /\ \A j \in 1 .. size : stream'[Len(stream) + j] = f[j]
  <2>1. /\ Len(stream') = Len(stream) + Len(f)
        /\ \A i \in 1 .. Len(stream) + Len(f) :
             stream'[i] = IF i <= Len(stream) THEN stream[i] ELSE f[i - Len(stream)]
    BY <1>2, <1>3, ConcatProperties DEF TypeOK
  <2>2. \A i \in 1 .. Len(stream) : i \in 1 .. Len(stream) + Len(f) /\ i <= Len(stream)
    BY <1>2, <1>6
  <2>3. ASSUME NEW j \in 1 .. size
        PROVE  stream'[Len(stream) + j] = f[j]
    <3> DEFINE i == Len(stream) + j
    <3>1. /\ i \in 1 .. Len(stream) + Len(f) /\ ~ (i <= Len(stream))
          /\ i - Len(stream) = j
      BY <1>2, <1>6
    <3> HIDE DEF i
    <3>2. stream'[i] = f[j]
      BY <2>1, <3>1
    <3> QED
      BY <3>2 DEF i
  <2> QED
    BY <1>2, <2>1, <2>2, <2>3
<1>8. /\ Len(sent') = Len(sent) + 1 /\ sent'[Len(sent) + 1] = Content(layout, n, b)
      /\ \A i \in 1 .. Len(sent) : sent'[i] = sent[i]
  BY <1>2, <1>5, AppendProperties DEF TypeOK
<1>9. /\ Len(fits') = Len(sent) + 1 /\ fits'[Len(sent) + 1] = x
      /\ \A i \in 1 .. Len(sent) : fits'[i] = fits[i]
  <2>1. /\ Len(fits') = Len(fits) + 1 /\ fits'[Len(fits) + 1] = x
        /\ \A i \in 1 .. Len(fits) : fits'[i] = fits[i]
    BY <1>3, <1>4, AppendProperties DEF TypeOK
  <2> QED
    BY <1>6, <2>1
<1>10. /\ Len(ends') = Len(sent) + 1 /\ ends'[Len(sent) + 1] = Len(stream')
       /\ \A i \in 1 .. Len(sent) : ends'[i] = ends[i]
  <2>1. Len(stream') \in Nat
    BY <1>2, <1>6, <1>7
  <2>2. /\ Len(ends') = Len(ends) + 1 /\ ends'[Len(ends) + 1] = Len(stream')
        /\ \A i \in 1 .. Len(ends) : ends'[i] = ends[i]
    BY <1>5, <2>1, AppendProperties DEF TypeOK
  <2> QED
    BY <1>6, <2>2
<1> QED
  BY <1>7, <1>8, <1>9, <1>10 DEF x, size, f

LEMMA StreamSend ==
    ASSUME TypeOK, StreamOfFrames, NEW n \in BodyLengths, NEW b \in Bytes, Send(n, b)
    PROVE  StreamOfFrames'
<1> DEFINE size == Size(layout, n)
<1>1. PICK last : last = Len(sent) + 1
  OBVIOUS
<1>2. /\ Len(sent') = last /\ Len(fits') = last /\ Len(ends') = last
      /\ Len(stream') = Len(stream) + size
      /\ \A i \in 1 .. Len(sent) :
           sent'[i] = sent[i] /\ fits'[i] = fits[i] /\ ends'[i] = ends[i]
      /\ sent'[last] = Content(layout, n, b)
      /\ fits'[last] = (/\ size <= layout.maxFrameLength
                        /\ layout.initialBytesToStrip <= size)
      /\ ends'[last] = Len(stream')
      /\ \A i \in 1 .. Len(stream) : stream'[i] = stream[i]
      /\ \A j \in 1 .. size : stream'[Len(stream) + j] = Frame(layout, n, b)[j]
  BY <1>1, SendAppends
<1>3. /\ Len(sent) \in Nat /\ Len(stream) \in Nat /\ size \in Nat /\ last \in Nat
      /\ \A k \in 0 .. Len(sent) : Position(k) \in Nat /\ Position(k) <= Len(stream)
  <2>1. layout \in Layouts /\ n \in Nat /\ Len(stream) \in Nat
    BY BoundsAssumption DEF TypeOK
  <2>2. size \in Nat
    BY <2>1, FieldValueType
  <2> QED
    BY <1>1, <2>1, <2>2, PositionType
<1>4. layout' = layout
  BY DEF Send
<1> HIDE DEF size
<1>5. \A k \in 0 .. Len(sent) : Position(k)' = Position(k)
  <2> TAKE k \in 0 .. Len(sent)
  <2>1. k = 0 \/ k \in 1 .. Len(sent)
    BY <1>3
  <2> QED
    BY <1>2, <2>1 DEF Position
<1>6. Position(last)' = Len(stream) + size /\ Position(Len(sent)) = Len(stream)
  <2>1. last # 0
    BY <1>1, <1>3
  <2> QED
    BY <1>2, <2>1 DEF Position, StreamOfFrames
<1>7. ASSUME NEW i \in 0 .. last, NEW j \in 0 .. last, i <= j
      PROVE  Position(i)' <= Position(j)'
  <2>1. CASE j = last
    <3>1. CASE i = last
      <4>1. Position(last)' \in Nat
        BY <1>3, <1>6
      <4> QED
        BY <2>1, <3>1, <4>1
    <3>2. CASE i # last
      <4>1. i \in 0 .. Len(sent)
        BY <1>3, <1>1, <3>2
      <4>2. Position(i)' \in Nat /\ Position(i)' <= Len(stream)
        BY <1>3, <1>5, <4>1
      <4> QED
        BY <1>3, <1>6, <2>1, <4>2
    <3> QED
      BY <3>1, <3>2
  <2>2. CASE j # last
    <3>1. i \in 0 .. Len(sent) /\ j \in 0 .. Len(sent)
      BY <1>3, <1>1, <1>7, <2>2
    <3> QED
      BY <1>5, <1>7, <3>1 DEF StreamOfFrames
  <2> QED
    BY <2>1, <2>2
<1>8. ASSUME NEW i \in 1 .. Len(sent)
      PROVE  \E m \in BodyLengths, c \in Bytes : FramedAs(i, m, c)'
  <2>1. PICK m \in BodyLengths, c \in Bytes : FramedAs(i, m, c)
    BY DEF StreamOfFrames
  <2> DEFINE s == Size(layout, m)
             p == Position(i - 1)
  <2>2. i - 1 \in 0 .. Len(sent) /\ i \in 0 .. Len(sent) /\ i # 0
    BY <1>3
  <2>3. p \in Nat /\ s \in Nat /\ Position(i) = p + s /\ p + s <= Len(stream)
    <3>1. p \in Nat /\ s \in Nat
      BY <1>3, <2>2, FieldValueType, BoundsAssumption DEF TypeOK
    <3>2. Position(i) = p + s
      BY <2>1, <2>2 DEF FramedAs, Position
    <3> QED
      BY <1>3, <2>2, <3>1, <3>2
  <2>4. Position(i - 1)' = p /\ ends'[i] = ends[i]
    BY <1>2, <1>5, <2>2
  <2>5. ASSUME NEW j \in 1 .. s
        PROVE  stream'[p + j] = Frame(layout, m, c)[j]
    <3> HIDE DEF s, p
    <3>1. p + j \in 1 .. Len(stream)
      BY <1>3, <2>3
    <3>2. stream[p + j] = Frame(layout, m, c)[j]
      BY <2>1 DEF FramedAs, s, p
    <3> QED
      BY <1>2, <3>1, <3>2
  <2>6. sent'[i] = sent[i] /\ fits'[i] = fits[i]
    BY <1>2
  <2>7. FramedAs(i, m, c)'
    BY <1>4, <2>1, <2>4, <2>5, <2>6 DEF FramedAs
  <2> QED
    BY <2>7
<1>9. FramedAs(last, n, b)'
  <2>1. last - 1 = Len(sent) /\ Len(sent) \in 0 .. Len(sent)
    BY <1>3, <1>1
  <2>2. Position(last - 1)' = Len(stream)
    BY <1>5, <1>6, <2>1
  <2>3. FieldValue(layout, n) < Power[layout.lengthFieldLength]
    BY DEF Send
  <2>4. ends'[last] = Len(stream) + size
    BY <1>2, <1>1
  <2> QED
    BY <1>2, <1>4, <1>1, <2>2, <2>3, <2>4 DEF FramedAs, size
<1>10. ASSUME NEW i \in 1 .. last
       PROVE  \E m \in BodyLengths, c \in Bytes : FramedAs(i, m, c)'
  <2>1. i = last \/ i \in 1 .. Len(sent)
    BY <1>3, <1>1
  <2> QED
    BY <1>8, <1>9, <2>1
<1>11. Len(sent') = last
  BY <1>2, <1>1
<1>12. Len(stream)' = Position(Len(sent))'
  BY <1>2, <1>6, <1>1
<1> QED
  BY <1>2, <1>1, <1>7, <1>10, <1>11, <1>12 DEF StreamOfFrames

-----------------------------------------------------------------------------
(***************************************************************************)
(* What a call of decode() does between two frames, for parameters that    *)
(* suit the frames                                                         *)
(***************************************************************************)

\* With a header in the queue, the decoder reads the length that the prepender
\* has written, and computes the size of the frame from it.
LEMMA FieldRead ==
    ASSUME TypeOK, StreamOfFrames, Suits(layout), HeaderArrived,
           NEW k \in 0 .. Len(sent), head = Position(k)
    PROVE  /\ k + 1 \in 1 .. Len(sent)
           /\ \A n \in BodyLengths, b \in Bytes : FramedAs(k + 1, n, b) =>
                /\ getUnadjustedFrameLength = {FieldValue(layout, n)}
                /\ FrameLength(FieldValue(layout, n)) = Size(layout, n)
<1> DEFINE o == layout.lengthFieldOffset
           l == layout.lengthFieldLength
           h2 == layout.header2
<1>1. /\ layout \in Layouts
      /\ o \in Nat /\ l \in Nat /\ h2 \in Nat
      /\ layout.networkByteOrder \in BOOLEAN /\ layout.whole \in BOOLEAN
  BY LayoutFacts DEF TypeOK
<1>2. l \in {1, 2, 4, 8} /\ l > 0
  BY DEF Suits
<1>3. lengthFieldEndOffset_ = o + l
  BY DEF lengthFieldEndOffset_
<1>4. /\ head \in Nat /\ tail \in Nat /\ Len(stream) \in Nat /\ tail <= Len(stream)
      /\ tail - head >= o + l
  BY <1>3 DEF TypeOK, HeaderArrived, Buffered
<1>5. Len(sent) \in Nat /\ Position(Len(sent)) = Len(stream)
  BY PositionType DEF StreamOfFrames
<1>6. k # Len(sent)
  <2> HIDE DEF o, l
  <2>1. head < Len(stream)
    BY <1>1, <1>4, <1>2
  <2> QED
    BY <1>4, <1>5, <2>1
<1>7. k + 1 \in 1 .. Len(sent)
  BY <1>5, <1>6
<1> SUFFICES ASSUME NEW n \in BodyLengths, NEW b \in Bytes, FramedAs(k + 1, n, b)
             PROVE  /\ getUnadjustedFrameLength = {FieldValue(layout, n)}
                    /\ FrameLength(FieldValue(layout, n)) = Size(layout, n)
  BY <1>7
<1> DEFINE v == FieldValue(layout, n)
           w == Written(v, l, layout.networkByteOrder)
           f == Frame(layout, n, b)
           size == Size(layout, n)
           piece == SubSeq(stream, (head + o) + 1, (head + o) + l)
<1>8. /\ n \in Nat /\ v \in Nat /\ size \in Nat /\ size = o + l + h2 + n
      /\ v = IF layout.whole THEN size ELSE n
  <2>1. n \in Nat
    BY BoundsAssumption
  <2> QED
    BY <1>1, <2>1, FieldValueType DEF FieldValue, Size
<1>9. /\ v \in 0 .. Power[l] - 1
      /\ \A j \in 1 .. size : stream[head + j] = f[j]
  <2>1. v < Power[l]
    BY DEF FramedAs
  <2>2. Power[l] \in Nat
    BY <1>1, PowerType
  <2>3. (k + 1) - 1 = k
    OBVIOUS
  <2>4. \A j \in 1 .. size : stream[head + j] = f[j]
    BY <2>3 DEF FramedAs
  <2> QED
    BY <1>8, <2>1, <2>2, <2>4
<1>10. \A j \in 1 .. l : f[o + j] = w[j]
  BY <1>1, <1>8, FrameShape
<1> HIDE DEF o, l, h2, v, f, size
<1>11. w \in Seq(Bytes) /\ Len(w) = l
  BY <1>1, <1>8, WrittenType
<1> HIDE DEF w
<1>12. piece = w
  <2> DEFINE from == head + o
             to == (head + o) + l
  <2>1. o \in Nat /\ l \in Nat
    BY <1>1
  <2>2. from \in Nat /\ to \in 0 .. Len(stream) /\ to - from = l /\ from <= to
    BY <1>4, <2>1
  <2> HIDE DEF from, to
  <2>3. /\ SubSeq(stream, from + 1, to) \in Seq(Bytes)
        /\ Len(SubSeq(stream, from + 1, to)) = IF from <= to THEN to - from ELSE 0
        /\ \A i \in 1 .. to - from : SubSeq(stream, from + 1, to)[i] = stream[from + i]
    <3>1. stream \in Seq(Bytes)
      BY DEF TypeOK
    <3> QED
      BY <2>2, <3>1, PieceProperties
  <2>4. /\ piece \in Seq(Bytes) /\ Len(piece) = l
        /\ \A i \in 1 .. l : piece[i] = stream[(head + o) + i]
    BY <2>2, <2>3 DEF from, to
  <2> HIDE DEF piece
  <2>5. ASSUME NEW i \in 1 .. l
        PROVE  piece[i] = w[i]
    <3>1. piece[i] = stream[(head + o) + i]
      BY <2>4
    <3>2. o + i \in 1 .. size /\ (head + o) + i = head + (o + i)
      BY <1>1, <1>4, <1>8
    <3>3. stream[head + (o + i)] = f[o + i]
      BY <1>9, <3>2
    <3> QED
      BY <1>10, <3>1, <3>2, <3>3
  <2> QED
    BY <1>11, <2>4, <2>5, SeqEqual
<1>13. getUnadjustedFrameLength = {v}
  <2>1. Value(w, layout.networkByteOrder) = v
    BY <1>1, <1>9, ReadsWhatIsWritten DEF w
  <2>2. Read(o, l, layout.networkByteOrder) = v
    BY <1>12, <2>1 DEF Read
  <2> QED
    BY <1>2, <2>2 DEF getUnadjustedFrameLength, o, l
<1>14. FrameLength(v) = size
  <2> DEFINE a == layout.lengthAdjustment + (o + l)
             W == WordMod * WordMod
  <2>1. /\ layout.lengthAdjustment = IF layout.whole THEN -(o + l) ELSE h2
        /\ (o + l) + h2 < WordMod
        /\ size < W
    BY <1>8 DEF Suits, o, l, h2
  <2>2. WordMod \in Nat \ {0} /\ W \in Nat \ {0}
    BY BaseAssumption
  <2>3. a = IF layout.whole THEN 0 ELSE (o + l) + h2
    BY <1>1, <2>1
  <2> HIDE DEF a, W
  <2>4. a \in Nat /\ a < WordMod
    BY <1>1, <2>1, <2>2, <2>3
  <2>5. \A x \in Nat, m \in Nat \ {0} : x < m => x % m = x
    OBVIOUS
  <2>6. a % WordMod = a
    BY <2>2, <2>4, <2>5
  <2>7. v + a = size
    BY <1>1, <1>8, <2>3
  <2>8. size % W = size
    BY <1>8, <2>1, <2>2, <2>5
  <2>9. FrameLength(v) = (v + (a % WordMod)) % W
    BY <1>3 DEF FrameLength, a, W
  <2> QED
    BY <2>6, <2>7, <2>8, <2>9
<1> QED
  BY <1>13, <1>14 DEF v, size

\* decode() drops the next frame, which is one that it is not meant to accept.
Skips(k) ==
    /\ ~fits[k + 1]
    /\ pc' = "idle" /\ exceptions' = exceptions + 1 /\ frames' = frames
    /\ torn' \/ (head' = Position(k + 1) /\ torn' = torn)

\* It waits for the rest of the next frame.
Waits(k) ==
    /\ tail < Position(k + 1)
    /\ pc' = "idle" /\ UNCHANGED <<exceptions, frames, head, torn>>

\* It passes the content of the next frame on.
Passes(k) ==
    /\ fits[k + 1]
    /\ frames' = Append(frames, sent[k + 1])
    /\ head' = Position(k + 1)
    /\ pc' = "decoding" /\ UNCHANGED <<exceptions, torn>>

\* Between two frames, decode() does one of these three things.
LEMMA DecodeCases ==
    ASSUME TypeOK, StreamOfFrames, Suits(layout), DecodeField,
           NEW k \in 0 .. Len(sent), head = Position(k)
    PROVE  /\ k + 1 \in 1 .. Len(sent)
           /\ UNCHANGED <<layout, sent, fits, stream, tail, ends>>
           /\ Skips(k) \/ Waits(k) \/ Passes(k)
<1> DEFINE strip == layout.initialBytesToStrip
           max == layout.maxFrameLength
<1>1. HeaderArrived /\ k + 1 \in 1 .. Len(sent)
  BY FieldRead DEF DecodeField
<1>2. PICK n \in BodyLengths, b \in Bytes : FramedAs(k + 1, n, b)
  BY <1>1 DEF StreamOfFrames
<1> DEFINE size == Size(layout, n)
<1>3. /\ getUnadjustedFrameLength = {FieldValue(layout, n)}
      /\ FrameLength(FieldValue(layout, n)) = size
  BY <1>1, <1>2, FieldRead
<1>4. \/ TooSmall(size)
      \/ TooLarge(size)
      \/ Incomplete(size)
      \/ StripTooLong(size)
      \/ Deliver(size)
  <2> HIDE DEF size
  <2> QED
    BY <1>3 DEF DecodeField
<1>5. /\ n \in Nat /\ layout \in Layouts /\ size \in Nat /\ strip \in Nat /\ max \in Nat
      /\ lengthFieldEndOffset_ \in Nat /\ lengthFieldEndOffset_ <= size
  <2>1. n \in Nat /\ layout \in Layouts
    BY BoundsAssumption DEF TypeOK
  <2>2. strip \in Nat /\ max \in Nat
    BY <2>1, LayoutFacts
  <2>3. size \in Nat /\ lengthFieldEndOffset_ \in 0 .. size
    BY <2>1, SizeBounds, FieldValueType DEF lengthFieldEndOffset_
  <2> HIDE DEF size, strip, max
  <2> QED
    BY <2>1, <2>2, <2>3
<1>6. /\ Position(k + 1) = head + size
      /\ fits[k + 1] = (size <= max /\ strip <= size)
      /\ sent[k + 1] = Content(layout, n, b)
      /\ \A j \in 1 .. size : stream[head + j] = Frame(layout, n, b)[j]
  <2>1. (k + 1) - 1 = k /\ k + 1 # 0
    BY <1>1
  <2> QED
    BY <1>2, <2>1 DEF FramedAs, Position
<1>7. /\ head \in Nat /\ tail \in Nat /\ Len(stream) \in Nat
      /\ tail <= Len(stream) /\ head <= tail
  BY DEF TypeOK
<1> HIDE DEF size, strip, max
<1>8. ~ TooSmall(size)
  BY <1>5 DEF TooSmall
<1>9. CASE TooLarge(size)
  <2>1. ~fits[k + 1]
    <3>1. ~ (size <= max /\ strip <= size)
      BY <1>5, <1>9 DEF TooLarge, max
    <3> QED
      BY <1>6, <3>1, Zenon
  <2>2. torn' \/ (head' = Position(k + 1) /\ torn' = torn)
    <3>1. CASE size > Buffered
      BY <1>9, <3>1 DEF TooLarge
    <3>2. CASE ~ (size > Buffered)
      <4>1. Trimmed(size) = size
        BY <1>5, <1>7, <3>2 DEF Trimmed, Buffered
      <4>2. torn' = torn
        BY <1>9, <3>2 DEF TooLarge, TypeOK
      <4> QED
        BY <1>6, <1>9, <4>1, <4>2 DEF TooLarge, Stop
    <3> QED
      BY <3>1, <3>2
  <2>3. Skips(k)
    BY <1>9, <2>1, <2>2 DEF Skips, TooLarge, Stop
  <2> QED
    BY <1>1, <1>9, <2>3 DEF TooLarge, Stop
<1>10. CASE Incomplete(size)
  <2>1. tail < Position(k + 1)
    BY <1>5, <1>6, <1>7, <1>10 DEF Incomplete, Buffered
  <2>2. exceptions' = exceptions
    BY <1>10 DEF Incomplete, Stop, TypeOK
  <2> QED
    BY <1>1, <1>10, <2>1, <2>2 DEF Incomplete, Stop, Waits
<1>11. CASE StripTooLong(size)
  <2>1. ~fits[k + 1]
    <3>1. ~ (size <= max /\ strip <= size)
      BY <1>5, <1>11 DEF StripTooLong, strip
    <3> QED
      BY <1>6, <3>1, Zenon
  <2> QED
    BY <1>1, <1>6, <1>11, <2>1 DEF StripTooLong, Stop, Skips
<1>12. CASE Deliver(size)
  <2> DEFINE piece == SubSeq(stream, (head + strip) + 1, head + size)
             c == Content(layout, n, b)
  <2>1. size <= max /\ strip <= size /\ head + size <= tail
    BY <1>5, <1>7, <1>12 DEF Deliver, Complete, Buffered, strip, max
  <2>2. piece = c
    <3> DEFINE from == head + strip
               to == head + size
    <3>1. from \in Nat /\ to \in 0 .. Len(stream) /\ to - from = size - strip /\ from <= to
      BY <1>5, <1>7, <2>1
    <3> HIDE DEF from, to
    <3>2. /\ piece \in Seq(Bytes) /\ Len(piece) = size - strip
          /\ \A i \in 1 .. size - strip : piece[i] = stream[(head + strip) + i]
      <4>1. stream \in Seq(Bytes)
        BY DEF TypeOK
      <4>2. /\ SubSeq(stream, from + 1, to) \in Seq(Bytes)
            /\ Len(SubSeq(stream, from + 1, to)) = IF from <= to THEN to - from ELSE 0
            /\ \A i \in 1 .. to - from : SubSeq(stream, from + 1, to)[i] = stream[from + i]
        BY <3>1, <4>1, PieceProperties
      <4> QED
        BY <3>1, <4>2 DEF from, to
    <3>3. /\ c \in Seq(Bytes)
          /\ Len(c) = IF strip <= size THEN size - strip ELSE 0
          /\ \A i \in 1 .. size - strip : c[i] = Frame(layout, n, b)[strip + i]
      BY <1>5, ContentShape DEF strip, size
    <3> HIDE DEF piece, c
    <3>4. Len(piece) = size - strip /\ Len(c) = size - strip
      BY <1>5, <1>7, <2>1, <3>2, <3>3
    <3>5. ASSUME NEW i \in 1 .. size - strip
          PROVE  piece[i] = c[i]
      <4>1. strip + i \in 1 .. size /\ (head + strip) + i = head + (strip + i)
        BY <1>5, <1>7
      <4>2. piece[i] = stream[head + (strip + i)]
        BY <3>2, <4>1
      <4> QED
        BY <1>6, <3>3, <4>1, <4>2
    <3> QED
      BY <3>2, <3>3, <3>4, <3>5, SeqEqual
  <2>3. frames' = Append(frames, piece)
    BY <1>12 DEF Deliver, strip
  <2> HIDE DEF piece, c
  <2>4. frames' = Append(frames, sent[k + 1])
    BY <1>6, <2>2, <2>3 DEF c
  <2>5. fits[k + 1]
    BY <1>6, <2>1
  <2> QED
    BY <1>1, <1>6, <1>12, <2>4, <2>5 DEF Deliver, Passes, AfterFrame, historyVars
<1> QED
  BY <1>4, <1>8, <1>9, <1>10, <1>11, <1>12

-----------------------------------------------------------------------------
(***************************************************************************)
(* Counting messages                                                       *)
(***************************************************************************)

\* All of the first k messages fit, and no longer prefix of the messages does.
Lead(f, k) ==
    /\ k \in 0 .. Len(f)
    /\ \A i \in 1 .. k : f[i]
    /\ k = Len(f) \/ ~f[k + 1]

LEMMA LeadExists ==
    ASSUME NEW f \in Seq(BOOLEAN)
    PROVE  \E k \in 0 .. Len(f) : Lead(f, k)
<1> DEFINE T == {k \in 0 .. Len(f) : k = Len(f) \/ ~f[k + 1]}
<1>1. Len(f) \in Nat /\ \A i \in 1 .. Len(f) : f[i] \in BOOLEAN
  OBVIOUS
<1>2. T \in SUBSET Nat /\ T # {}
  <2>1. Len(f) \in T
    BY <1>1
  <2> QED
    BY <1>1, <2>1
<1>3. PICK k \in T : \A m \in T : k <= m
  <2> HIDE DEF T
  <2> QED
    BY <1>2, Least
<1>4. ASSUME NEW i \in 1 .. k
      PROVE  f[i]
  <2>1. i - 1 \in 0 .. Len(f) /\ ~ (k <= i - 1) /\ (i - 1) + 1 = i
    BY <1>1
  <2>2. i - 1 \notin T
    BY <1>3, <2>1
  <2> QED
    BY <2>1, <2>2
<1> QED
  BY <1>4 DEF Lead

LEMMA LeadUnique ==
    ASSUME NEW f \in Seq(BOOLEAN), NEW k, NEW m, Lead(f, k), Lead(f, m)
    PROVE  k = m
<1>1. Len(f) \in Nat /\ k \in Nat /\ m \in Nat /\ k <= Len(f) /\ m <= Len(f)
  BY DEF Lead
<1>2. ASSUME k < m PROVE FALSE
  <2>1. k + 1 \in 1 .. m /\ k # Len(f)
    BY <1>1, <1>2
  <2> QED
    BY <2>1 DEF Lead
<1>3. ASSUME m < k PROVE FALSE
  <2>1. m + 1 \in 1 .. k /\ m # Len(f)
    BY <1>1, <1>3
  <2> QED
    BY <2>1 DEF Lead
<1> QED
  BY <1>1, <1>2, <1>3

\* GoodMessages is the length of that prefix.
LEMMA GoodChoice ==
    ASSUME NEW f \in Seq(BOOLEAN), NEW n, n = Len(f)
    PROVE  Lead(f, CHOOSE k \in 0 .. n : (\A i \in 1 .. k : f[i]) /\ (k = n \/ ~f[k + 1]))
<1>1. PICK k \in 0 .. n : Lead(f, k)
  BY LeadExists
<1>2. \E m \in 0 .. n : (\A i \in 1 .. m : f[i]) /\ (m = n \/ ~f[m + 1])
  BY <1>1 DEF Lead
<1> DEFINE c == CHOOSE m \in 0 .. n : (\A i \in 1 .. m : f[i]) /\ (m = n \/ ~f[m + 1])
<1>3. c \in 0 .. n /\ (\A i \in 1 .. c : f[i]) /\ (c = n \/ ~f[c + 1])
  BY <1>2, Zenon
<1> HIDE DEF c
<1>4. Lead(f, c)
  BY <1>3 DEF Lead
<1> QED
  BY <1>4 DEF c

\* The messages among the first k that fit.
Passed(f, k) == {i \in 1 .. k : f[i]}

\* The place of the i-th message among them.
Rank(f, k, i) == Cardinality({j \in Passed(f, k) : j <= i})

LEMMA PassedType ==
    ASSUME NEW f, NEW k \in Nat
    PROVE  /\ IsFiniteSet(Passed(f, k))
           /\ Cardinality(Passed(f, k)) \in 0 .. k
<1>1. IsFiniteSet(1 .. k) /\ Cardinality(1 .. k) = k
  <2>1. 1 \in Int /\ k \in Int
    OBVIOUS
  <2>2. IsFiniteSet(1 .. k) /\ Cardinality(1 .. k) = IF 1 > k THEN 0 ELSE k - 1 + 1
    BY <2>1, FS_Interval
  <2> QED
    BY <2>2
<1>2. Passed(f, k) \in SUBSET (1 .. k)
  BY DEF Passed
<1>3. IsFiniteSet(Passed(f, k)) /\ Cardinality(Passed(f, k)) <= Cardinality(1 .. k)
  BY <1>1, <1>2, FS_Subset
<1>4. Cardinality(Passed(f, k)) \in Nat
  BY <1>3, FS_CardinalityType
<1> QED
  BY <1>1, <1>3, <1>4

LEMMA PassedNext ==
    ASSUME NEW f, NEW k \in Nat
    PROVE  /\ f[k + 1] => /\ Passed(f, k + 1) = Passed(f, k) \cup {k + 1}
                          /\ Cardinality(Passed(f, k + 1)) = Cardinality(Passed(f, k)) + 1
           /\ ~f[k + 1] => Passed(f, k + 1) = Passed(f, k)
           /\ k + 1 \notin Passed(f, k)
<1>1. \A i : i \in 1 .. k + 1 <=> i \in 1 .. k \/ i = k + 1
  OBVIOUS
<1>2. k + 1 \notin 1 .. k
  OBVIOUS
<1>3. k + 1 \notin Passed(f, k)
  BY <1>2 DEF Passed
<1>4. ASSUME f[k + 1]
      PROVE  Passed(f, k + 1) = Passed(f, k) \cup {k + 1}
  BY <1>1, <1>4 DEF Passed
<1>5. ASSUME ~f[k + 1]
      PROVE  Passed(f, k + 1) = Passed(f, k)
  BY <1>1, <1>5 DEF Passed
<1>6. Cardinality(Passed(f, k) \cup {k + 1}) = Cardinality(Passed(f, k)) + 1
  BY <1>3, PassedType, FS_AddElement
<1> QED
  BY <1>3, <1>4, <1>5, <1>6

LEMMA RankRange ==
    ASSUME NEW f, NEW k \in Nat, NEW i \in Passed(f, k)
    PROVE  Rank(f, k, i) \in 1 .. Cardinality(Passed(f, k))
<1> DEFINE S == {j \in Passed(f, k) : j <= i}
<1>1. S \in SUBSET Passed(f, k) /\ i \in S
  BY DEF Passed
<1> HIDE DEF S
<1>2. IsFiniteSet(Passed(f, k)) /\ Cardinality(Passed(f, k)) \in Nat
  BY PassedType
<1>3. IsFiniteSet(S) /\ Cardinality(S) <= Cardinality(Passed(f, k))
  BY <1>1, <1>2, FS_Subset
<1>4. Cardinality(S) \in Nat /\ Cardinality(S) # 0
  BY <1>1, <1>3, FS_CardinalityType, FS_EmptySet
<1>5. Rank(f, k, i) = Cardinality(S)
  BY DEF Rank, S
<1> QED
  BY <1>2, <1>3, <1>4, <1>5

\* A further message does not change the places of those before it, and takes
\* the last place.
LEMMA RankNext ==
    ASSUME NEW f, NEW k \in Nat, f[k + 1]
    PROVE  /\ \A i \in Passed(f, k) : Rank(f, k + 1, i) = Rank(f, k, i)
           /\ Rank(f, k + 1, k + 1) = Cardinality(Passed(f, k)) + 1
<1>1. Passed(f, k + 1) = Passed(f, k) \cup {k + 1}
  BY PassedNext
<1>2. ASSUME NEW i \in Passed(f, k)
      PROVE  Rank(f, k + 1, i) = Rank(f, k, i)
  <2>1. i \in 1 .. k /\ ~ (k + 1 <= i)
    BY DEF Passed
  <2>2. {j \in Passed(f, k + 1) : j <= i} = {j \in Passed(f, k) : j <= i}
    BY <1>1, <2>1
  <2> QED
    BY <2>2 DEF Rank
<1>3. {j \in Passed(f, k + 1) : j <= k + 1} = Passed(f, k + 1)
  BY DEF Passed
<1>4. Rank(f, k + 1, k + 1) = Cardinality(Passed(f, k + 1))
  BY <1>3 DEF Rank
<1> QED
  BY <1>2, <1>4, PassedNext

LEMMA LeadPassed ==
    ASSUME NEW f \in Seq(BOOLEAN), NEW g, Lead(f, g), NEW k \in 0 .. Len(f)
    PROVE  /\ k <= g => Cardinality(Passed(f, k)) = k
           /\ k > g => Cardinality(Passed(f, k)) \in g .. k - 1
           /\ \A i \in 1 .. g : i <= k => i \in Passed(f, k) /\ Rank(f, k, i) = i
<1>1. Len(f) \in Nat /\ k \in Nat /\ g \in Nat /\ g <= Len(f)
  BY DEF Lead
<1>2. \A m \in Nat : IsFiniteSet(1 .. m) /\ Cardinality(1 .. m) = m
  <2> TAKE m \in Nat
  <2>1. 1 \in Int /\ m \in Int
    OBVIOUS
  <2>2. IsFiniteSet(1 .. m) /\ Cardinality(1 .. m) = IF 1 > m THEN 0 ELSE m - 1 + 1
    BY <2>1, FS_Interval
  <2> QED
    BY <2>2
<1>3. ASSUME k <= g
      PROVE  Cardinality(Passed(f, k)) = k
  <2>1. \A i \in 1 .. k : i \in 1 .. g
    BY <1>1, <1>3
  <2>2. Passed(f, k) = 1 .. k
    BY <2>1 DEF Passed, Lead
  <2> QED
    BY <1>1, <1>2, <2>2
<1>4. ASSUME k > g
      PROVE  Cardinality(Passed(f, k)) \in g .. k - 1
  <2>1. g + 1 \in 1 .. k /\ g # Len(f)
    BY <1>1, <1>4
  <2>2. g + 1 \notin Passed(f, k)
    BY <2>1 DEF Passed, Lead
  <2>3. 1 .. g \in SUBSET Passed(f, k)
    BY <1>1, <1>4 DEF Passed, Lead
  <2>4. Passed(f, k) \in SUBSET (1 .. k) /\ Passed(f, k) # 1 .. k
    BY <2>1, <2>2 DEF Passed
  <2>5. IsFiniteSet(Passed(f, k)) /\ Cardinality(Passed(f, k)) \in Nat
    BY <1>1, PassedType
  <2>6. g <= Cardinality(Passed(f, k))
    <3>1. Cardinality(1 .. g) <= Cardinality(Passed(f, k))
      BY <2>3, <2>5, FS_Subset
    <3> QED
      BY <1>1, <1>2, <3>1
  <2>7. Cardinality(Passed(f, k)) <= k /\ Cardinality(Passed(f, k)) # k
    <3>1. IsFiniteSet(1 .. k) /\ Cardinality(1 .. k) = k
      BY <1>1, <1>2
    <3>2. /\ Cardinality(Passed(f, k)) <= Cardinality(1 .. k)
          /\ Cardinality(1 .. k) = Cardinality(Passed(f, k)) => 1 .. k = Passed(f, k)
      BY <2>4, <3>1, FS_Subset
    <3> QED
      BY <2>4, <3>1, <3>2
  <2> QED
    BY <1>1, <2>5, <2>6, <2>7
<1>5. ASSUME NEW i \in 1 .. g, i <= k
      PROVE  i \in Passed(f, k) /\ Rank(f, k, i) = i
  <2>1. i \in Passed(f, k)
    BY <1>1, <1>5 DEF Passed, Lead
  <2>2. {j \in Passed(f, k) : j <= i} = 1 .. i
    <3>1. ASSUME NEW j \in Passed(f, k), j <= i
          PROVE  j \in 1 .. i
      BY <1>1, <3>1 DEF Passed
    <3>2. ASSUME NEW j \in 1 .. i
          PROVE  j \in Passed(f, k) /\ j <= i
      <4>1. j \in 1 .. g /\ j \in 1 .. k /\ j <= i
        BY <1>1, <1>5
      <4> QED
        BY <4>1 DEF Passed, Lead
    <3> QED
      BY <3>1, <3>2
  <2>3. Cardinality(1 .. i) = i
    BY <1>2
  <2> QED
    BY <2>1, <2>2, <2>3 DEF Rank
<1> QED
  BY <1>3, <1>4, <1>5

-----------------------------------------------------------------------------
(***************************************************************************)
(* The decoder keeps its place in the stream                               *)
(***************************************************************************)

\* The decoder stands behind the k-th frame and has passed on what fits of the
\* k messages before.
InSyncAt(k) ==
    /\ k \in 0 .. Len(sent)
    /\ head = Position(k)
    /\ Len(frames) = Cardinality(Passed(fits, k))
    /\ exceptions = k - Cardinality(Passed(fits, k))
    /\ \A i \in Passed(fits, k) : frames[Rank(fits, k, i)] = sent[i]

LEMMA InSyncMeaning == InSync <=> torn \/ \E k \in 0 .. Len(sent) : InSyncAt(k)
  BY DEF InSync, InSyncAt, Passed, Rank, Position

LEMMA InSyncMeaningNext == InSync' <=> torn' \/ \E k \in 0 .. Len(sent') : InSyncAt(k)'
  BY DEF InSync, InSyncAt, Passed, Rank, Position

LEMMA GoodIsLead ==
    ASSUME TypeOK, StreamOfFrames
    PROVE  Lead(fits, GoodMessages)
<1>1. fits \in Seq(BOOLEAN) /\ Len(sent) = Len(fits)
  BY DEF TypeOK, StreamOfFrames
<1> QED
  BY <1>1, GoodChoice DEF GoodMessages

\* What the place of the decoder says of the messages ahead of the first one
\* that does not fit.
LEMMA PlaceAndOutput ==
    ASSUME TypeOK, StreamOfFrames, NEW k, InSyncAt(k)
    PROVE  LET g == GoodMessages
           IN  /\ g \in 0 .. Len(sent)
               /\ \A i \in 1 .. g : i <= k => frames[i] = sent[i]
               /\ k <= g => Len(frames) = k /\ exceptions = 0
               /\ k > g => Len(frames) >= g /\ exceptions > 0 /\ g < Len(sent)
               /\ Len(frames) <= k
<1> DEFINE g == GoodMessages
           c == Cardinality(Passed(fits, k))
<1>1. fits \in Seq(BOOLEAN) /\ Len(sent) = Len(fits) /\ Len(sent) \in Nat
  BY DEF TypeOK, StreamOfFrames
<1>2. Lead(fits, g) /\ g \in 0 .. Len(sent)
  BY <1>1, GoodIsLead DEF Lead
<1>3. k \in 0 .. Len(fits) /\ k \in Nat
  BY <1>1 DEF InSyncAt
<1>4. c \in 0 .. k /\ Len(frames) = c /\ exceptions = k - c
  BY <1>3, PassedType DEF InSyncAt
<1> HIDE DEF g
<1>5. /\ k <= g => c = k
      /\ k > g => c \in g .. k - 1
      /\ \A i \in 1 .. g : i <= k => i \in Passed(fits, k) /\ Rank(fits, k, i) = i
  BY <1>1, <1>2, <1>3, LeadPassed
<1> HIDE DEF c
<1>6. ASSUME NEW i \in 1 .. g, i <= k
      PROVE  frames[i] = sent[i]
  <2>1. i \in Passed(fits, k) /\ Rank(fits, k, i) = i
    BY <1>5, <1>6
  <2>2. frames[Rank(fits, k, i)] = sent[i]
    BY <2>1 DEF InSyncAt
  <2> QED
    BY <2>1, <2>2
<1>7. k <= g => Len(frames) = k /\ exceptions = 0
  BY <1>3, <1>4, <1>5
<1>8. k > g => Len(frames) >= g /\ exceptions > 0 /\ g < Len(sent)
  BY <1>1, <1>2, <1>3, <1>4, <1>5
<1> QED
  BY <1>2, <1>3, <1>4, <1>6, <1>7, <1>8 DEF g

\* The messages that were passed on stay where they are when others are sent.
LEMMA SyncSend ==
    ASSUME TypeOK, StreamOfFrames, NEW n \in BodyLengths, NEW b \in Bytes, Send(n, b),
           NEW k, InSyncAt(k)
    PROVE  InSyncAt(k)'
<1>1. /\ Len(sent') = Len(sent) + 1
      /\ \A i \in 1 .. Len(sent) :
           sent'[i] = sent[i] /\ fits'[i] = fits[i] /\ ends'[i] = ends[i]
  BY SendAppends
<1>2. k \in 0 .. Len(sent) /\ Len(sent) \in Nat
  BY PositionType DEF InSyncAt
<1>3. head' = head /\ frames' = frames /\ exceptions' = exceptions
  BY DEF Send
<1>4. \A i \in 1 .. k : i \in 1 .. Len(sent)
  BY <1>2
<1>5. Passed(fits', k) = Passed(fits, k)
  BY <1>1, <1>4 DEF Passed
<1>6. \A i : Rank(fits', k, i) = Rank(fits, k, i)
  BY <1>5 DEF Rank
<1>7. Position(k)' = Position(k)
  <2>1. k = 0 \/ k \in 1 .. Len(sent)
    BY <1>2
  <2> QED
    BY <1>1, <2>1 DEF Position
<1>8. \A i \in Passed(fits, k) : sent'[i] = sent[i]
  BY <1>1, <1>4 DEF Passed
<1>9. k \in 0 .. Len(sent')
  BY <1>1, <1>2
<1> QED
  BY <1>3, <1>5, <1>6, <1>7, <1>8, <1>9 DEF InSyncAt

\* A frame that is passed on takes the decoder to the end of that frame.
LEMMA SyncPasses ==
    ASSUME TypeOK, StreamOfFrames, UNCHANGED <<layout, sent, fits, stream, tail, ends>>,
           NEW k, InSyncAt(k), k + 1 \in 1 .. Len(sent), Passes(k)
    PROVE  InSyncAt(k + 1)'
<1> DEFINE c == Cardinality(Passed(fits, k))
<1>1. k \in Nat /\ Len(sent) \in Nat /\ sent[k + 1] \in Seq(Bytes) /\ c \in 0 .. k
  <2>1. k \in Nat /\ Len(sent) \in Nat
    BY PositionType DEF InSyncAt
  <2>2. c \in 0 .. k
    BY <2>1, PassedType
  <2>3. sent[k + 1] \in Seq(Bytes)
    BY DEF TypeOK
  <2> QED
    BY <2>1, <2>2, <2>3
<1>2. Len(frames) = c /\ exceptions = k - c
  BY DEF InSyncAt
<1>3. fits[k + 1]
  BY DEF Passes
<1>4. /\ Passed(fits, k + 1) = Passed(fits, k) \cup {k + 1}
      /\ Cardinality(Passed(fits, k + 1)) = c + 1
  BY <1>1, <1>3, PassedNext
<1>5. /\ Len(frames') = Len(frames) + 1
      /\ \A i \in 1 .. Len(frames) : frames'[i] = frames[i]
      /\ frames'[Len(frames) + 1] = sent[k + 1]
  BY <1>1, AppendProperties DEF Passes, TypeOK
<1>6. ASSUME NEW i \in Passed(fits, k + 1)
      PROVE  frames'[Rank(fits, k + 1, i)] = sent[i]
  <2>1. CASE i = k + 1
    BY <1>1, <1>2, <1>3, <1>5, <2>1, RankNext
  <2>2. CASE i \in Passed(fits, k)
    <3>1. Rank(fits, k + 1, i) = Rank(fits, k, i)
      BY <1>1, <1>3, <2>2, RankNext
    <3>2. Rank(fits, k, i) \in 1 .. c
      BY <1>1, <2>2, RankRange
    <3>3. frames[Rank(fits, k, i)] = sent[i]
      BY <2>2 DEF InSyncAt
    <3> QED
      BY <1>2, <1>5, <3>1, <3>2, <3>3
  <2> QED
    BY <1>4, <2>1, <2>2
<1> HIDE DEF c
<1>7. Len(frames') = c + 1 /\ exceptions' = (k + 1) - (c + 1)
  BY <1>1, <1>2, <1>5 DEF Passes
<1>8. head' = Position(k + 1)' /\ k + 1 \in 0 .. Len(sent')
  BY <1>1 DEF Passes, Position
<1> QED
  BY <1>4, <1>6, <1>7, <1>8 DEF InSyncAt

\* So does one that is dropped, unless a part of it is still to arrive.
LEMMA SyncSkips ==
    ASSUME TypeOK, StreamOfFrames, UNCHANGED <<layout, sent, fits, stream, tail, ends>>,
           NEW k, InSyncAt(k), k + 1 \in 1 .. Len(sent), Skips(k), ~torn'
    PROVE  InSyncAt(k + 1)'
<1> DEFINE c == Cardinality(Passed(fits, k))
<1>1. k \in Nat /\ Len(sent) \in Nat /\ c \in 0 .. k
  BY PositionType, PassedType DEF InSyncAt
<1>2. Len(frames) = c /\ exceptions = k - c
  BY DEF InSyncAt
<1>3. ~fits[k + 1]
  BY DEF Skips
<1>4. Passed(fits, k + 1) = Passed(fits, k)
  BY <1>1, <1>3, PassedNext
<1>5. \A i : Rank(fits, k + 1, i) = Rank(fits, k, i)
  BY <1>4 DEF Rank
<1> HIDE DEF c
<1>6. Len(frames') = c /\ exceptions' = (k + 1) - c
  BY <1>1, <1>2 DEF Skips
<1>7. head' = Position(k + 1)' /\ k + 1 \in 0 .. Len(sent')
  BY <1>1 DEF Skips, Position
<1>8. \A i \in Passed(fits, k + 1) : frames'[Rank(fits, k + 1, i)] = sent[i]
  BY <1>4, <1>5 DEF InSyncAt, Skips
<1> QED
  BY <1>4, <1>6, <1>7, <1>8 DEF InSyncAt, c

-----------------------------------------------------------------------------
(***************************************************************************)
(* Every step keeps the invariant                                          *)
(***************************************************************************)

\* A further message counts if no earlier one is too long and it is not either.
LEMMA GoodSend ==
    ASSUME TypeOK, StreamOfFrames, TypeOK', StreamOfFrames',
           NEW n \in BodyLengths, NEW b \in Bytes, Send(n, b)
    PROVE  GoodMessages' = IF GoodMessages = Len(sent) /\ fits'[Len(sent) + 1]
                           THEN Len(sent) + 1 ELSE GoodMessages
<1> DEFINE g == GoodMessages
           h == IF g = Len(sent) /\ fits'[Len(sent) + 1] THEN Len(sent) + 1 ELSE g
<1>1. /\ Len(sent) \in Nat /\ Len(fits) = Len(sent) /\ Len(fits') = Len(sent) + 1
      /\ \A i \in 1 .. Len(sent) : fits'[i] = fits[i]
  BY PositionType, SendAppends DEF StreamOfFrames
<1>2. Lead(fits, g)
  BY GoodIsLead
<1>3. fits' \in Seq(BOOLEAN) /\ Len(sent') = Len(fits')
  BY DEF TypeOK, StreamOfFrames
<1>4. Lead(fits', GoodMessages')
  BY <1>3, GoodChoice DEF GoodMessages
<1> HIDE DEF g
<1>5. Lead(fits', h)
  <2>1. g \in 0 .. Len(sent) /\ (\A i \in 1 .. g : fits[i]) /\ (g = Len(sent) \/ ~fits[g + 1])
    BY <1>1, <1>2 DEF Lead
  <2>2. \A i \in 1 .. g : i \in 1 .. Len(sent) /\ fits'[i]
    BY <1>1, <2>1
  <2>3. CASE g = Len(sent) /\ fits'[Len(sent) + 1]
    <3>1. h = Len(sent) + 1
      BY <2>3
    <3>2. \A i \in 1 .. Len(sent) + 1 : i \in 1 .. g \/ i = Len(sent) + 1
      BY <1>1, <2>3
    <3>3. \A i \in 1 .. Len(sent) + 1 : fits'[i]
      BY <2>2, <2>3, <3>2
    <3> QED
      BY <1>1, <3>1, <3>3 DEF Lead
  <2>4. CASE g = Len(sent) /\ ~fits'[Len(sent) + 1]
    <3>1. h = g /\ g \in 0 .. Len(fits') /\ ~fits'[g + 1]
      BY <1>1, <2>1, <2>4
    <3> QED
      BY <2>2, <3>1 DEF Lead
  <2>5. CASE g # Len(sent)
    <3>1. h = g /\ g \in 0 .. Len(fits') /\ g + 1 \in 1 .. Len(sent) /\ ~fits[g + 1]
      BY <1>1, <2>1, <2>5
    <3>2. ~fits'[g + 1]
      BY <1>1, <3>1
    <3> QED
      BY <2>2, <3>1, <3>2 DEF Lead
  <2> QED
    BY <2>3, <2>4, <2>5
<1>6. GoodMessages' = h
  BY <1>3, <1>4, <1>5, LeadUnique
<1> QED
  BY <1>6 DEF g

LEMMA InvSend ==
    ASSUME Inv, TypeOK', NEW n \in BodyLengths, NEW b \in Bytes, Send(n, b), Suits(layout)
    PROVE  Inv'
<1> USE DEF Inv
<1>1. StreamOfFrames'
  BY StreamSend
<1>2. /\ Len(sent) \in Nat /\ Len(sent') = Len(sent) + 1
      /\ Len(stream) \in Nat /\ Len(stream') = Len(stream) + Size(layout, n)
      /\ \A i \in 1 .. Len(sent) : sent'[i] = sent[i] /\ ends'[i] = ends[i]
      /\ ends'[Len(sent) + 1] = Len(stream')
  <2>1. Len(sent) \in Nat /\ Len(stream) \in Nat
    BY DEF TypeOK
  <2> QED
    BY <2>1, SendAppends
<1>3. UNCHANGED <<layout, tail, head, pc, frames, exceptions, torn>>
  BY DEF Send
<1>4. InSync'
  <2>1. CASE torn
    BY <1>3, <2>1 DEF InSync
  <2>2. ASSUME NEW k \in 0 .. Len(sent), InSyncAt(k)
        PROVE  InSync'
    <3>1. InSyncAt(k)'
      BY <2>2, SyncSend
    <3>2. k \in 0 .. Len(sent')
      BY <1>2
    <3> QED
      BY <3>1, <3>2, InSyncMeaningNext
  <2> QED
    BY <2>1, <2>2, InSyncMeaning
<1>5. TornLate'
  <2> SUFFICES ASSUME torn
               PROVE  /\ GoodMessages' < Len(sent') /\ GoodMessages' <= Len(frames)
                      /\ \A i \in 1 .. GoodMessages' : frames[i] = sent'[i]
                      /\ exceptions > 0
    BY <1>3 DEF TornLate
  <2>1. /\ GoodMessages < Len(sent) /\ GoodMessages <= Len(frames)
        /\ \A i \in 1 .. GoodMessages : frames[i] = sent[i]
        /\ exceptions > 0
    BY DEF TornLate
  <2>2. GoodMessages \in Nat
    BY GoodIsLead, PositionType DEF Lead, StreamOfFrames
  <2>3. GoodMessages' = GoodMessages
    BY <1>1, <1>2, <2>1, <2>2, GoodSend
  <2>4. ASSUME NEW i \in 1 .. GoodMessages
        PROVE  frames[i] = sent'[i]
    <3>1. i \in 1 .. Len(sent)
      BY <1>2, <2>1, <2>2
    <3> QED
      BY <1>2, <2>1, <3>1
  <2> QED
    BY <1>2, <2>1, <2>2, <2>3, <2>4
<1>6. NothingWaits'
  <2> SUFFICES ASSUME pc = "idle", exceptions = 0, NEW i \in 1 .. Len(sent'), head < ends'[i]
               PROVE  tail < ends'[i]
    BY <1>3 DEF NothingWaits
  <2>1. CASE i \in 1 .. Len(sent)
    BY <1>2, <2>1 DEF NothingWaits
  <2>2. CASE i = Len(sent) + 1
    <3>1. Size(layout, n) \in Nat \ {0}
      <4>1. layout \in Layouts /\ n \in Nat
        BY BoundsAssumption DEF TypeOK
      <4> QED
        BY <4>1, SizeBounds, FieldValueType
    <3>2. tail \in Nat /\ tail <= Len(stream)
      BY <1>2 DEF TypeOK
    <3> QED
      BY <1>2, <2>2, <3>1, <3>2
  <2> QED
    BY <1>2, <2>1, <2>2
<1> QED
  BY <1>1, <1>4, <1>5, <1>6

LEMMA StreamKept ==
    ASSUME StreamOfFrames, UNCHANGED <<layout, sent, fits, stream, ends>>
    PROVE  StreamOfFrames' /\ GoodMessages' = GoodMessages
<1>1. layout' = layout /\ sent' = sent /\ fits' = fits /\ stream' = stream /\ ends' = ends
  OBVIOUS
<1>2. GoodMessages' = GoodMessages
  BY <1>1 DEF GoodMessages
<1>3. \A k : Position(k)' = Position(k)
  BY <1>1 DEF Position
<1>4. \A i, n, b : FramedAs(i, n, b)' <=> FramedAs(i, n, b)
  BY <1>1, <1>3, ZenonT(30) DEF FramedAs
<1>5. Position(Len(sent))' = Position(Len(sent))
  BY <1>1 DEF Position
<1> QED
  BY <1>1, <1>2, <1>3, <1>4, <1>5, Zenon DEF StreamOfFrames

\* Steps that leave the decoder where it is.
LEMMA PlaceKept ==
    ASSUME InSync, TornLate, UNCHANGED <<sent, fits, head, frames, exceptions, ends, torn>>
    PROVE  InSync' /\ TornLate'
<1>1. GoodMessages' = GoodMessages
  BY DEF GoodMessages
<1>2. InSync'
  <2>1. /\ sent' = sent /\ fits' = fits /\ head' = head /\ frames' = frames
        /\ exceptions' = exceptions /\ ends' = ends /\ torn' = torn
    OBVIOUS
  <2>2. \A k : InSyncAt(k)' <=> InSyncAt(k)
    BY <2>1 DEF InSyncAt, Position
  <2> QED
    BY <2>1, <2>2, InSyncMeaning, InSyncMeaningNext
<1> QED
  BY <1>1, <1>2 DEF TornLate

\* With less than a whole frame in the queue, nothing has arrived completely.
LEMMA WaitingForNext ==
    ASSUME TypeOK, StreamOfFrames, NEW k \in 0 .. Len(sent), head = Position(k),
           k + 1 \in 1 .. Len(sent) => tail < Position(k + 1),
           NEW i \in 1 .. Len(sent), head < ends[i]
    PROVE  tail < ends[i]
<1>1. /\ Len(sent) \in Nat
      /\ \A m \in 0 .. Len(sent) : Position(m) \in Nat
      /\ \A m, j \in 0 .. Len(sent) : m <= j => Position(m) <= Position(j)
  BY PositionType DEF StreamOfFrames
<1>2. i \in 0 .. Len(sent) /\ Position(i) = ends[i] /\ tail \in Nat
  BY <1>1 DEF Position, TypeOK
<1>3. ~ (i <= k)
  BY <1>1, <1>2
<1>4. k + 1 \in 1 .. Len(sent) /\ k + 1 \in 0 .. Len(sent) /\ k + 1 <= i
  BY <1>1, <1>3
<1>5. Position(k + 1) <= Position(i) /\ Position(k + 1) \in Nat /\ Position(i) \in Nat
  BY <1>1, <1>2, <1>4
<1> QED
  BY <1>2, <1>4, <1>5

LEMMA InvNoHeader ==
    ASSUME Inv, TypeOK', NoHeader
    PROVE  Inv'
<1> USE DEF Inv
<1>1. /\ UNCHANGED <<layout, sent, fits, stream, tail, head, frames, exceptions, ends, torn>>
      /\ pc' = "idle"
  BY DEF NoHeader, Stop, TypeOK
<1>2. StreamOfFrames' /\ InSync' /\ TornLate'
  BY <1>1, StreamKept, PlaceKept
<1>3. NothingWaits'
  <2> SUFFICES ASSUME exceptions = 0, NEW i \in 1 .. Len(sent), head < ends[i]
               PROVE  tail < ends[i]
    BY <1>1 DEF NothingWaits
  <2>1. ~torn
    BY DEF TornLate
  <2>2. PICK k \in 0 .. Len(sent) : InSyncAt(k)
    BY <2>1, InSyncMeaning
  <2>3. ASSUME k + 1 \in 1 .. Len(sent)
        PROVE  tail < Position(k + 1)
    <3>1. PICK n \in BodyLengths, b \in Bytes : FramedAs(k + 1, n, b)
      BY <2>3 DEF StreamOfFrames
    <3>2. (k + 1) - 1 = k /\ k + 1 # 0
      BY <2>3
    <3>3. Position(k + 1) = head + Size(layout, n)
      BY <2>2, <3>1, <3>2 DEF FramedAs, Position, InSyncAt
    <3>4. layout \in Layouts /\ n \in Nat
      BY BoundsAssumption DEF TypeOK
    <3>5. lengthFieldEndOffset_ \in Nat /\ Size(layout, n) \in Nat
          /\ lengthFieldEndOffset_ <= Size(layout, n)
      BY <3>4, SizeBounds, FieldValueType DEF lengthFieldEndOffset_
    <3>6. tail \in Nat /\ head \in Nat /\ ~ (tail - head >= lengthFieldEndOffset_)
      BY DEF TypeOK, NoHeader, HeaderArrived, Buffered
    <3> QED
      BY <3>3, <3>5, <3>6
  <2> QED
    BY <2>2, <2>3, WaitingForNext DEF InSyncAt
<1> QED
  BY <1>2, <1>3

\* A decoder that has lost its place in the stream.
LEMMA InvTorn ==
    ASSUME Inv, TypeOK', DecodeField, torn
    PROVE  Inv'
<1> USE DEF Inv
<1>1. PICK u \in getUnadjustedFrameLength :
        \/ TooSmall(FrameLength(u))
        \/ TooLarge(FrameLength(u))
        \/ Incomplete(FrameLength(u))
        \/ StripTooLong(FrameLength(u))
        \/ Deliver(FrameLength(u))
  BY DEF DecodeField
<1> DEFINE length == FrameLength(u)
           piece == SubSeq(stream, head + layout.initialBytesToStrip + 1, head + length)
<1>2. UNCHANGED <<layout, sent, fits, stream, tail, ends>>
  BY <1>1 DEF TooSmall, TooLarge, Incomplete, StripTooLong, Deliver, Stop, historyVars
<1>3. torn'
  BY <1>1 DEF TooSmall, TooLarge, Incomplete, StripTooLong, Deliver, historyVars
<1>4. exceptions' \in {exceptions, exceptions + 0, exceptions + 1}
  BY <1>1 DEF TooSmall, TooLarge, Incomplete, StripTooLong, Deliver, Stop
<1>5. exceptions > 0 /\ exceptions' > 0
  <2>1. exceptions \in Nat /\ exceptions > 0
    BY DEF TypeOK, TornLate
  <2> QED
    BY <1>4, <2>1
<1>6. frames' = frames \/ frames' = Append(frames, piece)
  BY <1>1 DEF TooSmall, TooLarge, Incomplete, StripTooLong, Deliver, Stop
<1> HIDE DEF length, piece
<1>7. StreamOfFrames' /\ GoodMessages' = GoodMessages
  BY <1>2, StreamKept
<1>8. InSync'
  BY <1>3 DEF InSync
<1>9. NothingWaits'
  <2>1. exceptions' # 0
    BY <1>5
  <2> QED
    BY <2>1 DEF NothingWaits
<1>10. TornLate'
  <2>1. /\ GoodMessages < Len(sent) /\ GoodMessages <= Len(frames)
        /\ \A i \in 1 .. GoodMessages : frames[i] = sent[i]
    BY DEF TornLate
  <2>2. GoodMessages \in Nat
    BY GoodIsLead, PositionType DEF Lead, StreamOfFrames
  <2>3. Len(frames) \in Nat /\ Len(frames') >= Len(frames)
        /\ \A i \in 1 .. Len(frames) : frames'[i] = frames[i]
    <3>1. Len(frames) \in Nat
      BY DEF TypeOK
    <3>2. CASE frames' = frames
      BY <3>1, <3>2
    <3>3. CASE frames' = Append(frames, piece)
      BY <3>1, <3>3 DEF TypeOK
    <3> QED
      BY <1>6, <3>1, <3>2, <3>3
  <2>4. Len(frames') \in Nat
    BY DEF TypeOK
  <2>5. \A i \in 1 .. GoodMessages : frames'[i] = sent[i]
    BY <2>1, <2>2, <2>3
  <2>6. GoodMessages <= Len(frames')
    BY <2>1, <2>2, <2>3, <2>4
  <2> QED
    BY <1>2, <1>5, <1>7, <2>1, <2>5, <2>6 DEF TornLate
<1> QED
  BY <1>7, <1>8, <1>9, <1>10

\* A decoder that has not.
LEMMA InvDecodeField ==
    ASSUME Inv, TypeOK', DecodeField, ~torn, Suits(layout)
    PROVE  Inv'
<1> USE DEF Inv
<1>1. PICK k \in 0 .. Len(sent) : InSyncAt(k)
  BY InSyncMeaning
<1>2. /\ k + 1 \in 1 .. Len(sent)
      /\ UNCHANGED <<layout, sent, fits, stream, tail, ends>>
      /\ Skips(k) \/ Waits(k) \/ Passes(k)
  BY <1>1, DecodeCases DEF InSyncAt
<1>3. StreamOfFrames' /\ GoodMessages' = GoodMessages
  BY <1>2, StreamKept
<1>4. k \in Nat /\ Len(sent) \in Nat /\ k + 1 \in 0 .. Len(sent') /\ exceptions \in Nat
  BY <1>2, PositionType DEF TypeOK
<1>5. CASE Skips(k)
  <2>1. exceptions' > 0
    BY <1>4, <1>5 DEF Skips
  <2>2. InSync'
    <3>1. CASE torn'
      BY <3>1, InSyncMeaningNext
    <3>2. CASE ~torn'
      BY <1>1, <1>2, <1>4, <1>5, <3>2, SyncSkips, InSyncMeaningNext
    <3> QED
      BY <3>1, <3>2
  <2>3. TornLate'
    <3> DEFINE g == GoodMessages
    <3>1. /\ g \in 0 .. Len(sent)
          /\ \A i \in 1 .. g : i <= k => frames[i] = sent[i]
          /\ k <= g => Len(frames) = k
          /\ k > g => Len(frames) >= g
      BY <1>1, PlaceAndOutput
    <3>2. Lead(fits, g)
      BY GoodIsLead
    <3> HIDE DEF g
    <3>3. g <= k
      <4>1. ~ (k + 1 \in 1 .. g)
        BY <1>5, <3>2 DEF Lead, Skips
      <4> QED
        BY <1>4, <3>1, <4>1
    <3>4. g < Len(sent) /\ g <= Len(frames)
      BY <1>2, <1>4, <3>1, <3>3
    <3>5. \A i \in 1 .. g : frames[i] = sent[i]
      BY <1>4, <3>1, <3>3
    <3>6. GoodMessages' = g /\ sent' = sent /\ frames' = frames
      BY <1>2, <1>3, <1>5 DEF g, Skips
    <3> QED
      BY <2>1, <3>4, <3>5, <3>6 DEF TornLate
  <2>4. NothingWaits'
    <3>1. exceptions' # 0
      BY <2>1
    <3> QED
      BY <3>1 DEF NothingWaits
  <2> QED
    BY <1>3, <2>2, <2>3, <2>4
<1>6. CASE Waits(k)
  <2>1. InSync' /\ TornLate'
    BY <1>2, <1>6, PlaceKept DEF Waits
  <2>2. NothingWaits'
    <3> SUFFICES ASSUME NEW i \in 1 .. Len(sent), head < ends[i]
                 PROVE  tail < ends[i]
      BY <1>2, <1>6 DEF NothingWaits, Waits
    <3> QED
      BY <1>1, <1>6, WaitingForNext DEF Waits, InSyncAt
  <2> QED
    BY <1>3, <2>1, <2>2
<1>7. CASE Passes(k)
  <2>1. InSync'
    BY <1>1, <1>2, <1>4, <1>7, SyncPasses, InSyncMeaningNext
  <2>2. ~torn' /\ pc' # "idle"
    BY <1>7 DEF Passes
  <2> QED
    BY <1>3, <2>1, <2>2 DEF TornLate, NothingWaits
<1> QED
  BY <1>2, <1>5, <1>6, <1>7

LEMMA InvStep ==
    ASSUME Inv, [Next]_vars, \A y \in Layouts : Suits(y)
    PROVE  Inv'
<1>1. TypeOK' /\ Suits(layout)
  BY TypeStep DEF Inv, TypeOK
<1>2. ASSUME NEW n \in BodyLengths, NEW b \in Bytes, Send(n, b)
      PROVE  Inv'
  BY <1>1, <1>2, InvSend
<1>3. ASSUME SomethingArrives
      PROVE  Inv'
  <2>1. PICK n \in 1 .. Len(stream) - tail : Arrive(n)
    BY <1>3 DEF SomethingArrives
  <2>2. /\ UNCHANGED <<layout, sent, fits, stream, head, frames, exceptions, ends, torn>>
        /\ pc' # "idle"
    BY <2>1 DEF Arrive, historyVars
  <2>3. StreamOfFrames' /\ InSync' /\ TornLate'
    BY <2>2, StreamKept, PlaceKept DEF Inv
  <2> QED
    BY <1>1, <2>2, <2>3 DEF Inv, NothingWaits
<1>4. CASE NoHeader
  BY <1>1, <1>4, InvNoHeader
<1>5. CASE DecodeField
  BY <1>1, <1>5, InvTorn, InvDecodeField
<1>6. CASE UNCHANGED vars
  <2>1. UNCHANGED <<layout, sent, fits, stream, tail, head, pc, frames, exceptions, ends, torn>>
    BY <1>6 DEF vars, historyVars
  <2>2. StreamOfFrames' /\ InSync' /\ TornLate'
    BY <2>1, StreamKept, PlaceKept DEF Inv
  <2>3. NothingWaits'
    BY <2>1 DEF Inv, NothingWaits
  <2> QED
    BY <1>1, <2>2, <2>3 DEF Inv
<1> QED
  BY <1>2, <1>3, <1>4, <1>5, <1>6 DEF Next, Decode, Quiet

LEMMA InvInit ==
    ASSUME Init
    PROVE  Inv
<1>1. /\ sent = <<>> /\ fits = <<>> /\ stream = <<>> /\ frames = <<>> /\ ends = <<>>
      /\ tail = 0 /\ head = 0 /\ exceptions = 0 /\ torn = FALSE
  BY DEF Init
<1>2. \A S : <<>> \in Seq(S) /\ Len(<<>>) = 0
  BY EmptySeq
<1>3. TypeOK
  <2>1. head \in 0 .. tail /\ tail \in 0 .. Len(stream)
    BY <1>1, <1>2
  <2> QED
    BY <1>2, <2>1 DEF Init, TypeOK
<1>4. StreamOfFrames
  <2>1. Len(sent) = 0 /\ Len(fits) = 0 /\ Len(ends) = 0 /\ Len(stream) = 0
    BY <1>1, <1>2
  <2>2. Position(0) = 0 /\ 0 .. 0 = {0} /\ 1 .. 0 = {}
    BY DEF Position
  <2> QED
    BY <2>1, <2>2 DEF StreamOfFrames
<1>5. InSync
  <2>1. Passed(fits, 0) = {}
    BY DEF Passed
  <2>2. InSyncAt(0)
    BY <1>1, <1>2, <2>1, FS_EmptySet DEF InSyncAt, Position
  <2>3. 0 \in 0 .. Len(sent)
    BY <1>1, <1>2
  <2> QED
    BY <2>2, <2>3, InSyncMeaning
<1>6. TornLate /\ NothingWaits
  <2>1. 1 .. Len(sent) = {}
    BY <1>1, <1>2
  <2> QED
    BY <1>1, <2>1 DEF TornLate, NothingWaits
<1> QED
  BY <1>3, <1>4, <1>5, <1>6 DEF Inv

\* The decoder, if its parameters suit the frames, is always between two frames
\* of the stream, and has passed on those of them that fit, until it drops an
\* overlong frame of which a part is still to arrive.
THEOREM DecoderInSync ==
    ASSUME \A y \in Layouts : Suits(y)
    PROVE  Spec => []InSync
<1>1. Init => Inv
  BY InvInit
<1>2. Inv /\ [Next]_vars => Inv'
  BY InvStep
<1>3. Inv => InSync
  BY DEF Inv
<1> QED
  BY <1>1, <1>2, <1>3, PTL DEF Spec

LEMMA InvImpliesInOrder ==
    ASSUME Inv
    PROVE  MessagesInOrder
<1> USE DEF Inv
<1> SUFFICES ASSUME NEW i \in 1 .. Len(frames), i <= GoodMessages
             PROVE  frames[i] = sent[i]
  BY DEF MessagesInOrder
<1>1. GoodMessages \in Nat /\ Len(frames) \in Nat /\ i \in 1 .. GoodMessages
  BY GoodIsLead, PositionType DEF Lead, StreamOfFrames, TypeOK
<1>2. CASE torn
  BY <1>1, <1>2 DEF TornLate
<1>3. CASE ~torn
  <2>1. PICK k \in 0 .. Len(sent) : InSyncAt(k)
    BY <1>3, InSyncMeaning
  <2>2. /\ \A j \in 1 .. GoodMessages : j <= k => frames[j] = sent[j]
        /\ Len(frames) <= k
    BY <2>1, PlaceAndOutput
  <2>3. i <= k
    BY <1>1, <2>2, PositionType
  <2> QED
    BY <1>1, <2>2, <2>3
<1> QED
  BY <1>2, <1>3

\* However the stream is cut into pieces, the messages ahead of the first one
\* that is too long for the decoder come out whole, in order and each once.
THEOREM DeliveredInOrder ==
    ASSUME \A y \in Layouts : Suits(y)
    PROVE  Spec => []MessagesInOrder
<1>1. Init => Inv
  BY InvInit
<1>2. Inv /\ [Next]_vars => Inv'
  BY InvStep
<1>3. Inv => MessagesInOrder
  BY InvImpliesInOrder
<1> QED
  BY <1>1, <1>2, <1>3, PTL DEF Spec

LEMMA InvImpliesNothingLeft ==
    ASSUME Inv, Suits(layout)
    PROVE  NothingLeftBehind
<1> USE DEF Inv
<1> DEFINE g == GoodMessages
<1> SUFFICES ASSUME pc = "idle", exceptions = 0, Len(frames) < g
             PROVE  head + Len(sent[Len(frames) + 1]) + layout.initialBytesToStrip > tail
  BY DEF NothingLeftBehind
<1>1. ~torn
  BY DEF TornLate
<1>2. PICK k \in 0 .. Len(sent) : InSyncAt(k)
  BY <1>1, InSyncMeaning
<1>3. /\ g \in 0 .. Len(sent)
      /\ k <= g => Len(frames) = k
      /\ k > g => exceptions > 0
  BY <1>2, PlaceAndOutput
<1>4. Lead(fits, g)
  BY GoodIsLead
<1> HIDE DEF g
<1>5. Len(frames) = k /\ k + 1 \in 1 .. Len(sent) /\ k + 1 \in 1 .. g
  BY <1>2, <1>3, PositionType
<1>6. fits[k + 1]
  BY <1>4, <1>5 DEF Lead
<1>7. PICK n \in BodyLengths, b \in Bytes : FramedAs(k + 1, n, b)
  BY <1>5 DEF StreamOfFrames
<1> DEFINE size == Size(layout, n)
           strip == layout.initialBytesToStrip
<1>8. layout \in Layouts /\ n \in Nat
  BY BoundsAssumption DEF TypeOK
<1>9. size \in Nat /\ strip \in Nat
  BY <1>8, LayoutFacts, FieldValueType
<1>10. /\ ends[k + 1] = head + size
       /\ fits[k + 1] = (size <= layout.maxFrameLength /\ strip <= size)
       /\ sent[k + 1] = Content(layout, n, b)
  <2>1. (k + 1) - 1 = k
    BY <1>5
  <2> QED
    BY <1>2, <1>7, <2>1 DEF FramedAs, InSyncAt
<1>11. strip <= size
  BY <1>6, <1>10, Zenon
<1>12. Len(sent[k + 1]) = size - strip
  <2>1. Len(Content(layout, n, b)) = IF strip <= size THEN size - strip ELSE 0
    BY <1>8, ContentShape
  <2> QED
    BY <1>10, <1>11, <2>1
<1> HIDE DEF size, strip
<1>13. head \in Nat /\ tail \in Nat
  BY DEF TypeOK
<1>14. tail < ends[k + 1]
  <2>1. size > 0
    BY <1>8, SizeBounds DEF size
  <2>2. head < ends[k + 1]
    BY <1>9, <1>10, <1>13, <2>1
  <2> QED
    BY <1>5, <2>2 DEF NothingWaits
<1>15. head + (size - strip) + strip = head + size
  BY <1>9, <1>13
<1> QED
  BY <1>5, <1>9, <1>10, <1>12, <1>13, <1>14, <1>15 DEF strip

\* When read() returns, no message ahead of the first overlong one is in the queue
\* completely: none has to wait until the peer writes something else.
THEOREM DeliveredAtOnce ==
    ASSUME \A y \in Layouts : Suits(y)
    PROVE  Spec => []NothingLeftBehind
<1>1. Init => Inv
  BY InvInit
<1>2. Inv /\ [Next]_vars => Inv'
  BY InvStep
<1>3. Inv => NothingLeftBehind
  BY InvImpliesNothingLeft DEF Inv, TypeOK
<1> QED
  BY <1>1, <1>2, <1>3, PTL DEF Spec

=============================================================================

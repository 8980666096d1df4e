---------------------------- MODULE ChannelProofs ----------------------------
(***************************************************************************)
(* Framing implements the safety part of MessageChannel, step by step: a   *)
(* step of the prepender or of the decoder sends a message, passes one on, *)
(* or is invisible.                                                        *)
(***************************************************************************)
EXTENDS FrameDecoderProofs

\* What the channel has received.
Received == IF Len(frames) < GoodMessages THEN Len(frames) ELSE GoodMessages

\* The two variables of the channel.
channelSent == SubSeq(sent, 1, GoodMessages)
channelReceived == SubSeq(frames, 1, Received)

\* The first m elements of a sequence.
LEMMA PrefixProperties ==
    ASSUME NEW S, NEW s \in Seq(S), NEW m \in 0 .. Len(s)
    PROVE  /\ SubSeq(s, 1, m) \in Seq(S)
           /\ Len(SubSeq(s, 1, m)) = m
           /\ \A i \in 1 .. m : SubSeq(s, 1, m)[i] = s[i]
<1>1. Len(s) \in Nat /\ 0 \in Nat /\ 0 + 1 = 1 /\ m - 0 = m /\ 0 <= m
  OBVIOUS
<1>2. /\ SubSeq(s, 0 + 1, m) \in Seq(S)
      /\ Len(SubSeq(s, 0 + 1, m)) = IF 0 <= m THEN m - 0 ELSE 0
      /\ \A i \in 1 .. m - 0 : SubSeq(s, 0 + 1, m)[i] = s[0 + i]
  BY <1>1, PieceProperties
<1>3. \A i \in 1 .. m : 0 + i = i
  OBVIOUS
<1> QED
  BY <1>1, <1>2, <1>3

\* A prefix does not change when the sequence grows.
LEMMA PrefixKept ==
    ASSUME NEW S, NEW s \in Seq(S), NEW t \in Seq(S), NEW m \in 0 .. Len(s),
           m <= Len(t), \A i \in 1 .. m : t[i] = s[i]
    PROVE  SubSeq(t, 1, m) = SubSeq(s, 1, m)
<1>1. m \in 0 .. Len(t)
  OBVIOUS
<1> DEFINE p == SubSeq(s, 1, m)
           q == SubSeq(t, 1, m)
<1>2. p \in Seq(S) /\ Len(p) = m /\ \A i \in 1 .. m : p[i] = s[i]
  BY PrefixProperties
<1>3. q \in Seq(S) /\ Len(q) = m /\ \A i \in 1 .. m : q[i] = t[i]
  BY <1>1, PrefixProperties
<1> HIDE DEF p, q
<1>4. p = q
  BY <1>2, <1>3, SeqEqual
<1> QED
  BY <1>4 DEF p, q

\* The next longer prefix has the next element at its end.
LEMMA PrefixNext ==
    ASSUME NEW S, NEW s \in Seq(S), NEW t \in Seq(S), NEW m \in 0 .. Len(s),
           m + 1 <= Len(t), \A i \in 1 .. m : t[i] = s[i]
    PROVE  SubSeq(t, 1, m + 1) = Append(SubSeq(s, 1, m), t[m + 1])
<1>1. m + 1 \in 0 .. Len(t) /\ m + 1 \in 1 .. Len(t)
  OBVIOUS
<1> DEFINE p == SubSeq(s, 1, m)
           q == SubSeq(t, 1, m + 1)
           e == t[m + 1]
<1>2. p \in Seq(S) /\ Len(p) = m /\ \A i \in 1 .. m : p[i] = s[i]
  BY PrefixProperties
<1>3. q \in Seq(S) /\ Len(q) = m + 1 /\ \A i \in 1 .. m + 1 : q[i] = t[i]
  BY <1>1, PrefixProperties
<1>4. e \in S
  BY <1>1
<1> HIDE DEF p, q, e
<1>5. /\ Append(p, e) \in Seq(S) /\ Len(Append(p, e)) = m + 1
      /\ \A i \in 1 .. m : Append(p, e)[i] = p[i]
      /\ Append(p, e)[m + 1] = e
  BY <1>2, <1>4, AppendProperties
<1>6. ASSUME NEW i \in 1 .. m + 1
      PROVE  q[i] = Append(p, e)[i]
  <2>1. CASE i = m + 1
    BY <1>3, <1>5, <2>1 DEF e
  <2>2. CASE i \in 1 .. m
    BY <1>2, <1>3, <1>5, <2>2
  <2>3. i = m + 1 \/ i \in 1 .. m
    OBVIOUS
  <2> QED
    BY <2>1, <2>2, <2>3
<1>7. q = Append(p, e)
  BY <1>3, <1>5, <1>6, SeqEqual
<1> QED
  BY <1>7 DEF p, q, e

LEMMA ReceivedType ==
    ASSUME Inv
    PROVE  /\ GoodMessages \in 0 .. Len(sent) /\ Len(sent) \in Nat
           /\ Received \in 0 .. Len(frames) /\ Len(frames) \in Nat
<1>1. GoodMessages \in 0 .. Len(sent) /\ Len(sent) \in Nat /\ Len(frames) \in Nat
  BY GoodIsLead, PositionType DEF Inv, Lead, StreamOfFrames, TypeOK
<1> QED
  BY <1>1 DEF Received

\* The prepender sends a message on the channel, unless an overlong one is ahead
\* of it.
LEMMA SendStep ==
    ASSUME Inv, Inv', NEW n \in BodyLengths, NEW b \in Bytes, Send(n, b)
    PROVE  /\ channelReceived' = channelReceived
           /\ \/ channelSent' = channelSent
              \/ channelSent' = Append(channelSent, Content(layout, n, b))
<1> DEFINE g == GoodMessages
<1>1. /\ g \in 0 .. Len(sent) /\ Len(sent) \in Nat
      /\ Received \in 0 .. Len(frames) /\ Len(frames) \in Nat
  BY ReceivedType
<1>2. /\ Len(sent') = Len(sent) + 1
      /\ \A i \in 1 .. Len(sent) : sent'[i] = sent[i]
      /\ sent'[Len(sent) + 1] = Content(layout, n, b)
  BY SendAppends DEF Inv
<1>3. sent \in Seq(Seq(Bytes)) /\ sent' \in Seq(Seq(Bytes)) /\ frames' = frames
  BY DEF Inv, TypeOK, Send
<1>4. GoodMessages' = IF g = Len(sent) /\ fits'[Len(sent) + 1] THEN Len(sent) + 1 ELSE g
  BY GoodSend DEF Inv
<1> HIDE DEF g
<1>5. CASE GoodMessages' = g
  <2>1. Received' = Received
    BY <1>3, <1>5 DEF Received, g
  <2>2. channelReceived' = channelReceived
    BY <1>3, <2>1 DEF channelReceived
  <2>3. g <= Len(sent') /\ \A i \in 1 .. g : sent'[i] = sent[i]
    BY <1>1, <1>2
  <2>4. SubSeq(sent', 1, g) = SubSeq(sent, 1, g)
    BY <1>1, <1>3, <2>3, PrefixKept
  <2> QED
    BY <1>5, <2>2, <2>4 DEF channelSent, g
<1>6. CASE g = Len(sent) /\ GoodMessages' = g + 1
  <2>1. ~torn
    BY <1>1, <1>6 DEF Inv, TornLate, g
  <2>2. PICK k \in 0 .. Len(sent) : InSyncAt(k)
    BY <2>1, InSyncMeaning DEF Inv
  <2>3. Len(frames) <= k
    BY <2>2, PlaceAndOutput DEF Inv
  <2>4. Len(frames) <= g
    BY <1>1, <1>6, <2>3
  <2>5. Received' = Received
    BY <1>1, <1>3, <1>6, <2>4 DEF Received, g
  <2>6. channelReceived' = channelReceived
    BY <1>3, <2>5 DEF channelReceived
  <2>7. g + 1 <= Len(sent') /\ \A i \in 1 .. g : sent'[i] = sent[i]
    BY <1>1, <1>2, <1>6
  <2>8. SubSeq(sent', 1, g + 1) = Append(SubSeq(sent, 1, g), sent'[g + 1])
    BY <1>1, <1>3, <2>7, PrefixNext
  <2> QED
    BY <1>2, <1>6, <2>6, <2>8 DEF channelSent, g
<1> QED
  BY <1>4, <1>5, <1>6

\* The decoder passes the next message of the channel on, or does nothing to it.
LEMMA DecodeStep ==
    ASSUME Inv, Inv', DecodeField, Suits(layout)
    PROVE  /\ channelSent' = channelSent
           /\ \/ channelReceived' = channelReceived
              \/ /\ Len(channelReceived) < Len(channelSent)
                 /\ channelReceived' =
                      Append(channelReceived, channelSent[Len(channelReceived) + 1])
<1> DEFINE g == GoodMessages
<1>1. /\ g \in 0 .. Len(sent) /\ Len(sent) \in Nat
      /\ Received \in 0 .. Len(frames) /\ Len(frames) \in Nat
  BY ReceivedType
<1>2. PICK u \in getUnadjustedFrameLength :
        \/ TooSmall(FrameLength(u))
        \/ TooLarge(FrameLength(u))
        \/ Incomplete(FrameLength(u))
        \/ StripTooLong(FrameLength(u))
        \/ Deliver(FrameLength(u))
  BY DEF DecodeField
<1>3. UNCHANGED <<layout, sent, fits, stream, tail, ends>>
  BY <1>2 DEF TooSmall, TooLarge, Incomplete, StripTooLong, Deliver, Stop, historyVars
<1>4. torn => torn'
  BY <1>2 DEF TooSmall, TooLarge, Incomplete, StripTooLong, Deliver, historyVars
<1>5. GoodMessages' = g
  BY <1>3, StreamKept DEF Inv
<1>6. channelSent' = channelSent
  BY <1>3, <1>5 DEF channelSent, g
<1>7. /\ frames \in Seq(Seq(Bytes)) /\ frames' \in Seq(Seq(Bytes)) /\ Len(frames') \in Nat
      /\ sent \in Seq(Seq(Bytes))
  BY DEF Inv, TypeOK
<1> HIDE DEF g
\* Once all messages that the channel has are received, no step changes that.
<1>8. ASSUME g <= Len(frames), g <= Len(frames'), \A i \in 1 .. g : frames'[i] = frames[i]
      PROVE  channelReceived' = channelReceived
  <2>1. Received = g /\ Received' = g
    BY <1>1, <1>5, <1>7, <1>8 DEF Received, g
  <2>2. g \in 0 .. Len(frames)
    BY <1>1, <1>8
  <2>3. SubSeq(frames', 1, g) = SubSeq(frames, 1, g)
    BY <1>7, <1>8, <2>2, PrefixKept
  <2> QED
    BY <2>1, <2>3 DEF channelReceived
<1>9. CASE torn
  <2>1. g <= Len(frames) /\ \A i \in 1 .. g : frames[i] = sent[i]
    BY <1>9 DEF Inv, TornLate, g
  <2>2. GoodMessages' <= Len(frames') /\ \A i \in 1 .. GoodMessages' : frames'[i] = sent'[i]
    BY <1>4, <1>9 DEF Inv, TornLate
  <2>3. g <= Len(frames') /\ \A i \in 1 .. g : frames'[i] = sent[i]
    BY <1>3, <1>5, <2>2
  <2> QED
    BY <1>6, <1>8, <2>1, <2>3
<1>10. CASE ~torn
  <2>1. PICK k \in 0 .. Len(sent) : InSyncAt(k)
    BY <1>10, InSyncMeaning DEF Inv
  <2>2. k + 1 \in 1 .. Len(sent) /\ (Skips(k) \/ Waits(k) \/ Passes(k))
    BY <2>1, DecodeCases DEF Inv, InSyncAt
  <2>3. CASE Skips(k) \/ Waits(k)
    <3>1. frames' = frames
      BY <2>3 DEF Skips, Waits
    <3> QED
      BY <1>5, <1>6, <3>1 DEF channelReceived, Received, g
  <2>4. CASE Passes(k)
    <3>1. sent[k + 1] \in Seq(Bytes)
      BY <1>7, <2>2
    <3>2. /\ Len(frames') = Len(frames) + 1
          /\ \A i \in 1 .. Len(frames) : frames'[i] = frames[i]
          /\ frames'[Len(frames) + 1] = sent[k + 1]
      BY <1>7, <2>4, <3>1, AppendProperties DEF Passes
    <3>3. CASE g <= Len(frames)
      <4>1. g <= Len(frames') /\ \A i \in 1 .. g : frames'[i] = frames[i]
        <5>1. \A i \in 1 .. g : i \in 1 .. Len(frames)
          BY <1>1, <3>3
        <5>2. g <= Len(frames) + 1
          BY <1>1, <3>3
        <5> QED
          BY <3>2, <5>1, <5>2
      <4> QED
        BY <1>6, <1>8, <3>3, <4>1
    <3>4. CASE Len(frames) < g
      <4>1. (k <= g => Len(frames) = k) /\ (k > g => Len(frames) >= g)
        BY <2>1, PlaceAndOutput DEF Inv, g
      <4>2. Len(frames) = k /\ k \in Nat /\ k < g
        BY <1>1, <3>4, <4>1
      <4>3. Received = k /\ Received' = k + 1
        BY <1>1, <1>5, <3>2, <4>2 DEF Received, g
      <4>4. k \in 0 .. Len(frames) /\ k + 1 <= Len(frames')
            /\ \A i \in 1 .. k : frames'[i] = frames[i]
        BY <3>2, <4>2
      <4>5. SubSeq(frames', 1, k + 1) = Append(SubSeq(frames, 1, k), frames'[k + 1])
        BY <1>7, <4>4, PrefixNext
      <4>6. channelReceived' = Append(channelReceived, sent[k + 1])
        BY <3>2, <4>2, <4>3, <4>5 DEF channelReceived
      <4>7. Len(channelReceived) = k
        BY <1>7, <4>3, <4>4, PrefixProperties DEF channelReceived
      <4>8. Len(channelSent) = g /\ channelSent[k + 1] = sent[k + 1]
        <5>1. /\ Len(SubSeq(sent, 1, g)) = g
              /\ \A i \in 1 .. g : SubSeq(sent, 1, g)[i] = sent[i]
          BY <1>1, <1>7, PrefixProperties
        <5>2. k + 1 \in 1 .. g
          BY <1>1, <4>2
        <5> QED
          BY <5>1, <5>2 DEF channelSent, g
      <4> QED
        BY <1>6, <4>2, <4>6, <4>7, <4>8
    <3> QED
      BY <1>1, <3>3, <3>4
  <2> QED
    BY <2>2, <2>3, <2>4
<1> QED
  BY <1>9, <1>10

LEMMA ChannelVariables ==
    /\ Channel!vars = <<channelSent, channelReceived>>
    /\ Channel!Receive <=>
         /\ Len(channelReceived) < Len(channelSent)
         /\ channelReceived' = Append(channelReceived, channelSent[Len(channelReceived) + 1])
         /\ channelSent' = channelSent
    /\ Channel!Send <=> \E m \in Contents : /\ channelSent' = Append(channelSent, m)
                                           /\ channelReceived' = channelReceived
  BY DEF Channel!vars, Channel!Receive, Channel!Send, channelSent, channelReceived, Received

LEMMA ChannelStep ==
    ASSUME Inv, Inv', [Next]_vars, \A y \in Layouts : Suits(y)
    PROVE  [Channel!Next]_(Channel!vars)
<1>1. Suits(layout) /\ layout \in Layouts
  BY DEF Inv, TypeOK
<1>2. ASSUME UNCHANGED <<sent, fits, frames>>
      PROVE  UNCHANGED Channel!vars
  <2>1. GoodMessages' = GoodMessages
    BY <1>2 DEF GoodMessages
  <2>2. channelSent' = channelSent /\ channelReceived' = channelReceived
    BY <1>2, <2>1 DEF channelSent, channelReceived, Received
  <2> QED
    BY <2>2 DEF Channel!vars, channelSent, channelReceived, Received
<1>3. ASSUME NEW n \in BodyLengths, NEW b \in Bytes, Send(n, b)
      PROVE  Channel!Send \/ UNCHANGED Channel!vars
  <2>1. Content(layout, n, b) \in Contents
    BY <1>1 DEF Contents
  <2>2. /\ channelReceived' = channelReceived
        /\ \/ channelSent' = channelSent
           \/ channelSent' = Append(channelSent, Content(layout, n, b))
    BY <1>3, SendStep
  <2>3. CASE channelSent' = channelSent
    BY <2>2, <2>3 DEF Channel!vars, channelSent, channelReceived, Received
  <2>4. CASE channelSent' = Append(channelSent, Content(layout, n, b))
    BY <2>1, <2>2, <2>4, ChannelVariables
  <2> QED
    BY <2>2, <2>3, <2>4
<1>4. ASSUME DecodeField
      PROVE  Channel!Receive \/ UNCHANGED Channel!vars
  <2>1. /\ channelSent' = channelSent
        /\ \/ channelReceived' = channelReceived
           \/ /\ Len(channelReceived) < Len(channelSent)
              /\ channelReceived' =
                   Append(channelReceived, channelSent[Len(channelReceived) + 1])
    BY <1>1, <1>4, DecodeStep
  <2>2. CASE channelReceived' = channelReceived
    BY <2>1, <2>2 DEF Channel!vars, channelSent, channelReceived, Received
  <2>3. CASE channelReceived' # channelReceived
    BY <2>1, <2>3, ChannelVariables
  <2> QED
    BY <2>2, <2>3
<1>5. ASSUME SomethingArrives \/ NoHeader \/ UNCHANGED vars
      PROVE  UNCHANGED Channel!vars
  <2>1. UNCHANGED <<sent, fits, frames>>
    BY <1>5 DEF SomethingArrives, Arrive, NoHeader, Stop, vars
  <2> QED
    BY <1>2, <2>1
<1> QED
  BY <1>3, <1>4, <1>5 DEF Next, Decode, Quiet, Channel!Next

\* Framing, with parameters that suit the frames, is a channel for the messages
\* ahead of the first overlong one: every step of prepender and decoder, and every
\* arrival of bytes, is a step of MessageChannel or changes nothing there.
THEOREM FramingIsChannel ==
    ASSUME \A y \in Layouts : Suits(y)
    PROVE  Spec => Channel!Safety
<1>1. Init => Inv
  BY InvInit
<1>2. Inv /\ [Next]_vars => Inv'
  BY InvStep
<1>3. Init => Channel!Init
  <2> SUFFICES ASSUME Init
               PROVE  SubSeq(sent, 1, GoodMessages) = <<>> /\ channelReceived = <<>>
    BY DEF Channel!Init, channelReceived, Received
  <2>1. Inv /\ sent = <<>> /\ frames = <<>>
    BY <1>1 DEF Init
  <2>2. Len(sent) = 0 /\ Len(frames) = 0
    BY <2>1, EmptySeq
  <2>3. GoodMessages = 0 /\ Received = 0
    BY <2>1, <2>2, ReceivedType
  <2>4. \A s : SubSeq(s, 1, 0) = <<>>
    BY SubSeqEmpty
  <2> QED
    BY <2>3, <2>4 DEF channelReceived
<1>4. Inv /\ Inv' /\ [Next]_vars => [Channel!Next]_(Channel!vars)
  BY ChannelStep
<1> QED
  BY <1>1, <1>2, <1>3, <1>4, PTL DEF Spec, Channel!Safety

-----------------------------------------------------------------------------
(***************************************************************************)
(* Messages that are short enough                                          *)
(***************************************************************************)

\* What the decoder has passed on is what was sent, up to the messages that are
\* still on their way, and it has reported no error.
Lossless ==
    /\ exceptions = 0 /\ ~torn
    /\ Len(frames) <= Len(sent)
    /\ \A i \in 1 .. Len(frames) : frames[i] = sent[i]

LEMMA InvImpliesLossless ==
    ASSUME Inv, \A n \in BodyLengths : /\ Size(layout, n) <= layout.maxFrameLength
                                       /\ layout.initialBytesToStrip <= Size(layout, n)
    PROVE  Lossless
<1> DEFINE g == GoodMessages
<1>1. g \in 0 .. Len(sent) /\ Len(sent) \in Nat /\ Len(frames) \in Nat
  BY ReceivedType
<1>2. \A i \in 1 .. Len(sent) : fits[i]
  <2> TAKE i \in 1 .. Len(sent)
  <2>1. PICK n \in BodyLengths, b \in Bytes : FramedAs(i, n, b)
    BY DEF Inv, StreamOfFrames
  <2>2. fits[i] = (/\ Size(layout, n) <= layout.maxFrameLength
                   /\ layout.initialBytesToStrip <= Size(layout, n))
    BY <2>1 DEF FramedAs
  <2> QED
    BY <2>2, Zenon
<1>3. Lead(fits, g) /\ Len(fits) = Len(sent)
  BY GoodIsLead DEF Inv, StreamOfFrames
<1>4. g = Len(sent)
  <2>1. g # Len(sent) => g + 1 \in 1 .. Len(sent)
    BY <1>1
  <2> QED
    BY <1>2, <1>3, <2>1 DEF Lead
<1>5. ~torn
  BY <1>1, <1>4 DEF Inv, TornLate
<1>6. PICK k \in 0 .. Len(sent) : InSyncAt(k)
  BY <1>5, InSyncMeaning DEF Inv
<1>7. /\ \A i \in 1 .. g : i <= k => frames[i] = sent[i]
      /\ k <= g => Len(frames) = k /\ exceptions = 0
  BY <1>6, PlaceAndOutput DEF Inv
<1> HIDE DEF g
<1>8. Len(frames) = k /\ exceptions = 0
  BY <1>1, <1>4, <1>7
<1> QED
  BY <1>1, <1>4, <1>5, <1>7, <1>8 DEF Lossless

\* Nothing is lost, cut or reported as an error when every message that peers
\* send is within maxFrameLength, and no shorter than what the decoder strips.
THEOREM LosslessWithinLimit ==
    ASSUME \A y \in Layouts :
             /\ Suits(y)
             /\ \A n \in BodyLengths : /\ Size(y, n) <= y.maxFrameLength
                                       /\ y.initialBytesToStrip <= Size(y, n)
    PROVE  Spec => []Lossless
<1>1. Init => Inv
  BY InvInit
<1>2. Inv /\ [Next]_vars => Inv'
  BY InvStep
<1>3. Inv => Lossless
  BY InvImpliesLossless DEF Inv, TypeOK
<1> QED
  BY <1>1, <1>2, <1>3, PTL DEF Spec

\* LengthFieldBasedFrameDecoder(2, max, 0, 0, 2, false): the decoder of the
\* server's pipeline, where max is 65536.
ServerLayout(max) ==
    [lengthFieldLength |-> 2, maxFrameLength |-> max, lengthFieldOffset |-> 0,
     lengthAdjustment |-> 0, initialBytesToStrip |-> 2, networkByteOrder |-> FALSE,
     header2 |-> 0, whole |-> FALSE]

\* The server's decoder loses no message of up to 65534 bytes.  The field could
\* announce one byte more; the frame of that message exceeds maxFrameLength.
THEOREM ServerLossless ==
    ASSUME NEW max \in Nat, Layouts = {ServerLayout(max)}, 2 < WordMod, max < WordMod,
           \A n \in BodyLengths : n + 2 <= max
    PROVE  Spec => []Lossless
<1> DEFINE y == ServerLayout(max)
<1>1. /\ y.lengthFieldLength = 2 /\ y.maxFrameLength = max /\ y.lengthFieldOffset = 0
      /\ y.lengthAdjustment = 0 /\ y.initialBytesToStrip = 2
      /\ y.header2 = 0 /\ y.whole = FALSE
  BY DEF ServerLayout
<1> HIDE DEF y
<1>2. ASSUME NEW n \in BodyLengths
      PROVE  n \in Nat /\ n + 2 <= max /\ Size(y, n) = n + 2
  BY <1>1, <1>2, BoundsAssumption DEF Size
<1>3. WordMod \in Nat /\ WordMod <= WordMod * WordMod
  BY BaseAssumption
<1>4. Suits(y)
  <2>1. ASSUME NEW n \in BodyLengths
        PROVE  0 + 2 + 0 + n < WordMod * WordMod
    BY <1>2, <1>3
  <2> QED
    BY <1>1, <2>1 DEF Suits
<1>5. ASSUME NEW n \in BodyLengths
      PROVE  Size(y, n) <= y.maxFrameLength /\ y.initialBytesToStrip <= Size(y, n)
  BY <1>1, <1>2
<1>6. \A z \in Layouts : z = y
  BY DEF y
<1> QED
  BY <1>4, <1>5, <1>6, LosslessWithinLimit

=============================================================================

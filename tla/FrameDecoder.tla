---------------------------- MODULE FrameDecoder ----------------------------
(***************************************************************************)
(* LengthFieldPrepender and LengthFieldBasedFrameDecoder: messages become  *)
(* a byte stream, the stream arrives in pieces of any size, and the        *)
(* decoder cuts messages out of it again.                                  *)
(*                                                                         *)
(* A byte is a digit to the base Radix (256 in the code), uint32_t wraps   *)
(* at WordMod.  Small values of both bring the limits of a length field,   *)
(* of maxFrameLength and of the unsigned arithmetic within reach.          *)
(***************************************************************************)
EXTENDS Integers, Sequences, FiniteSets

(***************************************************************************)
(* Definitions named Faulty... are plausible mistakes in the code that the *)
(* definition behind them models. No action uses them.                     *)
(***************************************************************************)

CONSTANTS
    Radix,          \* the number of values of a byte
    WordMod,        \* the number of values of a uint32_t
    Layouts,        \* the decoder's parameters and the frames they are for
    BodyLengths,    \* lengths of the messages that peers send
    MaxMessages     \* bound: messages that the peer sends

ASSUME BaseAssumption == Radix \in Nat \ {0, 1} /\ WordMod \in Nat \ {0}

ASSUME BoundsAssumption == BodyLengths \subseteq Nat /\ MaxMessages \in Nat

\* The decoder's constructor parameters, and what its documentation says of the
\* frames they suit: header2 bytes stand between length field and body, and the
\* length field counts either the body or, if whole, all bytes of the frame.
Layout ==
    [lengthFieldLength : Nat, maxFrameLength : Nat, lengthFieldOffset : Nat,
     lengthAdjustment : Int, initialBytesToStrip : Nat, networkByteOrder : BOOLEAN,
     header2 : Nat, whole : BOOLEAN]

\* The constructor's CHECKs, with a difference that wraps. An offset so large that
\* lengthFieldEndOffset_ wraps as well, which they let pass, is left out.
ASSUME LayoutAssumption ==
    /\ Layouts \subseteq Layout
    /\ \A y \in Layouts :
         /\ 0 < y.maxFrameLength
         /\ y.lengthFieldOffset <= (y.maxFrameLength - y.lengthFieldLength) % WordMod
         /\ y.lengthFieldOffset + y.lengthFieldLength < WordMod

VARIABLES
    layout,         \* the decoder's parameters
    sent,           \* what should reach the next handler, in order
    fits,           \* whether the decoder is meant to accept the frame of each
    stream,         \* all bytes that the peer has written
    tail,           \* how many of them have arrived in the IOBufQueue
    head,           \* how many of them have been taken out of it
    pc,             \* "idle", or "decoding" within ByteToMessageDecoder::read
    frames,         \* frames passed to the next handler
    exceptions,     \* exceptions passed to it
    \* history, read by the properties only
    ends,           \* where the frame of each message ends in the stream
    torn            \* a frame was dropped before all of it had arrived

historyVars == <<ends, torn>>
vars == <<layout, sent, fits, stream, tail, head, pc, frames, exceptions, historyVars>>

Bytes == 0 .. Radix - 1

lengthFieldEndOffset_ == layout.lengthFieldOffset + layout.lengthFieldLength

Buffered == tail - head

-----------------------------------------------------------------------------
(***************************************************************************)
(* LengthFieldPrepender                                                    *)
(***************************************************************************)

\* The number of values of an n byte integer: Radix ^ n.
Power[n \in Nat] == IF n = 0 THEN 1 ELSE Radix * Power[n - 1]

\* writeBE and writeLE of an n byte integer.
Written(v, n, networkByteOrder) ==
    [i \in 1 .. n |->
        (v \div Power[IF networkByteOrder THEN n - i ELSE i - 1]) % Radix]

Fill(n, b) == [i \in 1 .. n |-> b]

\* The length that goes into the field for a body of n bytes.
FieldValue(y, n) ==
    IF y.whole THEN y.lengthFieldOffset + y.lengthFieldLength + y.header2 + n
    ELSE n

\* A message of n bytes b in one frame: a header, the length, another header
\* and the body.
Frame(y, n, b) ==
    Fill(y.lengthFieldOffset, 1)
        \o Written(FieldValue(y, n), y.lengthFieldLength, y.networkByteOrder)
        \o Fill(y.header2, 1) \o Fill(n, b)

\* What is left of it for the next handler.
Content(y, n, b) ==
    SubSeq(Frame(y, n, b), y.initialBytesToStrip + 1, Len(Frame(y, n, b)))

\* The peer writes a message; the prepender throws if its length does not fit
\* into the field.
Send(n, b) ==
    /\ Len(sent) < MaxMessages
    /\ FieldValue(layout, n) < Power[layout.lengthFieldLength]
    /\ stream' = stream \o Frame(layout, n, b)
    /\ sent' = Append(sent, Content(layout, n, b))
    /\ LET length == Len(Frame(layout, n, b))
       IN  fits' = Append(fits, /\ length <= layout.maxFrameLength
                                /\ layout.initialBytesToStrip <= length)
    /\ ends' = Append(ends, Len(stream'))
    /\ UNCHANGED <<layout, tail, head, pc, frames, exceptions, torn>>

-----------------------------------------------------------------------------
(***************************************************************************)
(* LengthFieldBasedFrameDecoder::decode, called in a loop by               *)
(* ByteToMessageDecoder::read for as long as it returns true               *)
(***************************************************************************)

\* The socket has read n more bytes.
Arrive(n) ==
    /\ pc = "idle"
    /\ tail' = tail + n
    /\ pc' = "decoding"
    /\ UNCHANGED <<layout, sent, fits, stream, head, frames, exceptions, historyVars>>

\* readBE and readLE of an integer: value[i] is what its i most significant bytes
\* amount to.
Value(bytes, networkByteOrder) ==
    LET n == Len(bytes)
        value[i \in 0 .. n] ==
            IF i = 0 THEN 0
            ELSE Radix * value[i - 1] + bytes[IF networkByteOrder THEN i ELSE n + 1 - i]
    IN  value[n]

\* The field, which starts after skip bytes of the queue.
Read(skip, n, networkByteOrder) ==
    Value(SubSeq(stream, head + skip + 1, head + skip + n), networkByteOrder)

FaultyByteOrder ==
    {Read(layout.lengthFieldOffset, layout.lengthFieldLength, ~layout.networkByteOrder)}

\* A field of any other length is not read: the result is whatever the uint64_t
\* happens to hold.
getUnadjustedFrameLength ==
    IF layout.lengthFieldLength \in {1, 2, 4, 8}
    THEN {Read(layout.lengthFieldOffset, layout.lengthFieldLength, layout.networkByteOrder)}
    ELSE 0 .. WordMod * WordMod - 1

\* lengthAdjustment_ + lengthFieldEndOffset_ is a uint32_t, the sum a uint64_t.
FrameLength(unadjusted) ==
    (unadjusted + ((layout.lengthAdjustment + lengthFieldEndOffset_) % WordMod))
        % (WordMod * WordMod)

\* return false
Stop(h, e) ==
    /\ pc' = "idle"
    /\ head' = h
    /\ exceptions' = exceptions + e
    /\ UNCHANGED <<layout, sent, fits, stream, tail, frames, ends>>

FaultyHeaderArrived == Buffered > lengthFieldEndOffset_

HeaderArrived == Buffered >= lengthFieldEndOffset_

NoHeader ==
    /\ pc = "decoding"
    /\ ~HeaderArrived
    /\ Stop(head, 0)
    /\ UNCHANGED torn

TooSmall(length) ==
    /\ length < lengthFieldEndOffset_
    /\ Stop(head + lengthFieldEndOffset_, 1)
    /\ UNCHANGED torn

FaultyTrimmed(length) == length             \* trimStart
FaultyTrimmedHeader(length) == lengthFieldEndOffset_

\* trimStartAtMost: the bytes of the frame that have arrived.
Trimmed(length) == IF length < Buffered THEN length ELSE Buffered

TooLarge(length) ==
    /\ length >= lengthFieldEndOffset_
    /\ length > layout.maxFrameLength
    /\ Stop(head + Trimmed(length), 1)
    /\ torn' = (torn \/ length > Buffered)

Complete(length) ==
    /\ lengthFieldEndOffset_ <= length /\ length <= layout.maxFrameLength
    /\ length <= Buffered

Incomplete(length) ==
    /\ lengthFieldEndOffset_ <= length /\ length <= layout.maxFrameLength
    /\ length > Buffered
    /\ Stop(head, 0)
    /\ UNCHANGED torn

StripTooLong(length) ==
    /\ Complete(length)
    /\ layout.initialBytesToStrip > length
    /\ Stop(head + length, 1)
    /\ UNCHANGED torn

FaultyAfterFrame == "idle"                  \* one frame for each read()

\* return true: decode is called again.
AfterFrame == "decoding"

Deliver(length) ==
    /\ Complete(length)
    /\ layout.initialBytesToStrip <= length
    /\ frames' = Append(frames, SubSeq(stream, head + layout.initialBytesToStrip + 1,
                                       head + length))
    /\ head' = head + length
    /\ pc' = AfterFrame
    /\ UNCHANGED <<layout, sent, fits, stream, tail, exceptions, historyVars>>

DecodeField ==
    /\ pc = "decoding"
    /\ HeaderArrived
    /\ \E unadjusted \in getUnadjustedFrameLength :
        LET length == FrameLength(unadjusted)
        IN  \/ TooSmall(length)
            \/ TooLarge(length)
            \/ Incomplete(length)
            \/ StripTooLong(length)
            \/ Deliver(length)

Decode == NoHeader \/ DecodeField

-----------------------------------------------------------------------------
Init ==
    /\ layout \in Layouts
    /\ sent = <<>> /\ fits = <<>> /\ stream = <<>>
    /\ tail = 0 /\ head = 0
    /\ pc = "idle"
    /\ frames = <<>> /\ exceptions = 0
    /\ ends = <<>> /\ torn = FALSE

\* Everything sent has arrived and nothing is being decoded.
Quiet ==
    /\ Len(sent) = MaxMessages /\ tail = Len(stream) /\ pc = "idle"
    /\ UNCHANGED vars

SomethingArrives == \E n \in 1 .. Len(stream) - tail : Arrive(n)

Next ==
    \/ \E n \in BodyLengths, b \in Bytes : Send(n, b)
    \/ SomethingArrives
    \/ Decode
    \/ Quiet

Spec == Init /\ [][Next]_vars

\* TCP brings what was written, and read() runs until decode returns false.
FairSpec == Spec /\ WF_vars(SomethingArrives) /\ WF_vars(Decode)

-----------------------------------------------------------------------------
(***************************************************************************)
(* Properties                                                              *)
(***************************************************************************)

\* Types, and the queue is a part of the stream: a frame is never taken out of
\* bytes that have not arrived.
TypeOK ==
    /\ layout \in Layouts
    /\ sent \in Seq(Seq(Bytes)) /\ fits \in Seq(BOOLEAN)
    /\ stream \in Seq(Bytes)
    /\ head \in 0 .. tail /\ tail \in 0 .. Len(stream)
    /\ pc \in {"idle", "decoding"}
    /\ frames \in Seq(Seq(Bytes))
    /\ exceptions \in Nat
    /\ ends \in Seq(Nat) /\ torn \in BOOLEAN

\* The number of messages ahead of the first one that is too long.
GoodMessages ==
    CHOOSE k \in 0 .. Len(sent) :
        /\ \A i \in 1 .. k : fits[i]
        /\ k = Len(sent) \/ ~fits[k + 1]

\* The messages ahead of the first overlong one come out whole, in order and
\* each once, however the stream is cut into pieces.
MessagesInOrder ==
    \A i \in 1 .. Len(frames) : i <= GoodMessages => frames[i] = sent[i]

\* The decoder loses a message that is too long and nothing else, provided that
\* every overlong frame has arrived completely when it is dropped: it is then
\* always between two frames of the stream, and has passed on those that fit.
InSync ==
    torn \/ \E k \in 0 .. Len(sent) :
        LET passed == {i \in 1 .. k : fits[i]}
        IN  /\ head = IF k = 0 THEN 0 ELSE ends[k]
            /\ Len(frames) = Cardinality(passed)
            /\ exceptions = k - Cardinality(passed)
            /\ \A i \in passed :
                 frames[Cardinality({j \in passed : j <= i})] = sent[i]

\* The parameters with which the decoder's documentation says that a frame is
\* understood: a field of a length that decode() reads, an adjustment that makes
\* up for what the length counts, and no sum that wraps around.
Suits(y) ==
    LET endOffset == y.lengthFieldOffset + y.lengthFieldLength
    IN  /\ y.lengthFieldLength \in {1, 2, 4, 8}
        /\ y.lengthAdjustment = IF y.whole THEN -endOffset ELSE y.header2
        /\ endOffset + y.header2 < WordMod
        /\ \A n \in BodyLengths : endOffset + y.header2 + n < WordMod * WordMod

\* What messages may look like behind the decoder.
Contents == {Content(y, n, b) : y \in Layouts, n \in BodyLengths, b \in Bytes}

\* Framing implements the channel, liveness included, for the messages ahead of
\* the first one that is too long for the decoder: all of them if none is.
Channel == INSTANCE MessageChannel WITH
    Messages <- Contents,
    sent <- SubSeq(sent, 1, GoodMessages),
    received <- SubSeq(frames, 1, IF Len(frames) < GoodMessages
                                  THEN Len(frames) ELSE GoodMessages)

ImplementsChannel == Channel!Spec

\* When read() returns, no message that has arrived completely is left in the
\* queue: nothing waits for the peer's next message to be noticed.
NothingLeftBehind ==
    pc = "idle" /\ exceptions = 0 /\ Len(frames) < GoodMessages =>
        head + Len(sent[Len(frames) + 1]) + layout.initialBytesToStrip > tail

\* What the comment in decode() says: it discards a frame that is too long. So
\* that frame is dropped, and the messages behind it still come out whole.
OnlyOverlongDropped ==
    \A i \in 1 .. Len(frames) : \E k \in 1 .. Len(sent) : fits[k] /\ frames[i] = sent[k]

=============================================================================

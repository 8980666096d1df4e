--------------------------- MODULE MCFrameDecoder ---------------------------
(***************************************************************************)
(* Small instances of FrameDecoder for TLC.                                *)
(***************************************************************************)
EXTENDS FrameDecoder

\* A decoder for frames with o bytes ahead of the length field, l bytes of
\* length, h bytes behind it, of which the first s bytes are dropped.
Parameters(o, l, h, whole, s, max, networkByteOrder) ==
    [lengthFieldLength |-> l, maxFrameLength |-> max, lengthFieldOffset |-> o,
     lengthAdjustment |-> IF whole THEN -(o + l) ELSE h,
     initialBytesToStrip |-> s, networkByteOrder |-> networkByteOrder,
     header2 |-> h, whole |-> whole]

\* LengthFieldBasedFrameDecoder(2, 65536, 0, 0, 2, false) of the server's
\* pipeline: maxFrameLength is the number of values of the length field.
Pipeline == Parameters(0, 2, 0, FALSE, 2, Radix * Radix, FALSE)

PipelineOnly == {Pipeline}

\* The examples in the decoder's header, without the two with a field of 3 bytes.
Documented(max) ==
    {Parameters(0, 2, 0, FALSE, 0, max, TRUE),
     Parameters(0, 2, 0, FALSE, 2, max, TRUE),
     Parameters(0, 2, 0, TRUE, 0, max, TRUE),
     Parameters(1, 2, 1, FALSE, 3, max, TRUE),
     Parameters(1, 2, 1, TRUE, 3, max, TRUE)}

\* The pipeline's parameters and the examples, with a limit that some frames
\* exceed, and a decoder that strips more than the smallest frame has.
Tight == {Pipeline, Parameters(0, 2, 0, FALSE, 3, 2 * Radix, FALSE)}
            \cup Documented(2 * Radix)

\* What the theorems on the decoder ask of its parameters.
ASSUME TightSuits == \A y \in Tight : Suits(y)

\* The two with a field of 3 bytes.
ThreeByteField ==
    {Parameters(2, 3, 0, FALSE, 0, Radix ^ 3, TRUE),
     Parameters(0, 3, 2, FALSE, 0, Radix ^ 3, TRUE)}

=============================================================================

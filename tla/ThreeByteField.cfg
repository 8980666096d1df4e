\* The documented examples with a length field of 3 bytes.
CONSTANTS
    Radix = 2
    WordMod = 16
    Layouts <- ThreeByteField
    BodyLengths = {0, 2}
    MaxMessages = 1
SPECIFICATION FairSpec
INVARIANT MessagesInOrder

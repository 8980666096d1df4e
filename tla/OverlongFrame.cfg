\* The server's pipeline; a body of Radix^2 - 1 bytes is one too long.
CONSTANTS
    Radix = 3
    WordMod = 1024
    Layouts <- PipelineOnly
    BodyLengths = {2, 8}
    MaxMessages = 2
SPECIFICATION FairSpec
INVARIANT OnlyOverlongDropped

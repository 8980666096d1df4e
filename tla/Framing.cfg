\* All layouts, some messages too long for the decoder.
CONSTANTS
    Radix = 3
    WordMod = 1024
    Layouts <- Tight
    BodyLengths = {0, 2, 7, 8}
    MaxMessages = 2
SPECIFICATION FairSpec
INVARIANTS
    TypeOK
    MessagesInOrder
    NothingLeftBehind
    InSync
PROPERTY ImplementsChannel

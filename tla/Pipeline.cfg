\* Every registry over two commands, three requests, every way to cut a frame.
CONSTANTS
    Cmds <- LargestOpcodes
    LoginCmds <- FirstOfThem
    NoOpcode = none
    Payloads = {p}
    Default = default
    OpcodeMod = 4
    Nil = Nil
    MaxRequests = 3
SPECIFICATION FairSpec
INVARIANTS
    TypeOK
    CommandsDispatchable
    AnsweredAsSent
    AnswersInOrder
PROPERTY IntactRequestAnswered

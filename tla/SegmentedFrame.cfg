\* A frame lies in two buffers.
CONSTANTS
    Cmds <- LargestOpcodes
    LoginCmds <- FirstOfThem
    NoOpcode = none
    Payloads = {p}
    Default = default
    OpcodeMod = 4
    Nil = Nil
    MaxRequests = 1
SPECIFICATION Spec
INVARIANT ExecutedAsSent

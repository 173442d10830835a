\* The cipher as it is compiled in.
SPECIFICATION Spec
CONSTANTS
    Low = 8
    High = 32
    ByteXor <- MCXor
    vector <- MCvector
    hector <- MChector
    forward = 85
    backward = 90
    addend = 17
    passlim = 64
    Comma = 44
    rounds = 3
    Messages <- MCMessages
    Passes <- MCPasses
INVARIANTS LoopsUndone WrongPassGarbles
CHECK_DEADLOCK FALSE

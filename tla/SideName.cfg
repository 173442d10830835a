\* Two handlers at a time.
SPECIFICATION FairSpec
CONSTANTS
    Threads <- MCTwoThreads
    Names <- MCNames
    Paths <- MCPaths
    MaxTokens = 3
    NULL = NULL
INVARIANTS TypeOK InOwnDirectory RightWhenAlone
PROPERTY Answered

\* Two handlers at a time, each to get its own name.
SPECIFICATION Spec
CONSTANTS
    Threads <- MCTwoThreads
    Names <- MCNames
    Paths <- MCPaths
    MaxTokens = 3
    NULL = NULL
INVARIANT SideNameRight

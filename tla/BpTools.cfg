\* The tools on files of a block or more, and the mount on files of the tools.
SPECIFICATION ToolSpec
CONSTANTS
    B = 2
    Byte <- MCBit
    Zero = 0
    Enc <- MCBitEnc
    Dec <- MCBitDec
    Payload <- MCBitPayload
    MaxSize = 5
    IntSpan = 64
    Workload = {"stream", "truncate"}
    Garbage <- MCGarbage
INVARIANTS ToolTypeOK LongDecryptsAsMounted EncryptsForMount StoreTailRecoverable

\* Streams of whole blocks with a tail and holes of whole blocks, also past the range of an int.
SPECIFICATION Spec
CONSTANTS
    B = 2
    Byte <- MCByte
    Zero = 0
    Enc <- MCEnc
    Dec <- MCDec
    Payload <- MCPayload
    MaxSize = 8
    IntSpan = 12
    Workload = {"stream", "far", "truncate", "otrunc"}
INVARIANT TailRecoverable
PROPERTY ImplementsPlainFile

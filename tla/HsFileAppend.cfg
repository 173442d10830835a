\* Appends of any number of bytes.
SPECIFICATION Spec
CONSTANTS
    B = 2
    Byte <- MCByte
    Zero = 0
    Enc <- MCEnc
    Dec <- MCDec
    Payload <- MCPayload
    MaxSize = 6
    IntSpan = 64
    Workload = {"append"}
PROPERTY ImplementsPlainFile

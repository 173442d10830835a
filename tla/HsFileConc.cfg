\* The handlers call by call, any write, a reader beside them, crashes in between.
SPECIFICATION ConcSpec
CONSTANTS
    B = 2
    Byte <- MCBit
    Zero = 0
    Enc <- MCBitEnc
    Dec <- MCBitDec
    Payload <- MCBitPayload
    MaxSize = 5
    Overlap = 2
    IntSpan = 64
    Workload = {"any", "extend", "otrunc", "mknod", "fault", "truncate"}
INVARIANTS TypeOK ReadAheadAgrees OthersSpared
PROPERTIES DamageConfined ReadOldOrNew

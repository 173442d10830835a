\* Stores whose passwords are entered in one way each, one open at a time, and crashes.
SPECIFICATION Spec
CONSTANTS
    Passwords <- MCThree
    Odd <- MCOdd
    ZeroFirst = {}
    Threads <- MCOneThread
    Habits <- MCKeepToOne
    Faults = {"crash"}
INVARIANTS TypeOK OneKey AskedOnce RightPasswordAccepted
PROPERTY MarkStable

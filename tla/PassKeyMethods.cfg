\* A store mounted from the tray and from the console.
SPECIFICATION Spec
CONSTANTS
    Passwords <- MCEven
    Odd = {}
    ZeroFirst = {}
    Threads <- MCOneThread
    Habits <- MCTrayAndConsole
    Faults = {}
INVARIANT RightPasswordAccepted

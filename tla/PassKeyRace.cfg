\* On-demand passwords with two opens at a time: only the right password is ever entered.
SPECIFICATION Spec
CONSTANTS
    Passwords <- MCBoth
    Odd <- MCOdd
    ZeroFirst = {}
    Threads <- MCTwoThreads
    Habits <- MCOnDemand
    Faults = {}
INVARIANT OneKey

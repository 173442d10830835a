\* Two hsencfs processes on three directories, killed at any time.
SPECIFICATION Spec
CONSTANTS
    MAXPASSLEN = 8
    Procs <- MCTwo
    Lines <- MCLines
    Home <- MCHome
    Cwd <- MCHome
    Dot <- MCDot
    Made <- MCMade
    Texts <- MCTexts
    Behind <- MCBehind
    PutIn <- MCPutIn
    Faults = {"kill"}
INVARIANTS TypeOK OwnStore AnswerAsTyped

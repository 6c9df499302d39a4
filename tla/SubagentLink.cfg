\* A master that dies and stalls, and a program that registers meanwhile.
SPECIFICATION FairSpec
CONSTANTS
    NumNodes = 2
    MaxSess = 4
    MaxDeaths = 2
    MaxTimeouts = 2
    MaxProgram = 3
INVARIANTS
    LinkTypeOK
    Watched
    NothingStale
    TablesAgree
PROPERTIES
    Reconnects
CHECK_DEADLOCK FALSE

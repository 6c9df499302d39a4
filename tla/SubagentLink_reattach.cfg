\* A connection lost while the registrations are made again.
SPECIFICATION Spec
CONSTANTS
    NumNodes = 2
    MaxSess = 3
    MaxDeaths = 1
    MaxTimeouts = 0
    MaxProgram = 0
INVARIANT
    ReattachesAll
CHECK_DEADLOCK FALSE

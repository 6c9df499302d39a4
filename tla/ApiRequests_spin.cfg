\* A call inside a call when the master goes away.
SPECIFICATION FairApiSpec
CONSTANTS
    r1 = r1
    r2 = r2
    r3 = r3
    Request = {r1, r2}
    Nil = Nil
    Sessions <- NestedOnly
    MaxDepth = 2
    Faults = {"disconnect"}
PROPERTIES
    DisconnectEndsCalls
CHECK_DEADLOCK FALSE

\* Three requests, reads and SETs of a local handler and one subagent: who may
\* execute, who waits, in which order, and the gate they implement.
SPECIFICATION Spec
CONSTANTS
    Req = {r1, r2, r3}
    NVar = 2
    l1 = l1
    s1 = s1
    s2 = s2
    Local = {l1}
    Session = {s1}
    Commands = {"GET", "GETNEXT", "SET"}
    Layouts <- OneSlot
    MaxPasses = 1
    NoReq = NoReq
    NoSession = NoSession
SYMMETRY ReqSymmetry
INVARIANTS TypeOK SchedulerInv SetExclusion QueueAssertions OnePlace
PROPERTIES StartsInOrder GateHandover ImplementsGate
CHECK_DEADLOCK FALSE

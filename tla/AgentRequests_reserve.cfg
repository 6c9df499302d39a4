\* A SET of a local handler and a subagent: a failed reserve phase is freed?
SPECIFICATION Spec
CONSTANTS
    Req = {r1}
    NVar = 2
    l1 = l1
    s1 = s1
    s2 = s2
    Local = {l1}
    Session = {s1}
    Commands = {"GETNEXT", "SET"}
    Layouts <- Mixed
    MaxPasses = 1
    NoReq = NoReq
    NoSession = NoSession
INVARIANTS ReserveFailureFrees
CHECK_DEADLOCK FALSE

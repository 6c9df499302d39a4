\* Two requests, a local handler and a subagent that may die or close at any
\* moment: under fairness every request is answered.
SPECIFICATION FairMasterSpec
CONSTANTS
    Req = {r1, r2}
    NVar = 2
    l1 = l1
    s1 = s1
    s2 = s2
    Local = {l1}
    Session = {s1}
    Commands = {"GETNEXT", "SET"}
    Layouts <- SecondRemote
    MaxPasses = 1
    NoReq = NoReq
    NoSession = NoSession
    Faults = {"death", "close"}
PROPERTIES EventuallyAnswered
CHECK_DEADLOCK FALSE

\* One SET, and a dead subagent to which a PDU may fail to be sent: is the SET
\* answered?
SPECIFICATION FairMasterSpec
CONSTANTS
    Req = {r1}
    NVar = 2
    l1 = l1
    s1 = s1
    s2 = s2
    Local = {l1}
    Session = {s1}
    Commands = {"SET"}
    Layouts <- Shared
    MaxPasses = 0
    NoReq = NoReq
    NoSession = NoSession
    Faults = {"death", "sendfail"}
PROPERTIES NoLockUp
CHECK_DEADLOCK FALSE

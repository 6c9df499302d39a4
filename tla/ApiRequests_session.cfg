\* A subagent's session to its master and a manager's SNMPv3 session, one
\* synchronous call at a time.
SPECIFICATION FairApiSpec
CONSTANTS
    r1 = r1
    r2 = r2
    r3 = r3
    Request = {r1, r2, r3}
    Nil = Nil
    Sessions <- BothVersions
    MaxDepth = 1
    Faults = {"sendfail", "disconnect"}
INVARIANTS
    ApiTypeOK
    ListSound
    WaitsForListed
    SessionOutlivesCalls
    StatusTellsOutcome
    RetryBudget
PROPERTIES
    EveryoneEnds
CHECK_DEADLOCK FALSE

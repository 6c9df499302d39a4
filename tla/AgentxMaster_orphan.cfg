\* Two requests for a local handler and two subagents that may die, close or
\* answer short: what waits was asked for, an answer belongs to the phase that
\* asked, and a SET is settled, in whatever order answers and errors come.
SPECIFICATION MasterSpec
CONSTANTS
    Req = {r1, r2}
    NVar = 2
    l1 = l1
    s1 = s1
    s2 = s2
    Local = {l1}
    Session = {s1, s2}
    Commands = {"GET", "SET"}
    Layouts <- Subagents
    MaxPasses = 0
    NoReq = NoReq
    NoSession = NoSession
    Faults = {"death", "close", "short"}
SYMMETRY ReqSymmetry
INVARIANTS MasterTypeOK NoOrphan AnswersMatchPhase FailureNotCommitted
PROPERTIES SetSettled TruthfulResponse
CHECK_DEADLOCK FALSE

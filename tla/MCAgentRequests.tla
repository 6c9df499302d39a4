--------------------------- MODULE MCAgentRequests ---------------------------
(* Small instances of AgentRequests for TLC.                               *)
EXTENDS AgentRequests, TLC

CONSTANTS l1, s1, s2

\* A local handler and a subagent, either first.
Mixed == {<<l1, s1>>, <<s1, l1>>, <<l1, l1>>}

\* Both varbinds in one slot; without the subagent there is a local handler.
OneSlot == {<<s1, s1>>, <<l1, l1>>}

ReqSymmetry == Permutations(Req)
=============================================================================

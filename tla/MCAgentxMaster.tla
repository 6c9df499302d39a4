--------------------------- MODULE MCAgentxMaster ---------------------------
(* Small instances of AgentxMaster for TLC.                                *)
EXTENDS AgentxMaster, TLC

CONSTANTS l1, s1, s2

\* Both varbinds in one place, or one in each of two.
Subagents == {<<l1, l1>>, <<l1, s1>>, <<s1, s2>>, <<s1, s1>>}

\* The walk of a closing session starts at a varbind that is not the session's.
SecondRemote == {<<l1, l1>>, <<l1, s1>>}

\* One varbind for each of the two, or both for one.
Shared == {<<l1, s1>>, <<s1, l1>>, <<l1, l1>>, <<s1, s1>>}

ReqSymmetry == Permutations(Req)
=============================================================================

---------------------------- MODULE MCApiRequests ----------------------------
(***************************************************************************)
(* ApiRequests with the sessions TLC opens: a subagent's session to its    *)
(* master, and a manager's SNMPv3 session, with fewer requests and one     *)
(* retry more.                                                             *)
(***************************************************************************)
EXTENDS ApiRequests

CONSTANTS r1, r2, r3

Subagent == [version |-> "agentx", retries |-> 1, requests |-> {r1, r2, r3}]
Manager  == [version |-> "v3", retries |-> 2, requests |-> {r1, r2}]
Nested   == [version |-> "agentx", retries |-> 1, requests |-> {r1, r2}]

BothVersions == {Subagent, Manager}
NestedOnly   == {Nested}
=============================================================================

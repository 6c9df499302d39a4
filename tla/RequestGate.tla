----------------------------- MODULE RequestGate -----------------------------
(***************************************************************************)
(* What the request scheduler of the agent promises its callers, without   *)
(* lists, phases or handlers (Agent_handleRequest in                       *)
(* src/Firmware/Priot/Agent.c and the comments there): reads execute side  *)
(* by side, a SET executes alone, and requests start in order of arrival.  *)
(* AgentRequests implements it.                                            *)
(***************************************************************************)
EXTENDS Naturals, Sequences

CONSTANTS Req, Commands

VARIABLES
    command,  \* what each request is, "none" before it arrives
    waiting,  \* requests held back, in order of arrival
    active,   \* requests that execute
    done      \* requests answered or dropped

gateVars == <<command, waiting, active, done>>

GateInit ==
    /\ command = [r \in Req |-> "none"]
    /\ waiting = <<>>
    /\ active = {}
    /\ done = {}

\* A command may start executing next to the active requests.
MayRun(c) ==
    /\ \A r \in active : command[r] # "SET"
    /\ c = "SET" => active = {}

\* "processing of a set request should not start until all delegated requests
\* have completed, and no other new requests should be processed until the set
\* request completes"
Arrive(r, c) ==
    /\ command[r] = "none"
    /\ command' = [command EXCEPT ![r] = c]
    /\ IF waiting = <<>> /\ MayRun(c)
       THEN active' = active \cup {r} /\ UNCHANGED waiting
       ELSE waiting' = Append(waiting, r) /\ UNCHANGED active
    /\ UNCHANGED done

Reject(r, c) ==
    /\ command[r] = "none"
    /\ command' = [command EXCEPT ![r] = c]
    /\ done' = done \cup {r}
    /\ UNCHANGED <<waiting, active>>

Admit ==
    /\ waiting # <<>>
    /\ MayRun(command[Head(waiting)])
    /\ active' = active \cup {Head(waiting)}
    /\ waiting' = Tail(waiting)
    /\ UNCHANGED <<command, done>>

Finish(r) ==
    /\ r \in active
    /\ active' = active \ {r}
    /\ done' = done \cup {r}
    /\ UNCHANGED <<command, waiting>>

GateNext ==
    \/ \E r \in Req, c \in Commands : Arrive(r, c) \/ Reject(r, c)
    \/ Admit
    \/ \E r \in Req : Finish(r)

GateSpec == GateInit /\ [][GateNext]_gateVars
=============================================================================

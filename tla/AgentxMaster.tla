---------------------------- MODULE AgentxMaster ----------------------------
(***************************************************************************)
(* The AgentX master under the request scheduler: Master_handler and       *)
(* Master_gotResponse (src/Firmware/Plugin/Agentx/Master.c), the closing   *)
(* of sessions (MasterAdmin.c) and what the library does with the requests *)
(* it sent (the request list of a session in src/Firmware/Core/Api.c).     *)
(*                                                                         *)
(* Almost every action is one of AgentRequests that says, besides, what    *)
(* becomes of the PDUs in flight: AgentRequests lets an answer come out of *)
(* nowhere, here it needs a PDU that was sent.                             *)
(***************************************************************************)
EXTENDS AgentRequests

CONSTANT Faults  \* what subagents may do: "close" a session, send "short"
                 \* answers, "death" of the process, "sendfail" of a PDU to it

ASSUME FaultsAssumption == Faults \subseteq {"close", "short", "death", "sendfail"}

VARIABLES
    pending,  \* request lists: <<request, session, mode>> of each sent PDU
    dead,     \* sessions whose subagent process has died
    shut      \* sessions whose transport the master has closed

netVars    == <<pending, dead, shut>>
masterVars == <<vars, netVars>>

MasterInit ==
    /\ Init
    /\ pending = {}
    /\ dead = {}
    /\ shut = {}

SendOutcomesAny(s) == BOOLEAN  \* mutant

\* _Api_sessAsyncSend: a PDU that was sent joins the request list; when the
\* transport fails it does not, and Master_handler only frees it.
SendOutcomes(s) ==
    IF s \in dead /\ "sendfail" \in Faults THEN BOOLEAN ELSE {TRUE}

\* The slots that a handler call of the current pass has delegated to.
Sends == {asp[cur].owner[v] : v \in asp'[cur].delegated \ asp[cur].delegated}

(* Master_handler: the chain is marked as delegated before the PDU is      *)
(* sent, whatever becomes of the PDU.                                      *)
MasterCallSlot ==
    /\ CallSlot
    /\ IF Sends = {} THEN UNCHANGED pending
       ELSE \E s \in Sends : \E sent \in SendOutcomes(s) :
              pending' = IF sent THEN pending \cup {<<cur, s, asp[cur].mode>>}
                         ELSE pending
    /\ UNCHANGED <<dead, shut>>

\* Master_gotResponse found the delegated cache of p valid and in use.
InUse(p) == p[1] \in delegatedList /\ Waiting(p[1], p[2]) # {}

\* A response that matches a request of the list; it leaves the list.
Respond(p) ==
    /\ p \in pending /\ p[2] \notin dead \cup shut
    /\ \/ AnswerOk(p[1], p[2])
       \/ AnswerError(p[1], p[2])
       \/ "short" \in Faults /\ AnswerShort(p[1], p[2])
    /\ pending' = pending \ {p}
    /\ UNCHANGED <<dead, shut>>

\* _Api_sessTimeout after the last retry: Master_gotResponse closes the
\* session, and its transport once that is done (see EndClose).
RequestTimeout(p) ==
    /\ p \in pending /\ p[2] \notin shut
    /\ TimeOut(p[1], p[2])
    /\ pending' = pending \ {p}
    /\ UNCHANGED <<dead, shut>>

Resolve(p) == Respond(p) \/ RequestTimeout(p)

Die(s) ==
    /\ "death" \in Faults
    /\ pc = "idle" /\ s \notin dead
    /\ dead' = dead \cup {s}
    /\ UNCHANGED <<vars, pending, shut>>

\* A CLOSE PDU of the subagent, which it may have sent before it died.
ReadClose(s) ==
    /\ "close" \in Faults
    /\ s \notin shut
    /\ CloseSubsession(s)
    /\ UNCHANGED netVars

(* _Api_sessRead finds the peer gone: DISCONNECT, then the transport is    *)
(* closed.  After a CLOSE there is no registration left to remove.         *)
Disconnect(s) ==
    /\ pc = "idle" /\ s \in dead \ shut
    /\ \/ /\ s \notin closed
          /\ CloseSession(s)
          /\ UNCHANGED netVars
       \/ /\ s \in closed
          /\ shut' = shut \cup {s}
          /\ UNCHANGED <<vars, pending, dead>>

\* Mutant: the session is read after it was let go.
EndCloseStale ==
    /\ Unregister
    /\ shut' = shut \cup {closing'}
    /\ UNCHANGED <<pending, dead>>

EndClose ==
    /\ Unregister
    /\ shut' = shut \cup {closing}
    /\ UNCHANGED <<pending, dead>>

\* Mutant: the request list is freed without its callbacks.
ReapSilently(p) ==
    /\ pc = "idle" /\ p \in pending /\ p[2] \in shut
    /\ pending' = pending \ {p}
    /\ UNCHANGED <<vars, dead, shut>>

(* Api_sessSelectInfo drops a session whose socket is closed: Api_sessClose*)
(* times out what is left of its request list, one request at a time.      *)
(* Master_gotResponse ignores a cache whose transaction is over.           *)
Reap(p) ==
    /\ pc = "idle" /\ p \in pending /\ p[2] \in shut
    /\ pending' = pending \ {p}
    /\ \/ InUse(p) /\ TimeOut(p[1], p[2])
       \/ /\ p[1] \in delegatedList /\ ~InUse(p)
          /\ LET own == {v \in Varbind : asp[p[1]].owner[v] = p[2]}
             IN CloseWith(Fail(p[1], {}, MinOf(own), "genErr"),
                          AnswerFailed(p[1]), p[2])
       \/ p[1] \notin delegatedList /\ UNCHANGED vars
    /\ UNCHANGED <<dead, shut>>

-----------------------------------------------------------------------------
MasterAgentStep ==
    \/ InnerStep /\ UNCHANGED netVars
    \/ MasterCallSlot
    \/ EndClose

Pdu == Req \X Session \X Mode

MasterNext ==
    \/ \E r \in Req : (Receive(r) \/ Drop(r)) /\ UNCHANGED netVars
    \/ \E p \in pending : Resolve(p) \/ Reap(p)
    \/ \E s \in Session : Die(s) \/ ReadClose(s) \/ Disconnect(s)
    \/ MasterAgentStep

\* The main loop keeps turning: it reads answers and ends of file, runs the
\* timers of the library and drops the sessions that were closed.
MasterFairness ==
    /\ WF_masterVars(MasterAgentStep)
    /\ \A p \in Pdu : WF_masterVars(Resolve(p)) /\ WF_masterVars(Reap(p))
    /\ \A s \in Session : WF_masterVars(Disconnect(s))

MasterSpec     == MasterInit /\ [][MasterNext]_masterVars
FairMasterSpec == MasterSpec /\ MasterFairness

-----------------------------------------------------------------------------
MasterTypeOK ==
    /\ TypeOK
    /\ pending \in SUBSET Pdu
    /\ dead \in SUBSET Session
    /\ shut \in SUBSET closed

(* A varbind waits for an answer only if the PDU that asks for it is in a  *)
(* request list, so that an answer, a timeout or the end of the session    *)
(* will release it (Master_handler, Master_gotResponse).  A short answer to *)
(* a read leaves an orphan: reads are exempt when there are such answers.  *)
NoOrphan ==
    pc = "idle" =>
        \A r \in {q \in delegatedList : "short" \in Faults => cmd[q] = "SET"} :
          \A v \in asp[r].delegated :
            \E p \in pending : p[1] = r /\ p[2] = asp[r].owner[v]

(* An answer of a living session is applied to the phase of the SET that   *)
(* asked for it: the transaction number by which                           *)
(* AgentHandler_handlerCheckCache accepts it does not tell phases apart.   *)
AnswersMatchPhase ==
    pc = "idle" =>
        \A p \in pending : InUse(p) /\ p[2] \notin closed => p[3] = asp[p[1]].mode

(* "The following is necessary to avoid locking up the agent when a        *)
(* sugagent dies during a set request. We must clean up the requests, so   *)
(* that the delegated request will be completed and further requests can   *)
(* be processed" (MasterAdmin_closeAgentxSession): a SET is answered even  *)
(* when a subagent dies.                                                   *)
NoLockUp == \A r \in Req : cmd[r] = "SET" ~> response[r] # "none"
=============================================================================

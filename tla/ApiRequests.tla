---------------------------- MODULE ApiRequests ----------------------------
(***************************************************************************)
(* The request list of one session of the library: sending, resending,     *)
(* matching of answers, reports, timeouts and close                        *)
(* (src/Firmware/Core/Api.c), and the synchronous calls that wait in a     *)
(* loop of their own for the answer to one request (Core/Client.c, and     *)
(* Plugin/Agentx/XClient.c for the session of a subagent to its master).   *)
(*                                                                         *)
(* The peer may answer any transmission at any time, any number of times,  *)
(* or never: that covers what is lost, late, reordered or duplicated.      *)
(***************************************************************************)
EXTENDS Naturals, Sequences, FiniteSets

CONSTANTS
    Request,     \* identities of requests, each used once (pdu->reqid)
    Nil,         \* the null pointer
    Sessions,    \* the sessions that may be opened: version, sp->retries, and
                 \* the requests one makes, which is a bound
    MaxDepth,    \* bound on synchronous calls inside one another
    Faults       \* of the transport: "sendfail", "disconnect"

ASSUME ApiAssumption ==
    /\ IsFiniteSet(Request) /\ Nil \notin Request
    /\ MaxDepth \in Nat
    /\ \A sp \in Sessions :
          /\ sp.version \in {"agentx", "v3"} /\ sp.retries \in Nat
          /\ sp.requests \subseteq Request
          /\ sp.version = "v3" => MaxDepth \leq 1
    /\ Faults \subseteq {"sendfail", "disconnect"}

VARIABLES
    sp,       \* the session: of a subagent to its master, or an SNMPv3 session
    isp,      \* the list: requests, requestsEnd and the next_request pointers
    kind,     \* "async" with a callback of its own, "sync" without
    retries,  \* rp->retries
    unsent,   \* requests whose last transmission failed
    expired,  \* requests whose expireM has passed
    outcome,  \* history: how a request left the list
    calls,    \* stack of synchronous calls, named by their request
    waiting,  \* calls whose state->waiting is set
    status,   \* state->status of a call
    walk,     \* rp and orp of _Api_sessTimeout, or NoWalk
    session   \* "open", "broken" (socket closed) or "gone"

listVars == <<isp, retries, unsent, expired, outcome>>
callVars == <<calls, waiting, status>>
apiVars  == <<sp, listVars, callVars, kind, walk, session>>

AgentX     == sp.version = "agentx"
MaxRetries == sp.retries

NoWalk  == [rp |-> Nil, orp |-> Nil]
Pointer == Request \cup {Nil}

ApiInit ==
    /\ sp \in Sessions
    /\ isp = [requests |-> Nil, requestsEnd |-> Nil, next |-> [r \in Request |-> Nil]]
    /\ kind = [r \in Request |-> "none"]
    /\ retries = [r \in Request |-> 0]
    /\ unsent = {} /\ expired = {}
    /\ outcome = [r \in Request |-> "none"]
    /\ calls = <<>> /\ waiting = {}
    /\ status = [r \in Request |-> "none"]
    /\ walk = NoWalk
    /\ session = "open"

-----------------------------------------------------------------------------
(* The list, with the pointers as the code moves them.                     *)

Node == LET node[i \in 0 .. Cardinality(Request)] ==
              IF i = 0 THEN isp.requests
              ELSE IF node[i - 1] = Nil THEN Nil ELSE isp.next[node[i - 1]]
        IN node

Listed == {Node[i] : i \in DOMAIN Node} \ {Nil}

\* The orp of a walk from the head that stops at rp.
Before(rp) == IF isp.requests = rp THEN Nil
              ELSE CHOOSE orp \in Listed : isp.next[orp] = rp

JoinList(l, rp) ==
    IF l.requestsEnd = Nil
    THEN [requests |-> rp, requestsEnd |-> rp,
          next |-> [l.next EXCEPT ![rp] = l.requests]]
    ELSE [l EXCEPT !.requestsEnd = rp,
                   !.next[rp] = l.next[l.requestsEnd],
                   !.next[l.requestsEnd] = rp]

\* Mutant: the end of the list is left alone.
UnlinkKeepEnd(l, rp, orp) ==
    IF orp = Nil THEN [l EXCEPT !.requests = l.next[rp]]
    ELSE [l EXCEPT !.next[orp] = l.next[rp]]

Unlink(l, rp, orp) ==
    LET end == IF l.requestsEnd = rp THEN orp ELSE l.requestsEnd
    IN IF orp = Nil THEN [l EXCEPT !.requests = l.next[rp], !.requestsEnd = end]
       ELSE [l EXCEPT !.next[orp] = l.next[rp], !.requestsEnd = end]

\* A request is told its outcome and freed.
Told(r, how) ==
    [outcome EXCEPT ![r] = IF @ = "none" THEN how ELSE "twice"]

-----------------------------------------------------------------------------
(* Synchronous calls.                                                      *)

\* sp->callback_magic: the state of the innermost call.
Top == IF calls = <<>> THEN Nil ELSE calls[Len(calls)]

\* The main loop, or the loop of Client_synchResponseCb, is about to select.
Looping == walk = NoWalk /\ (Top = Nil \/ Top \in waiting)

Reports == {"timeWindow", "report"}
Replies == {"response"} \cup (IF AgentX THEN {} ELSE Reports)

\* Mutant: a report is taken for the answer.
MeaningOfReports(event) == IF event = "timedOut" THEN "timeout" ELSE "success"

Meaning(event) ==
    CASE event = "response" -> "success"
      [] event = "timedOut" -> "timeout"
      [] event \in Reports  -> "error"

(* A request of a synchronous call has no callback of its own: the event   *)
(* goes to the callback of the session, which serves the innermost call and *)
(* compares request identities, except for the reports of SNMPv3.          *)
Reaches(r, event) ==
    kind[r] = "sync" /\ Top # Nil /\ (r = Top \/ event \in Reports)

\* Mutant: only the answer wakes the call.
AwakenOnAnswer(r, event) ==
    /\ waiting' = IF Reaches(r, event) /\ event = "response"
                  THEN waiting \ {Top} ELSE waiting
    /\ status' = IF Reaches(r, event) THEN [status EXCEPT ![Top] = Meaning(event)]
                 ELSE status
    /\ UNCHANGED calls

(* _Client_synchInput or XClient_synchInput hears of the end of r.  After   *)
(* the last report _Api_sessProcessPacket clears the waiting flag itself.  *)
Awaken(r, event) ==
    /\ waiting' = IF Reaches(r, event) THEN waiting \ {Top} ELSE waiting
    /\ status' = IF Reaches(r, event) THEN [status EXCEPT ![Top] = Meaning(event)]
                 ELSE status
    /\ UNCHANGED calls

-----------------------------------------------------------------------------
(* Sending.                                                                *)

SendOutcomes ==
    IF session # "open" THEN {FALSE}
    ELSE IF "sendfail" \in Faults THEN BOOLEAN ELSE {TRUE}

(* _Api_sessAsyncSend for a PDU that expects a response: only one that was *)
(* sent joins the list.                                                    *)
Sent(r, as, ok) ==
    /\ kind[r] = "none" /\ r \in sp.requests
    /\ kind' = [kind EXCEPT ![r] = as]
    /\ outcome' = IF ok THEN outcome ELSE Told(r, "failed")
    /\ isp' = IF ok THEN JoinList(isp, r) ELSE isp
    /\ UNCHANGED <<sp, retries, unsent, expired, walk, session>>

AsyncSend(r) ==
    /\ Looping /\ session # "gone"
    /\ \E ok \in SendOutcomes : Sent(r, "async", ok)
    /\ UNCHANGED callVars

(* Client_synchResponseCb up to its loop.  A call inside another comes from *)
(* a handler of a request that the outer loop has read.                    *)
Call(r) ==
    /\ Looping /\ session # "gone"
    /\ Len(calls) < MaxDepth
    /\ \E ok \in SendOutcomes :
         /\ Sent(r, "sync", ok)
         /\ waiting' = IF ok THEN waiting \cup {r} ELSE waiting
         /\ status' = IF ok THEN status ELSE [status EXCEPT ![r] = "error"]
    /\ calls' = Append(calls, r)

\* The loop ends, and the callback of the call outside is restored.
Return ==
    /\ walk = NoWalk /\ Top # Nil /\ Top \notin waiting
    /\ calls' = SubSeq(calls, 1, Len(calls) - 1)
    /\ UNCHANGED <<sp, listVars, kind, waiting, status, walk, session>>

\* Mutant: only a transmission that succeeds is counted.
ResendUncounted(r, ok) ==
    /\ retries' = IF ok THEN [retries EXCEPT ![r] = @ + 1] ELSE retries
    /\ unsent' = IF ok THEN unsent \ {r} ELSE unsent \cup {r}
    /\ expired' = IF ok THEN expired \ {r} ELSE expired
    /\ UNCHANGED <<isp, outcome>>

\* _Api_resendRequest: a failure leaves the time of expiry in the past.
Resend(r, ok) ==
    /\ retries' = [retries EXCEPT ![r] = @ + 1]
    /\ unsent' = IF ok THEN unsent \ {r} ELSE unsent \cup {r}
    /\ expired' = IF ok THEN expired \ {r} ELSE expired
    /\ UNCHANGED <<isp, outcome>>

-----------------------------------------------------------------------------
(* _Api_sessProcessPacket for a response PDU.                               *)

\* SNMPv3 compares message identities, which change with each transmission;
\* AgentX compares request identities.
Matches(r) == r \in Listed /\ (AgentX \/ r \notin unsent)

\* The answer is taken by the callback of r, or by that of the session.
Accepts(r, reply) ==
    \/ kind[r] = "async" \/ AgentX
    \/ Reaches(r, reply)

\* Mutant: reports never exhaust the retries.
ReportRetriesForever(r) == TRUE

ReportRetries(r) == retries[r] \leq MaxRetries

(* "trigger immediate retry on recoverable Reports": the request stays.    *)
RetryOnReport(r) ==
    /\ Looping /\ session = "open"
    /\ Matches(r) /\ "timeWindow" \in Replies
    /\ Accepts(r, "timeWindow") /\ ReportRetries(r)
    /\ status' = IF Reaches(r, "timeWindow") THEN [status EXCEPT ![Top] = "error"]
                 ELSE status
    /\ \E ok \in SendOutcomes : Resend(r, ok)
    /\ UNCHANGED <<sp, calls, waiting, kind, walk, session>>

(* The answer ends the request.  A callback may have sent another request  *)
(* of the session before r is unlinked, as Subagent_handleSubagentSetResponse *)
(* does between RESERVE1 and RESERVE2.                                     *)
Finish(r, reply) ==
    /\ Looping /\ session = "open"
    /\ Matches(r) /\ reply \in Replies
    /\ Accepts(r, reply)
    /\ reply = "timeWindow" => ~ReportRetries(r)
    /\ LET orp == Before(r)
       IN \/ /\ isp' = Unlink(isp, r, orp)
             /\ UNCHANGED kind
          \/ \E q \in Request :
               /\ kind[r] = "async" /\ reply = "response"
               /\ kind[q] = "none" /\ q \in sp.requests
               /\ kind' = [kind EXCEPT ![q] = "async"]
               /\ isp' = Unlink(JoinList(isp, q), r, orp)
    /\ outcome' = Told(r, IF reply = "response" THEN "answered" ELSE "reported")
    /\ Awaken(r, reply)
    /\ expired' = expired \ {r}
    /\ UNCHANGED <<sp, retries, unsent, walk, session>>

-----------------------------------------------------------------------------
(* Api_sessTimeout, one turn of its loop at a time.                         *)

\* Time passes; requests have timeouts of their own, so any may be first.
Expire(r) ==
    /\ walk = NoWalk
    /\ r \in Listed \ expired
    /\ expired' = expired \cup {r}
    /\ UNCHANGED <<sp, isp, retries, unsent, outcome, callVars, kind, walk, session>>

SessTimeout ==
    /\ Looping /\ session = "open"
    /\ Listed \cap expired # {}
    /\ walk' = [rp |-> isp.requests, orp |-> Nil]
    /\ UNCHANGED <<sp, listVars, callVars, kind, session>>

\* The walk steps to the next request; orp is what it remembers.
WalkOn(rp, orp) ==
    walk' = IF isp.next[rp] = Nil THEN NoWalk
            ELSE [rp |-> isp.next[rp], orp |-> orp]

SkipFresh ==
    /\ walk # NoWalk /\ walk.rp \notin expired
    /\ WalkOn(walk.rp, walk.rp)
    /\ UNCHANGED <<sp, listVars, callVars, kind, session>>

\* Mutant: the time of expiry survives the request.
GiveUpForgetful ==
    LET rp == walk.rp
    IN /\ walk # NoWalk /\ rp \in expired /\ retries[rp] \geq MaxRetries
       /\ Awaken(rp, "timedOut")
       /\ outcome' = Told(rp, "timedOut")
       /\ isp' = Unlink(isp, rp, walk.orp)
       /\ WalkOn(rp, walk.orp)
       /\ UNCHANGED <<sp, retries, unsent, expired, kind, session>>

\* "No more chances, delete this entry"
GiveUp ==
    LET rp == walk.rp
    IN /\ walk # NoWalk /\ rp \in expired /\ retries[rp] \geq MaxRetries
       /\ Awaken(rp, "timedOut")
       /\ outcome' = Told(rp, "timedOut")
       /\ isp' = Unlink(isp, rp, walk.orp)
       /\ expired' = expired \ {rp}
       /\ WalkOn(rp, walk.orp)
       /\ UNCHANGED <<sp, retries, unsent, kind, session>>

\* A transmission that fails ends the walk.
RetryExpired ==
    LET rp == walk.rp
    IN /\ walk # NoWalk /\ rp \in expired /\ retries[rp] < MaxRetries
       /\ \E ok \in SendOutcomes :
            /\ Resend(rp, ok)
            /\ IF ok THEN WalkOn(rp, rp) ELSE walk' = NoWalk
       /\ UNCHANGED <<sp, callVars, kind, session>>

-----------------------------------------------------------------------------
(* The end of the session.                                                 *)

\* Mutant: the innermost call is not told.
DisconnectUntold ==
    /\ Looping /\ session = "open" /\ AgentX /\ "disconnect" \in Faults
    /\ session' = "broken"
    /\ UNCHANGED <<sp, listVars, callVars, kind, walk>>

(* _Api_sessRead finds the stream closed: DISCONNECT goes to the callback of *)
(* the session with the state of the innermost call                        *)
(* (Subagent_handleAgentxPacket), then the socket is closed.               *)
Disconnect ==
    /\ Looping /\ session = "open" /\ AgentX /\ "disconnect" \in Faults
    /\ session' = "broken"
    /\ waiting' = waiting \ {Top}
    /\ status' = IF Top = Nil THEN status ELSE [status EXCEPT ![Top] = "error"]
    /\ UNCHANGED <<sp, listVars, calls, kind, walk>>

(* Api_sessClose: only a request with a callback of its own is told.  It is *)
(* called by Api_sessSelectInfo2Flags when it meets a closed socket, and by *)
(* the owner of the session, who waits in no call then.                    *)
Close ==
    /\ Looping
    /\ session = "broken" \/ (session = "open" /\ calls = <<>>)
    /\ session' = "gone"
    /\ outcome' = [r \in Request |->
                     IF r \notin Listed THEN outcome[r]
                     ELSE Told(r, IF kind[r] = "async" THEN "timedOut"
                                  ELSE "closed")[r]]
    /\ isp' = [isp EXCEPT !.requests = Nil, !.requestsEnd = Nil]
    /\ expired' = {}
    /\ UNCHANGED <<sp, retries, unsent, callVars, kind, walk>>

DropBroken == session = "broken" /\ Close

-----------------------------------------------------------------------------
WalkStep == SkipFresh \/ GiveUp \/ RetryExpired

ApiNext ==
    \/ \E r \in Request : AsyncSend(r) \/ Call(r)
    \/ \E r \in Request : RetryOnReport(r) \/ Expire(r)
    \/ \E r \in Request, reply \in {"response"} \cup Reports : Finish(r, reply)
    \/ Return \/ SessTimeout \/ WalkStep
    \/ Disconnect \/ Close

ApiSpec == ApiInit /\ [][ApiNext]_apiVars

(* Every loop selects with the time of the earliest expiry and then runs   *)
(* the timers, goes on with what it is inside, and drops a broken session. *)
ApiFairness ==
    /\ WF_apiVars(Return) /\ WF_apiVars(WalkStep)
    /\ WF_apiVars(SessTimeout) /\ WF_apiVars(DropBroken)
    /\ \A r \in Request : WF_apiVars(Expire(r))

FairApiSpec == ApiSpec /\ ApiFairness

-----------------------------------------------------------------------------
Outcome == {"none", "failed", "answered", "reported", "timedOut", "closed"}

ApiTypeOK ==
    /\ isp \in [requests : Pointer, requestsEnd : Pointer, next : [Request -> Pointer]]
    /\ kind \in [Request -> {"none", "async", "sync"}]
    /\ retries \in [Request -> Nat]
    /\ unsent \in SUBSET Request /\ expired \in SUBSET Listed
    /\ outcome \in [Request -> Outcome \cup {"twice"}]
    /\ calls \in Seq(Request) /\ waiting \in SUBSET Request
    /\ status \in [Request -> {"none", "success", "timeout", "error"}]
    /\ walk \in [rp : Pointer, orp : Pointer]
    /\ session \in {"open", "broken", "gone"}

Outstanding == {r \in Request : kind[r] # "none" /\ outcome[r] = "none"}
InCall(r)   == \E i \in DOMAIN calls : calls[i] = r

(* The pointers of the list lead through the outstanding requests, each    *)
(* once and none that was freed, and requestsEnd is the last: whatever was *)
(* appended, matched, timed out or resent in a walk that kept a pointer to *)
(* the request before.  Nothing that was freed is told a second outcome by *)
(* a late answer, a timeout or the close (_Api_sessProcessPacket,           *)
(* Api_sessTimeout, Api_sessClose).                                         *)
ListSound ==
    /\ \A r \in Request : outcome[r] # "twice"
    /\ Listed = Outstanding
    /\ \A i, j \in DOMAIN Node : Node[i] = Node[j] /\ Node[i] # Nil => i = j
    /\ isp.requestsEnd = IF Listed = {} THEN Nil
                         ELSE Node[Cardinality(Listed) - 1]

(* While its session lives, a synchronous call waits exactly as long as its *)
(* request is on the list: else it waits for ever, or leaves behind a      *)
(* request whose callback uses the state of a call that has returned.      *)
WaitsForListed ==
    session = "open" =>
        \A r \in Request : r \in waiting <=> kind[r] = "sync" /\ r \in Outstanding

(* The status a synchronous call returns tells what became of its request, *)
(* whatever reports and retries came before (_Client_synchInput).           *)
StatusTellsOutcome ==
    \A r \in Request :
        kind[r] = "sync" /\ ~InCall(r) =>
            /\ status[r] = "success" <=> outcome[r] = "answered"
            /\ status[r] = "timeout" <=> outcome[r] = "timedOut"

(* The session is not freed under a call that goes on using it             *)
(* (Client_synchResponseCb reads ss->flags and restores ss->callback).     *)
SessionOutlivesCalls == session = "gone" => calls = <<>>

(* A request is transmitted a bounded number of times, whatever mixture of *)
(* reports and timeouts it meets, and is not given up by the timer before  *)
(* all its retries were made (_Api_sessProcessPacket, Api_sessTimeout).      *)
RetryBudget ==
    \A r \in Request :
        /\ retries[r] \leq MaxRetries + 1
        /\ outcome[r] = "timedOut" /\ session # "gone" => retries[r] \geq MaxRetries

(* Every request leaves the list and every synchronous call returns, even  *)
(* if nothing is ever answered or nothing can be sent any more.            *)
EveryoneEnds ==
    \A r \in Request :
        kind[r] # "none" ~> (outcome[r] # "none" /\ ~InCall(r))

(* "agentx will spin in snmp_synch_response_cb, waiting for a response. At *)
(* the very least, the waiting flag must be set to break that loop"        *)
(* (Subagent_handleAgentxPacket): a call ends when the session does.       *)
DisconnectEndsCalls == session = "broken" ~> calls = <<>>
=============================================================================

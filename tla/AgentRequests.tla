---------------------------- MODULE AgentRequests ----------------------------
(***************************************************************************)
(* The request scheduler of the agent (src/Firmware/Priot/Agent.c).        *)
(*                                                                         *)
(* A received PDU becomes an AgentSession ("asp", here a member of Req).   *)
(* Its varbinds are grouped by the handler registration that owns them, a  *)
(* "slot" of asp->treecache.  A handler answers at once (Local slots) or   *)
(* delegates: Master_handler sends the chain of varbinds to an AgentX      *)
(* subagent (Session slots) and the asp waits on agent_delegated_list.     *)
(* A SET walks RESERVE1, RESERVE2, ACTION, COMMIT, or leaves by FREE or    *)
(* UNDO; while it executes no other request may, so a SET waits until      *)
(* nothing is delegated and every later request waits in                   *)
(* agent_agentQueuedList.                                                  *)
(*                                                                         *)
(* The agent is single threaded: pc names the function it is inside.  The  *)
(* environment (a packet, an answer, a session that closes) acts only when *)
(* pc is "idle", that is in the select loop of Daemon.c.                   *)
(***************************************************************************)
EXTENDS Integers, FiniteSets, Sequences

CONSTANTS
    Req,        \* the requests (AgentSession objects)
    NVar,       \* varbinds of a request
    Local,      \* slots whose handler answers synchronously
    Session,    \* slots owned by an AgentX session
    Commands,   \* the PDU commands received, out of GET, GETNEXT and SET
    Layouts,    \* the assignments of varbinds to slots that are explored
    MaxPasses,  \* bound: getnext passes over the handlers of one request
    NoReq, NoSession

Varbind == 1..NVar
Slot    == Local \cup Session

ASSUME ConstantsAssumption ==
    /\ NVar \in Nat \ {0}
    /\ MaxPasses \in Nat
    /\ Commands \subseteq {"GET", "GETNEXT", "SET"}
    /\ Layouts \subseteq [Varbind -> Slot]
    /\ \E l \in Layouts : \A v \in Varbind : l[v] \in Local
    /\ Local \cap Session = {}
    /\ NoReq \notin Req
    /\ NoSession \notin Session

VARIABLES
    cmd,            \* asp->pdu->command, "none" before the packet arrives
    asp,            \* the fields of the AgentSession that change
    processingSet,  \* agent_processingSet
    delegatedList,  \* agent_delegated_list, as the set of its members
    queuedList,     \* agent_agentQueuedList
    response,       \* the errstat sent to the manager, "none" before
    pc,             \* where the agent is
    cur,            \* the asp whose handlers are being run
    from,           \* where control returns when cur parks or is answered
    left,           \* varbinds whose slot this pass has still to call
    final,          \* final_status of Agent_handleVarRequests
    todo,           \* delegated asps the scan has still to visit
    closing,        \* the session being closed
    closed,         \* sessions whose registrations are gone
    calls,          \* history: <<slot, mode>> handler calls of a live request
    failed          \* history: <<mode, "handler" or "answer">> of its failures

reqVars  == <<cmd, asp, response>>
listVars == <<processingSet, delegatedList, queuedList>>
ctlVars  == <<pc, cur, from, left, final, todo>>
sessVars == <<closing, closed>>
histVars == <<calls, failed>>
vars == <<reqVars, listVars, ctlVars, sessVars, histVars>>

-----------------------------------------------------------------------------
ErrStat  == {"noError", "genErr", "noAccess", "commitFailed", "undoFailed"}
FinishedEarly == {"FINISHED_SUCCESS", "FINISHED_FAILURE", "FREE"}  \* mutant
Finished == {"FINISHED_SUCCESS", "FINISHED_FAILURE"}
SetMode  == {"BEGIN", "RESERVE1", "RESERVE2", "ACTION", "COMMIT", "FREE", "UNDO"}
Mode     == SetMode \cup Finished \cup {"GET", "GETNEXT"}
Running  == {"pdu", "set", "pass", "next", "done"}
Return   == {"idle", "scan", "popped"}

Asp == [mode : Mode, status : ErrStat, index : 0..NVar,
        owner : [Varbind -> Slot], next : [Varbind -> 0..NVar],
        err : [Varbind -> ErrStat], delegated : SUBSET Varbind,
        passes : 0..MaxPasses]

MinOf(S) == CHOOSE v \in S : \A w \in S : v <= w

\* The chain of a slot: the varbinds of S that w's registration owns.
Chain(owner, S, w) == {v \in S : owner[v] = owner[w]}

\* Mutant: every varbind is linked to the next, whatever its slot.
LinkAll(owner, S, next) == [v \in Varbind |-> IF v \in S THEN v + 1 ELSE next[v]]

\* request->next, after the varbinds of S have been linked into their chains:
\* requests outside S keep the pointer of an earlier pass.
Link(owner, S, next) ==
    [v \in Varbind |->
        LET later == {w \in Chain(owner, S, v) : w > v}
        IN IF v \notin S THEN next[v]
           ELSE IF later = {} THEN 0 ELSE MinOf(later)]

\* The varbinds reached from asp->requests by following request->next.
FirstChain(a) ==
    LET walk[n \in 0..NVar] ==
            IF n = 0 THEN {1}
            ELSE walk[n - 1] \cup {a.next[v] : v \in walk[n - 1] \ {0}}
    IN {v \in Varbind : v \in walk[NVar]}

\* Mutant: only the first slot is looked at.
DelegatedFirst(a) == a.delegated \cap FirstChain(a) # {}

\* Agent_checkForDelegated.
Delegated(a) == a.delegated # {}

NewAsp(mode, owner) ==
    [mode |-> mode, status |-> "noError", index |-> 0, owner |-> owner,
     next |-> Link(owner, Varbind, [v \in Varbind |-> 0]),
     err |-> [v \in Varbind |-> "noError"], delegated |-> {}, passes |-> 0]

\* The asp of a request that has not reached Agent_handlePdu or has been
\* freed: Agent_initAgentPriotSession, before any varbind has a registration.
FreeAsp == NewAsp("RESERVE1", CHOOSE l \in Layouts : TRUE)

\* The layouts whose registrations are all there.
Registered == {l \in Layouts : \A v \in Varbind : l[v] \notin closed}

\* Error status that Agent_handleVarRequests looks for in a mode.
LookFor(mode) == CASE mode = "COMMIT" -> "commitFailed"
                   [] mode = "UNDO"   -> "undoFailed"
                   [] OTHER           -> "any"

\* v comes before w in the treecache: slots are in order of first use.
Before(a, v, w) ==
    LET fv == MinOf(Chain(a.owner, Varbind, v))
        fw == MinOf(Chain(a.owner, Varbind, w))
    IN fv < fw \/ (fv = fw /\ v < w)

\* Agent_checkRequestsStatus over the varbinds C.  Without a specific error
\* the failing varbind of lowest index is kept, and only one below
\* asp->index replaces it; with one, the last match wins.
CheckRequestsStatus(a, C, look) ==
    LET hits == {v \in C : IF look = "any"
                           THEN /\ a.err[v] # "noError"
                                /\ a.index = 0 \/ v < a.index
                           ELSE a.err[v] = look}
        hit  == IF look = "any" THEN MinOf(hits)
                ELSE CHOOSE v \in hits : \A w \in hits : w = v \/ Before(a, w, v)
    IN IF hits = {} THEN a
       ELSE [a EXCEPT !.index = hit, !.status = a.err[hit]]

\* Mutant: the status is not looked at.
NextModeBlind(mode, status) ==
    CASE mode = "BEGIN"    -> "RESERVE1"
      [] mode = "RESERVE1" -> "RESERVE2"
      [] mode = "RESERVE2" -> "ACTION"
      [] mode = "ACTION"   -> "COMMIT"
      [] OTHER             -> "FINISHED_FAILURE"

\* The mode switch at the head of Agent_handleSet.
NextMode(mode, status) ==
    CASE mode = "BEGIN"    -> "RESERVE1"
      [] mode = "RESERVE1" -> IF status # "noError" THEN "FREE" ELSE "RESERVE2"
      [] mode = "RESERVE2" -> IF status # "noError" THEN "FREE" ELSE "ACTION"
      [] mode = "ACTION"   -> IF status # "noError" THEN "UNDO" ELSE "COMMIT"
      [] mode = "COMMIT"   -> IF status # "noError" THEN "FINISHED_FAILURE"
                              ELSE "FINISHED_SUCCESS"
      [] OTHER             -> "FINISHED_FAILURE"

\* Errors a local handler may put on a varbind in a mode.
HandlerErr(mode) == {"genErr"} \cup (CASE mode = "COMMIT" -> {"commitFailed"}
                                       [] mode = "UNDO"   -> {"undoFailed"}
                                       [] OTHER           -> {})

\* Errors a subagent may answer with: a COMMITSET may fail as commitFailed.
AnswerErr(mode) == HandlerErr(IF mode = "ACTION" THEN "COMMIT" ELSE mode)

\* Modes in which Master_handler expects an answer: TESTSET, COMMITSET,
\* UNDOSET, GET and GETNEXT.  RESERVE2 sends nothing, CLEANUPSET is one-way.
AgentxAnswered == {"RESERVE1", "ACTION", "UNDO", "GET", "GETNEXT"}

\* What calling the handlers of a slot may leave behind: the new per-varbind
\* errors and delegation flags, and the value the handler returned.
LocalResults(a, C) ==
    {[err |-> [v \in Varbind |-> IF v \in bad THEN e ELSE a.err[v]],
      delegated |-> a.delegated, ret |-> r, hit |-> bad # {} \/ r # "noError"] :
        bad \in SUBSET C, e \in HandlerErr(a.mode), r \in {"noError", "genErr"}}

MasterResult(a, C) ==
    [err |-> a.err,
     delegated |-> IF a.mode \in AgentxAnswered THEN a.delegated \cup C
                   ELSE a.delegated,
     ret |-> "noError", hit |-> FALSE]

\* The subtree lost its reginfo: no handler is called, the status is genErr.
GoneResult(a) == [err |-> a.err, delegated |-> a.delegated,
                  ret |-> "genErr", hit |-> TRUE]

SlotResults(a, s, C) ==
    IF s \in closed THEN {GoneResult(a)}
    ELSE IF s \in Session THEN {MasterResult(a, C)}
    ELSE LocalResults(a, C)

-----------------------------------------------------------------------------
(* Agent_wrapUpRequest: the response leaves, the SET gate opens, the asp   *)
(* is freed (and its history with it).                                     *)
WrapUp(r, status) ==
    /\ processingSet' = IF processingSet = r THEN NoReq ELSE processingSet
    /\ response' = [response EXCEPT ![r] = status]
    /\ asp' = [asp EXCEPT ![r] = FreeAsp]
    /\ calls' = [calls EXCEPT ![r] = {}]
    /\ failed' = [failed EXCEPT ![r] = {}]
    /\ delegatedList' = delegatedList \ {r}
    /\ cur' = NoReq
    /\ pc' = from

(* Agent_checkForDelegatedAndAdd for an asp with delegated varbinds.       *)
Park(r) ==
    /\ delegatedList' = delegatedList \cup {r}
    /\ cur' = NoReq
    /\ pc' = from
    /\ UNCHANGED <<processingSet, response, histVars>>

\* Mutant: the caller is forgotten.
StartPduIdle(r, ret) ==
    /\ cur' = r
    /\ from' = "idle"
    /\ pc' = "pdu"

StartPdu(r, ret) ==
    /\ cur' = r
    /\ from' = ret
    /\ pc' = "pdu"

GateShutByHolder(r) == processingSet # NoReq /\ r # processingSet  \* mutant

\* The test at the head of Agent_handleRequest for an asp that is not
\* finishing a delegation and does not own the gate.
GateShut(r) == r \notin delegatedList /\ r # processingSet

(* Agent_handleRequest up to the call of Agent_handlePdu.  q is the queue  *)
(* the request finds, ret where control goes afterwards.                   *)
HandleRequest(r, command, q, ret) ==
    \/ /\ GateShut(r)
       /\ processingSet # NoReq
       /\ queuedList' = Append(q, r)
       /\ pc' = ret
       /\ UNCHANGED <<processingSet, cur, from>>
    \/ /\ GateShut(r)
       /\ processingSet = NoReq
       /\ command = "SET"
       /\ processingSet' = r
       /\ \/ /\ delegatedList # {}
             /\ queuedList' = Append(q, r)
             /\ pc' = ret
             /\ UNCHANGED <<cur, from>>
          \/ /\ delegatedList = {}
             /\ queuedList' = q
             /\ StartPdu(r, ret)
    \/ /\ \/ ~GateShut(r)
          \/ processingSet = NoReq /\ command # "SET"
       /\ queuedList' = q
       /\ StartPdu(r, ret)
       /\ UNCHANGED processingSet

-----------------------------------------------------------------------------
Init ==
    /\ cmd = [r \in Req |-> "none"]
    /\ asp = [r \in Req |-> FreeAsp]
    /\ response = [r \in Req |-> "none"]
    /\ processingSet = NoReq /\ delegatedList = {} /\ queuedList = <<>>
    /\ pc = "idle" /\ cur = NoReq /\ from = "idle"
    /\ left = {} /\ final = "noError" /\ todo = {}
    /\ closing = NoSession /\ closed = {}
    /\ calls = [r \in Req |-> {}]
    /\ failed = [r \in Req |-> {}]

(* Agent_handlePriotPacket: a packet becomes an asp and is handled, or is  *)
(* dropped when the access control of its message fails.                   *)
Receive(r) ==
    /\ pc = "idle"
    /\ cmd[r] = "none"
    /\ \E c \in Commands :
        /\ cmd' = [cmd EXCEPT ![r] = c]
        /\ HandleRequest(r, c, queuedList, "idle")
    /\ UNCHANGED <<asp, response, delegatedList, left, final, todo, sessVars,
                   histVars>>

Drop(r) ==
    /\ pc = "idle"
    /\ cmd[r] = "none"
    /\ \E c \in Commands : cmd' = [cmd EXCEPT ![r] = c]
    /\ response' = [response EXCEPT ![r] = "dropped"]
    /\ UNCHANGED <<asp, listVars, ctlVars, sessVars, histVars>>

(* Agent_handlePdu.  Agent_createSubtreeCache looks up the registration of *)
(* each varbind; the one of the null handler, a local slot, is always      *)
(* there.  A SET that fails the access checks there or in Agent_checkAcm   *)
(* calls no handler.                                                       *)
RefuseSet ==
    /\ pc = "pdu" /\ cmd[cur] = "SET"
    /\ WrapUp(cur, "noAccess")
    /\ UNCHANGED <<cmd, queuedList, from, left, final, todo, sessVars>>

BeginSet ==
    /\ pc = "pdu" /\ cmd[cur] = "SET"
    /\ \E l \in Registered : asp' = [asp EXCEPT ![cur] = NewAsp("BEGIN", l)]
    /\ pc' = "set"
    /\ UNCHANGED <<cmd, response, listVars, cur, from, left, final, todo,
                   sessVars, histVars>>

BeginGet ==
    /\ pc = "pdu" /\ cmd[cur] # "SET"
    /\ \E l \in Registered : asp' = [asp EXCEPT ![cur] = NewAsp(cmd[cur], l)]
    /\ left' = Varbind
    /\ final' = "noError"
    /\ pc' = "pass"
    /\ UNCHANGED <<cmd, response, listVars, cur, from, todo, sessVars, histVars>>

(* Agent_handleSet up to Agent_handleVarRequests, or the end of            *)
(* Agent_handleSetLoop when the transaction is finished.                   *)
NextSetPass ==
    /\ pc = "set"
    /\ LET a == asp[cur]
           m == NextMode(a.mode, a.status)
       IN /\ m \notin Finished
          /\ asp' = [asp EXCEPT ![cur].mode = m]
    /\ left' = Varbind
    /\ final' = "noError"
    /\ pc' = "pass"
    /\ UNCHANGED <<cmd, response, listVars, cur, from, todo, sessVars, histVars>>

FinishSet ==
    /\ pc = "set"
    /\ NextMode(asp[cur].mode, asp[cur].status) \in Finished
    /\ WrapUp(cur, asp[cur].status)
    /\ UNCHANGED <<cmd, queuedList, from, left, final, todo, sessVars>>

(* One turn of the loop of Agent_handleVarRequests: the next slot of the   *)
(* treecache is called with its chain and its errors are collected.        *)
CallSlot ==
    /\ pc = "pass" /\ left # {}
    /\ LET a == asp[cur]
           v == MinOf(left)
           s == a.owner[v]
           C == Chain(a.owner, left, v)
       IN \E h \in SlotResults(a, s, C) :
            LET b  == CheckRequestsStatus(
                        [a EXCEPT !.err = h.err, !.delegated = h.delegated],
                        C, LookFor(a.mode))
                st == IF b.status # "noError" THEN b.status ELSE h.ret
            IN /\ asp' = [asp EXCEPT ![cur] = b]
               /\ left' = left \ C
               /\ final' = IF final = "noError" THEN st ELSE final
               /\ calls' = [calls EXCEPT ![cur] =
                              IF s \in closed THEN @ ELSE @ \cup {<<s, a.mode>>}]
               /\ failed' = [failed EXCEPT ![cur] =
                              IF h.hit THEN @ \cup {<<a.mode, "handler">>} ELSE @]
    /\ UNCHANGED <<cmd, response, listVars, pc, cur, from, todo, sessVars>>

SetStatusOfVarbinds(a) == a.status  \* mutant

\* asp->status after the handlers of a SET pass, the tail of Agent_handleSet.
SetStatus(a) ==
    IF \/ final # "noError" /\ a.status = "noError"
       \/ final \in {"commitFailed", "undoFailed"}
    THEN final ELSE a.status

\* asp->status of a SET that parks: Agent_handleSetLoop returned NOERROR, and
\* Agent_handleRequest stores that; Agent_checkDelayedRequest does not.
ParkedSetStatus(a) == IF from = "scan" THEN SetStatus(a) ELSE "noError"

(* The end of a SET pass: wait for delegated varbinds or go round again.   *)
EndSetPass ==
    /\ pc = "pass" /\ left = {} /\ cmd[cur] = "SET"
    /\ LET a == asp[cur] IN
        \/ /\ ~Delegated(a)
           /\ asp' = [asp EXCEPT ![cur].status = SetStatus(a)]
           /\ pc' = "set"
           /\ UNCHANGED <<processingSet, delegatedList, response, cur, histVars>>
        \/ /\ Delegated(a)
           /\ asp' = [asp EXCEPT ![cur].status = ParkedSetStatus(a)]
           /\ Park(cur)
    /\ UNCHANGED <<cmd, queuedList, from, left, final, todo, sessVars>>

\* The errstat of a GET-class request whose handlers have all answered: the
\* status a delayed pass returned is ignored.
GetStatus(a) == IF from = "scan" \/ a.status # "noError" THEN a.status ELSE final

(* The end of a GET-class pass.                                            *)
EndGetPass ==
    /\ pc = "pass" /\ left = {} /\ cmd[cur] # "SET"
    /\ LET a == asp[cur] IN
        \/ /\ Delegated(a)
           /\ asp' = [asp EXCEPT ![cur].status =
                        IF from = "scan" THEN a.status ELSE final]
           /\ Park(cur)
        \/ /\ ~Delegated(a)
           /\ cmd[cur] = "GETNEXT" /\ final = "noError"
           /\ pc' = "next"
           /\ UNCHANGED <<asp, processingSet, delegatedList, response, cur, histVars>>
        \/ /\ ~Delegated(a)
           /\ cmd[cur] = "GET" \/ final # "noError"
           /\ WrapUp(cur, GetStatus(a))
    /\ UNCHANGED <<cmd, queuedList, from, left, final, todo, sessVars>>

\* Agent_reassignRequests: the varbinds of S join the slots of l afresh.
Reassigned(a, S, l) ==
    LET o == [v \in Varbind |-> IF v \in S THEN l[v] ELSE a.owner[v]]
    IN [a EXCEPT !.owner  = o,
                 !.next   = Link(o, S, @),
                 !.err    = [v \in Varbind |-> IF v \in S THEN "noError" ELSE @[v]],
                 !.passes = @ + 1]

(* Agent_handleGetnextLoop: the varbinds still without a value are         *)
(* reassigned to their next or same subtree and their handlers called      *)
(* again, or none is left and the request is done.                         *)
NextGetPass ==
    /\ pc = "next"
    /\ asp[cur].passes < MaxPasses
    /\ \E S \in SUBSET Varbind \ {{}}, l \in Registered :
        /\ asp' = [asp EXCEPT ![cur] = Reassigned(@, S, l)]
        /\ left' = S
    /\ final' = "noError"
    /\ pc' = "pass"
    /\ UNCHANGED <<cmd, response, listVars, cur, from, todo, sessVars, histVars>>

FinishGetnext ==
    /\ pc = "next"
    /\ WrapUp(cur, asp[cur].status)
    /\ UNCHANGED <<cmd, queuedList, from, left, final, todo, sessVars>>

-----------------------------------------------------------------------------
(* Agent_checkOutstandingAgentRequests, called once per turn of the main   *)
(* loop.  A call that would find nothing to do is a stuttering step.       *)
SomethingToDo ==
    \/ \E r \in delegatedList : ~Delegated(asp[r])
    \/ queuedList # <<>> /\ (processingSet = NoReq \/ delegatedList = {})

CheckOutstanding ==
    /\ pc = "idle"
    /\ SomethingToDo
    /\ todo' = delegatedList
    /\ pc' = "scan"
    /\ UNCHANGED <<reqVars, listVars, cur, from, left, final, sessVars, histVars>>

\* asp after the status checks made when its delegated varbinds are done.
Collected(a) ==
    LET b == CheckRequestsStatus(a, Varbind, "any")
    IN IF a.mode \in {"COMMIT", "UNDO"}
       THEN CheckRequestsStatus(b, Varbind, LookFor(a.mode))
       ELSE b

(* The scan visits an asp: Agent_checkDelayedRequest resumes it when none  *)
(* of its varbinds is delegated any more.                                  *)
SkipDelegated(r) ==
    /\ pc = "scan" /\ r \in todo
    /\ Delegated(asp[r])
    /\ todo' = todo \ {r}
    /\ UNCHANGED <<reqVars, listVars, pc, cur, from, left, final, sessVars, histVars>>

ResumeDelegated(r) ==
    /\ pc = "scan" /\ r \in todo
    /\ ~Delegated(asp[r])
    /\ todo' = todo \ {r}
    /\ delegatedList' = delegatedList \ {r}
    /\ asp' = [asp EXCEPT ![r] = Collected(asp[r])]
    /\ cur' = r
    /\ from' = "scan"
    /\ pc' = CASE cmd[r] = "SET"     -> "set"
               [] cmd[r] = "GETNEXT" -> "next"
               [] OTHER              -> "done"
    /\ UNCHANGED <<cmd, response, processingSet, queuedList, left, final,
                   sessVars, histVars>>

\* Agent_checkDelayedRequest of a GET goes straight to Agent_wrapUpRequest.
FinishGet ==
    /\ pc = "done"
    /\ WrapUp(cur, asp[cur].status)
    /\ UNCHANGED <<cmd, queuedList, from, left, final, todo, sessVars>>

\* Where Agent_checkOutstandingAgentRequests returns: to the main loop, or
\* into MasterAdmin_closeAgentxSession.
Caller == IF closing = NoSession THEN "idle" ELSE "closing"

KeepWaitingNever == FALSE  \* mutant

\* A SET holds the gate and delegated requests remain: keep waiting.
KeepWaiting == processingSet # NoReq /\ delegatedList # {}

EndScan ==
    /\ pc = "scan" /\ todo = {}
    /\ pc' = IF KeepWaiting THEN Caller ELSE "drain"
    /\ UNCHANGED <<reqVars, listVars, cur, from, left, final, todo, sessVars, histVars>>

(* The loop over the queue: the head is popped and handled; a SET waits at *)
(* the head while anything is delegated and stops the loop.                *)
HeadWaits == cmd[Head(queuedList)] = "SET" /\ delegatedList # {}

ClaimGate ==
    /\ pc = "drain" /\ queuedList # <<>> /\ HeadWaits
    /\ processingSet' = Head(queuedList)
    /\ pc' = Caller
    /\ UNCHANGED <<reqVars, delegatedList, queuedList, cur, from, left, final,
                   todo, sessVars, histVars>>

\* Mutant: the head is not unlinked.
PopQueuedTwice ==
    /\ pc = "drain" /\ queuedList # <<>> /\ ~HeadWaits
    /\ HandleRequest(Head(queuedList), cmd[Head(queuedList)], queuedList, "popped")
    /\ UNCHANGED <<reqVars, delegatedList, left, final, todo, sessVars, histVars>>

PopQueued ==
    /\ pc = "drain" /\ queuedList # <<>> /\ ~HeadWaits
    /\ HandleRequest(Head(queuedList), cmd[Head(queuedList)], Tail(queuedList), "popped")
    /\ UNCHANGED <<reqVars, delegatedList, left, final, todo, sessVars, histVars>>

AfterPopOn == "drain"  \* mutant

\* "if we hit a set, stop"
AfterPop == IF processingSet # NoReq THEN Caller ELSE "drain"

EndDrain ==
    \/ /\ pc = "popped"
       /\ pc' = AfterPop
       /\ UNCHANGED <<reqVars, listVars, cur, from, left, final, todo, sessVars, histVars>>
    \/ /\ pc = "drain" /\ queuedList = <<>>
       /\ pc' = Caller
       /\ UNCHANGED <<reqVars, listVars, cur, from, left, final, todo, sessVars, histVars>>

-----------------------------------------------------------------------------
(* Master_gotResponse: a subagent answers for the chain of varbinds that r *)
(* delegated to s.  All of them are released and one may carry an error.   *)
Waiting(r, s) == {v \in asp[r].delegated : asp[r].owner[v] = s}

Awaits(r, s) == pc = "idle" /\ r \in delegatedList /\ Waiting(r, s) # {}

\* asp and failed after V of r is released and v of it fails with e.
Release(r, V)    == [asp EXCEPT ![r].delegated = @ \ V]
Fail(r, V, v, e) == [asp EXCEPT ![r].delegated = @ \ V, ![r].err[v] = e]
AnswerFailed(r)  == [failed EXCEPT ![r] = @ \cup {<<asp[r].mode, "answer">>}]

AnswerOk(r, s) ==
    /\ Awaits(r, s)
    /\ asp' = Release(r, Waiting(r, s))
    /\ UNCHANGED <<cmd, response, listVars, ctlVars, sessVars, histVars>>

AnswerError(r, s) ==
    /\ Awaits(r, s)
    /\ \E v \in Waiting(r, s), e \in AnswerErr(asp[r].mode) :
        asp' = Fail(r, Waiting(r, s), v, e)
    /\ failed' = AnswerFailed(r)
    /\ UNCHANGED <<cmd, response, listVars, ctlVars, sessVars, calls>>

\* An answer to a GET or GETNEXT with too few varbinds: the first request of
\* the chain fails, those past the end of the answer stay delegated.
AnswerShort(r, s) ==
    /\ Awaits(r, s)
    /\ cmd[r] # "SET"
    /\ \E v \in Waiting(r, s) \ {MinOf(Waiting(r, s))} :
        asp' = Fail(r, {w \in Waiting(r, s) : w < v}, MinOf(Waiting(r, s)), "genErr")
    /\ failed' = AnswerFailed(r)
    /\ UNCHANGED <<cmd, response, listVars, ctlVars, sessVars, calls>>

\* Agent_removeDelegatedRequestsForSession: the varbinds of a delegated asp
\* that it marks, found by walking from asp->requests along request->next.
Abandoned(a, r, s) ==
    IF r \in delegatedList THEN {v \in FirstChain(a) : a.owner[v] = s} ELSE {}

(* MasterAdmin_closeAgentxSession(session, -1) on asps b: the varbinds of  *)
(* the session become genErr and whatever that completes is resumed before *)
(* its registrations go.  Once they are gone the comparison reads a freed  *)
(* subtree, and may match or not.                                          *)
CloseWith(b, f, s) ==
    \E match \in IF s \in closed THEN BOOLEAN ELSE {TRUE} :
        LET gone(r) == IF match THEN Abandoned(b[r], r, s) ELSE {}
        IN /\ asp' = [r \in Req |->
                [b[r] EXCEPT !.delegated = @ \ gone(r),
                             !.err = [v \in Varbind |->
                                        IF v \in gone(r) THEN "genErr" ELSE @[v]]]]
           /\ failed' = [r \in Req |-> IF gone(r) = {} THEN f[r]
                                       ELSE f[r] \cup {<<asp[r].mode, "answer">>}]
           /\ closing' = s
           /\ IF \E r \in Req : gone(r) # {}
              THEN pc' = "scan" /\ todo' = delegatedList
              ELSE pc' = "closing" /\ UNCHANGED todo
           /\ UNCHANGED <<cmd, response, listVars, cur, from, left, final,
                          closed, calls>>

\* The session ends while no answer is being handled (DISCONNECT).
CloseSession(s) ==
    /\ pc = "idle" /\ s \notin closed
    /\ CloseWith(asp, failed, s)

\* Master_gotResponse with TIMED_OUT: the chain is released, its first varbind
\* fails, and the session is closed.
TimeOut(r, s) ==
    /\ Awaits(r, s)
    /\ CloseWith(Fail(r, Waiting(r, s), MinOf(Waiting(r, s)), "genErr"),
                 AnswerFailed(r), s)

\* MasterAdmin_closeAgentxSession(session, sessid), a CLOSE of the subagent:
\* only the registrations go.
CloseSubsession(s) ==
    /\ pc = "idle" /\ s \notin closed
    /\ closed' = closed \cup {s}
    /\ UNCHANGED <<reqVars, listVars, ctlVars, closing, histVars>>

Unregister ==
    /\ pc = "closing"
    /\ closed' = closed \cup {closing}
    /\ closing' = NoSession
    /\ pc' = "idle"
    /\ UNCHANGED <<reqVars, listVars, cur, from, left, final, todo, histVars>>

-----------------------------------------------------------------------------
\* Steps of the agent that neither call a handler nor end a closing.
InnerStep ==
    \/ RefuseSet \/ BeginSet \/ NextSetPass \/ EndSetPass \/ FinishSet
    \/ BeginGet \/ EndGetPass \/ NextGetPass \/ FinishGetnext \/ FinishGet
    \/ CheckOutstanding \/ EndScan \/ ClaimGate \/ PopQueued \/ EndDrain
    \/ \E r \in Req : SkipDelegated(r) \/ ResumeDelegated(r)

AgentStep == InnerStep \/ CallSlot \/ Unregister

Answer(r, s) == \/ AnswerOk(r, s) \/ AnswerError(r, s) \/ AnswerShort(r, s)
                \/ TimeOut(r, s)

Next ==
    \/ \E r \in Req : Receive(r) \/ Drop(r)
    \/ \E r \in Req, s \in Session : Answer(r, s)
    \/ \E s \in Session : CloseSession(s) \/ CloseSubsession(s)
    \/ AgentStep

\* The main loop never stops calling the agent, and a delegated request is
\* answered, by the subagent or by the timeout of the library.
Fairness ==
    /\ WF_vars(AgentStep)
    /\ \A r \in Req, s \in Session : WF_vars(Answer(r, s))

Spec     == Init /\ [][Next]_vars
FairSpec == Spec /\ Fairness

-----------------------------------------------------------------------------
TypeOK ==
    /\ cmd \in [Req -> Commands \cup {"none"}]
    /\ asp \in [Req -> Asp]
    /\ response \in [Req -> ErrStat \cup {"none", "dropped"}]
    /\ processingSet \in Req \cup {NoReq}
    /\ delegatedList \in SUBSET Req
    /\ queuedList \in Seq(Req)
    /\ pc \in Running \cup Return \cup {"drain", "closing"}
    /\ cur \in Req \cup {NoReq}
    /\ from \in Return
    /\ left \in SUBSET Varbind
    /\ final \in ErrStat
    /\ todo \in SUBSET Req
    /\ closing \in Session \cup {NoSession}
    /\ closed \in SUBSET Session
    /\ calls \in [Req -> SUBSET (Slot \X Mode)]
    /\ failed \in [Req -> SUBSET (Mode \X {"handler", "answer"})]

Queued      == {queuedList[i] : i \in DOMAIN queuedList}
Active      == delegatedList \cup ({cur} \ {NoReq})
Accepted(r) == cmd[r] # "none" /\ response[r] = "none"

(* While a SET executes, its handlers called and its response not sent,    *)
(* no other request executes: "processing of a set request should not      *)
(* start until all delegated requests have completed, and no other new     *)
(* requests should be processed until the set request completes"           *)
(* (Agent_handleRequest).                                                  *)
SetExclusion == \A r \in Active : cmd[r] = "SET" => Active = {r}

(* The two assertions of the queue loop of                                 *)
(* Agent_checkOutstandingAgentRequests: a gate that is held is held by the *)
(* head of the queue, and a SET that must wait finds the gate free.        *)
QueueAssertions ==
    pc = "drain" /\ queuedList # <<>> =>
        /\ processingSet \in {NoReq, Head(queuedList)}
        /\ HeadWaits => processingSet = NoReq

(* A request that was accepted and not answered is in exactly one place:   *)
(* being handled, on the delegated list, or once in the queue; one that    *)
(* was answered is in none, so it is never answered twice.                 *)
OnePlace ==
    /\ \A r \in Req : cmd[r] = "none" => response[r] = "none"
    /\ \A r \in Req : Accepted(r) <=> r \in Active \cup Queued
    /\ Active \cap Queued = {}
    /\ cur \notin delegatedList
    /\ \A i, j \in DOMAIN queuedList : queuedList[i] = queuedList[j] => i = j

\* The program counter and the variables that are meaningful with it: an asp
\* is being run, a scan has asps to visit that are still delegated.
ControlInv ==
    /\ pc \in Running <=> cur # NoReq
    /\ pc = "closing" => closing \in Session
    /\ pc = "scan" \/ (pc \in Running /\ from = "scan") => todo \subseteq delegatedList

\* A gate that is held is held by a SET that executes, alone, or heads the queue.
HolderInv ==
    /\ processingSet # NoReq =>
        /\ cmd[processingSet] = "SET"
        /\ \/ processingSet \in Active
           \/ queuedList # <<>> /\ processingSet = Head(queuedList)
    /\ \A r \in Active : cmd[r] = "SET" => r = processingSet /\ Active = {r}

\* Requests are in the queue only behind a gate that is held, except while the
\* queue is served.
QueueInv ==
    /\ pc \in {"idle", "closing"} /\ queuedList # <<>> => processingSet # NoReq
    /\ pc \in Running /\ from = "idle" => queuedList = <<>>
    /\ pc = "drain" => processingSet = NoReq \/ delegatedList = {}

(* The state of the scheduler at each point of its functions, strong       *)
(* enough to be preserved by every step: the queue is never left without   *)
(* a holder of the gate, whose answer will serve it (Agent_handleRequest,  *)
(* Agent_checkOutstandingAgentRequests).                                   *)
SchedulerInv == TypeOK /\ ControlInv /\ OnePlace /\ HolderInv /\ QueueInv

(* Requests start in the order they arrived, whatever the gate does: one   *)
(* that starts was at the head of the queue or found the queue empty, and  *)
(* the queue only loses its head or grows at its tail.                     *)
StartsInOrder ==
    [][/\ \A r \in Active' \ Active :
            queuedList = <<>> \/ r = Head(queuedList)
       /\ \/ queuedList' = queuedList
          \/ queuedList # <<>> /\ queuedList' = Tail(queuedList)
          \/ \E r \in Req : queuedList' = Append(queuedList, r)]_vars

Called(r, m)    == \E s \in Slot : <<s, m>> \in calls[r]
CalledIn(r, m)  == {s \in Slot : <<s, m>> \in calls[r]}
Committed(r)    == Called(r, "COMMIT")
EarlyFailure(r) == {f \in failed[r] : f[1] \in {"RESERVE1", "RESERVE2", "ACTION"}}

Settling == {"COMMIT", "FREE", "UNDO"}
Answers(r) == cmd[r] = "SET" /\ response'[r] # response[r]

(* When a SET is answered, every handler that reserved has been told how   *)
(* it ended, by exactly one of COMMIT, FREE and UNDO, unless its session   *)
(* is gone: no resource of a reserve phase stays allocated.                *)
SetSettled ==
    [][\A r \in Req : Answers(r) =>
          \A s \in CalledIn(r, "RESERVE1") \ closed :
              Cardinality({m \in Settling : <<s, m>> \in calls[r]}) = 1]_vars

\* The pass that first parks the SET (RESERVE1, if a subagent takes part) had
\* no failing handler of its own.
CleanStart(r) == \/ <<"RESERVE1", "handler">> \notin failed[r]
                 \/ CalledIn(r, "RESERVE1") \cap Session = {}

(* A failure found before the COMMIT phase, by a handler or in the answer  *)
(* of a subagent, is never committed (Agent_handleSet), after a clean      *)
(* start.                                                                  *)
FailureNotCommitted ==
    \A r \in Req : Committed(r) /\ CleanStart(r) => EarlyFailure(r) = {}

(* The response tells the outcome: noError for a SET means that every      *)
(* handler that reserved was told to commit; after a clean start, an error *)
(* means that none was or that a handler failed to commit.                 *)
TruthfulResponse ==
    [][\A r \in Req : Answers(r) =>
          IF response'[r] = "noError"
          THEN CalledIn(r, "RESERVE1") \subseteq CalledIn(r, "COMMIT") \cup closed
          ELSE Committed(r) /\ CleanStart(r) =>
                 <<"COMMIT", "handler">> \in failed[r]]_vars

(* The gate passes from a SET to no one, and only when that SET has been   *)
(* answered.                                                               *)
GateHandover ==
    [][processingSet # NoReq /\ processingSet' # processingSet =>
          processingSet' = NoReq /\ response'[processingSet] # "none"]_vars

(* Every request that arrives is answered or dropped.                      *)
EventuallyAnswered ==
    \A r \in Req : cmd[r] # "none" ~> response[r] # "none"

(* "If either of the first two passes returns an error, another pass is    *)
(* made so that any reserved resources can be freed" (Agent_handleSet): a  *)
(* SET that failed in RESERVE1 or RESERVE2 does not commit.                *)
ReserveFailureFrees ==
    \A r \in Req : Committed(r) =>
        \A f \in failed[r] : f[1] \notin {"RESERVE1", "RESERVE2"}

-----------------------------------------------------------------------------
\* The gate that the scheduler implements: a request executes from its first
\* handler call to its response, delegated or not.
Gate == INSTANCE RequestGate WITH
            command <- cmd,
            waiting <- queuedList,
            active  <- Active,
            done    <- {r \in Req : response[r] # "none"}

(* The scheduler implements the gate: reads side by side, a SET alone,     *)
(* starts in order of arrival (Agent_handleRequest,                        *)
(* Agent_checkOutstandingAgentRequests).                                   *)
ImplementsGate == Gate!GateSpec
=============================================================================

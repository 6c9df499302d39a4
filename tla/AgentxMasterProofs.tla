------------------------- MODULE AgentxMasterProofs -------------------------
(***************************************************************************)
(* The AgentX master under the scheduler: what AgentRequestsProofs shows of *)
(* the scheduler holds with PDUs in flight as well, whatever varbind waits  *)
(* was asked for, and an answer meets the phase that asked.                *)
(***************************************************************************)
EXTENDS AgentxMaster, AgentRequestsProofs

\* Sessions the master has not begun to close.
Open == Session \ (closed \cup {closing})

\* Where no varbind of the request that is run has been delegated yet, or
\* none is any more.
Begins == pc \in {"pdu", "set", "next", "done"}

\* Only functions that a closing session calls return into its closing.
ClosingInv ==
    /\ pc = "idle" => closing = NoSession
    /\ pc \in Running /\ from = "idle" => closing = NoSession

Undelegated ==
    /\ \A r \in Req \ Active : asp[r].delegated = {}
    /\ Begins => asp[cur].delegated = {}

\* A PDU sent to an open session is awaited, in the phase that sent it.
Awaited ==
    \A p \in pending : p[2] \in Open =>
        Waiting(p[1], p[2]) # {} /\ p[3] = asp[p[1]].mode

\* What waits was asked for, wherever the agent is.
Asked ==
    \A r \in Req : ("short" \in Faults => cmd[r] = "SET") =>
        \A v \in asp[r].delegated : \E p \in pending : p[1] = r /\ p[2] = asp[r].owner[v]

PduTypes ==
    /\ pending \in SUBSET Pdu /\ dead \in SUBSET Session /\ shut \in SUBSET closed

MasterInv ==
    SchedulerInv /\ PduTypes /\ ClosingInv /\ Undelegated /\ Awaited

-----------------------------------------------------------------------------
(* The scheduler.                                                          *)

\* Reap may close a session for a request that no longer waits for it.
LEMMA ReapScheduler ==
    ASSUME MasterInv, NEW p \in pending, Reap(p)
    PROVE  SchedulerInv'
<1>1. p[1] \in Req /\ p[2] \in Session /\ pc = "idle"
  BY DEF MasterInv, PduTypes, Pdu, Reap
<1>2. CASE TimeOut(p[1], p[2])
  BY <1>1, <1>2, Closed DEF MasterInv
<1>3. CASE UNCHANGED vars
  BY <1>3, NextScheduler DEF MasterInv
<1>4. CASE LET own == {v \in Varbind : asp[p[1]].owner[v] = p[2]}
           IN CloseWith(Fail(p[1], {}, MinOf(own), "genErr"), AnswerFailed(p[1]), p[2])
  <2> DEFINE m == MinOf({v \in Varbind : asp[p[1]].owner[v] = p[2]})
  <2>1. "genErr" \in ErrStat
    BY DEF ErrStat
  <2>2. Fail(p[1], {}, m, "genErr") \in [Req -> Asp]
    BY <1>1, <2>1, FailType DEF MasterInv
  <2>3. AnswerFailed(p[1]) \in [Req -> SUBSET (Mode \X {"handler", "answer"})]
    BY <1>1 DEF AnswerFailed, MasterInv, SchedulerInv, TypeOK, Asp
  <2>4. CloseWith(Fail(p[1], {}, m, "genErr"), AnswerFailed(p[1]), p[2])
    BY <1>4
  <2> HIDE DEF m
  <2> QED BY <1>1, <2>2, <2>3, <2>4, ClosedWith DEF MasterInv
<1> QED BY <1>2, <1>3, <1>4 DEF Reap

\* Every other step is one of the scheduler.
LEMMA MasterIsNext ==
    ASSUME MasterInv, [MasterNext]_masterVars
    PROVE  [Next]_vars \/ \E p \in pending : Reap(p)
<1>1. ASSUME NEW p \in pending, Resolve(p) PROVE [Next]_vars
  <2>1. p[1] \in Req /\ p[2] \in Session
    BY DEF MasterInv, PduTypes, Pdu
  <2>2. Answer(p[1], p[2])
    BY <1>1 DEF Resolve, Respond, RequestTimeout, Answer
  <2> QED BY <2>1, <2>2 DEF Next
<1>2. ASSUME NEW s \in Session, Die(s) \/ ReadClose(s) \/ Disconnect(s) PROVE [Next]_vars
  BY <1>2 DEF Die, ReadClose, Disconnect, Next
<1>3. ASSUME MasterAgentStep PROVE [Next]_vars
  BY <1>3 DEF MasterAgentStep, MasterCallSlot, EndClose, Next, AgentStep
<1>4. ASSUME \E r \in Req : (Receive(r) \/ Drop(r)) /\ UNCHANGED netVars PROVE [Next]_vars
  BY <1>4 DEF Next
<1>5. ASSUME UNCHANGED masterVars PROVE [Next]_vars
  BY <1>5 DEF masterVars
<1> QED BY <1>1, <1>2, <1>3, <1>4, <1>5 DEF MasterNext

LEMMA MasterScheduler ==
    ASSUME MasterInv, [MasterNext]_masterVars
    PROVE  SchedulerInv'
BY MasterIsNext, NextScheduler, ReapScheduler DEF MasterInv

-----------------------------------------------------------------------------
(* Steps that leave the PDUs alone.                                        *)

\* What a step leaves of a request, as its PDUs see it.
Same(r) ==
    /\ asp'[r].owner = asp[r].owner /\ asp'[r].mode = asp[r].mode
    /\ asp'[r].delegated = asp[r].delegated /\ cmd'[r] = cmd[r]

Blank(r) == asp[r].delegated = {} /\ asp'[r].delegated = {}

Keeps == Open' \subseteq Open /\ \A r \in Req : Same(r) \/ Blank(r)

LEMMA Kept ==
    ASSUME MasterInv, Keeps, pending' = pending
    PROVE  Awaited' /\ (Asked => Asked')
<1>1. Awaited'
  <2>1. SUFFICES ASSUME NEW p \in pending, p[2] \in Open'
                 PROVE  Waiting(p[1], p[2])' # {} /\ p[3] = asp'[p[1]].mode
    BY DEF Awaited, Keeps
  <2>2. p[1] \in Req /\ Waiting(p[1], p[2]) # {} /\ p[3] = asp[p[1]].mode
    BY <2>1 DEF MasterInv, PduTypes, Pdu, Awaited, Keeps
  <2>3. Same(p[1])
    BY <2>2 DEF Keeps, Blank, Waiting
  <2> QED BY <2>2, <2>3 DEF Same, Waiting
<1>2. ASSUME Asked PROVE Asked'
  <2>1. SUFFICES ASSUME NEW r \in Req, "short" \in Faults => cmd'[r] = "SET",
                        NEW v \in asp'[r].delegated
                 PROVE  \E p \in pending' : p[1] = r /\ p[2] = asp'[r].owner[v]
    BY DEF Asked
  <2>2. Same(r)
    BY <2>1 DEF Keeps, Blank
  <2> QED BY <1>2, <2>1, <2>2 DEF Asked, Same
<1> QED BY <1>1, <1>2

LEMMA FreeDelegates == FreeAsp.delegated = {} /\ \A m, l : NewAsp(m, l).delegated = {}
BY DEF FreeAsp, NewAsp

LEMMA CheckKeeps ==
    ASSUME NEW a \in Asp, NEW C, NEW look
    PROVE  LET b == CheckRequestsStatus(a, C, look)
           IN b.owner = a.owner /\ b.mode = a.mode /\ b.delegated = a.delegated
<1> DEFINE hits == {v \in C : IF look = "any"
                              THEN /\ a.err[v] # "noError"
                                   /\ a.index = 0 \/ v < a.index
                              ELSE a.err[v] = look}
           hit  == IF look = "any" THEN MinOf(hits)
                   ELSE CHOOSE v \in hits : \A w \in hits : w = v \/ Before(a, w, v)
           b    == IF hits = {} THEN a
                   ELSE [a EXCEPT !.index = hit, !.status = a.err[hit]]
<1>1. CheckRequestsStatus(a, C, look) = b
  BY DEF CheckRequestsStatus
<1> HIDE DEF hits, hit
<1>2. b.owner = a.owner /\ b.mode = a.mode /\ b.delegated = a.delegated
  BY DEF Asp
<1> QED BY <1>1, <1>2

LEMMA CollectedKeeps ==
    ASSUME NEW a \in Asp
    PROVE  /\ Collected(a).owner = a.owner /\ Collected(a).mode = a.mode
           /\ Collected(a).delegated = a.delegated
<1>1. CheckRequestsStatus(a, Varbind, "any") \in Asp
  BY CheckRequestsStatusType
<1> QED BY <1>1, CheckKeeps DEF Collected

\* A request that ends had nothing delegated.
LEMMA WrapUpKeeps ==
    ASSUME MasterInv, pc \in Running, asp[cur].delegated = {},
           NEW st, WrapUp(cur, st), UNCHANGED <<cmd, from, sessVars>>
    PROVE  Keeps /\ ClosingInv' /\ Undelegated'
<1>1. /\ cur \in Req /\ cur \notin delegatedList /\ from \in Return /\ asp \in [Req -> Asp]
      /\ NoReq \notin Req /\ delegatedList \in SUBSET Req
  BY RunningType, ConstantsAssumption DEF MasterInv, SchedulerInv, TypeOK
<1>2. /\ asp' = [asp EXCEPT ![cur] = FreeAsp] /\ pc' = from /\ cur' = NoReq
      /\ delegatedList' = delegatedList /\ UNCHANGED <<cmd, from, closing, closed>>
  BY <1>1 DEF WrapUp, sessVars
<1>3. Blank(cur) /\ \A r \in Req : r # cur => Same(r)
  BY <1>1, <1>2, FreeDelegates DEF Blank, Same
<1>4. Active' = Active \ {cur}
  BY <1>1, <1>2 DEF Active
<1>5. Undelegated'
  <2>1. \A r \in Req \ Active' : asp'[r].delegated = {}
    BY <1>2, <1>3, <1>4 DEF MasterInv, Undelegated, Blank, Same
  <2>2. ~Begins'
    BY <1>1, <1>2 DEF Begins, Return
  <2> QED BY <2>1, <2>2 DEF Undelegated
<1>6. ClosingInv'
  BY <1>1, <1>2 DEF MasterInv, ClosingInv, Return, Running
<1> QED BY <1>2, <1>3, <1>5, <1>6 DEF Keeps, Open

\* A request that parks.
LEMMA ParkKeeps ==
    ASSUME MasterInv, pc \in Running, Park(cur), \A r \in Req : Same(r),
           UNCHANGED <<cmd, from, sessVars>>
    PROVE  Keeps /\ ClosingInv' /\ Undelegated'
<1>1. cur \in Req /\ from \in Return /\ NoReq \notin Req /\ delegatedList \in SUBSET Req
  BY RunningType, ConstantsAssumption DEF MasterInv, SchedulerInv, TypeOK
<1>2. /\ pc' = from /\ cur' = NoReq /\ delegatedList' = delegatedList \cup {cur}
      /\ UNCHANGED <<cmd, from, closing, closed>>
  BY DEF Park, sessVars
<1>3. Active' = Active
  BY <1>1, <1>2 DEF Active
<1>4. Undelegated'
  BY <1>1, <1>2, <1>3 DEF MasterInv, Undelegated, Same, Begins, Return
<1>5. ClosingInv'
  BY <1>1, <1>2 DEF MasterInv, ClosingInv, Return, Running
<1> QED BY <1>2, <1>4, <1>5 DEF Keeps, Open

\* A request that goes on within the agent.
LEMMA RunKeeps ==
    ASSUME MasterInv, pc \in Running, pc' \in Running,
           UNCHANGED <<cmd, delegatedList, cur, from, sessVars>>,
           \A r \in Req : r # cur => Same(r),
           Same(cur) \/ Blank(cur),
           Begins' => asp'[cur].delegated = {}
    PROVE  Keeps /\ ClosingInv' /\ Undelegated'
<1>1. cur \in Req /\ cur \in Active
  BY RunningType DEF MasterInv, Active
<1>2. Active' = Active /\ UNCHANGED <<closing, closed>>
  BY DEF Active, sessVars
<1>3. Undelegated'
  BY <1>1, <1>2 DEF MasterInv, Undelegated, Same
<1>4. ClosingInv'
  BY <1>2 DEF MasterInv, ClosingInv, Running
<1> QED BY <1>1, <1>2, <1>3, <1>4 DEF Keeps, Open

\* A request that is handed to Agent_handleRequest.
LEMMA HandleKeeps ==
    ASSUME MasterInv, cur = NoReq, NEW r \in Req, r \notin Active, NEW c, NEW q,
           NEW ret \in {"idle", "popped"}, HandleRequest(r, c, q, ret),
           ret = "idle" => closing = NoSession,
           UNCHANGED <<asp, delegatedList, sessVars>>,
           \A x \in Req : x # r => cmd'[x] = cmd[x]
    PROVE  Keeps /\ ClosingInv' /\ Undelegated'
<1>1. \/ pc' = ret /\ cur' = cur /\ from' = from
      \/ pc' = "pdu" /\ cur' = r /\ from' = ret
  BY DEF HandleRequest, StartPdu
<1>2. /\ UNCHANGED <<closing, closed>> /\ asp[r].delegated = {} /\ NoReq \notin Req
  BY ConstantsAssumption DEF sessVars, MasterInv, Undelegated
<1>3. Keeps
  BY <1>2 DEF Keeps, Open, Same, Blank
<1>4. ClosingInv'
  BY <1>1, <1>2 DEF ClosingInv, Running
<1>5. Active \subseteq Active'
  BY <1>1 DEF Active
<1>6. Undelegated'
  BY <1>1, <1>2, <1>5 DEF MasterInv, Undelegated, Begins
<1> QED BY <1>3, <1>4, <1>6

\* A step between two requests.
LEMMA BetweenKeeps ==
    ASSUME MasterInv, UNCHANGED <<asp, delegatedList, cur, from, sessVars>>,
           pc' \notin Running, pc' = "idle" => closing = NoSession,
           \A r \in Req : cmd'[r] = cmd[r] \/ r \notin Active
    PROVE  Keeps /\ ClosingInv' /\ Undelegated'
<1>1. Active' = Active /\ UNCHANGED <<closing, closed>>
  BY DEF Active, sessVars
<1>2. Undelegated'
  BY <1>1 DEF MasterInv, Undelegated, Begins, Running
<1>3. ClosingInv'
  BY <1>1 DEF ClosingInv
<1>4. \A r \in Req : Same(r) \/ Blank(r)
  BY DEF MasterInv, Undelegated, Same, Blank
<1> QED BY <1>1, <1>2, <1>3, <1>4 DEF Keeps, Open

LEMMA ReceiveKeeps ==
    ASSUME MasterInv, NEW r \in Req, Receive(r) \/ Drop(r)
    PROVE  Keeps /\ ClosingInv' /\ Undelegated'
<1>1. /\ pc = "idle" /\ cur = NoReq /\ cmd[r] = "none" /\ closing = NoSession
      /\ r \notin Active
  BY FreshRequest DEF Receive, Drop, MasterInv, SchedulerInv, ControlInv, Running, ClosingInv
<1>2. cmd \in [Req -> Commands \cup {"none"}]
  BY DEF MasterInv, SchedulerInv, TypeOK
<1>3. CASE Receive(r)
  <2>1. PICK c \in Commands :
          cmd' = [cmd EXCEPT ![r] = c] /\ HandleRequest(r, c, queuedList, "idle")
    BY <1>3 DEF Receive
  <2>2. \A x \in Req : x # r => cmd'[x] = cmd[x]
    BY <1>2, <2>1
  <2>3. UNCHANGED <<asp, delegatedList, sessVars>>
    BY <1>3 DEF Receive
  <2> QED BY <1>1, <2>1, <2>2, <2>3, HandleKeeps
<1>4. CASE Drop(r)
  <2>1. PICK c \in Commands : cmd' = [cmd EXCEPT ![r] = c]
    BY <1>4 DEF Drop
  <2>2. \A x \in Req : cmd'[x] = cmd[x] \/ x \notin Active
    BY <1>1, <1>2, <2>1
  <2>3. UNCHANGED <<asp, delegatedList, cur, from, sessVars>> /\ pc' = pc
    BY <1>4 DEF Drop, listVars, ctlVars
  <2> QED BY <1>1, <2>2, <2>3, BetweenKeeps DEF Running
<1> QED BY <1>3, <1>4

LEMMA BeginKeeps ==
    ASSUME MasterInv, BeginSet \/ BeginGet \/ NextSetPass \/ NextGetPass
    PROVE  Keeps /\ ClosingInv' /\ Undelegated'
<1>1. /\ pc \in Running /\ pc' \in Running /\ Begins
      /\ UNCHANGED <<cmd, delegatedList, cur, from, sessVars>>
  BY DEF BeginSet, BeginGet, NextSetPass, NextGetPass, Running, Begins, listVars
<1>2. /\ cur \in Req /\ asp \in [Req -> Asp] /\ asp[cur] \in Asp /\ asp[cur].delegated = {}
  BY <1>1, RunningType DEF MasterInv, SchedulerInv, TypeOK, Undelegated
<1>3. \E a : asp' = [asp EXCEPT ![cur] = a] /\ a.delegated = {}
  <2>1. CASE BeginSet \/ BeginGet
    BY <2>1, FreeDelegates DEF BeginSet, BeginGet
  <2>2. CASE NextSetPass
    <3> DEFINE m == NextMode(asp[cur].mode, asp[cur].status)
    <3>1. asp' = [asp EXCEPT ![cur] = [asp[cur] EXCEPT !.mode = m]]
      BY <1>2, <2>2 DEF NextSetPass
    <3> HIDE DEF m
    <3>2. [asp[cur] EXCEPT !.mode = m].delegated = {}
      BY <1>2 DEF Asp
    <3> QED BY <3>1, <3>2
  <2>3. CASE NextGetPass
    <3>1. PICK S \in SUBSET Varbind, l \in Registered :
             asp' = [asp EXCEPT ![cur] = Reassigned(asp[cur], S, l)]
      BY <1>2, <2>3 DEF NextGetPass
    <3>2. Reassigned(asp[cur], S, l).delegated = {}
      BY <1>2 DEF Reassigned, Asp
    <3> QED BY <3>1, <3>2
  <2> QED BY <2>1, <2>2, <2>3
<1>4. Blank(cur) /\ \A r \in Req : r # cur => Same(r)
  BY <1>1, <1>2, <1>3 DEF Blank, Same
<1> QED BY <1>1, <1>4, RunKeeps DEF Blank

LEMMA PassKeeps ==
    ASSUME MasterInv, EndSetPass \/ EndGetPass
    PROVE  Keeps /\ ClosingInv' /\ Undelegated'
<1>1. pc \in Running /\ UNCHANGED <<cmd, from, sessVars>>
  BY DEF EndSetPass, EndGetPass, Running
<1>2. cur \in Req /\ asp \in [Req -> Asp] /\ asp[cur] \in Asp
  BY <1>1, RunningType DEF MasterInv, SchedulerInv, TypeOK
<1>3. ASSUME NEW st, asp' = [asp EXCEPT ![cur].status = st] PROVE \A r \in Req : Same(r)
  <2>1. asp' = [asp EXCEPT ![cur] = [asp[cur] EXCEPT !.status = st]]
    BY <1>2, <1>3
  <2>2. /\ [asp[cur] EXCEPT !.status = st].owner = asp[cur].owner
        /\ [asp[cur] EXCEPT !.status = st].mode = asp[cur].mode
        /\ [asp[cur] EXCEPT !.status = st].delegated = asp[cur].delegated
    BY <1>2 DEF Asp
  <2> QED BY <1>1, <1>2, <2>1, <2>2 DEF Same
<1>4. CASE EndSetPass /\ ~Delegated(asp[cur])
  <2>1. /\ asp' = [asp EXCEPT ![cur].status = SetStatus(asp[cur])]
        /\ pc' = "set" /\ UNCHANGED <<delegatedList, cur>>
    BY <1>4 DEF EndSetPass
  <2>2. \A r \in Req : Same(r)
    BY <1>3, <2>1
  <2>3. asp'[cur].delegated = {}
    BY <1>2, <1>4, <2>2 DEF Same, Delegated
  <2> QED BY <1>1, <1>2, <2>1, <2>2, <2>3, RunKeeps DEF Running
<1>5. CASE EndSetPass /\ Delegated(asp[cur])
  <2>1. asp' = [asp EXCEPT ![cur].status = ParkedSetStatus(asp[cur])] /\ Park(cur)
    BY <1>5 DEF EndSetPass
  <2>2. \A r \in Req : Same(r)
    BY <1>3, <2>1
  <2> QED BY <1>1, <2>1, <2>2, ParkKeeps
<1>6. CASE EndGetPass /\ Delegated(asp[cur])
  <2>1. /\ asp' = [asp EXCEPT ![cur].status = IF from = "scan" THEN asp[cur].status ELSE final]
        /\ Park(cur)
    BY <1>6 DEF EndGetPass
  <2>2. \A r \in Req : Same(r)
    BY <1>3, <2>1
  <2> QED BY <1>1, <2>1, <2>2, ParkKeeps
<1>7. CASE EndGetPass /\ ~Delegated(asp[cur])
  <2>1. asp[cur].delegated = {}
    BY <1>7 DEF Delegated
  <2>2. CASE WrapUp(cur, GetStatus(asp[cur]))
    BY <1>1, <2>1, <2>2, WrapUpKeeps
  <2>3. CASE pc' = "next" /\ UNCHANGED <<asp, delegatedList, cur>>
    <3>1. \A r \in Req : Same(r)
      BY <1>1, <2>3 DEF Same
    <3> QED BY <1>1, <1>2, <2>1, <2>3, <3>1, RunKeeps DEF Running
  <2> QED BY <1>7, <2>2, <2>3 DEF EndGetPass
<1> QED BY <1>4, <1>5, <1>6, <1>7

LEMMA EndKeeps ==
    ASSUME MasterInv, RefuseSet \/ FinishSet \/ FinishGetnext \/ FinishGet
    PROVE  Keeps /\ ClosingInv' /\ Undelegated'
<1>1. /\ pc \in Running /\ Begins /\ UNCHANGED <<cmd, from, sessVars>>
      /\ \E st : WrapUp(cur, st)
  BY DEF RefuseSet, FinishSet, FinishGetnext, FinishGet, Running, Begins
<1> QED BY <1>1, WrapUpKeeps DEF MasterInv, Undelegated

LEMMA QueueKeeps ==
    ASSUME MasterInv,
           \/ CheckOutstanding \/ EndScan \/ ClaimGate \/ EndDrain
           \/ \E r \in Req : SkipDelegated(r)
    PROVE  Keeps /\ ClosingInv' /\ Undelegated'
<1>1. UNCHANGED <<cmd, asp, delegatedList, cur, from, sessVars>>
  BY DEF CheckOutstanding, EndScan, ClaimGate, EndDrain, SkipDelegated, reqVars, listVars
<1>2. pc' \in {"scan", "drain", Caller}
  BY DEF CheckOutstanding, EndScan, ClaimGate, EndDrain, SkipDelegated, AfterPop
<1>3. pc' \notin Running /\ (pc' = "idle" => closing = NoSession)
  BY <1>2 DEF Caller, Running
<1> QED BY <1>1, <1>3, BetweenKeeps

LEMMA PopKeeps ==
    ASSUME MasterInv, PopQueued
    PROVE  Keeps /\ ClosingInv' /\ Undelegated'
<1> DEFINE h == Head(queuedList)
<1>1. h \in Req /\ h \notin Active /\ cur = NoReq
  BY HeadFacts DEF PopQueued, MasterInv, SchedulerInv, ControlInv, Running
<1>2. HandleRequest(h, cmd[h], Tail(queuedList), "popped")
      /\ UNCHANGED <<cmd, asp, delegatedList, sessVars>>
  BY DEF PopQueued, reqVars
<1> HIDE DEF h
<1> QED BY <1>1, <1>2, HandleKeeps

LEMMA ResumeKeeps ==
    ASSUME MasterInv, NEW r \in Req, ResumeDelegated(r)
    PROVE  Keeps /\ ClosingInv' /\ Undelegated'
<1>1. /\ cur = NoReq /\ r \in delegatedList /\ cur' = r /\ from' = "scan"
      /\ delegatedList' = delegatedList \ {r} /\ asp[r].delegated = {}
      /\ asp' = [asp EXCEPT ![r] = Collected(asp[r])]
      /\ asp \in [Req -> Asp] /\ UNCHANGED <<cmd, closing, closed>>
      /\ pc' \in {"set", "next", "done"} /\ NoReq \notin Req
  BY ConstantsAssumption
     DEF ResumeDelegated, MasterInv, SchedulerInv, TypeOK, ControlInv, Running, Delegated,
         sessVars
<1>2. Same(r) /\ \A x \in Req : x # r => Same(x)
  BY <1>1, CollectedKeeps DEF Same
<1>3. Active' = Active \ {NoReq}
  BY <1>1 DEF Active, MasterInv, SchedulerInv, TypeOK
<1>4. Undelegated'
  BY <1>1, <1>2, <1>3 DEF MasterInv, Undelegated, Same
<1>5. ClosingInv'
  BY <1>1 DEF ClosingInv
<1> QED BY <1>1, <1>2, <1>4, <1>5 DEF Keeps, Open

LEMMA InnerKeeps ==
    ASSUME MasterInv, InnerStep
    PROVE  Keeps /\ ClosingInv' /\ Undelegated'
BY BeginKeeps, PassKeeps, EndKeeps, QueueKeeps, PopKeeps, ResumeKeeps DEF InnerStep

-----------------------------------------------------------------------------
(* Sending.                                                                *)

\* What the handlers of a slot delegate belongs to one session.
LEMMA SlotDelegates ==
    ASSUME NEW a \in Asp, NEW s \in Slot, NEW C \in SUBSET Varbind,
           \A v \in C : a.owner[v] = s,
           NEW h \in SlotResults(a, s, C)
    PROVE  /\ a.delegated \subseteq h.delegated
           /\ \A v \in h.delegated \ a.delegated : a.owner[v] = s /\ s \in Session
<1>1. CASE s \in closed
  BY <1>1 DEF SlotResults, GoneResult
<1>2. CASE s \notin closed /\ s \in Session
  BY <1>2 DEF SlotResults, MasterResult
<1>3. CASE s \notin closed /\ s \notin Session
  BY <1>3 DEF SlotResults, LocalResults
<1> QED BY <1>1, <1>2, <1>3

LEMMA CallSlotDelegates ==
    ASSUME MasterInv, CallSlot
    PROVE  /\ pc = "pass" /\ pc' = pc /\ cur \in Req
           /\ UNCHANGED <<cmd, delegatedList, cur, from, closing, closed>>
           /\ \A r \in Req : asp'[r].owner = asp[r].owner /\ asp'[r].mode = asp[r].mode
           /\ \A r \in Req : r # cur => asp'[r].delegated = asp[r].delegated
           /\ asp[cur].delegated \subseteq asp'[cur].delegated
           /\ \E s \in Slot : \A v \in asp'[cur].delegated \ asp[cur].delegated :
                 asp[cur].owner[v] = s /\ s \in Session
<1> DEFINE a == asp[cur]
           v == MinOf(left)
           s == a.owner[v]
           C == Chain(a.owner, left, v)
<1>1. /\ pc = "pass" /\ pc' = pc /\ left # {}
      /\ UNCHANGED <<cmd, delegatedList, cur, from, closing, closed>>
  BY DEF CallSlot, listVars, sessVars
<1>2. /\ cur \in Req /\ asp \in [Req -> Asp] /\ a \in Asp /\ left \in SUBSET Varbind
  BY <1>1, RunningType DEF MasterInv, SchedulerInv, TypeOK, Running
<1>3. v \in Varbind
  BY <1>1, <1>2, MinOfIn
<1>4. s \in Slot /\ C \in SUBSET Varbind /\ \A w \in C : a.owner[w] = s
  BY <1>2, <1>3 DEF Asp, Chain
<1> HIDE DEF v, C
<1>5. PICK h \in SlotResults(a, s, C) :
        asp' = [asp EXCEPT ![cur] =
                  CheckRequestsStatus([a EXCEPT !.err = h.err, !.delegated = h.delegated],
                                      C, LookFor(a.mode))]
  BY DEF CallSlot, v, C
<1> DEFINE d == [a EXCEPT !.err = h.err, !.delegated = h.delegated]
           b == CheckRequestsStatus(d, C, LookFor(a.mode))
<1>6. /\ d \in Asp /\ d.owner = a.owner /\ d.mode = a.mode /\ d.delegated = h.delegated
  <2>1. h.err \in [Varbind -> ErrStat] /\ h.delegated \in SUBSET Varbind
    BY <1>2, <1>4, <1>5, SlotResultsType
  <2> QED BY <1>2, <2>1 DEF Asp
<1>7. asp' = [asp EXCEPT ![cur] = b]
  BY <1>5
<1> HIDE DEF d
<1>8. b.owner = a.owner /\ b.mode = a.mode /\ b.delegated = h.delegated
  <2>1. b.owner = d.owner /\ b.mode = d.mode /\ b.delegated = d.delegated
    BY <1>6, CheckKeeps
  <2> QED BY <1>6, <2>1
<1> HIDE DEF b
<1>9. asp'[cur] = b /\ \A r \in Req : r # cur => asp'[r] = asp[r]
  BY <1>2, <1>7
<1>10. /\ a.delegated \subseteq h.delegated
       /\ \A w \in h.delegated \ a.delegated : a.owner[w] = s /\ s \in Session
  BY <1>2, <1>4, <1>5, SlotDelegates
<1> QED BY <1>1, <1>2, <1>4, <1>8, <1>9, <1>10

LEMMA CallSlotKeeps ==
    ASSUME MasterInv, MasterCallSlot
    PROVE  /\ PduTypes' /\ ClosingInv' /\ Undelegated' /\ Awaited'
           /\ "sendfail" \notin Faults /\ Asked => Asked'
<1>1. /\ pc = "pass" /\ pc' = pc /\ cur \in Req
      /\ UNCHANGED <<cmd, delegatedList, cur, from, closing, closed, dead, shut>>
      /\ \A r \in Req : asp'[r].owner = asp[r].owner /\ asp'[r].mode = asp[r].mode
      /\ \A r \in Req : r # cur => asp'[r].delegated = asp[r].delegated
      /\ asp[cur].delegated \subseteq asp'[cur].delegated
  BY CallSlotDelegates DEF MasterCallSlot
<1>2. PICK s \in Slot : \A v \in asp'[cur].delegated \ asp[cur].delegated :
         asp[cur].owner[v] = s /\ s \in Session
  BY CallSlotDelegates DEF MasterCallSlot
<1>3. Sends \subseteq Session /\ \A x, y \in Sends : x = y
  BY <1>2 DEF Sends
<1>4. asp[cur].mode \in Mode
  BY <1>1 DEF MasterInv, SchedulerInv, TypeOK, Asp
<1>5. /\ pending \subseteq pending'
      /\ \A q \in pending' \ pending :
            q = <<cur, q[2], asp[cur].mode>> /\ q[2] \in Sends
      /\ "sendfail" \notin Faults =>
            \A x \in Sends : \E q \in pending' : q[1] = cur /\ q[2] = x
  <2>1. CASE Sends = {}
    BY <2>1 DEF MasterCallSlot
  <2>2. CASE Sends # {}
    <3>1. PICK x \in Sends : \E sent \in SendOutcomes(x) :
             pending' = IF sent THEN pending \cup {<<cur, x, asp[cur].mode>>} ELSE pending
      BY <2>2 DEF MasterCallSlot
    <3>2. "sendfail" \notin Faults =>
             pending' = pending \cup {<<cur, x, asp[cur].mode>>}
      BY <3>1 DEF SendOutcomes
    <3>3. <<cur, x, asp[cur].mode>>[1] = cur /\ <<cur, x, asp[cur].mode>>[2] = x
      OBVIOUS
    <3>4. pending' = pending \/ pending' = pending \cup {<<cur, x, asp[cur].mode>>}
      BY <3>1
    <3>5. \A q \in pending' \ pending : q = <<cur, x, asp[cur].mode>>
      BY <3>4
    <3>6. \A q \in pending' \ pending : q[2] = x /\ q = <<cur, q[2], asp[cur].mode>>
      BY <3>3, <3>5
    <3>7. \A y \in Sends : y = x
      BY <1>3
    <3>8. "sendfail" \notin Faults => <<cur, x, asp[cur].mode>> \in pending'
      BY <3>2
    <3> QED BY <3>3, <3>4, <3>6, <3>7, <3>8
  <2> QED BY <2>1, <2>2
<1>6. PduTypes'
  BY <1>1, <1>3, <1>4, <1>5 DEF MasterInv, PduTypes, Pdu
<1>7. ClosingInv' /\ Undelegated'
  <2>1. ClosingInv'
    BY <1>1 DEF MasterInv, ClosingInv, Running
  <2>2. Active' = Active /\ cur \in Active /\ ~Begins'
    BY <1>1, RunningType DEF MasterInv, Active, Begins, Running
  <2>3. Undelegated'
    BY <1>1, <2>2 DEF MasterInv, Undelegated
  <2> QED BY <2>1, <2>3
<1>8. Awaited'
  <2>1. SUFFICES ASSUME NEW p \in pending', p[2] \in Open
                 PROVE  Waiting(p[1], p[2])' # {} /\ p[3] = asp'[p[1]].mode
    BY <1>1 DEF Awaited, Open
  <2>2. CASE p \in pending
    <3>1. p[1] \in Req /\ Waiting(p[1], p[2]) # {} /\ p[3] = asp[p[1]].mode
      BY <2>1, <2>2 DEF MasterInv, PduTypes, Pdu, Awaited
    <3>2. Waiting(p[1], p[2]) \subseteq Waiting(p[1], p[2])'
      BY <1>1, <3>1 DEF Waiting
    <3> QED BY <1>1, <3>1, <3>2
  <2>3. CASE p \notin pending
    <3>1. p = <<cur, p[2], asp[cur].mode>> /\ p[2] \in Sends
      BY <1>5, <2>3
    <3>2. p[1] = cur /\ p[3] = asp[cur].mode
      BY <3>1
    <3>3. PICK v \in asp'[cur].delegated : asp[cur].owner[v] = p[2]
      BY <3>1 DEF Sends
    <3>4. v \in Waiting(p[1], p[2])'
      BY <1>1, <3>2, <3>3 DEF Waiting
    <3> QED BY <1>1, <3>2, <3>4
  <2> QED BY <2>2, <2>3
<1>9. ASSUME "sendfail" \notin Faults, Asked PROVE Asked'
  <2>1. SUFFICES ASSUME NEW r \in Req, "short" \in Faults => cmd[r] = "SET",
                        NEW v \in asp'[r].delegated
                 PROVE  \E p \in pending' : p[1] = r /\ p[2] = asp[r].owner[v]
    BY <1>1 DEF Asked
  <2>2. CASE v \in asp[r].delegated
    BY <1>5, <1>9, <2>1, <2>2 DEF Asked
  <2>3. CASE v \notin asp[r].delegated
    <3>1. r = cur /\ asp[r].owner[v] \in Sends
      BY <1>1, <2>1, <2>3 DEF Sends
    <3> QED BY <1>5, <1>9, <3>1
  <2> QED BY <2>2, <2>3
<1> QED BY <1>6, <1>7, <1>8, <1>9

-----------------------------------------------------------------------------
(* Answers, timeouts and closings.                                         *)

\* Varbinds of one session are released.
Loses(s) ==
    /\ cmd' = cmd
    /\ \A r \in Req :
         /\ asp'[r].owner = asp[r].owner /\ asp'[r].mode = asp[r].mode
         /\ asp'[r].delegated \subseteq asp[r].delegated
         /\ \A v \in asp[r].delegated \ asp'[r].delegated : asp[r].owner[v] = s

\* PDUs that leave the request lists do not leave a SET behind.
LEMMA Lost ==
    ASSUME MasterInv, NEW s \in Session, Loses(s), Open' \subseteq Open,
           pending' \subseteq pending,
           \A p \in pending' : p[2] = s /\ s \in Open' =>
              Waiting(p[1], p[2])' = Waiting(p[1], p[2]),
           \A p \in pending \ pending' :
              Waiting(p[1], p[2])' = {} \/ ("short" \in Faults /\ cmd[p[1]] # "SET")
    PROVE  Awaited' /\ (Asked => Asked')
<1>1. Awaited'
  <2>1. SUFFICES ASSUME NEW p \in pending', p[2] \in Open'
                 PROVE  Waiting(p[1], p[2])' # {} /\ p[3] = asp'[p[1]].mode
    BY DEF Awaited
  <2>2. /\ p[1] \in Req /\ p[2] \in Open /\ Waiting(p[1], p[2]) # {}
        /\ p[3] = asp[p[1]].mode
    BY <2>1 DEF MasterInv, PduTypes, Pdu, Awaited
  <2>3. p[2] # s => Waiting(p[1], p[2]) \subseteq Waiting(p[1], p[2])'
    BY <2>2 DEF Loses, Waiting
  <2> QED BY <2>1, <2>2, <2>3 DEF Loses
<1>2. ASSUME Asked PROVE Asked'
  <2>1. SUFFICES ASSUME NEW r \in Req, "short" \in Faults => cmd[r] = "SET",
                        NEW v \in asp'[r].delegated
                 PROVE  \E p \in pending' : p[1] = r /\ p[2] = asp[r].owner[v]
    BY DEF Asked, Loses
  <2>2. v \in asp[r].delegated
    BY <2>1 DEF Loses
  <2>3. PICK p \in pending : p[1] = r /\ p[2] = asp[r].owner[v]
    BY <1>2, <2>1, <2>2 DEF Asked
  <2>4. v \in Waiting(p[1], p[2])'
    BY <2>1, <2>3 DEF Waiting, Loses
  <2> QED BY <2>1, <2>3, <2>4
<1> QED BY <1>1, <1>2

\* Outside requests that are run, a release leaves control in place.
LEMMA LostIdle ==
    ASSUME MasterInv, NEW s, Loses(s), UNCHANGED <<delegatedList, cur>>,
           pc' \in {"scan", "closing"} \/ (UNCHANGED <<pc, from, closing>> /\ pc = "idle")
    PROVE  ClosingInv' /\ Undelegated'
<1>1. ClosingInv'
  BY DEF MasterInv, ClosingInv, Running
<1>2. Undelegated'
  BY DEF MasterInv, Undelegated, Loses, Active, Begins
<1> QED BY <1>1, <1>2

LEMMA ReleaseFacts ==
    ASSUME MasterInv, NEW r \in Req, NEW V, NEW x \in Req
    PROVE  /\ Release(r, V)[x].owner = asp[x].owner
           /\ Release(r, V)[x].mode = asp[x].mode
           /\ x # r => Release(r, V)[x].delegated = asp[x].delegated
           /\ x = r => Release(r, V)[x].delegated = asp[x].delegated \ V
<1> DEFINE d == asp[r].delegated \ V
<1>1. asp \in [Req -> Asp] /\ asp[r] \in Asp
  BY DEF MasterInv, SchedulerInv, TypeOK
<1>2. Release(r, V) = [asp EXCEPT ![r] = [asp[r] EXCEPT !.delegated = d]]
  BY <1>1 DEF Release
<1> HIDE DEF d
<1>3. /\ [asp[r] EXCEPT !.delegated = d].owner = asp[r].owner
      /\ [asp[r] EXCEPT !.delegated = d].mode = asp[r].mode
      /\ [asp[r] EXCEPT !.delegated = d].delegated = d
  BY <1>1 DEF Asp
<1> QED BY <1>1, <1>2, <1>3 DEF d

LEMMA FailFacts ==
    ASSUME MasterInv, NEW r \in Req, NEW V, NEW v, NEW e, NEW x \in Req
    PROVE  /\ Fail(r, V, v, e)[x].owner = asp[x].owner
           /\ Fail(r, V, v, e)[x].mode = asp[x].mode
           /\ x # r => Fail(r, V, v, e)[x].delegated = asp[x].delegated
           /\ x = r => Fail(r, V, v, e)[x].delegated = asp[x].delegated \ V
<1> DEFINE d == asp[r].delegated \ V
           y == [asp[r].err EXCEPT ![v] = e]
<1>1. asp \in [Req -> Asp] /\ asp[r] \in Asp
  BY DEF MasterInv, SchedulerInv, TypeOK
<1>2. Fail(r, V, v, e) = [asp EXCEPT ![r] = [asp[r] EXCEPT !.delegated = d, !.err = y]]
  BY <1>1 DEF Fail
<1> HIDE DEF y
<1>3. /\ [asp[r] EXCEPT !.delegated = d, !.err = y].owner = asp[r].owner
      /\ [asp[r] EXCEPT !.delegated = d, !.err = y].mode = asp[r].mode
      /\ [asp[r] EXCEPT !.delegated = d, !.err = y].delegated = d
  BY <1>1 DEF Asp
<1> QED BY <1>1, <1>2, <1>3

\* No two PDUs for one request and one open session.
LEMMA OnePdu ==
    ASSUME MasterInv, NEW p \in pending, NEW q \in pending,
           p[1] = q[1], p[2] = q[2], p[2] \in Open
    PROVE  p = q
<1>1. p[3] = q[3]
  BY DEF MasterInv, Awaited
<1>2. p = <<p[1], p[2], p[3]>> /\ q = <<q[1], q[2], q[3]>>
  BY DEF MasterInv, PduTypes, Pdu
<1> QED BY <1>1, <1>2

LEMMA RespondKeeps ==
    ASSUME MasterInv, NEW p \in pending, Respond(p)
    PROVE  PduTypes' /\ ClosingInv' /\ Undelegated' /\ Awaited' /\ (Asked => Asked')
<1> DEFINE r == p[1]
           s == p[2]
<1>1. /\ r \in Req /\ s \in Session /\ pending' = pending \ {p} /\ pc = "idle"
      /\ UNCHANGED <<cmd, delegatedList, pc, cur, from, closing, closed, dead, shut>>
  BY DEF MasterInv, PduTypes, Pdu, Respond, AnswerOk, AnswerError, AnswerShort, Awaits,
         listVars, ctlVars, sessVars
<1>2. PICK V \in SUBSET Waiting(r, s) :
        /\ V = Waiting(r, s) \/ ("short" \in Faults /\ cmd[r] # "SET")
        /\ asp' = Release(r, V) \/ \E v, e : asp' = Fail(r, V, v, e)
  <2>1. CASE AnswerOk(r, s)
    BY <2>1 DEF AnswerOk
  <2>2. CASE AnswerError(r, s)
    BY <2>2 DEF AnswerError
  <2>3. CASE "short" \in Faults /\ AnswerShort(r, s)
    <3>1. PICK v \in Waiting(r, s) :
             asp' = Fail(r, {w \in Waiting(r, s) : w < v}, MinOf(Waiting(r, s)), "genErr")
      BY <2>3 DEF AnswerShort
    <3> QED BY <2>3, <3>1 DEF AnswerShort
  <2> QED BY <2>1, <2>2, <2>3 DEF Respond
<1>3. \A x \in Req :
        /\ asp'[x].owner = asp[x].owner /\ asp'[x].mode = asp[x].mode
        /\ x # r => asp'[x].delegated = asp[x].delegated
        /\ x = r => asp'[x].delegated = asp[x].delegated \ V
  <2> SUFFICES ASSUME NEW x \in Req
               PROVE  /\ asp'[x].owner = asp[x].owner /\ asp'[x].mode = asp[x].mode
                      /\ x # r => asp'[x].delegated = asp[x].delegated
                      /\ x = r => asp'[x].delegated = asp[x].delegated \ V
    OBVIOUS
  <2>1. CASE asp' = Release(r, V)
    BY <1>1, <2>1, ReleaseFacts
  <2>2. CASE \E v, e : asp' = Fail(r, V, v, e)
    <3>1. PICK v, e : asp' = Fail(r, V, v, e)
      BY <2>2
    <3> QED BY <1>1, <3>1, FailFacts
  <2> QED BY <1>2, <2>1, <2>2
<1>4. Loses(s)
  BY <1>1, <1>2, <1>3 DEF Loses, Waiting
<1>5. ASSUME NEW q \in pending', q[2] = s, s \in Open'
      PROVE  Waiting(q[1], q[2])' = Waiting(q[1], q[2])
  <2>1. q \in pending /\ q # p /\ s \in Open /\ q[1] \in Req
    BY <1>1, <1>5 DEF Open, MasterInv, PduTypes, Pdu
  <2>2. q[1] # r
    BY <1>5, <2>1, OnePdu
  <2> QED BY <1>3, <2>1, <2>2 DEF Waiting
<1>6. Waiting(r, s)' = {} \/ ("short" \in Faults /\ cmd[r] # "SET")
  BY <1>1, <1>2, <1>3 DEF Waiting
<1>7. Awaited' /\ (Asked => Asked')
  BY <1>1, <1>4, <1>5, <1>6, Lost DEF Open
<1>8. ClosingInv' /\ Undelegated'
  BY <1>1, <1>4, LostIdle
<1>9. PduTypes'
  BY <1>1 DEF MasterInv, PduTypes
<1> QED BY <1>7, <1>8, <1>9

LEMMA CloseLoses ==
    ASSUME MasterInv, NEW s \in Session, NEW b \in [Req -> Asp], NEW f, CloseWith(b, f, s),
           \A r \in Req : /\ b[r].owner = asp[r].owner /\ b[r].mode = asp[r].mode
                          /\ b[r].delegated \subseteq asp[r].delegated
                          /\ \A v \in asp[r].delegated \ b[r].delegated : asp[r].owner[v] = s
    PROVE  /\ Loses(s) /\ closing' = s /\ pc' \in {"scan", "closing"}
           /\ UNCHANGED <<delegatedList, cur, closed>>
           /\ \A r \in Req : asp'[r].delegated \subseteq b[r].delegated
<1>1. PICK match \in BOOLEAN :
        LET gone(r) == IF match THEN Abandoned(b[r], r, s) ELSE {}
        IN /\ asp' = [r \in Req |->
                [b[r] EXCEPT !.delegated = @ \ gone(r),
                             !.err = [v \in Varbind |->
                                        IF v \in gone(r) THEN "genErr" ELSE @[v]]]]
           /\ failed' = [r \in Req |-> IF gone(r) = {} THEN f[r]
                                       ELSE f[r] \cup {<<asp[r].mode, "answer">>}]
  BY DEF CloseWith
<1> DEFINE gone(r) == IF match THEN Abandoned(b[r], r, s) ELSE {}
           err(r) == [v \in Varbind |-> IF v \in gone(r) THEN "genErr" ELSE b[r].err[v]]
<1>2. asp' = [r \in Req |-> [b[r] EXCEPT !.delegated = b[r].delegated \ gone(r), !.err = err(r)]]
  BY <1>1
<1>3. \A r \in Req : \A v \in gone(r) : b[r].owner[v] = s
  BY DEF Abandoned
<1> HIDE DEF gone, err
<1>4. ASSUME NEW r \in Req
      PROVE  /\ asp'[r].owner = b[r].owner /\ asp'[r].mode = b[r].mode
             /\ asp'[r].delegated = b[r].delegated \ gone(r)
  <2>1. asp'[r] = [b[r] EXCEPT !.delegated = b[r].delegated \ gone(r), !.err = err(r)]
    BY <1>2
  <2>2. b[r] \in Asp
    OBVIOUS
  <2> QED BY <2>1, <2>2 DEF Asp
<1>5. /\ cmd' = cmd /\ closing' = s /\ pc' \in {"scan", "closing"}
      /\ UNCHANGED <<delegatedList, cur, closed>>
  BY DEF CloseWith, listVars
<1>6. Loses(s)
  BY <1>3, <1>4, <1>5 DEF Loses
<1> QED BY <1>4, <1>5, <1>6

\* A session that begins to close, and a PDU it may close for.
LEMMA CloseKeeps ==
    ASSUME MasterInv, pc = "idle", NEW s \in Session, Loses(s), closing' = s,
           pc' \in {"scan", "closing"}, UNCHANGED <<delegatedList, cur, closed, dead, shut>>,
           pending' \subseteq pending,
           \A p \in pending \ pending' : Waiting(p[1], p[2])' = {}
    PROVE  PduTypes' /\ ClosingInv' /\ Undelegated' /\ Awaited' /\ (Asked => Asked')
<1>1. closing = NoSession /\ NoSession \notin Session
  BY ConstantsAssumption DEF MasterInv, ClosingInv
<1>2. Open' \subseteq Open /\ s \notin Open'
  BY <1>1 DEF Open
<1>3. Awaited' /\ (Asked => Asked')
  BY <1>2, Lost
<1>4. ClosingInv' /\ Undelegated'
  BY LostIdle
<1>5. PduTypes'
  BY DEF MasterInv, PduTypes
<1> QED BY <1>3, <1>4, <1>5

LEMMA TimeOutKeeps ==
    ASSUME MasterInv, NEW p \in pending, TimeOut(p[1], p[2]), pending' = pending \ {p},
           UNCHANGED <<dead, shut>>
    PROVE  PduTypes' /\ ClosingInv' /\ Undelegated' /\ Awaited' /\ (Asked => Asked')
<1> DEFINE r == p[1]
           s == p[2]
           W == Waiting(r, s)
           m == MinOf(W)
           b == Fail(r, W, m, "genErr")
<1>1. r \in Req /\ s \in Session /\ pc = "idle"
  BY DEF MasterInv, PduTypes, Pdu, TimeOut, Awaits
<1>2. CloseWith(b, AnswerFailed(r), s)
  BY DEF TimeOut
<1> HIDE DEF m
<1>3. b \in [Req -> Asp]
  <2>1. "genErr" \in ErrStat
    BY DEF ErrStat
  <2> QED BY <1>1, <2>1, FailType DEF MasterInv
<1>4. \A x \in Req : /\ b[x].owner = asp[x].owner /\ b[x].mode = asp[x].mode
                     /\ x # r => b[x].delegated = asp[x].delegated
                     /\ x = r => b[x].delegated = asp[x].delegated \ W
  BY <1>1, FailFacts
<1>5. \A x \in Req : /\ b[x].delegated \subseteq asp[x].delegated
                     /\ \A v \in asp[x].delegated \ b[x].delegated : asp[x].owner[v] = s
  BY <1>4 DEF Waiting
<1> HIDE DEF b
<1>6. /\ Loses(s) /\ closing' = s /\ pc' \in {"scan", "closing"}
      /\ UNCHANGED <<delegatedList, cur, closed>>
      /\ \A x \in Req : asp'[x].delegated \subseteq b[x].delegated
  BY <1>1, <1>2, <1>3, <1>4, <1>5, CloseLoses
<1>7. Waiting(r, s)' = {}
  BY <1>1, <1>4, <1>6 DEF Waiting, Loses
<1> QED BY <1>1, <1>6, <1>7, CloseKeeps


LEMMA ReapKeeps ==
    ASSUME MasterInv, NEW p \in pending, Reap(p)
    PROVE  PduTypes' /\ ClosingInv' /\ Undelegated' /\ Awaited' /\ (Asked => Asked')
<1> DEFINE r == p[1]
           s == p[2]
<1>1. /\ r \in Req /\ s \in Session /\ pc = "idle" /\ pending' = pending \ {p}
      /\ UNCHANGED <<dead, shut>>
  BY DEF MasterInv, PduTypes, Pdu, Reap
<1>2. CASE TimeOut(r, s)
  BY <1>1, <1>2, TimeOutKeeps
<1>3. CASE /\ ~InUse(p) /\ r \in delegatedList
           /\ LET own == {v \in Varbind : asp[r].owner[v] = s}
              IN CloseWith(Fail(r, {}, MinOf(own), "genErr"), AnswerFailed(r), s)
  <2> DEFINE m == MinOf({v \in Varbind : asp[r].owner[v] = s})
             none == {}
             b == Fail(r, none, m, "genErr")
  <2>1. CloseWith(b, AnswerFailed(r), s) /\ none = {}
    BY <1>3
  <2>2. Waiting(r, s) = {}
    BY <1>3 DEF InUse
  <2> HIDE DEF m, none
  <2>3. b \in [Req -> Asp]
    <3>1. "genErr" \in ErrStat
      BY DEF ErrStat
    <3> QED BY <1>1, <3>1, FailType DEF MasterInv
  <2>4. \A x \in Req : /\ b[x].owner = asp[x].owner /\ b[x].mode = asp[x].mode
                       /\ x # r => b[x].delegated = asp[x].delegated
                       /\ x = r => b[x].delegated = asp[x].delegated \ none
    BY <1>1, FailFacts
  <2>5. \A x \in Req : /\ b[x].delegated \subseteq asp[x].delegated
                       /\ \A v \in asp[x].delegated \ b[x].delegated : asp[x].owner[v] = s
    BY <2>1, <2>4
  <2> HIDE DEF b
  <2>6. /\ Loses(s) /\ closing' = s /\ pc' \in {"scan", "closing"}
        /\ UNCHANGED <<delegatedList, cur, closed>>
    BY <1>1, <2>1, <2>3, <2>4, <2>5, CloseLoses
  <2>7. Waiting(r, s)' = {}
    BY <1>1, <2>2, <2>6 DEF Waiting, Loses
  <2> QED BY <1>1, <2>6, <2>7, CloseKeeps
<1>4. CASE r \notin delegatedList /\ UNCHANGED vars
  <2>1. /\ cur = NoReq
        /\ UNCHANGED <<cmd, asp, delegatedList, pc, cur, from, closing, closed>>
    BY <1>1, <1>4 DEF vars, reqVars, listVars, ctlVars, sessVars, MasterInv, SchedulerInv,
                      ControlInv, Running
  <2>2. asp[r].delegated = {}
    BY <1>1, <1>4, <2>1 DEF MasterInv, Undelegated, Active
  <2>3. Loses(s) /\ Open' = Open /\ Waiting(r, s)' = {}
    BY <2>1, <2>2 DEF Loses, Open, Waiting
  <2>4. \A q \in pending' : Waiting(q[1], q[2])' = Waiting(q[1], q[2])
    BY <2>1 DEF Waiting
  <2>5. Awaited' /\ (Asked => Asked')
    BY <1>1, <2>3, <2>4, Lost
  <2>6. ClosingInv' /\ Undelegated'
    BY <1>1, <2>1, <2>3, LostIdle
  <2>7. PduTypes'
    BY <1>1, <2>1 DEF MasterInv, PduTypes
  <2> QED BY <2>5, <2>6, <2>7
<1> QED BY <1>2, <1>3, <1>4 DEF Reap

\* Sessions that die, close or end, and the end of a closing.
LEMMA SessionKeeps ==
    ASSUME MasterInv,
           \/ \E s \in Session : Die(s) \/ ReadClose(s)
           \/ \E s \in Session : Disconnect(s) /\ s \in closed
           \/ EndClose
    PROVE  PduTypes' /\ ClosingInv' /\ Undelegated' /\ Awaited' /\ (Asked => Asked')
<1>1. /\ UNCHANGED <<cmd, asp, delegatedList, cur, from, pending>>
      /\ \/ pc' = pc /\ closing' = closing /\ closed \subseteq closed'
         \/ pc = "closing" /\ pc' = "idle" /\ closing' = NoSession
            /\ closed' = closed \cup {closing}
      /\ dead' \in SUBSET Session /\ shut' \subseteq closed'
  BY DEF Die, ReadClose, Disconnect, EndClose, CloseSubsession, CloseSession, Unregister,
         netVars, vars, reqVars, listVars, ctlVars, sessVars, MasterInv, PduTypes
<1>2. Keeps
  BY <1>1 DEF Keeps, Open, Same
<1>3. ClosingInv'
  BY <1>1 DEF MasterInv, ClosingInv, Running
<1>4. Undelegated'
  BY <1>1 DEF MasterInv, Undelegated, Active, Begins
<1>5. PduTypes'
  BY <1>1 DEF MasterInv, PduTypes
<1> QED BY <1>1, <1>2, <1>3, <1>4, <1>5, Kept

LEMMA DisconnectKeeps ==
    ASSUME MasterInv, NEW s \in Session, Disconnect(s), s \notin closed
    PROVE  PduTypes' /\ ClosingInv' /\ Undelegated' /\ Awaited' /\ (Asked => Asked')
<1>1. CloseWith(asp, failed, s) /\ pc = "idle" /\ UNCHANGED <<pending, dead, shut>>
  BY DEF Disconnect, CloseSession, netVars
<1>2. asp \in [Req -> Asp]
  BY DEF MasterInv, SchedulerInv, TypeOK
<1>3. /\ Loses(s) /\ closing' = s /\ pc' \in {"scan", "closing"}
      /\ UNCHANGED <<delegatedList, cur, closed>>
  BY <1>1, <1>2, CloseLoses
<1> QED BY <1>1, <1>3, CloseKeeps

-----------------------------------------------------------------------------
(* Every step.                                                             *)
LEMMA MasterStep ==
    ASSUME MasterInv, [MasterNext]_masterVars
    PROVE  /\ MasterInv'
           /\ "sendfail" \notin Faults /\ Asked => Asked'
<1> DEFINE Goal == /\ PduTypes' /\ ClosingInv' /\ Undelegated' /\ Awaited'
                   /\ "sendfail" \notin Faults /\ Asked => Asked'
<1>1. ASSUME Keeps, ClosingInv', Undelegated', UNCHANGED netVars, closed' = closed
      PROVE  Goal
  <2>1. Awaited' /\ (Asked => Asked')
    BY <1>1, Kept DEF netVars
  <2>2. PduTypes'
    BY <1>1 DEF MasterInv, PduTypes, netVars
  <2> QED BY <1>1, <2>1, <2>2
<1>2. ASSUME NEW r \in Req, Receive(r) \/ Drop(r), UNCHANGED netVars PROVE Goal
  <2>1. closed' = closed
    BY <1>2 DEF Receive, Drop, sessVars
  <2> QED BY <1>1, <1>2, <2>1, ReceiveKeeps
<1>3. ASSUME InnerStep, UNCHANGED netVars PROVE Goal
  <2>1. closed' = closed
    BY <1>3 DEF InnerStep, RefuseSet, BeginSet, NextSetPass, EndSetPass, FinishSet, BeginGet,
           EndGetPass, NextGetPass, FinishGetnext, FinishGet, CheckOutstanding, EndScan,
           ClaimGate, PopQueued, EndDrain, SkipDelegated, ResumeDelegated, sessVars
  <2> QED BY <1>1, <1>3, <2>1, InnerKeeps
<1>4. ASSUME NEW p \in pending, Resolve(p) \/ Reap(p) PROVE Goal
  <2>1. CASE Respond(p)
    BY <2>1, RespondKeeps
  <2>2. CASE RequestTimeout(p)
    BY <2>2, TimeOutKeeps DEF RequestTimeout
  <2>3. CASE Reap(p)
    BY <2>3, ReapKeeps
  <2> QED BY <1>4, <2>1, <2>2, <2>3 DEF Resolve
<1>5. ASSUME NEW s \in Session, Die(s) \/ ReadClose(s) \/ Disconnect(s) PROVE Goal
  BY <1>5, SessionKeeps, DisconnectKeeps
<1>6. ASSUME EndClose PROVE Goal
  BY <1>6, SessionKeeps
<1>7. ASSUME MasterCallSlot PROVE Goal
  BY <1>7, CallSlotKeeps
<1>8. ASSUME UNCHANGED masterVars PROVE Goal
  <2>1. UNCHANGED <<cmd, asp, delegatedList, pc, cur, from, closing, closed, pending,
                    dead, shut>>
    BY <1>8 DEF masterVars, netVars, vars, reqVars, listVars, ctlVars, sessVars
  <2>2. Keeps
    BY <2>1 DEF Keeps, Open, Same
  <2>3. ClosingInv' /\ Undelegated'
    BY <2>1 DEF MasterInv, ClosingInv, Undelegated, Active, Begins
  <2> QED BY <1>1, <2>1, <2>2, <2>3 DEF netVars
<1>9. Goal
  BY <1>2, <1>3, <1>4, <1>5, <1>6, <1>7, <1>8 DEF MasterNext, MasterAgentStep
<1>10. SchedulerInv'
  BY MasterScheduler
<1> QED BY <1>9, <1>10 DEF MasterInv

LEMMA MasterInitially ==
    ASSUME MasterInit
    PROVE  MasterInv /\ Asked
<1>1. SchedulerInv
  BY InitScheduler DEF MasterInit
<1>2. /\ pending = {} /\ dead = {} /\ shut = {} /\ closing = NoSession /\ pc = "idle"
      /\ \A r \in Req : asp[r].delegated = {}
  BY FreeDelegates DEF MasterInit, Init
<1>3. PduTypes /\ ClosingInv /\ Undelegated /\ Awaited /\ Asked
  BY <1>2 DEF PduTypes, ClosingInv, Undelegated, Awaited, Asked, Begins, Running
<1> QED BY <1>1, <1>3 DEF MasterInv

-----------------------------------------------------------------------------
(* What every state satisfies: an inductive invariant of the scheduler with *)
(* the request lists of its sessions.                                      *)
THEOREM MasterInvariant == MasterSpec => []MasterInv
<1>1. MasterInit => MasterInv
  BY MasterInitially
<1>2. MasterInv /\ [MasterNext]_masterVars => MasterInv'
  BY MasterStep
<1> QED BY <1>1, <1>2, PTL DEF MasterSpec

(* Every variable has its type, and no transport is closed whose session    *)
(* still has registrations (MasterAdmin_closeAgentxSession).               *)
THEOREM MasterTypeCorrect == MasterSpec => []MasterTypeOK
<1>1. MasterInv => MasterTypeOK
  BY DEF MasterInv, PduTypes, SchedulerInv, MasterTypeOK
<1> QED BY <1>1, MasterInvariant, PTL

(* A SET executes alone, with subagents that die and PDUs in flight as      *)
(* well (Agent_handleRequest, Master_handler).                             *)
THEOREM MasterSetExclusion == MasterSpec => []SetExclusion
<1>1. MasterInv => SetExclusion
  BY DEF MasterInv, SchedulerInv, HolderInv, SetExclusion
<1> QED BY <1>1, MasterInvariant, PTL

(* An answer of a living session reaches the phase of the SET that asked    *)
(* for it (Master_gotResponse, AgentHandler_handlerCheckCache).            *)
THEOREM AnswersMatchPhaseCorrect == MasterSpec => []AnswersMatchPhase
<1>1. MasterInv => AnswersMatchPhase
  <2> SUFFICES ASSUME MasterInv, pc = "idle", NEW p \in pending, InUse(p), p[2] \notin closed
               PROVE  p[3] = asp[p[1]].mode
    BY DEF AnswersMatchPhase
  <2>1. p[2] \in Session /\ closing = NoSession /\ NoSession \notin Session
    BY ConstantsAssumption DEF MasterInv, PduTypes, Pdu, ClosingInv
  <2>2. p[2] \in Open
    BY <2>1 DEF Open
  <2> QED BY <2>2 DEF MasterInv, Awaited
<1> QED BY <1>1, MasterInvariant, PTL

(* When every PDU that Master_handler builds is sent, each varbind that     *)
(* waits was asked for by a PDU that is in a request list still.           *)
THEOREM NoOrphanCorrect ==
    ASSUME "sendfail" \notin Faults
    PROVE  MasterSpec => []NoOrphan
<1>1. MasterInit => MasterInv /\ Asked
  BY MasterInitially
<1>2. MasterInv /\ Asked /\ [MasterNext]_masterVars => MasterInv' /\ Asked'
  BY MasterStep
<1>3. MasterInv /\ Asked => NoOrphan
  BY DEF MasterInv, SchedulerInv, TypeOK, Asked, NoOrphan
<1> QED BY <1>1, <1>2, <1>3, PTL DEF MasterSpec

-----------------------------------------------------------------------------
(* What becomes of a SET with PDUs in flight.  One step of the master is   *)
(* none of the scheduler: when what is left of a request list is timed     *)
(* out, a late callback may fail a request that no longer waits for the    *)
(* session.                                                                *)

\* A request goes on until it is answered, and its history grows.
GoesOn(r) ==
    /\ response[r] # "none" => response'[r] # "none"
    /\ Started(r) => \/ response'[r] # "none"
                     \/ Started(r)' /\ calls[r] \subseteq calls'[r]

\* A PDU was sent by the handler call of a request that is not over, unless it
\* has been answered.
PduStory ==
    \A p \in pending :
        \/ response[p[1]] # "none"
        \/ Started(p[1]) /\ <<p[2], p[3]>> \in calls[p[1]]

OutcomeInv == MasterInv /\ HistoryInv /\ PduStory

-----------------------------------------------------------------------------
\* Steps that answer no one and keep the history.
LEMMA LivesOn ==
    ASSUME NEW r \in Req, response' = response, calls[r] \subseteq calls'[r],
           Started(r) => Started(r)'
    PROVE  GoesOn(r)
BY DEF GoesOn

LEMMA AnsweredOn ==
    ASSUME SchedulerInv, NEW st \in ErrStat, WrapUp(cur, st), NEW r \in Req
    PROVE  GoesOn(r)
<1>1. /\ response \in [Req -> ErrStat \cup {"none", "dropped"}]
      /\ calls \in [Req -> SUBSET (Slot \X Mode)]
      /\ st # "none"
  BY DEF SchedulerInv, TypeOK, ErrStat
<1>2. /\ response' = [response EXCEPT ![cur] = st]
      /\ calls' = [calls EXCEPT ![cur] = {}]
      /\ delegatedList' = delegatedList \ {cur} /\ cur' = NoReq
  BY DEF WrapUp
<1>3. PICK x : x = cur
  OBVIOUS
<1>4. CASE r = x
  BY <1>1, <1>2, <1>3, <1>4 DEF GoesOn
<1>5. CASE r # x
  <2>1. response'[r] = response[r] /\ calls'[r] = calls[r]
    BY <1>1, <1>2, <1>3, <1>5
  <2>2. r # NoReq
    BY ConstantsAssumption
  <2>3. Started(r) => Started(r)'
    BY <1>2, <1>3, <1>5, <2>2 DEF Started, Active
  <2> QED BY <2>1, <2>3 DEF GoesOn
<1> QED BY <1>4, <1>5

\* While no request is run, the requests with a history are on the list.
LEMMA BetweenOn ==
    ASSUME SchedulerInv, cur = NoReq, response' = response, calls' = calls,
           NEW r \in Req,
           \/ delegatedList' = delegatedList /\ (cur' = r => r \notin delegatedList)
           \/ cur' # NoReq /\ pc' # "pdu" /\ delegatedList' = delegatedList \ {cur'}
    PROVE  GoesOn(r)
<1>1. r # NoReq
  BY ConstantsAssumption
<1>2. Started(r) => Started(r)'
  BY <1>1 DEF Started, Active
<1> QED BY <1>2, LivesOn

\* The request that is run goes on, or waits.
LEMMA RunOn ==
    ASSUME SchedulerInv, response' = response, calls' = calls, NEW r \in Req,
           \/ delegatedList' = delegatedList /\ cur' = cur /\ pc' # "pdu"
           \/ delegatedList' = delegatedList \cup {cur} /\ cur' = NoReq
    PROVE  GoesOn(r)
<1>1. r # NoReq
  BY ConstantsAssumption
<1>2. Started(r) => Started(r)'
  BY <1>1 DEF Started, Active
<1> QED BY <1>2, LivesOn

LEMMA StepGoesOn ==
    ASSUME SchedulerInv, HistoryInv, [Next]_vars, NEW r \in Req
    PROVE  GoesOn(r)
<1>1. ASSUME NEW x \in Req, Receive(x) PROVE GoesOn(r)
  <2>1. /\ cur = NoReq /\ x \notin delegatedList
        /\ UNCHANGED <<response, calls, delegatedList>>
    BY <1>1, FreshRequest
       DEF Receive, histVars, SchedulerInv, ControlInv, Running, Active
  <2>2. cur' \in {cur, x}
    BY <1>1 DEF Receive, HandleRequest, StartPdu
  <2> QED BY <2>1, <2>2, ConstantsAssumption, BetweenOn
<1>2. ASSUME NEW x \in Req, Drop(x) PROVE GoesOn(r)
  <2>1. response' = [response EXCEPT ![x] = "dropped"]
        /\ UNCHANGED <<cur, pc, delegatedList, calls>>
    BY <1>2 DEF Drop, listVars, ctlVars, histVars
  <2>2. response \in [Req -> ErrStat \cup {"none", "dropped"}]
    BY DEF SchedulerInv, TypeOK
  <2>3. response[r] # "none" => response'[r] # "none"
    BY <2>1, <2>2
  <2>4. Started(r)' <=> Started(r)
    BY <2>1 DEF Started, Active
  <2> QED BY <2>1, <2>3, <2>4 DEF GoesOn
<1>3. ASSUME PopQueued PROVE GoesOn(r)
  <2> DEFINE h == Head(queuedList)
  <2>1. h \in Req /\ h \notin delegatedList /\ cur = NoReq
    BY <1>3, HeadFacts DEF PopQueued, SchedulerInv, ControlInv, Running, Active
  <2>2. cur' \in {cur, h} /\ UNCHANGED <<response, calls, delegatedList>>
    BY <1>3 DEF PopQueued, HandleRequest, StartPdu, reqVars, histVars
  <2> HIDE DEF h
  <2> QED BY <2>1, <2>2, ConstantsAssumption, BetweenOn
<1>4. ASSUME \/ CheckOutstanding \/ EndScan \/ ClaimGate \/ EndDrain \/ Unregister
             \/ \E x \in Req : SkipDelegated(x)
             \/ \E s \in Session : CloseSubsession(s)
      PROVE  GoesOn(r)
  <2>1. cur = NoReq
    BY <1>4 DEF CheckOutstanding, EndScan, ClaimGate, EndDrain, Unregister, SkipDelegated,
           CloseSubsession, SchedulerInv, ControlInv, Running
  <2>2. UNCHANGED <<response, calls, delegatedList, cur>>
    BY <1>4 DEF CheckOutstanding, EndScan, ClaimGate, EndDrain, Unregister, SkipDelegated,
           CloseSubsession, reqVars, listVars, ctlVars, histVars
  <2> QED BY <2>1, <2>2, ConstantsAssumption, BetweenOn
<1>5. ASSUME NEW x \in Req, ResumeDelegated(x) PROVE GoesOn(r)
  <2>1. cur = NoReq /\ x # NoReq
    BY <1>5, ConstantsAssumption DEF ResumeDelegated, SchedulerInv, ControlInv, Running
  <2>2. /\ UNCHANGED <<response, calls>> /\ cur' = x /\ pc' # "pdu"
        /\ delegatedList' = delegatedList \ {x}
    BY <1>5 DEF ResumeDelegated, histVars
  <2> QED BY <2>1, <2>2, BetweenOn
<1>6. ASSUME NEW b, NEW f, NEW s, CloseWith(b, f, s), pc = "idle" PROVE GoesOn(r)
  <2>1. cur = NoReq /\ UNCHANGED <<response, calls, delegatedList, cur>>
    BY <1>6 DEF CloseWith, listVars, SchedulerInv, ControlInv, Running
  <2> QED BY <2>1, ConstantsAssumption, BetweenOn
<1>7. ASSUME NEW x \in Req, NEW s \in Session, Answer(x, s) PROVE GoesOn(r)
  <2>1. CASE TimeOut(x, s)
    BY <1>6, <2>1 DEF TimeOut, Awaits
  <2>2. CASE AnswerOk(x, s) \/ AnswerError(x, s) \/ AnswerShort(x, s)
    <3>1. cur = NoReq
      BY <2>2 DEF AnswerOk, AnswerError, AnswerShort, Awaits, SchedulerInv, ControlInv,
                  Running
    <3>2. UNCHANGED <<response, calls, delegatedList, cur>>
      BY <2>2 DEF AnswerOk, AnswerError, AnswerShort, listVars, ctlVars, histVars
    <3> QED BY <3>1, <3>2, ConstantsAssumption, BetweenOn
  <2> QED BY <1>7, <2>1, <2>2 DEF Answer
<1>8. ASSUME NEW s \in Session, CloseSession(s) PROVE GoesOn(r)
  BY <1>6, <1>8 DEF CloseSession
<1>9. ASSUME \E st \in ErrStat : WrapUp(cur, st) PROVE GoesOn(r)
  BY <1>9, AnsweredOn
<1>10. ASSUME RefuseSet \/ FinishSet \/ FinishGetnext \/ FinishGet PROVE GoesOn(r)
  <2>1. pc \in Running
    BY <1>10 DEF RefuseSet, FinishSet, FinishGetnext, FinishGet, Running
  <2>2. asp[cur].status \in ErrStat /\ "noAccess" \in ErrStat
    BY <2>1, RunningType DEF SchedulerInv, TypeOK, Asp, ErrStat
  <2> QED BY <1>9, <1>10, <2>2 DEF RefuseSet, FinishSet, FinishGetnext, FinishGet
<1>11. ASSUME BeginSet \/ BeginGet \/ NextSetPass \/ NextGetPass PROVE GoesOn(r)
  <2>1. UNCHANGED <<response, calls, delegatedList, cur>> /\ pc' # "pdu"
    BY <1>11 DEF BeginSet, BeginGet, NextSetPass, NextGetPass, listVars, histVars
  <2> QED BY <2>1, RunOn
<1>12. ASSUME EndSetPass \/ EndGetPass PROVE GoesOn(r)
  <2>1. pc \in Running /\ final \in ErrStat
    BY <1>12 DEF EndSetPass, EndGetPass, Running, SchedulerInv, TypeOK
  <2>2. asp[cur].status \in ErrStat
    BY <2>1, RunningType DEF SchedulerInv, TypeOK, Asp
  <2>3. GetStatus(asp[cur]) \in ErrStat
    BY <2>1, <2>2 DEF GetStatus
  <2>4. \/ WrapUp(cur, GetStatus(asp[cur]))
        \/ /\ response' = response /\ calls' = calls
           /\ \/ delegatedList' = delegatedList /\ cur' = cur /\ pc' # "pdu"
              \/ delegatedList' = delegatedList \cup {cur} /\ cur' = NoReq
    BY <1>12 DEF EndSetPass, EndGetPass, Park, histVars
  <2> QED BY <1>9, <2>3, <2>4, RunOn
<1>13. ASSUME CallSlot PROVE GoesOn(r)
  <2>1. pc = "pass" /\ pc \in Running
        /\ UNCHANGED <<response, delegatedList, cur, pc>>
    BY <1>13 DEF CallSlot, listVars, Running
  <2>2. PICK x \in Req : x = cur
    BY <2>1, RunningType
  <2>3. /\ \E C, s, hit : Turn(x, C, s, hit)
        /\ \A q \in Req \ {x} : calls'[q] = calls[q]
    BY <1>13, <2>2, CallIsTurn
  <2>4. calls[r] \subseteq calls'[r]
    BY <2>3 DEF Turn
  <2>5. Started(r) => Started(r)'
    BY <2>1 DEF Started, Active
  <2> QED BY <2>1, <2>4, <2>5, LivesOn
<1>14. ASSUME UNCHANGED vars PROVE GoesOn(r)
  <2>1. UNCHANGED <<response, calls, delegatedList, cur, pc>>
    BY <1>14 DEF vars, reqVars, listVars, ctlVars, histVars
  <2>2. Started(r) <=> Started(r)'
    BY <2>1 DEF Started, Active
  <2> QED BY <2>1, <2>2, LivesOn
<1> QED BY <1>1, <1>2, <1>3, <1>4, <1>5, <1>7, <1>8, <1>10, <1>11, <1>12, <1>13, <1>14
        DEF Next, AgentStep, InnerStep

-----------------------------------------------------------------------------
(* What is left of a request list.                                         *)
LEMMA ReapStory ==
    ASSUME OutcomeInv, NEW p \in pending, Reap(p)
    PROVE  /\ HistoryInv' /\ response' = response
           /\ \A r \in Req : GoesOn(r)
<1> DEFINE x == p[1]
           s == p[2]
<1>1. x \in Req /\ s \in Session /\ pc = "idle" /\ cur = NoReq
  BY DEF OutcomeInv, MasterInv, PduTypes, Pdu, Reap, SchedulerInv, ControlInv, Running
<1>2. CASE TimeOut(x, s)
  <2>1. Answer(x, s)
    BY <1>2 DEF Answer
  <2>2. Next
    BY <1>1, <2>1 DEF Next
  <2>3. response' = response
    BY <1>2 DEF TimeOut, CloseWith
  <2> QED BY <1>1, <2>1, <2>2, <2>3, AnswerSteps, StepGoesOn DEF OutcomeInv, MasterInv
<1>3. CASE UNCHANGED vars
  <2>1. response' = response
    BY <1>3 DEF vars, reqVars
  <2> QED BY <1>3, <2>1, NextStory, StepGoesOn DEF OutcomeInv, MasterInv
<1>4. CASE /\ x \in delegatedList
           /\ LET own == {v \in Varbind : asp[x].owner[v] = s}
              IN CloseWith(Fail(x, {}, MinOf(own), "genErr"), AnswerFailed(x), s)
  <2> DEFINE own == {v \in Varbind : asp[x].owner[v] = s}
             m == MinOf(own)
             none == {}
             b == Fail(x, none, m, "genErr")
             f == AnswerFailed(x)
  <2>1. CloseWith(b, f, s) /\ SchedulerInv /\ HistoryInv
    BY <1>4 DEF OutcomeInv, MasterInv
  <2>2. response' = response
    BY <2>1 DEF CloseWith
  <2>3. cmd[x] = "SET" => m \in Varbind
    <3>1. response[x] = "none"
      BY <1>1, <1>4, <2>1 DEF SchedulerInv, OnePlace, Accepted, Active
    <3>2. <<s, p[3]>> \in calls[x] /\ <<s, p[3]>>[1] = s
      BY <3>1 DEF OutcomeInv, PduStory
    <3>3. ASSUME cmd[x] = "SET" PROVE own # {}
      <4>1. SetStory(x)
        BY <1>1, <1>4, <2>1, <3>3, ParkedType
      <4> QED BY <3>2, <4>1 DEF SetStory, Phases
    <3>4. own \in SUBSET Varbind
      OBVIOUS
    <3> HIDE DEF own
    <3> QED BY <3>3, <3>4, MinOfIn
  <2> HIDE DEF own, m, none
  <2>4. b \in [Req -> Asp]
    <3>1. "genErr" \in ErrStat
      BY DEF ErrStat
    <3> QED BY <1>1, <2>1, <3>1, FailType
  <2>5. \A r \in Req : r # x => b[r] = asp[r]
    BY <1>1, <2>1, FailOther
  <2>6. cmd[x] = "SET" => Marked(b[x])
    BY <1>1, <2>1, <2>3, FailMarks
  <2>7. /\ b[x].mode = asp[x].mode /\ b[x].status = asp[x].status
        /\ b[x].index = asp[x].index /\ b[x].owner = asp[x].owner
        /\ b[x].delegated \subseteq asp[x].delegated
    BY <1>1, <2>1, FailKeeps
  <2>8. /\ \A r \in Req : r # x => f[r] = failed[r]
        /\ f[x] = failed[x] \cup {<<asp[x].mode, "answer">>}
    BY <1>1, <2>1 DEF AnswerFailed, SchedulerInv, TypeOK
  <2> HIDE DEF b, f
  <2>9. HistoryInv'
    BY <1>1, <1>4, <2>1, <2>4, <2>5, <2>6, <2>7, <2>8, CloseStory
  <2>10. ASSUME NEW r \in Req PROVE GoesOn(r)
    <3>1. UNCHANGED <<response, calls, delegatedList, cur>>
      BY <2>1 DEF CloseWith, listVars
    <3> QED BY <1>1, <2>1, <3>1, ConstantsAssumption, BetweenOn
  <2> QED BY <2>2, <2>9, <2>10
<1> QED BY <1>2, <1>3, <1>4 DEF Reap

\* Only a handler call sends a PDU, for the slot that it calls.
LEMMA SentIsCalled ==
    ASSUME OutcomeInv, MasterCallSlot, NEW p \in pending' \ pending
    PROVE  Started(p[1])' /\ <<p[2], p[3]>> \in calls'[p[1]]
<1>1. /\ CallSlot /\ SchedulerInv /\ HistoryInv
      /\ pc = "pass" /\ pc \in Running /\ UNCHANGED <<delegatedList, cur, pc, closed>>
  BY DEF MasterCallSlot, CallSlot, listVars, sessVars, Running, OutcomeInv, MasterInv
<1>2. PICK x \in Req : x = cur /\ x # NoReq
  BY <1>1, RunningType, ConstantsAssumption
<1>3. PICK s \in Sends : p = <<cur, s, asp[cur].mode>>
  BY DEF MasterCallSlot
<1>4. PICK v \in asp'[x].delegated \ asp[x].delegated : s = asp[x].owner[v]
  BY <1>2 DEF Sends
<1>5. \E C, t, hit : Turn(x, C, t, hit)
  BY <1>1, <1>2, CallIsTurn
<1>6. PICK C, t, hit : Turn(x, C, t, hit)
  BY <1>5
<1>7. v \in C /\ t \notin closed /\ t = s
  BY <1>4, <1>6 DEF Turn
<1>8. <<s, asp[x].mode>> \in calls'[x]
  BY <1>6, <1>7 DEF Turn
<1>9. Started(x)'
  BY <1>1, <1>2 DEF Started, Active
<1>10. p[1] = x /\ p[2] = s /\ p[3] = asp[x].mode
  BY <1>2, <1>3
<1> QED BY <1>8, <1>9, <1>10

LEMMA OutcomeStep ==
    ASSUME OutcomeInv, [MasterNext]_masterVars
    PROVE  OutcomeInv'
<1>1. MasterInv /\ SchedulerInv /\ HistoryInv
  BY DEF OutcomeInv, MasterInv
<1>2. MasterInv'
  BY <1>1, MasterStep
<1>3. HistoryInv' /\ \A r \in Req : GoesOn(r)
  <2>1. CASE [Next]_vars
    BY <1>1, <2>1, NextStory, StepGoesOn
  <2>2. CASE \E p \in pending : Reap(p)
    BY <2>2, ReapStory
  <2> QED BY <1>1, <2>1, <2>2, MasterIsNext
<1>4. pending' \subseteq pending \/ MasterCallSlot
  BY DEF MasterNext, MasterAgentStep, Resolve, Respond, RequestTimeout, Reap, Die, ReadClose,
         Disconnect, EndClose, netVars, masterVars
<1>5. PduStory'
  <2> SUFFICES ASSUME NEW p \in pending'
               PROVE  \/ response'[p[1]] # "none"
                      \/ Started(p[1])' /\ <<p[2], p[3]>> \in calls'[p[1]]
    BY DEF PduStory
  <2>1. CASE p \in pending
    <3>1. p[1] \in Req
      BY <1>1, <2>1 DEF MasterInv, PduTypes, Pdu
    <3>2. GoesOn(p[1])
      BY <1>3, <3>1
    <3> QED BY <2>1, <3>2 DEF OutcomeInv, PduStory, GoesOn
  <2>2. CASE p \notin pending
    BY <1>4, <2>2, SentIsCalled
  <2> QED BY <2>1, <2>2
<1> QED BY <1>2, <1>3, <1>5 DEF OutcomeInv

(* The history of every request fits what the agent keeps of it, and a PDU *)
(* in a request list comes from a handler call of its request              *)
(* (Agent_handleSet, Master_handler).                                      *)
THEOREM OutcomeInvariant == MasterSpec => []OutcomeInv
<1>1. MasterInit => OutcomeInv
  <2>1. MasterInit => MasterInv /\ HistoryInv /\ pending = {}
    BY MasterInitially, InitStory DEF MasterInit
  <2> QED BY <2>1 DEF OutcomeInv, PduStory
<1>2. OutcomeInv /\ [MasterNext]_masterVars => OutcomeInv'
  BY OutcomeStep
<1> QED BY <1>1, <1>2, PTL DEF MasterSpec

(* A failure found before COMMIT is never committed, after a clean start,  *)
(* with PDUs in flight as well (Agent_handleSet, Master_gotResponse).      *)
THEOREM MasterFailureNotCommitted == MasterSpec => []FailureNotCommitted
<1>1. OutcomeInv => FailureNotCommitted
  BY CommittedFacts DEF OutcomeInv, FailureNotCommitted, SetStory, CleanCommit
<1> QED BY <1>1, OutcomeInvariant, PTL

\* Where the scheduler answers, so does the composition.
LEMMA MasterAnswers ==
    ASSUME OutcomeInv, [MasterNext]_masterVars
    PROVE  [Next]_vars \/ \A r \in Req : ~Answers(r)
<1>1. ASSUME NEW p \in pending, Reap(p) PROVE \A r \in Req : ~Answers(r)
  BY <1>1, ReapStory DEF Answers
<1> QED BY <1>1, MasterIsNext DEF OutcomeInv

(* The response to a SET tells its outcome whatever the subagents do       *)
(* (Agent_handleSet, Agent_wrapUpRequest, Master_gotResponse).             *)
THEOREM MasterTruthfulResponse == MasterSpec => TruthfulResponse
<1>1. TruthfulResponse <=> [][\A r \in Req : Answers(r) => Truthful(r)]_vars
  BY DEF TruthfulResponse, Truthful
<1>2. OutcomeInv /\ [MasterNext]_masterVars =>
        [\A r \in Req : Answers(r) => Truthful(r)]_vars
  BY MasterAnswers, AnsweredTruthful DEF OutcomeInv, MasterInv
<1> QED BY <1>1, <1>2, OutcomeInvariant, PTL DEF MasterSpec

(* Every handler that reserved and whose session is there is told how the  *)
(* SET ended, whatever the subagents do (Agent_handleSet).                 *)
THEOREM MasterSetSettled == MasterSpec => SetSettled
<1>1. SetSettled <=> [][\A r \in Req : Answers(r) => Settled(r)]_vars
  BY DEF SetSettled, Settled
<1>2. OutcomeInv /\ [MasterNext]_masterVars =>
        [\A r \in Req : Answers(r) => Settled(r)]_vars
  BY MasterAnswers, AnsweredSettled DEF OutcomeInv, MasterInv
<1> QED BY <1>1, <1>2, OutcomeInvariant, PTL DEF MasterSpec
=============================================================================

------------------------ MODULE AgentRequestsProofs ------------------------
(***************************************************************************)
(* What AgentRequests promises for every number of requests, varbinds,     *)
(* handlers and subagents: its types, who may execute, and who waits, from *)
(* the invariant SchedulerInv, and what becomes of a SET, from HistoryInv.  *)
(***************************************************************************)
EXTENDS AgentRequests, TLAPS, SequenceTheorems, FiniteSetTheorems, WellFoundedInduction

-----------------------------------------------------------------------------
(* Bounded sets of numbers have a least and a greatest element.            *)
LEMMA MinExists ==
    ASSUME NEW S \in SUBSET Nat, S # {}
    PROVE  \E v \in S : \A w \in S : v <= w
<1>1. IsWellFoundedOn(OpToRel(<, Nat), Nat)
  BY NatLessThanWellFounded
<1>2. PICK v \in S : \A w \in S : <<w, v>> \notin OpToRel(<, Nat)
  BY <1>1, WFMin
<1>3. \A w \in S : ~(w < v)
  BY <1>2 DEF OpToRel
<1> QED BY <1>3

LEMMA MaxExists ==
    ASSUME NEW N \in Nat, NEW S \in SUBSET (0..N), S # {}
    PROVE  \E v \in S : \A w \in S : w <= v
<1> DEFINE T == {N - v : v \in S}
<1>1. T \in SUBSET Nat /\ T # {}
  <2>1. \A v \in S : N - v \in Nat
    OBVIOUS
  <2>2. PICK v \in S : TRUE
    OBVIOUS
  <2>3. N - v \in T
    OBVIOUS
  <2> QED BY <2>1, <2>3
<1> HIDE DEF T
<1>2. PICK t \in T : \A u \in T : t <= u
  BY <1>1, MinExists
<1>3. PICK v \in S : t = N - v
  BY <1>2 DEF T
<1>4. \A w \in S : N - v <= N - w
  BY <1>2, <1>3 DEF T
<1> QED BY <1>4

LEMMA VarbindType == Varbind \in SUBSET Nat /\ Varbind \in SUBSET (0..NVar) /\ NVar \in Nat
  BY ConstantsAssumption DEF Varbind

LEMMA MinOfIn ==
    ASSUME NEW S \in SUBSET Varbind, S # {}
    PROVE  MinOf(S) \in S /\ \A w \in S : MinOf(S) <= w
  BY MinExists, VarbindType DEF MinOf

-----------------------------------------------------------------------------
(* The operators that compute an asp return an asp.                        *)
LEMMA LinkType ==
    ASSUME NEW owner, NEW S \in SUBSET Varbind,
           NEW next \in [Varbind -> 0..NVar]
    PROVE  Link(owner, S, next) \in [Varbind -> 0..NVar]
<1> SUFFICES ASSUME NEW v \in Varbind
             PROVE  Link(owner, S, next)[v] \in 0..NVar
  BY DEF Link
<1> DEFINE later == {w \in Chain(owner, S, v) : w > v}
<1>1. Link(owner, S, next)[v] = IF v \notin S THEN next[v]
                                ELSE IF later = {} THEN 0 ELSE MinOf(later)
  BY DEF Link
<1>2. later \in SUBSET Varbind
  BY DEF Chain
<1> HIDE DEF later
<1>3. later # {} => MinOf(later) \in 0..NVar
  BY <1>2, MinOfIn, VarbindType
<1> QED BY <1>1, <1>3, VarbindType

LEMMA NewAspType ==
    ASSUME NEW mode \in Mode, NEW l \in Layouts
    PROVE  NewAsp(mode, l) \in Asp
<1>1. l \in [Varbind -> Slot]
  BY ConstantsAssumption
<1>2. Link(l, Varbind, [v \in Varbind |-> 0]) \in [Varbind -> 0..NVar]
  BY LinkType, VarbindType
<1>3. 0 \in 0..NVar /\ 0 \in 0..MaxPasses
  BY ConstantsAssumption
<1> QED BY <1>1, <1>2, <1>3 DEF NewAsp, Asp, ErrStat

LEMMA FreeAspType == FreeAsp \in Asp
<1>1. Layouts # {}
  BY ConstantsAssumption
<1>2. (CHOOSE l \in Layouts : TRUE) \in Layouts
  BY <1>1
<1> QED BY <1>2, NewAspType DEF FreeAsp, Mode, SetMode

LEMMA ReassignedType ==
    ASSUME NEW a \in Asp, NEW S \in SUBSET Varbind, NEW l \in Layouts,
           a.passes < MaxPasses
    PROVE  Reassigned(a, S, l) \in Asp
<1> DEFINE o == [v \in Varbind |-> IF v \in S THEN l[v] ELSE a.owner[v]]
           n == Link(o, S, a.next)
           e == [v \in Varbind |-> IF v \in S THEN "noError" ELSE a.err[v]]
<1>1. l \in [Varbind -> Slot]
  BY ConstantsAssumption
<1>2. o \in [Varbind -> Slot] /\ e \in [Varbind -> ErrStat]
  BY <1>1 DEF Asp, ErrStat
<1>3. n \in [Varbind -> 0..NVar]
  BY LinkType DEF Asp
<1>4. a.passes + 1 \in 0..MaxPasses
  BY ConstantsAssumption DEF Asp
<1>5. Reassigned(a, S, l) = [a EXCEPT !.owner = o, !.next = n, !.err = e,
                                      !.passes = a.passes + 1]
  BY DEF Reassigned, Asp
<1> HIDE DEF o, n, e
<1> QED BY <1>2, <1>3, <1>4, <1>5 DEF Asp

(* A set of varbinds has a last one in the order of the treecache.         *)
LEMMA LastHit ==
    ASSUME NEW a \in Asp, NEW S \in SUBSET Varbind, S # {}
    PROVE  \E v \in S : \A w \in S : w = v \/ Before(a, w, v)
<1> DEFINE first(v) == MinOf(Chain(a.owner, Varbind, v))
           F == {first(v) : v \in S}
<1>1. \A v \in Varbind : first(v) \in Varbind
  <2> TAKE v \in Varbind
  <2>1. Chain(a.owner, Varbind, v) \in SUBSET Varbind /\ v \in Chain(a.owner, Varbind, v)
    BY DEF Chain
  <2>2. MinOf(Chain(a.owner, Varbind, v)) \in Chain(a.owner, Varbind, v)
    BY <2>1, MinOfIn
  <2> QED BY <2>1, <2>2
<1>2. \A v, w : Before(a, v, w) <=> first(v) < first(w) \/ (first(v) = first(w) /\ v < w)
  BY DEF Before
<1> HIDE DEF first
<1>3. F \in SUBSET (0..NVar) /\ F # {}
  BY <1>1, VarbindType
<1>4. PICK m \in F : \A n \in F : n <= m
  BY <1>3, MaxExists, VarbindType
<1> DEFINE G == {v \in S : first(v) = m}
<1>5. G \in SUBSET (0..NVar) /\ G # {}
  BY <1>4, VarbindType
<1>6. PICK v \in G : \A w \in G : w <= v
  BY <1>5, MaxExists, VarbindType
<1>7. ASSUME NEW w \in S, w # v PROVE Before(a, w, v)
  <2>1. first(w) \in Nat /\ m \in Nat /\ first(w) <= m /\ first(v) = m
    BY <1>1, <1>4, <1>6, VarbindType
  <2>2. first(w) = m => w < v
    BY <1>6, <1>7, VarbindType
  <2> QED BY <2>1, <2>2, <1>2
<1> QED BY <1>6, <1>7

LEMMA CheckRequestsStatusType ==
    ASSUME NEW a \in Asp, NEW C \in SUBSET Varbind, NEW look
    PROVE  CheckRequestsStatus(a, C, look) \in Asp
<1> DEFINE hits == {v \in C : IF look = "any"
                              THEN /\ a.err[v] # "noError"
                                   /\ a.index = 0 \/ v < a.index
                              ELSE a.err[v] = look}
           hit  == IF look = "any" THEN MinOf(hits)
                   ELSE CHOOSE v \in hits : \A w \in hits : w = v \/ Before(a, w, v)
<1>1. CheckRequestsStatus(a, C, look) =
        IF hits = {} THEN a ELSE [a EXCEPT !.index = hit, !.status = a.err[hit]]
  BY DEF CheckRequestsStatus
<1>2. hits \in SUBSET Varbind
  OBVIOUS
<1> HIDE DEF hits
<1>3. hits # {} => hit \in Varbind
  BY <1>2, MinOfIn, LastHit
<1> HIDE DEF hit
<1>4. ASSUME hit \in Varbind
      PROVE  [a EXCEPT !.index = hit, !.status = a.err[hit]] \in Asp
  BY <1>4, VarbindType DEF Asp
<1> QED BY <1>1, <1>3, <1>4

LEMMA CollectedType ==
    ASSUME NEW a \in Asp PROVE Collected(a) \in Asp
  BY CheckRequestsStatusType DEF Collected

LEMMA NextModeType ==
    ASSUME NEW mode \in Mode, NEW status PROVE NextMode(mode, status) \in Mode
  BY DEF NextMode, Mode, SetMode, Finished

LEMMA SlotResultsType ==
    ASSUME NEW a \in Asp, NEW s \in Slot, NEW C \in SUBSET Varbind,
           NEW h \in SlotResults(a, s, C)
    PROVE  /\ h.err \in [Varbind -> ErrStat]
           /\ h.delegated \in SUBSET Varbind
           /\ h.ret \in ErrStat
<1>1. CASE s \in closed
  BY <1>1 DEF SlotResults, GoneResult, Asp, ErrStat
<1>2. CASE s \notin closed /\ s \in Session
  BY <1>2 DEF SlotResults, MasterResult, Asp, ErrStat
<1>3. CASE s \notin closed /\ s \notin Session
  <2>1. HandlerErr(a.mode) \subseteq ErrStat
    BY DEF HandlerErr, ErrStat
  <2>2. PICK bad \in SUBSET C, e \in HandlerErr(a.mode), r \in {"noError", "genErr"} :
          h = [err |-> [v \in Varbind |-> IF v \in bad THEN e ELSE a.err[v]],
               delegated |-> a.delegated, ret |-> r, hit |-> bad # {} \/ r # "noError"]
    BY <1>3 DEF SlotResults, LocalResults
  <2> QED BY <2>1, <2>2 DEF Asp, ErrStat
<1> QED BY <1>1, <1>2, <1>3

-----------------------------------------------------------------------------
(* Types.  Parking and wrapping up, whatever the asp was.                  *)
LEMMA RunningType ==
    ASSUME SchedulerInv, pc \in Running
    PROVE  cur \in Req /\ cur # NoReq /\ asp[cur] \in Asp /\ cur \notin delegatedList
  BY DEF SchedulerInv, TypeOK, ControlInv, OnePlace

LEMMA WrapUpType ==
    ASSUME SchedulerInv, pc \in Running, NEW status \in ErrStat,
           WrapUp(cur, status),
           UNCHANGED <<cmd, queuedList, from, left, final, todo, sessVars>>
    PROVE  TypeOK'
<1>1. cur \in Req /\ TypeOK /\ from \in Return
  BY RunningType DEF SchedulerInv, TypeOK
<1>2. asp' \in [Req -> Asp] /\ response' \in [Req -> ErrStat \cup {"none", "dropped"}]
  BY <1>1, FreeAspType DEF WrapUp, TypeOK
<1>3. /\ calls' \in [Req -> SUBSET (Slot \X Mode)]
      /\ failed' \in [Req -> SUBSET (Mode \X {"handler", "answer"})]
  BY <1>1 DEF WrapUp, TypeOK
<1>4. /\ processingSet' \in Req \cup {NoReq} /\ delegatedList' \in SUBSET Req
      /\ pc' \in Running \cup Return \cup {"drain", "closing"}
      /\ cur' \in Req \cup {NoReq}
  BY <1>1 DEF WrapUp, TypeOK
<1> QED BY <1>1, <1>2, <1>3, <1>4 DEF TypeOK, sessVars

LEMMA ParkType ==
    ASSUME SchedulerInv, pc \in Running, Park(cur),
           asp' \in [Req -> Asp],
           UNCHANGED <<cmd, queuedList, from, left, final, todo, sessVars>>
    PROVE  TypeOK'
  BY RunningType DEF SchedulerInv, TypeOK, Park, sessVars, histVars

LEMMA SetStatusType ==
    ASSUME SchedulerInv, pc \in Running
    PROVE  /\ SetStatus(asp[cur]) \in ErrStat /\ ParkedSetStatus(asp[cur]) \in ErrStat
           /\ GetStatus(asp[cur]) \in ErrStat /\ asp[cur].status \in ErrStat
           /\ final \in ErrStat
<1>1. asp[cur] \in Asp /\ final \in ErrStat
  BY RunningType DEF SchedulerInv, TypeOK
<1>2. asp[cur].status \in ErrStat /\ "noError" \in ErrStat
  BY <1>1 DEF Asp, ErrStat
<1> QED BY <1>1, <1>2 DEF SetStatus, ParkedSetStatus, GetStatus

LEMMA StatusType ==
    ASSUME SchedulerInv, pc \in Running, NEW st \in ErrStat
    PROVE  [asp EXCEPT ![cur].status = st] \in [Req -> Asp]
<1>1. cur \in Req /\ asp \in [Req -> Asp] /\ asp[cur] \in Asp
  BY RunningType DEF SchedulerInv, TypeOK
<1>2. [asp[cur] EXCEPT !.status = st] \in Asp
  BY <1>1 DEF Asp
<1> QED BY <1>1, <1>2

-----------------------------------------------------------------------------
(* What a step does to who executes and who waits.                         *)
LEMMA Rerun ==
    ASSUME SchedulerInv, TypeOK', pc \in Running, pc' \in Running,
           UNCHANGED <<cmd, response, listVars, cur, from, todo, sessVars>>
    PROVE  SchedulerInv'
<1> USE DEF listVars, sessVars
<1>1. ControlInv'
  BY DEF SchedulerInv, ControlInv, Running
<1>2. OnePlace'
  BY DEF SchedulerInv, OnePlace, Accepted, Active, Queued
<1>3. HolderInv'
  BY DEF SchedulerInv, HolderInv, Active
<1>4. QueueInv'
  BY DEF SchedulerInv, QueueInv, Running
<1> QED BY <1>1, <1>2, <1>3, <1>4 DEF SchedulerInv

LEMMA Parked ==
    ASSUME SchedulerInv, TypeOK', pc \in Running, Park(cur),
           UNCHANGED <<cmd, queuedList, from, todo, sessVars>>
    PROVE  SchedulerInv'
<1> USE DEF sessVars
<1>1. cur \in Req /\ NoReq \notin Req /\ from \in Return
  BY RunningType, ConstantsAssumption DEF SchedulerInv, TypeOK
<1>2. delegatedList' = delegatedList \cup {cur} /\ cur' = NoReq /\ pc' = from
  BY DEF Park
<1>3. UNCHANGED <<processingSet, response>>
  BY DEF Park
<1>4. Active' = Active
  BY <1>1, <1>2 DEF Active
<1>5. ControlInv'
  BY <1>1, <1>2 DEF SchedulerInv, ControlInv, Running, Return
<1>6. OnePlace'
  <2>1. NoReq \notin delegatedList
    BY <1>1 DEF SchedulerInv, TypeOK
  <2> QED BY <1>1, <1>2, <1>3, <1>4, <2>1 DEF SchedulerInv, OnePlace, Accepted, Queued
<1>7. HolderInv'
  BY <1>3, <1>4 DEF SchedulerInv, HolderInv
<1>8. QueueInv'
  BY <1>1, <1>2, <1>3 DEF SchedulerInv, QueueInv, Running, Return
<1> QED BY <1>5, <1>6, <1>7, <1>8 DEF SchedulerInv

LEMMA WrappedUp ==
    ASSUME SchedulerInv, TypeOK', pc \in Running, NEW status \in ErrStat,
           WrapUp(cur, status),
           UNCHANGED <<cmd, queuedList, from, todo, sessVars>>
    PROVE  SchedulerInv'
<1> USE DEF sessVars
<1>1. cur \in Req /\ NoReq \notin Req /\ from \in Return /\ cur \notin delegatedList
  BY RunningType, ConstantsAssumption DEF SchedulerInv, TypeOK
<1>2. /\ delegatedList' = delegatedList /\ cur' = NoReq /\ pc' = from
      /\ response' = [response EXCEPT ![cur] = status]
      /\ processingSet' = IF processingSet = cur THEN NoReq ELSE processingSet
  BY <1>1 DEF WrapUp
<1>3. NoReq \notin delegatedList
  BY <1>1 DEF SchedulerInv, TypeOK
<1>4. Active = delegatedList \cup {cur} /\ Active' = delegatedList
  BY <1>1, <1>2 DEF Active
<1>5. ControlInv'
  BY <1>1, <1>2 DEF SchedulerInv, ControlInv, Running, Return
<1>6. OnePlace'
  <2>1. Active' = Active \ {cur} /\ Queued' = Queued /\ cur \notin Queued
    BY <1>1, <1>4 DEF SchedulerInv, OnePlace, Queued
  <2>2. \A r \in Req : Accepted(r)' <=> Accepted(r) /\ r # cur
    BY <1>1, <1>2 DEF Accepted, ErrStat, SchedulerInv, TypeOK
  <2>3. \A r \in Req : Accepted(r) <=> r \in Active \cup Queued
    BY DEF SchedulerInv, OnePlace
  <2>4. \A r \in Req : Accepted(r)' <=> r \in (Active \cup Queued)'
    BY <2>1, <2>2, <2>3
  <2>5. \A r \in Req : cmd[r] = "none" => response'[r] = "none"
    BY <1>1, <1>2, <1>4, <2>3 DEF SchedulerInv, OnePlace, Accepted, TypeOK
  <2> QED BY <1>1, <1>2, <1>3, <1>4, <2>1, <2>4, <2>5 DEF SchedulerInv, OnePlace
<1>7. HolderInv'
  <2>1. CASE processingSet = cur
    <3>1. cmd[cur] = "SET" /\ Active = {cur}
      BY <1>1, <1>4, <2>1 DEF SchedulerInv, HolderInv
    <3> QED BY <1>1, <1>2, <1>4, <2>1, <3>1 DEF HolderInv
  <2>2. CASE processingSet # cur
    <3>1. processingSet' = processingSet
      BY <1>2, <2>2
    <3>2. \A r \in Active' : cmd[r] # "SET"
      BY <1>1, <1>4, <2>2 DEF SchedulerInv, HolderInv
    <3>3. processingSet # NoReq => processingSet \notin Active
      BY <1>1, <1>4, <2>2 DEF SchedulerInv, HolderInv
    <3> QED BY <3>1, <3>2, <3>3 DEF SchedulerInv, HolderInv
  <2> QED BY <2>1, <2>2
<1>8. QueueInv'
  BY <1>1, <1>2 DEF SchedulerInv, QueueInv, Running, Return
<1> QED BY <1>5, <1>6, <1>7, <1>8 DEF SchedulerInv

-----------------------------------------------------------------------------
(* A request arrives.                                                      *)
LEMMA AppendFacts ==
    ASSUME NEW q \in Seq(Req), NEW r \in Req
    PROVE  /\ Append(q, r) \in Seq(Req) /\ Append(q, r) # <<>>
           /\ DOMAIN q = 1..Len(q)
           /\ DOMAIN Append(q, r) = 1..Len(q) + 1
           /\ \A i \in DOMAIN q : Append(q, r)[i] = q[i]
           /\ Append(q, r)[Len(q) + 1] = r
           /\ q # <<>> => Head(Append(q, r)) = Head(q)
           /\ q = <<>> => Head(Append(q, r)) = r
<1>1. /\ Append(q, r) \in Seq(Req) /\ Append(q, r) # <<>>
      /\ Len(Append(q, r)) = Len(q) + 1 /\ Len(q) \in Nat
      /\ \A i \in 1..Len(q) : Append(q, r)[i] = q[i]
      /\ Append(q, r)[Len(q) + 1] = r
  BY AppendProperties, LenProperties
<1>2. DOMAIN q = 1..Len(q) /\ DOMAIN Append(q, r) = 1..Len(q) + 1
  BY <1>1, LenProperties
<1>3. Head(Append(q, r)) = Append(q, r)[1]
  BY <1>1
<1>4. q # <<>> => Len(q) >= 1 /\ Head(q) = q[1]
  BY EmptySeq
<1>5. q = <<>> => Len(q) = 0
  OBVIOUS
<1> QED BY <1>1, <1>2, <1>3, <1>4, <1>5

LEMMA AppendQueued ==
    ASSUME SchedulerInv, NEW r \in Req, r \notin Active \cup Queued,
           queuedList' = Append(queuedList, r)
    PROVE  /\ Queued' = Queued \cup {r}
           /\ \A i, j \in DOMAIN queuedList' : queuedList'[i] = queuedList'[j] => i = j
<1>1. queuedList \in Seq(Req) /\ Len(queuedList) \in Nat
  BY DEF SchedulerInv, TypeOK
<1>2. \A i, j \in DOMAIN queuedList : queuedList[i] = queuedList[j] => i = j
  BY DEF SchedulerInv, OnePlace
<1>3. \A i \in DOMAIN queuedList : queuedList[i] # r
  BY DEF Queued
<1> QED BY <1>1, <1>2, <1>3, AppendFacts DEF Queued

LEMMA FreshRequest ==
    ASSUME SchedulerInv, NEW r \in Req, cmd[r] = "none"
    PROVE  r \notin Active \cup Queued /\ r # processingSet /\ GateShut(r)
  BY ConstantsAssumption
     DEF SchedulerInv, OnePlace, Accepted, HolderInv, GateShut, Active

LEMMA Received ==
    ASSUME SchedulerInv, NEW r \in Req, Receive(r)
    PROVE  SchedulerInv'
<1> USE DEF sessVars, histVars
<1>1. /\ cur = NoReq /\ NoReq \notin Req /\ r \notin delegatedList /\ r \notin Active
      /\ r \notin Queued /\ r # processingSet /\ GateShut(r)
      /\ queuedList \in Seq(Req) /\ delegatedList \in SUBSET Req
      /\ NoReq \notin delegatedList
      /\ pc = "idle" /\ (queuedList # <<>> => processingSet # NoReq)
      /\ processingSet \in Req \cup {NoReq}
  BY FreshRequest, ConstantsAssumption
     DEF Receive, SchedulerInv, TypeOK, ControlInv, QueueInv, Running, Active
<1>2. PICK c \in Commands :
        /\ cmd' = [cmd EXCEPT ![r] = c]
        /\ HandleRequest(r, c, queuedList, "idle")
  BY DEF Receive
<1>3. UNCHANGED <<asp, response, delegatedList, left, final, todo, closing, closed,
                  calls, failed>>
  BY DEF Receive
<1>4. /\ cmd' \in [Req -> Commands \cup {"none"}]
      /\ cmd'[r] = c /\ \A x \in Req : x # r => cmd'[x] = cmd[x]
      /\ c # "none"
  BY <1>2, ConstantsAssumption DEF SchedulerInv, TypeOK
<1>5. cmd[r] = "none" /\ response[r] = "none"
  BY DEF Receive, SchedulerInv, OnePlace
<1>6. \A x \in Req : Accepted(x)' <=> Accepted(x) \/ x = r
  BY <1>3, <1>4, <1>5 DEF Accepted
<1>7. \A x \in Req : cmd'[x] = "none" => response'[x] = "none"
  BY <1>3, <1>4, <1>5 DEF SchedulerInv, OnePlace
<1>8. CASE /\ queuedList' = Append(queuedList, r) /\ pc' = "idle"
           /\ UNCHANGED <<cur, from>>
           /\ IF processingSet = NoReq THEN c = "SET" /\ processingSet' = r
              ELSE processingSet' = processingSet
  <2>1. /\ Queued' = Queued \cup {r} /\ Active' = Active
        /\ \A i, j \in DOMAIN queuedList' : queuedList'[i] = queuedList'[j] => i = j
        /\ queuedList' # <<>> /\ queuedList' \in Seq(Req)
        /\ queuedList # <<>> => Head(queuedList') = Head(queuedList)
        /\ queuedList = <<>> => Head(queuedList') = r
    BY <1>1, <1>3, <1>8, AppendQueued, AppendFacts DEF Active
  <2>2. TypeOK'
    BY <1>1, <1>3, <1>4, <1>8, <2>1 DEF SchedulerInv, TypeOK
  <2>3. ControlInv'
    BY <1>1, <1>3, <1>8 DEF SchedulerInv, ControlInv, Running
  <2>4. OnePlace'
    BY <1>1, <1>3, <1>6, <1>7, <1>8, <2>1 DEF SchedulerInv, OnePlace
  <2>5. \A x \in Active' : cmd'[x] = "SET" => x = processingSet' /\ Active' = {x}
    <3>1. \A x \in Active : x \in Req /\ x # r /\ cmd'[x] = cmd[x]
      BY <1>1, <1>4 DEF Active
    <3> QED BY <1>1, <1>8, <2>1, <3>1 DEF SchedulerInv, HolderInv
  <2>6. HolderInv'
    <3>1. CASE processingSet = NoReq
      BY <1>1, <1>4, <1>8, <2>1, <2>5, <3>1 DEF HolderInv
    <3>2. CASE processingSet # NoReq
      <4>1. processingSet \in Req /\ cmd'[processingSet] = "SET" /\ processingSet' = processingSet
        BY <1>1, <1>4, <1>8, <3>2 DEF SchedulerInv, HolderInv
      <4> QED BY <1>1, <2>1, <2>5, <3>2, <4>1 DEF SchedulerInv, HolderInv
    <3> QED BY <3>1, <3>2
  <2>7. QueueInv'
    BY <1>1, <1>8 DEF SchedulerInv, QueueInv, Running
  <2> QED BY <2>2, <2>3, <2>4, <2>6, <2>7 DEF SchedulerInv
<1>9. CASE /\ queuedList' = queuedList /\ pc' = "pdu" /\ cur' = r /\ from' = "idle"
           /\ processingSet = NoReq
           /\ IF c = "SET" THEN processingSet' = r /\ delegatedList = {}
              ELSE processingSet' = processingSet
  <2>1. /\ Active = delegatedList /\ Active' = delegatedList \cup {r}
        /\ Queued' = Queued
        /\ queuedList = <<>>
    BY <1>1, <1>3, <1>9 DEF Active, Queued
  <2>2. TypeOK'
    BY <1>1, <1>3, <1>4, <1>9 DEF SchedulerInv, TypeOK, Running, Return
  <2>3. ControlInv'
    BY <1>1, <1>3, <1>9 DEF SchedulerInv, ControlInv, Running
  <2>4. OnePlace'
    BY <1>1, <1>3, <1>6, <1>7, <1>9, <2>1 DEF SchedulerInv, OnePlace
  <2>5. HolderInv'
    <3>1. \A x \in delegatedList : x \in Req /\ x # r /\ cmd'[x] = cmd[x] /\ cmd[x] # "SET"
      BY <1>1, <1>4, <1>9, <2>1 DEF SchedulerInv, HolderInv
    <3> QED BY <1>1, <1>4, <1>9, <2>1, <3>1 DEF HolderInv
  <2>6. QueueInv'
    BY <1>1, <1>9, <2>1 DEF QueueInv, Running
  <2> QED BY <2>2, <2>3, <2>4, <2>5, <2>6 DEF SchedulerInv
<1> QED BY <1>1, <1>2, <1>8, <1>9 DEF HandleRequest, StartPdu

-----------------------------------------------------------------------------
(* The queue is served.                                                    *)
LEMMA HeadFacts ==
    ASSUME SchedulerInv, queuedList # <<>>
    PROVE  /\ Head(queuedList) \in Req /\ Tail(queuedList) \in Seq(Req)
           /\ Head(queuedList) \in Queued /\ Head(queuedList) \notin Active
           /\ {Tail(queuedList)[i] : i \in DOMAIN Tail(queuedList)}
                  = Queued \ {Head(queuedList)}
           /\ \A i, j \in DOMAIN Tail(queuedList) :
                  Tail(queuedList)[i] = Tail(queuedList)[j] => i = j
<1> DEFINE q == queuedList
           t == Tail(queuedList)
<1>1. q \in Seq(Req) /\ q # <<>>
  BY DEF SchedulerInv, TypeOK
<1>2. /\ Head(q) \in Req /\ t \in Seq(Req) /\ Len(t) = Len(q) - 1
      /\ \A i \in 1..Len(t) : t[i] = q[i + 1]
      /\ Len(q) \in Nat /\ Len(q) >= 1 /\ Head(q) = q[1]
      /\ DOMAIN q = 1..Len(q) /\ DOMAIN t = 1..Len(t)
  BY <1>1, HeadTailProperties, LenProperties, EmptySeq
<1>3. \A i, j \in 1..Len(q) : q[i] = q[j] => i = j
  BY <1>2 DEF SchedulerInv, OnePlace
<1> HIDE DEF q, t
<1>4. \A i \in 2..Len(q) : i - 1 \in 1..Len(t) /\ q[i] = t[i - 1] /\ q[i] # q[1]
  <2> TAKE i \in 2..Len(q)
  <2>1. i - 1 \in 1..Len(t) /\ (i - 1) + 1 = i /\ 1 \in 1..Len(q) /\ i \in 1..Len(q) /\ i # 1
    BY <1>2
  <2>2. t[i - 1] = q[i] /\ q[i] # q[1]
    BY <2>1, <1>2, <1>3
  <2> QED BY <2>1, <2>2
<1>5. \A i \in 1..Len(t) : i + 1 \in 2..Len(q) /\ t[i] = q[i + 1] /\ i + 1 \in 1..Len(q)
  BY <1>2
<1>6. {t[i] : i \in 1..Len(t)} = {q[i] : i \in 1..Len(q)} \ {q[1]}
  <2>1. ASSUME NEW i \in 1..Len(q), q[i] # q[1]
        PROVE  \E j \in 1..Len(t) : t[j] = q[i]
    <3>1. i \in 2..Len(q)
      BY <2>1, <1>2
    <3> QED BY <3>1, <1>4
  <2>2. ASSUME NEW j \in 1..Len(t)
        PROVE  \E i \in 1..Len(q) : q[i] = t[j] /\ t[j] # q[1]
    <3>1. j + 1 \in 2..Len(q) /\ j + 1 \in 1..Len(q) /\ t[j] = q[j + 1]
      BY <1>5
    <3>2. q[j + 1] # q[1]
      BY <3>1, <1>4
    <3> QED BY <3>1, <3>2
  <2>3. {t[i] : i \in 1..Len(t)} \subseteq {q[i] : i \in 1..Len(q)} \ {q[1]}
    BY <2>2
  <2>4. {q[i] : i \in 1..Len(q)} \ {q[1]} \subseteq {t[i] : i \in 1..Len(t)}
    BY <2>1
  <2> QED BY <2>3, <2>4
<1>7. \A i, j \in 1..Len(t) : t[i] = t[j] => i = j
  BY <1>2, <1>3, <1>5
<1>8. Active \cap Queued = {} /\ q[1] \in {q[i] : i \in 1..Len(q)}
  BY <1>2 DEF SchedulerInv, OnePlace
<1> QED BY <1>2, <1>6, <1>7, <1>8 DEF q, t, Queued

LEMMA Popped ==
    ASSUME SchedulerInv, PopQueued
    PROVE  SchedulerInv'
<1> USE DEF sessVars, histVars, reqVars
<1> DEFINE h == Head(queuedList)
<1>1. /\ cur = NoReq /\ NoReq \notin Req /\ delegatedList \in SUBSET Req
      /\ NoReq \notin delegatedList /\ Active = delegatedList
      /\ pc = "drain" /\ queuedList # <<>> /\ (cmd[h] = "SET" => delegatedList = {})
      /\ processingSet = NoReq \/ delegatedList = {}
      /\ processingSet \in Req \cup {NoReq}
  BY ConstantsAssumption
     DEF PopQueued, HeadWaits, SchedulerInv, TypeOK, ControlInv, QueueInv, Running, Active
<1>2. /\ h \in Req /\ Tail(queuedList) \in Seq(Req) /\ h \in Queued
      /\ h \notin delegatedList
  BY <1>1, HeadFacts
<1>3. processingSet \in {NoReq, h}
  BY <1>1 DEF SchedulerInv, HolderInv
<1>4. UNCHANGED <<cmd, asp, response, delegatedList, left, final, todo, closing,
                  closed, calls, failed>>
  BY DEF PopQueued
<1>5. /\ queuedList' = Tail(queuedList) /\ pc' = "pdu" /\ cur' = h /\ from' = "popped"
      /\ processingSet' = IF cmd[h] = "SET" THEN h ELSE processingSet
  <2>1. HandleRequest(h, cmd[h], Tail(queuedList), "popped")
    BY DEF PopQueued
  <2>2. processingSet = h => cmd[h] = "SET"
    BY <1>1, <1>2 DEF SchedulerInv, HolderInv
  <2> HIDE DEF h
  <2> QED BY <1>1, <1>2, <1>3, <2>1, <2>2 DEF HandleRequest, GateShut, StartPdu
<1>6. processingSet = NoReq \/ cmd[h] = "SET"
  BY <1>1, <1>3 DEF SchedulerInv, HolderInv
<1>7. Active' = Active \cup {h} /\ Queued' = Queued \ {h}
  BY <1>1, <1>2, <1>4, <1>5, HeadFacts DEF Active, Queued
<1>8. \A i, j \in DOMAIN queuedList' : queuedList'[i] = queuedList'[j] => i = j
  BY <1>1, <1>5, HeadFacts
<1> HIDE DEF h
<1>9. TypeOK'
  BY <1>1, <1>2, <1>4, <1>5 DEF SchedulerInv, TypeOK, Running, Return
<1>10. ControlInv'
  BY <1>1, <1>2, <1>4, <1>5 DEF SchedulerInv, ControlInv, Running
<1>11. OnePlace'
  <2>1. \A r : Accepted(r)' <=> Accepted(r)
    BY <1>4 DEF Accepted
  <2>2. /\ \A r \in Req : cmd[r] = "none" => response[r] = "none"
        /\ \A r \in Req : Accepted(r) <=> r \in Active \cup Queued
        /\ Active \cap Queued = {}
    BY DEF SchedulerInv, OnePlace
  <2> QED BY <1>1, <1>2, <1>4, <1>5, <1>7, <1>8, <2>1, <2>2 DEF OnePlace
<1>12. HolderInv'
  BY <1>1, <1>2, <1>3, <1>4, <1>5, <1>6, <1>7 DEF SchedulerInv, HolderInv
<1>13. QueueInv'
  BY <1>5 DEF QueueInv, Running
<1> QED BY <1>9, <1>10, <1>11, <1>12, <1>13 DEF SchedulerInv

LEMMA GateClaimed ==
    ASSUME SchedulerInv, ClaimGate
    PROVE  SchedulerInv'
<1> USE DEF sessVars, histVars, reqVars
<1> DEFINE h == Head(queuedList)
<1>1. /\ cur = NoReq /\ pc = "drain" /\ queuedList # <<>> /\ cmd[h] = "SET"
      /\ processingSet = NoReq /\ processingSet' = h /\ pc' = Caller
      /\ UNCHANGED <<cmd, asp, response, delegatedList, queuedList, cur, from, left,
                     final, todo, closing, closed, calls, failed>>
  BY DEF ClaimGate, HeadWaits, SchedulerInv, ControlInv, QueueInv, Running
<1>2. h \in Req /\ NoReq \notin Req
  BY <1>1, HeadFacts, ConstantsAssumption
<1>3. pc' \in {"idle", "closing"} /\ (pc' = "closing" => closing \in Session)
  BY <1>1 DEF Caller, SchedulerInv, TypeOK
<1> HIDE DEF h
<1>4. TypeOK'
  BY <1>1, <1>2, <1>3 DEF SchedulerInv, TypeOK, Return
<1>5. ControlInv'
  BY <1>1, <1>3 DEF SchedulerInv, ControlInv, Running
<1>6. OnePlace'
  BY <1>1 DEF SchedulerInv, OnePlace, Accepted, Active, Queued
<1>7. HolderInv'
  <2>1. Active' = Active
    BY <1>1 DEF Active
  <2>2. \A r \in Active : r \in Req /\ cmd[r] # "SET"
    <3>1. Active \subseteq Req
      BY <1>1 DEF Active, SchedulerInv, TypeOK
    <3> QED BY <1>1, <1>2, <3>1 DEF SchedulerInv, HolderInv
  <2> QED BY <1>1, <1>2, <2>1, <2>2 DEF HolderInv, h
<1>8. QueueInv'
  BY <1>1, <1>2, <1>3 DEF QueueInv, Running
<1> QED BY <1>4, <1>5, <1>6, <1>7, <1>8 DEF SchedulerInv

-----------------------------------------------------------------------------
(* The other steps move no request from one place to another.              *)
LEMMA SamePlaces ==
    ASSUME SchedulerInv, UNCHANGED <<cmd, response, listVars, cur>>
    PROVE  OnePlace' /\ HolderInv'
<1> USE DEF listVars
<1>1. OnePlace'
  BY DEF SchedulerInv, OnePlace, Accepted, Active, Queued
<1>2. HolderInv'
  BY DEF SchedulerInv, HolderInv, Active
<1> QED BY <1>1, <1>2

LEMMA Dropped ==
    ASSUME SchedulerInv, NEW r \in Req, Drop(r)
    PROVE  SchedulerInv'
<1> USE DEF listVars, ctlVars, sessVars, histVars
<1>1. /\ cmd[r] = "none" /\ response[r] = "none" /\ r \notin Active \cup Queued
      /\ r # processingSet
  BY FreshRequest DEF Drop, SchedulerInv, OnePlace
<1>2. PICK c \in Commands : cmd' = [cmd EXCEPT ![r] = c]
  BY DEF Drop
<1>3. c # "none"
  BY ConstantsAssumption
<1>4. /\ cmd'[r] = c /\ response'[r] = "dropped"
      /\ \A x \in Req : x # r => cmd'[x] = cmd[x] /\ response'[x] = response[x]
      /\ UNCHANGED <<asp, processingSet, delegatedList, queuedList, pc, cur, from,
                     left, final, todo, closing, closed, calls, failed>>
  BY <1>2 DEF Drop, SchedulerInv, TypeOK
<1>5. TypeOK'
  BY <1>2 DEF Drop, SchedulerInv, TypeOK
<1>6. ControlInv' /\ QueueInv'
  BY <1>4 DEF SchedulerInv, ControlInv, QueueInv
<1>7. Active' = Active /\ Queued' = Queued
  BY <1>4 DEF Active, Queued
<1>8. OnePlace'
  <2>1. \A x \in Req : Accepted(x)' <=> Accepted(x)
    BY <1>1, <1>4 DEF Accepted
  <2> QED BY <1>1, <1>3, <1>4, <1>7, <2>1 DEF SchedulerInv, OnePlace
<1>9. HolderInv'
  <2>1. \A x \in Active : x # NoReq => x \in Req
    BY DEF Active, SchedulerInv, TypeOK
  <2>2. NoReq \notin Active
    BY ConstantsAssumption DEF Active, SchedulerInv, TypeOK
  <2>3. processingSet \in Req \cup {NoReq}
    BY DEF SchedulerInv, TypeOK
  <2> QED BY <1>1, <1>4, <1>7, <2>1, <2>2, <2>3 DEF SchedulerInv, HolderInv
<1> QED BY <1>5, <1>6, <1>8, <1>9 DEF SchedulerInv

LEMMA Resumed ==
    ASSUME SchedulerInv, NEW r \in Req, ResumeDelegated(r)
    PROVE  SchedulerInv'
<1> USE DEF sessVars, histVars
<1>1. /\ pc = "scan" /\ cur = NoReq /\ r \in delegatedList /\ NoReq \notin Req
      /\ todo \subseteq delegatedList /\ todo \in SUBSET Req
  BY ConstantsAssumption
     DEF ResumeDelegated, SchedulerInv, TypeOK, ControlInv, Running
<1>2. /\ todo' = todo \ {r} /\ delegatedList' = delegatedList \ {r} /\ cur' = r
      /\ from' = "scan" /\ pc' \in {"set", "next", "done"}
      /\ asp' = [asp EXCEPT ![r] = Collected(asp[r])]
      /\ UNCHANGED <<cmd, response, processingSet, queuedList, left, final,
                     closing, closed, calls, failed>>
  BY DEF ResumeDelegated
<1>3. asp' \in [Req -> Asp]
  BY <1>2, CollectedType DEF SchedulerInv, TypeOK
<1>4. TypeOK'
  BY <1>1, <1>2, <1>3 DEF SchedulerInv, TypeOK, Running, Return
<1>5. ControlInv'
  BY <1>1, <1>2 DEF ControlInv, Running
<1>6. NoReq \notin delegatedList
  BY <1>1 DEF SchedulerInv, TypeOK
<1>7. Active' = Active
  BY <1>1, <1>2, <1>6 DEF Active
<1>8. OnePlace'
  BY <1>2, <1>7 DEF SchedulerInv, OnePlace, Accepted, Queued
<1>9. HolderInv'
  BY <1>2, <1>7 DEF SchedulerInv, HolderInv
<1>10. QueueInv'
  BY <1>2 DEF QueueInv
<1> QED BY <1>4, <1>5, <1>8, <1>9, <1>10 DEF SchedulerInv

LEMMA Scanned ==
    ASSUME SchedulerInv,
           \/ CheckOutstanding \/ EndScan \/ EndDrain
           \/ \E r \in Req : SkipDelegated(r)
    PROVE  SchedulerInv'
<1> USE DEF reqVars, listVars, sessVars, histVars
<1>1. Caller \in {"idle", "closing"} /\ (Caller = "closing" => closing \in Session)
  BY DEF Caller, SchedulerInv, TypeOK
<1>2. /\ UNCHANGED <<cmd, asp, response, processingSet, delegatedList, queuedList, cur,
                     from, left, final, closing, closed, calls, failed>>
      /\ pc \in {"idle", "scan", "drain", "popped"}
      /\ pc' \in {"scan", "drain", Caller}
      /\ todo' \in SUBSET Req
      /\ pc' = "scan" => todo' \subseteq delegatedList
  BY <1>1 DEF CheckOutstanding, EndScan, EndDrain, AfterPop, SkipDelegated, SchedulerInv, TypeOK,
         ControlInv
<1>3. TypeOK'
  BY <1>1, <1>2 DEF SchedulerInv, TypeOK, Return
<1>4. ControlInv'
  BY <1>1, <1>2 DEF SchedulerInv, ControlInv, Running
<1>5. QueueInv'
  <2>1. /\ pc' = Caller => queuedList = <<>> \/ processingSet # NoReq
        /\ pc' = "drain" => processingSet = NoReq \/ delegatedList = {}
    BY <1>1 DEF CheckOutstanding, EndScan, EndDrain, AfterPop, SkipDelegated, KeepWaiting
  <2> QED BY <1>1, <1>2, <2>1 DEF QueueInv, Running
<1> QED BY <1>2, <1>3, <1>4, <1>5, SamePlaces DEF SchedulerInv

LEMMA ReleaseType ==
    ASSUME SchedulerInv, NEW r \in Req, NEW V
    PROVE  Release(r, V) \in [Req -> Asp]
<1>1. asp \in [Req -> Asp] /\ asp[r] \in Asp
  BY DEF SchedulerInv, TypeOK
<1>2. [asp[r] EXCEPT !.delegated = asp[r].delegated \ V] \in Asp
  BY <1>1 DEF Asp
<1>3. Release(r, V) = [asp EXCEPT ![r] = [asp[r] EXCEPT !.delegated = asp[r].delegated \ V]]
  BY <1>1 DEF Release
<1> QED BY <1>1, <1>2, <1>3

LEMMA FailType ==
    ASSUME SchedulerInv, NEW r \in Req, NEW V, NEW v, NEW e \in ErrStat
    PROVE  Fail(r, V, v, e) \in [Req -> Asp]
<1> DEFINE d == asp[r].delegated \ V
           x == [asp[r].err EXCEPT ![v] = e]
<1>1. asp \in [Req -> Asp] /\ asp[r] \in Asp
  BY DEF SchedulerInv, TypeOK
<1>2. d \in SUBSET Varbind /\ x \in [Varbind -> ErrStat]
  BY <1>1 DEF Asp
<1>3. Fail(r, V, v, e) = [asp EXCEPT ![r] = [asp[r] EXCEPT !.delegated = d, !.err = x]]
  BY <1>1 DEF Fail, Asp
<1> HIDE DEF d, x
<1>4. [asp[r] EXCEPT !.delegated = d, !.err = x] \in Asp
  BY <1>1, <1>2 DEF Asp
<1> QED BY <1>1, <1>3, <1>4

LEMMA Answered ==
    ASSUME SchedulerInv, NEW r \in Req, NEW s \in Session,
           AnswerOk(r, s) \/ AnswerError(r, s) \/ AnswerShort(r, s)
    PROVE  SchedulerInv'
<1> USE DEF listVars, ctlVars, sessVars, histVars
<1>1. /\ asp \in [Req -> Asp] /\ failed \in [Req -> SUBSET (Mode \X {"handler", "answer"})]
      /\ asp[r] \in Asp
  BY DEF SchedulerInv, TypeOK
<1>2. /\ UNCHANGED <<cmd, response, processingSet, delegatedList, queuedList, pc, cur,
                     from, left, final, todo, closing, closed, calls>>
      /\ failed' \in {failed, AnswerFailed(r)}
      /\ \/ asp' = Release(r, Waiting(r, s))
         \/ \E V \in SUBSET Varbind, v \in Varbind, e \in ErrStat : asp' = Fail(r, V, v, e)
  <2>1. Waiting(r, s) \in SUBSET Varbind
    BY <1>1 DEF Waiting, Asp
  <2>2. CASE AnswerOk(r, s)
    BY <2>2 DEF AnswerOk
  <2>3. CASE AnswerError(r, s)
    <3>1. AnswerErr(asp[r].mode) \subseteq ErrStat
      BY DEF AnswerErr, HandlerErr, ErrStat
    <3>2. PICK v \in Waiting(r, s), e \in AnswerErr(asp[r].mode) :
            asp' = Fail(r, Waiting(r, s), v, e)
      BY <2>3 DEF AnswerError
    <3> QED BY <2>1, <2>3, <3>1, <3>2 DEF AnswerError
  <2>4. CASE AnswerShort(r, s)
    <3>1. PICK v \in Waiting(r, s) :
            asp' = Fail(r, {w \in Waiting(r, s) : w < v}, MinOf(Waiting(r, s)), "genErr")
      BY <2>4 DEF AnswerShort
    <3>2. MinOf(Waiting(r, s)) \in Varbind /\ "genErr" \in ErrStat
          /\ {w \in Waiting(r, s) : w < v} \in SUBSET Varbind
      BY <2>1, MinOfIn DEF ErrStat
    <3> QED BY <2>4, <3>1, <3>2 DEF AnswerShort
  <2> QED BY <2>2, <2>3, <2>4
<1>3. asp' \in [Req -> Asp]
  BY <1>2, ReleaseType, FailType
<1>4. failed' \in [Req -> SUBSET (Mode \X {"handler", "answer"})]
  <2>1. asp[r].mode \in Mode
    BY <1>1 DEF Asp
  <2> QED BY <1>1, <1>2, <2>1 DEF AnswerFailed
<1>5. TypeOK'
  BY <1>2, <1>3, <1>4 DEF SchedulerInv, TypeOK
<1>6. ControlInv' /\ QueueInv'
  BY <1>2 DEF SchedulerInv, ControlInv, QueueInv
<1> QED BY <1>2, <1>5, <1>6, SamePlaces DEF SchedulerInv

LEMMA ClosedWith ==
    ASSUME SchedulerInv, pc = "idle", NEW s \in Session,
           NEW b \in [Req -> Asp],
           NEW f \in [Req -> SUBSET (Mode \X {"handler", "answer"})],
           CloseWith(b, f, s)
    PROVE  SchedulerInv'
<1> USE DEF listVars
<1>1. PICK match \in BOOLEAN :
        LET gone(r) == IF match THEN Abandoned(b[r], r, s) ELSE {}
        IN /\ asp' = [r \in Req |->
                [b[r] EXCEPT !.delegated = @ \ gone(r),
                             !.err = [v \in Varbind |->
                                        IF v \in gone(r) THEN "genErr" ELSE @[v]]]]
           /\ failed' = [r \in Req |-> IF gone(r) = {} THEN f[r]
                                       ELSE f[r] \cup {<<asp[r].mode, "answer">>}]
  BY DEF CloseWith
<1>2. /\ closing' = s
      /\ \/ pc' = "scan" /\ todo' = delegatedList
         \/ pc' = "closing" /\ todo' = todo
      /\ UNCHANGED <<cmd, response, processingSet, delegatedList, queuedList, cur, from,
                     left, final, closed, calls>>
  BY DEF CloseWith
<1>3. asp' \in [Req -> Asp]
  <2> DEFINE gone(r) == IF match THEN Abandoned(b[r], r, s) ELSE {}
  <2>1. ASSUME NEW r \in Req PROVE asp'[r] \in Asp
    <3> DEFINE d == b[r].delegated \ gone(r)
               e == [v \in Varbind |-> IF v \in gone(r) THEN "genErr" ELSE b[r].err[v]]
    <3>1. asp'[r] = [b[r] EXCEPT !.delegated = d, !.err = e]
      BY <1>1, <2>1 DEF Asp
    <3>2. d \in SUBSET Varbind /\ e \in [Varbind -> ErrStat]
      BY DEF Asp, ErrStat
    <3> HIDE DEF d, e
    <3> QED BY <3>1, <3>2 DEF Asp
  <2>2. asp' = [r \in Req |-> asp'[r]]
    BY <1>1
  <2> QED BY <2>1, <2>2
<1>4. failed' \in [Req -> SUBSET (Mode \X {"handler", "answer"})]
  <2>1. ASSUME NEW r \in Req
        PROVE  failed'[r] \in SUBSET (Mode \X {"handler", "answer"})
    <3>1. failed'[r] \in {f[r], f[r] \cup {<<asp[r].mode, "answer">>}}
      BY <1>1
    <3>2. <<asp[r].mode, "answer">> \in Mode \X {"handler", "answer"}
      BY DEF SchedulerInv, TypeOK, Asp
    <3>3. f[r] \in SUBSET (Mode \X {"handler", "answer"})
      OBVIOUS
    <3> QED BY <3>1, <3>2, <3>3
  <2>2. failed' = [r \in Req |-> failed'[r]]
    BY <1>1
  <2> QED BY <2>1, <2>2
<1>5. TypeOK'
  BY <1>2, <1>3, <1>4 DEF SchedulerInv, TypeOK, Running, Return
<1>6. ControlInv' /\ QueueInv'
  BY <1>2 DEF SchedulerInv, ControlInv, QueueInv, Running
<1> QED BY <1>2, <1>5, <1>6, SamePlaces DEF SchedulerInv

LEMMA Closed ==
    ASSUME SchedulerInv,
           \/ \E s \in Session : CloseSession(s) \/ CloseSubsession(s)
           \/ \E r \in Req, s \in Session : TimeOut(r, s)
           \/ Unregister
    PROVE  SchedulerInv'
<1> USE DEF reqVars, listVars, ctlVars, sessVars, histVars
<1>1. ASSUME NEW s \in Session, CloseSession(s) PROVE SchedulerInv'
  BY <1>1, ClosedWith DEF CloseSession, SchedulerInv, TypeOK
<1>2. ASSUME NEW r \in Req, NEW s \in Session, TimeOut(r, s) PROVE SchedulerInv'
  <2>1. pc = "idle" /\ asp[r].mode \in Mode
    BY <1>2 DEF TimeOut, Awaits, SchedulerInv, TypeOK, Asp
  <2>2. AnswerFailed(r) \in [Req -> SUBSET (Mode \X {"handler", "answer"})]
    BY <2>1 DEF AnswerFailed, SchedulerInv, TypeOK
  <2>3. Fail(r, Waiting(r, s), MinOf(Waiting(r, s)), "genErr") \in [Req -> Asp]
    BY FailType DEF ErrStat
  <2> QED BY <1>2, <2>1, <2>2, <2>3, ClosedWith DEF TimeOut
<1>3. ASSUME \/ \E s \in Session : CloseSubsession(s)
             \/ Unregister
      PROVE  SchedulerInv'
  <2>1. /\ UNCHANGED <<cmd, asp, response, processingSet, delegatedList, queuedList, cur,
                       from, left, final, todo, calls, failed>>
        /\ \/ pc' = pc /\ pc = "idle"
           \/ pc = "closing" /\ pc' = "idle"
        /\ closing' \in {closing, NoSession}
        /\ closed' \in SUBSET Session
    BY <1>3 DEF CloseSubsession, Unregister, SchedulerInv, TypeOK, ControlInv
  <2>2. TypeOK'
    BY <2>1 DEF SchedulerInv, TypeOK, Return
  <2>3. ControlInv' /\ QueueInv'
    BY <2>1 DEF SchedulerInv, ControlInv, QueueInv, Running
  <2> QED BY <2>1, <2>2, <2>3, SamePlaces DEF SchedulerInv
<1> QED BY <1>1, <1>2, <1>3

-----------------------------------------------------------------------------
(* The steps of the agent inside the handling of one asp.                  *)
LEMMA AspUpdateType ==
    ASSUME SchedulerInv, pc \in Running, NEW a \in Asp
    PROVE  [asp EXCEPT ![cur] = a] \in [Req -> Asp]
  BY RunningType DEF SchedulerInv, TypeOK

LEMMA Begun ==
    ASSUME SchedulerInv, BeginSet \/ BeginGet
    PROVE  SchedulerInv'
<1> USE DEF sessVars, histVars
<1>1. pc = "pdu" /\ pc \in Running
  BY DEF BeginSet, BeginGet, Running
<1>2. cmd[cur] \in Commands \cup {"none"} /\ cmd[cur] # "none"
  BY <1>1, RunningType DEF SchedulerInv, TypeOK, OnePlace, Accepted, Active
<1>3. cmd[cur] \in Mode \/ cmd[cur] = "SET"
  BY <1>2, ConstantsAssumption DEF Mode
<1>4. "BEGIN" \in Mode /\ Registered \subseteq Layouts
  BY DEF Mode, SetMode, Registered
<1>5. asp' \in [Req -> Asp]
  BY <1>1, <1>3, <1>4, NewAspType, AspUpdateType DEF BeginSet, BeginGet
<1>6. /\ UNCHANGED <<cmd, response, listVars, cur, from, todo, sessVars>>
      /\ UNCHANGED histVars
      /\ pc' \in Running
      /\ left' \in SUBSET Varbind /\ final' \in ErrStat
  BY DEF BeginSet, BeginGet, Running, ErrStat, SchedulerInv, TypeOK
<1>7. TypeOK'
  BY <1>5, <1>6 DEF SchedulerInv, TypeOK, listVars
<1> QED BY <1>1, <1>6, <1>7, Rerun

LEMMA Passed ==
    ASSUME SchedulerInv, NextSetPass \/ NextGetPass
    PROVE  SchedulerInv'
<1> USE DEF sessVars, histVars
<1>1. pc \in Running /\ pc' \in Running
  BY DEF NextSetPass, NextGetPass, Running
<1>2. asp[cur] \in Asp /\ cur \in Req /\ asp \in [Req -> Asp]
  BY <1>1, RunningType DEF SchedulerInv, TypeOK
<1>3. CASE NextSetPass
  <2> DEFINE m == NextMode(asp[cur].mode, asp[cur].status)
             a == [asp[cur] EXCEPT !.mode = m]
  <2>1. m \in Mode
    BY <1>2, NextModeType DEF Asp
  <2>2. asp' = [asp EXCEPT ![cur] = a]
    BY <1>2, <1>3 DEF NextSetPass
  <2> HIDE DEF m
  <2>3. a \in Asp
    BY <1>2, <2>1 DEF Asp
  <2> HIDE DEF a
  <2>4. asp' \in [Req -> Asp]
    BY <1>2, <2>2, <2>3
  <2>5. TypeOK'
    BY <1>1, <1>3, <2>4 DEF NextSetPass, SchedulerInv, TypeOK, listVars, ErrStat
  <2> QED BY <1>1, <1>3, <2>5, Rerun DEF NextSetPass
<1>4. CASE NextGetPass
  <2>1. PICK S \in SUBSET Varbind, l \in Layouts :
          asp' = [asp EXCEPT ![cur] = Reassigned(asp[cur], S, l)] /\ left' = S
    BY <1>2, <1>4 DEF NextGetPass, Registered
  <2>2. asp' \in [Req -> Asp]
    BY <1>1, <1>2, <1>4, <2>1, ReassignedType, AspUpdateType DEF NextGetPass
  <2>3. TypeOK'
    BY <1>1, <1>4, <2>1, <2>2 DEF NextGetPass, SchedulerInv, TypeOK, listVars, ErrStat
  <2> QED BY <1>1, <1>4, <2>3, Rerun DEF NextGetPass
<1> QED BY <1>3, <1>4

LEMMA SlotCalled ==
    ASSUME SchedulerInv, CallSlot
    PROVE  SchedulerInv'
<1> USE DEF sessVars
<1> DEFINE a == asp[cur]
           v == MinOf(left)
           s == a.owner[v]
           C == Chain(a.owner, left, v)
<1>1. pc \in Running /\ pc' \in Running /\ left # {}
  BY DEF CallSlot, Running
<1>2. a \in Asp /\ cur \in Req /\ asp \in [Req -> Asp] /\ left \in SUBSET Varbind
  BY <1>1, RunningType DEF SchedulerInv, TypeOK
<1>3. v \in Varbind
  BY <1>1, <1>2, MinOfIn
<1>4. s \in Slot /\ C \in SUBSET Varbind /\ a.mode \in Mode
  BY <1>2, <1>3 DEF Asp, Chain
<1> HIDE DEF v, C
<1>5. PICK h \in SlotResults(a, s, C) :
        LET x  == [a EXCEPT !.err = h.err, !.delegated = h.delegated]
            b  == CheckRequestsStatus(x, C, LookFor(a.mode))
            st == IF b.status # "noError" THEN b.status ELSE h.ret
        IN /\ asp' = [asp EXCEPT ![cur] = b]
           /\ left' = left \ C
           /\ final' = IF final = "noError" THEN st ELSE final
           /\ calls' = [calls EXCEPT ![cur] =
                          IF s \in closed THEN @ ELSE @ \cup {<<s, a.mode>>}]
           /\ failed' = [failed EXCEPT ![cur] =
                          IF h.hit THEN @ \cup {<<a.mode, "handler">>} ELSE @]
  BY DEF CallSlot, v, C
<1> DEFINE x  == [a EXCEPT !.err = h.err, !.delegated = h.delegated]
           b  == CheckRequestsStatus(x, C, LookFor(a.mode))
<1>6. /\ h.err \in [Varbind -> ErrStat] /\ h.delegated \in SUBSET Varbind
      /\ h.ret \in ErrStat
  BY <1>2, <1>4, SlotResultsType
<1>7. x \in Asp
  BY <1>2, <1>6 DEF Asp
<1>8. b \in Asp /\ b.status \in ErrStat
  <2> HIDE DEF x
  <2>1. b \in Asp
    BY <1>4, <1>7, CheckRequestsStatusType
  <2> HIDE DEF b
  <2> QED BY <2>1 DEF Asp
<1>9. /\ asp' = [asp EXCEPT ![cur] = b] /\ left' = left \ C
      /\ final' \in {final, b.status, h.ret}
  BY <1>5
<1> HIDE DEF b, x
<1>10. asp' \in [Req -> Asp] /\ left' \in SUBSET Varbind /\ final' \in ErrStat
  BY <1>2, <1>6, <1>8, <1>9 DEF SchedulerInv, TypeOK
<1>11. calls' \in [Req -> SUBSET (Slot \X Mode)]
  <2>1. calls' \in {calls, [calls EXCEPT ![cur] = @ \cup {<<s, a.mode>>}]}
    BY <1>2, <1>5 DEF SchedulerInv, TypeOK
  <2>2. <<s, a.mode>> \in Slot \X Mode
    BY <1>4
  <2> HIDE DEF s, a
  <2> QED BY <1>2, <2>1, <2>2 DEF SchedulerInv, TypeOK
<1>12. failed' \in [Req -> SUBSET (Mode \X {"handler", "answer"})]
  <2>1. failed' \in {failed, [failed EXCEPT ![cur] = @ \cup {<<a.mode, "handler">>}]}
    BY <1>2, <1>5 DEF SchedulerInv, TypeOK
  <2>2. <<a.mode, "handler">> \in Mode \X {"handler", "answer"}
    BY <1>4
  <2> HIDE DEF a
  <2> QED BY <1>2, <2>1, <2>2 DEF SchedulerInv, TypeOK
<1>13. UNCHANGED <<cmd, response, listVars, pc, cur, from, todo, sessVars>>
  BY DEF CallSlot
<1>14. TypeOK'
  BY <1>10, <1>11, <1>12, <1>13 DEF SchedulerInv, TypeOK, listVars
<1> QED BY <1>1, <1>13, <1>14, Rerun

LEMMA PassEnded ==
    ASSUME SchedulerInv, EndSetPass \/ EndGetPass
    PROVE  SchedulerInv'
<1> USE DEF sessVars
<1>1. pc \in Running
  BY DEF EndSetPass, EndGetPass, Running
<1>2. /\ SetStatus(asp[cur]) \in ErrStat /\ ParkedSetStatus(asp[cur]) \in ErrStat
      /\ GetStatus(asp[cur]) \in ErrStat /\ asp[cur].status \in ErrStat
      /\ final \in ErrStat /\ asp \in [Req -> Asp]
  BY <1>1, SetStatusType DEF SchedulerInv, TypeOK
<1>3. UNCHANGED <<cmd, queuedList, from, left, final, todo, sessVars>>
  BY DEF EndSetPass, EndGetPass
<1>4. \/ /\ Park(cur)
         /\ \E st \in ErrStat : asp' = [asp EXCEPT ![cur].status = st]
      \/ /\ pc' \in Running
         /\ UNCHANGED <<processingSet, delegatedList, response, cur, histVars>>
         /\ asp' = asp \/ \E st \in ErrStat : asp' = [asp EXCEPT ![cur].status = st]
      \/ \E st \in ErrStat : WrapUp(cur, st)
  BY <1>2 DEF EndSetPass, EndGetPass, Running
<1>5. CASE /\ Park(cur)
           /\ \E st \in ErrStat : asp' = [asp EXCEPT ![cur].status = st]
  <2>1. asp' \in [Req -> Asp]
    BY <1>1, <1>5, StatusType
  <2> QED BY <1>1, <1>3, <1>5, <2>1, ParkType, Parked
<1>6. CASE /\ pc' \in Running
           /\ UNCHANGED <<processingSet, delegatedList, response, cur, histVars>>
           /\ asp' = asp \/ \E st \in ErrStat : asp' = [asp EXCEPT ![cur].status = st]
  <2>1. asp' \in [Req -> Asp]
    BY <1>1, <1>2, <1>6, StatusType
  <2>2. TypeOK'
    BY <1>3, <1>6, <2>1 DEF SchedulerInv, TypeOK, histVars
  <2>3. UNCHANGED listVars
    BY <1>3, <1>6 DEF listVars
  <2> QED BY <1>1, <1>3, <1>6, <2>2, <2>3, Rerun
<1>7. CASE \E st \in ErrStat : WrapUp(cur, st)
  BY <1>1, <1>3, <1>7, WrapUpType, WrappedUp
<1> QED BY <1>4, <1>5, <1>6, <1>7

LEMMA RequestEnded ==
    ASSUME SchedulerInv, RefuseSet \/ FinishSet \/ FinishGetnext \/ FinishGet
    PROVE  SchedulerInv'
<1> USE DEF sessVars
<1>1. pc \in Running
  BY DEF RefuseSet, FinishSet, FinishGetnext, FinishGet, Running
<1>2. asp[cur].status \in ErrStat /\ "noAccess" \in ErrStat
  BY <1>1, SetStatusType DEF ErrStat
<1>3. UNCHANGED <<cmd, queuedList, from, left, final, todo, sessVars>>
  BY DEF RefuseSet, FinishSet, FinishGetnext, FinishGet
<1>4. PICK st \in ErrStat : WrapUp(cur, st)
  BY <1>2 DEF RefuseSet, FinishSet, FinishGetnext, FinishGet
<1> QED BY <1>1, <1>3, <1>4, WrapUpType, WrappedUp

-----------------------------------------------------------------------------
LEMMA InitScheduler == Init => SchedulerInv
<1> SUFFICES ASSUME Init PROVE SchedulerInv
  OBVIOUS
<1> USE DEF Init
<1>1. TypeOK
  BY FreeAspType, EmptySeq DEF TypeOK, Return, ErrStat
<1>2. ControlInv /\ HolderInv /\ QueueInv
  BY DEF ControlInv, HolderInv, QueueInv, Running, Active
<1>3. Active = {} /\ DOMAIN queuedList = {} /\ Queued = {}
  BY DEF Active, Queued
<1>4. OnePlace
  BY <1>3 DEF OnePlace, Accepted
<1> QED BY <1>1, <1>2, <1>4 DEF SchedulerInv

LEMMA NextScheduler == SchedulerInv /\ [Next]_vars => SchedulerInv'
<1> SUFFICES ASSUME SchedulerInv, [Next]_vars PROVE SchedulerInv'
  OBVIOUS
<1>1. CASE \E r \in Req : Receive(r) \/ Drop(r)
  BY <1>1, Received, Dropped
<1>2. CASE \E r \in Req, s \in Session : Answer(r, s)
  BY <1>2, Answered, Closed DEF Answer
<1>3. CASE \E s \in Session : CloseSession(s) \/ CloseSubsession(s)
  BY <1>3, Closed
<1>4. CASE InnerStep
  BY <1>4, RequestEnded, Begun, Passed, PassEnded, Scanned, Resumed, GateClaimed, Popped
     DEF InnerStep
<1>5. CASE CallSlot \/ Unregister
  BY <1>5, SlotCalled, Closed
<1>6. CASE UNCHANGED vars
  <2>1. TypeOK' /\ ControlInv' /\ QueueInv'
    BY <1>6 DEF vars, reqVars, listVars, ctlVars, sessVars, histVars,
                SchedulerInv, TypeOK, ControlInv, QueueInv
  <2> QED BY <1>6, <2>1, SamePlaces DEF vars, reqVars, ctlVars, SchedulerInv
<1> QED BY <1>1, <1>2, <1>3, <1>4, <1>5, <1>6 DEF Next, AgentStep

(* The scheduler keeps its lists, its gate and its program counter         *)
(* together through every step (Agent_handleRequest,                       *)
(* Agent_checkOutstandingAgentRequests).                                   *)
THEOREM SchedulerInvariant == Spec => []SchedulerInv
<1>1. Init => SchedulerInv
  BY InitScheduler
<1>2. SchedulerInv /\ [Next]_vars => SchedulerInv'
  BY NextScheduler
<1> QED BY <1>1, <1>2, PTL DEF Spec

(* Every variable has its type.                                            *)
THEOREM TypeCorrect == Spec => []TypeOK
<1>1. SchedulerInv => TypeOK
  BY DEF SchedulerInv
<1> QED BY <1>1, SchedulerInvariant, PTL

(* An accepted request is in one place, an answered one in none.           *)
THEOREM OnePlaceCorrect == Spec => []OnePlace
<1>1. SchedulerInv => OnePlace
  BY DEF SchedulerInv
<1> QED BY <1>1, SchedulerInvariant, PTL

(* A SET executes alone (Agent_handleRequest).                             *)
THEOREM SetExclusionCorrect == Spec => []SetExclusion
<1>1. SchedulerInv => SetExclusion
  BY DEF SchedulerInv, HolderInv, SetExclusion
<1> QED BY <1>1, SchedulerInvariant, PTL

(* The assertions of the queue loop never fail.                            *)
THEOREM QueueAssertionsCorrect == Spec => []QueueAssertions
<1>1. SchedulerInv => QueueAssertions
  <2> SUFFICES ASSUME SchedulerInv, pc = "drain", queuedList # <<>>
               PROVE  /\ processingSet \in {NoReq, Head(queuedList)}
                      /\ HeadWaits => processingSet = NoReq
    BY DEF QueueAssertions
  <2>1. processingSet = NoReq \/ delegatedList = {}
    BY DEF SchedulerInv, QueueInv
  <2>2. cur = NoReq /\ Active = delegatedList
    BY DEF SchedulerInv, ControlInv, Running, Active
  <2> QED BY <2>1, <2>2 DEF SchedulerInv, HolderInv, HeadWaits
<1> QED BY <1>1, SchedulerInvariant, PTL

-----------------------------------------------------------------------------
(* The scheduler implements RequestGate: every step of it is a step of the *)
(* gate or leaves the gate as it is.                                       *)
LEMMA ActiveFacts ==
    ASSUME SchedulerInv
    PROVE  /\ Active \in SUBSET Req /\ NoReq \notin Req
           /\ processingSet = NoReq => \A x \in Active : cmd[x] # "SET"
  BY ConstantsAssumption DEF SchedulerInv, TypeOK, HolderInv, Active

LEMMA ReceiveIsArrive ==
    ASSUME SchedulerInv, NEW r \in Req, Receive(r)
    PROVE  \E c \in Commands : Gate!Arrive(r, c)
<1>1. /\ pc = "idle" /\ cur = NoReq /\ cmd[r] = "none" /\ GateShut(r)
      /\ UNCHANGED <<response, delegatedList>>
  BY FreshRequest DEF Receive, SchedulerInv, ControlInv, Running
<1>2. PICK c \in Commands :
        cmd' = [cmd EXCEPT ![r] = c] /\ HandleRequest(r, c, queuedList, "idle")
  BY DEF Receive
<1>3. Active = delegatedList
  BY <1>1, ActiveFacts DEF Active
<1>4. CASE /\ processingSet # NoReq \/ (c = "SET" /\ delegatedList # {})
           /\ queuedList' = Append(queuedList, r) /\ cur' = cur
  <2>1. Active' = Active
    BY <1>1, <1>4 DEF Active
  <2>2. ~(queuedList = <<>> /\ Gate!MayRun(c))
    <3>1. CASE processingSet # NoReq
      BY <3>1 DEF SchedulerInv, HolderInv, Gate!MayRun
    <3>2. CASE c = "SET" /\ delegatedList # {}
      BY <1>3, <3>2 DEF Gate!MayRun
    <3> QED BY <1>4, <3>1, <3>2
  <2> QED BY <1>1, <1>2, <1>4, <2>1, <2>2 DEF Gate!Arrive
<1>5. CASE /\ processingSet = NoReq /\ (c = "SET" => delegatedList = {})
           /\ queuedList' = queuedList /\ cur' = r
  <2>1. Active' = Active \cup {r}
    BY <1>1, <1>3, <1>5, ActiveFacts DEF Active
  <2>2. queuedList = <<>>
    BY <1>1, <1>5 DEF SchedulerInv, QueueInv
  <2>3. Gate!MayRun(c)
    BY <1>3, <1>5, ActiveFacts DEF Gate!MayRun
  <2> QED BY <1>1, <1>2, <1>5, <2>1, <2>2, <2>3 DEF Gate!Arrive
<1> QED BY <1>1, <1>2, <1>4, <1>5 DEF HandleRequest, StartPdu, GateShut

LEMMA PopIsAdmit ==
    ASSUME SchedulerInv, PopQueued
    PROVE  Gate!Admit
<1> DEFINE h == Head(queuedList)
<1>1. /\ pc = "drain" /\ cur = NoReq /\ queuedList # <<>>
      /\ cmd[h] = "SET" => delegatedList = {}
      /\ processingSet = NoReq \/ delegatedList = {}
      /\ UNCHANGED <<cmd, response, delegatedList>>
  BY DEF PopQueued, HeadWaits, SchedulerInv, ControlInv, QueueInv, Running, reqVars
<1>2. Active = delegatedList
  BY <1>1, ActiveFacts DEF Active
<1>3. h \in Req /\ h \notin delegatedList
  BY <1>1, <1>2, HeadFacts
<1>4. processingSet \in {NoReq, h}
  BY <1>1, <1>2 DEF SchedulerInv, HolderInv
<1>5. queuedList' = Tail(queuedList) /\ cur' = h
  <2>1. HandleRequest(h, cmd[h], Tail(queuedList), "popped")
    BY DEF PopQueued
  <2> HIDE DEF h
  <2> QED BY <1>1, <1>3, <1>4, <2>1 DEF HandleRequest, GateShut, StartPdu
<1>6. Active' = Active \cup {h}
  BY <1>1, <1>2, <1>3, <1>5, ActiveFacts DEF Active
<1>7. Gate!MayRun(cmd[h])
  BY <1>1, <1>2, ActiveFacts DEF Gate!MayRun
<1> QED BY <1>1, <1>5, <1>6, <1>7 DEF Gate!Admit

LEMMA WrapUpIsFinish ==
    ASSUME SchedulerInv, pc \in Running, NEW st \in ErrStat, WrapUp(cur, st),
           UNCHANGED <<cmd, queuedList>>
    PROVE  \E r \in Req : Gate!Finish(r)
<1>1. cur \in Req /\ cur \notin delegatedList /\ response \in [Req -> ErrStat \cup {"none", "dropped"}]
  BY RunningType DEF SchedulerInv, TypeOK
<1>2. /\ delegatedList' = delegatedList /\ cur' = NoReq
      /\ response' = [response EXCEPT ![cur] = st]
  BY <1>1 DEF WrapUp
<1>3. Active = delegatedList \cup {cur} /\ Active' = delegatedList
  BY <1>1, <1>2, ActiveFacts DEF Active
<1>4. {r \in Req : response'[r] # "none"} = {r \in Req : response[r] # "none"} \cup {cur}
  BY <1>1, <1>2 DEF ErrStat
<1>5. PICK r \in Req : r = cur
  BY <1>1
<1>6. /\ r \in Active /\ Active' = Active \ {r}
      /\ {x \in Req : response'[x] # "none"} = {x \in Req : response[x] # "none"} \cup {r}
  BY <1>1, <1>3, <1>4, <1>5
<1>7. Gate!Finish(r)
  BY <1>6 DEF Gate!Finish
<1> QED BY <1>7

LEMMA InnerIsStutter ==
    ASSUME SchedulerInv,
           \/ BeginSet \/ BeginGet \/ NextSetPass \/ NextGetPass \/ CallSlot
           \/ CheckOutstanding \/ EndScan \/ ClaimGate \/ EndDrain \/ Unregister
           \/ \E r \in Req : SkipDelegated(r)
           \/ \E s \in Session : CloseSession(s) \/ CloseSubsession(s)
           \/ \E r \in Req, s \in Session : Answer(r, s)
    PROVE  UNCHANGED Gate!gateVars
<1>1. UNCHANGED <<cmd, response, queuedList, delegatedList, cur>>
  <2> USE DEF reqVars, listVars, ctlVars
  <2>1. CASE BeginSet \/ BeginGet \/ NextSetPass \/ NextGetPass \/ CallSlot
    BY <2>1 DEF BeginSet, BeginGet, NextSetPass, NextGetPass, CallSlot
  <2>2. CASE \/ CheckOutstanding \/ EndScan \/ ClaimGate \/ EndDrain \/ Unregister
             \/ \E r \in Req : SkipDelegated(r)
    BY <2>2 DEF CheckOutstanding, EndScan, ClaimGate, EndDrain, Unregister, SkipDelegated
  <2>3. CASE \E s \in Session : CloseSession(s) \/ CloseSubsession(s)
    BY <2>3 DEF CloseSession, CloseSubsession, CloseWith
  <2>4. CASE \E r \in Req, s \in Session : Answer(r, s)
    <3>1. ASSUME NEW r \in Req, NEW s \in Session, TimeOut(r, s)
          PROVE  UNCHANGED <<cmd, response, queuedList, delegatedList, cur>>
      BY <3>1 DEF TimeOut, CloseWith
    <3>2. ASSUME NEW r \in Req, NEW s \in Session,
                 AnswerOk(r, s) \/ AnswerError(r, s) \/ AnswerShort(r, s)
          PROVE  UNCHANGED <<cmd, response, queuedList, delegatedList, cur>>
      BY <3>2 DEF AnswerOk, AnswerError, AnswerShort
    <3> QED BY <2>4, <3>1, <3>2 DEF Answer
  <2> QED BY <2>1, <2>2, <2>3, <2>4
<1> QED BY <1>1 DEF Gate!gateVars, Active

LEMMA ResumeIsStutter ==
    ASSUME SchedulerInv, NEW r \in Req, ResumeDelegated(r)
    PROVE  UNCHANGED Gate!gateVars
<1>1. /\ cur = NoReq /\ r \in delegatedList /\ cur' = r
      /\ delegatedList' = delegatedList \ {r}
      /\ UNCHANGED <<cmd, response, queuedList>>
  BY DEF ResumeDelegated, SchedulerInv, ControlInv, Running
<1>2. Active' = Active
  BY <1>1, ActiveFacts DEF Active
<1> QED BY <1>1, <1>2 DEF Gate!gateVars

LEMMA PassEndInGate ==
    ASSUME SchedulerInv, EndSetPass \/ EndGetPass
    PROVE  (\E r \in Req : Gate!Finish(r)) \/ UNCHANGED Gate!gateVars
<1>1. pc \in Running /\ UNCHANGED <<cmd, queuedList>>
  BY DEF EndSetPass, EndGetPass, Running
<1>2. \/ Park(cur)
      \/ UNCHANGED <<delegatedList, response, cur>>
      \/ \E st \in ErrStat : WrapUp(cur, st)
  BY <1>1, SetStatusType DEF EndSetPass, EndGetPass
<1>3. CASE Park(cur)
  <2>1. Active' = Active
    BY <1>3, ActiveFacts, RunningType, <1>1 DEF Park, Active
  <2> QED BY <1>1, <1>3, <2>1 DEF Gate!gateVars, Park
<1>4. CASE UNCHANGED <<delegatedList, response, cur>>
  BY <1>1, <1>4 DEF Gate!gateVars, Active
<1>5. CASE \E st \in ErrStat : WrapUp(cur, st)
  BY <1>1, <1>5, WrapUpIsFinish
<1> QED BY <1>2, <1>3, <1>4, <1>5

LEMMA EndIsFinish ==
    ASSUME SchedulerInv, RefuseSet \/ FinishSet \/ FinishGetnext \/ FinishGet
    PROVE  \E r \in Req : Gate!Finish(r)
<1>1. pc \in Running /\ UNCHANGED <<cmd, queuedList>>
  BY DEF RefuseSet, FinishSet, FinishGetnext, FinishGet, Running
<1>2. \E st \in ErrStat : WrapUp(cur, st)
  BY <1>1, SetStatusType DEF RefuseSet, FinishSet, FinishGetnext, FinishGet, ErrStat
<1> QED BY <1>1, <1>2, WrapUpIsFinish

LEMMA DropIsReject ==
    ASSUME SchedulerInv, NEW r \in Req, Drop(r)
    PROVE  \E c \in Commands : Gate!Reject(r, c)
<1>1. PICK c \in Commands : cmd' = [cmd EXCEPT ![r] = c]
  BY DEF Drop
<1>2. /\ cmd[r] = "none" /\ response' = [response EXCEPT ![r] = "dropped"]
      /\ UNCHANGED <<queuedList, delegatedList, cur>>
  BY DEF Drop, listVars, ctlVars
<1>3. {x \in Req : response'[x] # "none"} = {x \in Req : response[x] # "none"} \cup {r}
  BY <1>2 DEF SchedulerInv, TypeOK
<1> QED BY <1>1, <1>2, <1>3 DEF Gate!Reject, Active

LEMMA GateStep == SchedulerInv /\ [Next]_vars => [Gate!GateNext]_(Gate!gateVars)
<1> SUFFICES ASSUME SchedulerInv, [Next]_vars
             PROVE  Gate!GateNext \/ UNCHANGED Gate!gateVars
  OBVIOUS
<1>1. CASE \E r \in Req : Receive(r) \/ Drop(r)
  BY <1>1, ReceiveIsArrive, DropIsReject DEF Gate!GateNext
<1>2. CASE RefuseSet \/ FinishSet \/ FinishGetnext \/ FinishGet
  BY <1>2, EndIsFinish DEF Gate!GateNext
<1>3. CASE EndSetPass \/ EndGetPass
  BY <1>3, PassEndInGate DEF Gate!GateNext
<1>4. CASE PopQueued
  BY <1>4, PopIsAdmit DEF Gate!GateNext
<1>5. CASE \E r \in Req : ResumeDelegated(r)
  BY <1>5, ResumeIsStutter
<1>6. CASE UNCHANGED vars
  BY <1>6 DEF vars, reqVars, listVars, ctlVars, Gate!gateVars, Active
<1>7. CASE \/ BeginSet \/ BeginGet \/ NextSetPass \/ NextGetPass \/ CallSlot
           \/ CheckOutstanding \/ EndScan \/ ClaimGate \/ EndDrain \/ Unregister
           \/ \E r \in Req : SkipDelegated(r)
           \/ \E s \in Session : CloseSession(s) \/ CloseSubsession(s)
           \/ \E r \in Req, s \in Session : Answer(r, s)
  BY <1>7, InnerIsStutter
<1> QED BY <1>1, <1>2, <1>3, <1>4, <1>5, <1>6, <1>7 DEF Next, AgentStep, InnerStep

(* The scheduler implements the gate: reads execute side by side, a SET    *)
(* executes alone, requests start in the order of their arrival            *)
(* (Agent_handleRequest, Agent_checkOutstandingAgentRequests).             *)
THEOREM GateImplemented == Spec => ImplementsGate
<1>1. Init => Gate!GateInit
  <2> SUFFICES ASSUME Init PROVE Gate!GateInit
    OBVIOUS
  <2>1. Active = {} /\ {r \in Req : response[r] # "none"} = {}
    BY DEF Init, Active
  <2> QED BY <2>1 DEF Init, Gate!GateInit
<1>2. SchedulerInv /\ [Next]_vars => [Gate!GateNext]_(Gate!gateVars)
  BY GateStep
<1> QED BY <1>1, <1>2, SchedulerInvariant, PTL DEF Spec, ImplementsGate, Gate!GateSpec

(* Requests start in the order of their arrival.                           *)
THEOREM StartsInOrderCorrect == Spec => StartsInOrder
<1> DEFINE Ordered ==
             /\ \A r \in Active' \ Active : queuedList = <<>> \/ r = Head(queuedList)
             /\ \/ queuedList' = queuedList
                \/ queuedList # <<>> /\ queuedList' = Tail(queuedList)
                \/ \E r \in Req : queuedList' = Append(queuedList, r)
<1>1. SchedulerInv /\ [Next]_vars => [Ordered]_vars
  <2> SUFFICES ASSUME SchedulerInv, [Next]_vars PROVE Ordered
    OBVIOUS
  <2>1. Gate!GateNext \/ UNCHANGED Gate!gateVars
    BY GateStep
  <2>2. CASE \E r \in Req, c \in Commands : Gate!Arrive(r, c) \/ Gate!Reject(r, c)
    BY <2>2 DEF Gate!Arrive, Gate!Reject
  <2>3. CASE Gate!Admit
    BY <2>3 DEF Gate!Admit
  <2>4. CASE \E r \in Req : Gate!Finish(r)
    BY <2>4 DEF Gate!Finish
  <2>5. CASE UNCHANGED Gate!gateVars
    BY <2>5 DEF Gate!gateVars
  <2> QED BY <2>1, <2>2, <2>3, <2>4, <2>5 DEF Gate!GateNext
<1> QED BY <1>1, SchedulerInvariant, PTL DEF Spec, StartsInOrder

-----------------------------------------------------------------------------
LEMMA WrapUpOpens ==
    ASSUME SchedulerInv, pc \in Running, NEW st \in ErrStat, WrapUp(cur, st),
           processingSet' # processingSet
    PROVE  processingSet' = NoReq /\ response'[processingSet] # "none"
<1>1. processingSet = cur /\ cur \in Req /\ processingSet' = NoReq
  BY RunningType DEF WrapUp
<1> QED BY <1>1 DEF WrapUp, ErrStat, SchedulerInv, TypeOK

LEMMA GateKept ==
    ASSUME SchedulerInv, [Next]_vars, processingSet # NoReq,
           processingSet' # processingSet
    PROVE  processingSet' = NoReq /\ response'[processingSet] # "none"
<1> USE DEF listVars
<1>1. CASE \E r \in Req : Receive(r) \/ Drop(r)
  BY <1>1 DEF Receive, Drop, HandleRequest
<1>2. CASE RefuseSet \/ FinishSet \/ FinishGetnext \/ FinishGet
  <2>1. pc \in Running
    BY <1>2 DEF RefuseSet, FinishSet, FinishGetnext, FinishGet, Running
  <2>2. \E st \in ErrStat : WrapUp(cur, st)
    BY <1>2, <2>1, SetStatusType DEF RefuseSet, FinishSet, FinishGetnext, FinishGet, ErrStat
  <2> QED BY <2>1, <2>2, WrapUpOpens
<1>3. CASE EndSetPass \/ EndGetPass
  <2>1. pc \in Running
    BY <1>3 DEF EndSetPass, EndGetPass, Running
  <2>2. \E st \in ErrStat : WrapUp(cur, st)
    BY <1>3, <2>1, SetStatusType DEF EndSetPass, EndGetPass, Park
  <2> QED BY <2>1, <2>2, WrapUpOpens
<1>4. CASE PopQueued
  BY <1>4 DEF PopQueued, HandleRequest
<1>5. CASE ClaimGate
  BY <1>5 DEF ClaimGate, HeadWaits, SchedulerInv, QueueInv
<1>6. CASE \/ BeginSet \/ BeginGet \/ NextSetPass \/ NextGetPass \/ CallSlot
           \/ CheckOutstanding \/ EndScan \/ EndDrain \/ Unregister
           \/ \E r \in Req : SkipDelegated(r) \/ ResumeDelegated(r)
  BY <1>6 DEF BeginSet, BeginGet, NextSetPass, NextGetPass, CallSlot, CheckOutstanding,
              EndScan, EndDrain, Unregister, SkipDelegated, ResumeDelegated
<1>7. CASE \E s \in Session : CloseSession(s) \/ CloseSubsession(s)
  BY <1>7 DEF CloseSession, CloseSubsession, CloseWith
<1>8. CASE \E r \in Req, s \in Session : Answer(r, s)
  <2>1. ASSUME NEW r \in Req, NEW s \in Session, TimeOut(r, s) PROVE FALSE
    BY <2>1 DEF TimeOut, CloseWith
  <2>2. ASSUME NEW r \in Req, NEW s \in Session,
               AnswerOk(r, s) \/ AnswerError(r, s) \/ AnswerShort(r, s)
        PROVE  FALSE
    BY <2>2 DEF AnswerOk, AnswerError, AnswerShort
  <2> QED BY <1>8, <2>1, <2>2 DEF Answer
<1>9. CASE UNCHANGED vars
  BY <1>9 DEF vars
<1> QED BY <1>1, <1>2, <1>3, <1>4, <1>5, <1>6, <1>7, <1>8, <1>9
        DEF Next, AgentStep, InnerStep

(* A SET gives the gate back, to no one, when it is answered               *)
(* (Agent_wrapUpRequest) and never before.                                 *)
THEOREM GateHandoverCorrect == Spec => GateHandover
<1>1. SchedulerInv /\ [Next]_vars =>
        [processingSet # NoReq /\ processingSet' # processingSet =>
           processingSet' = NoReq /\ response'[processingSet] # "none"]_vars
  BY GateKept
<1> QED BY <1>1, SchedulerInvariant, PTL DEF Spec, GateHandover

-----------------------------------------------------------------------------
(* What becomes of a SET (Agent_handleSet): it commits only if nothing     *)
(* failed, its response tells the truth and every handler that reserved is *)
(* told how it ended.                                                      *)
(*                                                                         *)
(* The properties speak of the history of a request: which handlers were   *)
(* called in which mode and what failed.  The invariant relates it to what *)
(* the agent keeps: mode, status, index and the errors of the varbinds.    *)

\* Agent_handlePdu has got as far as calling handlers for r.
Started(r)    == r \in Active /\ (cur = r => pc # "pdu")
InPass(r)   == cur = r /\ pc = "pass"
\* r has not been on agent_delegated_list yet.
FirstRun(r) == cur = r /\ from # "scan"

Early == {"RESERVE1", "RESERVE2", "ACTION"}

\* The modes whose handlers may have been called in a mode.
Upto(mode) ==
    CASE mode = "BEGIN"    -> {}
      [] mode = "RESERVE1" -> {"RESERVE1"}
      [] mode = "RESERVE2" -> {"RESERVE1", "RESERVE2"}
      [] mode = "FREE"     -> {"RESERVE1", "RESERVE2", "FREE"}
      [] mode = "UNDO"     -> Early \cup {"UNDO"}
      [] mode = "COMMIT"   -> Early \cup {"COMMIT"}
      [] OTHER             -> Early

\* Some varbind carries an error.
Marked(a) == \E v \in Varbind : a.err[v] # "noError"

\* The phases: what was called and failed belongs to the modes so far, what
\* is delegated was asked for in this one.
Phases(r) ==
    LET a == asp[r] IN
    /\ a.mode \in SetMode
    /\ cur = r => pc \in {"set", "pass"}
    /\ a.mode = "BEGIN" => cur = r /\ pc = "set"
    /\ cur = r /\ pc = "set" => a.delegated = {}
    /\ calls[r] \subseteq Slot \X Upto(a.mode)
    /\ failed[r] \subseteq Upto(a.mode) \X {"handler", "answer"}
    /\ \A c \in calls[r] : \E v \in Varbind : a.owner[v] = c[1]
    /\ \A v \in a.delegated : a.owner[v] \in Session /\ <<a.owner[v], a.mode>> \in calls[r]
    /\ a.mode \in {"RESERVE2", "COMMIT", "FREE"} => a.delegated = {}
    /\ a.mode \in {"RESERVE2", "COMMIT", "FREE"} => cur = r

\* Every slot that the pass is done with has been called, or is gone.
Covered(r) ==
    asp[r].mode # "BEGIN" =>
        \A v \in Varbind \ (IF InPass(r) THEN left ELSE {}) :
            asp[r].owner[v] \in closed \/ <<asp[r].owner[v], asp[r].mode>> \in calls[r]

\* Before a SET is delegated only handlers fail; if RESERVE1 does not delegate
\* it, no later phase does.
FirstRunStory(r) ==
    LET a == asp[r] IN
    FirstRun(r) =>
        /\ \A f \in failed[r] : f[2] = "handler"
        /\ a.mode \in {"BEGIN", "RESERVE1"} /\ (a.index # 0 \/ Marked(a)) =>
              <<"RESERVE1", "handler">> \in failed[r]
        /\ a.mode = "RESERVE1" /\ pc = "pass" =>
              \A v \in Varbind \ left : a.owner[v] \in Session \ closed => v \in a.delegated
        /\ a.mode # "BEGIN" /\ ~(a.mode = "RESERVE1" /\ pc = "pass") =>
              /\ a.delegated = {}
              /\ \A v \in Varbind : a.owner[v] \notin Session \ closed

\* A failure of this phase will be seen at its end.
Flagged(r) ==
    IF InPass(r) THEN final # "noError"
    ELSE \/ asp[r].status # "noError"
         \/ r \in delegatedList /\ Marked(asp[r])

\* After a clean start, the failures so far are of this phase, and are flagged.
Clean(r) ==
    LET a == asp[r] IN
    CleanStart(r) /\ a.mode \in {"BEGIN"} \cup Early =>
        /\ \A f \in EarlyFailure(r) : f[1] = a.mode
        /\ EarlyFailure(r) # {} => Flagged(r)
        /\ a.index # 0 => a.status # "noError"
        /\ a.index # 0 \/ Marked(a) \/ a.status # "noError" \/ (InPass(r) /\ final # "noError") =>
              EarlyFailure(r) # {}

\* A commit begins without failures; only handlers fail in it.
CleanCommit(r) ==
    LET a == asp[r] IN
    CleanStart(r) /\ a.mode = "COMMIT" =>
        /\ EarlyFailure(r) = {}
        /\ a.index # 0 \/ Marked(a) \/ a.status # "noError" \/ (InPass(r) /\ final # "noError") =>
              <<"COMMIT", "handler">> \in failed[r]

\* What is freed or undone has failed.
Undone(r) == asp[r].mode \in {"FREE", "UNDO"} => asp[r].status # "noError"

SetStory(r) ==
    /\ Phases(r) /\ Covered(r) /\ FirstRunStory(r) /\ Clean(r) /\ CleanCommit(r)
    /\ Undone(r)

\* A read has the mode of its command all along.
ReadStory(r) ==
    /\ asp[r].mode \in {"GET", "GETNEXT"}
    /\ calls[r] \subseteq Slot \X {"GET", "GETNEXT"}
    /\ failed[r] \subseteq {"GET", "GETNEXT"} \X {"handler", "answer"}
    /\ cur = r => pc \in {"pass", "next", "done"}

Story(r) ==
    /\ ~Started(r) => calls[r] = {} /\ failed[r] = {}
    /\ Started(r) /\ cmd[r] # "SET" => ReadStory(r)
    /\ Started(r) /\ cmd[r] = "SET" => SetStory(r)

HistoryInv == \A r \in Req : Story(r)

-----------------------------------------------------------------------------
(* Requests that a step does not touch, and those without a history.       *)
LEMMA StoryKept ==
    ASSUME NEW r \in Req, Story(r), cur # r, cur' # r,
           r \in delegatedList' <=> r \in delegatedList,
           asp'[r] = asp[r], cmd'[r] = cmd[r], calls'[r] = calls[r],
           failed'[r] = failed[r], closed \subseteq closed'
    PROVE  Story(r)'
<1>1. Started(r)' <=> Started(r)
  BY DEF Started, Active
<1>2. ReadStory(r) => ReadStory(r)'
  BY DEF ReadStory
<1>3. ASSUME SetStory(r) PROVE SetStory(r)'
  <2> USE <1>3 DEF SetStory
  <2>1. Phases(r)'
    BY DEF Phases
  <2>2. Covered(r)'
    BY DEF Covered, InPass
  <2>3. FirstRunStory(r)'
    BY DEF FirstRunStory, FirstRun
  <2>4. CleanStart(r)' = CleanStart(r) /\ EarlyFailure(r)' = EarlyFailure(r)
    BY DEF CleanStart, CalledIn, EarlyFailure
  <2>5. Clean(r)' /\ CleanCommit(r)'
    BY <2>4 DEF Clean, CleanCommit, Flagged, InPass, Marked
  <2>6. Undone(r)'
    BY DEF Undone
  <2> QED BY <2>1, <2>2, <2>3, <2>5, <2>6
<1> QED BY <1>1, <1>2, <1>3 DEF Story

LEMMA StoryFresh ==
    ASSUME NEW r \in Req, ~Started(r)', calls'[r] = {}, failed'[r] = {}
    PROVE  Story(r)'
BY DEF Story

\* A step that touches at most the request q.
LEMMA OneStory ==
    ASSUME HistoryInv, NEW q,
           cur \in {q, NoReq}, cur' \in {q, NoReq}, closed \subseteq closed',
           \A r \in Req \ {q} :
              /\ r \in delegatedList' <=> r \in delegatedList
              /\ asp'[r] = asp[r] /\ cmd'[r] = cmd[r]
              /\ calls'[r] = calls[r] /\ failed'[r] = failed[r],
           q \in Req => Story(q)'
    PROVE  HistoryInv'
<1> SUFFICES ASSUME NEW r \in Req PROVE Story(r)'
  BY DEF HistoryInv
<1>1. CASE r = q
  BY <1>1
<1>2. CASE r # q
  BY <1>2, StoryKept, ConstantsAssumption DEF HistoryInv
<1> QED BY <1>1, <1>2

LEMMA NothingTouched ==
    ASSUME HistoryInv, cur = NoReq, closed \subseteq closed',
           UNCHANGED <<delegatedList, asp, cmd, calls, failed, cur>>
    PROVE  HistoryInv'
<1> SUFFICES ASSUME NEW r \in Req PROVE Story(r)'
  BY DEF HistoryInv
<1> QED BY StoryKept, ConstantsAssumption DEF HistoryInv

LEMMA QuietSteps ==
    ASSUME SchedulerInv, HistoryInv,
           \/ CheckOutstanding \/ EndScan \/ ClaimGate \/ EndDrain \/ Unregister
           \/ \E r \in Req : SkipDelegated(r)
           \/ \E s \in Session : CloseSubsession(s)
    PROVE  HistoryInv'
<1>1. cur = NoReq
  BY DEF CheckOutstanding, EndScan, ClaimGate, EndDrain, Unregister, SkipDelegated,
         CloseSubsession, SchedulerInv, ControlInv, Running
<1>2. /\ closed \subseteq closed'
      /\ UNCHANGED <<delegatedList, asp, cmd, calls, failed, cur>>
  BY DEF CheckOutstanding, EndScan, ClaimGate, EndDrain, Unregister, SkipDelegated,
         CloseSubsession, reqVars, listVars, ctlVars, sessVars, histVars
<1> QED BY <1>1, <1>2, NothingTouched

\* A request that starts has no history yet.
LEMMA HandledStory ==
    ASSUME HistoryInv, cur = NoReq, NEW r \in Req, r \notin Active, NEW c, NEW q,
           NEW ret, HandleRequest(r, c, q, ret),
           UNCHANGED <<asp, delegatedList, closed, calls, failed>>,
           \A x \in Req : x # r => cmd'[x] = cmd[x]
    PROVE  HistoryInv'
<1>1. \/ pc' = ret /\ cur' = cur
      \/ pc' = "pdu" /\ cur' = r
  BY DEF HandleRequest, StartPdu
<1>2. NoReq \notin Req /\ r \notin delegatedList
  BY ConstantsAssumption DEF Active
<1>3. calls'[r] = {} /\ failed'[r] = {}
  BY DEF HistoryInv, Story, Started
<1>4. ~Started(r)'
  BY <1>1, <1>2 DEF Started, Active
<1> QED BY <1>1, <1>3, <1>4, StoryFresh, OneStory

LEMMA StartSteps ==
    ASSUME SchedulerInv, HistoryInv,
           PopQueued \/ \E r \in Req : Receive(r) \/ Drop(r)
    PROVE  HistoryInv'
<1>1. ASSUME NEW r \in Req, Receive(r) \/ Drop(r)
      PROVE  cur = NoReq /\ r \notin Active /\ cmd \in [Req -> Commands \cup {"none"}]
  BY <1>1, FreshRequest DEF Receive, Drop, SchedulerInv, ControlInv, Running, TypeOK
<1>2. ASSUME NEW r \in Req, Receive(r) PROVE HistoryInv'
  <2>1. PICK c \in Commands :
          cmd' = [cmd EXCEPT ![r] = c] /\ HandleRequest(r, c, queuedList, "idle")
    BY <1>2 DEF Receive
  <2>2. UNCHANGED <<asp, delegatedList, closed, calls, failed>>
    BY <1>2 DEF Receive, sessVars, histVars
  <2> QED BY <1>1, <1>2, <2>1, <2>2, HandledStory
<1>3. ASSUME NEW r \in Req, Drop(r) PROVE HistoryInv'
  <2>1. /\ UNCHANGED <<asp, delegatedList, cur, pc, closed, calls, failed>>
        /\ \A x \in Req : x # r => cmd'[x] = cmd[x]
    BY <1>1, <1>3 DEF Drop, listVars, ctlVars, sessVars, histVars
  <2>2. ~Started(r)' /\ calls'[r] = {} /\ failed'[r] = {}
    BY <1>1, <1>3, <2>1 DEF Started, Active, HistoryInv, Story
  <2> QED BY <1>1, <1>3, <2>1, <2>2, StoryFresh, OneStory
<1>4. CASE PopQueued
  <2> DEFINE h == Head(queuedList)
  <2>1. h \in Req /\ h \notin Active /\ cur = NoReq
    BY <1>4, HeadFacts DEF PopQueued, SchedulerInv, ControlInv, Running
  <2>2. HandleRequest(h, cmd[h], Tail(queuedList), "popped")
        /\ UNCHANGED <<cmd, asp, delegatedList, closed, calls, failed>>
    BY <1>4 DEF PopQueued, reqVars, sessVars, histVars
  <2> HIDE DEF h
  <2> QED BY <2>1, <2>2, HandledStory
<1> QED BY <1>2, <1>3, <1>4

\* A request that is answered takes its history with it.
LEMMA EndedStory ==
    ASSUME SchedulerInv, HistoryInv, pc \in Running, NEW st, WrapUp(cur, st),
           UNCHANGED <<cmd, closed>>
    PROVE  HistoryInv'
<1>1. /\ cur \in Req /\ asp \in [Req -> Asp] /\ NoReq \notin Req
      /\ calls \in [Req -> SUBSET (Slot \X Mode)]
      /\ failed \in [Req -> SUBSET (Mode \X {"handler", "answer"})]
  BY RunningType, ConstantsAssumption DEF SchedulerInv, TypeOK
<1>2. /\ asp' = [asp EXCEPT ![cur] = FreeAsp] /\ calls' = [calls EXCEPT ![cur] = {}]
      /\ failed' = [failed EXCEPT ![cur] = {}] /\ delegatedList' = delegatedList \ {cur}
      /\ cur' = NoReq
  BY DEF WrapUp
<1>3. PICK x \in Req : x = cur
  BY <1>1
<1>4. ~Started(x)' /\ calls'[x] = {} /\ failed'[x] = {}
  BY <1>1, <1>2, <1>3 DEF Started, Active
<1>5. \A r \in Req \ {x} :
         /\ r \in delegatedList' <=> r \in delegatedList
         /\ asp'[r] = asp[r] /\ cmd'[r] = cmd[r]
         /\ calls'[r] = calls[r] /\ failed'[r] = failed[r]
  BY <1>1, <1>2, <1>3
<1> QED BY <1>2, <1>3, <1>4, <1>5, StoryFresh, OneStory

-----------------------------------------------------------------------------
(* The phases.                                                             *)

\* Every step of the request that is run.
LEMMA RunStory ==
    ASSUME SchedulerInv, HistoryInv, pc \in Running, NEW x \in Req, x = cur,
           cur' \in {cur, NoReq}, closed' = closed,
           \A r \in Req \ {x} :
              /\ r \in delegatedList' <=> r \in delegatedList
              /\ asp'[r] = asp[r] /\ cmd'[r] = cmd[r]
              /\ calls'[r] = calls[r] /\ failed'[r] = failed[r],
           Story(x)'
    PROVE  HistoryInv'
BY OneStory

LEMMA RunType ==
    ASSUME SchedulerInv, HistoryInv, pc \in Running
    PROVE  \E x \in Req :
             /\ x = cur /\ x # NoReq /\ asp[x] \in Asp /\ x \notin delegatedList
             /\ cmd[x] \in {"GET", "GETNEXT", "SET"}
             /\ asp \in [Req -> Asp]
             /\ pc = "pdu" => calls[x] = {} /\ failed[x] = {}
             /\ pc # "pdu" /\ cmd[x] # "SET" => ReadStory(x)
             /\ pc # "pdu" /\ cmd[x] = "SET" => SetStory(x)
<1>1. PICK x \in Req : x = cur
  BY RunningType
<1>2. x # NoReq /\ asp[x] \in Asp /\ x \notin delegatedList /\ asp \in [Req -> Asp]
  BY <1>1, RunningType DEF SchedulerInv, TypeOK
<1>3. x \in Active /\ (Started(x) <=> pc # "pdu")
  BY <1>1, <1>2 DEF Started, Active
<1>4. cmd[x] \in {"GET", "GETNEXT", "SET"}
  BY <1>1, <1>3, ConstantsAssumption DEF SchedulerInv, TypeOK, OnePlace, Accepted
<1> QED BY <1>1, <1>2, <1>3, <1>4 DEF HistoryInv, Story

LEMMA BeginSetStory ==
    ASSUME SchedulerInv, HistoryInv, BeginSet
    PROVE  HistoryInv'
<1>1. pc \in Running /\ pc = "pdu" /\ cmd[cur] = "SET" /\ pc' = "set"
      /\ UNCHANGED <<cmd, delegatedList, cur, from, closed, calls, failed>>
  BY DEF BeginSet, Running, listVars, sessVars, histVars
<1>2. PICK x \in Req :
        /\ x = cur /\ x # NoReq /\ asp \in [Req -> Asp]
        /\ calls[x] = {} /\ failed[x] = {}
  BY <1>1, RunType
<1>3. PICK l \in Registered : asp' = [asp EXCEPT ![x] = NewAsp("BEGIN", l)]
  BY <1>2 DEF BeginSet
<1>4. /\ asp'[x].mode = "BEGIN" /\ asp'[x].status = "noError" /\ asp'[x].index = 0
      /\ asp'[x].delegated = {} /\ \A v \in Varbind : asp'[x].err[v] = "noError"
  BY <1>2, <1>3 DEF NewAsp
<1>5. Started(x)' /\ ~InPass(x)' /\ EarlyFailure(x)' = {} /\ ~Marked(asp'[x])
  BY <1>1, <1>2, <1>4 DEF Started, Active, InPass, EarlyFailure, Marked
<1>6. Phases(x)'
  BY <1>1, <1>2, <1>4 DEF Phases, SetMode
<1>7. Covered(x)' /\ FirstRunStory(x)'
  BY <1>2, <1>1, <1>4, <1>5 DEF Covered, FirstRunStory
<1>8. Clean(x)' /\ CleanCommit(x)' /\ Undone(x)'
  BY <1>4, <1>5 DEF Clean, CleanCommit, Undone
<1>9. Story(x)'
  BY <1>1, <1>2, <1>5, <1>6, <1>7, <1>8 DEF Story, SetStory
<1> QED BY <1>1, <1>2, <1>3, <1>9, RunStory

LEMMA NextSetStory ==
    ASSUME SchedulerInv, HistoryInv, NextSetPass
    PROVE  HistoryInv'
<1>1. pc \in Running /\ pc = "set" /\ pc' = "pass" /\ left' = Varbind /\ final' = "noError"
      /\ UNCHANGED <<cmd, delegatedList, cur, from, closed, calls, failed>>
  BY DEF NextSetPass, Running, listVars, sessVars, histVars
<1>2. PICK x \in Req :
        /\ x = cur /\ x # NoReq /\ asp \in [Req -> Asp] /\ asp[x] \in Asp
        /\ x \notin delegatedList
        /\ cmd[x] # "SET" => ReadStory(x)
        /\ cmd[x] = "SET" => SetStory(x)
  BY <1>1, RunType
<1>3. cmd[x] = "SET" /\ SetStory(x)
  BY <1>1, <1>2 DEF ReadStory
<1> DEFINE a == asp[x]
           m == NextMode(a.mode, a.status)
<1>4. m \notin Finished /\ asp' = [asp EXCEPT ![x] = [a EXCEPT !.mode = m]]
  BY <1>2 DEF NextSetPass
<1>5. \/ a.mode = "BEGIN" /\ m = "RESERVE1"
      \/ a.mode = "RESERVE1" /\ a.status = "noError" /\ m = "RESERVE2"
      \/ a.mode = "RESERVE2" /\ a.status = "noError" /\ m = "ACTION"
      \/ a.mode = "ACTION" /\ a.status = "noError" /\ m = "COMMIT"
      \/ a.mode \in {"RESERVE1", "RESERVE2"} /\ a.status # "noError" /\ m = "FREE"
      \/ a.mode = "ACTION" /\ a.status # "noError" /\ m = "UNDO"
  BY <1>3, <1>4 DEF SetStory, Phases, SetMode, NextMode, Finished
<1> HIDE DEF m
<1>6. /\ asp'[x].mode = m /\ asp'[x].status = a.status /\ asp'[x].index = a.index
      /\ asp'[x].delegated = a.delegated /\ asp'[x].err = a.err /\ asp'[x].owner = a.owner
  BY <1>2, <1>4 DEF Asp
<1>7. a.delegated = {}
  BY <1>1, <1>2, <1>3 DEF SetStory, Phases
<1>8. Upto(a.mode) \subseteq Upto(m)
  BY <1>5 DEF Upto, Early
<1>9. Phases(x)'
  BY <1>1, <1>2, <1>3, <1>5, <1>6, <1>7, <1>8 DEF SetStory, Phases, SetMode
<1>10. Covered(x)'
  BY <1>1, <1>2 DEF Covered, InPass
<1>11. FirstRunStory(x)'
  <2>1. FirstRun(x)' <=> FirstRun(x)
    BY <1>1 DEF FirstRun
  <2> QED BY <1>1, <1>3, <1>5, <1>6, <1>7, <2>1 DEF SetStory, FirstRunStory, Marked
<1>12. CleanStart(x)' = CleanStart(x) /\ EarlyFailure(x)' = EarlyFailure(x)
  BY <1>1 DEF CleanStart, CalledIn, EarlyFailure
<1>13. CleanStart(x) /\ a.mode \in {"BEGIN"} \cup Early /\ m \notin {"FREE", "UNDO"} =>
         /\ EarlyFailure(x) = {} /\ a.index = 0 /\ ~Marked(a) /\ a.status = "noError"
  <2> SUFFICES ASSUME CleanStart(x), a.mode \in {"BEGIN"} \cup Early, m \notin {"FREE", "UNDO"}
               PROVE  EarlyFailure(x) = {} /\ a.index = 0 /\ ~Marked(a) /\ a.status = "noError"
    OBVIOUS
  <2>1. EarlyFailure(x) # {} => a.mode # "BEGIN" /\ a.status # "noError"
    <3>1. EarlyFailure(x) # {} => a.status # "noError"
      BY <1>1, <1>2, <1>3 DEF SetStory, Clean, Flagged, InPass
    <3>2. a.mode = "BEGIN" => failed[x] = {}
      BY <1>3 DEF SetStory, Phases, Upto
    <3> QED BY <3>1, <3>2 DEF EarlyFailure
  <2>2. EarlyFailure(x) = {}
    BY <1>5, <2>1 DEF Early
  <2> QED BY <1>3, <2>2 DEF SetStory, Clean
<1>14. Clean(x)' /\ CleanCommit(x)'
  <2>1. Marked(asp'[x]) <=> Marked(a)
    BY <1>6 DEF Marked
  <2>2. CASE m \in {"FREE", "UNDO"}
    BY <1>6, <2>2 DEF Clean, CleanCommit, Early
  <2>3. CASE m \notin {"FREE", "UNDO"}
    <3>1. a.mode \in {"BEGIN"} \cup Early
      BY <1>5 DEF Early
    <3>2. CleanStart(x)' =>
            /\ EarlyFailure(x)' = {} /\ asp'[x].index = 0 /\ ~Marked(asp'[x])
            /\ asp'[x].status = "noError" /\ final' = "noError"
      BY <1>1, <1>6, <1>12, <1>13, <2>1, <2>3, <3>1
    <3> QED BY <3>2 DEF Clean, CleanCommit
  <2> QED BY <2>2, <2>3
<1>15. Undone(x)'
  BY <1>5, <1>6 DEF Undone
<1>16. Story(x)'
  <2>1. Started(x)' /\ cmd'[x] = "SET"
    BY <1>1, <1>2, <1>3 DEF Started, Active
  <2> QED BY <1>9, <1>10, <1>11, <1>14, <1>15, <2>1 DEF Story, SetStory
<1>17. \A r \in Req \ {x} : asp'[r] = asp[r]
  BY <1>2, <1>4
<1> QED BY <1>1, <1>2, <1>16, <1>17, RunStory

\* What is kept when only the status of an asp changes.
LEMMA StatusFacts ==
    ASSUME asp \in [Req -> Asp], NEW x \in Req, NEW st,
           asp' = [asp EXCEPT ![x].status = st]
    PROVE  /\ asp'[x].mode = asp[x].mode /\ asp'[x].index = asp[x].index
           /\ asp'[x].delegated = asp[x].delegated /\ asp'[x].err = asp[x].err
           /\ asp'[x].owner = asp[x].owner /\ asp'[x].status = st
           /\ \A r \in Req \ {x} : asp'[r] = asp[r]
<1>1. asp' = [asp EXCEPT ![x] = [asp[x] EXCEPT !.status = st]] /\ asp[x] \in Asp
  OBVIOUS
<1>2. /\ [asp[x] EXCEPT !.status = st].mode = asp[x].mode
      /\ [asp[x] EXCEPT !.status = st].index = asp[x].index
      /\ [asp[x] EXCEPT !.status = st].delegated = asp[x].delegated
      /\ [asp[x] EXCEPT !.status = st].err = asp[x].err
      /\ [asp[x] EXCEPT !.status = st].owner = asp[x].owner
      /\ [asp[x] EXCEPT !.status = st].status = st
  BY <1>1 DEF Asp
<1> QED BY <1>1, <1>2

LEMMA SetStatusFacts ==
    ASSUME NEW a
    PROVE  /\ SetStatus(a) = "noError" <=> a.status = "noError" /\ final = "noError"
           /\ from = "scan" => ParkedSetStatus(a) = SetStatus(a)
           /\ from # "scan" => ParkedSetStatus(a) = "noError"
BY DEF SetStatus, ParkedSetStatus

LEMMA EndSetStory ==
    ASSUME SchedulerInv, HistoryInv, EndSetPass
    PROVE  HistoryInv'
<1>1. /\ pc \in Running /\ pc = "pass" /\ left = {} /\ cmd[cur] = "SET"
      /\ UNCHANGED <<cmd, from, left, final, closed, calls, failed>>
  BY DEF EndSetPass, Park, Running, sessVars, histVars
<1>2. PICK x \in Req :
        /\ x = cur /\ x # NoReq /\ asp \in [Req -> Asp] /\ asp[x] \in Asp
        /\ x \notin delegatedList /\ cmd[x] = "SET" /\ SetStory(x)
  BY <1>1, RunType
<1> DEFINE a == asp[x]
<1>3. PICK st :
        /\ asp' = [asp EXCEPT ![x].status = st]
        /\ \/ /\ a.delegated = {} /\ st = SetStatus(a) /\ pc' = "set"
              /\ delegatedList' = delegatedList /\ cur' = cur
           \/ /\ a.delegated # {} /\ st = ParkedSetStatus(a)
              /\ delegatedList' = delegatedList \cup {x} /\ cur' = NoReq
  BY <1>2 DEF EndSetPass, Park, Delegated
<1>4. /\ asp'[x].mode = a.mode /\ asp'[x].index = a.index
      /\ asp'[x].delegated = a.delegated /\ asp'[x].err = a.err
      /\ asp'[x].owner = a.owner /\ asp'[x].status = st
      /\ \A r \in Req \ {x} : asp'[r] = asp[r]
  BY <1>2, <1>3, StatusFacts
<1>5. /\ CleanStart(x)' = CleanStart(x) /\ EarlyFailure(x)' = EarlyFailure(x)
      /\ Marked(asp'[x]) <=> Marked(a)
      /\ InPass(x) /\ ~InPass(x)' /\ a.mode # "BEGIN"
  BY <1>1, <1>2, <1>3, <1>4
     DEF CleanStart, CalledIn, EarlyFailure, Marked, InPass, SetStory, Phases
<1>6. Covered(x)'
  BY <1>1, <1>2, <1>4, <1>5 DEF SetStory, Covered
<1>7. Started(x)' /\ cmd'[x] = "SET"
  BY <1>1, <1>2, <1>3 DEF Started, Active
<1>8. CASE /\ a.delegated = {} /\ st = SetStatus(a) /\ pc' = "set"
           /\ delegatedList' = delegatedList /\ cur' = cur
  <2>1. Phases(x)'
    BY <1>1, <1>2, <1>4, <1>5, <1>8 DEF SetStory, Phases
  <2>2. FirstRunStory(x)'
    <3>1. FirstRun(x)' <=> FirstRun(x)
      BY <1>1, <1>8 DEF FirstRun
    <3> QED BY <1>1, <1>2, <1>4, <1>5, <1>8, <3>1 DEF SetStory, FirstRunStory
  <2>3. st = "noError" <=> a.status = "noError" /\ final = "noError"
    BY <1>8, SetStatusFacts
  <2>4. Clean(x)' /\ CleanCommit(x)'
    <3>1. Flagged(x) => Flagged(x)'
      BY <1>4, <1>5, <2>3 DEF Flagged
    <3>2. asp'[x].status # "noError" => a.status # "noError" \/ (InPass(x) /\ final # "noError")
      BY <1>4, <1>5, <2>3
    <3>3. Clean(x)'
      BY <1>2, <1>4, <1>5, <2>3, <3>1, <3>2 DEF SetStory, Clean
    <3>4. CleanCommit(x)'
      BY <1>1, <1>2, <1>4, <1>5, <3>2 DEF SetStory, CleanCommit
    <3> QED BY <3>3, <3>4
  <2>5. Undone(x)'
    BY <1>2, <1>4, <2>3 DEF SetStory, Undone
  <2>6. Story(x)'
    BY <1>6, <1>7, <2>1, <2>2, <2>4, <2>5 DEF Story, SetStory
  <2> QED BY <1>1, <1>2, <1>4, <1>8, <2>6, RunStory
<1>9. CASE /\ a.delegated # {} /\ st = ParkedSetStatus(a)
           /\ delegatedList' = delegatedList \cup {x} /\ cur' = NoReq
  <2>1. a.mode \notin {"RESERVE2", "COMMIT", "FREE"}
    BY <1>2, <1>9 DEF SetStory, Phases
  <2>2. Phases(x)'
    BY <1>1, <1>2, <1>4, <1>5, <1>9, <2>1 DEF SetStory, Phases
  <2>3. FirstRunStory(x)' /\ CleanCommit(x)'
    BY <1>2, <1>4, <1>9, <2>1 DEF FirstRunStory, FirstRun, CleanCommit
  <2>4. ASSUME from = "scan" PROVE Story(x)'
    <3>1. st = "noError" <=> a.status = "noError" /\ final = "noError"
      BY <1>9, <2>4, SetStatusFacts
    <3>2. Clean(x)'
      BY <1>2, <1>4, <1>5, <3>1 DEF SetStory, Clean, Flagged
    <3>3. Undone(x)'
      BY <1>2, <1>4, <3>1 DEF SetStory, Undone
    <3> QED BY <1>6, <1>7, <2>2, <2>3, <3>2, <3>3 DEF Story, SetStory
  <2>5. ASSUME from # "scan" PROVE Story(x)'
    <3>1. FirstRun(x) /\ st = "noError"
      BY <1>2, <1>9, <2>5, SetStatusFacts DEF FirstRun
    <3>2. a.mode = "RESERVE1"
      BY <1>2, <1>5, <1>9, <3>1 DEF SetStory, FirstRunStory
    <3>3. CalledIn(x, "RESERVE1") \cap Session # {}
      <4>1. PICK v \in a.delegated : TRUE
        BY <1>9
      <4>2. a.owner[v] \in Session /\ <<a.owner[v], "RESERVE1">> \in calls[x]
        BY <1>2, <3>2 DEF SetStory, Phases
      <4> QED BY <4>2 DEF CalledIn, Slot
    <3>4. CleanStart(x) => EarlyFailure(x) = {} /\ a.index = 0 /\ ~Marked(a)
      <4> SUFFICES ASSUME CleanStart(x)
                   PROVE  EarlyFailure(x) = {} /\ a.index = 0 /\ ~Marked(a)
        OBVIOUS
      <4>1. <<"RESERVE1", "handler">> \notin failed[x]
        BY <3>3 DEF CleanStart
      <4>2. ASSUME NEW f \in EarlyFailure(x) PROVE FALSE
        <5>1. f \in failed[x] /\ f[1] = "RESERVE1" /\ f[2] = "handler"
          BY <1>2, <3>1, <3>2, <4>2
             DEF SetStory, Clean, FirstRunStory, Early, EarlyFailure
        <5>2. f = <<f[1], f[2]>>
          BY <1>2, <5>1 DEF SetStory, Phases
        <5> QED BY <4>1, <5>1, <5>2
      <4> QED BY <1>2, <3>1, <3>2, <4>1, <4>2 DEF SetStory, FirstRunStory
    <3>5. Clean(x)'
      BY <1>4, <1>5, <3>1, <3>4 DEF Clean
    <3>6. Undone(x)'
      BY <1>4, <3>2 DEF Undone
    <3> QED BY <1>6, <1>7, <2>2, <2>3, <3>5, <3>6 DEF Story, SetStory
  <2>6. Story(x)'
    BY <2>4, <2>5
  <2> QED BY <1>1, <1>2, <1>4, <1>9, <2>6, RunStory
<1> QED BY <1>3, <1>8, <1>9

\* A step of a read, or the end of a request.
LEMMA ReadKept ==
    ASSUME SchedulerInv, HistoryInv, pc \in Running, NEW x \in Req, x = cur,
           ReadStory(x), cmd[x] # "SET", UNCHANGED <<cmd, closed, failed, calls>>,
           asp'[x].mode = asp[x].mode, \A r \in Req \ {x} : asp'[r] = asp[r],
           \/ delegatedList' = delegatedList \cup {x} /\ cur' = NoReq
           \/ delegatedList' = delegatedList /\ cur' = cur /\ pc' \in {"pass", "next", "done"}
    PROVE  HistoryInv'
<1>1. x # NoReq
  BY ConstantsAssumption
<1>2. Started(x)'
  BY <1>1 DEF Started, Active
<1>3. ReadStory(x)'
  BY <1>1 DEF ReadStory
<1>4. Story(x)'
  BY <1>2, <1>3 DEF Story
<1>5. \A r \in Req \ {x} : r \in delegatedList' <=> r \in delegatedList
  OBVIOUS
<1> QED BY <1>1, <1>4, <1>5, RunStory

LEMMA ReadSteps ==
    ASSUME SchedulerInv, HistoryInv, BeginGet \/ NextGetPass \/ EndGetPass
    PROVE  HistoryInv'
<1>1. /\ pc \in {"pdu", "pass", "next"} /\ pc \in Running
      /\ UNCHANGED <<cmd, from, closed>>
  BY DEF BeginGet, NextGetPass, EndGetPass, Running, sessVars
<1>2. PICK x \in Req :
        /\ x = cur /\ x # NoReq /\ asp \in [Req -> Asp] /\ asp[x] \in Asp
        /\ cmd[x] \in {"GET", "GETNEXT", "SET"}
        /\ pc = "pdu" => calls[x] = {} /\ failed[x] = {}
        /\ pc # "pdu" /\ cmd[x] # "SET" => ReadStory(x)
        /\ pc # "pdu" /\ cmd[x] = "SET" => SetStory(x)
  BY <1>1, RunType
<1>3. CASE BeginGet
  <2>1. /\ pc = "pdu" /\ cmd[x] # "SET" /\ pc' = "pass"
        /\ UNCHANGED <<delegatedList, cur, calls, failed>>
    BY <1>2, <1>3 DEF BeginGet, listVars, histVars
  <2>2. PICK l \in Registered : asp' = [asp EXCEPT ![x] = NewAsp(cmd[x], l)]
    BY <1>2, <1>3 DEF BeginGet
  <2>3. asp'[x].mode = cmd[x] /\ \A r \in Req \ {x} : asp'[r] = asp[r]
    BY <1>2, <2>2 DEF NewAsp
  <2>4. Started(x)' /\ ReadStory(x)'
    BY <1>1, <1>2, <2>1, <2>3 DEF Started, Active, ReadStory
  <2>5. Story(x)'
    BY <1>1, <2>1, <2>4 DEF Story
  <2> QED BY <1>1, <1>2, <2>1, <2>3, <2>5, RunStory
<1>4. CASE NextGetPass
  <2>1. pc = "next" /\ pc' = "pass" /\ UNCHANGED <<delegatedList, cur, calls, failed>>
    BY <1>4 DEF NextGetPass, listVars, histVars
  <2>2. cmd[x] # "SET" /\ ReadStory(x)
    BY <1>2, <2>1 DEF SetStory, Phases
  <2>3. PICK S \in SUBSET Varbind, l \in Registered :
          asp' = [asp EXCEPT ![x] = Reassigned(asp[x], S, l)]
    BY <1>2, <1>4 DEF NextGetPass
  <2>4. asp'[x].mode = asp[x].mode /\ \A r \in Req \ {x} : asp'[r] = asp[r]
    BY <1>2, <2>3 DEF Reassigned, Asp
  <2> QED BY <1>1, <1>2, <2>1, <2>2, <2>4, ReadKept
<1>5. CASE EndGetPass
  <2>1. pc = "pass" /\ cmd[x] # "SET" /\ ReadStory(x)
    BY <1>2, <1>5 DEF EndGetPass
  <2>2. CASE \E st : WrapUp(cur, st)
    BY <1>1, <2>2, EndedStory
  <2>3. CASE /\ \E st : asp' = [asp EXCEPT ![x].status = st]
             /\ Park(x)
    <3>1. asp'[x].mode = asp[x].mode /\ \A r \in Req \ {x} : asp'[r] = asp[r]
      BY <1>2, <2>3, StatusFacts
    <3>2. /\ delegatedList' = delegatedList \cup {x} /\ cur' = NoReq
          /\ UNCHANGED <<failed, calls>>
      BY <2>3 DEF Park, histVars
    <3> QED BY <1>1, <1>2, <2>1, <3>1, <3>2, ReadKept
  <2>4. CASE pc' = "next" /\ UNCHANGED <<asp, delegatedList, cur, histVars>>
    BY <1>1, <1>2, <2>1, <2>4, ReadKept DEF histVars
  <2> QED BY <1>2, <1>5, <2>2, <2>3, <2>4 DEF EndGetPass
<1> QED BY <1>3, <1>4, <1>5

LEMMA EndSteps ==
    ASSUME SchedulerInv, HistoryInv, RefuseSet \/ FinishSet \/ FinishGetnext \/ FinishGet
    PROVE  HistoryInv'
<1>1. pc \in Running /\ UNCHANGED <<cmd, closed>> /\ \E st : WrapUp(cur, st)
  BY DEF RefuseSet, FinishSet, FinishGetnext, FinishGet, Running, sessVars
<1> QED BY <1>1, EndedStory

-----------------------------------------------------------------------------
(* Errors are collected.                                                   *)
LEMMA CheckFacts ==
    ASSUME NEW a \in Asp, NEW C \in SUBSET Varbind, NEW look, look # "noError"
    PROVE  LET b == CheckRequestsStatus(a, C, look) IN
           /\ b \in Asp
           /\ b.owner = a.owner /\ b.mode = a.mode /\ b.delegated = a.delegated
           /\ b.err = a.err
           /\ \/ b.index = a.index /\ b.status = a.status
              \/ /\ b.status # "noError" /\ \E v \in C : a.err[v] # "noError"
           /\ look = "any" /\ (a.index # 0 => a.status # "noError")
                /\ (\E v \in C : a.err[v] # "noError") => b.status # "noError"
<1> DEFINE hits == {v \in C : IF look = "any"
                              THEN /\ a.err[v] # "noError"
                                   /\ a.index = 0 \/ v < a.index
                              ELSE a.err[v] = look}
           hit  == IF look = "any" THEN MinOf(hits)
                   ELSE CHOOSE v \in hits : \A w \in hits : w = v \/ Before(a, w, v)
           y    == [a EXCEPT !.index = hit, !.status = a.err[hit]]
           b    == IF hits = {} THEN a ELSE y
<1>1. CheckRequestsStatus(a, C, look) = b
  BY DEF CheckRequestsStatus
<1>2. b \in Asp
  BY <1>1, CheckRequestsStatusType
<1>3. hits \in SUBSET C /\ \A v \in hits : a.err[v] # "noError"
  OBVIOUS
<1>4. look = "any" /\ a.index = 0 /\ (\E v \in C : a.err[v] # "noError") => hits # {}
  OBVIOUS
<1> HIDE DEF hits
<1>5. hits # {} => hit \in hits
  BY <1>3, MinOfIn, LastHit
<1> HIDE DEF hit
<1>6. /\ y.owner = a.owner /\ y.mode = a.mode /\ y.delegated = a.delegated
      /\ y.err = a.err /\ y.status = a.err[hit]
  BY DEF Asp
<1> HIDE DEF y
<1>7. CASE hits = {}
  BY <1>1, <1>2, <1>4, <1>7
<1>8. CASE hits # {}
  <2>1. b = y /\ a.err[hit] # "noError" /\ hit \in C
    BY <1>3, <1>5, <1>8
  <2> QED BY <1>1, <1>2, <1>6, <2>1
<1> QED BY <1>7, <1>8


LEMMA CollectedFacts ==
    ASSUME NEW a \in Asp
    PROVE  LET c == Collected(a) IN
           /\ c.owner = a.owner /\ c.mode = a.mode /\ c.delegated = a.delegated
           /\ c.err = a.err
           /\ \/ c.index = a.index /\ c.status = a.status
              \/ c.status # "noError" /\ Marked(a)
           /\ (a.index # 0 => a.status # "noError") /\ Marked(a) => c.status # "noError"
<1> DEFINE b == CheckRequestsStatus(a, Varbind, "any")
           c == CheckRequestsStatus(b, Varbind, LookFor(a.mode))
<1>1. LookFor(a.mode) # "noError"
  BY DEF LookFor
<1>2. /\ b \in Asp /\ b.owner = a.owner /\ b.mode = a.mode /\ b.delegated = a.delegated
      /\ b.err = a.err
      /\ \/ b.index = a.index /\ b.status = a.status
         \/ b.status # "noError" /\ Marked(a)
      /\ (a.index # 0 => a.status # "noError") /\ Marked(a) => b.status # "noError"
  BY CheckFacts DEF Marked
<1>3. Collected(a) = IF a.mode \in {"COMMIT", "UNDO"} THEN c ELSE b
  BY DEF Collected
<1> HIDE DEF b
<1>4. /\ c.owner = b.owner /\ c.mode = b.mode /\ c.delegated = b.delegated
      /\ c.err = b.err
      /\ \/ c.index = b.index /\ c.status = b.status
         \/ c.status # "noError" /\ Marked(b)
  BY <1>1, <1>2, CheckFacts DEF Marked
<1> HIDE DEF c
<1>5. Marked(b) <=> Marked(a)
  BY <1>2 DEF Marked
<1>6. CASE a.mode \in {"COMMIT", "UNDO"}
  <2>1. Collected(a) = c
    BY <1>3, <1>6
  <2> QED BY <1>2, <1>4, <1>5, <2>1
<1>7. CASE a.mode \notin {"COMMIT", "UNDO"}
  <2>1. Collected(a) = b
    BY <1>3, <1>7
  <2> QED BY <1>2, <2>1
<1> QED BY <1>6, <1>7

\* A request on the delegated list while none is run.
LEMMA ParkedType ==
    ASSUME SchedulerInv, HistoryInv, cur = NoReq, NEW x \in delegatedList
    PROVE  /\ x \in Req /\ x # NoReq /\ asp \in [Req -> Asp] /\ asp[x] \in Asp
           /\ cmd[x] \in {"GET", "GETNEXT", "SET"}
           /\ failed \in [Req -> SUBSET (Mode \X {"handler", "answer"})]
           /\ Started(x)
           /\ cmd[x] # "SET" => ReadStory(x)
           /\ cmd[x] = "SET" => SetStory(x)
<1>1. /\ x \in Req /\ asp \in [Req -> Asp]
      /\ failed \in [Req -> SUBSET (Mode \X {"handler", "answer"})]
  BY DEF SchedulerInv, TypeOK
<1>2. x # NoReq
  BY <1>1, ConstantsAssumption
<1>3. x \in Active /\ Started(x)
  BY <1>2 DEF Started, Active
<1>4. cmd[x] \in {"GET", "GETNEXT", "SET"}
  BY <1>1, <1>3, ConstantsAssumption DEF SchedulerInv, TypeOK, OnePlace, Accepted
<1> QED BY <1>1, <1>2, <1>3, <1>4 DEF HistoryInv, Story

LEMMA ResumeStory ==
    ASSUME SchedulerInv, HistoryInv, NEW x \in Req, ResumeDelegated(x)
    PROVE  HistoryInv'
<1>1. cur = NoReq /\ x \in delegatedList
  BY DEF ResumeDelegated, SchedulerInv, ControlInv, Running
<1>2. /\ x # NoReq /\ asp \in [Req -> Asp] /\ asp[x] \in Asp
      /\ cmd[x] \in {"GET", "GETNEXT", "SET"}
      /\ cmd[x] # "SET" => ReadStory(x)
      /\ cmd[x] = "SET" => SetStory(x)
  BY <1>1, ParkedType
<1>3. /\ cur' = x /\ from' = "scan" /\ delegatedList' = delegatedList \ {x}
      /\ asp[x].delegated = {}
      /\ cmd[x] = "SET" => pc' = "set"
      /\ cmd[x] # "SET" => pc' \in {"next", "done"}
      /\ UNCHANGED <<cmd, closed, calls, failed>>
  BY DEF ResumeDelegated, Delegated, sessVars, histVars
<1> DEFINE a == asp[x]
           c == Collected(a)
<1>4. /\ c.owner = a.owner /\ c.mode = a.mode /\ c.delegated = a.delegated
      /\ c.err = a.err
      /\ \/ c.index = a.index /\ c.status = a.status
         \/ c.status # "noError" /\ Marked(a)
      /\ (a.index # 0 => a.status # "noError") /\ Marked(a) => c.status # "noError"
  BY <1>2, CollectedFacts
<1> HIDE DEF c
<1>5. asp'[x] = c /\ \A r \in Req \ {x} : asp'[r] = asp[r]
  BY <1>2 DEF ResumeDelegated, c
<1>6. Started(x)' /\ ~InPass(x)' /\ ~InPass(x) /\ ~FirstRun(x)'
  BY <1>1, <1>2, <1>3 DEF Started, Active, InPass, FirstRun
<1>7. Story(x)'
  <2>1. CASE cmd[x] # "SET"
    <3>1. ReadStory(x)'
      BY <1>2, <1>3, <1>4, <1>5, <2>1 DEF ReadStory
    <3> QED BY <1>3, <1>6, <2>1, <3>1 DEF Story
  <2>2. CASE cmd[x] = "SET"
    <3>1. SetStory(x) /\ a.mode \notin {"BEGIN", "RESERVE2", "COMMIT", "FREE"}
      BY <1>1, <1>2, <2>2 DEF SetStory, Phases
    <3>2. Phases(x)'
      BY <1>3, <1>4, <1>5, <2>2, <3>1 DEF SetStory, Phases
    <3>3. Covered(x)'
      BY <1>3, <1>4, <1>5, <1>6, <3>1 DEF SetStory, Covered
    <3>4. FirstRunStory(x)' /\ CleanCommit(x)'
      BY <1>4, <1>5, <1>6, <3>1 DEF FirstRunStory, CleanCommit
    <3>5. CleanStart(x)' = CleanStart(x) /\ EarlyFailure(x)' = EarlyFailure(x)
      BY <1>3 DEF CleanStart, CalledIn, EarlyFailure
    <3>6. Marked(asp'[x]) <=> Marked(a)
      BY <1>4, <1>5 DEF Marked
    <3>7. Clean(x)'
      <4> SUFFICES ASSUME CleanStart(x), a.mode \in {"BEGIN"} \cup Early
                   PROVE  /\ \A f \in EarlyFailure(x) : f[1] = a.mode
                          /\ EarlyFailure(x) # {} => c.status # "noError"
                          /\ c.index # 0 => c.status # "noError"
                          /\ c.index # 0 \/ Marked(a) \/ c.status # "noError" =>
                               EarlyFailure(x) # {}
        BY <1>4, <1>5, <1>6, <3>5, <3>6 DEF Clean, Flagged
      <4>1. /\ \A f \in EarlyFailure(x) : f[1] = a.mode
            /\ EarlyFailure(x) # {} => a.status # "noError" \/ Marked(a)
            /\ a.index # 0 => a.status # "noError"
            /\ a.index # 0 \/ Marked(a) \/ a.status # "noError" => EarlyFailure(x) # {}
        BY <1>6, <3>1 DEF SetStory, Clean, Flagged
      <4> QED BY <1>4, <4>1
    <3>8. Undone(x)'
      BY <1>4, <1>5, <3>1 DEF SetStory, Undone
    <3> QED BY <1>3, <1>6, <2>2, <3>2, <3>3, <3>4, <3>7, <3>8 DEF Story, SetStory
  <2> QED BY <2>1, <2>2
<1>8. \A r \in Req \ {x} :
         /\ r \in delegatedList' <=> r \in delegatedList
         /\ asp'[r] = asp[r] /\ cmd'[r] = cmd[r]
         /\ calls'[r] = calls[r] /\ failed'[r] = failed[r]
  BY <1>3, <1>5
<1> QED BY <1>1, <1>3, <1>7, <1>8, OneStory

-----------------------------------------------------------------------------
(* A handler is called.                                                    *)

\* What the handlers of a slot leave behind: they hit if they return or mark
\* an error.
LEMMA ResultFacts ==
    ASSUME NEW a \in Asp, NEW s, NEW C \in SUBSET Varbind, NEW h \in SlotResults(a, s, C)
    PROVE  /\ h.hit \in BOOLEAN
           /\ ~h.hit => h.err = a.err /\ h.ret = "noError"
           /\ h.hit => h.ret # "noError" \/ \E v \in C : h.err[v] # "noError"
           /\ s \in Session \ closed /\ a.mode \in AgentxAnswered =>
                h.delegated = a.delegated \cup C
           /\ ~(s \in Session \ closed /\ a.mode \in AgentxAnswered) =>
                h.delegated = a.delegated
<1>1. CASE s \in closed
  <2>1. h.delegated = a.delegated /\ h.ret = "genErr" /\ h.hit = TRUE
    BY <1>1 DEF SlotResults, GoneResult
  <2> QED BY <1>1, <2>1
<1>2. CASE s \notin closed /\ s \in Session
  <2>1. h = MasterResult(a, C)
    BY <1>2 DEF SlotResults
  <2>2. /\ h.err = a.err /\ h.ret = "noError" /\ h.hit = FALSE
        /\ a.mode \in AgentxAnswered => h.delegated = a.delegated \cup C
        /\ a.mode \notin AgentxAnswered => h.delegated = a.delegated
    BY <2>1 DEF MasterResult
  <2> QED BY <1>2, <2>2
<1>3. CASE s \notin closed /\ s \notin Session
  <2>1. PICK bad \in SUBSET C, e \in HandlerErr(a.mode), r \in {"noError", "genErr"} :
          h = [err |-> [v \in Varbind |-> IF v \in bad THEN e ELSE a.err[v]],
               delegated |-> a.delegated, ret |-> r, hit |-> bad # {} \/ r # "noError"]
    BY <1>3 DEF SlotResults, LocalResults
  <2>2. e # "noError"
    BY DEF HandlerErr
  <2>3. bad = {} => h.err = a.err
    BY <2>1 DEF Asp
  <2>4. \A v \in bad : v \in C /\ h.err[v] # "noError"
    BY <2>1, <2>2
  <2>5. /\ h.hit <=> bad # {} \/ r # "noError"
        /\ h.hit \in BOOLEAN /\ h.ret = r /\ h.delegated = a.delegated
    BY <2>1
  <2> QED BY <1>3, <2>3, <2>4, <2>5
<1> QED BY <1>1, <1>2, <1>3

\* One turn of the loop of Agent_handleVarRequests: the varbinds C of the slot
\* s of request x are called, and hit or not.
Turn(x, C, s, hit) ==
    LET a == asp[x]
        b == asp'[x]
    IN /\ C \subseteq Varbind /\ s \in Slot /\ \E v \in C : TRUE
       /\ \A v \in C : a.owner[v] = s
       /\ left' = left \ C
       /\ b.mode = a.mode /\ b.owner = a.owner
       /\ s \in Session \ closed /\ a.mode \in AgentxAnswered =>
            b.delegated = a.delegated \cup C
       /\ ~(s \in Session \ closed /\ a.mode \in AgentxAnswered) =>
            b.delegated = a.delegated
       /\ s \in closed => calls'[x] = calls[x]
       /\ s \notin closed => calls'[x] = calls[x] \cup {<<s, a.mode>>}
       /\ hit => failed'[x] = failed[x] \cup {<<a.mode, "handler">>}
       /\ ~hit => failed'[x] = failed[x] /\ b.err = a.err
       /\ \/ b.index = a.index /\ b.status = a.status
          \/ b.status # "noError" /\ Marked(b)
       /\ final # "noError" => final' = final
       /\ final = "noError" /\ ~hit => final' = b.status
       /\ hit /\ LookFor(a.mode) = "any" /\ (a.index # 0 => a.status # "noError") =>
            final' # "noError"

LEMMA CallIsTurn ==
    ASSUME SchedulerInv, HistoryInv, CallSlot, NEW x \in Req, x = cur
    PROVE  /\ \E C, s, hit : Turn(x, C, s, hit)
           /\ \A r \in Req \ {x} :
                 asp'[r] = asp[r] /\ calls'[r] = calls[r] /\ failed'[r] = failed[r]
<1> DEFINE a == asp[x]
           v == MinOf(left)
           s == a.owner[v]
           C == Chain(a.owner, left, v)
<1>1. left # {} /\ left \in SUBSET Varbind /\ a \in Asp /\ asp \in [Req -> Asp]
      /\ calls \in [Req -> SUBSET (Slot \X Mode)]
      /\ failed \in [Req -> SUBSET (Mode \X {"handler", "answer"})]
  BY DEF CallSlot, SchedulerInv, TypeOK
<1>2. v \in left /\ v \in Varbind
  BY <1>1, MinOfIn
<1>3. /\ C \in SUBSET Varbind /\ v \in C /\ s \in Slot
      /\ \A w \in C : a.owner[w] = s
  BY <1>1, <1>2 DEF Chain, Asp
<1> HIDE DEF v, C
<1>4. PICK h \in SlotResults(a, s, C) :
        LET y  == [a EXCEPT !.err = h.err, !.delegated = h.delegated]
            b  == CheckRequestsStatus(y, C, LookFor(a.mode))
            st == IF b.status # "noError" THEN b.status ELSE h.ret
        IN /\ asp' = [asp EXCEPT ![x] = b]
           /\ left' = left \ C
           /\ final' = IF final = "noError" THEN st ELSE final
           /\ calls' = [calls EXCEPT ![x] =
                          IF s \in closed THEN @ ELSE @ \cup {<<s, a.mode>>}]
           /\ failed' = [failed EXCEPT ![x] =
                          IF h.hit THEN @ \cup {<<a.mode, "handler">>} ELSE @]
  BY DEF CallSlot, v, C
<1> DEFINE y == [a EXCEPT !.err = h.err, !.delegated = h.delegated]
           b == CheckRequestsStatus(y, C, LookFor(a.mode))
           hit == h.hit
<1>5. /\ h.err \in [Varbind -> ErrStat] /\ h.delegated \in SUBSET Varbind
      /\ h.ret \in ErrStat
  BY <1>1, <1>3, SlotResultsType
<1>6. /\ y \in Asp /\ y.err = h.err /\ y.delegated = h.delegated /\ y.mode = a.mode
      /\ y.owner = a.owner /\ y.index = a.index /\ y.status = a.status
  BY <1>1, <1>5 DEF Asp
<1> HIDE DEF y
<1>7. LookFor(a.mode) # "noError"
  BY DEF LookFor
<1>8. /\ b.owner = y.owner /\ b.mode = y.mode /\ b.delegated = y.delegated
      /\ b.err = y.err
      /\ \/ b.index = y.index /\ b.status = y.status
         \/ b.status # "noError" /\ \E w \in C : y.err[w] # "noError"
      /\ LookFor(a.mode) = "any" /\ (y.index # 0 => y.status # "noError")
           /\ (\E w \in C : y.err[w] # "noError") => b.status # "noError"
  BY <1>3, <1>6, <1>7, CheckFacts
<1>9. /\ asp' = [asp EXCEPT ![x] = b] /\ left' = left \ C
      /\ final # "noError" => final' = final
      /\ final = "noError" /\ b.status # "noError" => final' = b.status
      /\ final = "noError" /\ b.status = "noError" => final' = h.ret
  BY <1>4 DEF y
<1>10. /\ s \in closed => calls' = [calls EXCEPT ![x] = calls[x]]
       /\ s \notin closed => calls' = [calls EXCEPT ![x] = calls[x] \cup {<<s, a.mode>>}]
       /\ hit => failed' = [failed EXCEPT ![x] = failed[x] \cup {<<a.mode, "handler">>}]
       /\ ~hit => failed' = [failed EXCEPT ![x] = failed[x]]
  BY <1>4
<1> HIDE DEF b
<1>11. /\ hit \in BOOLEAN
       /\ ~hit => h.err = a.err /\ h.ret = "noError"
       /\ hit => h.ret # "noError" \/ \E w \in C : h.err[w] # "noError"
       /\ s \in Session \ closed /\ a.mode \in AgentxAnswered =>
            h.delegated = a.delegated \cup C
       /\ ~(s \in Session \ closed /\ a.mode \in AgentxAnswered) =>
            h.delegated = a.delegated
  BY <1>1, <1>3, ResultFacts
<1>12. asp'[x] = b
  BY <1>1, <1>9
<1>13. /\ s \in closed => calls'[x] = calls[x]
       /\ s \notin closed => calls'[x] = calls[x] \cup {<<s, a.mode>>}
       /\ hit => failed'[x] = failed[x] \cup {<<a.mode, "handler">>}
       /\ ~hit => failed'[x] = failed[x]
  BY <1>1, <1>10
<1>14. \/ b.index = a.index /\ b.status = a.status
       \/ b.status # "noError" /\ Marked(b)
  BY <1>3, <1>6, <1>8 DEF Marked
<1>15. final = "noError" /\ ~hit => final' = b.status
  BY <1>9, <1>11
<1>16. hit /\ LookFor(a.mode) = "any" /\ (a.index # 0 => a.status # "noError") =>
         final' # "noError"
  BY <1>6, <1>8, <1>9, <1>11
<1> HIDE DEF a, s, hit
<1>17. Turn(x, C, s, hit)
  BY <1>3, <1>6, <1>8, <1>9, <1>11, <1>12, <1>13, <1>14, <1>15, <1>16 DEF Turn, a, s, hit
<1>18. \A r \in Req \ {x} :
          asp'[r] = asp[r] /\ calls'[r] = calls[r] /\ failed'[r] = failed[r]
  BY <1>1, <1>9, <1>10 DEF a, s, hit
<1> QED BY <1>17, <1>18

LEMMA TurnSet ==
    ASSUME NEW x \in Req, x = cur, x # NoReq, x \notin delegatedList, SetStory(x), pc = "pass",
           UNCHANGED <<cmd, delegatedList, pc, cur, from, closed>>,
           NEW C, NEW s, NEW hit, Turn(x, C, s, hit)
    PROVE  SetStory(x)'
<1> DEFINE a == asp[x]
           b == asp'[x]
<1>1. /\ C \subseteq Varbind /\ s \in Slot /\ \E v \in C : TRUE
      /\ \A v \in C : a.owner[v] = s
      /\ left' = left \ C
      /\ b.mode = a.mode /\ b.owner = a.owner
      /\ s \in Session \ closed /\ a.mode \in AgentxAnswered =>
           b.delegated = a.delegated \cup C
      /\ ~(s \in Session \ closed /\ a.mode \in AgentxAnswered) =>
           b.delegated = a.delegated
  BY DEF Turn
<1>2. /\ calls'[x] \subseteq calls[x] \cup {<<s, a.mode>>}
      /\ calls[x] \subseteq calls'[x]
      /\ s \in closed \/ <<s, a.mode>> \in calls'[x]
  BY DEF Turn
<1>3. /\ failed'[x] \subseteq failed[x] \cup {<<a.mode, "handler">>}
      /\ failed[x] \subseteq failed'[x]
  BY DEF Turn
<1>4. /\ hit => <<a.mode, "handler">> \in failed'[x]
      /\ ~hit => failed'[x] = failed[x] /\ (Marked(b) <=> Marked(a))
  BY DEF Turn, Marked
<1>5. /\ \/ b.index = a.index /\ b.status = a.status
         \/ b.status # "noError" /\ Marked(b)
      /\ final # "noError" => final' = final
      /\ final = "noError" /\ ~hit => final' = b.status
      /\ hit /\ LookFor(a.mode) = "any" /\ (a.index # 0 => a.status # "noError") =>
           final' # "noError"
  BY DEF Turn
<1>6. InPass(x) /\ InPass(x)' /\ (FirstRun(x)' <=> FirstRun(x))
  BY DEF InPass, FirstRun
<1>7. a.mode \in SetMode \ {"BEGIN"} /\ a.mode \in Upto(a.mode)
  BY DEF SetStory, Phases, SetMode, Upto, Early
<1>8. Phases(x)'
  <2>1. calls'[x] \subseteq Slot \X Upto(a.mode)
    BY <1>1, <1>2, <1>7 DEF SetStory, Phases
  <2>2. failed'[x] \subseteq Upto(a.mode) \X {"handler", "answer"}
    BY <1>3, <1>7 DEF SetStory, Phases
  <2>3. \A c \in calls'[x] : \E v \in Varbind : b.owner[v] = c[1]
    <3> SUFFICES ASSUME NEW c \in calls'[x] PROVE \E v \in Varbind : a.owner[v] = c[1]
      BY <1>1
    <3>1. c \in calls[x] \/ c = <<s, a.mode>>
      BY <1>2
    <3>2. \E v \in Varbind : a.owner[v] = s
      BY <1>1
    <3>3. <<s, a.mode>>[1] = s
      OBVIOUS
    <3>4. \A d \in calls[x] : \E v \in Varbind : a.owner[v] = d[1]
      BY DEF SetStory, Phases
    <3> HIDE DEF a
    <3> QED BY <3>1, <3>2, <3>3, <3>4
  <2>4. \A v \in b.delegated : b.owner[v] \in Session /\ <<b.owner[v], b.mode>> \in calls'[x]
    BY <1>1, <1>2 DEF SetStory, Phases
  <2>5. a.mode \in {"RESERVE2", "COMMIT", "FREE"} => b.delegated = {}
    BY <1>1 DEF SetStory, Phases, AgentxAnswered
  <2> QED BY <1>1, <1>7, <2>1, <2>2, <2>3, <2>4, <2>5 DEF Phases
<1>9. Covered(x)'
  <2> SUFFICES ASSUME NEW v \in Varbind \ left'
               PROVE  a.owner[v] \in closed \/ <<a.owner[v], a.mode>> \in calls'[x]
    BY <1>1, <1>6 DEF Covered
  <2>1. CASE v \in C
    BY <1>1, <1>2, <2>1
  <2>2. CASE v \notin C
    <3>1. v \in Varbind \ left
      BY <1>1, <2>2
    <3>2. a.owner[v] \in closed \/ <<a.owner[v], a.mode>> \in calls[x]
      BY <1>6, <1>7, <3>1 DEF SetStory, Covered
    <3> QED BY <1>2, <3>2
  <2> QED BY <2>1, <2>2
<1>10. FirstRunStory(x)'
  <2> SUFFICES ASSUME FirstRun(x)
               PROVE  /\ \A f \in failed'[x] : f[2] = "handler"
                      /\ a.mode = "RESERVE1" /\ (b.index # 0 \/ Marked(b)) =>
                           <<"RESERVE1", "handler">> \in failed'[x]
                      /\ a.mode = "RESERVE1" =>
                           \A v \in Varbind \ left' :
                              a.owner[v] \in Session \ closed => v \in b.delegated
                      /\ a.mode # "RESERVE1" =>
                           /\ b.delegated = {}
                           /\ \A v \in Varbind : a.owner[v] \notin Session \ closed
    BY <1>1, <1>6, <1>7 DEF FirstRunStory
  <2>1. \A f \in failed'[x] : f[2] = "handler"
    <3>1. <<a.mode, "handler">>[2] = "handler"
      OBVIOUS
    <3> DEFINE t == <<a.mode, "handler">>
    <3>2. failed'[x] \subseteq failed[x] \cup {t} /\ \A f \in failed[x] : f[2] = "handler"
      BY <1>3 DEF SetStory, FirstRunStory
    <3> HIDE DEF t
    <3> QED BY <3>1, <3>2 DEF t
  <2>2. a.mode = "RESERVE1" /\ (b.index # 0 \/ Marked(b)) =>
          <<"RESERVE1", "handler">> \in failed'[x]
    BY <1>3, <1>4, <1>5 DEF SetStory, FirstRunStory
  <2>3. a.mode = "RESERVE1" =>
          \A v \in Varbind \ left' : a.owner[v] \in Session \ closed => v \in b.delegated
    BY <1>1 DEF SetStory, FirstRunStory, AgentxAnswered
  <2>4. a.mode # "RESERVE1" =>
          /\ b.delegated = {}
          /\ \A v \in Varbind : a.owner[v] \notin Session \ closed
    BY <1>1, <1>7 DEF SetStory, FirstRunStory
  <2> QED BY <2>1, <2>2, <2>3, <2>4
<1>11. CleanStart(x)' => CleanStart(x)
  <2>1. CalledIn(x, "RESERVE1") \subseteq CalledIn(x, "RESERVE1")'
    BY <1>2 DEF CalledIn
  <2> QED BY <1>3, <2>1 DEF CleanStart
<1> HIDE DEF a, b
<1>12. Clean(x)'
  <2> SUFFICES ASSUME CleanStart(x), a.mode \in Early
               PROVE  /\ \A f \in EarlyFailure(x)' : f[1] = a.mode
                      /\ EarlyFailure(x)' # {} => final' # "noError"
                      /\ b.index # 0 => b.status # "noError"
                      /\ b.index # 0 \/ Marked(b) \/ b.status # "noError" \/ final' # "noError"
                           => EarlyFailure(x)' # {}
    BY <1>1, <1>6, <1>7, <1>11 DEF Clean, Flagged, a, b
  <2>1. /\ \A f \in EarlyFailure(x) : f[1] = a.mode
        /\ EarlyFailure(x) # {} => final # "noError"
        /\ a.index # 0 => a.status # "noError"
        /\ a.index # 0 \/ Marked(a) \/ a.status # "noError" \/ final # "noError" =>
             EarlyFailure(x) # {}
    BY <1>6 DEF SetStory, Clean, Flagged, a
  <2>2. LookFor(a.mode) = "any"
    BY DEF LookFor, Early
  <2>3. CASE hit
    <3> DEFINE t == <<a.mode, "handler">>
    <3>1. t[1] = a.mode
      OBVIOUS
    <3>2. t \in EarlyFailure(x)' /\ EarlyFailure(x)' \subseteq EarlyFailure(x) \cup {t}
      BY <1>3, <1>4, <2>3, <3>1 DEF EarlyFailure, Early
    <3>3. final' # "noError"
      BY <1>5, <2>1, <2>2, <2>3
    <3> HIDE DEF t
    <3> QED BY <1>5, <2>1, <3>1, <3>2, <3>3
  <2>4. CASE ~hit
    <3>1. EarlyFailure(x)' = EarlyFailure(x)
      BY <1>4, <2>4 DEF EarlyFailure
    <3> QED BY <1>4, <1>5, <2>1, <2>4, <3>1
  <2> QED BY <2>3, <2>4
<1>13. CleanCommit(x)'
  <2> SUFFICES ASSUME CleanStart(x), a.mode = "COMMIT"
               PROVE  /\ EarlyFailure(x)' = {}
                      /\ b.index # 0 \/ Marked(b) \/ b.status # "noError" \/ final' # "noError"
                           => <<"COMMIT", "handler">> \in failed'[x]
    BY <1>1, <1>6, <1>11 DEF CleanCommit, a, b
  <2>1. /\ EarlyFailure(x) = {}
        /\ a.index # 0 \/ Marked(a) \/ a.status # "noError" \/ final # "noError" =>
             <<"COMMIT", "handler">> \in failed[x]
    BY <1>6 DEF SetStory, CleanCommit, a
  <2>2. EarlyFailure(x)' = {}
    <3>1. <<"COMMIT", "handler">>[1] = "COMMIT"
      OBVIOUS
    <3> QED BY <1>3, <2>1, <3>1 DEF EarlyFailure
  <2> QED BY <1>3, <1>4, <1>5, <2>1, <2>2
<1>14. Undone(x)'
  BY <1>1, <1>5 DEF SetStory, Undone, a, b
<1> QED BY <1>8, <1>9, <1>10, <1>12, <1>13, <1>14 DEF SetStory

LEMMA CallSlotStory ==
    ASSUME SchedulerInv, HistoryInv, CallSlot
    PROVE  HistoryInv'
<1>1. /\ pc = "pass" /\ pc \in Running
      /\ UNCHANGED <<cmd, delegatedList, pc, cur, from, closed>>
  BY DEF CallSlot, Running, listVars, sessVars
<1>2. PICK x \in Req :
        /\ x = cur /\ x # NoReq /\ x \notin delegatedList
        /\ cmd[x] # "SET" => ReadStory(x)
        /\ cmd[x] = "SET" => SetStory(x)
  BY <1>1, RunType
<1>3. /\ \E C, s, hit : Turn(x, C, s, hit)
      /\ \A r \in Req \ {x} :
            asp'[r] = asp[r] /\ calls'[r] = calls[r] /\ failed'[r] = failed[r]
  BY <1>2, CallIsTurn
<1>4. PICK C, s, hit : Turn(x, C, s, hit)
  BY <1>3
<1>5. cmd[x] # "SET" => ReadStory(x)'
  BY <1>1, <1>2, <1>4 DEF Turn, ReadStory
<1>6. cmd[x] = "SET" => SetStory(x)'
  BY <1>1, <1>2, <1>4, TurnSet
<1>7. Started(x)'
  BY <1>1, <1>2 DEF Started, Active
<1>8. Story(x)'
  BY <1>1, <1>5, <1>6, <1>7 DEF Story
<1> QED BY <1>1, <1>2, <1>3, <1>8, RunStory

-----------------------------------------------------------------------------
(* Answers.                                                                *)

\* Requests that are delegated lose delegated varbinds; a SET that fails is
\* marked.
LEMMA AnswerStory ==
    ASSUME SchedulerInv, HistoryInv, cur = NoReq,
           UNCHANGED <<cmd, delegatedList, cur, closed, calls>>,
           \A r \in Req :
              /\ asp'[r].mode = asp[r].mode /\ asp'[r].status = asp[r].status
              /\ asp'[r].index = asp[r].index /\ asp'[r].owner = asp[r].owner
              /\ asp'[r].delegated \subseteq asp[r].delegated
              /\ \/ asp'[r].err = asp[r].err /\ failed'[r] = failed[r]
                 \/ /\ r \in delegatedList /\ (cmd[r] = "SET" => Marked(asp'[r]))
                    /\ failed'[r] = failed[r] \cup {<<asp[r].mode, "answer">>}
    PROVE  HistoryInv'
<1> SUFFICES ASSUME NEW r \in Req PROVE Story(r)'
  BY DEF HistoryInv
<1>1. /\ asp'[r].mode = asp[r].mode /\ asp'[r].status = asp[r].status
      /\ asp'[r].index = asp[r].index /\ asp'[r].owner = asp[r].owner
      /\ asp'[r].delegated \subseteq asp[r].delegated
      /\ \/ asp'[r].err = asp[r].err /\ failed'[r] = failed[r]
         \/ /\ r \in delegatedList /\ (cmd[r] = "SET" => Marked(asp'[r]))
            /\ failed'[r] = failed[r] \cup {<<asp[r].mode, "answer">>}
  OBVIOUS
<1>2. r # NoReq
  BY ConstantsAssumption
<1>3. CASE r \notin delegatedList
  <2>1. ~Started(r) /\ ~Started(r)'
    BY <1>2, <1>3 DEF Started, Active
  <2>2. calls[r] = {} /\ failed[r] = {}
    BY <2>1 DEF HistoryInv, Story
  <2> QED BY <1>1, <1>3, <2>1, <2>2, StoryFresh
<1>4. CASE r \in delegatedList
  <2>1. /\ Started(r) /\ Started(r)'
        /\ cmd[r] # "SET" => ReadStory(r)
        /\ cmd[r] = "SET" => SetStory(r)
    BY <1>2, <1>4, ParkedType DEF Started, Active
  <2>2. ~InPass(r) /\ ~InPass(r)' /\ ~FirstRun(r)'
    BY <1>2 DEF InPass, FirstRun
  <2>3. CASE cmd[r] # "SET"
    <3>1. ReadStory(r)'
      BY <1>1, <1>2, <2>1, <2>3 DEF ReadStory
    <3> QED BY <2>1, <2>3, <3>1 DEF Story
  <2>4. CASE cmd[r] = "SET"
    <3>1. SetStory(r) /\ asp[r].mode \in {"RESERVE1", "ACTION", "UNDO"}
      BY <1>2, <2>1, <2>4 DEF SetStory, Phases, SetMode
    <3>2. asp[r].mode \in Upto(asp[r].mode)
      BY <3>1 DEF Upto, Early
    <3>3. Phases(r)'
      BY <1>1, <1>2, <3>1, <3>2 DEF SetStory, Phases
    <3>4. Covered(r)'
      BY <1>1, <2>2, <3>1 DEF SetStory, Covered
    <3>5. FirstRunStory(r)' /\ CleanCommit(r)'
      BY <1>1, <2>2, <3>1 DEF FirstRunStory, CleanCommit
    <3>6. CleanStart(r)' = CleanStart(r)
      BY <1>1 DEF CleanStart, CalledIn
    <3>7. \/ EarlyFailure(r)' = EarlyFailure(r) /\ (Marked(asp'[r]) <=> Marked(asp[r]))
          \/ Marked(asp'[r])
             /\ EarlyFailure(r)' = EarlyFailure(r) \cup
                  (IF asp[r].mode \in Early THEN {<<asp[r].mode, "answer">>} ELSE {})
      BY <1>1, <2>4 DEF EarlyFailure, Early, Marked
    <3>8. Clean(r)'
      <4> DEFINE a == asp[r]
                 E == EarlyFailure(r)
      <4> SUFFICES ASSUME CleanStart(r), a.mode \in {"BEGIN"} \cup Early
                   PROVE  /\ \A f \in EarlyFailure(r)' : f[1] = a.mode
                          /\ EarlyFailure(r)' # {} => a.status # "noError" \/ Marked(asp'[r])
                          /\ a.index # 0 => a.status # "noError"
                          /\ a.index # 0 \/ Marked(asp'[r]) \/ a.status # "noError" =>
                               EarlyFailure(r)' # {}
        BY <1>1, <1>4, <2>2, <3>6 DEF Clean, Flagged
      <4>1. /\ \A f \in E : f[1] = a.mode
            /\ E # {} => a.status # "noError" \/ Marked(a)
            /\ a.index # 0 => a.status # "noError"
            /\ a.index # 0 \/ Marked(a) \/ a.status # "noError" => E # {}
        BY <2>2, <3>1 DEF SetStory, Clean, Flagged
      <4>2. a.mode \in Early
        BY <3>1
      <4>3. CASE EarlyFailure(r)' = E /\ (Marked(asp'[r]) <=> Marked(a))
        BY <4>1, <4>3
      <4>4. CASE Marked(asp'[r]) /\ EarlyFailure(r)' = E \cup {<<a.mode, "answer">>}
        <5>1. <<a.mode, "answer">>[1] = a.mode
          OBVIOUS
        <5> DEFINE t == <<a.mode, "answer">>
        <5> HIDE DEF t, E, a
        <5> QED BY <4>1, <4>4, <5>1 DEF t
      <4> QED BY <3>7, <4>2, <4>3, <4>4
    <3>9. Undone(r)'
      BY <1>1, <3>1 DEF SetStory, Undone
    <3> QED BY <2>1, <2>4, <3>3, <3>4, <3>5, <3>8, <3>9 DEF Story, SetStory
  <2> QED BY <2>3, <2>4
<1> QED BY <1>3, <1>4

LEMMA ReleaseKeeps ==
    ASSUME SchedulerInv, NEW x \in Req, NEW V, NEW r \in Req
    PROVE  /\ Release(x, V)[r].mode = asp[r].mode
           /\ Release(x, V)[r].status = asp[r].status
           /\ Release(x, V)[r].index = asp[r].index
           /\ Release(x, V)[r].owner = asp[r].owner
           /\ Release(x, V)[r].err = asp[r].err
           /\ Release(x, V)[r].delegated \subseteq asp[r].delegated
<1>1. asp \in [Req -> Asp] /\ asp[x] \in Asp
  BY DEF SchedulerInv, TypeOK
<1> QED BY <1>1 DEF Release, Asp

LEMMA FailKeeps ==
    ASSUME SchedulerInv, NEW x \in Req, NEW V, NEW v, NEW e, NEW r \in Req
    PROVE  /\ Fail(x, V, v, e)[r].mode = asp[r].mode
           /\ Fail(x, V, v, e)[r].status = asp[r].status
           /\ Fail(x, V, v, e)[r].index = asp[r].index
           /\ Fail(x, V, v, e)[r].owner = asp[r].owner
           /\ Fail(x, V, v, e)[r].delegated \subseteq asp[r].delegated
<1> DEFINE y == [asp[x] EXCEPT !.delegated = @ \ V, !.err[v] = e]
<1>1. Fail(x, V, v, e) = [asp EXCEPT ![x] = y]
  BY DEF Fail
<1>2. asp \in [Req -> Asp] /\ asp[x] \in Asp
  BY DEF SchedulerInv, TypeOK
<1>3. /\ y.mode = asp[x].mode /\ y.status = asp[x].status /\ y.index = asp[x].index
      /\ y.owner = asp[x].owner /\ y.delegated \subseteq asp[x].delegated
      /\ y.err = [asp[x].err EXCEPT ![v] = e]
  BY <1>2 DEF Asp
<1> HIDE DEF y
<1> QED BY <1>1, <1>2, <1>3

LEMMA FailMarks ==
    ASSUME SchedulerInv, NEW x \in Req, NEW V, NEW v \in Varbind, NEW e, e # "noError"
    PROVE  Marked(Fail(x, V, v, e)[x])
<1> DEFINE y == [asp[x] EXCEPT !.delegated = @ \ V, !.err[v] = e]
<1>1. asp \in [Req -> Asp] /\ asp[x] \in Asp
  BY DEF SchedulerInv, TypeOK
<1>2. y.err = [asp[x].err EXCEPT ![v] = e] /\ asp[x].err \in [Varbind -> ErrStat]
  BY <1>1 DEF Asp
<1>3. Fail(x, V, v, e)[x] = y
  BY <1>1 DEF Fail
<1> HIDE DEF y
<1> QED BY <1>2, <1>3 DEF Marked

LEMMA FailOther ==
    ASSUME NEW x \in Req, NEW V, NEW v, NEW e, SchedulerInv, NEW r \in Req, r # x
    PROVE  Fail(x, V, v, e)[r] = asp[r]
BY DEF Fail, SchedulerInv, TypeOK

\* MasterAdmin_closeAgentxSession on the asps b and failures f.
LEMMA CloseStory ==
    ASSUME SchedulerInv, HistoryInv, pc = "idle", NEW s, NEW b \in [Req -> Asp], NEW f,
           CloseWith(b, f, s),
           \A r \in Req :
              /\ b[r].mode = asp[r].mode /\ b[r].status = asp[r].status
              /\ b[r].index = asp[r].index /\ b[r].owner = asp[r].owner
              /\ b[r].delegated \subseteq asp[r].delegated
              /\ \/ b[r].err = asp[r].err /\ f[r] = failed[r]
                 \/ /\ r \in delegatedList /\ (cmd[r] = "SET" => Marked(b[r]))
                    /\ f[r] = failed[r] \cup {<<asp[r].mode, "answer">>}
    PROVE  HistoryInv'
<1>1. PICK match \in BOOLEAN :
        LET gone(r) == IF match THEN Abandoned(b[r], r, s) ELSE {}
        IN /\ asp' = [r \in Req |->
                [b[r] EXCEPT !.delegated = @ \ gone(r),
                             !.err = [v \in Varbind |->
                                        IF v \in gone(r) THEN "genErr" ELSE @[v]]]]
           /\ failed' = [r \in Req |-> IF gone(r) = {} THEN f[r]
                                       ELSE f[r] \cup {<<asp[r].mode, "answer">>}]
  BY DEF CloseWith
<1>2. cur = NoReq /\ UNCHANGED <<cmd, delegatedList, cur, closed, calls>>
  BY DEF CloseWith, listVars, SchedulerInv, ControlInv, Running
<1> DEFINE gone(r) == IF match THEN Abandoned(b[r], r, s) ELSE {}
<1>3. ASSUME NEW r \in Req
      PROVE  /\ asp'[r].mode = asp[r].mode /\ asp'[r].status = asp[r].status
             /\ asp'[r].index = asp[r].index /\ asp'[r].owner = asp[r].owner
             /\ asp'[r].delegated \subseteq asp[r].delegated
             /\ \/ asp'[r].err = asp[r].err /\ failed'[r] = failed[r]
                \/ /\ r \in delegatedList /\ (cmd[r] = "SET" => Marked(asp'[r]))
                   /\ failed'[r] = failed[r] \cup {<<asp[r].mode, "answer">>}
  <2> DEFINE d == b[r].delegated \ gone(r)
             e == [v \in Varbind |-> IF v \in gone(r) THEN "genErr" ELSE b[r].err[v]]
  <2>1. asp'[r] = [b[r] EXCEPT !.delegated = d, !.err = e]
    BY <1>1 DEF Asp
  <2>2. failed'[r] = IF gone(r) = {} THEN f[r] ELSE f[r] \cup {<<asp[r].mode, "answer">>}
    BY <1>1
  <2>3. gone(r) \subseteq Varbind /\ (gone(r) # {} => r \in delegatedList)
    BY DEF Abandoned, FirstChain
  <2>4. gone(r) # {} => \E v \in Varbind : e[v] # "noError"
    BY <2>3
  <2>5. gone(r) = {} => e = b[r].err
    BY DEF Asp
  <2>6. \A v \in Varbind : b[r].err[v] # "noError" => e[v] # "noError"
    OBVIOUS
  <2>7. d \subseteq b[r].delegated
    OBVIOUS
  <2> HIDE DEF d, e, gone
  <2>8. /\ asp'[r].mode = b[r].mode /\ asp'[r].status = b[r].status
        /\ asp'[r].index = b[r].index /\ asp'[r].owner = b[r].owner
        /\ asp'[r].delegated = d /\ asp'[r].err = e
    BY <2>1 DEF Asp
  <2>9. Marked(b[r]) => Marked(asp'[r])
    BY <2>6, <2>8 DEF Marked
  <2>10. CASE gone(r) = {}
    BY <2>2, <2>5, <2>7, <2>8, <2>9, <2>10
  <2>11. CASE gone(r) # {}
    <3>1. Marked(asp'[r]) /\ r \in delegatedList
      BY <2>3, <2>4, <2>8, <2>11 DEF Marked
    <3>2. failed'[r] = failed[r] \cup {<<asp[r].mode, "answer">>}
      BY <2>2, <2>11
    <3> QED BY <2>7, <2>8, <3>1, <3>2
  <2> QED BY <2>10, <2>11
<1> QED BY <1>2, <1>3, AnswerStory

LEMMA AnswerErrFacts ==
    ASSUME NEW m
    PROVE  /\ "noError" \notin AnswerErr(m)
BY DEF AnswerErr, HandlerErr

LEMMA AnswerSteps ==
    ASSUME SchedulerInv, HistoryInv,
           \/ \E r \in Req, s \in Session : Answer(r, s)
           \/ \E s \in Session : CloseSession(s)
    PROVE  HistoryInv'
<1>1. asp \in [Req -> Asp] /\ failed \in [Req -> SUBSET (Mode \X {"handler", "answer"})]
  BY DEF SchedulerInv, TypeOK
<1>2. ASSUME NEW x \in Req, NEW s \in Session, Awaits(x, s)
      PROVE  /\ pc = "idle" /\ cur = NoReq /\ x \in delegatedList
             /\ Waiting(x, s) \in SUBSET Varbind /\ Waiting(x, s) # {}
             /\ MinOf(Waiting(x, s)) \in Varbind
             /\ \A r \in Req : r # x => AnswerFailed(x)[r] = failed[r]
             /\ AnswerFailed(x)[x] = failed[x] \cup {<<asp[x].mode, "answer">>}
  <2>1. pc = "idle" /\ x \in delegatedList /\ Waiting(x, s) # {}
    BY <1>2 DEF Awaits
  <2>2. cur = NoReq
    BY <2>1 DEF SchedulerInv, ControlInv, Running
  <2>3. Waiting(x, s) \in SUBSET Varbind
    BY <1>1 DEF Waiting, Asp
  <2>4. MinOf(Waiting(x, s)) \in Varbind
    BY <2>1, <2>3, MinOfIn
  <2>5. /\ \A r \in Req : r # x => AnswerFailed(x)[r] = failed[r]
        /\ AnswerFailed(x)[x] = failed[x] \cup {<<asp[x].mode, "answer">>}
    BY <1>1 DEF AnswerFailed
  <2> QED BY <2>1, <2>2, <2>3, <2>4, <2>5
<1>3. ASSUME NEW x \in Req, NEW s \in Session, AnswerOk(x, s) PROVE HistoryInv'
  <2>1. /\ Awaits(x, s) /\ asp' = Release(x, Waiting(x, s))
        /\ UNCHANGED <<cmd, delegatedList, cur, closed, calls, failed>>
    BY <1>3 DEF AnswerOk, listVars, ctlVars, sessVars, histVars
  <2> QED BY <1>2, <2>1, ReleaseKeeps, AnswerStory
<1>4. ASSUME NEW x \in Req, NEW s \in Session, AnswerError(x, s) \/ AnswerShort(x, s)
      PROVE  HistoryInv'
  <2>1. /\ Awaits(x, s) /\ failed' = AnswerFailed(x)
        /\ UNCHANGED <<cmd, delegatedList, cur, closed, calls>>
    BY <1>4 DEF AnswerError, AnswerShort, listVars, ctlVars, sessVars
  <2>2. \E V, e : \E v \in Varbind : e # "noError" /\ asp' = Fail(x, V, v, e)
    <3>1. CASE AnswerError(x, s)
      <4>1. PICK v \in Waiting(x, s), e \in AnswerErr(asp[x].mode) :
              asp' = Fail(x, Waiting(x, s), v, e)
        BY <3>1 DEF AnswerError
      <4>2. v \in Varbind /\ e # "noError"
        BY <1>2, <2>1, <4>1, AnswerErrFacts
      <4> QED BY <4>1, <4>2
    <3>2. CASE AnswerShort(x, s)
      <4>1. PICK v \in Waiting(x, s) :
              asp' = Fail(x, {w \in Waiting(x, s) : w < v}, MinOf(Waiting(x, s)), "genErr")
        BY <3>2 DEF AnswerShort
      <4>2. MinOf(Waiting(x, s)) \in Varbind
        BY <1>2, <2>1
      <4> QED BY <4>1, <4>2
    <3> QED BY <1>4, <3>1, <3>2
  <2>3. PICK V, e : \E v \in Varbind : e # "noError" /\ asp' = Fail(x, V, v, e)
    BY <2>2
  <2>4. PICK v \in Varbind : e # "noError" /\ asp' = Fail(x, V, v, e)
    BY <2>3
  <2>5. \A r \in Req :
          /\ asp'[r].mode = asp[r].mode /\ asp'[r].status = asp[r].status
          /\ asp'[r].index = asp[r].index /\ asp'[r].owner = asp[r].owner
          /\ asp'[r].delegated \subseteq asp[r].delegated
          /\ r # x => asp'[r] = asp[r]
          /\ r = x => Marked(asp'[r])
    <3> SUFFICES ASSUME NEW r \in Req
                 PROVE  /\ asp'[r].mode = asp[r].mode /\ asp'[r].status = asp[r].status
                        /\ asp'[r].index = asp[r].index /\ asp'[r].owner = asp[r].owner
                        /\ asp'[r].delegated \subseteq asp[r].delegated
                        /\ r # x => asp'[r] = asp[r]
                        /\ r = x => Marked(asp'[r])
      OBVIOUS
    <3>1. r # x => asp'[r] = asp[r]
      BY <2>4, FailOther
    <3>2. r = x => Marked(asp'[r])
      BY <2>4, FailMarks
    <3> QED BY <2>4, <3>1, <3>2, FailKeeps
  <2> QED BY <1>2, <2>1, <2>5, AnswerStory
<1>5. ASSUME NEW x \in Req, NEW s \in Session, TimeOut(x, s) PROVE HistoryInv'
  <2> DEFINE b == Fail(x, Waiting(x, s), MinOf(Waiting(x, s)), "genErr")
             f == AnswerFailed(x)
  <2>1. Awaits(x, s) /\ CloseWith(b, f, s)
    BY <1>5 DEF TimeOut
  <2>2. b \in [Req -> Asp]
    BY <1>2, <2>1, FailType DEF ErrStat
  <2>3. \A r \in Req :
          /\ b[r].mode = asp[r].mode /\ b[r].status = asp[r].status
          /\ b[r].index = asp[r].index /\ b[r].owner = asp[r].owner
          /\ b[r].delegated \subseteq asp[r].delegated
          /\ r # x => b[r] = asp[r]
          /\ r = x => Marked(b[r])
    <3> SUFFICES ASSUME NEW r \in Req
                 PROVE  /\ b[r].mode = asp[r].mode /\ b[r].status = asp[r].status
                        /\ b[r].index = asp[r].index /\ b[r].owner = asp[r].owner
                        /\ b[r].delegated \subseteq asp[r].delegated
                        /\ r # x => b[r] = asp[r]
                        /\ r = x => Marked(b[r])
      OBVIOUS
    <3>1. MinOf(Waiting(x, s)) \in Varbind
      BY <1>2, <2>1
    <3>2. r # x => b[r] = asp[r]
      BY FailOther
    <3>3. r = x => Marked(b[r])
      BY <3>1, FailMarks
    <3>4. /\ b[r].mode = asp[r].mode /\ b[r].status = asp[r].status
          /\ b[r].index = asp[r].index /\ b[r].owner = asp[r].owner
          /\ b[r].delegated \subseteq asp[r].delegated
      BY <3>1, FailKeeps
    <3> QED BY <3>2, <3>3, <3>4
  <2>4. /\ pc = "idle" /\ x \in delegatedList
        /\ \A r \in Req : r # x => f[r] = failed[r]
        /\ f[x] = failed[x] \cup {<<asp[x].mode, "answer">>}
    BY <1>2, <2>1
  <2> HIDE DEF b, f
  <2> QED BY <2>1, <2>2, <2>3, <2>4, CloseStory
<1>6. ASSUME NEW s \in Session, CloseSession(s) PROVE HistoryInv'
  BY <1>1, <1>6, CloseStory DEF CloseSession
<1> QED BY <1>3, <1>4, <1>5, <1>6 DEF Answer

-----------------------------------------------------------------------------
LEMMA InitStory == Init => HistoryInv
<1> SUFFICES ASSUME Init, NEW r \in Req PROVE Story(r)
  BY DEF HistoryInv
<1>1. ~Started(r) /\ calls[r] = {} /\ failed[r] = {}
  BY DEF Init, Started, Active
<1> QED BY <1>1 DEF Story

LEMMA NextStory == SchedulerInv /\ HistoryInv /\ [Next]_vars => HistoryInv'
<1> SUFFICES ASSUME SchedulerInv, HistoryInv, [Next]_vars PROVE HistoryInv'
  OBVIOUS
<1>1. CASE \E r \in Req : Receive(r) \/ Drop(r)
  BY <1>1, StartSteps
<1>2. CASE \/ \E r \in Req, s \in Session : Answer(r, s)
           \/ \E s \in Session : CloseSession(s)
  BY <1>2, AnswerSteps
<1>3. CASE \E s \in Session : CloseSubsession(s)
  BY <1>3, QuietSteps
<1>4. CASE InnerStep
  <2>1. CASE RefuseSet \/ FinishSet \/ FinishGetnext \/ FinishGet
    BY <2>1, EndSteps
  <2>2. CASE BeginSet
    BY <2>2, BeginSetStory
  <2>3. CASE NextSetPass
    BY <2>3, NextSetStory
  <2>4. CASE EndSetPass
    BY <2>4, EndSetStory
  <2>5. CASE BeginGet \/ NextGetPass \/ EndGetPass
    BY <2>5, ReadSteps
  <2>6. CASE CheckOutstanding \/ EndScan \/ ClaimGate \/ EndDrain
    BY <2>6, QuietSteps
  <2>7. CASE PopQueued
    BY <2>7, StartSteps
  <2>8. ASSUME NEW r \in Req, SkipDelegated(r) PROVE HistoryInv'
    BY <2>8, QuietSteps
  <2>9. ASSUME NEW r \in Req, ResumeDelegated(r) PROVE HistoryInv'
    BY <2>9, ResumeStory
  <2> QED BY <1>4, <2>1, <2>2, <2>3, <2>4, <2>5, <2>6, <2>7, <2>8, <2>9 DEF InnerStep
<1>5. CASE CallSlot
  BY <1>5, CallSlotStory
<1>6. CASE Unregister
  BY <1>6, QuietSteps
<1>7. CASE UNCHANGED vars
  <2>1. UNCHANGED <<delegatedList, asp, cmd, calls, failed, cur, pc, from, left, final, closed>>
    BY <1>7 DEF vars, reqVars, listVars, ctlVars, sessVars, histVars
  <2> SUFFICES ASSUME NEW r \in Req PROVE Story(r)'
    BY DEF HistoryInv
  <2>2. Story(r)
    BY DEF HistoryInv
  <2> QED BY <2>1, <2>2
          DEF Story, Started, Active, ReadStory, SetStory, Phases, Covered, InPass,
              FirstRunStory, FirstRun, Marked, Clean, CleanStart, CalledIn, EarlyFailure,
              Flagged, CleanCommit, Undone
<1> QED BY <1>1, <1>2, <1>3, <1>4, <1>5, <1>6, <1>7 DEF Next, AgentStep

(* What the agent keeps of a request tells what was called for it and what *)
(* failed, in every phase of Agent_handleSet.                              *)
THEOREM HistoryInvariant == Spec => [](SchedulerInv /\ HistoryInv)
<1>1. Init => SchedulerInv /\ HistoryInv
  BY InitScheduler, InitStory
<1>2. SchedulerInv /\ HistoryInv /\ [Next]_vars => (SchedulerInv /\ HistoryInv)'
  BY NextScheduler, NextStory
<1> QED BY <1>1, <1>2, PTL DEF Spec

LEMMA CommittedFacts ==
    ASSUME HistoryInv, NEW r \in Req, Committed(r)
    PROVE  asp[r].mode = "COMMIT" /\ SetStory(r)
<1>1. PICK s \in Slot : <<s, "COMMIT">> \in calls[r]
  BY DEF Committed, Called
<1>2. Started(r)
  BY <1>1 DEF HistoryInv, Story
<1>3. SetStory(r)
  BY <1>1, <1>2 DEF HistoryInv, Story, ReadStory
<1>4. "COMMIT" \in Upto(asp[r].mode) /\ asp[r].mode \in SetMode
  BY <1>1, <1>3 DEF SetStory, Phases
<1>5. asp[r].mode = "COMMIT"
  BY <1>4 DEF Upto, Early, SetMode
<1> QED BY <1>3, <1>5

(* A failure found before COMMIT is never committed, after a clean start   *)
(* (Agent_handleSet).                                                      *)
THEOREM FailureNotCommittedCorrect == Spec => []FailureNotCommitted
<1>1. SchedulerInv /\ HistoryInv => FailureNotCommitted
  BY CommittedFacts DEF FailureNotCommitted, SetStory, CleanCommit
<1> QED BY <1>1, HistoryInvariant, PTL

\* A SET is answered before its first phase or at its end, and its response is
\* its status.
LEMMA SetAnswered ==
    ASSUME SchedulerInv, HistoryInv, Next, NEW r \in Req, Answers(r)
    PROVE  \/ calls[r] = {} /\ response'[r] # "noError"
           \/ /\ SetStory(r) /\ ~InPass(r)
              /\ asp[r].mode \in Settling /\ response'[r] = asp[r].status
<1>1. cmd[r] = "SET" /\ response'[r] # response[r]
  BY DEF Answers
<1>2. response \in [Req -> ErrStat \cup {"none", "dropped"}]
  BY DEF SchedulerInv, TypeOK
<1>3. ASSUME NEW st, WrapUp(cur, st) PROVE r = cur /\ response'[r] = st
  <2>1. response' = [response EXCEPT ![cur] = st]
    BY <1>3 DEF WrapUp
  <2> QED BY <1>1, <1>2, <2>1
<1>4. ASSUME r = cur
      PROVE  /\ pc = "pdu" => calls[r] = {}
             /\ pc # "pdu" => SetStory(r)
  <2>1. r # NoReq /\ pc \in Running
    BY <1>4, ConstantsAssumption DEF SchedulerInv, ControlInv
  <2>2. Started(r) <=> pc # "pdu"
    BY <1>4, <2>1 DEF Started, Active, SchedulerInv, OnePlace
  <2> QED BY <1>1, <2>2 DEF HistoryInv, Story
<1>5. ASSUME RefuseSet PROVE calls[r] = {} /\ response'[r] # "noError"
  <2>1. pc = "pdu" /\ WrapUp(cur, "noAccess")
    BY <1>5 DEF RefuseSet
  <2> QED BY <1>3, <1>4, <2>1
<1>6. ASSUME FinishSet
      PROVE  /\ SetStory(r) /\ ~InPass(r)
             /\ asp[r].mode \in Settling /\ response'[r] = asp[r].status
  <2>1. /\ pc = "set" /\ WrapUp(cur, asp[cur].status)
        /\ NextMode(asp[cur].mode, asp[cur].status) \in Finished
    BY <1>6 DEF FinishSet
  <2>2. r = cur /\ response'[r] = asp[cur].status
    BY <1>3, <2>1
  <2>3. SetStory(r) /\ ~InPass(r)
    BY <1>4, <2>1, <2>2 DEF InPass
  <2>4. asp[r].mode \in SetMode /\ NextMode(asp[r].mode, asp[r].status) \in Finished
    BY <2>1, <2>2, <2>3 DEF SetStory, Phases
  <2>5. asp[r].mode \in Settling
    BY <2>4 DEF SetMode, NextMode, Finished, Settling
  <2> QED BY <2>2, <2>3, <2>5
<1>7. ~EndGetPass /\ ~FinishGetnext /\ ~FinishGet
  <2>1. ASSUME EndGetPass PROVE FALSE
    <3>1. cmd[cur] # "SET"
      BY <2>1 DEF EndGetPass
    <3>2. \E st : WrapUp(cur, st)
      BY <1>1, <2>1 DEF EndGetPass, Park
    <3> QED BY <1>1, <1>3, <3>1, <3>2
  <2>2. ASSUME FinishGetnext \/ FinishGet PROVE FALSE
    <3>1. pc \in {"next", "done"} /\ WrapUp(cur, asp[cur].status)
      BY <2>2 DEF FinishGetnext, FinishGet
    <3>2. r = cur
      BY <1>3, <3>1
    <3> QED BY <1>4, <3>1, <3>2 DEF SetStory, Phases
  <2> QED BY <2>1, <2>2
<1>8. RefuseSet \/ FinishSet
  <2>1. ASSUME NEW q \in Req, Drop(q) PROVE FALSE
    <3>1. q # r /\ response' = [response EXCEPT ![q] = "dropped"]
      BY <1>1, <2>1 DEF Drop
    <3> QED BY <1>1, <3>1
  <2>2. ASSUME NEW q \in Req, Receive(q) PROVE FALSE
    BY <1>1, <2>2 DEF Receive
  <2>3. ASSUME \/ \E x \in Req, s \in Session : Answer(x, s)
               \/ \E s \in Session : CloseSession(s) \/ CloseSubsession(s)
        PROVE  FALSE
    <3>1. ASSUME NEW b, NEW f, NEW s, CloseWith(b, f, s) PROVE response' = response
      BY <3>1 DEF CloseWith
    <3>2. ASSUME NEW x \in Req, NEW s \in Session, Answer(x, s) PROVE response' = response
      <4>1. CASE TimeOut(x, s)
        BY <3>1, <4>1 DEF TimeOut
      <4>2. CASE AnswerOk(x, s) \/ AnswerError(x, s) \/ AnswerShort(x, s)
        BY <4>2 DEF AnswerOk, AnswerError, AnswerShort
      <4> QED BY <3>2, <4>1, <4>2 DEF Answer
    <3>3. ASSUME NEW s \in Session, CloseSession(s) \/ CloseSubsession(s)
          PROVE  response' = response
      BY <3>1, <3>3 DEF CloseSession, CloseSubsession, reqVars
    <3> QED BY <1>1, <2>3, <3>2, <3>3
  <2>4. ASSUME BeginSet \/ NextSetPass \/ EndSetPass \/ BeginGet \/ NextGetPass PROVE FALSE
    BY <1>1, <2>4 DEF BeginSet, NextSetPass, EndSetPass, Park, BeginGet, NextGetPass
  <2>5. ASSUME \/ CheckOutstanding \/ EndScan \/ ClaimGate \/ PopQueued \/ EndDrain
               \/ CallSlot \/ Unregister
               \/ \E x \in Req : SkipDelegated(x) \/ ResumeDelegated(x)
        PROVE  FALSE
    <3>1. response' = response
      BY <2>5 DEF CheckOutstanding, EndScan, ClaimGate, PopQueued, EndDrain, CallSlot,
                  Unregister, SkipDelegated, ResumeDelegated, reqVars
    <3> QED BY <1>1, <3>1
  <2> QED BY <1>7, <2>1, <2>2, <2>3, <2>4, <2>5 DEF Next, AgentStep, InnerStep
<1> QED BY <1>5, <1>6, <1>8

\* Who reserved has been called in the mode the request has ended in.
LEMMA ReserverTold ==
    ASSUME NEW r \in Req, SetStory(r), ~InPass(r), asp[r].mode \in Settling,
           NEW s \in CalledIn(r, "RESERVE1"), s \notin closed
    PROVE  <<s, asp[r].mode>> \in calls[r]
<1>1. <<s, "RESERVE1">> \in calls[r] /\ <<s, "RESERVE1">>[1] = s
  BY DEF CalledIn
<1>2. PICK v \in Varbind : asp[r].owner[v] = s
  BY <1>1 DEF SetStory, Phases
<1>3. asp[r].mode # "BEGIN"
  BY DEF Settling
<1> QED BY <1>2, <1>3 DEF SetStory, Covered

\* What TruthfulResponse and SetSettled say of a SET that is answered.
Truthful(r) ==
    IF response'[r] = "noError"
    THEN CalledIn(r, "RESERVE1") \subseteq CalledIn(r, "COMMIT") \cup closed
    ELSE Committed(r) /\ CleanStart(r) => <<"COMMIT", "handler">> \in failed[r]

Settled(r) ==
    \A s \in CalledIn(r, "RESERVE1") \ closed :
        Cardinality({m \in Settling : <<s, m>> \in calls[r]}) = 1

LEMMA AnsweredTruthful ==
    SchedulerInv /\ HistoryInv /\ [Next]_vars =>
        [\A r \in Req : Answers(r) => Truthful(r)]_vars
<1> SUFFICES ASSUME SchedulerInv, HistoryInv, Next, NEW r \in Req, Answers(r)
             PROVE  Truthful(r)
  OBVIOUS
<1> USE DEF Truthful
<1>1. CASE calls[r] = {} /\ response'[r] # "noError"
  BY <1>1 DEF Committed, Called
<1>2. CASE /\ SetStory(r) /\ ~InPass(r)
           /\ asp[r].mode \in Settling /\ response'[r] = asp[r].status
  <2>1. CASE response'[r] = "noError"
    <3>1. asp[r].mode = "COMMIT"
      BY <1>2, <2>1 DEF SetStory, Undone, Settling
    <3>2. \A s \in CalledIn(r, "RESERVE1") : s \in closed \/ <<s, "COMMIT">> \in calls[r]
      BY <1>2, <3>1, ReserverTold
    <3>3. CalledIn(r, "RESERVE1") \subseteq CalledIn(r, "COMMIT") \cup closed
      BY <3>2 DEF CalledIn
    <3> QED BY <2>1, <3>3
  <2>2. CASE response'[r] # "noError"
    <3>1. Committed(r) /\ CleanStart(r) => <<"COMMIT", "handler">> \in failed[r]
      BY <1>2, <2>2, CommittedFacts DEF SetStory, CleanCommit
    <3> QED BY <2>2, <3>1
  <2> QED BY <2>1, <2>2
<1> QED BY <1>1, <1>2, SetAnswered

LEMMA AnsweredSettled ==
    SchedulerInv /\ HistoryInv /\ [Next]_vars =>
        [\A r \in Req : Answers(r) => Settled(r)]_vars
<1> SUFFICES ASSUME SchedulerInv, HistoryInv, Next, NEW r \in Req, Answers(r),
                    NEW s \in CalledIn(r, "RESERVE1") \ closed
             PROVE  Cardinality({m \in Settling : <<s, m>> \in calls[r]}) = 1
  BY DEF Settled
<1>1. calls[r] # {}
  BY DEF CalledIn
<1>2. SetStory(r) /\ ~InPass(r) /\ asp[r].mode \in Settling
  BY <1>1, SetAnswered
<1>3. <<s, asp[r].mode>> \in calls[r]
  BY <1>2, ReserverTold
<1>4. \A m \in Settling : <<s, m>> \in calls[r] => m = asp[r].mode
  <2>1. \A m \in Settling : <<s, m>> \in calls[r] => m \in Upto(asp[r].mode)
    BY <1>2 DEF SetStory, Phases
  <2> QED BY <1>2, <2>1 DEF Upto, Early, Settling
<1>5. {m \in Settling : <<s, m>> \in calls[r]} = {asp[r].mode}
  BY <1>2, <1>3, <1>4
<1> QED BY <1>5, FS_Singleton

(* The response to a SET tells its outcome (Agent_handleSet,               *)
(* Agent_wrapUpRequest).                                                   *)
THEOREM TruthfulResponseCorrect == Spec => TruthfulResponse
<1>1. TruthfulResponse <=> [][\A r \in Req : Answers(r) => Truthful(r)]_vars
  BY DEF TruthfulResponse, Truthful
<1> QED BY <1>1, AnsweredTruthful, HistoryInvariant, PTL DEF Spec

(* Every handler that reserved and is still there is told how the SET      *)
(* ended, by one of COMMIT, FREE and UNDO (Agent_handleSet).               *)
THEOREM SetSettledCorrect == Spec => SetSettled
<1>1. SetSettled <=> [][\A r \in Req : Answers(r) => Settled(r)]_vars
  BY DEF SetSettled, Settled
<1> QED BY <1>1, AnsweredSettled, HistoryInvariant, PTL DEF Spec
=============================================================================

---------------------------- MODULE SubagentSets ----------------------------
(***************************************************************************)
(* A SET that crosses the AgentX link: the PDUs the master sends for one   *)
(* subagent (src/Firmware/Plugin/Agentx/Master.c, with the passes of       *)
(* src/Firmware/Priot/Agent.c), the subagent's list of transactions and    *)
(* its translation of each PDU into passes of its own agent (Subagent.c,   *)
(* over the queues of CallbackDomain.c), and the cache in which that agent *)
(* carries the requests of a transaction from one pass to the next         *)
(* (Agent.c).                                                              *)
(*                                                                         *)
(* AgentSetInfo structures live in memory cells that the allocator may     *)
(* reuse, because an answer on its way names its cell by address.          *)
(***************************************************************************)
EXTENDS Naturals, Sequences, FiniteSets

CONSTANTS
    NumTrans,   \* bound on the SETs the master performs
    Budget,     \* bound on SETs, timeouts and broken connections together
    MaxRetries, \* bound on sess.retries of the master's session (configured)
    Faults      \* subset of {"slow", "timeout", "disconnect"}

ASSUME SetsAssumption ==
    /\ NumTrans \in Nat /\ Budget \in Nat /\ NumTrans \leq Budget
    /\ MaxRetries \in Nat
    /\ Faults \subseteq {"slow", "timeout", "disconnect"}

Trans == 1 .. NumTrans
Cell  == 1 .. Budget        \* one for each TESTSET that may be sent
Entry == 1 .. Budget        \* and one cache entry
Void  == 0                  \* a cache entry saved without requests

VARIABLES
    master,    \* the SET at the master: transaction, PDU awaited, retries used
    decision,  \* what the master decided for each SET
    toSub, toMaster,      \* the stream between them, one FIFO each way
    subagentSets,         \* _subagent_sets: cells, newest first
    asi,                  \* contents of the cells, freed ones included
    internal, running, replies, \* passes queued, delegated and answered
    agentSets,            \* _agent_sets: the set cache, newest first
    held,      \* last pass the handlers saw for the requests of an entry
    sessRetries, faults, \* sess.retries, and the faults so far
    link,      \* "up"; "cut" at the master, "down" at both ends; "crashed"
               \* (the subagent), "gone" when the master has read that
    troubled   \* history: a PDU was resent or given up, or the link broke

masterVars == <<master, decision>>
subVars    == <<subagentSets, asi>>
agentVars  == <<running, agentSets, held>>
faultVars  == <<sessRetries, faults, troubled>>
setVars    == <<masterVars, toSub, toMaster, subVars, internal, replies,
                agentVars, link, faultVars>>

Reserving == {"RESERVE1", "RESERVE2"}
Last      == {"FREE", "COMMIT", "UNDO"}     \* passes that end a transaction

Init ==
    /\ master = [trans |-> 0, awaits |-> "none", retries |-> 0]
    /\ decision = [t \in Trans |-> "none"]
    /\ toSub = <<>> /\ toMaster = <<>>
    /\ subagentSets = <<>>
    /\ asi = [c \in Cell |-> [trans |-> 0, mode |-> "none", old |-> FALSE]]
    /\ internal = <<>> /\ running = {} /\ replies = <<>>
    /\ agentSets = <<>>
    /\ held = [e \in Entry |-> [trans |-> 0, pass |-> "none", status |-> "ok"]]
    /\ sessRetries \in 0 .. MaxRetries
    /\ faults = 0
    /\ link = "up"
    /\ troubled = FALSE

Members(s) == {s[i] : i \in DOMAIN s}

\* The first place of a transaction in a list, or 0.
First(transactions, t) ==
    LET found == {i \in DOMAIN transactions : transactions[i] = t}
    IN IF found = {} THEN 0 ELSE CHOOSE i \in found : \A j \in found : i \leq j

Without(list, i) == SubSeq(list, 1, i - 1) \o SubSeq(list, i + 1, Len(list))

-----------------------------------------------------------------------------
(* The master.                                                             *)

WithinBudget == master.trans + faults < Budget

Pdu(command) == [command |-> command, trans |-> master.trans]

\* Master_handler for one pass: the PDU of the pass, or none in RESERVE2.
SendPdu(command) ==
    /\ toSub' = Append(toSub, Pdu(command))
    /\ master' = [master EXCEPT !.retries = 0,
                  !.awaits = IF command = "CLEANUPSET" THEN "none" ELSE command]

Decide(d) == decision' = [decision EXCEPT ![master.trans] = d]

StartSet ==
    /\ link = "up" /\ master.awaits = "none"
    /\ master.trans < NumTrans /\ WithinBudget
    /\ LET t == master.trans + 1
       IN /\ master' = [trans |-> t, awaits |-> "TESTSET", retries |-> 0]
          /\ toSub' = Append(toSub, [command |-> "TESTSET", trans |-> t])
          /\ decision' = [decision EXCEPT ![t] = "open"]
    /\ UNCHANGED <<toMaster, subVars, internal, replies, agentVars, link, faultVars>>

\* The pass that follows an answer; elsewhere tells whether the handlers of
\* the other varbinds of the SET succeeded.
NextPass(ok, elsewhere) ==
    \/ /\ master.awaits = "TESTSET"
       /\ IF ok /\ elsewhere THEN SendPdu("COMMITSET") /\ UNCHANGED decision
          ELSE SendPdu("CLEANUPSET") /\ Decide("free")
    \/ /\ master.awaits = "COMMITSET"
       /\ IF ok /\ elsewhere THEN SendPdu("CLEANUPSET") /\ Decide("commit")
          ELSE SendPdu("UNDOSET") /\ Decide("undo")
    \/ /\ master.awaits = "UNDOSET"
       /\ master' = [master EXCEPT !.awaits = "none"]
       /\ UNCHANGED <<decision, toSub>>

\* Answers are matched by request identity: those of a CLEANUPSET, and those
\* of a PDU that was answered or given up before, match nothing.
Expected(m) == m.trans = master.trans /\ m.command = master.awaits

MasterReads ==
    /\ toMaster # <<>>
    /\ toMaster' = Tail(toMaster)
    /\ LET m == Head(toMaster)
       IN IF Expected(m)
          THEN \E elsewhere \in BOOLEAN : NextPass(m.ok, elsewhere)
          ELSE UNCHANGED <<masterVars, toSub>>
    /\ UNCHANGED <<subVars, internal, replies, agentVars, link, faultVars>>

\* MasterAdmin_closeAgentxSession for the connection: the varbinds of the
\* awaited PDU fail and the registrations go, so that later passes of the SET
\* have no session to go to, and nothing more is read from it.
LoseSession ==
    /\ toMaster' = <<>>
    /\ link' = IF link = "crashed" THEN "gone" ELSE "cut"
    /\ master' = [master EXCEPT !.awaits = "none"]
    /\ IF master.awaits = "none" THEN UNCHANGED decision
       ELSE Decide(IF master.awaits = "TESTSET" THEN "free" ELSE "undo")

Resend ==
    /\ master.retries < sessRetries
    /\ toSub' = Append(toSub, Pdu(master.awaits))
    /\ master' = [master EXCEPT !.retries = @ + 1]
    /\ UNCHANGED <<decision, toMaster, link>>

\* Master_gotResponse for a timeout closes session and transport.
GiveUp ==
    /\ master.retries \geq sessRetries
    /\ LoseSession
    /\ UNCHANGED toSub

\* Api_timeout at the master: the same PDU again, or it is given up.
MasterTimeout ==
    /\ "timeout" \in Faults /\ master.awaits # "none"
    /\ WithinBudget /\ faults' = faults + 1
    /\ Resend \/ GiveUp
    /\ troubled' = TRUE
    /\ UNCHANGED <<subVars, internal, replies, agentVars, sessRetries>>

\* The master finds the end of the connection.
Disconnect ==
    /\ \/ link = "crashed" /\ UNCHANGED faults
       \/ /\ link = "up" /\ "disconnect" \in Faults
          /\ WithinBudget /\ faults' = faults + 1
    /\ LoseSession
    /\ troubled' = TRUE
    /\ UNCHANGED <<toSub, subVars, internal, replies, agentVars, sessRetries>>

\* The subagent finds it: after what the master had sent before, or at once
\* when the connection was reset or given up at this end too.
EndOfStream ==
    /\ link = "cut"
    /\ link' = "down"
    /\ toSub' = <<>>
    /\ asi' = [c \in Cell |-> [asi[c] EXCEPT !.old = TRUE]]
    /\ UNCHANGED <<masterVars, toMaster, subagentSets, internal, replies, agentVars, faultVars>>

\* _Subagent_reopenSession: a new session; what is kept of the old one stays.
Reconnect ==
    /\ link = "down"
    /\ link' = "up"
    /\ UNCHANGED <<masterVars, toSub, toMaster, subVars, internal, replies,
                   agentVars, faultVars>>

-----------------------------------------------------------------------------
(* The subagent: a PDU from the master.                                    *)

Alive == link \in {"up", "cut", "down"}

Transactions == [i \in DOMAIN subagentSets |-> asi[subagentSets[i]].trans]

\* Subagent_restoreSetVars: the newest cell of the transaction, or 0.
Restored(t) == LET i == First(Transactions, t)
               IN IF i = 0 THEN 0 ELSE subagentSets[i]

\* malloc: a freed cell again, or one never used.
Allocated == LET unused == {c \in Cell : asi[c].mode = "none"}
             IN {c \in Cell \ Members(subagentSets) :
                    c \in unused => \A d \in unused : c \leq d}

Submit(pass, m, c) ==
    internal' = Append(internal, [pass |-> pass, trans |-> m.trans,
                                  command |-> m.command, cell |-> c])

Answer(m, ok) ==
    toMaster' = IF link = "up"
                THEN Append(toMaster, [command |-> m.command, trans |-> m.trans,
                                       ok |-> ok])
                ELSE toMaster

\* Mutant: whatever is past the first reservation is committed.
PassOfLate(command, mode) ==
    CASE command = "COMMITSET" -> IF mode = "RESERVE2" THEN "ACTION" ELSE "none"
      [] command = "CLEANUPSET" -> IF mode = "RESERVE1" THEN "FREE" ELSE "COMMIT"
      [] command = "UNDOSET" -> "UNDO"

\* The pass an AgentX PDU stands for, given the mode of its transaction.
PassOf(command, mode) ==
    CASE command = "COMMITSET" -> IF mode = "RESERVE2" THEN "ACTION" ELSE "none"
      [] command = "CLEANUPSET" -> IF mode \in Reserving THEN "FREE"
                                   ELSE IF mode = "ACTION" THEN "COMMIT"
                                   ELSE "none"
      [] command = "UNDOSET" -> "UNDO"

TestSet(m) ==
    /\ m.command = "TESTSET"
    /\ \E c \in Allocated :
          /\ asi' = [asi EXCEPT ![c] = [trans |-> m.trans, mode |-> "RESERVE1",
                                        old |-> FALSE]]
          /\ subagentSets' = <<c>> \o subagentSets
          /\ Submit("RESERVE1", m, c)
    /\ UNCHANGED toMaster

LaterSet(m) ==
    LET c    == Restored(m.trans)
        pass == IF c = 0 THEN "none" ELSE PassOf(m.command, asi[c].mode)
    IN /\ m.command # "TESTSET"
       /\ \/ /\ pass # "none"
             /\ asi' = [asi EXCEPT ![c].mode = pass]
             /\ Submit(pass, m, c)
             /\ UNCHANGED toMaster
          \/ /\ pass = "none"
             /\ IF c # 0 /\ m.command = "CLEANUPSET" THEN UNCHANGED toMaster
                ELSE Answer(m, FALSE)
             /\ UNCHANGED <<asi, internal>>
       /\ UNCHANGED subagentSets

\* Subagent_handleAgentxPacket for the PDUs of a SET.
SubagentReads ==
    /\ link \in {"up", "cut"} /\ toSub # <<>>
    /\ toSub' = Tail(toSub)
    /\ TestSet(Head(toSub)) \/ LaterSet(Head(toSub))
    /\ UNCHANGED <<masterVars, replies, agentVars, link, faultVars>>

-----------------------------------------------------------------------------
(* The subagent's own agent: one pass over the requests of a transaction.  *)

CachedTransactions == [i \in DOMAIN agentSets |-> agentSets[i].trans]

\* Agent_getSetCache: the newest entry of the transaction, which is removed.
Taken(t) == First(CachedTransactions, t)

\* Mutant: the entry stays in the cache.
RestWhole(i) == agentSets

Rest(i) == Without(agentSets, i)

\* Mutant: saved after the last pass too.
SavedAlways(cache, p, e) == <<[trans |-> p.trans, entry |-> e]>> \o cache

\* Agent_saveSetCache, for the passes that have a successor.
Saved(cache, p, e) ==
    IF p.pass \in Last THEN cache
    ELSE <<[trans |-> p.trans, entry |-> e]>> \o cache

\* Agent_wrapUpRequest: the answer goes back to the subagent's session.
WrapUp(p, ok) == replies' = Append(replies, [p EXCEPT !.ok = ok])

Outcomes(pass) == IF pass \in Last THEN {TRUE} ELSE BOOLEAN

Pass(p, e, status) ==
    held' = [held EXCEPT ![e] = [trans |-> p.trans, pass |-> p.pass, status |-> status]]

\* The handlers are called for the requests of entry e, which has left the
\* cache: they finish, or one of them delegates.
CallHandlers(p, e, cache) ==
    \/ \E ok \in Outcomes(p.pass) :
          /\ Pass(p, e, IF ok THEN "ok" ELSE "error")
          /\ agentSets' = Saved(cache, p, e)
          /\ WrapUp(p, ok)
          /\ UNCHANGED running
    \/ /\ "slow" \in Faults
       /\ Pass(p, e, "running")
       /\ running' = running \cup {[p EXCEPT !.entry = e]}
       /\ agentSets' = cache
       /\ UNCHANGED replies

\* The entries that have not been used.
Unseen == {e \in Entry : held[e].pass = "none"}

\* Agent_handlePdu for an internal SET: RESERVE1 makes the requests, the
\* others take them from the cache.  A miss ends with genErr, but is saved
\* like a pass of its kind, without requests: the pass that takes that entry
\* reads a null pointer.
InternalSet ==
    /\ Alive /\ internal # <<>>
    /\ internal' = Tail(internal)
    /\ LET p == [pass |-> Head(internal).pass, trans |-> Head(internal).trans,
                 command |-> Head(internal).command, cell |-> Head(internal).cell,
                 entry |-> Void, ok |-> TRUE]
           i == Taken(p.trans)
       IN \/ /\ p.pass = "RESERVE1"
             /\ \E e \in Unseen : /\ \A f \in Unseen : e \leq f
                                  /\ CallHandlers(p, e, agentSets)
             /\ UNCHANGED link
          \/ /\ p.pass # "RESERVE1" /\ i = 0
             /\ agentSets' = Saved(agentSets, p, Void)
             /\ WrapUp(p, FALSE)
             /\ UNCHANGED <<running, held, link>>
          \/ /\ p.pass # "RESERVE1" /\ i # 0
             /\ IF agentSets[i].entry = Void
                THEN link' = "crashed" /\ UNCHANGED <<agentVars, replies>>
                ELSE /\ CallHandlers(p, agentSets[i].entry, Rest(i))
                     /\ UNCHANGED link
    /\ UNCHANGED <<masterVars, toSub, toMaster, subVars, faultVars>>

\* A delegated pass ends: Agent_checkDelayedRequest goes straight to the end.
FinishPass ==
    /\ Alive
    /\ \E p \in running, ok \in BOOLEAN :
          /\ ok \in Outcomes(p.pass)
          /\ running' = running \ {p}
          /\ Pass(p, p.entry, IF ok THEN "ok" ELSE "error")
          /\ agentSets' = Saved(agentSets, p, p.entry)
          /\ WrapUp([p EXCEPT !.entry = Void], ok)
    /\ UNCHANGED <<masterVars, toSub, toMaster, subVars, internal, link, faultVars>>

-----------------------------------------------------------------------------
(* The subagent: the answer to a pass.                                     *)

\* Mutant: the head of the list, whatever its transaction.
FreedHead(t) == IF subagentSets = <<>> THEN <<>> ELSE Tail(subagentSets)

\* Subagent_freeSetVars: the newest cell of the transaction leaves the list.
Freed(t) == LET i == First(Transactions, t)
            IN IF i = 0 THEN subagentSets ELSE Without(subagentSets, i)

Crash == link' = "crashed" /\ UNCHANGED <<toMaster, subVars, internal>>

\* Mutants: a reservation that failed is followed by the next one; a
\* reservation that succeeded is the answer.
ReservesOn(mode, ok)   == mode = "RESERVE1"
ReservesOnce(mode, ok) == FALSE

\* A TESTSET is mapped twice: RESERVE2 follows a RESERVE1 that succeeded.
ReservesNext(mode, ok) == mode = "RESERVE1" /\ ok

\* The cell is read as it is, even when the transaction has been freed.
ReadAnswer(r, mode) ==
    /\ IF ReservesNext(mode, r.ok)
       THEN /\ asi' = [asi EXCEPT ![r.cell].mode = "RESERVE2"]
            /\ Submit("RESERVE2", r, r.cell)
            /\ UNCHANGED <<toMaster, subagentSets>>
       ELSE /\ subagentSets' = IF mode \in Last THEN Freed(r.trans) ELSE subagentSets
            /\ IF asi[r.cell].old THEN UNCHANGED toMaster ELSE Answer(r, r.ok)
            /\ UNCHANGED <<asi, internal>>
    /\ UNCHANGED link

\* The cell is free memory, or the session it names is.
Dangling(r) ==
    \/ r.cell \notin Members(subagentSets)
    \/ asi[r.cell].old /\ ~ReservesNext(asi[r.cell].mode, r.ok)

\* Subagent_handleSubagentSetResponse.
HandleSetResponse ==
    /\ Alive /\ replies # <<>>
    /\ replies' = Tail(replies)
    /\ LET r == Head(replies)
       IN \/ ReadAnswer(r, asi[r.cell].mode)
          \/ Dangling(r) /\ Crash
    /\ UNCHANGED <<masterVars, toSub, agentVars, faultVars>>

Next ==
    \/ StartSet \/ MasterReads \/ MasterTimeout \/ Disconnect \/ EndOfStream \/ Reconnect
    \/ SubagentReads \/ InternalSet \/ FinishPass \/ HandleSetResponse

Spec == Init /\ [][Next]_setVars

\* The loops of both programs go on reading, and handlers end what they began.
FairSpec == Spec /\ WF_setVars(MasterReads) /\ WF_setVars(SubagentReads)
                 /\ WF_setVars(InternalSet) /\ WF_setVars(FinishPass)
                 /\ WF_setVars(HandleSetResponse)

-----------------------------------------------------------------------------
(* Properties.                                                             *)

Commands == {"TESTSET", "COMMITSET", "UNDOSET", "CLEANUPSET"}
Passes   == Reserving \cup {"ACTION"} \cup Last

\* In flight between the subagent and its own agent, for one transaction.
InFlight(t) == {p \in Members(internal) \cup running \cup Members(replies) :
                    p.trans = t}

EntriesOf(t) == {e \in Entry : held[e].trans = t /\ held[e].pass # "none"}

\* Nothing of the transaction is on its way or kept by the subagent.
Quiet(t) == /\ \A m \in Members(toSub) : m.trans # t
            /\ InFlight(t) = {}
            /\ \A c \in Members(subagentSets) : asi[c].trans # t
            /\ \A x \in Members(agentSets) : x.trans # t

LastPassOf(d) == CASE d = "free" -> "FREE" [] d = "commit" -> "COMMIT"
                   [] d = "undo" -> "UNDO" [] OTHER -> "none"

(* The shape of the lists and queues: a cell is listed once, an entry is   *)
(* saved once, and an entry a delegated pass works on is not in the cache   *)
(* (Subagent_saveSetVars, Agent_saveSetCache, Agent_getSetCache).           *)
SetsTypeOK ==
    /\ master \in [trans : 0 .. NumTrans, retries : 0 .. MaxRetries,
                   awaits : {"none", "TESTSET", "COMMITSET", "UNDOSET"}]
    /\ decision \in [Trans -> {"none", "open", "free", "commit", "undo"}]
    /\ Members(toSub) \subseteq [command : Commands, trans : Trans]
    /\ Members(toMaster) \subseteq [command : Commands, trans : Trans, ok : BOOLEAN]
    /\ Members(subagentSets) \subseteq Cell
    /\ Cardinality(Members(subagentSets)) = Len(subagentSets)
    /\ asi \in [Cell -> [trans : 0 .. NumTrans, mode : {"none"} \cup Passes,
                         old : BOOLEAN]]
    /\ \A p \in Members(internal) : p.pass \in Passes /\ p.cell \in Cell
    /\ \A i, j \in DOMAIN agentSets :
          i # j /\ agentSets[i].entry # Void => agentSets[i].entry # agentSets[j].entry
    /\ \A p \in running : /\ held[p.entry].status = "running"
                          /\ \A x \in Members(agentSets) : x.entry # p.entry

(* What the handlers of the subagent end with is what the master decided:   *)
(* a CLEANUPSET commits after an ACTION and frees before one (the switch    *)
(* of Subagent_handleAgentxPacket), and no timeout, retransmission, broken  *)
(* link or freed transaction may turn one into the other.                   *)
Agreement ==
    \A e \in Entry : held[e].pass \in Last
        => held[e].pass = LastPassOf(decision[held[e].trans])

(* The passes the handlers of the subagent see are those of a SET, one      *)
(* after the other: nothing is reserved twice, acted on before both         *)
(* reservations succeeded, committed after a failed action or undone        *)
(* without one -- as long as the master neither resends nor gives up.       *)
Follows(new, last) ==
    \/ new.pass = last.pass /\ last.status = "running" /\ new.status # "running"
    \/ /\ last.status # "running"
       /\ \/ last.pass = "none" /\ new.pass = "RESERVE1"
          \/ last.pass = "RESERVE1" /\ last.status = "ok" /\ new.pass = "RESERVE2"
          \/ last.pass \in Reserving /\ new.pass = "FREE"
          \/ last.pass = "RESERVE2" /\ last.status = "ok" /\ new.pass = "ACTION"
          \/ last.pass = "ACTION" /\ last.status = "ok" /\ new.pass = "COMMIT"
          \/ last.pass = "ACTION" /\ new.pass = "UNDO"

PassOrder ==
    [][~troubled' =>
          \A e \in Entry : held'[e] # held[e] => Follows(held'[e], held[e])]_setVars

(* The pointer a pass carries names the transaction it was sent for, which  *)
(* is still listed and in the mode of that pass; a transaction has one pass *)
(* in flight, and its requests are in the cache exactly between two passes  *)
(* (callback magic of Subagent_handleSubagentSetResponse).                  *)
AnswersFindTheirSet ==
    ~troubled =>
        \A t \in Trans :
            /\ Cardinality(InFlight(t)) \leq 1
            /\ \A p \in InFlight(t) : /\ p.cell \in Members(subagentSets)
                                      /\ asi[p.cell].trans = t
                                      /\ asi[p.cell].mode = p.pass
            /\ \A x \in Members(agentSets) :
                  x.trans = t => x.entry \in EntriesOf(t) /\ held[x.entry].trans = t

(* An answer is the truth: the subagent answers a TESTSET well only when    *)
(* both reservations succeeded, and a COMMITSET when the action did.        *)
TruthfulAnswers ==
    ~troubled =>
        \A m \in Members(toMaster) : m.ok /\ m.trans = master.trans =>
            \A e \in EntriesOf(m.trans) :
                /\ m.command = "TESTSET" => held[e].pass = "RESERVE2"
                /\ m.command = "COMMITSET" => held[e].pass = "ACTION"
                /\ m.command \in {"TESTSET", "COMMITSET"} => held[e].status = "ok"

(* Every SET that the master has decided ends at the subagent: its          *)
(* transaction and its cached requests are gone and its handlers have seen  *)
(* the pass of the decision, unless the master resent, gave up or was lost. *)
SetsSettle ==
    \A t \in Trans : decision[t] = "open" ~>
        \/ troubled
        \/ /\ Quiet(t)
           /\ \A e \in EntriesOf(t) : /\ held[e].pass = LastPassOf(decision[t])
                                      /\ held[e].status # "running"
=============================================================================

---------------------------- MODULE SubagentLink ----------------------------
(***************************************************************************)
(* The life of a subagent's connection to its master agent: opening it,    *)
(* registering what the program serves, pinging, losing it at any point of *)
(* a synchronous call, and opening it again from an alarm                  *)
(* (src/Firmware/Plugin/Agentx/Subagent.c and XClient.c, with the parts of *)
(* Alarm.c, Callback.c, AgentRegistry.c and MasterAdmin.c they drive).     *)
(*                                                                         *)
(* A synchronous call runs a loop of its own that reads the connection, so *)
(* the disconnect handler may run inside any call, also one made by the    *)
(* traversal of the callback list it changes.  Alarms run only in the main *)
(* loop.  The stream keeps PDUs in order, and a connection that is closed  *)
(* and opened again is read by the master in that order too (both ends     *)
(* are on one host); PDUs the library resends follow the originals and     *)
(* change nothing.                                                         *)
(***************************************************************************)
EXTENDS Integers, Sequences, FiniteSets

CONSTANTS
    NumNodes,    \* the registrations of the program, in tree order
    MaxSess,     \* bound on the sessions in use at a time
    MaxDeaths,   \* bound on the times the master dies
    MaxTimeouts, \* bound on the calls given up
    MaxProgram   \* bound on registrations and their removals by the program

ASSUME LinkAssumption ==
    /\ NumNodes \in Nat /\ MaxSess \in Nat \ {0}
    /\ MaxDeaths \in Nat /\ MaxTimeouts \in Nat /\ MaxProgram \in Nat

Node == 1 .. NumNodes
Sess == 1 .. MaxSess       \* addresses of sessions, reused; 0 is NULL
List == {"register", "unregister"}   \* the callback lists that make calls

VARIABLES
    main,       \* agent_mainSession
    pings,      \* the sessions with a ping alarm (its id is in securityModel)
    reopeners,  \* how many reopen alarms are registered
    hooks,      \* each callback list: entries, unregistered ones with sess 0
    locks,      \* _callback_locks of each list
    nodes,      \* "absent", or the SUBTREE_ATTACHED flag of the registration
    task,       \* the call the program is in: operation, session, node, entry
    result,     \* "none", "wait", "ok" or "fail"
    freed,      \* the list entry under traversal has been freed
    wire,       \* what the master has not read yet
    cut,        \* sessions the master dropped, end of file not yet read
    up, opened, regs,     \* the master: sessions, and who registered a node
    faults,     \* deaths, timeouts and program steps so far
    skipped     \* history: nodes marked attached while there was no session

alarmVars  == <<pings, reopeners>>
hookVars   == <<hooks, locks>>
callVars   == <<task, result, freed>>
masterVars == <<up, opened, regs>>
linkVars   == <<main, alarmVars, hookVars, nodes, callVars, wire, cut,
                masterVars, faults, skipped>>

Task(op, s, n, k, why) == [op |-> op, sess |-> s, node |-> n, entry |-> k, why |-> why]
NoTask == Task("idle", 0, 0, 0, "none")

\* The agent has read its configuration and POST_READ_CONFIG is called: some
\* of its registrations are made already, none of them attached.
Init ==
    /\ main = 0 /\ pings = {} /\ reopeners = 0
    /\ hooks = [l \in List |-> <<>>] /\ locks = [l \in List |-> 0]
    /\ nodes \in [Node -> {"absent", "detached"}]
    /\ task = Task("startup", 0, 0, 0, "none") /\ result = "none" /\ freed = FALSE
    /\ wire = <<>> /\ cut = {}
    /\ up \in BOOLEAN /\ opened = {} /\ regs = [n \in Node |-> 0]
    /\ faults = [deaths |-> 0, timeouts |-> 0, program |-> 0]
    /\ skipped = {}

-----------------------------------------------------------------------------
(* Calls.                                                                  *)

\* Client_synchResponseCb: a session that cannot send fails at once.
Ask(t, s, w) ==
    /\ task' = t
    /\ IF s = 0 \/ s \in cut
       THEN result' = "fail" /\ wire' = w
       ELSE /\ result' = "wait"
            /\ wire' = Append(w, [kind |-> t.op, sess |-> s, node |-> t.node, due |-> TRUE])

Rest == task' = NoTask /\ result' = "none"

\* Api_close of the session: the master will read the end of the stream.
Closed(s) == IF s = 0 \/ s \in cut THEN wire
             ELSE Append(wire, [kind |-> "eof", sess |-> s, node |-> 0, due |-> FALSE])

-----------------------------------------------------------------------------
(* The callback lists.  Taking the lock fails when it is held, and nobody  *)
(* minds: the lock is released all the same.                               *)

Locked(l) == IF locks[l] >= 1 THEN locks[l] ELSE locks[l] + 1

Released == [l \in List |-> Locked(l) - 1]

\* Subagent_registerCallbacks
Hooked(s) == [l \in List |-> Append(hooks[l], s)]

\* A list without the entries of a session: the others close up, in order.
Unlinked(list, s) ==
    LET kept     == {k \in DOMAIN list : list[k] # s}
        Place(k) == CHOOSE j \in kept : Cardinality({i \in kept : i \leq j}) = k
    IN [k \in 1 .. Cardinality(kept) |-> list[Place(k)]]

\* Mutant: a list in use is left alone.
UnhookedIdle(l, s) == IF locks[l] >= 1 THEN hooks[l] ELSE Unlinked(hooks[l], s)

\* Callback_unregister: an entry is freed when the count is one, else kept
\* without its function.
Unhooked(l, s) ==
    IF Locked(l) = 1 THEN Unlinked(hooks[l], s)
    ELSE [k \in DOMAIN hooks[l] |-> IF hooks[l][k] = s THEN 0 ELSE hooks[l][k]]

Unhook(s) ==
    /\ hooks' = [l \in List |-> Unhooked(l, s)]
    /\ locks' = Released

\* The first live entry of a list after position k, or 0.
Live(list, k) ==
    LET live == {j \in DOMAIN list : j > k /\ list[j] # 0}
    IN IF live = {} THEN 0 ELSE CHOOSE j \in live : \A i \in live : j \leq i

\* Callback_call for a node of the program: the call the first live entry
\* makes, if there is one.
Walk(l, n) ==
    LET k == Live(hooks[l], 0)
    IN IF k = 0 THEN Rest /\ UNCHANGED <<locks, wire>>
       ELSE /\ Ask(Task(l, hooks[l][k], n, k, "program"), hooks[l][k], wire)
            /\ locks' = [locks EXCEPT ![l] = Locked(l)]

-----------------------------------------------------------------------------
(* Opening a session.                                                      *)

\* A session at an address nothing refers to.
Unused == Sess \ ({main} \cup pings \cup opened \cup {wire[i].sess : i \in DOMAIN wire})
Fresh  == CHOOSE s \in Unused : TRUE

\* Mutants: no alarm is registered; the alarm does not repeat.
PostponedNever(why) == reopeners
PostponedOnce(why) == IF why = "direct" THEN reopeners + 1 ELSE reopeners - 1

\* _Subagent_reopenSession when the session could not be opened: only the
\* alarm leaves one that runs again.
Postponed(why) == IF why = "direct" THEN reopeners + 1 ELSE reopeners

\* Mutant: the alarm is unregistered without a look at clientreg.
SucceededAlways(why) == reopeners - 1

\* The same when it could: the alarm that leads here unregisters itself.
Succeeded(why) == IF why = "alarm" THEN reopeners - 1 ELSE reopeners

\* _Subagent_reopenSession as far as the Open it sends, old being
\* agent_mainSession.
Reopen(why, old, w) ==
    IF old # 0 THEN Rest /\ wire' = w /\ UNCHANGED <<main, reopeners>>
    ELSE IF ~up THEN /\ Rest /\ wire' = w /\ main' = 0
                     /\ reopeners' = Postponed(why)
    ELSE /\ Unused # {}
         /\ main' = Fresh
         /\ Ask(Task("open", Fresh, 0, 0, why), Fresh, w)
         /\ UNCHANGED reopeners

Startup ==
    /\ task.op = "startup"
    /\ Reopen("direct", main, wire)
    /\ UNCHANGED <<pings, hookVars, nodes, freed, cut, masterVars, faults, skipped>>

FireReopen ==
    /\ task.op = "idle" /\ reopeners > 0
    /\ Reopen("alarm", main, wire)
    /\ UNCHANGED <<pings, hookVars, nodes, freed, cut, masterVars, faults, skipped>>

\* registerMibReattach from node i on: the next detached node whose callback
\* makes a call; without a live entry the loop marks every node.  Then the
\* system OR entries are sent.
Reattach(i, marked, list, lock) ==
    LET detached == {j \in Node : j >= i /\ marked[j] = "detached"}
        k == Live(list, 0)
    IN /\ IF detached # {} /\ k # 0
          THEN LET j == CHOOSE j \in detached : \A m \in detached : j \leq m
               IN /\ Ask(Task("register", list[k], j, k, "reattach"), list[k], wire)
                  /\ nodes' = marked
                  /\ locks' = [lock EXCEPT !["register"] = IF @ >= 1 THEN @ ELSE @ + 1]
          ELSE /\ nodes' = [j \in Node |-> IF j \in detached THEN "attached" ELSE marked[j]]
               /\ Ask(Task("caps", main, 0, 0, "reattach"), main, wire)
               /\ locks' = lock
       /\ skipped' = IF main = 0 THEN skipped \cup {j \in Node : nodes'[j] # nodes[j]}
                     ELSE skipped

OpenReturns ==
    /\ task.op = "open"
    /\ \/ /\ result = "ok"
          /\ reopeners' = Succeeded(task.why)
          /\ hooks' = Hooked(main)
          /\ Reattach(1, nodes, Hooked(main)["register"], Released)
          /\ UNCHANGED <<main, cut>>
       \/ /\ result = "fail"
          /\ main' = 0 /\ wire' = Closed(main) /\ cut' = cut \ {main}
          /\ reopeners' = Postponed(task.why)
          /\ Rest
          /\ UNCHANGED <<hookVars, nodes, skipped>>
    /\ UNCHANGED <<pings, freed, masterVars, faults>>

CapsReturns ==
    /\ task.op = "caps" /\ result # "wait"
    /\ IF main # 0 THEN pings' = pings \cup {main} /\ UNCHANGED reopeners
       ELSE reopeners' = reopeners + 1 /\ UNCHANGED pings
    /\ Rest
    /\ UNCHANGED <<main, hookVars, nodes, freed, wire, cut, masterVars, faults, skipped>>

-----------------------------------------------------------------------------
(* Registrations of the program.                                           *)

MayProgram == task.op = "idle" /\ faults.program < MaxProgram
Programmed == faults' = [faults EXCEPT !.program = @ + 1]

\* registerMib2: a node is attached unless there is no session; then the
\* callbacks are called.
ProgramRegister(n) ==
    /\ MayProgram /\ Programmed
    /\ nodes[n] = "absent"
    /\ nodes' = [nodes EXCEPT ![n] = IF main = 0 THEN "detached" ELSE "attached"]
    /\ Walk("register", n)
    /\ UNCHANGED <<main, alarmVars, hooks, freed, cut, masterVars, skipped>>

\* unregisterMibContext
ProgramUnregister(n) ==
    /\ MayProgram /\ Programmed
    /\ nodes[n] # "absent"
    /\ nodes' = [nodes EXCEPT ![n] = "absent"]
    /\ skipped' = skipped \ {n}
    /\ Walk("unregister", n)
    /\ UNCHANGED <<main, alarmVars, hooks, freed, cut, masterVars>>

\* The traversal goes on when a call returns.  When its entry has been freed
\* it reads on in freed memory: it finds no entry more, or the program dies.
CallReturns(l) ==
    LET k     == Live(hooks[l], task.entry)
        ended == [locks EXCEPT ![l] = @ - 1]
    IN /\ task.op = l /\ result # "wait"
       /\ freed' = FALSE
       /\ \/ /\ ~freed /\ k # 0
             /\ Ask([task EXCEPT !.sess = hooks[l][k], !.entry = k], hooks[l][k], wire)
             /\ UNCHANGED <<locks, nodes, skipped>>
          \/ /\ freed \/ k = 0
             /\ IF task.why = "reattach"
                THEN Reattach(task.node + 1, [nodes EXCEPT ![task.node] = "attached"],
                              hooks[l], ended)
                ELSE Rest /\ locks' = ended /\ UNCHANGED <<wire, nodes, skipped>>
          \/ /\ freed
             /\ task' = Task("crashed", 0, 0, 0, "none") /\ result' = "none"
             /\ UNCHANGED <<locks, wire, nodes, skipped>>
       /\ UNCHANGED <<main, alarmVars, hooks, cut, masterVars, faults>>

-----------------------------------------------------------------------------
(* Subagent_checkSession.                                                  *)

FirePing(s) ==
    /\ task.op = "idle" /\ s \in pings
    /\ Ask(Task("ping", s, 0, 0, "alarm"), IF s = main THEN s ELSE 0, wire)
    /\ UNCHANGED <<main, alarmVars, hookVars, nodes, freed, cut, masterVars, faults, skipped>>

PingReturns ==
    /\ task.op = "ping"
    /\ \/ /\ result = "ok"
          /\ Rest /\ UNCHANGED <<hookVars, wire>>
       \/ /\ result = "fail"
          /\ Unhook(task.sess)
          /\ Ask([task EXCEPT !.op = "close"], main, wire)
    /\ UNCHANGED <<main, alarmVars, nodes, freed, cut, masterVars, faults, skipped>>

\* Mutant: the nodes stay attached.
DetachedNot == nodes

\* registerMibDetach
Detached == [n \in Node |-> IF nodes[n] = "attached" THEN "detached" ELSE nodes[n]]

CloseReturns ==
    /\ task.op = "close" /\ result # "wait"
    /\ pings' = pings \ {task.sess}
    /\ nodes' = Detached
    /\ skipped' = {}
    /\ IF main # 0
       THEN Reopen("direct", 0, Closed(main)) /\ cut' = cut \ {main}
       ELSE Rest /\ UNCHANGED <<main, reopeners, wire, cut>>
    /\ UNCHANGED <<hookVars, freed, masterVars, faults>>

-----------------------------------------------------------------------------
(* What may happen in a call and outside one.                              *)

\* Subagent_handleAgentxPacket for API_CALLBACK_OP_DISCONNECT
Disconnect ==
    /\ main \in cut
    /\ result = "wait" \/ task.op = "idle"
    /\ result' = IF result = "wait" THEN "fail" ELSE result
    /\ freed' = (task.op \in List /\ Locked(task.op) = 1)
    /\ pings' = pings \ {main}
    /\ Unhook(main)
    /\ nodes' = Detached
    /\ skipped' = {}
    /\ main' = 0
    /\ reopeners' = reopeners + 1
    /\ cut' = cut \ {main}
    /\ UNCHANGED <<task, wire, masterVars, faults>>

\* A call is given up; its answer, when it comes, belongs to no request.
Timeout ==
    /\ result = "wait" /\ task.sess \notin cut
    /\ faults.timeouts < MaxTimeouts
    /\ faults' = [faults EXCEPT !.timeouts = @ + 1]
    /\ result' = "fail"
    /\ wire' = [i \in DOMAIN wire |-> [wire[i] EXCEPT !.due = FALSE]]
    /\ UNCHANGED <<main, alarmVars, hookVars, nodes, task, freed, cut, masterVars, skipped>>

-----------------------------------------------------------------------------
(* The master.                                                             *)

Dropped(s) == [n \in Node |-> IF regs[n] = s THEN 0 ELSE regs[n]]

\* MasterAdmin_handleMasterAgentxPacket for the next PDU, and its answer.
MasterReads ==
    LET p == Head(wire)
        Answer(ok) == result' = IF ~p.due THEN result ELSE IF ok THEN "ok" ELSE "fail"
    IN /\ up /\ wire # <<>>
       /\ wire' = Tail(wire)
       /\ \/ /\ p.kind = "open"
             /\ opened' = opened \cup {p.sess} /\ Answer(TRUE)
             /\ UNCHANGED regs
          \/ /\ p.kind \in List
             /\ LET ok == p.sess \in opened /\ (p.kind = "register") = (regs[p.node] = 0)
                IN /\ Answer(ok)
                   /\ regs' = IF ~ok THEN regs
                              ELSE [regs EXCEPT ![p.node] =
                                    IF p.kind = "register" THEN p.sess ELSE 0]
             /\ UNCHANGED opened
          \/ /\ p.kind \in {"caps", "ping"}
             /\ Answer(p.sess \in opened)
             /\ UNCHANGED <<opened, regs>>
          \/ /\ p.kind \in {"close", "eof"}
             /\ opened' = opened \ {p.sess} /\ regs' = Dropped(p.sess)
             /\ Answer(p.sess \in opened)
       /\ UNCHANGED <<main, alarmVars, hookVars, nodes, task, freed, cut, up, faults, skipped>>

MasterDies ==
    /\ up /\ faults.deaths < MaxDeaths
    /\ faults' = [faults EXCEPT !.deaths = @ + 1]
    /\ up' = FALSE /\ opened' = {} /\ regs' = [n \in Node |-> 0]
    /\ wire' = <<>>
    /\ cut' = cut \cup ({main} \ {0})
    /\ UNCHANGED <<main, alarmVars, hookVars, nodes, callVars, skipped>>

MasterStarts ==
    /\ ~up /\ up' = TRUE
    /\ UNCHANGED <<main, alarmVars, hookVars, nodes, callVars, wire, cut, opened,
                   regs, faults, skipped>>

-----------------------------------------------------------------------------
Program == \E n \in Node : ProgramRegister(n) \/ ProgramUnregister(n)

Returns == OpenReturns \/ CapsReturns \/ PingReturns \/ CloseReturns
           \/ \E l \in List : CallReturns(l)

Fires == FireReopen \/ \E s \in Sess : FirePing(s)

Master == MasterReads \/ MasterDies \/ MasterStarts

Next == Startup \/ Program \/ Returns \/ Fires \/ Disconnect \/ Timeout \/ Master

Spec == Init /\ [][Next]_linkVars

\* A program in its main loop runs the alarms that are due, reads what is
\* readable and finishes what it has begun; the master is started again when
\* it has died and reads its connections.  Nobody has to die, be slow or
\* register anything.
FairSpec ==
    /\ Spec
    /\ WF_linkVars(Startup) /\ WF_linkVars(Returns) /\ WF_linkVars(Disconnect)
    /\ SF_linkVars(FireReopen)
    /\ WF_linkVars(MasterReads) /\ WF_linkVars(MasterStarts)

-----------------------------------------------------------------------------
(* Properties.                                                             *)

\* Every variable has its type; the callback locks are at most one off: the
\* failed attempts to take them leave a count of -1 at the worst
\* (_Callback_lock, _Callback_unlock).
LinkTypeOK ==
    /\ main \in Sess \cup {0} /\ pings \subseteq Sess /\ reopeners \in Nat
    /\ \A l \in List : locks[l] \in -1 .. 1
    /\ \A l \in List : \A k \in DOMAIN hooks[l] : hooks[l][k] \in Sess \cup {0}
    /\ nodes \in [Node -> {"absent", "attached", "detached"}]
    /\ regs \in [Node -> Sess \cup {0}]
    /\ cut \subseteq Sess /\ opened \subseteq Sess /\ skipped \subseteq Node
    /\ task.op \in {"startup", "idle", "open", "caps", "ping", "close", "crashed"} \cup List
    /\ result \in {"none", "wait", "ok", "fail"}

\* Between two turns of the main loop somebody looks after the connection: a
\* session is pinged and told of registrations, and without one an alarm is
\* there to open it again (_Subagent_reopenSession,
\* _Subagent_registerPingAlarm and the disconnect handler, whichever call
\* the connection was lost in).
Watched ==
    task.op = "idle" =>
        IF main # 0
        THEN /\ main \in pings
             /\ \A l \in List : \E k \in DOMAIN hooks[l] : hooks[l][k] = main
        ELSE reopeners > 0

\* No ping alarm and no callback outlives its session, whose memory they
\* would use, and no list calls a session twice (the alarm stash in
\* securityModel, Subagent_unregisterCallbacks).
NothingStale ==
    task.op = "idle" =>
        /\ pings \subseteq {main}
        /\ \A l \in List : \A j, k \in DOMAIN hooks[l] :
              hooks[l][k] # 0 => hooks[l][k] = main /\ (hooks[l][j] = main => j = k)

\* The program is in its main loop, connected, and the master has read all.
Settled == task.op = "idle" /\ main # 0 /\ main \notin cut /\ wire = <<>>

Mirrors(n) == regs[n] = IF nodes[n] = "absent" THEN 0 ELSE main

\* Once the master has read what was sent, it serves through the session
\* exactly what the program has registered, whatever was given up, lost or
\* reopened before, except a registration a lost connection let the reattach
\* loop mark (registerMib2, registerMibReattach, registerMibDetach).
TablesAgree == Settled => \A n \in Node \ skipped : Mirrors(n)

\* "Call callbacks to reattach all our nodes." (AgentRegistry.c:1222)
ReattachesAll == Settled => \A n \in Node : Mirrors(n)

\* A master that stays up gets its subagent back, with all that is to be
\* mirrored, unless the program died in a list it was changing.
Reconnects ==
    <>[](task.op = "crashed" \/ (main # 0 /\ \A n \in Node \ skipped : Mirrors(n)))
=============================================================================

# A verification project for the Priot agent

Priot (`src/Firmware`) is a C rewrite of the Net-SNMP agent and library: a
daemon that answers GET, GETNEXT, GETBULK and SET requests over a tree of
registered handlers, some in its own process and some in AgentX subagents. This
directory holds TLA+ models of its core, the TLC runs that check them, and
TLAPS proofs. `PROJECT.json` maps every definition to the lines it stands for.

## Inventory

The agent is one process and one thread. Nothing runs in parallel; what
interleaves are the *callbacks* of the main loop (`Daemon/Daemon.c`): packets,
answers of subagents, ends of connections, timeouts, alarms. A request that
cannot be finished at once is left on a list and picked up by a later callback.

| part | state | operations | interacts with | hard part, and what makes it correct |
|---|---|---|---|---|
| request scheduler, `Priot/Agent.c` | `agent_delegated_list`, `agent_agentQueuedList`, `agent_processingSet`; per request an `AgentSession` ("asp") with mode, status, index and the varbinds grouped by registration (`treecache`) | receive, handle or queue, call handlers, delegate, scan the delegated list, serve the queue, answer | called by the library for each packet, by the main loop, by closing sessions, by internal queries; calls handlers | interleaving of requests, a SET that must run alone, status kept across delegations, lists that are walked while they change. Exclusion, order, one place for each request, settled SETs, an answer for everyone |
| AgentX master, `Plugin/Agentx/Master.c`, `MasterAdmin.c` | delegated caches; sessions and subsessions | send a PDU for the varbinds of a slot, take its answer, close sessions, register, index and ping PDUs | a handler of the scheduler; callbacks of the library | late, short, failed and missing answers, sessions that die between two phases. Whatever waits was asked for; an answer goes to the phase that asked |
| library, `Core/Api.c`, `Session.c`, `Client.c` | sessions, request lists with retries and expiry | send, resend, read, match answers, time out, close | sockets below, callbacks above | timeout against late answer, close with requests outstanding, callbacks that change the list being walked. One outcome for each request |
| handlers, `Priot/AgentHandler.c` and helpers | chains of handlers, delegated caches | call the chain for one slot | scheduler above, MIB modules below | a handler may fail one varbind, all, or delegate |
| registration tree, `AgentRegistry.c` | subtrees by context, priority and range | register, split, unregister, look up | scheduler; closing sessions free subtrees that requests in flight point to | overlapping ranges, dangling subtrees |
| index allocation, `AgentIndex.c` | allocated indices by type and session | allocate, release, remove on close | AgentX master | reuse, rollback of a half-done list |
| subagent, `Agentx/Subagent.c`, `XClient.c` | list of SET transactions, session to the master, reconnect alarm | handle master PDUs as internal requests, reconnect | scheduler of the subagent through one-pass SETs and the set cache of `Agent.c` | phases that arrive out of order, disconnection in the middle |
| internal queries, `utilities/Iquery.c`, `CallbackDomain.c` | callback transport queues | synchronous query of the own agent | reenters the scheduler | nested scans |
| alarms, callbacks, `System/Util/Alarm.c`, `Callback.c` | lists with lock counters | register, run, unregister, from within each other | everyone | removal while running |
| caches, `CacheHandler.c`, `StashCache.c` | validity, timestamps, hints | load, expire, release | table helpers | release while in use |
| SET helpers, `BabySteps.c`, `TableDataset.c`, `Watcher.c`, `OldApi.c` | undo data, RowStatus | steps of a SET | scheduler phases | undo after partial failure |
| access control and security, `Vacm.c`, `Usm.c` | views, users, engine boots and times | check a message or varbind | every request | masks, time windows |
| containers, numerics, stashes | arrays, lists, 64-bit halves | insert, find, iterate, arithmetic | everyone | deferred sort, iterators during change, carry |
| event, schedule and notification MIBs | triggers, schedules, log | alarms and sets | alarms, internal queries | hysteresis, limits |
| generated MIB tables, kernel reads, parsing, configuration, transports | | | | data conversion; not modelled |

`PROJECT.json` has the full list of components, and under `hazards` each
difficulty at its line with the properties aimed at it.

## Modules

| module | models |
|---|---|
| `RequestGate` | what the scheduler promises: reads side by side, a SET alone, first come first started |
| `AgentRequests` | the scheduler of `Agent.c`, a SET's phases, delegation, closing sessions; answers come from the environment |
| `AgentxMaster` | the same with the AgentX master and the library below it: PDUs in flight, failures to send, death of subagents, timeouts, the closing of transports |
| `ApiRequests` | the request list of one session of the library: retries, reports, timeouts, close, and the synchronous calls that wait on it |
| `SubagentSets` | a SET across the AgentX link: the PDUs of the master, the transactions of the subagent, and the passes and set cache of the subagent's own agent |
| `SubagentLink` | the connection of a subagent: opening, registering, pinging, closing and reopening, with the alarms and callback lists it hangs itself into |
| `Registry` | what the registration tree promises: a set of regions, and who is asked for an object |
| `RegistryTree` | the tree itself: slices, their splits and links, the lookup with its offsets and its cache |
| `VacmViews` | the list of view entries of the access control and its two searches |
| `MCAgentRequests`, `MCAgentxMaster`, `MCApiRequests`, `MCRegistryTree`, `MCVacmViews` | the small instances for TLC: layouts of varbinds, sessions, names, and symmetry |
| `AgentRequestsProofs`, `AgentxMasterProofs`, `ApiRequestsProofs`, `VacmViewsProofs` | the theorems about `AgentRequests`, `AgentxMaster`, `ApiRequests` and `VacmViews`, for TLAPS; those of the first two include what becomes of a SET |
| `SubagentSetsProofs`, `SubagentLinkProofs` | the theorems about `SubagentSets` and `SubagentLink` |
| `RegistryShapeProofs`, `RegistryTreeProofs` | names, pointers, splits and links of `RegistryTree`; and on them its theorems |

How they compose: `AgentxMaster` extends `AgentRequests` and replaces its
assumption that answers come by PDUs in flight; `RequestGate` is instantiated
in `AgentRequests` and `Registry` in `RegistryTree` by refinement mappings.
`SubagentSets` takes the master's side of a SET from what `AgentRequests` shows
of its phases (one SET at a time, a decision for each) and
`SubagentLink` takes the subagent's calls as `ApiRequests` shows them to end.

### AgentRequests

| variable | code |
|---|---|
| `cmd`, `response` | `asp->pdu->command`, the `errstat` sent by `Agent_wrapUpRequest` (or `dropped`) |
| `asp` | mode, status, index; `owner` is the slot of each varbind, `next` is `request->next`, `err` is `request->status`, `delegated` the set of varbinds with `request->delegated`; `passes` counts getnext passes and is only a bound |
| `processingSet`, `delegatedList`, `queuedList` | the three globals. The delegated list is a set: nothing depends on its order but the order of the scan, which is left free |
| `pc`, `cur`, `from`, `left`, `final`, `todo` | the call stack: the function the agent is inside, the asp it handles, who called (`idle` the main loop, `scan` the walk of the delegated list, `popped` the loop of the queue), the slots still to call, `final_status`, the part of the list still to scan |
| `closing`, `closed` | the session `MasterAdmin_closeAgentxSession` is closing; those whose registrations are gone |
| `calls`, `failed` | history of the request: which slot was called in which mode, which mode failed and where |

A *slot* is an entry of `asp->treecache`: the varbinds that one registration
owns. A slot of `Local` answers within the call; one of `Session` is
`Master_handler` and delegates, so slot and session have one name. What a local
handler may do is wide on purpose: any subset of its varbinds may get an error,
and its return value may be an error as well. Two things of the lists matter
and are kept exactly: the chain `request->next` survives in varbinds that a
getnext pass leaves out, and `Agent_removeDelegatedRequestsForSession` follows
it from the first varbind.

The actions are the functions of `Agent.c`, cut where the agent may be observed
(between two handlers, between two turns of a loop):
`Receive`/`Drop` (`Agent_handlePriotPacket`), `HandleRequest` inside it and inside
`PopQueued`, `RefuseSet`/`BeginSet`/`BeginGet` (`Agent_handlePdu`), `NextSetPass`/
`EndSetPass`/`FinishSet` (`Agent_handleSet` and its loop), `CallSlot` (one turn of
`Agent_handleVarRequests`), `EndGetPass`/`NextGetPass`/`FinishGetnext`
(`Agent_handleGetnextLoop`), `CheckOutstanding`/`SkipDelegated`/`ResumeDelegated`/
`EndScan`/`ClaimGate`/`PopQueued`/`EndDrain` (`Agent_checkOutstandingAgentRequests` and
`Agent_checkDelayedRequest`). `Answer*`, `TimeOut` and `Close*` are the callbacks of
the AgentX master. A callback runs to its end before the next, so these need
`pc = "idle"`.

Abstractions: values and OIDs are gone, a varbind is its number and its slot;
GETBULK goes through the same functions as GETNEXT; a varbind outside the view
has no request and is a request with fewer varbinds; which getnext results are
out of range is left free (any subset of the varbinds may need another pass, at
most `MaxPasses` of them). `Agent_removeDelegatedRequestsForSession` on a session
already unregistered reads freed subtrees: both outcomes of the comparison are
explored. Loss of the response and of memory is left out.

### AgentxMaster

It conjoins to nearly every action of `AgentRequests` what becomes of `pending`, the
PDUs in the request lists of the library. An answer needs a PDU. A timeout of
the last retry may race any answer. A subagent may send a CLOSE, die (its PDUs
will never be answered), or answer a read with too few varbinds; sending to a
dead one may fail. `Faults` selects which of these a run explores. After the
close of a transport, `Api_sessSelectInfo2Flags` finds the socket gone and
`Api_sessClose` calls back once for every PDU left (`Reap`).

### ApiRequests

The list is modelled as the code keeps it: `isp` has the pointers `requests` and
`requestsEnd` and the `next_request` of each request, and `walk` the `rp` and `orp`
of `Api_sessTimeout`, so that unlinking through a stale pointer would corrupt the
list. `Listed` is what following the pointers from the head finds. `expired` is the
set of requests whose `expireM` has passed; `unsent` those whose last transmission
failed, which no answer with the current message identity can match.

The variable `sp` is the session, one of `Sessions`, chosen at the start. Its
version is `"agentx"` for the session of a subagent to its master: answers match by
request identity, the stream may be disconnected, calls use
`XClient_synchInput`. It is `"v3"` for an SNMPv3 session: answers match by
message identity, reports occur, calls use `_Client_synchInput`. `calls` is
the stack of synchronous calls; its top is `session->callback_magic`. A call inside
another comes from a handler run by the loop of the outer one (`Api_read` reads
every session), for instance a ping during which the subagent serves a SET that
loads a module with `dlmod`, whose registration is a call to the master.

| actions | code |
|---|---|
| `AsyncSend`, `Call`, `Return` | `_Api_sessAsyncSend`, the beginning and the end of `Client_synchResponseCb` |
| `RetryOnReport`, `Finish` | `_Api_sessProcessPacket` for a response that matches; one that does not changes nothing, and neither does a callback that answers 0 |
| `Expire`, `SessTimeout`, `SkipFresh`, `GiveUp`, `RetryExpired` | the clock; one turn each of the loop of `Api_sessTimeout` |
| `Disconnect`, `Close` | the end of a stream in `Api_sessRead3` with the callback of the session; `Api_sessClose` |

Left out: memory that runs out, responses whose security parameters do not match
the request (they are dropped), `select` failing with anything but `EINTR`,
engine probes.

### SubagentSets

Two programs and the stream between them. The master's side is a SET as its
subagent sees it: one PDU at a time, then a decision.

| variable | code |
|---|---|
| `master`, `decision` | the PDU `Master_handler` awaits an answer to, its retries; which pass ended the SET (`free`, `commit`, `undo`) |
| `toSub`, `toMaster` | the stream, one FIFO each way |
| `subagentSets`, `asi` | `_subagent_sets` as a list of cells and what each cell of memory holds, freed ones included: an answer on its way carries the address of its cell, and `malloc` may hand it out again |
| `internal`, `replies` | the two queues of `CallbackDomain.c`, which keep order |
| `running`, `agentSets`, `held` | passes that delegated; `_agent_sets`, the set cache; the pass that the handlers last saw for the requests of a cache entry |
| `link` | the connection: `up`; `cut`, ended at the master while the subagent still has PDUs of it to read; `down`, ended for both; `crashed`, the subagent is dead, and `gone` when the master knows |
| `troubled` | history: a PDU was resent or given up, or the connection broke |

`StartSet`, `MasterReads`, `MasterTimeout` and `Disconnect` are the master. A timeout is
`Resend`, or, when the retries are used up, `GiveUp`: `Master_gotResponse` takes it
like the end of the connection, fails the varbinds and closes session and transport
(`LoseSession`), so later passes of that SET have no session to go to, nothing more is
sent to this subagent and no answer of it is read until it reconnects. A SET that waited for its
TESTSET is then to be freed and any other undone, as in `AgentxMaster`.
`EndOfStream` is the subagent finding the end of the stream, after it read what the
master had sent before or at once (the connection was reset); `Reconnect` is its new session.
`SubagentReads` is `Subagent_handleAgentxPacket` for the four SET PDUs, `InternalSet`
`Agent_handlePdu` in the subagent's agent with `Agent_getSetCache` and
`Agent_saveSetCache`, `FinishPass` the end of a delegated pass, and `HandleSetResponse`
`Subagent_handleSubagentSetResponse`, which turns a RESERVE1 that succeeded into a
RESERVE2 and frees the transaction after its last pass. It reads its cell as
it is: when the cell is free memory, either it still holds what it held or the
subagent crashes.

Cells and entries are numbered, as many as SETs and resent PDUs can use
(`Allocated`, `Unseen`): no step waits for one.

An undisturbed SET obeys the whole contract. `Agreement` (nothing is committed,
freed or undone against the decision) holds even when PDUs are resent,
given up or lost. The other properties exclude `troubled` runs, and need
to. Without that exclusion TLC shows:

- a TESTSET resent makes a second transaction and a second cache entry, one of
  which is never taken;
- after that, when the answer to the first copy is a failure, the CLEANUPSET takes
  the newest transaction while the answer to that one's own reservation is still on
  its way: the transaction is freed while an answer carries its pointer, and if the
  cell is reused that answer starts RESERVE2 for the wrong transaction (with
  `MaxRetries = 0` no answer ever names a freed cell);
- a COMMITSET resent finds its transaction in mode ACTION and is answered with an error
  at once, while the action is still queued or delegated. The UNDOSET that follows
  overtakes a delegated action and misses the cache; the action ends and is
  never undone;
- a RESERVE2 or ACTION that misses the cache saves an entry without requests
  (`Void`), and whoever takes that one reads a null pointer (`Agent.c:309`; it
  needs `Budget = 4`);
- after a PDU is given up or the connection broke, both transaction and reservations
  stay for ever: nothing tells the handlers. A PDU that was still in the
  stream is acted on although the master has closed it, and an answer
  that comes after the end of the session reads that session, which is free memory.

Left out: several varbinds for one subagent (they travel in one PDU), the error
index, reads, and the 30 s timeout of the subagent's session with its own agent. FREE, COMMIT
and UNDO always succeed in the model: the master ignores the answer to a CLEANUPSET, and
goes on in the same way whatever the answer to an UNDOSET says. A session that the
subagent closes itself is `Disconnect`.

### SubagentLink

| variable | code |
|---|---|
| `main`, `pings`, `reopeners` | `agent_mainSession`; sessions with a ping alarm (its id is kept in `securityModel`); how many reopen alarms are registered |
| `hooks`, `locks` | the callback lists the subagent hangs itself into, with unregistered entries still linked, and `_callback_locks` |
| `nodes` | the registrations of the program with `SUBTREE_ATTACHED` |
| `task`, `result`, `freed` | the synchronous call the program is inside, and whether the list entry it came from has been freed meanwhile |
| `wire`, `cut` | what the master has not read; sessions the master has dropped |
| `up`, `opened`, `regs` | the master |

A synchronous call has a loop of its own that reads the connection, so `Disconnect`
(`Subagent_handleAgentxPacket` for DISCONNECT) may run inside every call, also in a
call made by the traversal of the very list it changes. The locks do not prevent
that: `_Callback_lock` fails when the lock is held, nobody looks at the result,
and the lock is released all the same, so the count goes to -1 and the next
`Callback_unregister` frees the entry under traversal. What the traversal then reads
is free memory: the model lets it end or crash (`crashed`). `OpenReturns`,
`CapsReturns`, `CallReturns`, `PingReturns`, `CloseReturns` are the code after each call;
`FireReopen` and `FirePing` the alarms; `ProgramRegister`, `ProgramUnregister` what
the program does with its own registrations.

TLC also shows that a disconnect during open, reattach or capabilities leaves
a second reopen alarm that fires for ever. It does no harm:
`_Subagent_reopenSession` returns at once when there is a session.

Both ends are on one host: the master reads what a closed connection still holds
before it reads the next one. Left out: `Subagent_shutdown`, index callbacks, the
trap session, the renewal of the callback session, a ping interval of 0; the
entries of the system OR table are one call.

### Registry and RegistryTree

`Registry` is what the rest of the agent relies on: a set of regions, and for each
object the one to ask: the longest name that covers it, then the smallest
priority. `RegistryTree` is the tree of one context as `AgentRegistry.c` keeps it.

| variable | code |
|---|---|
| `heap` | the `Subtree` nodes: `end_a`, `next`, `prev`, `children` and `oid_off`. A node is named by what tells it from all others: name, priority, session and start |
| `first` | `first_subtree` |
| `lookupCache`, `cacheSize` | the lookup cache of the context and `agentRegistry_lookupCacheSize` |

`Register` is `AgentRegistry_registerMib2` with `AgentRegistry_subtreeLoad` and
`subtreeSplit`; `Unregister` is `AgentRegistry_unregisterMibContext`; `CloseSessions`
is `AgentRegistry_unregisterMibsBySession`; `Lookup` is `AgentRegistry_subtreeFind` with
what it leaves in the cache. The lookup itself (`Walk`) skips comparisons by
`oid_off`, as the code does.

The loops are folds over what they traverse: `Heads` and `Chain` are the nodes
along `next` and `children`, `Pass`, `UnloadSlice`, `CloseNode` one turn of a loop, and
`LoadSlice` one call of `subtreeLoad` in its recursion on the rest of a node. Each
list is taken before the loop changes it, as the code does by
reading `next` or `children` ahead of the turn; a rest is loaded in a later slice than
the call before it, so there are no more calls than slices.

The refinement mapping is `regs <- Regs`, the regions found in the heap, and
`Root <- Nil`. The null handlers registered at the three roots with priority 127 always
cover everything, so the branch for a place where nothing is registered is taken
only in `Init`. A registration that is refused may leave slices that nobody needed;
the mapping does not see them and `TreeSound` allows them. The error returns of
`AgentRegistry_unregisterMibContext` leave the lookup cache switched off for good.

Left out: ranges, several contexts, attach flags (see `SubagentLink`), access checks,
signals. Read but not modelled: the range loop of
`AgentRegistry_unregisterMibContext` ends at `orig_subid_val + range_ubound`
(`AgentRegistry.c:1650`), a range registration that fails unregisters what another
one registered (1138), and unregistering does not check the session.

### VacmViews

`views` is the list `viewCreate`, `viewDestroy` and `viewClear` maintain; `ask`, `vp`,
`shorter`, `longer` are the arguments and locals of `Vacm_viewGet` and
`Vacm_viewSubtreeCheck`, one entry of the loop at a time (`PassShorter`, `PassLonger`,
`PassOther`, `Finish`); `verdict` is what the last search returned. A mask is the set
of positions it does not compare.

`Best` says which entry decides: a match no other match beats, and of several
entries for one subtree the first. `VerdictSound` says that both searches answer
as the deciding entries do, and that `viewSubtreeCheck` promises for a subtree only
what holds for every name in it; `"unknown"` promises nothing, and may be
returned where a shadowed entry differs. `Vacm.h:131` says of `getViewEntry` that
it returns the entry with the same subtree; it returns the longest match, which is
what its callers need. Row status is ignored by both searches. Left out:
the SET handlers of the view tables, groups and access entries.

## Runs

Twelve runs. Each of the passing ones answers a question of its own; the four
others are findings.

| run | instance | shows |
|---|---|---|
| `gate` | 3 requests, GET, GETNEXT and SET, two varbinds in one slot, local or a subagent's, one extra getnext pass | `SetExclusion`, `QueueAssertions` (the two assertions of the code, which only log when they fail), `OnePlace`, `StartsInOrder`, `GateHandover`, the refinement `ImplementsGate`, and `SchedulerInv`, the inductive invariant of the proofs. Short answers, timeouts and closing sessions included |
| `orphan` | 2 requests, GET and SET, a local handler and 2 sessions that die, close or answer short | `NoOrphan`, `AnswersMatchPhase`, `FailureNotCommitted`, `SetSettled`, `TruthfulResponse`: a SET over two subagents and the agent itself, with errors in any phase of any of them |
| `death` | 2 requests, GETNEXT and SET, 1 session that may die or close, fairness | `EventuallyAnswered`, from PDUs in flight |
| `session` | a subagent's session (3 requests, 1 retry, disconnects) and an SNMPv3 session (2 requests, 2 retries, reports), sends that fail, one call at a time, fairness | `ListSound`, `WaitsForListed`, `SessionOutlivesCalls`, `StatusTellsOutcome`, `RetryBudget`, `EveryoneEnds` |
| `sets` | 2 SETs, handlers that delegate, at most 3 SETs, timeouts (resent, or given up with the session closed) and disconnects together, fairness | `Agreement`, `AnswersFindTheirSet`, `TruthfulAnswers`, `PassOrder`, `SetsSettle` |
| `registry` | 4 nested and adjacent regions, 2 priorities, 2 sessions, at most 3 at once, a cache of 2 | `TreeSound`, `CacheSound`, `LookupsServe`, the refinement `ImplementsRegistry` |
| `link` | 2 registrations, 2 deaths of the master, 2 calls given up, 3 actions of the program, fairness | `Watched`, `NothingStale`, `TablesAgree`, `Reconnects` |
| `views` | 2 names, 3 subtrees with every mask, 5 names asked for, 3 entries | `ScanInv`, `VerdictSound` |
| `reserve`, `lockup` | 1 request | violated: findings 1 and 2 |
| `spin` | 2 requests, a call inside a call | violated: finding 3 |
| `reattach` | 1 death of the master | violated: finding 4 |

Each module has one type invariant besides (`TypeOK`, `MasterTypeOK`, `ApiTypeOK`,
`SetsTypeOK`, `TreeTypeOK`, `LinkTypeOK`; that of `VacmViews` is in `ScanInv`).

`CHECK_DEADLOCK FALSE` is in every configuration but that of `views`. Requests, SETs, deaths
and the like are finite in a run: when all are over, nothing is left to happen.
That nothing stops earlier is what `EventuallyAnswered`, `EveryoneEnds`, `SetsSettle` and
`Reconnects` say. In `registry` something can always happen but the step may change
nothing.

**Bounds.**

- *Scheduler and master.* Two varbinds for each request are enough for one slot
  with a chain, or for two slots in either order, which errors of lowest index,
  partial failure and the chain of the first varbind need. Three requests in
  `gate`: one executes, one waits at the head, one behind it. `gate` takes both
  varbinds from one slot, since who runs does not depend on how many slots a
  request has; `orphan` and `death` mix them. `MaxPasses` bounds the getnext loop, which
  in the code ends because OIDs grow, something the model does not see, so that
  `EventuallyAnswered` says nothing of a GETNEXT that goes round for ever; it is 1
  where GETNEXT occurs (a second pass meets stale chain pointers), else 0.
- *Library.* `MaxRetries` is 1 and 2: a request meets the timer with retries left and
  without, and a report before, at and after the limit. Three requests are the
  least list with a first, a middle and a last. `MaxDepth` bounds calls inside
  one another; it is 1 but in `spin`.
- *SETs over the link.* `Budget` bounds SETs, timeouts and disconnects together: 3
  is two SETs with one fault between them or in either. `MaxRetries` 1 lets the
  configured retries be 0 or 1, both outcomes of a timeout.
- *Tree.* The regions have one inside another at its beginning, one inside that,
  and one behind it; the objects lie inside, between and at their edges, one of
  them behind the last root, where nothing may be found.
  `MaxRegs` 3 is the least with a slice in the middle of three. `CacheSize` 2 lets the
  cache fill up and wrap.
- *Connection.* `MaxSess` bounds addresses in use at a time (`Unused`) and is never the reason a
  step cannot happen. Two deaths, so that the connection is lost
  while it is being restored; two timeouts, so that the close after a failed
  ping is itself given up.
- *Views.* Three entries let two matches and one entry below the subtree meet. What
  TLC shows for these names the proofs show for all.

No counter wraps in the modelled code within any of these executions.

**Fairness.**

- `WF(AgentStep)`: the agent is a loop that always goes on inside a callback and calls
  `Agent_checkOutstandingAgentRequests` once each turn (`_Daemon_receive`,
  `Agent_checkAndProcess`). In `AgentxMaster` a PDU in a request list ends in an answer
  or a timeout (`Api_timeout`), an end of connection is read, a session without a
  socket is dropped by the next `Api_selectInfo2`. Nothing is assumed of the
  subagent and no packet is ever assumed to arrive. The fairness of each PDU is weak:
  between two callbacks the agent returns to the main loop, where the timer is
  tested again. `Api_timeout` itself runs only on a turn where `select` finds nothing
  to read (`Daemon.c:864`, `Agent_checkAndProcess`, `Client_synchResponseCb`); the
  requests of a run are finite, so such turns come. A peer that never stops
  sending packets is outside this assumption.
- `ApiFairness` is the same for one session: time passes, timers run, a call that is
  done returns, a broken session is dropped. No answer is assumed.
- `SubagentSets`: both programs read what is in their queues (`MasterReads`,
  `SubagentReads`, `InternalSet`, `HandleSetResponse`), and a handler that delegated
  finishes (`FinishPass`). Timeouts and disconnects are never assumed.
- `SubagentLink`: calls return (their own timeout is in `Returns` and `Timeout`, the answer
  in `MasterReads`), ends of connection are read, and the master is started again when it
  has died. `FireReopen` has strong fairness: alarms run only in the main loop
  (`Daemon.c:894`, `Agent.c:562`), which the program leaves and enters again for
  pings and registrations, but a due alarm is run on the next turn.

## Findings

1. **A failed RESERVE1 may be committed** (run `reserve`). When a local handler fails
   in RESERVE1 and another varbind of the SET is delegated,
   `Agent_handleSetLoop` returns NOERROR, `Agent_handleRequest` stores it over
   the failure, and the status check made at resumption ignores the varbind
   because `asp->index` was not reset. The SET goes on to COMMIT; the comment
   of `Agent_handleSet` says a pass is made to free.
   `FailureNotCommitted` and `TruthfulResponse` are therefore stated for a
   *clean start*: no local failure in a RESERVE1 pass that parks. Everything
   else is shown to be handled.
2. **A PDU that cannot be sent locks up the agent** (run `lockup`): its
   varbinds are delegated and no request list holds it. If it belonged to a SET,
   the gate stays shut.
3. **A call outside another waits for ever** (run `spin`). When the master goes away
   during a synchronous call inside another, only the inner one is told; the outer
   loop goes on, and its session is freed by its own `select`. The same loss
   occurs without a disconnect when the answer or the timeout of the outer call
   arrives in the inner loop: `XClient_synchInput` hands it to
   `Subagent_handleAgentxPacket`, which drops it, and the request leaves the
   list. Run `session` therefore has one call at a time.
4. **A registration is never made again** (run `reattach`). When the connection is lost
   in a REGISTER of the reattach loop, the loop goes on and marks the remaining
   nodes as attached without a session; the next reattach skips them.
   `TablesAgree` and `Reconnects` except these nodes (`skipped`) until they are
   unregistered or detached.

Smaller observations, from the models or from reading:

- `Agent_removeDelegatedRequestsForSession` follows the chain of the first slot only
  (`Agent.c:1308`). It does not lock up the agent by itself: the request list of
  that session times out (run `death`).
- `MasterAdmin_closeAgentxSession` for one subsession frees it without looking at the
  requests delegated to it.
- A recoverable report is tested with `rp->retries <= sp->retries` (`Api.c:4595`), the
  timer with `>=` (`Api.c:5556`), so a report may cause one transmission more than the
  session's retries. `RetryBudget` states the bound that holds for both together.
- The release alarm of a table cache may run between RESERVE1 and a later pass of a
  delegated SET, which asserts that the cache is valid (`CacheHandler.c:596`).
- `SysORTable.c:168`: the loop ends early when the head of the list is erased.

## Proofs

`AgentRequestsProofs` proves, for every number of requests, varbinds,
slots, sessions and every set of layouts, under the assumption
`ConstantsAssumption` of `AgentRequests`:

| theorem | statement |
|---|---|
| `SchedulerInvariant` | `Spec => []SchedulerInv` |
| `TypeCorrect`, `OnePlaceCorrect`, `SetExclusionCorrect`, `QueueAssertionsCorrect` | the invariants of run `gate` |
| `StartsInOrderCorrect`, `GateHandoverCorrect` | its action properties |
| `GateImplemented` | `Spec => ImplementsGate`: initial states map to initial states, every step to a step of the gate or a stutter |

None of the safety properties is inductive. Exclusion of SETs
needs to know who holds the gate (`HolderInv`: an executing SET, alone, or the
head of the queue); that needs that a queue is never left behind an open gate
except while it is served (`QueueInv`); both need where control is
(`ControlInv`) and that no request is on two lists (`OnePlace`). `SchedulerInv`
is the conjunction, and run `gate` checks it. The proof has a lemma for each
action, or group of actions that change the same variables. Types of the chains
need that a non-empty finite set of varbinds has a least element
(`MinExists`), proved from well-foundedness of the naturals.

`VacmViewsProofs` proves `Spec => []ScanInv` (`ScanCorrect`) and
`Spec => []VerdictSound` (`VerdictCorrect`) for any names, any object identifiers,
masks and lists of any length, under `ViewsAssumption`. `ScanInv` is the loop
invariant of both searches and is inductive together with the soundness of the
last verdict. The argument for `viewSubtreeCheck` is that an entry that matches a name
below the subtree either matches the subtree itself, and then beats or loses
there as it does here (`SameMatch`), or reaches below it, and then has the type of
`vpLonger`.

`ApiRequestsProofs` proves, for any finite set of requests and any sessions, under
`ApiAssumption`:

| theorem | statement |
|---|---|
| `ListCorrect`, `ApiTypesCorrect`, `RetryBudgetCorrect` | `ListSound`, `ApiTypeOK` and `RetryBudget` always hold, at any depth of calls |
| `WaitsCorrect`, `StatusCorrect`, `SessionOutlives` | `WaitsForListed`, `StatusTellsOutcome` and `SessionOutlivesCalls` always hold, if `MaxDepth` is at most 1 |

The invariant behind the first three, `ListInv`, says that there is a sequence of
requests without duplicates which the pointers lead through, that its elements are
the requests outstanding, and that a walk of `Api_sessTimeout` stands at one of its places
with the request before it as `orp`. `JoinChained` and `UnlinkChained` are what
`_Api_sessAsyncSend` and the two places that unlink do to such a sequence, and
`NodeIs` that following the pointers from the head meets it in order. A callback may
append a request before its own is unlinked (`FinishJoins`): the `orp` found
before is still right, because requests join at the end. The other three need in
addition that the call that waits is the innermost (`CallInv`), which is
false as soon as one call is made inside another: finding 3. The hypothesis
on `MaxDepth` is therefore needed, not a bound of the proof.

`AgentxMasterProofs` builds on `AgentRequestsProofs`. For any numbers and any
`Faults` it proves of the composition `MasterSpec`:

| theorem | statement |
|---|---|
| `MasterInvariant` | `MasterSpec => []MasterInv` |
| `MasterTypeCorrect`, `MasterSetExclusion`, `AnswersMatchPhaseCorrect` | `MasterTypeOK`, `SetExclusion` and `AnswersMatchPhase` always hold |
| `NoOrphanCorrect` | `NoOrphan` always holds, if `"sendfail"` is not in `Faults` |

Every step of the master but one is a step of the scheduler, so `SchedulerInv` carries
over (`MasterScheduler`); the exception is `Reap`, which may close a session for a
request that no longer waits for it (`ReapScheduler`). To this `MasterInv` adds that
a PDU sent to an `Open` session is awaited, in the phase that sent it (`Awaited`): hence
there is one PDU at most for a request and an open session (`OnePdu`), and the
answer to it leaves nothing behind that another PDU was to release. `Asked` is
`NoOrphan` at every point of the agent's functions. A step that sends or
receives nothing preserves both because it changes no request that has delegated
varbinds (`Kept`), which needs that a request begins and ends its passes with none
(`Undelegated`). That a PDU can be built and not sent is finding 2: the
hypothesis of `NoOrphanCorrect` is needed.

The last parts of `AgentRequestsProofs` and `AgentxMasterProofs` prove what becomes
of a SET, the first for `Spec`, the second for the composition `MasterSpec` with any
`Faults`:

| theorem | statement |
|---|---|
| `HistoryInvariant`, `OutcomeInvariant` | `SchedulerInv /\ HistoryInv`, and `OutcomeInv`, always hold |
| `FailureNotCommittedCorrect`, `MasterFailureNotCommitted` | `FailureNotCommitted` always holds |
| `TruthfulResponseCorrect`, `MasterTruthfulResponse` | every answer is truthful (`TruthfulResponse`) |
| `SetSettledCorrect`, `MasterSetSettled` | every answer finds the SET settled (`SetSettled`) |

The properties speak of the history, the agent decides by `mode`, `status`,
`index` and the errors of the varbinds; `HistoryInv` relates the two, one `Story`
for each request. Its parts: what was called and failed belongs to the modes so
far (`Phases`); every slot the pass is done with has been called, or its session is
gone (`Covered`); after a clean start, the failures are of the current phase and
will be seen at its end (`Clean`, `Flagged`); a commit starts without failures
(`CleanCommit`); what is freed or undone has an error status (`Undone`); and before
the first delegation only handlers fail (`FirstRunStory`). The last is what `CleanStart`
is for: when a SET waits for the first time `Agent_handleRequest` stores the
status `Agent_handleSetLoop` returned, and a failure of a handler in that pass is
forgotten (finding 1). A failure in an answer is not, because it marks
a varbind. That holds for a callback that comes after the transaction too (`Reap`):
it marks the first varbind of the session, and there is one, because its PDU
was sent by a handler call of the request (`PduStory`).

`SubagentSetsProofs` proves, for any number of SETs, retries, timeouts and broken
connections and any `Faults`, under `SetsAssumption`:

| theorem | statement |
|---|---|
| `SetsInvariant`, `SetsTypes`, `SetsAgree` | `SetsInv`, `SetsTypeOK` and `Agreement` always hold |
| `CalmInvariant` | `CalmInv` always holds |
| `AnswersFound`, `AnswersTrue`, `PassesInOrder` | `AnswersFindTheirSet`, `TruthfulAnswers` and `PassOrder` hold |

There are two inductive invariants. `SetsInv` holds whatever goes wrong. The
subagent turns a CLEANUPSET into FREE or COMMIT by the mode of the newest cell
of the transaction, so `Agreement` depends on which cell that is when the PDU is
read. `Asked`, `Modes` and `Passing` say that the PDUs on their way, the modes of
all cells (freed ones included, since an answer may still read them) and the passes
agree with the decision. They do not exclude that a SET which is to be committed is
freed; `Lively` does: while a SET is undecided, or is to be committed and its
CLEANUPSET has not been read, every pass names a cell that is listed and its own,
and once the subagent was asked to commit (`Committing`) the newest cell of the SET
is in ACTION and no TESTSET that could put another before it is left in the stream.
After an UNDOSET or a free none of this is true, and none is needed; nor is it once the
session is closed, for that decides every open SET as one to free or to undo.

`CalmInv` holds until a PDU is resent or given up or the connection breaks, and
says much more: every SET is at one place (`Stage`: at rest, in the stream, queued,
in the handlers, in the queue of replies, or answered), and for each place what
the cell, the cache and the handlers have of it (`AtSubagent`, `Due`, `InHandlers`,
`Handled`, `AtMaster`). The other three properties follow from it at once. A step moves
one SET, and `CalmBut` reduces it to that SET: the others keep their place because
nothing of theirs changes (`Keeps`). That these properties exclude `troubled` is
needed: TLC violates each without it, as described above.

`SubagentLinkProofs` proves, for any numbers of nodes, sessions, deaths, timeouts and
changes by the program, under `LinkAssumption`:

| theorem | statement |
|---|---|
| `LinkInvariant`, `LinkTypes` | `LinkInv` and `LinkTypeOK` always hold |
| `ConnectionWatched` | `Watched` always holds: someone looks after the connection |
| `NothingStaleLeft` | `NothingStale` always holds |
| `TablesInStep` | `TablesAgree` always holds |

The properties speak of the main loop, where no call is open; the invariant says
what is true at every point of every call, because the disconnect handler may run
there. `Cared` is about callbacks, locks and alarms: the traversal of a callback
list holds its lock unless the disconnect handler ran inside it, every live entry
is that of the session, and a program without a session has a reopen alarm or is
about to reopen. `Stream` orders what the master has yet to read: all of an
earlier session comes before its end, and that before the first PDU of the present
session. `Tables` needs that order: the last thing the master is told of
a node, or what it has if it is told nothing, is what the program has registered
(`ToldSound`), except nodes that the reattach loop marked while there was no session
(`skipped`, finding 4).

`RegistryTreeProofs` proves, for any regions under the three roots, priorities,
sessions and objects and a cache of any size, under `TreeAssumption`:

| theorem | statement |
|---|---|
| `TreeInvariant` | `Spec => []TreeInv` |
| `TreeTypeCorrect`, `TreeSoundCorrect`, `CacheCorrect`, `LookupsServeCorrect` | `TreeTypeOK`, `TreeSound`, `CacheSound` and `LookupsServe` always hold |
| `RegistryImplemented` | `Spec => ImplementsRegistry`: every step of the tree is a step of the set of registrations or a stutter |
| `RemovalsTakeEffect` | `Unregister` and `CloseSessions` remove exactly what they name: here a stutter will not do |

The argument separates the pointers from the set of nodes.

- *Pointers* (`RegistryShapeProofs`). `Shape(h, T, z)` says that the fields of the nodes `T`
  are what `T` calls for: slices meet end to end up to `z` (`Ends`), `next` and `prev` lead
  to the heads of the neighbouring slices, with the offset at which the names differ
  (`Nexts`, `Prevs`), `children` to the next to be asked (`Belows`), and no two nodes of a
  slice have one rank (`Ranked`). `SplitShape`, `MatchShape` and `UnloadShape` are what the
  three operations that link do to it. `FollowPath` is what makes the lists usable: a
  pointer that always leads on to a greater node in a finite heap gives a
  sequence without repetition (`ChainIs`, `HeadsAre`).
- *Lookup.* `LessTransitive` and `SkipSound` are about names alone: if the next
  slice agrees with this one beyond the place where the name looked for parts
  from this one, then the name falls behind the next one as well. `WalkReaches`
  carries that along the list, from the first slice or from a cache entry,
  up to the slice the name falls into.
- *Nodes.* `Full(D)` says that every registration is `Whole`: its bounds are
  edges of slices, and it has a node in each slice inside its region and in no other.
  While a region is being loaded one registration is whole only up to `m` (`Loaded`) and
  the rest of it waits outside the tree (`Waits`). `RefusedFirst` shows that a duplicate
  can only be met in the first slice: there the region with the same name and priority
  begins too, and both are in every slice or neither. Hence what is refused leaves
  nothing but edges. `NoneBehind` is the claim of the comment at `AgentRegistry.c:1621`:
  the first slice without the name ends the region.
- *The rest.* `TreeInv` adds that the cache holds pairs of neighbours (`Cached`). It
  follows that lookups find the slice the object falls into, and `ServesTop` that
  the head of that slice is the registration to ask. `NextDetermined` is used when a
  close removes nothing: the cache is kept and is still right, because `next` is a
  function of the set of nodes.

That a session is not registered twice at one place (the guard of `Register`) loses
nothing, since the tree refuses it like any duplicate.

The theorems are about the same modules that TLC runs. Only model-checked is liveness
(`EventuallyAnswered`, `EveryoneEnds`, `SetsSettle`, `Reconnects`): fairness and ENABLED are
out of the prover's reach. Every other property of a passing run is a theorem.

## Not modelled

- *Nested queries.* A handler that queries its own agent calls
  `Agent_checkOutstandingAgentRequests` from inside a handler, inside a scan. The
  scheduler of `AgentRequests` is not reentrant: its control state is one
  function, not a stack.
- *Index allocation* is sequential code over a table keyed by name and session.
- *Ranges, contexts, table rows* of the registration tree; *GETBULK* rearrangement.
- *Handler caches, alarms with their clock, baby steps, table helpers, containers,
  event, schedule and notification MIBs*: each runs within one call and keeps data
  rather than a protocol; what interleaves through them is in `SubagentLink`
  (alarms, callbacks) and `AgentRequests` (what a local handler may answer).
- *Parsing, encoding, formatting, configuration files, logging, sockets,
  cryptography, kernel readers and the generated tables*: data conversion or
  input and output without a protocol of their own. They are most of the
  source.

The list of components in `PROJECT.json` gives the reason for each.

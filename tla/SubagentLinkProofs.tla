--------------------------- MODULE SubagentLinkProofs ---------------------------
(***************************************************************************)
(* The connection of SubagentLink is looked after, nothing stale is left   *)
(* behind and the tables of master and subagent agree, for any number of   *)
(* nodes, sessions, deaths, timeouts and registrations of the program.     *)
(*                                                                         *)
(* The inductive invariant says what is true between the two programs at   *)
(* every point of a call: which callbacks and alarms there are (Cared),    *)
(* what the master has yet to read and in which order (Stream), and what   *)
(* it will serve when it has read that (Tables).                           *)
(***************************************************************************)
EXTENDS SubagentLink, TLAPS, SequenceTheorems, FiniteSetTheorems

-----------------------------------------------------------------------------
(* The inductive invariant.                                                *)

Op == {"startup", "idle", "open", "caps", "ping", "close", "crashed"} \cup List
Pointer == Sess \cup {0}
TaskType == [op : Op, sess : Pointer, node : 0 .. NumNodes, entry : Nat,
             why : {"none", "direct", "alarm", "reattach", "program"}]
PduType == [kind : Op \cup {"eof"}, sess : Sess, node : 0 .. NumNodes, due : BOOLEAN]

Typed ==
    /\ main \in Pointer /\ pings \in SUBSET Sess /\ reopeners \in Nat
    /\ hooks \in [List -> Seq(Pointer)] /\ locks \in [List -> Int]
    /\ nodes \in [Node -> {"absent", "attached", "detached"}]
    /\ task \in TaskType /\ result \in {"none", "wait", "ok", "fail"}
    /\ freed \in BOOLEAN /\ wire \in Seq(PduType)
    /\ cut \in SUBSET Sess /\ up \in BOOLEAN /\ opened \in SUBSET Sess
    /\ regs \in [Node -> Pointer]
    /\ skipped \in SUBSET Node

Resting == {"startup", "idle", "crashed"}

\* The traversal of a callback list for the program, and that of the reattach
\* loop.
ForProgram == task.op \in List /\ task.why = "program"
ForReattach == task.op = "register" /\ task.why = "reattach"

\* What the program is doing.
TaskSound ==
    /\ task.op \in Resting <=> result = "none"
    /\ task.op \in List => ForProgram \/ ForReattach
    /\ task.op \in List => /\ task.node \in Node
                           /\ freed <=> main = 0
    /\ freed => task.op \in List
    /\ task.op = "open" => \/ main # 0 /\ main = task.sess
                           \/ main = 0 /\ result = "fail"
    /\ task.op \in {"ping", "close"} /\ main # 0 => task.sess = main
    /\ task.op \in {"startup", "crashed"} => main = 0

\* A traversal holds its lock unless the attempt to take it failed.
LocksSound ==
    \A l \in List : IF task.op = l THEN locks[l] \in {0, 1} /\ (freed => locks[l] = 0)
                    ELSE locks[l] \in {-1, 0}

\* Every live entry is that of the session, which has one at most.
HooksSound ==
    \A l \in List : \A j, k \in DOMAIN hooks[l] :
        hooks[l][k] # 0 => hooks[l][k] = main /\ (hooks[l][j] = main => j = k)

HooksPresent ==
    main # 0 => \A l \in List :
        (\E k \in DOMAIN hooks[l] : hooks[l][k] = main) <=> task.op \notin {"open", "close"}

EntryLive ==
    \A l \in List : task.op = l /\ main # 0 =>
        task.entry \in DOMAIN hooks[l] /\ hooks[l][task.entry] = main

\* Who looks after the connection.
AlarmsSound ==
    /\ pings \subseteq {main}
    /\ task.op \in {"startup", "open", "caps"} \/ ForReattach => pings = {}
    /\ main # 0 /\ (task.op \in {"idle", "ping"} \/ ForProgram) => main \in pings
    /\ main = 0 /\ (task.op \in {"idle", "ping", "close"} \/ ForProgram) => reopeners > 0
    /\ task.op = "open" /\ task.why # "direct" => reopeners > 0

Cared == TaskSound /\ LocksSound /\ HooksSound /\ HooksPresent /\ EntryLive /\ AlarmsSound

Ended(s, i) == \E j \in DOMAIN wire : j >= i /\ wire[j].kind = "eof" /\ wire[j].sess = s

Told(n) == {i \in DOMAIN wire : wire[i].kind \in List /\ wire[i].sess = main
                                /\ wire[i].node = n}

\* A connection that was cut left nothing behind.
CutSound ==
    /\ cut \subseteq {main}
    /\ main \in cut => wire = <<>> /\ opened = {} /\ \A n \in Node : regs[n] = 0

\* An answer is due only to the call that is waited for.
DueSound == \A i \in DOMAIN wire : wire[i].due => result = "wait" /\ i = Len(wire)

\* Whatever is left of earlier sessions ends before the present one begins.
Earlier ==
    /\ \A n \in Node : regs[n] # 0 => regs[n] \in opened
    /\ \A i \in DOMAIN wire : wire[i].sess # main => Ended(wire[i].sess, i)
    /\ \A s \in opened : s # main => Ended(s, 1)
    /\ \A i, j \in DOMAIN wire : i < j /\ wire[i].sess = main => wire[j].sess = main
    /\ main \in opened => \A i \in DOMAIN wire : wire[i].sess = main

\* The present session is open, or its Open is the first the master will read
\* of it, and it is not closed before that is asked for.
Present ==
    /\ \A i \in DOMAIN wire : wire[i].sess = main =>
          /\ wire[i].kind # "eof"
          /\ wire[i].kind = "close" => task.op = "close"
          /\ task.op = "open" => wire[i].kind = "open"
    /\ main # 0 /\ main \notin cut /\ task.op # "close" =>
          \/ main \in opened
          \/ \E i \in DOMAIN wire : /\ wire[i].kind = "open" /\ wire[i].sess = main
                                    /\ \A j \in DOMAIN wire : j < i => wire[j].sess # main

Stream == CutSound /\ DueSound /\ Earlier /\ Present

Registered(n) == nodes[n] = "attached" \/ (ForReattach /\ task.node = n)

\* Marks without a session are skipped ones; a reattach loop leaves no node
\* behind it that is not marked.
MarksSound ==
    /\ main = 0 \/ task.op = "open" => \A n \in Node : nodes[n] = "attached" => n \in skipped
    /\ main # 0 /\ (task.op \in {"idle", "ping", "caps"} \/ ForProgram) =>
          \A n \in Node : nodes[n] # "detached"
    /\ main # 0 /\ ForReattach => \A n \in Node : n < task.node => nodes[n] # "detached"

\* What the master will serve of a node once it has read everything: the last
\* thing it is told of it counts.
WillServe(n) ==
    \/ Told(n) = {} /\ regs[n] = main
    \/ \E i \in Told(n) : wire[i].kind = "register" /\ \A j \in Told(n) : j <= i

\* That is what the program has, but for what was skipped.
ToldSound ==
    /\ task.op = "open" /\ main # 0 => \A n \in Node : regs[n] # main
    /\ main # 0 /\ main \notin cut /\ task.op \notin {"open", "close"} =>
          \A n \in Node \ skipped : WillServe(n) <=> Registered(n)

Tables == MarksSound /\ ToldSound

LinkInv == Typed /\ Cared /\ Stream /\ Tables

-----------------------------------------------------------------------------
(* Lists and their removals.                                               *)

\* Every place of a shortened list is that of one element that was kept.
LEMMA PlaceExists ==
    ASSUME NEW n \in Nat, NEW S \in SUBSET (1 .. n), NEW k \in 1 .. Cardinality(S)
    PROVE  \E j \in S : Cardinality({i \in S : i \leq j}) = k
<1> DEFINE Upto(j) == {i \in S : i \leq j}
           f == [j \in S |-> Cardinality(Upto(j))]
<1>1. IsFiniteSet(S) /\ Cardinality(S) \in Nat
  <2>1. IsFiniteSet(1 .. n)
    BY FS_Interval
  <2> QED BY <2>1, FS_Subset, FS_CardinalityType
<1>2. \A j \in S : /\ IsFiniteSet(Upto(j))
                   /\ Cardinality(Upto(j)) \in 1 .. Cardinality(S)
  <2> TAKE j \in S
  <2>1. Upto(j) \in SUBSET S /\ j \in Upto(j)
    OBVIOUS
  <2>2. IsFiniteSet(Upto(j)) /\ Cardinality(Upto(j)) <= Cardinality(S)
    BY <2>1, <1>1, FS_Subset
  <2>3. Cardinality(Upto(j)) \in Nat /\ Cardinality(Upto(j)) # 0
    BY <2>1, <2>2, FS_CardinalityType, FS_EmptySet
  <2> QED BY <2>2, <2>3, <1>1
<1>3. \A i, j \in S : i < j => f[i] # f[j]
  <2> SUFFICES ASSUME NEW i \in S, NEW j \in S, i < j, Cardinality(Upto(i)) = Cardinality(Upto(j))
               PROVE  FALSE
    OBVIOUS
  <2>1. Upto(i) \in SUBSET Upto(j) /\ j \in Upto(j) /\ j \notin Upto(i)
    <3>1. S \subseteq Nat
      OBVIOUS
    <3>2. \A x \in S : x \leq i => x \leq j
      BY <3>1
    <3>3. Upto(i) \subseteq Upto(j)
      BY <3>2
    <3>4. j \leq j /\ ~(j \leq i)
      BY <3>1
    <3> QED BY <3>3, <3>4
  <2>2. Upto(j) = Upto(i)
    BY <2>1, <1>2, FS_Subset
  <2> QED BY <2>1, <2>2
<1>4. f \in Injection(S, 1 .. Cardinality(S))
  <2>1. f \in [S -> 1 .. Cardinality(S)]
    BY <1>2
  <2>2. \A i, j \in S : f[i] = f[j] => i = j
    BY <1>3
  <2> QED BY <2>1, <2>2 DEF Injection, IsInjective
<1>5. IsFiniteSet(1 .. Cardinality(S)) /\ Cardinality(1 .. Cardinality(S)) = Cardinality(S)
  BY <1>1, FS_Interval
<1>6. f \in Surjection(S, 1 .. Cardinality(S))
  BY <1>1, <1>4, <1>5, FS_Injection
<1> QED BY <1>6 DEF Surjection

\* What Callback_unregister leaves in a list was there and is not of the session.
LEMMA UnlinkedKeeps ==
    ASSUME NEW list \in Seq(Pointer), NEW s
    PROVE  /\ Unlinked(list, s) \in Seq(Pointer)
           /\ \A k \in DOMAIN Unlinked(list, s) :
                \E j \in DOMAIN list : list[j] # s /\ Unlinked(list, s)[k] = list[j]
<1> DEFINE kept == {k \in DOMAIN list : list[k] # s}
           Place(k) == CHOOSE j \in kept : Cardinality({i \in kept : i \leq j}) = k
<1>1. Len(list) \in Nat /\ DOMAIN list = 1 .. Len(list) /\ list \in [1 .. Len(list) -> Pointer]
  BY LenProperties
<1>2. kept \in SUBSET (1 .. Len(list))
  BY <1>1
<1>3. Cardinality(kept) \in Nat
  <2>1. IsFiniteSet(1 .. Len(list))
    BY <1>1, FS_Interval
  <2>2. IsFiniteSet(kept)
    BY <2>1, <1>2, FS_Subset
  <2> QED BY <2>2, FS_CardinalityType
<1>4. \A k \in 1 .. Cardinality(kept) : Place(k) \in kept
  <2> TAKE k \in 1 .. Cardinality(kept)
  <2>1. \E j \in kept : Cardinality({i \in kept : i \leq j}) = k
    <3> HIDE DEF kept
    <3> QED BY <1>1, <1>2, PlaceExists
  <2> QED BY <2>1
<1>5. Unlinked(list, s) = [k \in 1 .. Cardinality(kept) |-> list[Place(k)]]
  BY DEF Unlinked
<1>6. \A k \in 1 .. Cardinality(kept) : list[Place(k)] \in Pointer /\ list[Place(k)] # s
                                         /\ Place(k) \in DOMAIN list
  BY <1>4, <1>1
<1> HIDE DEF kept, Place
<1> QED BY <1>3, <1>5, <1>6

\* A non-empty set of naturals has a least element.
LEMMA LeastExists ==
    ASSUME NEW S \in SUBSET Nat, S # {}
    PROVE  \E m \in S : \A k \in S : m \leq k
<1>1. PICK m \in S : \A k \in S : <<k, m>> \notin OpToRel(<, Nat)
  BY NatLessThanWellFounded, WFMin
<1>2. \A k \in S : ~(k < m)
  BY <1>1 DEF OpToRel
<1> QED BY <1>2

\* Callback_unregister, whichever way it takes: the list it leaves.
LEMMA UnhookedKeeps ==
    ASSUME Typed, NEW l \in List, NEW s
    PROVE  /\ Unhooked(l, s) \in Seq(Pointer)
           /\ \A k \in DOMAIN Unhooked(l, s) :
                \/ Unhooked(l, s)[k] = 0
                \/ \E j \in DOMAIN hooks[l] : hooks[l][j] # s /\ Unhooked(l, s)[k] = hooks[l][j]
<1>1. hooks[l] \in Seq(Pointer)
  BY DEF Typed
<1>2. /\ Len(hooks[l]) \in Nat /\ DOMAIN hooks[l] = 1 .. Len(hooks[l])
      /\ hooks[l] \in [1 .. Len(hooks[l]) -> Pointer]
  BY <1>1, LenProperties
<1>3. CASE Locked(l) = 1
  BY <1>1, <1>3, UnlinkedKeeps DEF Unhooked
<1>4. CASE Locked(l) # 1
  <2> DEFINE g == [k \in 1 .. Len(hooks[l]) |-> IF hooks[l][k] = s THEN 0 ELSE hooks[l][k]]
  <2>1. Unhooked(l, s) = g
    BY <1>2, <1>4 DEF Unhooked
  <2>2. g \in [1 .. Len(hooks[l]) -> Pointer]
    BY <1>2 DEF Pointer
  <2>3. g \in Seq(Pointer)
    BY <1>2, <2>2
  <2> QED BY <1>2, <2>1, <2>2, <2>3
<1> QED BY <1>3, <1>4

\* Disconnected, or pinged in vain: no list calls anybody any more.
LEMMA NoneLeft ==
    ASSUME Typed, HooksSound, NEW s, main # 0 => s = main, NEW l \in List
    PROVE  \A k \in DOMAIN Unhooked(l, s) : Unhooked(l, s)[k] = 0
<1> SUFFICES ASSUME NEW k \in DOMAIN Unhooked(l, s), Unhooked(l, s)[k] # 0
             PROVE  FALSE
  OBVIOUS
<1>1. PICK j \in DOMAIN hooks[l] : hooks[l][j] # s /\ Unhooked(l, s)[k] = hooks[l][j]
  BY UnhookedKeeps
<1>2. hooks[l][j] = main
  BY <1>1 DEF HooksSound
<1> QED BY <1>1, <1>2

-----------------------------------------------------------------------------
(* Who looks after the connection.                                         *)

Dead == \A l \in List : \A k \in DOMAIN hooks[l] : hooks[l][k] = 0

\* Without a session, and while one is opened or closed, nobody is called.
LEMMA DeadLists ==
    ASSUME Typed, Cared, main = 0 \/ task.op \in {"open", "close"}
    PROVE  Dead
BY DEF Dead, Cared, HooksSound, HooksPresent

\* A call begins: it waits, or has failed.
LEMMA AskBegins ==
    ASSUME NEW t, NEW s, NEW w, Ask(t, s, w)
    PROVE  task' = t /\ result' \in {"wait", "fail"}
BY DEF Ask

LEMMA FreshIsUnused ==
    ASSUME Unused # {}
    PROVE  Fresh \in Unused
BY DEF Fresh

LEMMA TaskFields ==
    ASSUME NEW op, NEW s, NEW n, NEW k, NEW why
    PROVE  /\ Task(op, s, n, k, why).op = op /\ Task(op, s, n, k, why).sess = s
           /\ Task(op, s, n, k, why).node = n /\ Task(op, s, n, k, why).entry = k
           /\ Task(op, s, n, k, why).why = why
BY DEF Task

\* _Subagent_reopenSession without a session leaves an alarm or a session
\* that is being opened.
LEMMA ReopenCared ==
    ASSUME Typed, Dead, \A l \in List : locks[l] \in {-1, 0}, ~freed,
           NEW why \in {"direct", "alarm"}, why # "direct" => reopeners > 0,
           NEW w, Reopen(why, 0, w),
           pings' = {}, UNCHANGED <<hooks, locks, freed>>
    PROVE  Cared'
<1>1. CASE ~up
  <2>1. /\ task' = NoTask /\ result' = "none" /\ main' = 0
        /\ reopeners' = Postponed(why)
    BY <1>1 DEF Reopen, Rest
  <2>2. task'.op = "idle" /\ task'.why = "none"
    BY <2>1, TaskFields DEF NoTask
  <2>3. reopeners' > 0
    BY <2>1 DEF Postponed, Typed
  <2>4. TaskSound' /\ LocksSound'
    BY <2>1, <2>2 DEF TaskSound, LocksSound, Resting, List, ForProgram, ForReattach
  <2>5. HooksSound' /\ HooksPresent' /\ EntryLive'
    BY <2>1, <2>2 DEF HooksSound, HooksPresent, EntryLive, Dead
  <2>6. AlarmsSound'
    BY <2>1, <2>2, <2>3 DEF AlarmsSound
  <2> QED BY <2>4, <2>5, <2>6 DEF Cared
<1>2. CASE up
  <2>1. /\ Unused # {} /\ main' = Fresh /\ UNCHANGED reopeners
        /\ Ask(Task("open", Fresh, 0, 0, why), Fresh, w)
    BY <1>2 DEF Reopen
  <2>2. main' \in Sess /\ main' # 0
    BY <2>1, FreshIsUnused DEF Unused, Sess
  <2>3. task' = Task("open", Fresh, 0, 0, why) /\ result' \in {"wait", "fail"}
    BY <2>1, AskBegins
  <2>4. task'.op = "open" /\ task'.why = why /\ task'.sess = main'
    BY <2>1, <2>3, TaskFields
  <2>5. TaskSound' /\ LocksSound'
    BY <2>2, <2>3, <2>4 DEF TaskSound, LocksSound, Resting, List, ForProgram, ForReattach
  <2>6. HooksSound' /\ EntryLive'
    BY <2>4 DEF HooksSound, EntryLive, Dead, List
  <2>7. HooksPresent'
    BY <2>2, <2>4 DEF HooksPresent, Dead
  <2>8. AlarmsSound'
    BY <2>1, <2>2, <2>4 DEF AlarmsSound, ForProgram, List, ForReattach
  <2> QED BY <2>5, <2>6, <2>7, <2>8 DEF Cared
<1> QED BY <1>1, <1>2 DEF Typed

LEMMA StartupCared ==
    ASSUME LinkInv, Startup
    PROVE  Cared'
<1>1. main = 0 /\ ~freed /\ pings = {}
  BY DEF LinkInv, Cared, TaskSound, AlarmsSound, Startup, List
<1>2. \A l \in List : locks[l] \in {-1, 0}
  BY DEF LinkInv, Cared, LocksSound, Startup, List
<1>3. Dead
  BY <1>1, DeadLists DEF LinkInv
<1>4. Reopen("direct", 0, wire)
  BY <1>1 DEF Startup
<1> QED BY <1>1, <1>2, <1>3, <1>4, ReopenCared DEF LinkInv, Startup, hookVars

\* A program that rests, and keeps its session, its callbacks and its alarms.
LEMMA RestCared ==
    ASSUME Typed, Cared, Rest, UNCHANGED <<main, pings, reopeners, hooks>>,
           task.op \in {"idle", "ping"} \/ ForProgram,
           ~freed', \A l \in List : locks'[l] \in {-1, 0}
    PROVE  Cared'
<1>1. task' = NoTask /\ result' = "none"
  BY DEF Rest
<1>2. task'.op = "idle" /\ task'.why = "none"
  BY <1>1, TaskFields DEF NoTask
<1>3. TaskSound' /\ LocksSound'
  BY <1>1, <1>2 DEF TaskSound, LocksSound, Resting, List, ForProgram, ForReattach
<1>4. HooksSound' /\ EntryLive'
  BY <1>2 DEF HooksSound, EntryLive, List, Cared
<1>5. HooksPresent'
  BY <1>2 DEF HooksPresent, List, Cared, ForProgram
<1>6. AlarmsSound'
  BY <1>2 DEF AlarmsSound, Cared, ForProgram, ForReattach, List
<1> QED BY <1>3, <1>4, <1>5, <1>6 DEF Cared

LEMMA FireReopenCared ==
    ASSUME LinkInv, FireReopen
    PROVE  Cared'
<1>1. ~freed /\ pings \subseteq {main}
  BY DEF LinkInv, Cared, TaskSound, AlarmsSound, FireReopen, List
<1>2. \A l \in List : locks[l] \in {-1, 0}
  BY DEF LinkInv, Cared, LocksSound, FireReopen, List
<1>3. CASE main = 0
  <2>1. Dead
    BY <1>3, DeadLists DEF LinkInv
  <2>2. Reopen("alarm", 0, wire)
    BY <1>3 DEF FireReopen
  <2>3. pings' = {}
    BY <1>1, <1>3 DEF FireReopen, LinkInv, Typed, Sess
  <2> QED BY <1>1, <1>2, <2>1, <2>2, <2>3, ReopenCared DEF LinkInv, FireReopen, hookVars
<1>4. CASE main # 0
  <2>1. Rest /\ UNCHANGED <<main, pings, reopeners, hooks, locks, freed>>
    BY <1>4 DEF FireReopen, Reopen, hookVars
  <2> QED BY <1>1, <1>2, <2>1, RestCared DEF LinkInv, FireReopen
<1> QED BY <1>3, <1>4

\* The first live entry after a place, if there is one.
LEMMA LiveFirst ==
    ASSUME NEW list \in Seq(Pointer), NEW k \in Nat
    PROVE  /\ Live(list, k) # 0 => /\ Live(list, k) \in DOMAIN list /\ Live(list, k) > k
                                   /\ list[Live(list, k)] # 0 /\ Live(list, k) \in Nat
           /\ Live(list, k) = 0 => \A j \in DOMAIN list : j > k => list[j] = 0
<1> DEFINE live == {j \in DOMAIN list : j > k /\ list[j] # 0}
<1>1. DOMAIN list = 1 .. Len(list) /\ Len(list) \in Nat
  BY LenProperties
<1>2. live \in SUBSET Nat /\ 0 \notin live
  BY <1>1
<1>3. CASE live = {}
  <2>1. Live(list, k) = 0
    BY <1>3 DEF Live
  <2> QED BY <1>3, <2>1
<1>4. CASE live # {}
  <2>1. \E j \in live : \A i \in live : j \leq i
    <3> HIDE DEF live
    <3> QED BY <1>2, <1>4, LeastExists
  <2>2. Live(list, k) = CHOOSE j \in live : \A i \in live : j \leq i
    BY <1>4 DEF Live
  <2>3. Live(list, k) \in live
    <3> HIDE DEF live
    <3> QED BY <2>1, <2>2
  <2> QED BY <1>1, <1>2, <2>3
<1> QED BY <1>3, <1>4

\* Callback_call for the program: a call to the one live entry there is.
LEMMA WalkCared ==
    ASSUME Typed, Cared, task.op = "idle", NEW l \in List, NEW n \in Node, Walk(l, n),
           UNCHANGED <<main, pings, reopeners, hooks, freed>>
    PROVE  Cared'
<1> DEFINE k == Live(hooks[l], 0)
<1>1. hooks[l] \in Seq(Pointer) /\ 0 \in Nat
  BY DEF Typed
<1>2. ~freed /\ \A m \in List : locks[m] \in {-1, 0}
  BY DEF Cared, TaskSound, LocksSound, List
<1>3. CASE k = 0
  <2>1. Rest /\ locks' = locks
    BY <1>3 DEF Walk
  <2> QED BY <1>2, <2>1, RestCared
<1>4. CASE k # 0
  <2>1. k \in DOMAIN hooks[l] /\ hooks[l][k] # 0
    BY <1>1, <1>4, LiveFirst
  <2>2. hooks[l][k] = main /\ main # 0
    BY <2>1 DEF Cared, HooksSound
  <2>3. /\ Ask(Task(l, hooks[l][k], n, k, "program"), hooks[l][k], wire)
        /\ locks' = [locks EXCEPT ![l] = Locked(l)]
    BY <1>4 DEF Walk
  <2>4. task' = Task(l, main, n, k, "program") /\ result' \in {"wait", "fail"}
    BY <2>2, <2>3, AskBegins
  <2>5. task'.op = l /\ task'.node = n /\ task'.entry = k /\ task'.why = "program"
    <3> HIDE DEF k
    <3> QED BY <2>4, TaskFields
  <2>6. \A m \in List : IF m = l THEN locks'[m] \in {0, 1} ELSE locks'[m] \in {-1, 0}
    BY <1>2, <2>3 DEF Typed, Locked
  <2> HIDE DEF k
  <2>7. TaskSound' /\ LocksSound'
    BY <1>2, <2>2, <2>4, <2>5, <2>6
    DEF TaskSound, LocksSound, Resting, List, ForProgram, ForReattach
  <2>8. HooksSound' /\ EntryLive'
    BY <2>1, <2>2, <2>5 DEF HooksSound, EntryLive, Cared
  <2>9. HooksPresent'
    BY <2>5 DEF HooksPresent, List, Cared
  <2>10. AlarmsSound'
    BY <2>2, <2>5 DEF AlarmsSound, Cared, ForProgram, ForReattach, List
  <2> QED BY <2>7, <2>8, <2>9, <2>10 DEF Cared
<1> QED BY <1>3, <1>4

LEMMA ProgramCared ==
    ASSUME LinkInv, Program
    PROVE  Cared'
<1>1. \E l \in List, n \in Node : Walk(l, n)
  BY DEF Program, ProgramRegister, ProgramUnregister, List
<1>2. task.op = "idle" /\ UNCHANGED <<main, pings, reopeners, hooks, freed>>
  BY DEF Program, ProgramRegister, ProgramUnregister, MayProgram, alarmVars
<1> QED BY <1>1, <1>2, WalkCared DEF LinkInv

\* The reattach loop calls the one live entry for a node, or sends the system
\* OR entries.
LEMMA ReattachCared ==
    ASSUME NEW i \in Nat, NEW marked, NEW list \in Seq(Pointer),
           NEW lock \in [List -> Int], Reattach(i, marked, list, lock),
           HooksSound', list = hooks'["register"],
           main # 0 => \A l \in List : \E k \in DOMAIN hooks'[l] : hooks'[l][k] = main,
           main' = main, pings' = {}, freed' = FALSE,
           \A l \in List : lock[l] \in {-1, 0}
    PROVE  Cared'
<1> DEFINE detached == {j \in Node : j >= i /\ marked[j] = "detached"}
           k == Live(list, 0)
           j == CHOOSE j \in detached : \A m \in detached : j \leq m
<1>1. CASE detached # {} /\ k # 0
  <2>1. k \in DOMAIN list /\ list[k] # 0
    BY <1>1, LiveFirst
  <2>2. list[k] = main /\ main # 0
    BY <2>1 DEF HooksSound, List
  <2>3. detached \in SUBSET Nat
    BY LinkAssumption DEF Node
  <2>4. j \in Node
    <3>1. \E x \in detached : \A m \in detached : x \leq m
      <4> HIDE DEF detached
      <4> QED BY <1>1, <2>3, LeastExists
    <3> QED BY <3>1
  <2>5. /\ Ask(Task("register", list[k], j, k, "reattach"), list[k], wire)
        /\ locks' = [lock EXCEPT !["register"] = IF @ >= 1 THEN @ ELSE @ + 1]
    BY <1>1 DEF Reattach
  <2> HIDE DEF j, k, detached
  <2>6. task' = Task("register", main, j, k, "reattach") /\ result' \in {"wait", "fail"}
    BY <2>2, <2>5, AskBegins
  <2>7. /\ task'.op = "register" /\ task'.node = j /\ task'.entry = k
        /\ task'.why = "reattach"
    BY <2>6, TaskFields
  <2>8. \A l \in List : IF l = "register" THEN locks'[l] \in {0, 1} ELSE locks'[l] \in {-1, 0}
    BY <2>5 DEF List
  <2>9. TaskSound' /\ LocksSound'
    BY <2>2, <2>4, <2>6, <2>7, <2>8
    DEF TaskSound, LocksSound, Resting, List, ForProgram, ForReattach
  <2>10. EntryLive'
    BY <2>1, <2>2, <2>7 DEF EntryLive, List
  <2>11. HooksPresent'
    BY <2>7 DEF HooksPresent, List
  <2>12. AlarmsSound'
    BY <2>7 DEF AlarmsSound, ForProgram, ForReattach, List
  <2> QED BY <2>9, <2>10, <2>11, <2>12 DEF Cared
<1>2. CASE ~(detached # {} /\ k # 0)
  <2>1. Ask(Task("caps", main, 0, 0, "reattach"), main, wire) /\ locks' = lock
    BY <1>2 DEF Reattach
  <2>2. task' = Task("caps", main, 0, 0, "reattach") /\ result' \in {"wait", "fail"}
    BY <2>1, AskBegins
  <2>3. task'.op = "caps"
    BY <2>2, TaskFields
  <2> HIDE DEF k, detached
  <2>4. TaskSound' /\ LocksSound'
    BY <2>1, <2>2, <2>3
    DEF TaskSound, LocksSound, Resting, List, ForProgram, ForReattach
  <2>5. EntryLive' /\ HooksPresent' /\ AlarmsSound'
    BY <2>3 DEF EntryLive, HooksPresent, AlarmsSound, List, ForProgram, ForReattach
  <2> QED BY <2>4, <2>5 DEF Cared
<1> QED BY <1>1, <1>2

\* Subagent_registerCallbacks: one live entry on each list, of the session.
LEMMA HookedOnce ==
    ASSUME Typed, Dead, NEW s \in Sess
    PROVE  /\ Hooked(s) \in [List -> Seq(Pointer)]
           /\ \A l \in List : /\ \E k \in DOMAIN Hooked(s)[l] : Hooked(s)[l][k] = s
                              /\ \A j, k \in DOMAIN Hooked(s)[l] : Hooked(s)[l][k] # 0 =>
                                    Hooked(s)[l][k] = s /\ (Hooked(s)[l][j] = s => j = k)
<1> SUFFICES ASSUME NEW l \in List
             PROVE  /\ Hooked(s)[l] \in Seq(Pointer)
                    /\ \E k \in DOMAIN Hooked(s)[l] : Hooked(s)[l][k] = s
                    /\ \A j, k \in DOMAIN Hooked(s)[l] : Hooked(s)[l][k] # 0 =>
                          Hooked(s)[l][k] = s /\ (Hooked(s)[l][j] = s => j = k)
  BY DEF Hooked
<1> DEFINE h == hooks[l]
<1>1. h \in Seq(Pointer) /\ s \in Pointer /\ s # 0
  BY DEF Typed, Pointer, Sess
<1>2. Hooked(s)[l] = Append(h, s)
  BY DEF Hooked
<1>3. \A k \in DOMAIN h : h[k] = 0
  BY DEF Dead
<1> HIDE DEF h
<1>4. DOMAIN h = 1 .. Len(h) /\ Len(h) \in Nat
  BY <1>1, LenProperties
<1>5. /\ Append(h, s) \in Seq(Pointer) /\ Len(Append(h, s)) = Len(h) + 1
      /\ \A i \in 1 .. Len(h) : Append(h, s)[i] = h[i]
      /\ Append(h, s)[Len(h) + 1] = s
  BY <1>1, AppendProperties
<1>6. DOMAIN Append(h, s) = 1 .. Len(h) + 1
  BY <1>5, LenProperties
<1> QED BY <1>1, <1>2, <1>3, <1>4, <1>5, <1>6

\* The locks as one attempt to take them and one release leave them.
LEMMA ReleasedLocks ==
    ASSUME Typed, Cared
    PROVE  /\ Released \in [List -> Int]
           /\ \A l \in List : Released[l] \in {-1, 0} /\ (task.op = l => Released[l] = 0)
<1>1. \A l \in List : locks[l] \in {-1, 0, 1} /\ (task.op = l => locks[l] \in {0, 1})
  BY DEF Cared, LocksSound
<1>2. Released = [l \in List |-> Locked(l) - 1]
  BY DEF Released
<1>3. \A l \in List : /\ Locked(l) - 1 \in {-1, 0}
                      /\ task.op = l => Locked(l) - 1 = 0
  BY <1>1 DEF Locked
<1> QED BY <1>2, <1>3

LEMMA OpenReturnsCared ==
    ASSUME LinkInv, OpenReturns
    PROVE  Cared'
<1>1. task.op = "open" /\ pings' = pings /\ freed' = freed
  BY DEF OpenReturns
<1>2. ~freed /\ pings = {} /\ Dead
  BY <1>1, DeadLists DEF LinkInv, Cared, TaskSound, AlarmsSound, List
<1>3. \A l \in List : locks[l] \in {-1, 0}
  BY <1>1 DEF LinkInv, Cared, LocksSound, List
<1>4. CASE result = "ok"
  <2>1. /\ hooks' = Hooked(main) /\ main' = main
        /\ Reattach(1, nodes, Hooked(main)["register"], Released)
    BY <1>4 DEF OpenReturns
  <2>2. main \in Sess /\ main # 0
    BY <1>1, <1>4 DEF LinkInv, Cared, TaskSound, Typed, Pointer, Sess
  <2>3. /\ Hooked(main) \in [List -> Seq(Pointer)]
        /\ \A l \in List : \E k \in DOMAIN Hooked(main)[l] : Hooked(main)[l][k] = main
        /\ HooksSound'
    BY <1>2, <2>1, <2>2, HookedOnce DEF LinkInv, HooksSound
  <2>4. Released \in [List -> Int] /\ \A l \in List : Released[l] \in {-1, 0}
    BY ReleasedLocks DEF LinkInv
  <2>5. Hooked(main)["register"] \in Seq(Pointer)
    BY <2>3 DEF List
  <2>6. main # 0 => \A l \in List : \E k \in DOMAIN hooks'[l] : hooks'[l][k] = main
    BY <2>1, <2>3
  <2>7. pings' = {} /\ freed' = FALSE
    BY <1>1, <1>2 DEF LinkInv, Typed
  <2>8. Hooked(main)["register"] = hooks'["register"] /\ 1 \in Nat
    BY <2>1
  <2> QED BY <2>1, <2>3, <2>4, <2>5, <2>6, <2>7, <2>8, ReattachCared
<1>5. CASE result = "fail"
  <2>1. /\ main' = 0 /\ Rest /\ UNCHANGED <<hooks, locks>>
        /\ reopeners' = Postponed(task.why)
    BY <1>5 DEF OpenReturns, hookVars
  <2>2. task' = NoTask /\ result' = "none"
    BY <2>1 DEF Rest
  <2>3. task'.op = "idle" /\ task'.why = "none"
    BY <2>2, TaskFields DEF NoTask
  <2>4. reopeners' > 0
    BY <1>1, <2>1 DEF LinkInv, Cared, AlarmsSound, Postponed, Typed
  <2>5. TaskSound' /\ LocksSound'
    BY <1>1, <1>2, <1>3, <2>1, <2>2, <2>3
    DEF TaskSound, LocksSound, Resting, List, ForProgram, ForReattach
  <2>6. HooksSound' /\ HooksPresent' /\ EntryLive'
    BY <1>2, <2>1, <2>3 DEF HooksSound, HooksPresent, EntryLive, Dead
  <2>7. AlarmsSound'
    BY <1>1, <1>2, <2>1, <2>3, <2>4 DEF AlarmsSound, ForProgram, ForReattach, List
  <2> QED BY <2>5, <2>6, <2>7 DEF Cared
<1> QED BY <1>4, <1>5 DEF OpenReturns

LEMMA CapsReturnsCared ==
    ASSUME LinkInv, CapsReturns
    PROVE  Cared'
<1>1. task.op = "caps" /\ UNCHANGED <<main, hooks, locks, freed>>
  BY DEF CapsReturns, hookVars
<1>2. ~freed /\ pings = {}
  BY <1>1 DEF LinkInv, Cared, TaskSound, AlarmsSound, List
<1>3. \A l \in List : locks[l] \in {-1, 0}
  BY <1>1 DEF LinkInv, Cared, LocksSound, List
<1>4. task' = NoTask /\ result' = "none"
  BY DEF CapsReturns, Rest
<1>5. task'.op = "idle" /\ task'.why = "none"
  BY <1>4, TaskFields DEF NoTask
<1>6. TaskSound' /\ LocksSound'
  BY <1>1, <1>2, <1>3, <1>4, <1>5
  DEF TaskSound, LocksSound, Resting, List, ForProgram, ForReattach
<1>7. HooksSound' /\ HooksPresent' /\ EntryLive'
  BY <1>1, <1>5 DEF HooksSound, HooksPresent, EntryLive, LinkInv, Cared, List
<1>8. /\ main # 0 => pings' = {main}
      /\ main = 0 => pings' = {} /\ reopeners' > 0
  BY <1>2 DEF CapsReturns, LinkInv, Typed
<1>9. AlarmsSound'
  BY <1>1, <1>5, <1>8 DEF AlarmsSound, ForProgram, ForReattach, List
<1> QED BY <1>6, <1>7, <1>9 DEF Cared

\* The next live entry of the list, when the traversal was not cut short:
\* there is none.
LEMMA NoneFollows ==
    ASSUME Typed, Cared, NEW l \in List, task.op = l, ~freed
    PROVE  Live(hooks[l], task.entry) = 0
<1>1. main # 0 /\ task.entry \in DOMAIN hooks[l] /\ hooks[l][task.entry] = main
  BY DEF Cared, TaskSound, EntryLive
<1>2. hooks[l] \in Seq(Pointer) /\ task.entry \in Nat
  BY DEF Typed, TaskType
<1> SUFFICES ASSUME Live(hooks[l], task.entry) # 0
             PROVE  FALSE
  OBVIOUS
<1>3. PICK k \in DOMAIN hooks[l] : k > task.entry /\ hooks[l][k] # 0
  BY <1>2, LiveFirst
<1> QED BY <1>1, <1>2, <1>3 DEF Cared, HooksSound

\* After a traversal its lock is released once more.
LEMMA EndedLocks ==
    ASSUME Typed, Cared, NEW l \in List, task.op = l
    PROVE  /\ [locks EXCEPT ![l] = @ - 1] \in [List -> Int]
           /\ \A m \in List : [locks EXCEPT ![l] = @ - 1][m] \in {-1, 0}
<1>1. locks[l] \in {0, 1} /\ \A m \in List : m # l => locks[m] \in {-1, 0}
  BY DEF Cared, LocksSound
<1>2. locks \in [List -> Int]
  BY DEF Typed
<1> QED BY <1>1, <1>2

LEMMA CallReturnsCared ==
    ASSUME LinkInv, NEW l \in List, CallReturns(l)
    PROVE  Cared'
<1> DEFINE ended == [locks EXCEPT ![l] = @ - 1]
           k == Live(hooks[l], task.entry)
<1>1. /\ task.op = l /\ freed' = FALSE
      /\ UNCHANGED <<main, pings, reopeners, hooks>>
  BY DEF CallReturns, alarmVars
<1>2. ended \in [List -> Int] /\ \A m \in List : ended[m] \in {-1, 0}
  BY <1>1, EndedLocks DEF LinkInv
<1>3. ~freed => k = 0
  BY <1>1, NoneFollows DEF LinkInv
<1>4. task.why = "reattach" => l = "register" /\ ForReattach /\ pings = {}
  BY <1>1 DEF LinkInv, Cared, TaskSound, AlarmsSound, ForProgram, ForReattach
<1>5. task.why # "reattach" => ForProgram
  BY <1>1 DEF LinkInv, Cared, TaskSound, ForProgram, ForReattach
<1>6. HooksSound' /\ (main # 0 => \A m \in List : \E j \in DOMAIN hooks'[m] : hooks'[m][j] = main)
  <2>1. HooksSound'
    BY <1>1 DEF LinkInv, Cared, HooksSound
  <2>2. main # 0 => \A m \in List : \E j \in DOMAIN hooks[m] : hooks[m][j] = main
    BY <1>1 DEF LinkInv, Cared, HooksPresent, List
  <2> QED BY <1>1, <2>1, <2>2
<1>7. ASSUME task.why = "reattach",
             Reattach(task.node + 1, [nodes EXCEPT ![task.node] = "attached"], hooks[l], ended)
      PROVE  Cared'
  <2>1. task.node + 1 \in Nat /\ hooks[l] \in Seq(Pointer)
    BY LinkAssumption DEF LinkInv, Typed, TaskType
  <2>2. hooks[l] = hooks'["register"] /\ pings' = {}
    BY <1>1, <1>4, <1>7
  <2> HIDE DEF ended, k
  <2> QED BY <1>1, <1>2, <1>6, <1>7, <2>1, <2>2, ReattachCared
<1>8. ASSUME task.why # "reattach", Rest, locks' = ended
      PROVE  Cared'
  <2>1. \A m \in List : locks'[m] \in {-1, 0}
    BY <1>2, <1>8
  <2> HIDE DEF ended, k
  <2> QED BY <1>1, <1>5, <1>8, <2>1, RestCared DEF LinkInv
<1>9. ASSUME freed, task' = Task("crashed", 0, 0, 0, "none"), result' = "none",
             UNCHANGED locks
      PROVE  Cared'
  <2>1. main = 0 /\ locks[l] = 0
    BY <1>1, <1>9 DEF LinkInv, Cared, TaskSound, LocksSound
  <2>2. task'.op = "crashed"
    BY <1>9, TaskFields
  <2>3. TaskSound' /\ LocksSound'
    BY <1>1, <1>9, <2>1, <2>2
    DEF TaskSound, LocksSound, LinkInv, Cared, Resting, List, ForProgram, ForReattach
  <2>4. EntryLive' /\ HooksPresent'
    BY <1>1, <2>1 DEF EntryLive, HooksPresent
  <2>5. AlarmsSound'
    BY <1>1, <2>1, <2>2
    DEF AlarmsSound, LinkInv, Cared, ForProgram, ForReattach, List
  <2> QED BY <1>6, <2>3, <2>4, <2>5 DEF Cared
<1>10. \/ /\ ~freed /\ k # 0
       \/ /\ task.why = "reattach"
          /\ Reattach(task.node + 1, [nodes EXCEPT ![task.node] = "attached"], hooks[l], ended)
       \/ task.why # "reattach" /\ Rest /\ locks' = ended
       \/ freed /\ task' = Task("crashed", 0, 0, 0, "none") /\ result' = "none"
          /\ UNCHANGED locks
  BY DEF CallReturns
<1> HIDE DEF ended, k
<1> QED BY <1>3, <1>7, <1>8, <1>9, <1>10

LEMMA FirePingCared ==
    ASSUME LinkInv, NEW s \in Sess, FirePing(s)
    PROVE  Cared'
<1>1. /\ task.op = "idle" /\ s \in pings
      /\ Ask(Task("ping", s, 0, 0, "alarm"), IF s = main THEN s ELSE 0, wire)
      /\ UNCHANGED <<main, pings, reopeners, hooks, locks, freed>>
  BY DEF FirePing, alarmVars, hookVars
<1>2. task' = Task("ping", s, 0, 0, "alarm") /\ result' \in {"wait", "fail"}
  BY <1>1, AskBegins
<1>3. task'.op = "ping" /\ task'.sess = s /\ task'.why = "alarm"
  BY <1>2, TaskFields
<1>4. s = main /\ ~freed
  BY <1>1 DEF LinkInv, Cared, AlarmsSound, TaskSound, List
<1>5. TaskSound' /\ LocksSound'
  BY <1>1, <1>2, <1>3, <1>4
  DEF LinkInv, Cared, TaskSound, LocksSound, Resting, List, ForProgram, ForReattach
<1>6. HooksSound' /\ HooksPresent' /\ EntryLive'
  BY <1>1, <1>3 DEF HooksSound, HooksPresent, EntryLive, LinkInv, Cared, List
<1>7. AlarmsSound'
  BY <1>1, <1>3 DEF AlarmsSound, LinkInv, Cared, ForProgram, ForReattach, List
<1> QED BY <1>5, <1>6, <1>7 DEF Cared

LEMMA PingReturnsCared ==
    ASSUME LinkInv, PingReturns
    PROVE  Cared'
<1>1. task.op = "ping" /\ UNCHANGED <<main, pings, reopeners, freed>>
  BY DEF PingReturns, alarmVars
<1>2. ~freed /\ (main # 0 => task.sess = main) /\ \A l \in List : locks[l] \in {-1, 0}
  BY <1>1 DEF LinkInv, Cared, TaskSound, LocksSound, List
<1>3. CASE result = "ok"
  <2>1. Rest /\ UNCHANGED <<hooks, locks>>
    BY <1>3 DEF PingReturns, hookVars
  <2> QED BY <1>1, <1>2, <2>1, RestCared DEF LinkInv
<1>4. CASE result = "fail"
  <2>1. Unhook(task.sess) /\ Ask([task EXCEPT !.op = "close"], main, wire)
    BY <1>4 DEF PingReturns
  <2>2. task' = [task EXCEPT !.op = "close"] /\ result' \in {"wait", "fail"}
    BY <2>1, AskBegins
  <2>3. task'.op = "close" /\ task'.sess = task.sess
    BY <2>2 DEF LinkInv, Typed, TaskType
  <2>4. Dead'
    <3>1. \A l \in List : \A k \in DOMAIN Unhooked(l, task.sess) :
              Unhooked(l, task.sess)[k] = 0
      BY <1>2, NoneLeft DEF LinkInv, Cared
    <3> QED BY <2>1, <3>1 DEF Dead, Unhook
  <2>5. \A l \in List : locks'[l] \in {-1, 0}
    BY <2>1, ReleasedLocks DEF Unhook, LinkInv
  <2>6. TaskSound' /\ LocksSound'
    BY <1>1, <1>2, <2>2, <2>3, <2>5
    DEF TaskSound, LocksSound, Resting, List, ForProgram, ForReattach
  <2>7. HooksSound' /\ EntryLive'
    BY <2>3, <2>4 DEF HooksSound, EntryLive, Dead, List
  <2>8. HooksPresent'
    BY <1>1, <2>3, <2>4 DEF HooksPresent, Dead
  <2>9. AlarmsSound'
    BY <1>1, <2>3 DEF AlarmsSound, LinkInv, Cared, ForProgram, ForReattach, List
  <2> QED BY <2>6, <2>7, <2>8, <2>9 DEF Cared
<1> QED BY <1>3, <1>4 DEF PingReturns

LEMMA CloseReturnsCared ==
    ASSUME LinkInv, CloseReturns
    PROVE  Cared'
<1>1. task.op = "close" /\ UNCHANGED <<hooks, locks, freed>>
  BY DEF CloseReturns, hookVars
<1>2. ~freed /\ Dead /\ \A l \in List : locks[l] \in {-1, 0}
  BY <1>1, DeadLists DEF LinkInv, Cared, TaskSound, LocksSound, List
<1>3. pings' = {}
  <2>1. pings \subseteq {main} /\ 0 \notin pings /\ (main # 0 => task.sess = main)
    BY <1>1, LinkAssumption DEF LinkInv, Cared, TaskSound, AlarmsSound, Typed, Sess
  <2>2. pings' = pings \ {task.sess}
    BY DEF CloseReturns
  <2> QED BY <2>1, <2>2
<1>4. CASE main # 0
  <2>1. Reopen("direct", 0, Closed(main))
    BY <1>4 DEF CloseReturns
  <2> QED BY <1>1, <1>2, <1>3, <2>1, ReopenCared DEF LinkInv
<1>5. CASE main = 0
  <2>1. Rest /\ UNCHANGED <<main, reopeners>>
    BY <1>5 DEF CloseReturns
  <2>2. task' = NoTask /\ result' = "none"
    BY <2>1 DEF Rest
  <2>3. task'.op = "idle" /\ task'.why = "none"
    BY <2>2, TaskFields DEF NoTask
  <2>4. TaskSound' /\ LocksSound'
    BY <1>1, <1>2, <2>2, <2>3
    DEF TaskSound, LocksSound, Resting, List, ForProgram, ForReattach
  <2>5. HooksSound' /\ HooksPresent' /\ EntryLive'
    BY <1>1, <1>2, <1>5, <2>1, <2>3 DEF HooksSound, HooksPresent, EntryLive, Dead
  <2>6. AlarmsSound'
    BY <1>1, <1>3, <1>5, <2>1, <2>3
    DEF AlarmsSound, LinkInv, Cared, ForProgram, ForReattach, List
  <2> QED BY <2>4, <2>5, <2>6 DEF Cared
<1> QED BY <1>4, <1>5

LEMMA DisconnectCared ==
    ASSUME LinkInv, Disconnect
    PROVE  Cared'
<1>1. /\ main' = 0 /\ reopeners' = reopeners + 1 /\ pings' = pings \ {main}
      /\ Unhook(main) /\ task' = task
      /\ freed' = (task.op \in List /\ Locked(task.op) = 1)
      /\ result' = IF result = "wait" THEN "fail" ELSE result
      /\ result = "wait" \/ task.op = "idle"
  BY DEF Disconnect
<1>2. main # 0 /\ main \in Sess
  BY DEF Disconnect, LinkInv, Typed, Sess
<1>3. Dead'
  <2>1. \A l \in List : \A k \in DOMAIN Unhooked(l, main) : Unhooked(l, main)[k] = 0
    BY NoneLeft DEF LinkInv, Cared
  <2> QED BY <1>1, <2>1 DEF Dead, Unhook
<1>4. task.op \in List => Locked(task.op) = 1
  BY DEF LinkInv, Cared, LocksSound, Locked
<1>5. \A l \in List : locks'[l] \in {-1, 0} /\ (task.op = l => locks'[l] = 0)
  BY <1>1, ReleasedLocks DEF Unhook, LinkInv
<1>6. LocksSound'
  BY <1>1, <1>5 DEF LocksSound
<1>7. TaskSound'
  BY <1>1, <1>2, <1>4
  DEF TaskSound, LinkInv, Cared, Resting, List, ForProgram, ForReattach
<1>8. HooksSound' /\ HooksPresent' /\ EntryLive'
  BY <1>1, <1>3 DEF HooksSound, HooksPresent, EntryLive, Dead
<1>9. pings' = {} /\ reopeners' > 0
  BY <1>1 DEF LinkInv, Cared, AlarmsSound, Typed
<1>10. AlarmsSound'
  BY <1>1, <1>9 DEF AlarmsSound
<1> QED BY <1>6, <1>7, <1>8, <1>10 DEF Cared

\* What neither moves the program nor changes its lists and alarms.
LEMMA ElsewhereCared ==
    ASSUME Cared, UNCHANGED <<main, pings, reopeners, hooks, locks, task, freed>>,
           \/ result' = result
           \/ result = "wait" /\ result' \in {"ok", "fail"}
    PROVE  Cared'
<1>1. TaskSound' /\ LocksSound'
  BY DEF Cared, TaskSound, LocksSound, Resting, List, ForProgram, ForReattach
<1>2. HooksSound' /\ HooksPresent' /\ EntryLive'
  BY DEF Cared, HooksSound, HooksPresent, EntryLive
<1>3. AlarmsSound'
  BY DEF Cared, AlarmsSound, ForProgram, ForReattach
<1> QED BY <1>1, <1>2, <1>3 DEF Cared

LEMMA TimeoutCared ==
    ASSUME LinkInv, Timeout
    PROVE  Cared'
BY ElsewhereCared DEF Timeout, LinkInv, alarmVars, hookVars

\* The PDU the master reads next is one the stream may hold.
LEMMA HeadOfWire ==
    ASSUME Typed, wire # <<>>
    PROVE  /\ Head(wire) \in PduType /\ Head(wire) = wire[1] /\ 1 \in DOMAIN wire
           /\ Tail(wire) \in Seq(PduType) /\ Len(Tail(wire)) = Len(wire) - 1
           /\ DOMAIN wire = 1 .. Len(wire) /\ DOMAIN Tail(wire) = 1 .. Len(wire) - 1
           /\ Len(wire) \in Nat
           /\ \A i \in 1 .. Len(wire) - 1 : Tail(wire)[i] = wire[i + 1]
<1>1. wire \in Seq(PduType)
  BY DEF Typed
<1>2. Len(wire) \in Nat \ {0} /\ DOMAIN wire = 1 .. Len(wire)
  BY <1>1, EmptySeq, LenProperties
<1>3. /\ Head(wire) \in PduType /\ Tail(wire) \in Seq(PduType)
      /\ Len(Tail(wire)) = Len(wire) - 1
      /\ \A i \in 1 .. Len(Tail(wire)) : Tail(wire)[i] = wire[i + 1]
  BY <1>1, HeadTailProperties
<1>4. Head(wire) = wire[1]
  BY <1>1
<1> QED BY <1>2, <1>3, <1>4, LenProperties

\* The master answers what is waited for.
LEMMA MasterAnswers ==
    ASSUME LinkInv, MasterReads
    PROVE  /\ ~Head(wire).due => result' = result
           /\ Head(wire).due => result = "wait" /\ result' \in {"ok", "fail"} /\ Len(wire) = 1
<1> DEFINE p == Head(wire)
<1>1. wire # <<>> /\ p = wire[1] /\ 1 \in DOMAIN wire /\ p.due \in BOOLEAN
  BY HeadOfWire DEF MasterReads, LinkInv, PduType
<1>2. p.due => result = "wait" /\ Len(wire) = 1
  BY <1>1 DEF LinkInv, Stream, DueSound
<1>3. \E ok \in BOOLEAN : result' = IF ~p.due THEN result ELSE IF ok THEN "ok" ELSE "fail"
  BY DEF MasterReads
<1> QED BY <1>1, <1>2, <1>3

LEMMA MasterCared ==
    ASSUME LinkInv, Master
    PROVE  Cared'
<1>1. ASSUME MasterReads PROVE Cared'
  <2>1. UNCHANGED <<main, pings, reopeners, hooks, locks, task, freed>>
    BY <1>1 DEF MasterReads, alarmVars, hookVars
  <2>2. Head(wire).due \in BOOLEAN
    BY <1>1, HeadOfWire DEF MasterReads, LinkInv, PduType
  <2> QED BY <1>1, <2>1, <2>2, MasterAnswers, ElsewhereCared DEF LinkInv
<1>2. ASSUME MasterDies PROVE Cared'
  BY <1>2, ElsewhereCared DEF MasterDies, alarmVars, hookVars, callVars, LinkInv
<1>3. ASSUME MasterStarts PROVE Cared'
  BY <1>3, ElsewhereCared DEF MasterStarts, alarmVars, hookVars, callVars, LinkInv
<1> QED BY <1>1, <1>2, <1>3 DEF Master

\* Every step leaves somebody looking after the connection.
LEMMA CaredStep ==
    ASSUME LinkInv, [Next]_linkVars
    PROVE  Cared'
<1>1. ASSUME UNCHANGED linkVars PROVE Cared'
  BY <1>1, ElsewhereCared DEF linkVars, alarmVars, hookVars, callVars, LinkInv
<1>2. ASSUME Returns PROVE Cared'
  BY <1>2, OpenReturnsCared, CapsReturnsCared, PingReturnsCared, CloseReturnsCared,
     CallReturnsCared DEF Returns
<1>3. ASSUME Fires PROVE Cared'
  BY <1>3, FireReopenCared, FirePingCared DEF Fires
<1> QED BY <1>1, <1>2, <1>3, StartupCared, ProgramCared, DisconnectCared, TimeoutCared,
           MasterCared DEF Next

-----------------------------------------------------------------------------
(* Types.                                                                  *)

LEMMA TaskTyped ==
    ASSUME NEW op \in Op, NEW s \in Pointer, NEW n \in 0 .. NumNodes, NEW k \in Nat,
           NEW why \in {"none", "direct", "alarm", "reattach", "program"}
    PROVE  Task(op, s, n, k, why) \in TaskType
BY DEF Task, TaskType

LEMMA AskTyped ==
    ASSUME NEW t \in TaskType, NEW s \in Pointer, NEW w \in Seq(PduType), Ask(t, s, w)
    PROVE  /\ task' \in TaskType /\ result' \in {"none", "wait", "ok", "fail"}
           /\ wire' \in Seq(PduType)
<1> DEFINE p == [kind |-> t.op, sess |-> s, node |-> t.node, due |-> TRUE]
<1>1. task' = t /\ result' \in {"wait", "fail"}
  BY AskBegins
<1>2. CASE s = 0 \/ s \in cut
  BY <1>1, <1>2 DEF Ask
<1>3. CASE ~(s = 0 \/ s \in cut)
  <2>1. wire' = Append(w, p)
    BY <1>3 DEF Ask
  <2>2. p \in PduType
    BY <1>3 DEF PduType, TaskType, Pointer
  <2> HIDE DEF p
  <2> QED BY <1>1, <2>1, <2>2, AppendProperties
<1> QED BY <1>2, <1>3

LEMMA RestTyped ==
    ASSUME Rest
    PROVE  task' \in TaskType /\ result' \in {"none", "wait", "ok", "fail"}
<1>1. NoTask \in TaskType
  BY TaskTyped, LinkAssumption DEF NoTask, Op, Pointer
<1> QED BY <1>1 DEF Rest

LEMMA ClosedTyped ==
    ASSUME Typed
    PROVE  Closed(main) \in Seq(PduType)
<1> DEFINE p == [kind |-> "eof", sess |-> main, node |-> 0, due |-> FALSE]
<1>1. CASE main = 0 \/ main \in cut
  BY <1>1 DEF Closed, Typed
<1>2. CASE ~(main = 0 \/ main \in cut)
  <2>1. Closed(main) = Append(wire, p)
    BY <1>2 DEF Closed
  <2>2. p \in PduType
    BY <1>2, LinkAssumption DEF PduType, Typed, Pointer
  <2> HIDE DEF p
  <2> QED BY <2>1, <2>2, AppendProperties DEF Typed
<1> QED BY <1>1, <1>2

\* What a step may not change the type of.
CallTyped == /\ task \in TaskType /\ result \in {"none", "wait", "ok", "fail"}
             /\ wire \in Seq(PduType)
OthersTyped ==
    /\ pings \in SUBSET Sess
    /\ hooks \in [List -> Seq(Pointer)] /\ locks \in [List -> Int]
    /\ nodes \in [Node -> {"absent", "attached", "detached"}]
    /\ freed \in BOOLEAN
    /\ cut \in SUBSET Sess /\ up \in BOOLEAN /\ opened \in SUBSET Sess
    /\ regs \in [Node -> Pointer]
    /\ skipped \in SUBSET Node
MainTyped == main \in Pointer /\ reopeners \in Nat

LEMMA TypedParts == Typed <=> CallTyped /\ OthersTyped /\ MainTyped
BY DEF Typed, CallTyped, OthersTyped, MainTyped

LEMMA ReopenTyped ==
    ASSUME Typed, NEW why \in {"direct", "alarm"}, NEW old, NEW w \in Seq(PduType),
           Reopen(why, old, w)
    PROVE  CallTyped' /\ MainTyped'
<1>1. CASE old # 0
  <2>1. Rest /\ wire' = w /\ UNCHANGED <<main, reopeners>>
    BY <1>1 DEF Reopen
  <2> QED BY <2>1, RestTyped DEF CallTyped, MainTyped, Typed
<1>2. CASE old = 0 /\ ~up
  <2>1. Rest /\ wire' = w /\ main' = 0 /\ reopeners' = Postponed(why)
    BY <1>2 DEF Reopen
  <2> QED BY <2>1, RestTyped DEF CallTyped, MainTyped, Typed, Postponed, Pointer
<1>3. CASE old = 0 /\ up
  <2>1. /\ Unused # {} /\ main' = Fresh /\ UNCHANGED reopeners
        /\ Ask(Task("open", Fresh, 0, 0, why), Fresh, w)
    BY <1>3 DEF Reopen
  <2>2. Fresh \in Pointer
    BY <2>1, FreshIsUnused DEF Unused, Pointer
  <2>3. Task("open", Fresh, 0, 0, why) \in TaskType
    BY <2>2, TaskTyped, LinkAssumption DEF Op
  <2> QED BY <2>1, <2>2, <2>3, AskTyped DEF CallTyped, MainTyped, Typed
<1> QED BY <1>1, <1>2, <1>3 DEF Typed

LEMMA WalkTyped ==
    ASSUME Typed, NEW l \in List, NEW n \in Node, Walk(l, n)
    PROVE  CallTyped' /\ locks' \in [List -> Int]
<1> DEFINE k == Live(hooks[l], 0)
<1>1. hooks[l] \in Seq(Pointer) /\ 0 \in Nat
  BY DEF Typed
<1>2. CASE k = 0
  <2>1. Rest /\ UNCHANGED <<locks, wire>>
    BY <1>2 DEF Walk
  <2> QED BY <2>1, RestTyped DEF CallTyped, Typed
<1>3. CASE k # 0
  <2>1. k \in DOMAIN hooks[l] /\ k \in Nat
    BY <1>1, <1>3, LiveFirst
  <2>2. hooks[l][k] \in Pointer
    BY <1>1, <2>1
  <2>3. /\ Ask(Task(l, hooks[l][k], n, k, "program"), hooks[l][k], wire)
        /\ locks' = [locks EXCEPT ![l] = Locked(l)]
    BY <1>3 DEF Walk
  <2>4. n \in 0 .. NumNodes /\ l \in Op
    BY LinkAssumption DEF Node, Op
  <2> HIDE DEF k
  <2>5. Task(l, hooks[l][k], n, k, "program") \in TaskType
    BY <2>1, <2>2, <2>4, TaskTyped
  <2>6. CallTyped'
    BY <2>2, <2>3, <2>5, AskTyped DEF CallTyped, Typed
  <2>7. locks' \in [List -> Int]
    BY <2>3 DEF Typed, Locked
  <2> QED BY <2>6, <2>7
<1> QED BY <1>2, <1>3

LEMMA ReattachTyped ==
    ASSUME Typed, NEW i \in Nat, NEW marked \in [Node -> {"absent", "attached", "detached"}],
           NEW list \in Seq(Pointer), NEW lock \in [List -> Int],
           Reattach(i, marked, list, lock)
    PROVE  /\ CallTyped' /\ locks' \in [List -> Int]
           /\ nodes' \in [Node -> {"absent", "attached", "detached"}]
           /\ skipped' \in SUBSET Node
<1> DEFINE detached == {j \in Node : j >= i /\ marked[j] = "detached"}
           k == Live(list, 0)
           j == CHOOSE j \in detached : \A m \in detached : j \leq m
<1>1. CASE detached # {} /\ k # 0
  <2>1. k \in DOMAIN list /\ k \in Nat
    BY <1>1, LiveFirst
  <2>2. list[k] \in Pointer
    BY <2>1
  <2>3. detached \in SUBSET Nat
    BY LinkAssumption DEF Node
  <2>4. j \in Node
    <3>1. \E x \in detached : \A m \in detached : x \leq m
      <4> HIDE DEF detached
      <4> QED BY <1>1, <2>3, LeastExists
    <3> QED BY <3>1
  <2>5. /\ Ask(Task("register", list[k], j, k, "reattach"), list[k], wire)
        /\ nodes' = marked
        /\ locks' = [lock EXCEPT !["register"] = IF @ >= 1 THEN @ ELSE @ + 1]
    BY <1>1 DEF Reattach
  <2>6. j \in 0 .. NumNodes /\ "register" \in Op
    BY <2>4, LinkAssumption DEF Node, Op, List
  <2> HIDE DEF k, j, detached
  <2>7. Task("register", list[k], j, k, "reattach") \in TaskType
    BY <2>1, <2>2, <2>6, TaskTyped
  <2>8. CallTyped'
    BY <2>2, <2>5, <2>7, AskTyped DEF CallTyped, Typed
  <2>9. skipped' \in SUBSET Node
    BY DEF Reattach, Typed
  <2> QED BY <2>5, <2>8, <2>9 DEF List
<1>2. CASE ~(detached # {} /\ k # 0)
  <2>1. /\ nodes' = [m \in Node |-> IF m \in detached THEN "attached" ELSE marked[m]]
        /\ Ask(Task("caps", main, 0, 0, "reattach"), main, wire)
        /\ locks' = lock
    BY <1>2 DEF Reattach
  <2>2. Task("caps", main, 0, 0, "reattach") \in TaskType
    BY TaskTyped, LinkAssumption DEF Op, Typed
  <2>3. CallTyped'
    BY <2>1, <2>2, AskTyped DEF CallTyped, Typed
  <2>4. skipped' \in SUBSET Node
    BY DEF Reattach, Typed
  <2> HIDE DEF detached, k
  <2> QED BY <2>1, <2>3, <2>4
<1> QED BY <1>1, <1>2

LEMMA DetachedTyped ==
    ASSUME Typed
    PROVE  Detached \in [Node -> {"absent", "attached", "detached"}]
BY DEF Typed, Detached

LEMMA UnhookTyped ==
    ASSUME LinkInv, NEW s, Unhook(s)
    PROVE  hooks' \in [List -> Seq(Pointer)] /\ locks' \in [List -> Int]
<1>1. \A l \in List : Unhooked(l, s) \in Seq(Pointer)
  BY UnhookedKeeps DEF LinkInv
<1>2. locks' = Released /\ hooks' = [l \in List |-> Unhooked(l, s)]
  BY DEF Unhook
<1> QED BY <1>1, <1>2, ReleasedLocks DEF LinkInv

LEMMA OpeningTyped ==
    ASSUME LinkInv, Startup \/ FireReopen \/ OpenReturns \/ CapsReturns \/ CloseReturns
    PROVE  Typed'
<1>1. ASSUME Startup PROVE Typed'
  <2>1. CallTyped' /\ MainTyped'
    BY <1>1, ReopenTyped DEF Startup, LinkInv, Typed
  <2>2. OthersTyped'
    BY <1>1 DEF Startup, OthersTyped, LinkInv, Typed, hookVars, masterVars
  <2> QED BY <2>1, <2>2, TypedParts DEF Typed, CallTyped, OthersTyped, MainTyped
<1>2. ASSUME FireReopen PROVE Typed'
  <2>1. CallTyped' /\ MainTyped'
    BY <1>2, ReopenTyped DEF FireReopen, LinkInv, Typed
  <2>2. OthersTyped'
    BY <1>2 DEF FireReopen, OthersTyped, LinkInv, Typed, hookVars, masterVars
  <2> QED BY <2>1, <2>2 DEF Typed, CallTyped, OthersTyped, MainTyped
<1>3. ASSUME OpenReturns PROVE Typed'
  <2>1. task.op = "open" /\ UNCHANGED <<pings, freed, up, opened, regs>>
    BY <1>3 DEF OpenReturns, masterVars
  <2>2. CASE result = "ok"
    <3>1. /\ hooks' = Hooked(main) /\ UNCHANGED <<main, cut>>
          /\ reopeners' = Succeeded(task.why)
          /\ Reattach(1, nodes, Hooked(main)["register"], Released)
      BY <1>3, <2>2 DEF OpenReturns
    <3>2. main \in Sess /\ Dead
      BY <2>1, <2>2, DeadLists DEF LinkInv, Cared, TaskSound, Typed, Pointer
    <3>3. Hooked(main) \in [List -> Seq(Pointer)]
      BY <3>2, HookedOnce DEF LinkInv
    <3>4. Hooked(main)["register"] \in Seq(Pointer) /\ Released \in [List -> Int]
      BY <3>3, ReleasedLocks DEF LinkInv, List
    <3>5. /\ CallTyped' /\ locks' \in [List -> Int] /\ skipped' \in SUBSET Node
          /\ nodes' \in [Node -> {"absent", "attached", "detached"}]
      BY <3>1, <3>4, ReattachTyped DEF LinkInv, Typed
    <3>6. reopeners' \in Nat
      BY <2>1, <3>1 DEF Succeeded, LinkInv, Cared, AlarmsSound, Typed
    <3> QED BY <2>1, <3>1, <3>3, <3>5, <3>6 DEF Typed, CallTyped, LinkInv
  <2>3. CASE result = "fail"
    <3>1. /\ main' = 0 /\ wire' = Closed(main) /\ cut' = cut \ {main} /\ Rest
          /\ reopeners' = Postponed(task.why)
          /\ UNCHANGED <<hooks, locks, nodes, skipped>>
      BY <1>3, <2>3 DEF OpenReturns, hookVars
    <3>2. CallTyped'
      BY <3>1, RestTyped, ClosedTyped DEF CallTyped, LinkInv
    <3>3. MainTyped'
      BY <3>1 DEF MainTyped, Pointer, Postponed, LinkInv, Typed
    <3> QED BY <2>1, <3>1, <3>2, <3>3 DEF Typed, CallTyped, MainTyped, LinkInv
  <2> QED BY <1>3, <2>2, <2>3 DEF OpenReturns
<1>4. ASSUME CapsReturns PROVE Typed'
  <2>1. /\ UNCHANGED <<main, hooks, locks, nodes, freed, wire, cut, up, opened, regs, skipped>>
        /\ Rest
    BY <1>4 DEF CapsReturns, hookVars, masterVars
  <2>2. pings' \in SUBSET Sess /\ reopeners' \in Nat
    BY <1>4 DEF CapsReturns, LinkInv, Typed, Pointer
  <2> QED BY <2>1, <2>2, RestTyped DEF LinkInv, Typed
<1>5. ASSUME CloseReturns PROVE Typed'
  <2>1. UNCHANGED <<hooks, locks, freed, up, opened, regs>>
    BY <1>5 DEF CloseReturns, hookVars, masterVars
  <2>2. /\ pings' \in SUBSET Sess /\ skipped' \in SUBSET Node
        /\ nodes' \in [Node -> {"absent", "attached", "detached"}]
    BY <1>5, DetachedTyped DEF CloseReturns, LinkInv, Typed
  <2>3. cut' \in SUBSET Sess
    BY <1>5 DEF CloseReturns, LinkInv, Typed
  <2>4. CallTyped' /\ MainTyped'
    <3>1. CASE main # 0
      BY <1>5, <3>1, ReopenTyped, ClosedTyped DEF CloseReturns, LinkInv
    <3>2. CASE main = 0
      BY <1>5, <3>2, RestTyped DEF CloseReturns, LinkInv, CallTyped, MainTyped, Typed
    <3> QED BY <3>1, <3>2
  <2> QED BY <2>1, <2>2, <2>3, <2>4 DEF Typed, CallTyped, MainTyped, LinkInv
<1> QED BY <1>1, <1>2, <1>3, <1>4, <1>5

LEMMA CallingTyped ==
    ASSUME LinkInv, Program \/ (\E l \in List : CallReturns(l))
    PROVE  Typed'
<1>1. ASSUME NEW n \in Node, ProgramRegister(n) PROVE Typed'
  <2>1. UNCHANGED <<main, pings, reopeners, hooks, freed, cut, up, opened, regs, skipped>>
    BY <1>1 DEF ProgramRegister, alarmVars, masterVars
  <2>2. nodes' \in [Node -> {"absent", "attached", "detached"}]
    BY <1>1 DEF ProgramRegister, LinkInv, Typed
  <2>3. CallTyped' /\ locks' \in [List -> Int]
    BY <1>1, WalkTyped DEF ProgramRegister, LinkInv, List
  <2> QED BY <2>1, <2>2, <2>3 DEF Typed, CallTyped, LinkInv
<1>2. ASSUME NEW n \in Node, ProgramUnregister(n) PROVE Typed'
  <2>1. UNCHANGED <<main, pings, reopeners, hooks, freed, cut, up, opened, regs>>
    BY <1>2 DEF ProgramUnregister, alarmVars, masterVars
  <2>2. /\ nodes' \in [Node -> {"absent", "attached", "detached"}]
        /\ skipped' \in SUBSET Node
    BY <1>2 DEF ProgramUnregister, LinkInv, Typed
  <2>3. CallTyped' /\ locks' \in [List -> Int]
    BY <1>2, WalkTyped DEF ProgramUnregister, LinkInv, List
  <2> QED BY <2>1, <2>2, <2>3 DEF Typed, CallTyped, LinkInv
<1>3. ASSUME NEW l \in List, CallReturns(l) PROVE Typed'
  <2> DEFINE k == Live(hooks[l], task.entry)
             ended == [locks EXCEPT ![l] = @ - 1]
             marked == [nodes EXCEPT ![task.node] = "attached"]
  <2>1. /\ task.op = l /\ freed' = FALSE
        /\ UNCHANGED <<main, pings, reopeners, hooks, cut, up, opened, regs>>
    BY <1>3 DEF CallReturns, alarmVars, masterVars
  <2>2. ended \in [List -> Int]
    BY <2>1, EndedLocks DEF LinkInv
  <2>3. ~freed => k = 0
    BY <2>1, NoneFollows DEF LinkInv
  <2>4. marked \in [Node -> {"absent", "attached", "detached"}]
    BY DEF LinkInv, Typed
  <2>5. /\ CallTyped' /\ locks' \in [List -> Int] /\ skipped' \in SUBSET Node
        /\ nodes' \in [Node -> {"absent", "attached", "detached"}]
    <3>1. ASSUME Reattach(task.node + 1, marked, hooks[l], ended)
          PROVE  /\ CallTyped' /\ locks' \in [List -> Int] /\ skipped' \in SUBSET Node
                 /\ nodes' \in [Node -> {"absent", "attached", "detached"}]
      <4>1. task.node + 1 \in Nat /\ hooks[l] \in Seq(Pointer)
        BY LinkAssumption DEF LinkInv, Typed, TaskType
      <4> HIDE DEF marked, ended
      <4> QED BY <3>1, <4>1, <2>2, <2>4, ReattachTyped DEF LinkInv
    <3>2. ASSUME Rest, locks' = ended, UNCHANGED <<wire, nodes, skipped>>
          PROVE  /\ CallTyped' /\ locks' \in [List -> Int] /\ skipped' \in SUBSET Node
                 /\ nodes' \in [Node -> {"absent", "attached", "detached"}]
      BY <3>2, <2>2, RestTyped DEF LinkInv, Typed, CallTyped
    <3>3. ASSUME task' = Task("crashed", 0, 0, 0, "none"), result' = "none",
                 UNCHANGED <<locks, wire, nodes, skipped>>
          PROVE  /\ CallTyped' /\ locks' \in [List -> Int] /\ skipped' \in SUBSET Node
                 /\ nodes' \in [Node -> {"absent", "attached", "detached"}]
      <4>1. Task("crashed", 0, 0, 0, "none") \in TaskType
        BY TaskTyped, LinkAssumption DEF Op, Pointer
      <4> QED BY <3>3, <4>1 DEF LinkInv, Typed, CallTyped
    <3>4. \/ ~freed /\ k # 0
          \/ Reattach(task.node + 1, marked, hooks[l], ended)
          \/ Rest /\ locks' = ended /\ UNCHANGED <<wire, nodes, skipped>>
          \/ /\ task' = Task("crashed", 0, 0, 0, "none") /\ result' = "none"
             /\ UNCHANGED <<locks, wire, nodes, skipped>>
      BY <1>3 DEF CallReturns
    <3> HIDE DEF k, ended, marked
    <3> QED BY <2>3, <3>1, <3>2, <3>3, <3>4
  <2> QED BY <2>1, <2>5 DEF Typed, CallTyped, LinkInv
<1> QED BY <1>1, <1>2, <1>3 DEF Program

LEMMA PingTyped ==
    ASSUME LinkInv, PingReturns \/ \E s \in Sess : FirePing(s)
    PROVE  Typed'
<1>1. ASSUME NEW s \in Sess, FirePing(s) PROVE Typed'
  <2>1. /\ UNCHANGED <<main, pings, reopeners, hooks, locks, nodes, freed, cut, up,
                       opened, regs, skipped>>
        /\ Ask(Task("ping", s, 0, 0, "alarm"), IF s = main THEN s ELSE 0, wire)
    BY <1>1 DEF FirePing, alarmVars, hookVars, masterVars
  <2>2. Task("ping", s, 0, 0, "alarm") \in TaskType /\ (IF s = main THEN s ELSE 0) \in Pointer
    BY TaskTyped, LinkAssumption DEF Op, Pointer
  <2>3. CallTyped'
    BY <2>1, <2>2, AskTyped DEF LinkInv, Typed, CallTyped
  <2> QED BY <2>1, <2>3 DEF Typed, CallTyped, LinkInv
<1>2. ASSUME PingReturns PROVE Typed'
  <2>1. UNCHANGED <<main, pings, reopeners, nodes, freed, cut, up, opened, regs, skipped>>
    BY <1>2 DEF PingReturns, alarmVars, masterVars
  <2>2. CASE result = "ok"
    <3>1. Rest /\ UNCHANGED <<hooks, locks, wire>>
      BY <1>2, <2>2 DEF PingReturns, hookVars
    <3> QED BY <2>1, <3>1, RestTyped DEF Typed, LinkInv
  <2>3. CASE result = "fail"
    <3>1. Unhook(task.sess) /\ Ask([task EXCEPT !.op = "close"], main, wire)
      BY <1>2, <2>3 DEF PingReturns
    <3>2. [task EXCEPT !.op = "close"] \in TaskType
      BY DEF LinkInv, Typed, TaskType, Op
    <3>3. CallTyped'
      BY <3>1, <3>2, AskTyped DEF LinkInv, Typed, CallTyped
    <3> QED BY <2>1, <3>1, <3>3, UnhookTyped DEF Typed, CallTyped, LinkInv
  <2> QED BY <1>2, <2>2, <2>3 DEF PingReturns
<1> QED BY <1>1, <1>2

LEMMA EventTyped ==
    ASSUME LinkInv, Disconnect \/ Timeout \/ MasterDies \/ MasterStarts
    PROVE  Typed'
<1>1. ASSUME Disconnect PROVE Typed'
  <2>1. /\ UNCHANGED <<task, wire, up, opened, regs>> /\ Unhook(main)
        /\ main' = 0 /\ reopeners' = reopeners + 1 /\ pings' = pings \ {main}
        /\ nodes' = Detached /\ skipped' = {} /\ cut' = cut \ {main}
    BY <1>1 DEF Disconnect, masterVars
  <2>2. result' \in {"none", "wait", "ok", "fail"} /\ freed' \in BOOLEAN
    BY <1>1 DEF Disconnect, LinkInv, Typed
  <2> QED BY <2>1, <2>2, UnhookTyped, DetachedTyped DEF Typed, LinkInv, Pointer
<1>2. ASSUME Timeout PROVE Typed'
  <2>1. /\ UNCHANGED <<main, pings, reopeners, hooks, locks, nodes, task, freed, cut, up,
                       opened, regs, skipped>>
        /\ result' = "fail"
        /\ wire' = [i \in DOMAIN wire |-> [wire[i] EXCEPT !.due = FALSE]]
    BY <1>2 DEF Timeout, alarmVars, hookVars, masterVars
  <2>2. wire \in Seq(PduType)
    BY DEF LinkInv, Typed
  <2>3. /\ Len(wire) \in Nat /\ DOMAIN wire = 1 .. Len(wire)
        /\ \A i \in 1 .. Len(wire) : wire[i] \in PduType
    BY <2>2, LenProperties, ElementOfSeq
  <2>4. \A i \in 1 .. Len(wire) : [wire[i] EXCEPT !.due = FALSE] \in PduType
    BY <2>3 DEF PduType
  <2>5. wire' \in Seq(PduType)
    <3>1. wire' = [i \in 1 .. Len(wire) |-> [wire[i] EXCEPT !.due = FALSE]]
      BY <2>1, <2>3
    <3>2. wire' \in [1 .. Len(wire) -> PduType]
      BY <2>4, <3>1
    <3> QED BY <2>3, <3>2
  <2> QED BY <2>1, <2>5 DEF Typed, LinkInv
<1>3. ASSUME MasterDies PROVE Typed'
  <2>1. /\ UNCHANGED <<main, pings, reopeners, hooks, locks, nodes, task, result, freed,
                       skipped>>
        /\ up' = FALSE /\ opened' = {} /\ regs' = [n \in Node |-> 0] /\ wire' = <<>>
        /\ cut' = cut \cup ({main} \ {0})
    BY <1>3 DEF MasterDies, alarmVars, hookVars, callVars
  <2>2. cut' \in SUBSET Sess /\ wire' \in Seq(PduType)
    BY <2>1, EmptySeq DEF LinkInv, Typed, Pointer
  <2> QED BY <2>1, <2>2 DEF Typed, LinkInv, Pointer
<1>4. ASSUME MasterStarts PROVE Typed'
  BY <1>4 DEF MasterStarts, alarmVars, hookVars, callVars, Typed, LinkInv
<1> QED BY <1>1, <1>2, <1>3, <1>4

LEMMA MasterReadsTyped ==
    ASSUME LinkInv, MasterReads
    PROVE  Typed'
<1> DEFINE p == Head(wire)
<1>1. /\ UNCHANGED <<main, pings, reopeners, hooks, locks, nodes, task, freed, cut, up, skipped>>
      /\ wire' = Tail(wire) /\ wire # <<>>
  BY DEF MasterReads, alarmVars, hookVars
<1>2. p \in PduType /\ wire' \in Seq(PduType)
  BY <1>1, HeadOfWire DEF LinkInv
<1>3. result' \in {"none", "wait", "ok", "fail"}
  BY <1>2, MasterAnswers DEF PduType, LinkInv, Typed
<1>4. opened' \in SUBSET Sess
  <2>1. opened' = opened \/ opened' = opened \cup {p.sess} \/ opened' = opened \ {p.sess}
    BY DEF MasterReads
  <2> QED BY <1>2, <2>1 DEF PduType, LinkInv, Typed
<1>5. regs' \in [Node -> Pointer]
  <2>1. \/ regs' = regs \/ regs' = Dropped(p.sess)
        \/ regs' = [regs EXCEPT ![p.node] = p.sess]
        \/ regs' = [regs EXCEPT ![p.node] = 0]
    BY DEF MasterReads
  <2> QED BY <1>2, <2>1 DEF PduType, LinkInv, Typed, Dropped, Pointer
<1> QED BY <1>1, <1>2, <1>3, <1>4, <1>5 DEF Typed, LinkInv

LEMMA TypedStep ==
    ASSUME LinkInv, [Next]_linkVars
    PROVE  Typed'
<1>1. ASSUME UNCHANGED linkVars PROVE Typed'
  BY <1>1 DEF linkVars, alarmVars, hookVars, callVars, masterVars, LinkInv, Typed
<1> QED BY <1>1, OpeningTyped, CallingTyped, PingTyped, EventTyped, MasterReadsTyped
        DEF Next, Returns, Fires, Master

-----------------------------------------------------------------------------
(* The stream from the subagent to the master.                             *)

LEMMA Appended ==
    ASSUME NEW w \in Seq(PduType), NEW p \in PduType
    PROVE  /\ Len(w) \in Nat /\ DOMAIN w = 1 .. Len(w)
           /\ DOMAIN Append(w, p) = 1 .. Len(w) + 1 /\ Len(Append(w, p)) = Len(w) + 1
           /\ \A i \in 1 .. Len(w) : Append(w, p)[i] = w[i]
           /\ Append(w, p)[Len(w) + 1] = p
BY AppendProperties, LenProperties

\* Nothing is due while the program does not wait.
LEMMA NothingDue ==
    ASSUME Stream, result # "wait"
    PROVE  \A i \in DOMAIN wire : ~wire[i].due
BY DEF Stream, DueSound

\* A step that sends nothing and keeps the session.
LEMMA StillStream ==
    ASSUME Stream, UNCHANGED <<main, cut, opened, regs, wire>>,
           result # "wait", task.op # "close", task'.op # "open"
    PROVE  Stream'
<1>1. CutSound'
  BY DEF Stream, CutSound
<1>2. DueSound'
  BY NothingDue DEF DueSound
<1>3. Earlier'
  BY DEF Stream, Earlier, Ended
<1>4. Present'
  BY DEF Stream, Present
<1> QED BY <1>1, <1>2, <1>3, <1>4 DEF Stream

\* A call over the session, for anything but its opening.
LEMMA AskStream ==
    ASSUME Typed, Stream, NEW t \in TaskType, NEW s, Ask(t, s, wire), s = main \/ s = 0,
           UNCHANGED <<main, cut, opened, regs>>,
           result # "wait", task.op # "close", t.op # "open"
    PROVE  Stream'
<1> DEFINE p == [kind |-> t.op, sess |-> s, node |-> t.node, due |-> TRUE]
<1>1. task' = t
  BY DEF Ask
<1>2. CASE s = 0 \/ s \in cut
  <2>1. wire' = wire
    BY <1>2 DEF Ask
  <2> QED BY <1>1, <2>1, StillStream
<1>3. CASE ~(s = 0 \/ s \in cut)
  <2>1. wire' = Append(wire, p) /\ result' = "wait" /\ s = main
    BY <1>3 DEF Ask
  <2>2. p \in PduType /\ p.sess = main /\ p.kind = t.op /\ p.kind # "eof"
    BY <1>3, <2>1 DEF PduType, TaskType, Typed, Pointer, Op, List
  <2> HIDE DEF p
  <2>3. /\ Len(wire) \in Nat /\ DOMAIN wire = 1 .. Len(wire)
        /\ DOMAIN wire' = 1 .. Len(wire) + 1 /\ Len(wire') = Len(wire) + 1
        /\ \A i \in 1 .. Len(wire) : wire'[i] = wire[i]
        /\ wire'[Len(wire) + 1] = p
    BY <2>1, <2>2, Appended DEF Typed
  <2>4. CutSound'
    BY <1>3, <2>1 DEF Stream, CutSound
  <2>5. DueSound'
    BY <2>1, <2>3, NothingDue DEF DueSound
  <2>6. \A x, i : Ended(x, i) => Ended(x, i)'
    BY <2>3 DEF Ended
  <2>7. Earlier'
    BY <2>2, <2>3, <2>6 DEF Stream, Earlier
  <2>8. Present'
    <3>1. \A i \in DOMAIN wire' : wire'[i].sess = main' =>
            /\ wire'[i].kind # "eof"
            /\ wire'[i].kind = "close" => task'.op = "close"
            /\ task'.op = "open" => wire'[i].kind = "open"
      BY <1>1, <2>2, <2>3 DEF Stream, Present
    <3>2. main' # 0 /\ main' \notin cut' =>
            \/ main' \in opened'
            \/ \E i \in DOMAIN wire' : /\ wire'[i].kind = "open" /\ wire'[i].sess = main'
                                       /\ \A j \in DOMAIN wire' : j < i => wire'[j].sess # main'
      BY <2>3 DEF Stream, Present
    <3> QED BY <3>1, <3>2 DEF Present
  <2> QED BY <2>4, <2>5, <2>7, <2>8 DEF Stream
<1> QED BY <1>2, <1>3

\* A stream whose sessions have all ended.
Past(w) ==
    /\ w \in Seq(PduType)
    /\ \A i \in DOMAIN w : /\ ~w[i].due
                           /\ \E j \in DOMAIN w : j >= i /\ w[j].kind = "eof"
                                                  /\ w[j].sess = w[i].sess
    /\ \A s \in opened : \E j \in DOMAIN w : w[j].kind = "eof" /\ w[j].sess = s

LEMMA ClosedPast ==
    ASSUME Typed, Stream, result # "wait"
    PROVE  /\ Past(Closed(main))
           /\ \A i \in DOMAIN Closed(main) : \/ Closed(main)[i].sess = main
                                             \/ \E j \in DOMAIN wire :
                                                   Closed(main)[i].sess = wire[j].sess
<1> DEFINE p == [kind |-> "eof", sess |-> main, node |-> 0, due |-> FALSE]
<1>1. wire \in Seq(PduType)
  BY DEF Typed
<1>2. Len(wire) \in Nat /\ DOMAIN wire = 1 .. Len(wire)
  BY <1>1, LenProperties
<1>3. CASE main = 0 \/ main \in cut
  <2>1. Closed(main) = wire
    BY <1>3 DEF Closed
  <2>2. \A i \in DOMAIN wire : wire[i] \in PduType
    BY <1>1
  <2>3. \A i \in DOMAIN wire : Ended(wire[i].sess, i)
    <3>1. CASE main = 0
      BY <3>1, <2>2 DEF Stream, Earlier, PduType, Sess
    <3>2. CASE main \in cut
      BY <3>2 DEF Stream, CutSound
    <3> QED BY <1>3, <3>1, <3>2
  <2>4. \A s \in opened : Ended(s, 1)
    BY <1>3 DEF Stream, Earlier, CutSound, Typed, Sess
  <2> QED BY <1>1, <2>1, <2>3, <2>4, NothingDue DEF Past, Ended
<1>4. CASE ~(main = 0 \/ main \in cut)
  <2>1. Closed(main) = Append(wire, p)
    BY <1>4 DEF Closed
  <2>2. p \in PduType /\ p.sess = main /\ p.kind = "eof" /\ ~p.due
    BY <1>4, LinkAssumption DEF PduType, Typed, Pointer
  <2> HIDE DEF p
  <2>3. /\ DOMAIN Closed(main) = 1 .. Len(wire) + 1
        /\ \A i \in 1 .. Len(wire) : Closed(main)[i] = wire[i]
        /\ Closed(main)[Len(wire) + 1] = p
        /\ Closed(main) \in Seq(PduType)
    BY <1>1, <2>1, <2>2, Appended, AppendProperties
  <2>4. \A i \in DOMAIN wire : wire[i].sess # main => Ended(wire[i].sess, i)
    BY DEF Stream, Earlier
  <2>5. \A s \in opened : s # main => Ended(s, 1)
    BY DEF Stream, Earlier
  <2>6. \A x, i : Ended(x, i) => \E j \in DOMAIN Closed(main) :
                       j >= i /\ Closed(main)[j].kind = "eof" /\ Closed(main)[j].sess = x
    BY <1>2, <2>3 DEF Ended
  <2>7. \A i \in DOMAIN Closed(main) : ~Closed(main)[i].due
    BY <1>2, <2>2, <2>3, NothingDue
  <2>8. \A i \in DOMAIN Closed(main) : \E j \in DOMAIN Closed(main) :
            j >= i /\ Closed(main)[j].kind = "eof" /\ Closed(main)[j].sess = Closed(main)[i].sess
    <3> TAKE i \in DOMAIN Closed(main)
    <3>1. CASE Closed(main)[i].sess = main
      BY <1>2, <2>2, <2>3, <3>1
    <3>2. CASE Closed(main)[i].sess # main
      BY <1>2, <2>2, <2>3, <2>4, <2>6, <3>2
    <3> QED BY <3>1, <3>2
  <2>9. \A s \in opened : \E j \in DOMAIN Closed(main) :
            Closed(main)[j].kind = "eof" /\ Closed(main)[j].sess = s
    BY <1>2, <2>2, <2>3, <2>5, <2>6
  <2>10. \A i \in DOMAIN Closed(main) : \/ Closed(main)[i].sess = main
                                        \/ \E j \in DOMAIN wire :
                                              Closed(main)[i].sess = wire[j].sess
    BY <1>2, <2>2, <2>3
  <2> QED BY <2>3, <2>7, <2>8, <2>9, <2>10 DEF Past
<1> QED BY <1>3, <1>4

\* Without a session all there is on the stream has ended.
LEMMA GoneStream ==
    ASSUME Stream, Past(wire'), main' = 0, cut' = {}, UNCHANGED <<opened, regs>>
    PROVE  Stream'
<1>1. \A i \in DOMAIN wire' : wire'[i] \in PduType /\ wire'[i].sess # 0
  <2>1. \A i \in DOMAIN wire' : wire'[i] \in PduType
    BY DEF Past
  <2> QED BY <2>1 DEF PduType, Sess
<1>2. DOMAIN wire' = 1 .. Len(wire')
  BY LenProperties DEF Past
<1>3. CutSound'
  BY DEF CutSound
<1>4. DueSound'
  BY DEF DueSound, Past
<1>5. Earlier'
  <2>1. \A n \in Node : regs'[n] # 0 => regs'[n] \in opened'
    BY DEF Stream, Earlier
  <2>2. (\A i \in DOMAIN wire : Ended(wire[i].sess, i))'
    BY DEF Past, Ended
  <2>3. (\A s \in opened : Ended(s, 1))'
    BY <1>2 DEF Past, Ended
  <2>5. 0 \notin opened'
    BY <1>1, <2>3 DEF Ended
  <2> QED BY <1>1, <2>1, <2>2, <2>3, <2>5 DEF Earlier
<1>6. Present'
  BY <1>1 DEF Present
<1> QED BY <1>3, <1>4, <1>5, <1>6 DEF Stream

\* An Open follows what has ended.
LEMMA ReopenStream ==
    ASSUME Typed, Stream, NEW why \in {"direct", "alarm"}, NEW w, Past(w), Reopen(why, 0, w),
           \A i \in DOMAIN w : \/ w[i].sess = main
                               \/ \E j \in DOMAIN wire : w[i].sess = wire[j].sess,
           cut' = {}, cut \subseteq {main}, UNCHANGED <<opened, regs>>
    PROVE  Stream'
<1>1. CASE ~up
  <2>1. wire' = w /\ main' = 0
    BY <1>1 DEF Reopen
  <2>2. Past(wire')
    BY <2>1
  <2> QED BY <2>1, <2>2, GoneStream
<1>2. CASE up
  <2> DEFINE t == Task("open", Fresh, 0, 0, why)
             p == [kind |-> t.op, sess |-> Fresh, node |-> t.node, due |-> TRUE]
  <2>1. Unused # {} /\ main' = Fresh /\ Ask(t, Fresh, w)
    BY <1>2 DEF Reopen
  <2>2. /\ Fresh \in Sess /\ Fresh # main /\ Fresh \notin opened /\ Fresh # 0
        /\ \A i \in DOMAIN wire : Fresh # wire[i].sess
    BY <2>1, FreshIsUnused DEF Unused, Sess
  <2>3. /\ wire' = Append(w, p) /\ result' = "wait" /\ task' = t
    BY <2>1, <2>2 DEF Ask
  <2>4. t.op = "open" /\ t.node = 0
    BY TaskFields
  <2>5. p \in PduType /\ p.sess = main' /\ p.kind = "open"
    BY <2>1, <2>2, <2>4, LinkAssumption DEF PduType, Op
  <2> HIDE DEF p, t
  <2>6. w \in Seq(PduType)
    BY DEF Past
  <2>7. /\ Len(w) \in Nat /\ DOMAIN w = 1 .. Len(w)
        /\ DOMAIN wire' = 1 .. Len(w) + 1 /\ Len(wire') = Len(w) + 1
        /\ \A i \in 1 .. Len(w) : wire'[i] = w[i]
        /\ wire'[Len(w) + 1] = p
    BY <2>3, <2>5, <2>6, Appended
  <2>8. \A i \in DOMAIN w : w[i].sess # main' /\ ~w[i].due
    BY <2>1, <2>2 DEF Past
  <2>9. CutSound'
    BY DEF CutSound
  <2>10. DueSound'
    BY <2>3, <2>7, <2>8 DEF DueSound
  <2>11. \A x : \A i \in Nat : (\E j \in DOMAIN w : j >= i /\ w[j].kind = "eof" /\ w[j].sess = x)
                   => Ended(x, i)'
    BY <2>7 DEF Ended
  <2>12. Earlier'
    <3>1. \A n \in Node : regs'[n] # 0 => regs'[n] \in opened'
      BY DEF Stream, Earlier
    <3>2. (\A i \in DOMAIN wire : wire[i].sess # main => Ended(wire[i].sess, i))'
      BY <2>5, <2>7, <2>11 DEF Past
    <3>3. (\A s \in opened : Ended(s, 1))'
      BY <2>7, <2>11 DEF Past
    <3>4. \A i, j \in DOMAIN wire' : i < j /\ wire'[i].sess = main' => wire'[j].sess = main'
      BY <2>7, <2>8
    <3>5. main' \notin opened'
      BY <2>1, <2>2
    <3> QED BY <3>1, <3>2, <3>3, <3>4, <3>5 DEF Earlier
  <2>13. Present'
    BY <2>3, <2>4, <2>5, <2>7, <2>8 DEF Present
  <2> QED BY <2>9, <2>10, <2>12, <2>13 DEF Stream
<1> QED BY <1>1, <1>2 DEF Typed

\* What the master reads leaves the front of the stream.
LEMMA EndedLater ==
    ASSUME Typed, wire # <<>>, wire' = Tail(wire), NEW x, NEW i \in Nat \ {0},
           Ended(x, i + 1)
    PROVE  Ended(x, i)'
<1>1. PICK j \in DOMAIN wire : j >= i + 1 /\ wire[j].kind = "eof" /\ wire[j].sess = x
  BY DEF Ended
<1>2. j - 1 \in DOMAIN wire' /\ wire'[j - 1] = wire[j] /\ j - 1 >= i
  BY <1>1, HeadOfWire
<1> QED BY <1>1, <1>2 DEF Ended

LEMMA MasterReadsStream ==
    ASSUME LinkInv, MasterReads
    PROVE  Stream'
<1> DEFINE p == Head(wire)
<1>1. /\ Typed /\ Stream /\ wire # <<>> /\ wire' = Tail(wire)
      /\ UNCHANGED <<main, cut, task>>
  BY DEF MasterReads, LinkInv
<1>2. /\ p \in PduType /\ p = wire[1] /\ 1 \in DOMAIN wire /\ Len(wire) \in Nat
      /\ DOMAIN wire = 1 .. Len(wire)
      /\ DOMAIN wire' = 1 .. Len(wire) - 1 /\ Len(wire') = Len(wire) - 1
      /\ \A i \in 1 .. Len(wire) - 1 : wire'[i] = wire[i + 1]
  BY <1>1, HeadOfWire
<1>3. main \notin cut
  BY <1>1 DEF Stream, CutSound
<1>4. \/ p.kind = "open" /\ opened' = opened \cup {p.sess} /\ regs' = regs
      \/ /\ p.kind \in List /\ opened' = opened
         /\ \/ regs' = regs
            \/ regs' = [regs EXCEPT ![p.node] = 0]
            \/ regs' = [regs EXCEPT ![p.node] = p.sess] /\ p.sess \in opened
      \/ p.kind \in {"caps", "ping"} /\ opened' = opened /\ regs' = regs
      \/ p.kind \in {"close", "eof"} /\ opened' = opened \ {p.sess} /\ regs' = Dropped(p.sess)
  BY DEF MasterReads
<1>5. CutSound'
  BY <1>1, <1>3 DEF CutSound, Stream
<1>6. DueSound'
  BY <1>1, <1>2, MasterAnswers DEF Stream, DueSound, PduType
<1> HIDE DEF p
<1>7. \A n \in Node : regs'[n] # 0 => regs'[n] \in opened'
  <2> TAKE n \in Node
  <2>1. regs[n] # 0 => regs[n] \in opened
    BY <1>1 DEF Stream, Earlier
  <2>2. regs \in [Node -> Pointer]
    BY <1>1 DEF Typed
  <2> QED BY <1>4, <2>1, <2>2 DEF Dropped
<1>8. \A x : \A i \in Nat \ {0} : Ended(x, i + 1) => Ended(x, i)'
  BY <1>1, EndedLater
<1>9. (\A i \in DOMAIN wire : wire[i].sess # main => Ended(wire[i].sess, i))'
  <2> SUFFICES ASSUME NEW i \in DOMAIN wire', wire'[i].sess # main
               PROVE  Ended(wire[i].sess, i)'
    BY <1>1
  <2>1. i \in Nat \ {0} /\ i + 1 \in DOMAIN wire /\ wire'[i] = wire[i + 1]
    BY <1>2
  <2>2. Ended(wire[i + 1].sess, i + 1)
    BY <1>1, <2>1 DEF Stream, Earlier
  <2> QED BY <1>8, <2>1, <2>2
<1>10. \A x : Ended(x, 1) /\ ~(p.kind = "eof" /\ p.sess = x) => Ended(x, 1)'
  <2> TAKE x
  <2>1. Ended(x, 1) /\ ~(p.kind = "eof" /\ p.sess = x) => Ended(x, 1 + 1)
    BY <1>2 DEF Ended
  <2> QED BY <1>8, <2>1
<1>11. (\A s \in opened : s # main => Ended(s, 1))'
  <2> SUFFICES ASSUME NEW s \in opened', s # main
               PROVE  Ended(s, 1)'
    BY <1>1
  <2>1. Ended(s, 1)
    <3>1. CASE s \in opened
      BY <3>1, <1>1 DEF Stream, Earlier
    <3>2. CASE s \notin opened
      <4>1. s = p.sess
        BY <1>4, <3>2
      <4> QED BY <4>1, <1>1, <1>2 DEF Stream, Earlier
    <3> QED BY <3>1, <3>2
  <2>2. ~(p.kind = "eof" /\ p.sess = s)
    BY <1>4 DEF List
  <2> QED BY <1>10, <2>1, <2>2
<1>12. \A i, j \in DOMAIN wire' : i < j /\ wire'[i].sess = main => wire'[j].sess = main
  BY <1>1, <1>2 DEF Stream, Earlier
<1>13. main \in opened' => \A i \in DOMAIN wire' : wire'[i].sess = main
  <2>1. CASE main \in opened
    BY <1>1, <1>2, <2>1 DEF Stream, Earlier
  <2>2. CASE main \notin opened
    <3>1. main \in opened' => wire[1].sess = main
      BY <1>2, <1>4, <2>2
    <3> QED BY <1>1, <1>2, <3>1 DEF Stream, Earlier
  <2> QED BY <2>1, <2>2
<1>14. Earlier'
  BY <1>1, <1>7, <1>9, <1>11, <1>12, <1>13 DEF Earlier
<1>15. \A i \in DOMAIN wire : wire[i].sess = main =>
          /\ wire[i].kind # "eof"
          /\ wire[i].kind = "close" => task.op = "close"
          /\ task.op = "open" => wire[i].kind = "open"
  BY <1>1 DEF Stream, Present
<1>16. main # 0 /\ task.op # "close" =>
          \/ main \in opened'
          \/ \E i \in DOMAIN wire' : /\ wire'[i].kind = "open" /\ wire'[i].sess = main
                                     /\ \A j \in DOMAIN wire' : j < i => wire'[j].sess # main
  <2> SUFFICES ASSUME main # 0, task.op # "close", main \notin opened'
               PROVE  \E i \in DOMAIN wire' :
                         /\ wire'[i].kind = "open" /\ wire'[i].sess = main
                         /\ \A j \in DOMAIN wire' : j < i => wire'[j].sess # main
    OBVIOUS
  <2>1. main \notin opened
    BY <1>2, <1>4, <1>15
  <2>2. PICK i \in DOMAIN wire : /\ wire[i].kind = "open" /\ wire[i].sess = main
                                 /\ \A j \in DOMAIN wire : j < i => wire[j].sess # main
    BY <1>1, <1>3, <2>1 DEF Stream, Present
  <2>3. i # 1
    BY <1>2, <1>4, <2>2 DEF List
  <2>4. i - 1 \in DOMAIN wire' /\ wire'[i - 1] = wire[i]
    BY <1>2, <2>3
  <2>5. \A j \in DOMAIN wire' : j < i - 1 => wire'[j].sess # main
    BY <1>2, <2>2
  <2> QED BY <2>2, <2>4, <2>5
<1>17. Present'
  <2>1. \A i \in DOMAIN wire' : wire'[i].sess = main =>
          /\ wire'[i].kind # "eof"
          /\ wire'[i].kind = "close" => task.op = "close"
          /\ task.op = "open" => wire'[i].kind = "open"
    BY <1>2, <1>15
  <2> QED BY <1>1, <1>16, <2>1 DEF Present
<1> QED BY <1>5, <1>6, <1>14, <1>17 DEF Stream

LEMMA ReattachStream ==
    ASSUME LinkInv, NEW i \in Nat, NEW marked, NEW list \in Seq(Pointer), NEW lock,
           Reattach(i, marked, list, lock), UNCHANGED <<main, cut, opened, regs>>,
           \A k \in DOMAIN list : list[k] # 0 => list[k] = main,
           result # "wait", task.op # "close"
    PROVE  Stream'
<1> DEFINE detached == {j \in Node : j >= i /\ marked[j] = "detached"}
           k == Live(list, 0)
           j == CHOOSE j \in detached : \A m \in detached : j \leq m
<1>1. CASE detached # {} /\ k # 0
  <2>1. k \in DOMAIN list /\ list[k] # 0 /\ k \in Nat
    BY <1>1, LiveFirst
  <2>2. list[k] = main /\ main \in Pointer
    BY <2>1 DEF LinkInv, Typed
  <2>3. detached \in SUBSET Nat
    BY LinkAssumption DEF Node
  <2>4. j \in Node
    <3>1. \E x \in detached : \A m \in detached : x \leq m
      <4> HIDE DEF detached
      <4> QED BY <1>1, <2>3, LeastExists
    <3> QED BY <3>1
  <2>5. Ask(Task("register", list[k], j, k, "reattach"), list[k], wire)
    BY <1>1 DEF Reattach
  <2>6. j \in 0 .. NumNodes /\ "register" \in Op
    BY <2>4, LinkAssumption DEF Node, Op, List
  <2> HIDE DEF k, j, detached
  <2> DEFINE t == Task("register", list[k], j, k, "reattach")
  <2>7. t \in TaskType /\ t.op # "open"
    BY <2>1, <2>2, <2>6, TaskTyped, TaskFields
  <2> HIDE DEF t
  <2>8. Ask(t, main, wire)
    BY <2>2, <2>5 DEF t
  <2> QED BY <2>7, <2>8, AskStream DEF LinkInv
<1>2. CASE ~(detached # {} /\ k # 0)
  <2> DEFINE t == Task("caps", main, 0, 0, "reattach")
  <2>1. Ask(t, main, wire)
    BY <1>2 DEF Reattach
  <2>2. t \in TaskType /\ t.op # "open"
    BY TaskTyped, TaskFields, LinkAssumption DEF Op, LinkInv, Typed
  <2> HIDE DEF t, k, detached
  <2> QED BY <2>1, <2>2, AskStream DEF LinkInv
<1> QED BY <1>1, <1>2

LEMMA WalkStream ==
    ASSUME LinkInv, NEW l \in List, NEW n \in Node, Walk(l, n),
           UNCHANGED <<main, cut, opened, regs>>, task.op = "idle"
    PROVE  Stream'
<1> DEFINE k == Live(hooks[l], 0)
<1>1. hooks[l] \in Seq(Pointer) /\ 0 \in Nat /\ result # "wait"
  BY DEF LinkInv, Typed, Cared, TaskSound, Resting
<1>2. CASE k = 0
  <2>1. task' = NoTask /\ wire' = wire
    BY <1>2 DEF Walk, Rest
  <2>2. task'.op # "open"
    BY <2>1, TaskFields DEF NoTask
  <2> QED BY <1>1, <2>1, <2>2, StillStream DEF LinkInv
<1>3. CASE k # 0
  <2>1. k \in DOMAIN hooks[l] /\ hooks[l][k] # 0 /\ k \in Nat
    BY <1>1, <1>3, LiveFirst
  <2>2. hooks[l][k] = main /\ main \in Pointer
    BY <2>1 DEF LinkInv, Cared, HooksSound, Typed
  <2> DEFINE t == Task(l, main, n, k, "program")
  <2>3. Ask(t, main, wire)
    BY <1>3, <2>2 DEF Walk
  <2>4. n \in 0 .. NumNodes /\ l \in Op /\ l # "open"
    BY LinkAssumption DEF Node, Op, List
  <2> HIDE DEF k
  <2>5. t \in TaskType /\ t.op # "open"
    BY <2>1, <2>2, <2>4, TaskTyped, TaskFields
  <2> HIDE DEF t
  <2> QED BY <1>1, <2>3, <2>5, AskStream DEF LinkInv
<1> QED BY <1>2, <1>3

\* Without a session, or with one that was cut, nothing is cut afterwards.
LEMMA CutOver ==
    ASSUME Stream
    PROVE  cut \ {main} = {}
BY DEF Stream, CutSound

LEMMA OpeningStream ==
    ASSUME LinkInv, Startup \/ FireReopen \/ CloseReturns
    PROVE  Stream'
<1>1. Typed /\ Stream /\ Cared
  BY DEF LinkInv
<1>2. ASSUME NEW why \in {"direct", "alarm"}, Reopen(why, main, wire), result # "wait",
             task.op # "close", UNCHANGED <<cut, masterVars>>
      PROVE  Stream'
  <2>1. CASE main = 0
    <3>1. Closed(main) = wire
      BY <2>1 DEF Closed
    <3>2. Past(wire)
      BY <1>1, <1>2, <3>1, ClosedPast
    <3>3. cut = {} /\ UNCHANGED <<opened, regs>>
      BY <1>1, <1>2, <2>1 DEF masterVars, Stream, CutSound, Typed, Sess
    <3>4. Reopen(why, 0, wire)
      BY <1>2, <2>1
    <3> QED BY <1>1, <1>2, <3>2, <3>3, <3>4, ReopenStream
  <2>2. CASE main # 0
    <3>1. UNCHANGED <<main, wire>> /\ task' = NoTask
      BY <1>2, <2>2 DEF Reopen, Rest
    <3>2. task'.op # "open"
      BY <3>1, TaskFields DEF NoTask
    <3> QED BY <1>1, <1>2, <3>1, <3>2, StillStream DEF masterVars
  <2> QED BY <2>1, <2>2
<1>3. CASE Startup \/ FireReopen
  <2>1. result # "wait" /\ task.op # "close"
    BY <1>1, <1>3 DEF Cared, TaskSound, Resting, Startup, FireReopen
  <2>2. /\ UNCHANGED <<cut, masterVars>>
        /\ Reopen("direct", main, wire) \/ Reopen("alarm", main, wire)
    BY <1>3 DEF Startup, FireReopen
  <2> QED BY <1>2, <2>1, <2>2
<1>4. CASE CloseReturns
  <2>1. result # "wait" /\ UNCHANGED <<opened, regs>>
    BY <1>4 DEF CloseReturns, masterVars
  <2>2. CASE main # 0
    <3>1. Reopen("direct", 0, Closed(main)) /\ cut' = cut \ {main}
      BY <1>4, <2>2 DEF CloseReturns
    <3>2. cut' = {} /\ cut \subseteq {main}
      BY <1>1, <3>1, CutOver DEF Stream, CutSound
    <3> DEFINE w == Closed(main)
    <3>3. /\ Past(w)
          /\ \A i \in DOMAIN w : \/ w[i].sess = main
                                 \/ \E j \in DOMAIN wire : w[i].sess = wire[j].sess
      BY <1>1, <2>1, ClosedPast
    <3>4. Reopen("direct", 0, w)
      BY <3>1
    <3> HIDE DEF w
    <3> QED BY <1>1, <2>1, <3>2, <3>3, <3>4, ReopenStream
  <2>3. CASE main = 0
    <3>1. UNCHANGED <<main, wire, cut>>
      BY <1>4, <2>3 DEF CloseReturns
    <3>2. Closed(main) = wire
      BY <2>3 DEF Closed
    <3>3. Past(wire')
      BY <1>1, <2>1, <3>1, <3>2, ClosedPast DEF Past
    <3>4. cut' = {}
      BY <1>1, <2>3, <3>1 DEF Stream, CutSound, Typed, Sess
    <3> QED BY <1>1, <2>1, <2>3, <3>1, <3>3, <3>4, GoneStream
  <2> QED BY <2>2, <2>3
<1> QED BY <1>3, <1>4

LEMMA OpenReturnsStream ==
    ASSUME LinkInv, OpenReturns
    PROVE  Stream'
<1>1. /\ Typed /\ Stream /\ task.op = "open" /\ UNCHANGED <<opened, regs>>
  BY DEF OpenReturns, LinkInv, masterVars
<1>2. CASE result = "ok"
  <2> DEFINE h == Hooked(main)["register"]
  <2>1. Reattach(1, nodes, h, Released) /\ UNCHANGED <<main, cut>>
    BY <1>2 DEF OpenReturns
  <2>2. main \in Sess /\ Dead
    BY <1>1, <1>2, DeadLists DEF LinkInv, Cared, TaskSound, Typed, Pointer
  <2>3. h \in Seq(Pointer) /\ \A k \in DOMAIN h : h[k] # 0 => h[k] = main
    BY <1>1, <2>2, HookedOnce DEF List
  <2> HIDE DEF h
  <2> QED BY <1>1, <1>2, <2>1, <2>3, ReattachStream
<1>3. CASE result = "fail"
  <2>1. main' = 0 /\ wire' = Closed(main) /\ cut' = cut \ {main}
    BY <1>3 DEF OpenReturns
  <2>2. Past(Closed(main))
    BY <1>1, <1>3, ClosedPast
  <2>3. cut' = {} /\ Past(wire')
    BY <1>1, <1>3, <2>1, <2>2, CutOver DEF Past
  <2> QED BY <1>1, <2>1, <2>3, GoneStream
<1> QED BY <1>2, <1>3 DEF OpenReturns

LEMMA CallReturnsStream ==
    ASSUME LinkInv, NEW l \in List, CallReturns(l)
    PROVE  Stream'
<1> DEFINE ended == [locks EXCEPT ![l] = @ - 1]
           k == Live(hooks[l], task.entry)
           marked == [nodes EXCEPT ![task.node] = "attached"]
<1>1. /\ task.op = l /\ result # "wait" /\ task.op # "close"
      /\ UNCHANGED <<main, cut, opened, regs>>
  BY DEF CallReturns, List, masterVars
<1>2. Typed /\ Cared /\ Stream
  BY DEF LinkInv
<1>3. ~freed => k = 0
  BY <1>1, <1>2, NoneFollows
<1>4. \/ ~freed /\ k # 0
      \/ task.why = "reattach" /\ Reattach(task.node + 1, marked, hooks[l], ended)
      \/ task' = NoTask /\ wire' = wire
      \/ task' = Task("crashed", 0, 0, 0, "none") /\ wire' = wire
  BY DEF CallReturns, Rest
<1> HIDE DEF ended, k, marked
<1>5. ASSUME Reattach(task.node + 1, marked, hooks[l], ended) PROVE Stream'
  <2>1. task.node + 1 \in Nat /\ hooks[l] \in Seq(Pointer)
    BY <1>2, LinkAssumption DEF Typed, TaskType
  <2>2. \A j \in DOMAIN hooks[l] : hooks[l][j] # 0 => hooks[l][j] = main
    BY <1>2 DEF Cared, HooksSound
  <2> QED BY <1>1, <1>5, <2>1, <2>2, ReattachStream
<1>6. ASSUME wire' = wire, task'.op # "open" PROVE Stream'
  BY <1>1, <1>2, <1>6, StillStream
<1> QED BY <1>3, <1>4, <1>5, <1>6, TaskFields DEF NoTask

LEMMA CallStream ==
    ASSUME LinkInv, \/ CapsReturns \/ PingReturns \/ \E s \in Sess : FirePing(s)
                    \/ \E n \in Node : ProgramRegister(n) \/ ProgramUnregister(n)
    PROVE  Stream'
<1>1. Typed /\ Cared /\ Stream
  BY DEF LinkInv
<1>2. CASE CapsReturns
  <2>1. task' = NoTask /\ UNCHANGED <<main, cut, opened, regs, wire>>
    BY <1>2 DEF CapsReturns, Rest, masterVars
  <2>2. task'.op # "open" /\ result # "wait" /\ task.op # "close"
    BY <1>2, <2>1, TaskFields DEF NoTask, CapsReturns
  <2> QED BY <1>1, <2>1, <2>2, StillStream
<1>3. ASSUME NEW s \in Sess, FirePing(s) PROVE Stream'
  <2> DEFINE t == Task("ping", s, 0, 0, "alarm")
             c == IF s = main THEN s ELSE 0
  <2>1. Ask(t, c, wire) /\ UNCHANGED <<main, cut, opened, regs>> /\ task.op = "idle"
    BY <1>3 DEF FirePing, masterVars
  <2>2. t \in TaskType /\ t.op # "open"
    BY TaskTyped, TaskFields, LinkAssumption DEF Op, Pointer
  <2>3. c = main \/ c = 0
    OBVIOUS
  <2>4. result # "wait" /\ task.op # "close"
    BY <1>1, <2>1 DEF Cared, TaskSound, Resting
  <2> HIDE DEF t, c
  <2> QED BY <1>1, <2>1, <2>2, <2>3, <2>4, AskStream
<1>4. CASE PingReturns
  <2>1. task.op = "ping" /\ UNCHANGED <<main, cut, opened, regs>>
    BY <1>4 DEF PingReturns, masterVars
  <2>2. CASE result = "ok"
    <3>1. task' = NoTask /\ wire' = wire
      BY <1>4, <2>2 DEF PingReturns, Rest
    <3> QED BY <1>1, <2>1, <2>2, <3>1, TaskFields, StillStream DEF NoTask
  <2>3. CASE result = "fail"
    <3> DEFINE t == [task EXCEPT !.op = "close"]
    <3>1. Ask(t, main, wire)
      BY <1>4, <2>3 DEF PingReturns
    <3>2. t \in TaskType /\ t.op # "open"
      BY <1>1 DEF Typed, TaskType, Op
    <3> HIDE DEF t
    <3> QED BY <1>1, <2>1, <2>3, <3>1, <3>2, AskStream
  <2> QED BY <1>4, <2>2, <2>3 DEF PingReturns
<1>5. ASSUME NEW n \in Node, ProgramRegister(n) \/ ProgramUnregister(n) PROVE Stream'
  <2>1. /\ Walk("register", n) \/ Walk("unregister", n)
        /\ UNCHANGED <<main, cut, opened, regs>> /\ task.op = "idle"
    BY <1>5 DEF ProgramRegister, ProgramUnregister, MayProgram, masterVars
  <2> QED BY <1>5, <2>1, WalkStream DEF List
<1> QED BY <1>2, <1>3, <1>4, <1>5

LEMMA EventStream ==
    ASSUME LinkInv, Disconnect \/ Timeout \/ MasterDies \/ MasterStarts \/ UNCHANGED linkVars
    PROVE  Stream'
<1>1. Typed /\ Cared /\ Stream
  BY DEF LinkInv
<1>2. CASE Disconnect
  <2>1. /\ main' = 0 /\ main \in cut /\ cut' = cut \ {main}
        /\ wire' = wire /\ UNCHANGED <<opened, regs>>
    BY <1>2 DEF Disconnect, masterVars
  <2>2. wire = <<>> /\ opened = {}
    BY <1>1, <2>1 DEF Stream, CutSound
  <2>3. Past(wire')
    BY <2>1, <2>2 DEF Past
  <2>4. cut' = {}
    BY <1>1, <2>1, CutOver
  <2> QED BY <1>1, <2>1, <2>3, <2>4, GoneStream
<1>3. CASE Timeout
  <2>1. /\ wire' = [i \in DOMAIN wire |-> [wire[i] EXCEPT !.due = FALSE]]
        /\ UNCHANGED <<main, cut, opened, regs, task>>
    BY <1>3 DEF Timeout, masterVars
  <2>2. \A i \in DOMAIN wire : wire[i] \in PduType
    BY <1>1 DEF Typed
  <2>3. DOMAIN wire' = DOMAIN wire
    BY <2>1
  <2>4. \A i \in DOMAIN wire : wire'[i] = [wire[i] EXCEPT !.due = FALSE]
    BY <2>1
  <2>5. \A i \in DOMAIN wire : /\ wire'[i].kind = wire[i].kind /\ wire'[i].sess = wire[i].sess
                               /\ ~wire'[i].due
    BY <2>2, <2>4 DEF PduType
  <2>6. CutSound'
    <3>1. wire = <<>> => wire' = <<>>
      BY <2>1
    <3> QED BY <1>1, <2>1, <3>1 DEF Stream, CutSound
  <2>7. DueSound'
    BY <2>3, <2>5 DEF DueSound
  <2>8. \A x, i : Ended(x, i) => Ended(x, i)'
    BY <2>3, <2>5 DEF Ended
  <2>9. Earlier'
    BY <1>1, <2>1, <2>3, <2>5, <2>8 DEF Stream, Earlier
  <2>10. Present'
    <3>1. \A i \in DOMAIN wire' : wire'[i].sess = main =>
            /\ wire'[i].kind # "eof"
            /\ wire'[i].kind = "close" => task.op = "close"
            /\ task.op = "open" => wire'[i].kind = "open"
      BY <1>1, <2>3, <2>5 DEF Stream, Present
    <3>2. main # 0 /\ main \notin cut /\ task.op # "close" =>
            \/ main \in opened
            \/ \E i \in DOMAIN wire' : /\ wire'[i].kind = "open" /\ wire'[i].sess = main
                                      /\ \A j \in DOMAIN wire' : j < i => wire'[j].sess # main
      BY <1>1, <2>3, <2>5 DEF Stream, Present
    <3> QED BY <2>1, <3>1, <3>2 DEF Present
  <2> QED BY <2>6, <2>7, <2>9, <2>10 DEF Stream
<1>4. CASE MasterDies
  <2>1. /\ wire' = <<>> /\ opened' = {} /\ regs' = [n \in Node |-> 0]
        /\ cut' = cut \cup ({main} \ {0}) /\ main' = main
    BY <1>4 DEF MasterDies
  <2>2. DOMAIN wire' = {}
    BY <2>1
  <2> QED BY <1>1, <2>1, <2>2 DEF Stream, CutSound, DueSound, Earlier, Present
<1>5. CASE MasterStarts \/ UNCHANGED linkVars
  <2>1. UNCHANGED <<main, cut, opened, regs, wire, task, result>>
    BY <1>5 DEF MasterStarts, linkVars, callVars, masterVars
  <2> QED BY <1>1, <2>1 DEF Stream, CutSound, DueSound, Earlier, Present, Ended
<1> QED BY <1>2, <1>3, <1>4, <1>5

LEMMA StreamStep ==
    ASSUME LinkInv, [Next]_linkVars
    PROVE  Stream'
BY OpeningStream, OpenReturnsStream, CallReturnsStream, CallStream, EventStream,
   MasterReadsStream
DEF Next, Returns, Fires, Master, Program

-----------------------------------------------------------------------------
(* What the master will serve.                                             *)

\* Without a session only skipped nodes may be marked.
LEMMA GoneTables ==
    ASSUME main' = 0, \A n \in Node : nodes'[n] = "attached" => n \in skipped'
    PROVE  Tables'
BY DEF Tables, MarksSound, ToldSound

\* A call tells the master of its node, if of any.
LEMMA AskTold ==
    ASSUME Typed, NEW t \in TaskType, Ask(t, main, wire), main # 0, main \notin cut,
           UNCHANGED <<main, regs>>, NEW n \in Node
    PROVE  /\ t.op \notin List \/ t.node # n => (WillServe(n)' <=> WillServe(n))
           /\ t.op \in List /\ t.node = n => (WillServe(n)' <=> t.op = "register")
<1> DEFINE p == [kind |-> t.op, sess |-> main, node |-> t.node, due |-> TRUE]
<1>1. wire' = Append(wire, p)
  BY DEF Ask
<1>2. p \in PduType /\ p.kind = t.op /\ p.sess = main /\ p.node = t.node
  BY DEF PduType, TaskType, Typed, Pointer
<1> HIDE DEF p
<1>3. /\ Len(wire) \in Nat /\ DOMAIN wire = 1 .. Len(wire)
      /\ DOMAIN wire' = 1 .. Len(wire) + 1
      /\ \A i \in 1 .. Len(wire) : wire'[i] = wire[i]
      /\ wire'[Len(wire) + 1] = p
  BY <1>1, <1>2, Appended DEF Typed
<1>4. ASSUME t.op \notin List \/ t.node # n
      PROVE  WillServe(n)' <=> WillServe(n)
  <2>1. Told(n)' = Told(n)
    BY <1>2, <1>3, <1>4 DEF Told
  <2>2. \A i \in Told(n) : wire'[i] = wire[i]
    BY <1>3 DEF Told
  <2> QED BY <2>1, <2>2 DEF WillServe
<1>5. ASSUME t.op \in List, t.node = n
      PROVE  WillServe(n)' <=> t.op = "register"
  <2>1. /\ Len(wire) + 1 \in Told(n)'
        /\ \A i \in Told(n)' : i <= Len(wire) + 1 /\ i \in Nat
    BY <1>2, <1>3, <1>5 DEF Told
  <2>2. \A i \in Told(n)' : (\A j \in Told(n)' : j <= i) => i = Len(wire) + 1
    BY <1>3, <2>1
  <2> QED BY <1>2, <1>3, <2>1, <2>2 DEF WillServe
<1> QED BY <1>4, <1>5

\* A step between two turns of the main loop, or back to it, that registers
\* nothing.
LEMMA KeptTables ==
    ASSUME LinkInv, UNCHANGED <<main, cut, regs, nodes, skipped>>,
           task.op \in {"idle", "ping", "caps"} \/ ForProgram,
           task'.op \in {"idle", "ping", "caps"},
           \/ wire' = wire
           \/ main # 0 /\ \E t \in TaskType : Ask(t, main, wire) /\ t.op = "ping"
    PROVE  Tables'
<1>1. Typed /\ Tables
  BY DEF LinkInv
<1>2. CASE main = 0
  BY <1>1, <1>2, GoneTables DEF Tables, MarksSound
<1>3. CASE main # 0
  <2>1. ~ForReattach /\ ~ForReattach' /\ task.op \notin {"open", "close"}
    BY DEF ForReattach, ForProgram, List
  <2>2. MarksSound'
    BY <1>1, <1>3, <2>1 DEF Tables, MarksSound, ForProgram, List
  <2>3. ASSUME main \notin cut, NEW n \in Node
        PROVE  WillServe(n)' <=> WillServe(n)
    <3>1. CASE wire' = wire
      BY <3>1 DEF WillServe, Told
    <3>2. ASSUME NEW t \in TaskType, Ask(t, main, wire), t.op = "ping"
          PROVE  WillServe(n)' <=> WillServe(n)
      BY <1>1, <1>3, <2>3, <3>2, AskTold DEF List
    <3> QED BY <3>1, <3>2
  <2>4. \A n \in Node : Registered(n)' <=> Registered(n)
    BY <2>1 DEF Registered
  <2>5. ToldSound'
    BY <1>1, <1>3, <2>1, <2>3, <2>4 DEF Tables, ToldSound
  <2> QED BY <2>2, <2>5 DEF Tables
<1> QED BY <1>2, <1>3

\* A new session has registered nothing with the master.
LEMMA ReopenTables ==
    ASSUME Typed, Stream, NEW why, NEW w, Reopen(why, 0, w), UNCHANGED regs,
           \A n \in Node : nodes'[n] = "attached" => n \in skipped'
    PROVE  Tables'
<1>1. CASE ~up
  BY <1>1, GoneTables DEF Reopen
<1>2. CASE up
  <2>1. Unused # {} /\ main' = Fresh /\ task' = Task("open", Fresh, 0, 0, why)
    BY <1>2 DEF Reopen, Ask
  <2>2. Fresh # 0 /\ Fresh \notin opened
    BY <2>1, FreshIsUnused DEF Unused, Sess
  <2>3. task'.op = "open"
    BY <2>1, TaskFields
  <2>4. \A n \in Node : regs'[n] # main'
    BY <2>1, <2>2 DEF Stream, Earlier
  <2> QED BY <2>3, <2>4 DEF Tables, MarksSound, ToldSound, ForProgram, ForReattach, List
<1> QED BY <1>1, <1>2 DEF Typed

LEMMA OpeningTables ==
    ASSUME LinkInv, Startup \/ FireReopen \/ CloseReturns
    PROVE  Tables'
<1>1. Typed /\ Stream /\ Cared /\ Tables
  BY DEF LinkInv
<1>2. CASE CloseReturns
  <2>1. \A n \in Node : nodes'[n] = "attached" => n \in skipped'
    BY <1>2 DEF CloseReturns, Detached
  <2>2. CASE main # 0
    BY <1>1, <1>2, <2>1, <2>2, ReopenTables DEF CloseReturns, masterVars
  <2>3. CASE main = 0
    BY <1>2, <2>1, <2>3, GoneTables DEF CloseReturns
  <2> QED BY <2>2, <2>3
<1>3. CASE Startup \/ FireReopen
  <2>1. UNCHANGED <<cut, regs, nodes, skipped>>
    BY <1>3 DEF Startup, FireReopen, masterVars
  <2>2. CASE main = 0
    <3>1. \A n \in Node : nodes'[n] = "attached" => n \in skipped'
      BY <1>1, <2>1, <2>2 DEF Tables, MarksSound
    <3>2. Reopen("direct", 0, wire) \/ Reopen("alarm", 0, wire)
      BY <1>3, <2>2 DEF Startup, FireReopen
    <3> QED BY <1>1, <2>1, <3>1, <3>2, ReopenTables
  <2>3. CASE main # 0
    <3>1. FireReopen /\ task.op = "idle"
      BY <1>1, <1>3, <2>3 DEF Startup, FireReopen, Cared, TaskSound
    <3>2. main' = main /\ wire' = wire /\ task' = NoTask
      BY <2>3, <3>1 DEF FireReopen, Reopen, Rest
    <3>3. task'.op = "idle"
      BY <3>2, TaskFields DEF NoTask
    <3> QED BY <2>1, <3>1, <3>2, <3>3, KeptTables
  <2> QED BY <2>2, <2>3
<1> QED BY <1>2, <1>3

\* The reattach loop of a live session leaves no detached node behind it and
\* tells the master of the next one.
LEMMA ReattachTables ==
    ASSUME LinkInv, NEW i \in Nat, NEW list \in Seq(Pointer), NEW lock,
           NEW marked \in [Node -> {"absent", "attached", "detached"}],
           Reattach(i, marked, list, lock), UNCHANGED <<main, cut, regs>>, main # 0,
           \E k \in DOMAIN list : list[k] # 0,
           \A k \in DOMAIN list : list[k] # 0 => list[k] = main,
           \A n \in Node : n < i => marked[n] # "detached",
           main \notin cut =>
               \A n \in Node \ skipped : WillServe(n) <=> marked[n] = "attached"
    PROVE  Tables'
<1> DEFINE detached == {j \in Node : j >= i /\ marked[j] = "detached"}
           k == Live(list, 0)
           j == CHOOSE j \in detached : \A m \in detached : j \leq m
<1>0. Node \in SUBSET Nat /\ Typed
  BY LinkAssumption DEF Node, LinkInv
<1>1. k # 0 /\ k \in Nat /\ list[k] = main
  <2>1. DOMAIN list = 1 .. Len(list)
    BY LenProperties
  <2> QED BY <2>1, LiveFirst
<1>2. skipped' = skipped
  BY DEF Reattach
<1>3. CASE detached # {}
  <2>1. j \in detached /\ \A m \in detached : j \leq m
    <3>1. \E x \in detached : \A m \in detached : x \leq m
      <4>1. detached \in SUBSET Nat
        BY <1>0
      <4> HIDE DEF detached
      <4> QED BY <1>3, <4>1, LeastExists
    <3> QED BY <3>1
  <2> DEFINE t == Task("register", list[k], j, k, "reattach")
  <2>2. Ask(t, list[k], wire) /\ nodes' = marked
    BY <1>1, <1>3 DEF Reattach
  <2>3. j \in Node /\ marked[j] = "detached" /\ \A m \in Node : m < j => marked[m] # "detached"
    <3>1. j \in Node /\ marked[j] = "detached"
      BY <2>1
    <3>2. \A m \in Node : m >= i /\ marked[m] = "detached" => j <= m
      BY <2>1
    <3> HIDE DEF j, detached
    <3>3. \A m \in Node : m \in Nat /\ j \in Nat
      BY <1>0, <3>1
    <3> QED BY <3>1, <3>2, <3>3
  <2>4. j \in 0 .. NumNodes /\ "register" \in Op /\ main \in Pointer
    BY <1>0, <2>3, LinkAssumption DEF Node, Op, List, Typed
  <2> HIDE DEF k, j, detached
  <2>5. t \in TaskType /\ t.op = "register" /\ t.node = j /\ t.why = "reattach"
    BY <1>1, <2>4, TaskTyped, TaskFields
  <2> HIDE DEF t
  <2>6. Ask(t, main, wire) /\ task' = t
    BY <1>1, <2>2 DEF Ask
  <2>7. ForReattach' /\ task'.node = j
    BY <2>5, <2>6 DEF ForReattach
  <2>8. MarksSound'
    BY <2>2, <2>3, <2>5, <2>6, <2>7 DEF MarksSound, ForProgram
  <2>9. ASSUME main \notin cut, NEW n \in Node \ skipped
        PROVE  WillServe(n)' <=> Registered(n)'
    <3>1. CASE n = j
      <4>1. WillServe(n)'
        BY <1>0, <2>5, <2>6, <2>9, <3>1, AskTold DEF List
      <4> QED BY <2>7, <3>1, <4>1 DEF Registered
    <3>2. CASE n # j
      <4>1. WillServe(n)' <=> WillServe(n)
        BY <1>0, <2>5, <2>6, <2>9, <3>2, AskTold
      <4>2. Registered(n)' <=> marked[n] = "attached"
        BY <2>2, <2>7, <3>2 DEF Registered
      <4> QED BY <2>9, <4>1, <4>2
    <3> QED BY <3>1, <3>2
  <2>10. ToldSound'
    BY <1>2, <2>5, <2>6, <2>9 DEF ToldSound
  <2> QED BY <2>8, <2>10 DEF Tables
<1>4. CASE detached = {}
  <2> DEFINE t == Task("caps", main, 0, 0, "reattach")
  <2>1. Ask(t, main, wire)
    BY <1>4 DEF Reattach
  <2>2. \A n \in Node : nodes'[n] = marked[n]
    BY <1>4 DEF Reattach
  <2>3. t \in TaskType /\ t.op = "caps"
    BY <1>0, TaskTyped, TaskFields, LinkAssumption DEF Op, Typed
  <2> HIDE DEF t, k
  <2>4. task' = t
    BY <2>1 DEF Ask
  <2>5. \A n \in Node : marked[n] # "detached"
    <3> SUFFICES ASSUME NEW n \in Node PROVE marked[n] # "detached"
      OBVIOUS
    <3>1. n \in Nat
      BY <1>0
    <3> QED BY <1>4, <3>1
  <2>6. MarksSound'
    BY <2>2, <2>3, <2>4, <2>5 DEF MarksSound, ForReattach
  <2>7. ASSUME main \notin cut, NEW n \in Node \ skipped
        PROVE  WillServe(n)' <=> Registered(n)'
    <3>1. WillServe(n)' <=> WillServe(n)
      BY <1>0, <2>1, <2>3, <2>7, AskTold DEF List
    <3>2. Registered(n)' <=> marked[n] = "attached"
      BY <2>2, <2>3, <2>4 DEF Registered, ForReattach
    <3> QED BY <2>7, <3>1, <3>2
  <2>8. ToldSound'
    BY <1>2, <2>3, <2>4, <2>7 DEF ToldSound
  <2> QED BY <2>6, <2>8 DEF Tables
<1> HIDE DEF detached
<1> QED BY <1>3, <1>4

LEMMA OpenReturnsTables ==
    ASSUME LinkInv, OpenReturns
    PROVE  Tables'
<1>1. Typed /\ Stream /\ Cared /\ Tables /\ task.op = "open" /\ regs' = regs
  BY DEF OpenReturns, LinkInv, masterVars
<1>2. \A n \in Node : nodes[n] = "attached" => n \in skipped
  BY <1>1 DEF Tables, MarksSound
<1>3. CASE result = "ok"
  <2> DEFINE h == Hooked(main)["register"]
  <2>1. Reattach(1, nodes, h, Released) /\ UNCHANGED <<main, cut>>
    BY <1>3 DEF OpenReturns
  <2>2. main \in Sess /\ Dead /\ main # 0
    BY <1>1, <1>3, DeadLists DEF LinkInv, Cared, TaskSound, Typed, Pointer
  <2>3. /\ h \in Seq(Pointer) /\ \A k \in DOMAIN h : h[k] # 0 => h[k] = main
        /\ \E k \in DOMAIN h : h[k] # 0
    BY <1>1, <2>2, HookedOnce DEF List
  <2> HIDE DEF h
  <2>4. \A n \in Node : Told(n) = {} /\ regs[n] # main
    <3> TAKE n \in Node
    <3>1. \A i \in DOMAIN wire : wire[i].sess = main => wire[i].kind = "open"
      BY <1>1 DEF Stream, Present
    <3>2. Told(n) = {}
      BY <3>1 DEF Told, List
    <3> QED BY <1>1, <2>2, <3>2 DEF Tables, ToldSound
  <2>5. \A n \in Node \ skipped : WillServe(n) <=> nodes[n] = "attached"
    BY <1>2, <2>4 DEF WillServe
  <2>6. \A n \in Node : ~(n < 1)
    BY LinkAssumption DEF Node
  <2>7. nodes \in [Node -> {"absent", "attached", "detached"}] /\ 1 \in Nat
    BY <1>1 DEF Typed
  <2> QED BY <1>1, <2>1, <2>2, <2>3, <2>5, <2>6, <2>7, ReattachTables
<1>4. CASE result = "fail"
  <2>1. main' = 0 /\ UNCHANGED <<nodes, skipped>>
    BY <1>4 DEF OpenReturns
  <2> QED BY <1>2, <2>1, GoneTables
<1> QED BY <1>3, <1>4 DEF OpenReturns

\* Without a live entry the loop marks all nodes, and those it marked are
\* skipped ones.
LEMMA ReattachGone ==
    ASSUME LinkInv, main = 0, main' = 0, NEW i, NEW marked, NEW list, NEW lock,
           Reattach(i, marked, list, lock)
    PROVE  Tables'
<1>1. skipped' = skipped \cup {j \in Node : nodes'[j] # nodes[j]}
  BY DEF Reattach
<1>2. \A n \in Node : nodes[n] = "attached" => n \in skipped
  BY DEF LinkInv, Tables, MarksSound
<1> QED BY <1>1, <1>2, GoneTables

LEMMA CallReturnsTables ==
    ASSUME LinkInv, NEW l \in List, CallReturns(l)
    PROVE  Tables'
<1> DEFINE ended == [locks EXCEPT ![l] = @ - 1]
           k == Live(hooks[l], task.entry)
           marked == [nodes EXCEPT ![task.node] = "attached"]
<1>1. task.op = l /\ result # "wait" /\ UNCHANGED <<main, cut, regs>>
  BY DEF CallReturns, masterVars
<1>2. Typed /\ Cared /\ Stream /\ Tables
  BY DEF LinkInv
<1>3. ~freed => k = 0
  BY <1>1, <1>2, NoneFollows
<1>4. \/ ~freed /\ k # 0
      \/ task.why = "reattach" /\ Reattach(task.node + 1, marked, hooks[l], ended)
      \/ task.why # "reattach" /\ task' = NoTask /\ UNCHANGED <<wire, nodes, skipped>>
      \/ freed /\ UNCHANGED <<nodes, skipped>>
  BY DEF CallReturns, Rest
<1>5. ASSUME task.why = "reattach", Reattach(task.node + 1, marked, hooks[l], ended)
      PROVE  Tables'
  <2>1. CASE main = 0
    BY <1>1, <1>5, <2>1, ReattachGone
  <2>2. CASE main # 0
    <3>1. ForReattach /\ l = "register" /\ ~freed /\ task.node \in Node
      BY <1>1, <1>2, <1>5, <2>2 DEF Cared, TaskSound, ForReattach, ForProgram
    <3>2. /\ hooks[l] \in Seq(Pointer) /\ task.node + 1 \in Nat /\ task.node \in Nat
          /\ marked \in [Node -> {"absent", "attached", "detached"}]
      BY <1>2, <3>1, LinkAssumption DEF Typed, Node
    <3>3. /\ \A j \in DOMAIN hooks[l] : hooks[l][j] # 0 => hooks[l][j] = main
          /\ \E j \in DOMAIN hooks[l] : hooks[l][j] # 0
      BY <1>1, <1>2, <2>2 DEF Cared, HooksSound, EntryLive
    <3>4. \A n \in Node : /\ n # task.node => marked[n] = nodes[n]
                          /\ n = task.node => marked[n] = "attached"
      BY <1>2 DEF Typed
    <3>5. \A n \in Node : n < task.node + 1 => marked[n] # "detached"
      <4>1. \A n \in Node : n < task.node => nodes[n] # "detached"
        BY <1>2, <2>2, <3>1 DEF Tables, MarksSound
      <4>2. \A n \in Node : n \in Nat
        BY LinkAssumption DEF Node
      <4> QED BY <3>2, <3>4, <4>1, <4>2
    <3>6. \A n \in Node : Registered(n) <=> marked[n] = "attached"
      BY <3>1, <3>4 DEF Registered
    <3>7. main \notin cut => \A n \in Node \ skipped : WillServe(n) <=> marked[n] = "attached"
      BY <1>1, <1>2, <2>2, <3>6 DEF Tables, ToldSound, List
    <3> HIDE DEF ended, marked
    <3> QED BY <1>1, <1>5, <2>2, <3>2, <3>3, <3>5, <3>7, ReattachTables
  <2> QED BY <2>1, <2>2
<1>6. ASSUME task.why # "reattach", task' = NoTask, UNCHANGED <<wire, nodes, skipped>>
      PROVE  Tables'
  <2>1. ForProgram
    BY <1>1, <1>2, <1>6 DEF Cared, TaskSound, ForReattach
  <2>2. task'.op = "idle"
    BY <1>6, TaskFields DEF NoTask
  <2> QED BY <1>1, <1>6, <2>1, <2>2, KeptTables
<1>7. ASSUME freed, UNCHANGED <<nodes, skipped>>
      PROVE  Tables'
  <2>1. main = 0
    BY <1>1, <1>2, <1>7 DEF Cared, TaskSound
  <2> QED BY <1>1, <1>2, <1>7, <2>1, GoneTables DEF Tables, MarksSound
<1> HIDE DEF ended, k, marked
<1> QED BY <1>3, <1>4, <1>5, <1>6, <1>7

LEMMA CallTables ==
    ASSUME LinkInv, CapsReturns \/ PingReturns \/ \E s \in Sess : FirePing(s)
    PROVE  Tables'
<1>1. Typed /\ Cared /\ Stream /\ Tables
  BY DEF LinkInv
<1>2. UNCHANGED <<main, cut, regs, nodes, skipped>>
  BY DEF CapsReturns, PingReturns, FirePing, masterVars
<1>3. CASE CapsReturns
  <2>1. wire' = wire /\ task.op = "caps" /\ task'.op = "idle"
    BY <1>3, TaskFields DEF CapsReturns, Rest, NoTask
  <2> QED BY <1>2, <2>1, KeptTables
<1>4. ASSUME NEW s \in Sess, FirePing(s) PROVE Tables'
  <2> DEFINE t == Task("ping", s, 0, 0, "alarm")
  <2>1. Ask(t, IF s = main THEN s ELSE 0, wire) /\ task.op = "idle"
    BY <1>4 DEF FirePing
  <2>2. t \in TaskType /\ t.op = "ping"
    BY TaskTyped, TaskFields, LinkAssumption DEF Op, Pointer
  <2> HIDE DEF t
  <2>3. task'.op = "ping"
    BY <2>1, <2>2 DEF Ask
  <2>4. wire' = wire \/ (main # 0 /\ Ask(t, main, wire))
    <3>1. CASE s = main
      BY <2>1, <3>1, LinkAssumption DEF Sess
    <3>2. CASE s # main
      BY <2>1, <3>2 DEF Ask
    <3> QED BY <3>1, <3>2
  <2> QED BY <1>2, <2>1, <2>2, <2>3, <2>4, KeptTables
<1>5. CASE PingReturns
  <2>1. CASE result = "ok"
    <3>1. wire' = wire /\ task.op = "ping" /\ task'.op = "idle"
      BY <1>5, <2>1, TaskFields DEF PingReturns, Rest, NoTask
    <3> QED BY <1>2, <3>1, KeptTables
  <2>2. CASE result = "fail"
    <3>1. task' = [task EXCEPT !.op = "close"]
      BY <1>5, <2>2 DEF PingReturns, Ask
    <3>2. task'.op = "close"
      BY <1>1, <3>1 DEF Typed, TaskType
    <3>3. ~ForProgram' /\ ~ForReattach'
      BY <3>2 DEF ForProgram, ForReattach, List
    <3> QED BY <1>1, <1>2, <3>2, <3>3 DEF Tables, MarksSound, ToldSound
  <2> QED BY <1>5, <2>1, <2>2 DEF PingReturns
<1> QED BY <1>3, <1>4, <1>5

\* A registration of the program: its node is marked, or unmarked, and the
\* master is told of it, when there is a session.
LEMMA ProgramTables ==
    ASSUME LinkInv, NEW n \in Node, ProgramRegister(n) \/ ProgramUnregister(n)
    PROVE  Tables'
<1>1. Typed /\ Cared /\ Stream /\ Tables
  BY DEF LinkInv
<1>2. UNCHANGED <<main, cut, regs>> /\ task.op = "idle"
  BY DEF ProgramRegister, ProgramUnregister, MayProgram, masterVars
<1>3. CASE main = 0
  <2>1. \A m \in Node : nodes'[m] = "attached" => m \in skipped'
    BY <1>1, <1>3 DEF ProgramRegister, ProgramUnregister, Tables, MarksSound, Typed
  <2> QED BY <1>2, <1>3, <2>1, GoneTables
<1>4. CASE main # 0
  <2>1. PICK l \in List :
            /\ Walk(l, n) /\ skipped' = IF l = "register" THEN skipped ELSE skipped \ {n}
            /\ nodes' = [nodes EXCEPT ![n] = IF l = "register" THEN "attached" ELSE "absent"]
    BY <1>4 DEF ProgramRegister, ProgramUnregister, List
  <2> DEFINE k == Live(hooks[l], 0)
  <2>2. hooks[l] \in Seq(Pointer) /\ 0 \in Nat
    BY <1>1 DEF Typed
  <2>3. \E j \in DOMAIN hooks[l] : j > 0 /\ hooks[l][j] # 0
    <3>1. \E j \in DOMAIN hooks[l] : hooks[l][j] = main
      BY <1>1, <1>2, <1>4 DEF Cared, HooksPresent
    <3>2. DOMAIN hooks[l] = 1 .. Len(hooks[l])
      BY <2>2, LenProperties
    <3> QED BY <1>4, <3>1, <3>2
  <2>4. k # 0 /\ k \in Nat /\ hooks[l][k] = main
    BY <1>1, <2>2, <2>3, LiveFirst DEF Cared, HooksSound
  <2> DEFINE t == Task(l, main, n, k, "program")
  <2>5. Ask(t, main, wire)
    BY <2>1, <2>4 DEF Walk
  <2>6. n \in 0 .. NumNodes /\ l \in Op /\ main \in Pointer
    BY <1>1, LinkAssumption DEF Node, Op, Typed
  <2> HIDE DEF k
  <2>7. t \in TaskType /\ t.op = l /\ t.node = n /\ t.why = "program"
    BY <2>4, <2>6, TaskTyped, TaskFields
  <2> HIDE DEF t
  <2>8. task' = t
    BY <2>5 DEF Ask
  <2>9. ~ForReattach /\ ~ForReattach' /\ task'.op \notin {"open", "close"}
    BY <1>2, <2>7, <2>8 DEF ForReattach, List
  <2>10. \A m \in Node : /\ m # n => nodes'[m] = nodes[m]
                         /\ m = n => nodes'[m] = IF l = "register" THEN "attached" ELSE "absent"
    BY <1>1, <2>1 DEF Typed
  <2>11. MarksSound'
    <3>1. \A m \in Node : nodes[m] # "detached"
      BY <1>1, <1>2, <1>4 DEF Tables, MarksSound
    <3> QED BY <1>2, <1>4, <2>9, <2>10, <3>1 DEF MarksSound
  <2>12. ASSUME main \notin cut, NEW m \in Node \ skipped'
         PROVE  WillServe(m)' <=> Registered(m)'
    <3>1. CASE m = n
      <4>1. WillServe(m)' <=> l = "register"
        BY <1>1, <1>2, <1>4, <2>5, <2>7, <2>12, <3>1, AskTold
      <4> QED BY <2>9, <2>10, <3>1, <4>1 DEF Registered
    <3>2. CASE m # n
      <4>1. WillServe(m)' <=> WillServe(m)
        BY <1>1, <1>2, <1>4, <2>5, <2>7, <2>12, <3>2, AskTold
      <4>2. m \in Node \ skipped
        BY <2>1, <3>2
      <4>3. WillServe(m) <=> Registered(m)
        BY <1>1, <1>2, <1>4, <2>12, <4>2 DEF Tables, ToldSound
      <4> QED BY <2>9, <2>10, <2>12, <3>2, <4>1, <4>3 DEF Registered
    <3> QED BY <3>1, <3>2
  <2>13. ToldSound'
    BY <1>2, <2>9, <2>12 DEF ToldSound
  <2> QED BY <2>11, <2>13 DEF Tables
<1> QED BY <1>3, <1>4

LEMMA EventTables ==
    ASSUME LinkInv, Disconnect \/ Timeout \/ MasterDies \/ MasterStarts \/ UNCHANGED linkVars
    PROVE  Tables'
<1>1. Typed /\ Tables
  BY DEF LinkInv
<1>2. CASE Disconnect
  <2>1. \A n \in Node : nodes'[n] = "attached" => n \in skipped'
    BY <1>2 DEF Disconnect, Detached
  <2> QED BY <1>2, <2>1, GoneTables DEF Disconnect
<1>3. CASE Timeout
  <2>1. /\ wire' = [i \in DOMAIN wire |-> [wire[i] EXCEPT !.due = FALSE]]
        /\ UNCHANGED <<main, cut, regs, task, nodes, skipped>>
    BY <1>3 DEF Timeout, masterVars
  <2>2. \A i \in DOMAIN wire : wire[i] \in PduType
    BY <1>1 DEF Typed
  <2>3. \A i \in DOMAIN wire : /\ wire'[i].kind = wire[i].kind /\ wire'[i].sess = wire[i].sess
                               /\ wire'[i].node = wire[i].node
    BY <2>1, <2>2 DEF PduType
  <2>4. DOMAIN wire' = DOMAIN wire
    BY <2>1
  <2>5. \A n \in Node : WillServe(n)' <=> WillServe(n)
    <3> TAKE n \in Node
    <3>1. Told(n)' = Told(n)
      BY <2>1, <2>3, <2>4 DEF Told
    <3>2. \A i \in Told(n) : wire'[i].kind = wire[i].kind
      BY <2>3 DEF Told
    <3> QED BY <2>1, <3>1, <3>2 DEF WillServe
  <2>6. MarksSound'
    BY <1>1, <2>1 DEF Tables, MarksSound, ForProgram, ForReattach
  <2>7. ToldSound'
    BY <1>1, <2>1, <2>5 DEF Tables, ToldSound, Registered, ForReattach
  <2> QED BY <2>6, <2>7 DEF Tables
<1>4. CASE MasterDies
  <2>1. /\ regs' = [n \in Node |-> 0] /\ cut' = cut \cup ({main} \ {0})
        /\ UNCHANGED <<main, task, nodes, skipped>>
    BY <1>4 DEF MasterDies, callVars
  <2>2. MarksSound'
    BY <1>1, <2>1 DEF Tables, MarksSound, ForProgram, ForReattach
  <2>3. ToldSound'
    BY <2>1 DEF ToldSound
  <2> QED BY <2>2, <2>3 DEF Tables
<1>5. CASE MasterStarts \/ UNCHANGED linkVars
  <2>1. UNCHANGED <<main, cut, regs, wire, task, nodes, skipped>>
    BY <1>5 DEF MasterStarts, linkVars, callVars, masterVars
  <2>2. MarksSound'
    BY <1>1, <2>1 DEF Tables, MarksSound, ForProgram, ForReattach
  <2>3. \A n \in Node : WillServe(n)' <=> WillServe(n)
    BY <2>1 DEF WillServe, Told
  <2>4. ToldSound'
    BY <1>1, <2>1, <2>3 DEF Tables, ToldSound, Registered, ForReattach
  <2> QED BY <2>2, <2>4 DEF Tables
<1> QED BY <1>2, <1>3, <1>4, <1>5

\* The master reads the first PDU: one of the present session tells it of a
\* node, and any other changes nothing of that session.
LEMMA MasterReadsTables ==
    ASSUME LinkInv, MasterReads
    PROVE  Tables'
<1> DEFINE p == Head(wire)
<1>1. /\ Typed /\ Stream /\ Tables /\ wire # <<>> /\ wire' = Tail(wire)
      /\ UNCHANGED <<main, cut, task, nodes, skipped>>
  BY DEF MasterReads, LinkInv
<1>2. /\ p \in PduType /\ p = wire[1] /\ 1 \in DOMAIN wire /\ Len(wire) \in Nat
      /\ DOMAIN wire = 1 .. Len(wire) /\ DOMAIN wire' = 1 .. Len(wire) - 1
      /\ \A i \in 1 .. Len(wire) - 1 : wire'[i] = wire[i + 1]
  BY <1>1, HeadOfWire
<1>3. \/ p.kind \in {"open", "caps", "ping"} /\ regs' = regs
      \/ /\ p.kind \in List
         /\ LET ok == p.sess \in opened /\ (p.kind = "register") = (regs[p.node] = 0)
            IN regs' = IF ~ok THEN regs
                       ELSE [regs EXCEPT ![p.node] = IF p.kind = "register" THEN p.sess ELSE 0]
      \/ p.kind \in {"close", "eof"} /\ regs' = Dropped(p.sess)
  BY DEF MasterReads
<1> HIDE DEF p
<1>4. regs \in [Node -> Pointer]
  BY <1>1 DEF Typed
<1>5. p.sess = main => /\ p.kind # "eof"
                       /\ p.kind = "close" => task.op = "close"
                       /\ task.op = "open" => p.kind = "open"
  BY <1>1, <1>2 DEF Stream, Present
<1>6. ASSUME main # 0, task.op # "close", NEW n \in Node,
             ~(p.kind \in List /\ p.sess = main /\ p.node = n)
      PROVE  regs'[n] = main <=> regs[n] = main
  <2>1. CASE p.kind \in {"open", "caps", "ping"}
    BY <1>3, <2>1 DEF List
  <2>2. CASE p.kind \in {"close", "eof"}
    <3>1. p.sess # main /\ regs' = Dropped(p.sess)
      BY <1>3, <1>5, <1>6, <2>2 DEF List
    <3> QED BY <1>6, <3>1 DEF Dropped
  <2>3. CASE p.kind \in List
    <3>1. CASE p.node = n
      <4>1. p.sess # main
        BY <1>6, <2>3, <3>1
      <4>2. main \notin opened
        BY <1>1, <1>2, <4>1 DEF Stream, Earlier
      <4>3. regs[n] # main
        BY <1>1, <1>6, <4>2 DEF Stream, Earlier
      <4>4. regs'[n] \in {regs[n], p.sess, 0}
        BY <1>3, <1>4, <2>3, <3>1 DEF List
      <4> QED BY <1>6, <4>1, <4>3, <4>4
    <3>2. CASE p.node # n
      BY <1>3, <1>4, <2>3, <3>2 DEF List
    <3> QED BY <3>1, <3>2
  <2> QED BY <1>3, <2>1, <2>2, <2>3
<1>7. ASSUME main # 0, main \notin cut, task.op \notin {"open", "close"}, NEW n \in Node,
             p.kind \in List, p.sess = main, p.node = n
      PROVE  regs'[n] = main <=> p.kind = "register"
  <2>1. main \in opened
    <3> SUFFICES ASSUME main \notin opened PROVE FALSE
      OBVIOUS
    <3>1. PICK i \in DOMAIN wire : /\ wire[i].kind = "open" /\ wire[i].sess = main
                                   /\ \A j \in DOMAIN wire : j < i => wire[j].sess # main
      BY <1>1, <1>7 DEF Stream, Present
    <3>2. i = 1
      BY <1>2, <1>7, <3>1
    <3> QED BY <1>2, <1>7, <3>1, <3>2 DEF List
  <2>2. \A s \in opened : s = main
    BY <1>1, <2>1 DEF Stream, Earlier, Ended
  <2>3. regs[n] \in {0, main}
    BY <1>1, <2>2 DEF Stream, Earlier
  <2> QED BY <1>3, <1>4, <1>7, <2>1, <2>3 DEF List
<1>8. ASSUME main # 0, main \notin cut, task.op \notin {"open", "close"}, NEW n \in Node
      PROVE  WillServe(n)' <=> WillServe(n)
  <2>1. \A i \in Nat \ {0} : i \in Told(n)' <=> i + 1 \in Told(n)
    BY <1>1, <1>2 DEF Told
  <2>2. \A i \in Told(n)' : i \in Nat \ {0} /\ wire'[i] = wire[i + 1]
    BY <1>2 DEF Told
  <2>3. \A i \in Told(n) : i \in Nat \ {0}
    BY <1>2 DEF Told
  <2>4. 1 \in Told(n) <=> p.kind \in List /\ p.sess = main /\ p.node = n
    BY <1>2 DEF Told
  <2>5. \A i \in Told(n) : i # 1 => i - 1 \in Told(n)' /\ wire'[i - 1] = wire[i]
    BY <2>1, <2>2, <2>3
  <2>6. (\E i \in Told(n) : i # 1 /\ wire[i].kind = "register" /\ \A j \in Told(n) : j <= i)
        <=> (\E i \in Told(n)' : wire'[i].kind = "register" /\ \A j \in Told(n)' : j <= i)
    <3>1. ASSUME NEW i \in Told(n), i # 1, wire[i].kind = "register",
                 \A j \in Told(n) : j <= i
          PROVE  /\ i - 1 \in Told(n)' /\ wire'[i - 1].kind = "register"
                 /\ \A j \in Told(n)' : j <= i - 1
      BY <2>1, <2>2, <2>3, <2>5, <3>1
    <3>2. ASSUME NEW i \in Told(n)', wire'[i].kind = "register", \A j \in Told(n)' : j <= i
          PROVE  /\ i + 1 \in Told(n) /\ i + 1 # 1 /\ wire[i + 1].kind = "register"
                 /\ \A j \in Told(n) : j <= i + 1
      BY <2>1, <2>2, <2>3, <2>5, <3>2
    <3> QED BY <3>1, <3>2
  <2>7. CASE 1 \notin Told(n)
    <3>1. Told(n)' = {} <=> Told(n) = {}
      BY <2>1, <2>2, <2>5, <2>7
    <3>2. regs'[n] = main <=> regs[n] = main
      BY <1>6, <1>8, <2>4, <2>7
    <3> QED BY <1>1, <2>6, <2>7, <3>1, <3>2 DEF WillServe
  <2>8. CASE 1 \in Told(n)
    <3>1. CASE Told(n)' = {}
      <4>1. \A j \in Told(n) : j <= 1
        BY <2>3, <2>5, <3>1
      <4>2. WillServe(n) <=> wire[1].kind = "register"
        BY <2>3, <2>8, <4>1, <2>6, <3>1 DEF WillServe
      <4>3. WillServe(n)' <=> regs'[n] = main
        BY <1>1, <3>1 DEF WillServe
      <4> QED BY <1>2, <1>7, <1>8, <2>4, <2>8, <4>2, <4>3
    <3>2. CASE Told(n)' # {}
      <4>1. PICK i \in Told(n)' : i + 1 \in Told(n) /\ i \in Nat \ {0}
        BY <2>1, <2>2, <3>2
      <4>2. ~(\A j \in Told(n) : j <= 1)
        BY <4>1
      <4> QED BY <2>6, <2>8, <3>2, <4>2 DEF WillServe
    <3> QED BY <3>1, <3>2
  <2> QED BY <2>7, <2>8
<1>9. MarksSound'
  BY <1>1 DEF Tables, MarksSound, ForProgram, ForReattach
<1>10. task.op = "open" /\ main # 0 => \A n \in Node : regs'[n] # main
  BY <1>1, <1>5, <1>6 DEF Tables, ToldSound, List
<1>11. \A n \in Node : Registered(n)' <=> Registered(n)
  BY <1>1 DEF Registered, ForReattach
<1>12. ToldSound'
  BY <1>1, <1>8, <1>10, <1>11 DEF Tables, ToldSound
<1> QED BY <1>9, <1>12 DEF Tables

LEMMA TablesStep ==
    ASSUME LinkInv, [Next]_linkVars
    PROVE  Tables'
BY OpeningTables, OpenReturnsTables, CallReturnsTables, CallTables, ProgramTables,
   EventTables, MasterReadsTables
DEF Next, Returns, Fires, Master, Program

-----------------------------------------------------------------------------
(* The theorems.                                                           *)

LEMMA LinkInitially ==
    ASSUME Init
    PROVE  LinkInv
<1>1. task.op = "startup" /\ task.node = 0 /\ task.why = "none"
  BY TaskFields DEF Init
<1>2. Typed
  <2>1. task \in TaskType
    BY TaskTyped, LinkAssumption DEF Init, Op, Pointer
  <2>2. <<>> \in Seq(PduType) /\ <<>> \in Seq(Pointer)
    BY EmptySeq
  <2>3. hooks \in [List -> Seq(Pointer)] /\ locks \in [List -> Int]
    BY <2>2 DEF Init
  <2>4. nodes \in [Node -> {"absent", "attached", "detached"}]
    BY DEF Init
  <2>5. regs \in [Node -> Pointer] /\ wire \in Seq(PduType)
    BY <2>2 DEF Init, Pointer
  <2> QED BY <2>1, <2>3, <2>4, <2>5 DEF Init, Typed, Pointer
<1>3. \A l \in List : DOMAIN hooks[l] = {}
  BY DEF Init
<1>4. Cared
  BY <1>1, <1>3 DEF Init, Cared, TaskSound, LocksSound, HooksSound, HooksPresent, EntryLive,
     AlarmsSound, ForProgram, ForReattach, Resting, List
<1>5. DOMAIN wire = {}
  BY DEF Init
<1>6. Stream
  BY <1>5 DEF Init, Stream, CutSound, DueSound, Earlier, Present
<1>7. Tables
  BY DEF Init, Tables, MarksSound, ToldSound
<1> QED BY <1>2, <1>4, <1>6, <1>7 DEF LinkInv

LEMMA LinkStep ==
    ASSUME LinkInv, [Next]_linkVars
    PROVE  LinkInv'
BY CaredStep, TypedStep, StreamStep, TablesStep DEF LinkInv

\* The inductive invariant holds: at every point of every call the callbacks
\* and alarms, the stream and the master's tables fit together, wherever the
\* disconnect handler ran (Subagent_handleAgentxPacket).
THEOREM LinkInvariant == Spec => []LinkInv
<1>1. Init => LinkInv
  BY LinkInitially
<1>2. LinkInv /\ [Next]_linkVars => LinkInv'
  BY LinkStep
<1> QED BY <1>1, <1>2, PTL DEF Spec

\* Every variable has its type and no callback lock is more than one off
\* (_Callback_lock, _Callback_unlock).
THEOREM LinkTypes == Spec => []LinkTypeOK
<1>1. LinkInv => LinkTypeOK
  <2> SUFFICES ASSUME LinkInv PROVE LinkTypeOK
    OBVIOUS
  <2>1. Typed /\ LocksSound
    BY DEF LinkInv, Cared
  <2>2. \A l \in List : locks[l] \in -1 .. 1
    BY <2>1 DEF LocksSound
  <2>3. \A l \in List : \A k \in DOMAIN hooks[l] : hooks[l][k] \in Sess \cup {0}
    BY <2>1 DEF Typed, Pointer
  <2> QED BY <2>1, <2>2, <2>3 DEF LinkTypeOK, Typed, Pointer, TaskType, Op
<1> QED BY <1>1, LinkInvariant, PTL

\* Between two turns of the main loop a session is pinged and told of
\* registrations, and without one an alarm will open it again, whichever call
\* the connection was lost in (_Subagent_reopenSession and the disconnect
\* handler).
THEOREM ConnectionWatched == Spec => []Watched
<1>1. LinkInv => Watched
  BY DEF LinkInv, Cared, Watched, AlarmsSound, HooksPresent
<1> QED BY <1>1, LinkInvariant, PTL

\* No ping alarm and no callback outlives its session, and no list calls a
\* session twice (Subagent_unregisterCallbacks and the stash in securityModel).
THEOREM NothingStaleLeft == Spec => []NothingStale
<1>1. LinkInv => NothingStale
  BY DEF LinkInv, Cared, NothingStale, AlarmsSound, HooksSound
<1> QED BY <1>1, LinkInvariant, PTL

\* When the master has read everything it serves what the program has
\* registered, but for what the reattach loop marked without a session
\* (registerMib2, registerMibReattach, registerMibDetach).
THEOREM TablesInStep == Spec => []TablesAgree
<1>1. LinkInv => TablesAgree
  <2> SUFFICES ASSUME LinkInv, Settled, NEW n \in Node \ skipped
               PROVE  Mirrors(n)
    BY DEF TablesAgree
  <2>1. /\ task.op = "idle" /\ main # 0 /\ main \notin cut /\ DOMAIN wire = {}
        /\ Typed /\ Stream /\ Tables
    BY DEF Settled, LinkInv
  <2>2. nodes[n] \in {"absent", "attached"}
    BY <2>1 DEF Tables, MarksSound, Typed
  <2>3. regs[n] \in {0, main}
    BY <2>1 DEF Stream, Earlier, Ended
  <2>4. regs[n] = main <=> nodes[n] = "attached"
    BY <2>1 DEF Tables, ToldSound, WillServe, Told, Registered, ForReattach, List
  <2> QED BY <2>1, <2>2, <2>3, <2>4 DEF Mirrors
<1> QED BY <1>1, LinkInvariant, PTL
=============================================================================

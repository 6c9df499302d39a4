--------------------------- MODULE SubagentSetsProofs ---------------------------
(***************************************************************************)
(* A SET that crosses the AgentX link ends at the subagent as the master   *)
(* decided, for any number of SETs, timeouts, retransmissions and broken   *)
(* connections (SetsTypeOK and Agreement of SubagentSets); and one that    *)
(* met none of these has its passes in order, each with its own requests,  *)
(* and true answers (PassOrder, AnswersFindTheirSet, TruthfulAnswers).     *)
(*                                                                         *)
(* Two inductive invariants.  SetsInv holds always: the shape of the       *)
(* lists, what the modes of the cells and the passes on their way say of   *)
(* the decision, and that the newest cell of a SET that is being committed *)
(* has been acted on.  CalmInv holds until something is resent, given up   *)
(* or lost: each SET is at one place only, and what the subagent and its   *)
(* agent keep of it is what that place calls for.                          *)
(***************************************************************************)
EXTENDS SubagentSets, TLAPS, SequenceTheorems, FunctionTheorems, FiniteSetTheorems

-----------------------------------------------------------------------------
(* Types.                                                                  *)

Mode     == {"none"} \cup Passes
Request  == [command : Commands, trans : Trans]
Reply    == [command : Commands, trans : Trans, ok : BOOLEAN]
Queued   == [pass : Passes, trans : Trans, command : Commands, cell : Cell]
Begun    == [pass : Passes, trans : Trans, command : Commands, cell : Cell,
             entry : Entry \cup {Void}, ok : BOOLEAN]
CellType == [trans : 0 .. NumTrans, mode : Mode, old : BOOLEAN]
HeldType == [trans : 0 .. NumTrans, pass : Mode, status : {"ok", "error", "running"}]
Kept     == [trans : Trans, entry : Entry \cup {Void}]

Typed ==
    /\ master \in [trans : 0 .. NumTrans, retries : 0 .. MaxRetries,
                   awaits : {"none", "TESTSET", "COMMITSET", "UNDOSET"}]
    /\ sessRetries \in 0 .. MaxRetries
    /\ decision \in [Trans -> {"none", "open", "free", "commit", "undo"}]
    /\ toSub \in Seq(Request) /\ toMaster \in Seq(Reply)
    /\ subagentSets \in Seq(Cell) /\ asi \in [Cell -> CellType]
    /\ internal \in Seq(Queued) /\ running \in SUBSET Begun /\ replies \in Seq(Begun)
    /\ agentSets \in Seq(Kept) /\ held \in [Entry -> HeldType]
    /\ link \in {"up", "cut", "down", "gone", "crashed"} /\ troubled \in BOOLEAN

-----------------------------------------------------------------------------
(* What always holds.                                                      *)

\* A cell is listed once, and an entry is in one place.
Listed == \A i, j \in DOMAIN subagentSets : subagentSets[i] = subagentSets[j] => i = j

Cached ==
    /\ \A i, j \in DOMAIN agentSets :
          i # j /\ agentSets[i].entry # Void => agentSets[i].entry # agentSets[j].entry
    /\ \A i \in DOMAIN agentSets :
          agentSets[i].entry # Void => held[agentSets[i].entry].pass # "none"
    /\ \A p \in running : /\ p.entry \in Entry
                          /\ held[p.entry].status = "running" /\ held[p.entry].pass # "none"
                          /\ \A i \in DOMAIN agentSets : agentSets[i].entry # p.entry
    /\ \A p, q \in running : p.entry = q.entry => p = q

\* The master waits for a SET that it has not decided, or is undoing.
Decided ==
    /\ master.awaits # "none" =>
          /\ master.trans \in Trans
          /\ decision[master.trans] = IF master.awaits = "UNDOSET" THEN "undo" ELSE "open"
    /\ \A t \in Trans : /\ t > master.trans <=> decision[t] = "none"
                        /\ decision[t] = "open" => t = master.trans /\ master.awaits # "none"

\* The master has sent a COMMITSET.
Acted(t) ==
    \/ decision[t] \in {"commit", "undo"}
    \/ master.trans = t /\ master.awaits = "COMMITSET"

\* What is on its way to the subagent agrees with the decision.
Asked ==
    /\ \A i \in DOMAIN toSub :
          /\ decision[toSub[i].trans] # "none"
          /\ toSub[i].command = "COMMITSET" => Acted(toSub[i].trans)
          /\ toSub[i].command = "UNDOSET" => decision[toSub[i].trans] = "undo"
          /\ toSub[i].command = "CLEANUPSET" => decision[toSub[i].trans] \in {"free", "commit"}
    /\ \A i, j \in DOMAIN toSub : toSub[i].trans = toSub[j].trans =>
          /\ toSub[i].command = "COMMITSET" /\ i < j => toSub[j].command # "TESTSET"
          /\ toSub[i].command = "CLEANUPSET" /\ toSub[j].command = "CLEANUPSET" => i = j

\* So do the modes of the cells, freed ones included, and the passes.
Modes ==
    \A c \in Cell :
        /\ asi[c].mode # "none" => asi[c].trans \in Trans /\ decision[asi[c].trans] # "none"
        /\ asi[c].mode = "none" => asi[c].trans = 0
        /\ asi[c].mode = "ACTION" => Acted(asi[c].trans)
        /\ asi[c].mode \in Last => asi[c].mode = LastPassOf(decision[asi[c].trans])

Flying == Members(internal) \cup running \cup Members(replies)

Agrees(pass, t) == pass \in Last => pass = LastPassOf(decision[t])

Passing ==
    /\ \A p \in Flying : /\ decision[p.trans] # "none" /\ Agrees(p.pass, p.trans)
                         /\ p.command = "COMMITSET" => Acted(p.trans)
    /\ \A i \in DOMAIN toMaster : /\ decision[toMaster[i].trans] # "none"
                                  /\ toMaster[i].command = "COMMITSET" => Acted(toMaster[i].trans)
    /\ \A e \in Entry : held[e].pass # "none" => held[e].trans \in Trans

\* The master has not decided, or the subagent has yet to read that it is to
\* commit.
Live(t) ==
    \/ decision[t] = "open"
    \/ /\ decision[t] = "commit"
       /\ \E i \in DOMAIN toSub : toSub[i] = [command |-> "CLEANUPSET", trans |-> t]

\* The subagent has been asked to commit, and has not failed.
Committing(t) ==
    \/ decision[t] = "commit"
    \/ \E p \in Flying : p.trans = t /\ p.command = "COMMITSET"
    \/ \E i \in DOMAIN toMaster : toMaster[i] = [command |-> "COMMITSET", trans |-> t,
                                                 ok |-> TRUE]

Newest(c, t) ==
    \E i \in DOMAIN subagentSets :
        /\ subagentSets[i] = c /\ asi[c].trans = t
        /\ \A j \in DOMAIN subagentSets : j < i => asi[subagentSets[j]].trans # t

\* A live SET keeps its cells, and the newest has been acted on when it is
\* being committed.
Lively ==
    \A t \in Trans : Live(t) =>
        /\ \A c \in Cell : asi[c].trans = t => asi[c].mode \notin Last
        /\ \A p \in Flying : p.trans = t =>
              asi[p.cell].trans = t /\ \E i \in DOMAIN subagentSets : subagentSets[i] = p.cell
        /\ Committing(t) =>
              /\ \E c \in Cell : Newest(c, t) /\ asi[c].mode = "ACTION"
              /\ \A i \in DOMAIN toSub : toSub[i].trans = t => toSub[i].command # "TESTSET"

SetsInv ==
    /\ Typed /\ Listed /\ Cached /\ Decided /\ Asked /\ Modes /\ Passing /\ Lively
    /\ Agreement

-----------------------------------------------------------------------------
(* What holds until something is resent, given up or lost.                 *)

Distinct(q) == \A i, j \in DOMAIN q : q[i] = q[j] => i = j

Nowhere(s, t) == \A x \in s : x.trans # t
Lone(s, t, x) == x.trans = t /\ \A y \in s : y.trans = t => y = x

Unheard(t) == \A e \in Entry : held[e].pass # "none" => held[e].trans # t

Gone(t) == /\ \A c \in Members(subagentSets) : asi[c].trans # t
           /\ Nowhere(Members(agentSets), t)

CellIn(t, mode) == \E c \in Members(subagentSets) : asi[c].trans = t /\ asi[c].mode = mode

Saw(t, pass, status) ==
    \E e \in Entry : /\ [trans |-> t, entry |-> e] \in Members(agentSets)
                     /\ held[e] = [trans |-> t, pass |-> pass, status |-> status]

\* Between two PDUs of the master the cell and the requests of a SET rest
\* after a pass.
Resting(t, pass, status) == CellIn(t, pass) /\ Saw(t, pass, status)

Current(t, command) == master.trans = t /\ master.awaits = command

AtSubagent(m) ==
    \/ /\ m.command = "TESTSET" /\ Current(m.trans, "TESTSET")
       /\ Gone(m.trans) /\ Unheard(m.trans)
    \/ /\ m.command = "COMMITSET" /\ Current(m.trans, "COMMITSET")
       /\ Resting(m.trans, "RESERVE2", "ok")
    \/ /\ m.command = "UNDOSET" /\ Current(m.trans, "UNDOSET")
       /\ \E status \in {"ok", "error"} : Resting(m.trans, "ACTION", status)
    \/ /\ m.command = "CLEANUPSET"
       /\ \E pass \in Reserving, status \in {"ok", "error"} : Resting(m.trans, pass, status)
    \/ /\ m.command = "CLEANUPSET"
       /\ Resting(m.trans, "ACTION", "ok")

\* The PDU a pass belongs to, and where that leaves the master.
Serves(p) ==
    \/ /\ p.pass \in Reserving /\ p.command = "TESTSET" /\ Current(p.trans, "TESTSET")
    \/ /\ p.pass = "ACTION" /\ p.command = "COMMITSET" /\ Current(p.trans, "COMMITSET")
    \/ /\ p.pass = "UNDO" /\ p.command = "UNDOSET"
    \/ /\ p.pass \in {"FREE", "COMMIT"} /\ p.command = "CLEANUPSET"

OwnCell(p) == /\ p.cell \in Members(subagentSets)
              /\ asi[p.cell].trans = p.trans /\ asi[p.cell].mode = p.pass

\* What the handlers have seen when a pass is due.
Due(p) ==
    \/ p.pass = "RESERVE1" /\ Unheard(p.trans) /\ Nowhere(Members(agentSets), p.trans)
    \/ p.pass = "RESERVE2" /\ Saw(p.trans, "RESERVE1", "ok")
    \/ p.pass = "FREE" /\ \E pass \in Reserving, status \in {"ok", "error"} :
                              Saw(p.trans, pass, status)
    \/ p.pass = "ACTION" /\ Saw(p.trans, "RESERVE2", "ok")
    \/ p.pass = "COMMIT" /\ Saw(p.trans, "ACTION", "ok")
    \/ p.pass = "UNDO" /\ \E status \in {"ok", "error"} : Saw(p.trans, "ACTION", status)

InHandlers(p) ==
    /\ p.entry \in Entry
    /\ held[p.entry] = [trans |-> p.trans, pass |-> p.pass, status |-> "running"]
    /\ Nowhere(Members(agentSets), p.trans)

Handled(p) ==
    \/ p.pass \in Last /\ p.ok /\ Nowhere(Members(agentSets), p.trans)
    \/ p.pass \notin Last /\ p.ok /\ Saw(p.trans, p.pass, "ok")
    \/ p.pass \notin Last /\ ~p.ok /\ Saw(p.trans, p.pass, "error")

AtMaster(m) ==
    \/ /\ m.command = "TESTSET" /\ Current(m.trans, "TESTSET")
       /\ m.ok /\ Resting(m.trans, "RESERVE2", "ok")
    \/ /\ m.command = "TESTSET" /\ Current(m.trans, "TESTSET")
       /\ ~m.ok /\ \E pass \in Reserving : Resting(m.trans, pass, "error")
    \/ /\ m.command = "COMMITSET" /\ Current(m.trans, "COMMITSET")
       /\ m.ok /\ Resting(m.trans, "ACTION", "ok")
    \/ /\ m.command = "COMMITSET" /\ Current(m.trans, "COMMITSET")
       /\ ~m.ok /\ Resting(m.trans, "ACTION", "error")
    \/ m.command \in {"UNDOSET", "CLEANUPSET"} /\ Gone(m.trans)

\* A SET is at one place at most.
Empty(t, but) ==
    /\ but # "toSub"    => Nowhere(Members(toSub), t)
    /\ but # "internal" => Nowhere(Members(internal), t)
    /\ but # "running"  => Nowhere(running, t)
    /\ but # "replies"  => Nowhere(Members(replies), t)
    /\ but # "toMaster" => Nowhere(Members(toMaster), t)

IsIdle(t)     == Empty(t, "none") /\ Gone(t)
IsSent(t)     == /\ Empty(t, "toSub")
                 /\ \E m \in Members(toSub) : Lone(Members(toSub), t, m) /\ AtSubagent(m)
IsQueued(t)   == /\ Empty(t, "internal")
                 /\ \E p \in Members(internal) :
                       /\ Lone(Members(internal), t, p)
                       /\ Serves(p) /\ OwnCell(p) /\ Due(p)
IsRunning(t)  == /\ Empty(t, "running")
                 /\ \E p \in running :
                       /\ Lone(running, t, p)
                       /\ Serves(p) /\ OwnCell(p) /\ InHandlers(p)
IsDone(t)     == /\ Empty(t, "replies")
                 /\ \E p \in Members(replies) :
                       /\ Lone(Members(replies), t, p)
                       /\ Serves(p) /\ OwnCell(p) /\ Handled(p)
IsAnswered(t) == /\ Empty(t, "toMaster")
                 /\ \E m \in Members(toMaster) : Lone(Members(toMaster), t, m) /\ AtMaster(m)

Stage(t) == IsIdle(t) \/ IsSent(t) \/ IsQueued(t) \/ IsRunning(t) \/ IsDone(t) \/ IsAnswered(t)

\* It has one cell, one cached entry and one set of requests.
Unique(t) ==
    /\ \A c, d \in Members(subagentSets) : asi[c].trans = t /\ asi[d].trans = t => c = d
    /\ \A x, y \in Members(agentSets) : x.trans = t /\ y.trans = t => x = y
    /\ \A e, f \in Entry : /\ held[e].pass # "none" /\ held[f].pass # "none"
                           /\ held[e].trans = t /\ held[f].trans = t
                           => e = f

\* The cache has no void entry, and every entry is its transaction's.
Owned ==
    /\ \A e \in Entry : /\ held[e].pass = "none" => held[e].status = "ok"
                        /\ held[e].pass # "none" => decision[held[e].trans] # "none"
    /\ \A x \in Members(agentSets) : /\ x.entry \in Entry /\ held[x.entry].pass # "none"
                                     /\ held[x.entry].trans = x.trans

Calm ==
    /\ link = "up" /\ \A c \in Cell : asi[c].old = FALSE
    /\ Distinct(toSub) /\ Distinct(internal) /\ Distinct(replies) /\ Distinct(toMaster)
    /\ \A t \in Trans : Stage(t) /\ Unique(t)
    /\ Owned

CalmInv == ~troubled => Calm

-----------------------------------------------------------------------------
(* Sequences.                                                              *)

LEMMA Appended ==
    ASSUME NEW S, NEW w \in Seq(S), NEW x \in S
    PROVE  /\ Append(w, x) \in Seq(S)
           /\ Len(w) \in Nat /\ DOMAIN w = 1 .. Len(w) /\ DOMAIN Append(w, x) = 1 .. Len(w) + 1
           /\ \A i \in 1 .. Len(w) : Append(w, x)[i] = w[i]
           /\ Append(w, x)[Len(w) + 1] = x
BY AppendProperties, LenProperties

LEMMA Tailed ==
    ASSUME NEW S, NEW w \in Seq(S), w # <<>>
    PROVE  /\ Tail(w) \in Seq(S) /\ Head(w) \in S /\ Head(w) = w[1] /\ 1 \in DOMAIN w
           /\ Len(w) \in Nat /\ DOMAIN w = 1 .. Len(w) /\ DOMAIN Tail(w) = 1 .. Len(w) - 1
           /\ \A i \in 1 .. Len(w) - 1 : Tail(w)[i] = w[i + 1]
<1>1. Len(w) \in Nat \ {0} /\ DOMAIN w = 1 .. Len(w)
  BY EmptySeq, LenProperties
<1>2. /\ Head(w) \in S /\ Tail(w) \in Seq(S)
      /\ Len(Tail(w)) = Len(w) - 1
      /\ \A i \in 1 .. Len(Tail(w)) : Tail(w)[i] = w[i + 1]
  BY HeadTailProperties
<1>3. DOMAIN Tail(w) = 1 .. Len(Tail(w))
  BY <1>2, LenProperties
<1>4. Head(w) = w[1]
  OBVIOUS
<1> QED BY <1>1, <1>2, <1>3, <1>4

LEMMA Prepended ==
    ASSUME NEW S, NEW w \in Seq(S), NEW x \in S
    PROVE  /\ <<x>> \o w \in Seq(S)
           /\ Len(w) \in Nat /\ DOMAIN w = 1 .. Len(w) /\ DOMAIN (<<x>> \o w) = 1 .. Len(w) + 1
           /\ (<<x>> \o w)[1] = x
           /\ \A i \in 1 .. Len(w) : (<<x>> \o w)[i + 1] = w[i]
<1>1. <<x>> \in Seq(S) /\ Len(<<x>>) = 1 /\ <<x>>[1] = x
  OBVIOUS
<1>2. Len(w) \in Nat /\ DOMAIN w = 1 .. Len(w)
  BY LenProperties
<1>3. /\ <<x>> \o w \in Seq(S) /\ Len(<<x>> \o w) = 1 + Len(w)
      /\ \A i \in 1 .. 1 + Len(w) : (<<x>> \o w)[i] = IF i <= 1 THEN <<x>>[i] ELSE w[i - 1]
  BY <1>1, ConcatProperties
<1>4. DOMAIN (<<x>> \o w) = 1 .. Len(<<x>> \o w)
  BY <1>3, LenProperties
<1> QED BY <1>1, <1>2, <1>3, <1>4

LEMMA Removed ==
    ASSUME NEW S, NEW w \in Seq(S), NEW i \in DOMAIN w
    PROVE  /\ Without(w, i) \in Seq(S)
           /\ Len(w) \in Nat /\ DOMAIN w = 1 .. Len(w) /\ DOMAIN Without(w, i) = 1 .. Len(w) - 1
           /\ \A k \in 1 .. Len(w) - 1 : /\ k < i => Without(w, i)[k] = w[k]
                                         /\ k >= i => Without(w, i)[k] = w[k + 1]
<1> DEFINE u == SubSeq(w, 1, i - 1)
           v == SubSeq(w, i + 1, Len(w))
<1>1. Len(w) \in Nat /\ DOMAIN w = 1 .. Len(w) /\ i \in 1 .. Len(w)
      /\ \A k \in 1 .. Len(w) : w[k] \in S
  BY LenProperties, ElementOfSeq
<1>2. u \in Seq(S) /\ Len(u) = i - 1 /\ \A k \in 1 .. i - 1 : u[k] = w[k]
  BY <1>1, SubSeqProperties
<1>3. v \in Seq(S) /\ Len(v) = Len(w) - i /\ \A k \in 1 .. Len(w) - i : v[k] = w[k + i]
  BY <1>1, SubSeqProperties
<1>4. Without(w, i) = u \o v
  BY DEF Without
<1> HIDE DEF u, v
<1>5. /\ u \o v \in Seq(S) /\ Len(u \o v) = Len(w) - 1
      /\ \A k \in 1 .. Len(w) - 1 : (u \o v)[k] = IF k <= i - 1 THEN u[k] ELSE v[k - (i - 1)]
  <2>1. /\ u \o v \in Seq(S) /\ Len(u \o v) = Len(u) + Len(v)
        /\ \A k \in 1 .. Len(u) + Len(v) :
              (u \o v)[k] = IF k <= Len(u) THEN u[k] ELSE v[k - Len(u)]
    BY <1>2, <1>3, ConcatProperties
  <2>2. Len(u) + Len(v) = Len(w) - 1 /\ Len(u) = i - 1
    BY <1>1, <1>2, <1>3
  <2> QED BY <2>1, <2>2
<1>6. DOMAIN (u \o v) = 1 .. Len(u \o v)
  BY <1>5, LenProperties
<1>7. \A k \in 1 .. Len(w) - 1 : k < i => (u \o v)[k] = w[k]
  BY <1>1, <1>2, <1>5
<1>8. \A k \in 1 .. Len(w) - 1 : k >= i => (u \o v)[k] = w[k + 1]
  <2> TAKE k \in 1 .. Len(w) - 1
  <2> HAVE k >= i
  <2>1. k - (i - 1) \in 1 .. Len(w) - i /\ k - (i - 1) + i = k + 1
    BY <1>1
  <2> QED BY <1>1, <1>3, <1>5, <2>1
<1> QED BY <1>1, <1>4, <1>5, <1>6, <1>7, <1>8

\* A non-empty set of naturals has a least element.
LEMMA LeastExists ==
    ASSUME NEW S \in SUBSET Nat, S # {}
    PROVE  \E m \in S : \A k \in S : m \leq k
<1>1. PICK m \in S : \A k \in S : <<k, m>> \notin OpToRel(<, Nat)
  BY NatLessThanWellFounded, WFMin
<1>2. \A k \in S : ~(k < m)
  BY <1>1 DEF OpToRel
<1> QED BY <1>2

\* The lookups of the subagent and of its agent find the newest.
LEMMA FirstPlace ==
    ASSUME NEW q, NEW n \in Nat, DOMAIN q = 1 .. n, NEW t
    PROVE  /\ First(q, t) = 0 => \A i \in DOMAIN q : q[i] # t
           /\ First(q, t) # 0 => /\ First(q, t) \in DOMAIN q /\ q[First(q, t)] = t
                                 /\ \A i \in DOMAIN q : i < First(q, t) => q[i] # t
<1> DEFINE found == {i \in DOMAIN q : q[i] = t}
           f == CHOOSE i \in found : \A j \in found : i \leq j
<1>1. First(q, t) = IF found = {} THEN 0 ELSE f
  BY DEF First
<1>2. CASE found = {}
  BY <1>1, <1>2
<1>3. CASE found # {}
  <2>1. found \in SUBSET Nat /\ 0 \notin found
    OBVIOUS
  <2>2. \E i \in found : \A j \in found : i \leq j
    <3> HIDE DEF found
    <3> QED BY <1>3, <2>1, LeastExists
  <2>3. f \in found /\ \A j \in found : f \leq j
    BY <2>2
  <2>4. First(q, t) = f
    BY <1>1, <1>3
  <2> HIDE DEF f
  <2>5. f \in DOMAIN q /\ q[f] = t /\ f # 0
    BY <2>1, <2>3
  <2>6. \A i \in DOMAIN q : i < f => q[i] # t
    BY <2>3, <2>5
  <2> QED BY <2>4, <2>5, <2>6
<1> QED BY <1>2, <1>3

-----------------------------------------------------------------------------
(* The lookups.                                                            *)

LEMMA Numbers ==
    /\ Trans \subseteq Nat /\ Cell \subseteq Nat /\ Entry \subseteq Nat
    /\ 0 \notin Trans /\ 0 \notin Cell /\ 0 \notin Entry
    /\ NumTrans \in Nat /\ MaxRetries \in Nat /\ Trans = 1 .. NumTrans
BY SetsAssumption DEF Trans, Cell, Entry

\* Subagent_restoreSetVars finds the newest cell of the transaction.
LEMMA RestoredCell ==
    ASSUME Typed, NEW t
    PROVE  /\ Restored(t) = 0 => \A i \in DOMAIN subagentSets : asi[subagentSets[i]].trans # t
           /\ Restored(t) # 0 => Restored(t) \in Cell /\ Newest(Restored(t), t)
<1> DEFINE q == Transactions
           k == First(q, t)
<1>1. /\ Len(subagentSets) \in Nat /\ DOMAIN subagentSets = 1 .. Len(subagentSets)
      /\ subagentSets \in [1 .. Len(subagentSets) -> Cell]
  BY LenProperties DEF Typed
<1>2. DOMAIN q = 1 .. Len(subagentSets) /\ \A i \in DOMAIN q : q[i] = asi[subagentSets[i]].trans
  BY <1>1 DEF Transactions
<1>3. Restored(t) = IF k = 0 THEN 0 ELSE subagentSets[k]
  BY DEF Restored
<1> HIDE DEF q
<1>4. /\ k = 0 => \A i \in DOMAIN q : q[i] # t
      /\ k # 0 => k \in DOMAIN q /\ q[k] = t /\ \A i \in DOMAIN q : i < k => q[i] # t
  BY <1>1, <1>2, FirstPlace
<1> HIDE DEF k
<1>5. CASE k = 0
  BY <1>1, <1>2, <1>3, <1>4, <1>5
<1>6. CASE k # 0
  <2>1. k \in DOMAIN subagentSets /\ Restored(t) = subagentSets[k] /\ subagentSets[k] \in Cell
    BY <1>1, <1>2, <1>3, <1>4, <1>6
  <2>2. Newest(Restored(t), t)
    BY <1>1, <1>2, <1>4, <1>6, <2>1 DEF Newest
  <2> QED BY <2>1, <2>2, Numbers
<1> QED BY <1>5, <1>6

\* Subagent_freeSetVars removes it from the list.
LEMMA FreedList ==
    ASSUME Typed, NEW t
    PROVE  \/ Freed(t) = subagentSets /\ \A i \in DOMAIN subagentSets :
                                             asi[subagentSets[i]].trans # t
           \/ \E k \in DOMAIN subagentSets : /\ Freed(t) = Without(subagentSets, k)
                                             /\ asi[subagentSets[k]].trans = t
<1> DEFINE q == Transactions
           k == First(q, t)
<1>1. Len(subagentSets) \in Nat /\ DOMAIN subagentSets = 1 .. Len(subagentSets)
  BY LenProperties DEF Typed
<1>2. DOMAIN q = 1 .. Len(subagentSets) /\ \A i \in DOMAIN q : q[i] = asi[subagentSets[i]].trans
  BY <1>1 DEF Transactions
<1>3. Freed(t) = IF k = 0 THEN subagentSets ELSE Without(subagentSets, k)
  BY DEF Freed
<1> HIDE DEF q
<1>4. /\ k = 0 => \A i \in DOMAIN q : q[i] # t
      /\ k # 0 => k \in DOMAIN q /\ q[k] = t
  BY <1>1, <1>2, FirstPlace
<1> HIDE DEF k
<1> QED BY <1>1, <1>2, <1>3, <1>4

\* Agent_getSetCache finds an entry of the transaction.
LEMMA TakenEntry ==
    ASSUME Typed, NEW t
    PROVE  /\ Taken(t) = 0 => \A i \in DOMAIN agentSets : agentSets[i].trans # t
           /\ Taken(t) # 0 => Taken(t) \in DOMAIN agentSets /\ agentSets[Taken(t)].trans = t
<1> DEFINE q == CachedTransactions
<1>1. Len(agentSets) \in Nat /\ DOMAIN agentSets = 1 .. Len(agentSets)
  BY LenProperties DEF Typed
<1>2. DOMAIN q = 1 .. Len(agentSets) /\ \A i \in DOMAIN q : q[i] = agentSets[i].trans
  BY <1>1 DEF CachedTransactions
<1>3. Taken(t) = First(q, t)
  BY DEF Taken
<1> HIDE DEF q
<1>4. /\ First(q, t) = 0 => \A i \in DOMAIN q : q[i] # t
      /\ First(q, t) # 0 => First(q, t) \in DOMAIN q /\ q[First(q, t)] = t
  BY <1>1, <1>2, FirstPlace
<1> QED BY <1>1, <1>2, <1>3, <1>4

-----------------------------------------------------------------------------
(* The steps of the master, by what they do to the SET.                    *)

To(command) == toSub' = Append(toSub, [command |-> command, trans |-> master.trans])
Becomes(d) == decision' = [decision EXCEPT ![master.trans] = d]
Awaits(a, b) == master.awaits = a /\ master'.awaits = b /\ master'.trans = master.trans

Starts == /\ master.awaits = "none" /\ master.trans + 1 \in Trans
          /\ master' = [trans |-> master.trans + 1, awaits |-> "TESTSET", retries |-> 0]
          /\ toSub' = Append(toSub, [command |-> "TESTSET", trans |-> master.trans + 1])
          /\ decision' = [decision EXCEPT ![master.trans + 1] = "open"]
Ignores == UNCHANGED <<master, decision, toSub>>
Resends == \E a \in {"TESTSET", "COMMITSET", "UNDOSET"} :
              Awaits(a, a) /\ To(a) /\ UNCHANGED decision
Commits == Awaits("TESTSET", "COMMITSET") /\ To("COMMITSET") /\ UNCHANGED decision
Frees   == Awaits("TESTSET", "none") /\ To("CLEANUPSET") /\ Becomes("free")
Ends    == Awaits("COMMITSET", "none") /\ To("CLEANUPSET") /\ Becomes("commit")
Undoes  == Awaits("COMMITSET", "UNDOSET") /\ To("UNDOSET") /\ Becomes("undo")
Undone  == Awaits("UNDOSET", "none") /\ UNCHANGED <<decision, toSub>>
Loses   == /\ UNCHANGED toSub /\ toMaster' = <<>>
           /\ master'.awaits = "none" /\ master'.trans = master.trans
           /\ \/ master.awaits = "none" /\ UNCHANGED decision
              \/ master.awaits = "TESTSET" /\ Becomes("free")
              \/ master.awaits \in {"COMMITSET", "UNDOSET"} /\ Becomes("undo")
Drains  == UNCHANGED <<master, decision, toMaster>> /\ toSub' = <<>>

\* Master_handler for the pass that follows an answer.
LEMMA NextPassMoves ==
    ASSUME Typed, NEW ok \in BOOLEAN, NEW elsewhere \in BOOLEAN, NextPass(ok, elsewhere)
    PROVE  (Commits /\ ok) \/ Frees \/ (Ends /\ ok) \/ Undoes \/ Undone
<1>1. CASE master.awaits = "TESTSET" /\ ok /\ elsewhere
  BY <1>1 DEF NextPass, SendPdu, Pdu, Commits, Awaits, To, Typed
<1>2. CASE master.awaits = "TESTSET" /\ ~(ok /\ elsewhere)
  BY <1>2 DEF NextPass, SendPdu, Pdu, Decide, Frees, Awaits, To, Becomes, Typed
<1>3. CASE master.awaits = "COMMITSET" /\ ok /\ elsewhere
  BY <1>3 DEF NextPass, SendPdu, Pdu, Decide, Ends, Awaits, To, Becomes, Typed
<1>4. CASE master.awaits = "COMMITSET" /\ ~(ok /\ elsewhere)
  BY <1>4 DEF NextPass, SendPdu, Pdu, Decide, Undoes, Awaits, To, Becomes, Typed
<1>5. CASE master.awaits = "UNDOSET"
  BY <1>5 DEF NextPass, Undone, Awaits, Typed
<1> QED BY <1>1, <1>2, <1>3, <1>4, <1>5 DEF NextPass

\* A step of the master begins a SET, ignores an answer, sends a PDU again, or
\* goes on with the SET; or the session is lost, and later its stream is.
LEMMA MasterMoves ==
    ASSUME Typed, StartSet \/ MasterReads \/ MasterTimeout \/ Disconnect \/ EndOfStream
    PROVE  \/ Starts /\ UNCHANGED <<toMaster, asi>>
           \/ UNCHANGED asi /\ toMaster # <<>> /\ toMaster' = Tail(toMaster) /\
              \/ Ignores
              \/ Expected(Head(toMaster)) /\
                    (((Commits \/ Ends) /\ Head(toMaster).ok) \/ Frees \/ Undoes \/ Undone)
           \/ UNCHANGED <<toMaster, asi>> /\ Resends
           \/ UNCHANGED asi /\ Loses
           \/ Drains /\ asi' = [c \in Cell |-> [asi[c] EXCEPT !.old = TRUE]]
<1>1. CASE StartSet
  <2>1. master.trans \in 0 .. NumTrans
    BY DEF Typed
  <2>2. master.trans + 1 \in Trans
    BY <1>1, <2>1, Numbers DEF StartSet
  <2> QED BY <1>1, <2>2 DEF StartSet, Starts, subVars
<1>2. CASE MasterReads
  <2>1. UNCHANGED asi /\ toMaster # <<>> /\ toMaster' = Tail(toMaster)
    BY <1>2 DEF MasterReads, subVars
  <2>2. Head(toMaster).ok \in BOOLEAN
    <3>1. toMaster \in Seq(Reply)
      BY DEF Typed
    <3>2. Head(toMaster) \in Reply
      BY <2>1, <3>1, Tailed
    <3> QED BY <3>2 DEF Reply
  <2>3. CASE Expected(Head(toMaster))
    <3>1. PICK elsewhere \in BOOLEAN : NextPass(Head(toMaster).ok, elsewhere)
      BY <1>2, <2>3 DEF MasterReads
    <3> QED BY <2>1, <2>2, <2>3, <3>1, NextPassMoves
  <2>4. CASE ~Expected(Head(toMaster))
    BY <1>2, <2>1, <2>4 DEF MasterReads, Ignores, masterVars
  <2> QED BY <2>3, <2>4
<1>3. ASSUME LoseSession, UNCHANGED toSub PROVE Loses
  <2>1. toMaster' = <<>> /\ master' = [master EXCEPT !.awaits = "none"]
    BY <1>3 DEF LoseSession
  <2>2. master'.awaits = "none" /\ master'.trans = master.trans
    BY <2>1 DEF Typed
  <2>3. \/ master.awaits = "none" /\ UNCHANGED decision
        \/ master.awaits = "TESTSET" /\ Becomes("free")
        \/ master.awaits \in {"COMMITSET", "UNDOSET"} /\ Becomes("undo")
    BY <1>3 DEF LoseSession, Decide, Becomes, Typed
  <2> QED BY <1>3, <2>1, <2>2, <2>3 DEF Loses
<1>4. CASE MasterTimeout
  <2>1. UNCHANGED asi
    BY <1>4 DEF MasterTimeout, subVars
  <2>2. CASE Resend
    BY <1>4, <2>1, <2>2 DEF MasterTimeout, Resend, Resends, Awaits, To, Pdu, Typed
  <2>3. CASE GiveUp
    BY <1>3, <2>1, <2>3 DEF GiveUp
  <2> QED BY <1>4, <2>2, <2>3 DEF MasterTimeout
<1>5. CASE Disconnect
  BY <1>3, <1>5 DEF Disconnect, subVars
<1>6. CASE EndOfStream
  BY <1>6 DEF EndOfStream, masterVars, Drains
<1> QED BY <1>1, <1>2, <1>4, <1>5, <1>6

-----------------------------------------------------------------------------
(* The steps of the subagent and of its agent, by what they do.            *)

QueuedPass(pass, m, c) == [pass |-> pass, trans |-> m.trans, command |-> m.command, cell |-> c]

\* Subagent_handleAgentxPacket: a new cell, a pass for the newest one, or none.
Tests(m, c) ==
    /\ m.command = "TESTSET" /\ c \in Cell /\ c \notin Members(subagentSets)
    /\ asi' = [asi EXCEPT ![c] = [trans |-> m.trans, mode |-> "RESERVE1", old |-> FALSE]]
    /\ subagentSets' = <<c>> \o subagentSets
    /\ internal' = Append(internal, QueuedPass("RESERVE1", m, c))
    /\ UNCHANGED toMaster

Goes(m, c, pass) ==
    /\ m.command # "TESTSET" /\ c = Restored(m.trans) /\ c \in Cell /\ Newest(c, m.trans)
    /\ pass = PassOf(m.command, asi[c].mode) /\ pass \in {"FREE", "ACTION", "COMMIT", "UNDO"}
    /\ asi' = [asi EXCEPT ![c].mode = pass]
    /\ internal' = Append(internal, QueuedPass(pass, m, c))
    /\ UNCHANGED <<toMaster, subagentSets>>

Fails(m) ==
    /\ m.command # "TESTSET"
    /\ UNCHANGED <<asi, subagentSets, internal>>
    /\ \/ UNCHANGED toMaster
       \/ toMaster' = Append(toMaster, [command |-> m.command, trans |-> m.trans, ok |-> FALSE])

LEMMA PassOfLater ==
    ASSUME NEW command \in Commands, NEW mode \in Mode, command # "TESTSET",
           PassOf(command, mode) # "none"
    PROVE  /\ PassOf(command, mode) \in {"FREE", "ACTION", "COMMIT", "UNDO"}
           /\ PassOf(command, mode) = "ACTION" => command = "COMMITSET" /\ mode = "RESERVE2"
           /\ PassOf(command, mode) = "FREE" => command = "CLEANUPSET" /\ mode \in Reserving
           /\ PassOf(command, mode) = "COMMIT" => command = "CLEANUPSET" /\ mode = "ACTION"
           /\ PassOf(command, mode) = "UNDO" => command = "UNDOSET"
<1>1. CASE command = "COMMITSET"
  BY <1>1 DEF PassOf
<1>2. CASE command = "CLEANUPSET"
  BY <1>2 DEF PassOf
<1>3. CASE command = "UNDOSET"
  BY <1>3 DEF PassOf
<1> QED BY <1>1, <1>2, <1>3 DEF Commands

LEMMA SubagentReadsMoves ==
    ASSUME Typed, SubagentReads
    PROVE  /\ toSub # <<>> /\ toSub' = Tail(toSub)
           /\ \/ \E c \in Cell : Tests(Head(toSub), c)
              \/ \E c \in Cell, pass \in Passes : Goes(Head(toSub), c, pass)
              \/ Fails(Head(toSub))
<1> DEFINE m == Head(toSub)
<1>1. toSub # <<>> /\ toSub' = Tail(toSub) /\ (TestSet(m) \/ LaterSet(m))
  BY DEF SubagentReads
<1>2. m \in Request
  BY <1>1, Tailed DEF Typed
<1> HIDE DEF m
<1>3. CASE TestSet(m)
  <2>1. PICK c \in Allocated : /\ asi' = [asi EXCEPT ![c] = [trans |-> m.trans,
                                              mode |-> "RESERVE1", old |-> FALSE]]
                               /\ subagentSets' = <<c>> \o subagentSets
                               /\ Submit("RESERVE1", m, c)
    BY <1>3 DEF TestSet
  <2>2. c \in Cell /\ c \notin Members(subagentSets)
    BY DEF Allocated
  <2>3. Tests(m, c)
    BY <1>3, <2>1, <2>2 DEF Tests, TestSet, Submit, QueuedPass
  <2> QED BY <1>1, <2>2, <2>3 DEF m
<1>4. CASE LaterSet(m)
  <2> DEFINE c == Restored(m.trans)
             pass == IF c = 0 THEN "none" ELSE PassOf(m.command, asi[c].mode)
  <2>1. m.command \in Commands /\ m.command # "TESTSET"
    BY <1>2, <1>4 DEF Request, LaterSet
  <2>2. CASE pass # "none"
    <3>1. c \in Cell /\ Newest(c, m.trans) /\ asi[c].mode \in Mode /\ c # 0
      BY <2>2, RestoredCell, Numbers DEF Typed, CellType
    <3>2. pass = PassOf(m.command, asi[c].mode)
      BY <3>1
    <3>3. pass \in {"FREE", "ACTION", "COMMIT", "UNDO"}
      BY <2>1, <2>2, <3>1, <3>2, PassOfLater
    <3>4. /\ asi' = [asi EXCEPT ![c].mode = pass] /\ Submit(pass, m, c)
          /\ UNCHANGED <<toMaster, subagentSets>>
      BY <1>4, <2>2 DEF LaterSet
    <3> HIDE DEF pass
    <3>5. Goes(m, c, pass)
      BY <2>1, <3>1, <3>2, <3>3, <3>4 DEF Goes, Submit, QueuedPass
    <3>6. pass \in Passes
      BY <3>3 DEF Passes, Last
    <3> QED BY <1>1, <3>1, <3>5, <3>6 DEF m
  <2>3. CASE pass = "none"
    <3>1. Fails(m)
      BY <1>4, <2>3 DEF Fails, LaterSet, Answer
    <3> QED BY <1>1, <3>1 DEF m
  <2> QED BY <2>2, <2>3
<1> QED BY <1>1, <1>3, <1>4

\* Subagent_handleSubagentSetResponse: the second reservation, or the answer.
ReservesAgain(r) ==
    /\ asi[r.cell].mode = "RESERVE1" /\ r.ok
    /\ asi' = [asi EXCEPT ![r.cell].mode = "RESERVE2"]
    /\ internal' = Append(internal, QueuedPass("RESERVE2", r, r.cell))
    /\ UNCHANGED <<toMaster, subagentSets, link>>

Answers(r) ==
    /\ ~(asi[r.cell].mode = "RESERVE1" /\ r.ok)
    /\ subagentSets' = IF asi[r.cell].mode \in Last THEN Freed(r.trans) ELSE subagentSets
    /\ \/ UNCHANGED toMaster /\ (link # "up" \/ asi[r.cell].old)
       \/ toMaster' = Append(toMaster, [command |-> r.command, trans |-> r.trans, ok |-> r.ok])
    /\ UNCHANGED <<asi, internal, link>>

LEMMA ResponseMoves ==
    ASSUME HandleSetResponse
    PROVE  /\ replies # <<>> /\ replies' = Tail(replies)
           /\ \/ ReservesAgain(Head(replies))
              \/ Answers(Head(replies))
              \/ Dangling(Head(replies)) /\ Crash
<1> DEFINE r == Head(replies)
<1>1. CASE Dangling(r) /\ Crash
  BY <1>1 DEF HandleSetResponse
<1>2. CASE ReadAnswer(r, asi[r.cell].mode)
  <2>1. replies # <<>> /\ replies' = Tail(replies)
    BY DEF HandleSetResponse
  <2>2. CASE ReservesNext(asi[r.cell].mode, r.ok)
    <3>1. ReservesAgain(r)
      BY <1>2, <2>2 DEF ReadAnswer, ReservesNext, Submit, ReservesAgain, QueuedPass
    <3> QED BY <2>1, <3>1
  <2>3. CASE ~ReservesNext(asi[r.cell].mode, r.ok)
    <3>1. Answers(r)
      BY <1>2, <2>3 DEF ReadAnswer, ReservesNext, Answer, Answers
    <3> QED BY <2>1, <3>1
  <2> QED BY <2>2, <2>3
<1> QED BY <1>1, <1>2 DEF HandleSetResponse

\* The requests of a pass: new ones, or those the cache had, which leave it.
Begins(q) == [pass |-> q.pass, trans |-> q.trans, command |-> q.command, cell |-> q.cell,
              entry |-> Void, ok |-> TRUE]

Takes(p, e, cache) ==
    \/ p.pass = "RESERVE1" /\ held[e].pass = "none" /\ cache = agentSets
    \/ /\ p.pass # "RESERVE1"
       /\ \E i \in DOMAIN agentSets : /\ agentSets[i].trans = p.trans /\ agentSets[i].entry = e
                                      /\ cache = Without(agentSets, i)

LEMMA InternalMoves ==
    ASSUME Typed, InternalSet
    PROVE  /\ internal # <<>> /\ internal' = Tail(internal)
           /\ LET p == Begins(Head(internal))
              IN \/ \E e \in Entry, cache \in Seq(Kept) :
                       Takes(p, e, cache) /\ CallHandlers(p, e, cache) /\ UNCHANGED link
                 \/ /\ p.pass # "RESERVE1"
                    /\ \A i \in DOMAIN agentSets : agentSets[i].trans # p.trans
                    /\ agentSets' = Saved(agentSets, p, Void) /\ WrapUp(p, FALSE)
                    /\ UNCHANGED <<running, held, link>>
                 \/ /\ \E i \in DOMAIN agentSets : agentSets[i].trans = p.trans
                                                   /\ agentSets[i].entry = Void
                    /\ link' = "crashed" /\ UNCHANGED <<agentVars, replies>>
<1> DEFINE p == Begins(Head(internal))
           i == Taken(p.trans)
<1>1. internal # <<>> /\ internal' = Tail(internal)
  BY DEF InternalSet
<1>2. /\ i = 0 => \A j \in DOMAIN agentSets : agentSets[j].trans # p.trans
      /\ i # 0 => i \in DOMAIN agentSets /\ agentSets[i].trans = p.trans
  BY TakenEntry
<1>3. agentSets \in Seq(Kept)
  BY DEF Typed
<1>4. \/ /\ p.pass = "RESERVE1" /\ UNCHANGED link
         /\ \E e \in Unseen : CallHandlers(p, e, agentSets)
      \/ /\ p.pass # "RESERVE1" /\ i = 0
         /\ agentSets' = Saved(agentSets, p, Void) /\ WrapUp(p, FALSE)
         /\ UNCHANGED <<running, held, link>>
      \/ /\ p.pass # "RESERVE1" /\ i # 0 /\ agentSets[i].entry = Void
         /\ link' = "crashed" /\ UNCHANGED <<agentVars, replies>>
      \/ /\ p.pass # "RESERVE1" /\ i # 0 /\ agentSets[i].entry # Void
         /\ CallHandlers(p, agentSets[i].entry, Rest(i)) /\ UNCHANGED link
  BY DEF InternalSet, Begins
<1> HIDE DEF p, i
<1>5. CASE /\ p.pass = "RESERVE1" /\ UNCHANGED link
           /\ \E e \in Unseen : CallHandlers(p, e, agentSets)
  <2>1. PICK e \in Entry : held[e].pass = "none" /\ CallHandlers(p, e, agentSets)
    BY <1>5 DEF Unseen
  <2>2. Takes(p, e, agentSets)
    BY <1>5, <2>1 DEF Takes
  <2> QED BY <1>1, <1>3, <1>5, <2>1, <2>2 DEF p
<1>6. CASE /\ p.pass # "RESERVE1" /\ i # 0 /\ agentSets[i].entry # Void
           /\ CallHandlers(p, agentSets[i].entry, Rest(i)) /\ UNCHANGED link
  <2>1. i \in DOMAIN agentSets /\ agentSets[i].trans = p.trans
    BY <1>2, <1>6
  <2>2. Rest(i) \in Seq(Kept) /\ Rest(i) = Without(agentSets, i)
    BY <1>3, <2>1, Removed DEF Rest
  <2>3. agentSets[i] \in Kept
    BY <1>3, <2>1, LenProperties, ElementOfSeq
  <2>4. agentSets[i].entry \in Entry
    BY <1>6, <2>3 DEF Kept
  <2>5. Takes(p, agentSets[i].entry, Rest(i))
    BY <1>6, <2>1, <2>2 DEF Takes
  <2> QED BY <1>1, <1>6, <2>2, <2>4, <2>5 DEF p
<1> QED BY <1>1, <1>2, <1>4, <1>5, <1>6 DEF p

-----------------------------------------------------------------------------
(* Types.                                                                  *)

LEMMA MasterTyped ==
    ASSUME SetsInv, StartSet \/ MasterReads \/ MasterTimeout \/ Disconnect \/ EndOfStream
    PROVE  Typed'
<1>0. Typed /\ (master.awaits # "none" => master.trans \in Trans)
  BY DEF SetsInv, Decided
<1> DEFINE M == [trans : 0 .. NumTrans, retries : 0 .. MaxRetries,
                 awaits : {"none", "TESTSET", "COMMITSET", "UNDOSET"}]
<1>1. master' \in M /\ sessRetries' \in 0 .. MaxRetries
  <2>1. sessRetries' = sessRetries /\ sessRetries \in 0 .. MaxRetries /\ master \in M
    BY <1>0 DEF StartSet, MasterReads, MasterTimeout, Disconnect, EndOfStream,
       faultVars, Typed
  <2>2. ASSUME StartSet PROVE master' \in M
    <3>1. master.trans + 1 \in 0 .. NumTrans
      BY <2>1, <2>2, Numbers DEF StartSet
    <3> QED BY <2>2, <3>1, Numbers DEF StartSet
  <2>3. ASSUME NEW command \in {"COMMITSET", "CLEANUPSET", "UNDOSET"}, SendPdu(command)
        PROVE  master' \in M
    <3> DEFINE a == IF command = "CLEANUPSET" THEN "none" ELSE command
    <3>1. a \in {"none", "TESTSET", "COMMITSET", "UNDOSET"} /\ 0 \in 0 .. MaxRetries
      BY Numbers
    <3>2. master' = [master EXCEPT !.retries = 0, !.awaits = a]
      BY <2>3 DEF SendPdu
    <3> HIDE DEF a
    <3> QED BY <2>1, <3>1, <3>2
  <2>4. ASSUME NEW ok, NEW elsewhere, NextPass(ok, elsewhere)
        PROVE  master' \in M
    <3>1. \/ \E command \in {"COMMITSET", "CLEANUPSET", "UNDOSET"} : SendPdu(command)
          \/ master' = [master EXCEPT !.awaits = "none"]
      BY <2>4 DEF NextPass
    <3>2. [master EXCEPT !.awaits = "none"] \in M
      BY <2>1
    <3> HIDE DEF M
    <3> QED BY <2>3, <3>1, <3>2
  <2>5. ASSUME MasterReads PROVE master' \in M
    <3>1. \/ \E elsewhere \in BOOLEAN : NextPass(Head(toMaster).ok, elsewhere)
          \/ master' = master
      BY <2>5 DEF MasterReads, masterVars
    <3> HIDE DEF M
    <3> QED BY <2>1, <2>4, <3>1
  <2>6. ASSUME LoseSession PROVE master' \in M
    BY <2>1, <2>6 DEF LoseSession
  <2>7. ASSUME MasterTimeout PROVE master' \in M
    <3>1. CASE Resend
      <4>1. master.retries + 1 \in 0 .. MaxRetries
        BY <2>1, <3>1, Numbers DEF Resend
      <4> QED BY <2>1, <3>1, <4>1 DEF Resend
    <3> HIDE DEF M
    <3> QED BY <2>6, <2>7, <3>1 DEF MasterTimeout, GiveUp
  <2>8. Disconnect => LoseSession
    BY DEF Disconnect
  <2>9. EndOfStream => master' = master
    BY DEF EndOfStream, masterVars
  <2> HIDE DEF M
  <2> QED BY <2>1, <2>2, <2>5, <2>6, <2>7, <2>8, <2>9
<1>2. decision' \in [Trans -> {"none", "open", "free", "commit", "undo"}]
  BY <1>0, MasterMoves DEF Typed, Starts, Ignores, Resends, Commits, Frees, Ends, Undoes,
     Undone, Loses, Drains, Becomes
<1>3. toSub' \in Seq(Request)
  <2>1. toSub \in Seq(Request) /\ <<>> \in Seq(Request)
    BY <1>0, EmptySeq DEF Typed
  <2>2. \A x \in Request : Append(toSub, x) \in Seq(Request)
    BY <2>1, AppendProperties
  <2>3. ASSUME Starts PROVE toSub' \in Seq(Request)
    BY <2>2, <2>3 DEF Starts, Request, Commands
  <2>4. ASSUME NEW command \in Commands, To(command), master.awaits # "none"
        PROVE  toSub' \in Seq(Request)
    BY <1>0, <2>2, <2>4 DEF To, Request
  <2> QED BY <1>0, <2>1, <2>3, <2>4, MasterMoves
      DEF Ignores, Resends, Commits, Frees, Ends, Undoes, Undone, Loses, Drains, Awaits,
          Commands
<1>4. toMaster' \in Seq(Reply)
  <2>1. toMaster \in Seq(Reply) /\ <<>> \in Seq(Reply)
    BY <1>0, EmptySeq DEF Typed
  <2>2. toMaster # <<>> => Tail(toMaster) \in Seq(Reply)
    BY <2>1, Tailed
  <2> QED BY <1>0, <2>1, <2>2, MasterMoves DEF Loses, Drains
<1>5. asi' \in [Cell -> CellType]
  <2>1. asi \in [Cell -> CellType]
    BY <1>0 DEF Typed
  <2>2. [c \in Cell |-> [asi[c] EXCEPT !.old = TRUE]] \in [Cell -> CellType]
    BY <2>1 DEF CellType
  <2> QED BY <1>0, <2>1, <2>2, MasterMoves
<1>6. /\ UNCHANGED <<subagentSets, internal, running, replies, agentSets, held>>
      /\ link' \in {"up", "cut", "down", "gone", "crashed"} /\ troubled' \in BOOLEAN
  <2>1. LoseSession => link' \in {"cut", "gone"}
    BY DEF LoseSession
  <2> QED BY <1>0, <2>1 DEF StartSet, MasterReads, MasterTimeout, Resend, GiveUp, Disconnect,
         EndOfStream, subVars, agentVars, faultVars, Typed
<1> QED BY <1>0, <1>1, <1>2, <1>3, <1>4, <1>5, <1>6 DEF Typed

LEMMA QueuedTyped ==
    ASSUME NEW pass \in Passes, NEW m, m.trans \in Trans, m.command \in Commands, NEW c \in Cell
    PROVE  QueuedPass(pass, m, c) \in Queued
BY DEF QueuedPass, Queued

LEMMA SubagentReadsTyped ==
    ASSUME Typed, SubagentReads
    PROVE  Typed'
<1> DEFINE m == Head(toSub)
<1>1. /\ toSub # <<>> /\ toSub' = Tail(toSub)
      /\ \/ \E c \in Cell : Tests(m, c)
         \/ \E c \in Cell, pass \in Passes : Goes(m, c, pass)
         \/ Fails(m)
  BY SubagentReadsMoves
<1>2. toSub \in Seq(Request) /\ m \in Request /\ toSub' \in Seq(Request)
  BY <1>1, Tailed DEF Typed
<1>3. m.trans \in Trans /\ m.command \in Commands
  BY <1>2 DEF Request
<1>4. /\ asi \in [Cell -> CellType] /\ subagentSets \in Seq(Cell) /\ internal \in Seq(Queued)
      /\ toMaster \in Seq(Reply)
  BY DEF Typed
<1> HIDE DEF m
<1>5. asi' \in [Cell -> CellType] /\ subagentSets' \in Seq(Cell) /\ internal' \in Seq(Queued)
      /\ toMaster' \in Seq(Reply)
  <2>1. ASSUME NEW c \in Cell, Tests(m, c)
        PROVE  asi' \in [Cell -> CellType] /\ subagentSets' \in Seq(Cell)
               /\ internal' \in Seq(Queued) /\ toMaster' \in Seq(Reply)
    <3>1. [trans |-> m.trans, mode |-> "RESERVE1", old |-> FALSE] \in CellType
      BY <1>3, Numbers DEF CellType, Mode, Passes, Reserving
    <3>2. "RESERVE1" \in Passes
      BY DEF Passes, Reserving
    <3>3. QueuedPass("RESERVE1", m, c) \in Queued
      BY <1>3, <3>2, QueuedTyped
    <3> QED BY <1>4, <2>1, <3>1, <3>3, Prepended, Appended DEF Tests
  <2>2. ASSUME NEW c \in Cell, NEW pass \in Passes, Goes(m, c, pass)
        PROVE  asi' \in [Cell -> CellType] /\ subagentSets' \in Seq(Cell)
               /\ internal' \in Seq(Queued) /\ toMaster' \in Seq(Reply)
    <3>1. QueuedPass(pass, m, c) \in Queued
      BY <1>3, QueuedTyped
    <3>2. [asi EXCEPT ![c].mode = pass] \in [Cell -> CellType]
      BY <1>4 DEF CellType, Mode
    <3> QED BY <1>4, <2>2, <3>1, <3>2, Appended DEF Goes
  <2>3. ASSUME Fails(m)
        PROVE  asi' \in [Cell -> CellType] /\ subagentSets' \in Seq(Cell)
               /\ internal' \in Seq(Queued) /\ toMaster' \in Seq(Reply)
    <3>1. [command |-> m.command, trans |-> m.trans, ok |-> FALSE] \in Reply
      BY <1>3 DEF Reply
    <3>2. \A x \in Reply : Append(toMaster, x) \in Seq(Reply)
      BY <1>4, Appended
    <3>3. toMaster' \in Seq(Reply)
      BY <1>4, <2>3, <3>1, <3>2 DEF Fails
    <3> QED BY <1>4, <2>3, <3>3 DEF Fails
  <2> QED BY <1>1, <2>1, <2>2, <2>3
<1> QED BY <1>2, <1>5 DEF SubagentReads, masterVars, agentVars, faultVars, Typed

LEMMA ResponseTyped ==
    ASSUME Typed, HandleSetResponse
    PROVE  Typed'
<1> DEFINE r == Head(replies)
<1>1. /\ replies # <<>> /\ replies' = Tail(replies)
      /\ ReservesAgain(r) \/ Answers(r) \/ (Dangling(r) /\ Crash)
  BY ResponseMoves
<1>2. r \in Begun /\ replies' \in Seq(Begun)
  BY <1>1, Tailed DEF Typed
<1>3. r.trans \in Trans /\ r.command \in Commands /\ r.cell \in Cell /\ r.ok \in BOOLEAN
  BY <1>2 DEF Begun
<1>4. /\ asi \in [Cell -> CellType] /\ subagentSets \in Seq(Cell) /\ internal \in Seq(Queued)
      /\ toMaster \in Seq(Reply) /\ link \in {"up", "cut", "down", "gone", "crashed"}
  BY DEF Typed
<1> HIDE DEF r
<1>5. /\ asi' \in [Cell -> CellType] /\ subagentSets' \in Seq(Cell) /\ internal' \in Seq(Queued)
      /\ toMaster' \in Seq(Reply) /\ link' \in {"up", "cut", "down", "gone", "crashed"}
  <2>1. CASE ReservesAgain(r)
    <3>1. "RESERVE2" \in Passes
      BY DEF Passes, Reserving
    <3>2. QueuedPass("RESERVE2", r, r.cell) \in Queued
      BY <1>3, <3>1, QueuedTyped
    <3>3. [asi EXCEPT ![r.cell].mode = "RESERVE2"] \in [Cell -> CellType]
      BY <1>4, <3>1 DEF CellType, Mode
    <3> QED BY <1>4, <2>1, <3>2, <3>3, Appended DEF ReservesAgain
  <2>2. CASE Answers(r)
    <3>1. [command |-> r.command, trans |-> r.trans, ok |-> r.ok] \in Reply
      BY <1>3 DEF Reply
    <3>2. Freed(r.trans) \in Seq(Cell)
      <4>1. \A k \in DOMAIN subagentSets : Without(subagentSets, k) \in Seq(Cell)
        BY <1>4, Removed
      <4> QED BY <1>4, <4>1, FreedList
    <3>3. \A x \in Reply : Append(toMaster, x) \in Seq(Reply)
      BY <1>4, Appended
    <3>4. toMaster' \in Seq(Reply)
      BY <1>4, <2>2, <3>1, <3>3 DEF Answers
    <3> QED BY <1>4, <2>2, <3>2, <3>4 DEF Answers
  <2>3. CASE Crash
    BY <1>4, <2>3 DEF Crash, subVars
  <2> QED BY <1>1, <2>1, <2>2, <2>3
<1> QED BY <1>2, <1>5 DEF HandleSetResponse, masterVars, agentVars, faultVars, Typed

\* A pass that is running or has ended, as Agent_wrapUpRequest sees it.
LEMMA BegunTyped ==
    ASSUME NEW q \in Queued
    PROVE  /\ Begins(q) \in Begun
           /\ Begins(q).pass = q.pass /\ Begins(q).trans = q.trans
           /\ Begins(q).command = q.command /\ Begins(q).cell = q.cell
           /\ Begins(q).entry = Void /\ Begins(q).ok
BY DEF Begins, Queued, Begun

LEMMA SavedTyped ==
    ASSUME NEW cache \in Seq(Kept), NEW p \in Begun, NEW e \in Entry \cup {Void}
    PROVE  /\ Saved(cache, p, e) \in Seq(Kept)
           /\ p.pass \in Last => Saved(cache, p, e) = cache
           /\ p.pass \notin Last =>
                 Saved(cache, p, e) = <<[trans |-> p.trans, entry |-> e]>> \o cache
<1>1. [trans |-> p.trans, entry |-> e] \in Kept
  BY DEF Begun, Kept
<1> QED BY <1>1, Prepended DEF Saved

LEMMA PassTyped ==
    ASSUME Typed, NEW p \in Begun, NEW e, NEW status \in {"ok", "error", "running"},
           Pass(p, e, status)
    PROVE  held' \in [Entry -> HeldType]
<1>1. [trans |-> p.trans, pass |-> p.pass, status |-> status] \in HeldType
  BY Numbers DEF Begun, HeldType, Mode
<1>2. held \in [Entry -> HeldType]
  BY DEF Typed
<1> QED BY <1>1, <1>2 DEF Pass

LEMMA HandlersTyped ==
    ASSUME Typed, NEW p \in Begun, NEW e \in Entry, NEW cache \in Seq(Kept),
           CallHandlers(p, e, cache)
    PROVE  /\ agentSets' \in Seq(Kept) /\ running' \in SUBSET Begun
           /\ replies' \in Seq(Begun) /\ held' \in [Entry -> HeldType]
<1>1. /\ agentSets \in Seq(Kept) /\ running \in SUBSET Begun
      /\ replies \in Seq(Begun) /\ held \in [Entry -> HeldType]
  BY DEF Typed
<1>2. \A status \in {"ok", "error", "running"} : Pass(p, e, status) => held' \in [Entry -> HeldType]
  BY PassTyped
<1>3. \A ok \in BOOLEAN : [p EXCEPT !.ok = ok] \in Begun
  BY DEF Begun
<1>4. [p EXCEPT !.entry = e] \in Begun
  BY DEF Begun
<1>5. ASSUME NEW ok \in Outcomes(p.pass), Pass(p, e, IF ok THEN "ok" ELSE "error"),
             agentSets' = Saved(cache, p, e), WrapUp(p, ok), UNCHANGED running
      PROVE  /\ agentSets' \in Seq(Kept) /\ running' \in SUBSET Begun
             /\ replies' \in Seq(Begun) /\ held' \in [Entry -> HeldType]
  <2>1. ok \in BOOLEAN
    BY DEF Outcomes
  <2>2. replies' \in Seq(Begun)
    BY <1>1, <1>3, <1>5, <2>1, Appended DEF WrapUp
  <2>3. held' \in [Entry -> HeldType]
    BY <1>2, <1>5
  <2>4. agentSets' \in Seq(Kept)
    BY <1>5, SavedTyped
  <2> QED BY <1>1, <1>5, <2>2, <2>3, <2>4
<1>6. ASSUME Pass(p, e, "running"), running' = running \cup {[p EXCEPT !.entry = e]},
             agentSets' = cache, UNCHANGED replies
      PROVE  /\ agentSets' \in Seq(Kept) /\ running' \in SUBSET Begun
             /\ replies' \in Seq(Begun) /\ held' \in [Entry -> HeldType]
  BY <1>1, <1>2, <1>4, <1>6
<1> QED BY <1>5, <1>6 DEF CallHandlers

LEMMA InternalTyped ==
    ASSUME Typed, InternalSet
    PROVE  Typed'
<1> DEFINE q == Head(internal)
<1>1. internal # <<>> /\ internal' = Tail(internal)
  BY InternalMoves
<1>2. q \in Queued /\ internal' \in Seq(Queued)
  BY <1>1, Tailed DEF Typed
<1> DEFINE p == Begins(q)
<1>3. \/ \E e \in Entry, cache \in Seq(Kept) : CallHandlers(p, e, cache) /\ UNCHANGED link
      \/ /\ agentSets' = Saved(agentSets, p, Void) /\ WrapUp(p, FALSE)
         /\ UNCHANGED <<running, held, link>>
      \/ link' = "crashed" /\ UNCHANGED <<agentVars, replies>>
  BY InternalMoves
<1>4. p \in Begun
  BY <1>2, BegunTyped
<1> HIDE DEF q, p
<1>5. /\ agentSets \in Seq(Kept) /\ running \in SUBSET Begun
      /\ replies \in Seq(Begun) /\ held \in [Entry -> HeldType]
      /\ link \in {"up", "cut", "down", "gone", "crashed"}
  BY DEF Typed
<1>6. /\ agentSets' \in Seq(Kept) /\ running' \in SUBSET Begun
      /\ replies' \in Seq(Begun) /\ held' \in [Entry -> HeldType]
      /\ link' \in {"up", "cut", "down", "gone", "crashed"}
  <2>1. CASE \E e \in Entry, cache \in Seq(Kept) : CallHandlers(p, e, cache) /\ UNCHANGED link
    BY <1>4, <1>5, <2>1, HandlersTyped
  <2>2. CASE /\ agentSets' = Saved(agentSets, p, Void) /\ WrapUp(p, FALSE)
             /\ UNCHANGED <<running, held, link>>
    <3>1. [p EXCEPT !.ok = FALSE] \in Begun
      BY <1>4 DEF Begun
    <3>2. replies' \in Seq(Begun)
      BY <1>5, <2>2, <3>1, Appended DEF WrapUp
    <3>3. agentSets' \in Seq(Kept)
      BY <1>4, <1>5, <2>2, SavedTyped
    <3> QED BY <1>5, <2>2, <3>2, <3>3
  <2>3. CASE link' = "crashed" /\ UNCHANGED <<agentVars, replies>>
    BY <1>5, <2>3 DEF agentVars
  <2> QED BY <1>3, <2>1, <2>2, <2>3
<1>7. UNCHANGED <<masterVars, toSub, toMaster, subVars, faultVars>>
  BY DEF InternalSet
<1> QED BY <1>2, <1>6, <1>7 DEF masterVars, subVars, faultVars, Typed

\* What the end of a delegated pass does.
Finishes(p, ok) ==
    /\ p \in running /\ ok \in Outcomes(p.pass) /\ ok \in BOOLEAN
    /\ running' = running \ {p}
    /\ Pass(p, p.entry, IF ok THEN "ok" ELSE "error")
    /\ agentSets' = Saved(agentSets, p, p.entry)
    /\ replies' = Append(replies, [p EXCEPT !.entry = Void, !.ok = ok])

LEMMA FinishMoves ==
    ASSUME Typed, FinishPass
    PROVE  \E p \in Begun, ok \in BOOLEAN : Finishes(p, ok)
<1>1. PICK p \in running, ok \in BOOLEAN :
          /\ ok \in Outcomes(p.pass)
          /\ running' = running \ {p}
          /\ Pass(p, p.entry, IF ok THEN "ok" ELSE "error")
          /\ agentSets' = Saved(agentSets, p, p.entry)
          /\ WrapUp([p EXCEPT !.entry = Void], ok)
  BY DEF FinishPass
<1>2. p \in Begun
  BY DEF Typed
<1>3. [[p EXCEPT !.entry = Void] EXCEPT !.ok = ok] = [p EXCEPT !.entry = Void, !.ok = ok]
  BY <1>2 DEF Begun
<1> QED BY <1>1, <1>2, <1>3 DEF Finishes, WrapUp

LEMMA FinishTyped ==
    ASSUME SetsInv, FinishPass
    PROVE  Typed'
<1>1. PICK p \in Begun, ok \in BOOLEAN : Finishes(p, ok)
  BY FinishMoves DEF SetsInv
<1>2. p.entry \in Entry
  BY <1>1 DEF SetsInv, Cached, Finishes
<1>3. /\ agentSets \in Seq(Kept) /\ running \in SUBSET Begun
      /\ replies \in Seq(Begun) /\ held \in [Entry -> HeldType]
  BY DEF SetsInv, Typed
<1>4. [p EXCEPT !.entry = Void, !.ok = ok] \in Begun
  BY DEF Begun
<1>5. replies' \in Seq(Begun)
  BY <1>1, <1>3, <1>4, Appended DEF Finishes
<1>6. agentSets' \in Seq(Kept)
  BY <1>1, <1>2, <1>3, SavedTyped DEF Finishes
<1>7. held' \in [Entry -> HeldType] /\ running' \in SUBSET Begun
  <2>1. \A status \in {"ok", "error", "running"} :
            Pass(p, p.entry, status) => held' \in [Entry -> HeldType]
    BY PassTyped DEF SetsInv
  <2> QED BY <1>1, <1>3, <2>1 DEF Finishes
<1>8. UNCHANGED <<masterVars, toSub, toMaster, subVars, internal, link, faultVars>>
  BY DEF FinishPass
<1> QED BY <1>5, <1>6, <1>7, <1>8 DEF masterVars, subVars, faultVars, SetsInv, Typed

LEMMA SetsTypedStep ==
    ASSUME SetsInv, [Next]_setVars
    PROVE  Typed'
<1>1. Typed
  BY DEF SetsInv
<1>2. CASE UNCHANGED setVars
  BY <1>1, <1>2 DEF setVars, masterVars, subVars, agentVars, faultVars, Typed
<1>3. CASE Reconnect
  BY <1>1, <1>3 DEF Reconnect, masterVars, subVars, agentVars, faultVars, Typed
<1> QED BY <1>1, <1>2, <1>3, MasterTyped, SubagentReadsTyped, ResponseTyped, InternalTyped,
           FinishTyped DEF Next

-----------------------------------------------------------------------------
(* The lists.                                                              *)

LEMMA ListedStep ==
    ASSUME SetsInv, [Next]_setVars
    PROVE  Listed'
<1>1. Typed /\ Listed
  BY DEF SetsInv
<1>2. subagentSets \in Seq(Cell)
  BY <1>1 DEF Typed
<1>3. ASSUME UNCHANGED subagentSets PROVE Listed'
  BY <1>1, <1>3 DEF Listed
<1>4. ASSUME NEW m, NEW c \in Cell, Tests(m, c) PROVE Listed'
  <2>1. subagentSets' = <<c>> \o subagentSets /\ \A i \in DOMAIN subagentSets : subagentSets[i] # c
    BY <1>4 DEF Tests, Members
  <2>2. /\ Len(subagentSets) \in Nat /\ DOMAIN subagentSets = 1 .. Len(subagentSets)
        /\ DOMAIN subagentSets' = 1 .. Len(subagentSets) + 1 /\ subagentSets'[1] = c
        /\ \A i \in 1 .. Len(subagentSets) : subagentSets'[i + 1] = subagentSets[i]
    BY <1>2, <2>1, Prepended
  <2>3. \A i \in DOMAIN subagentSets' : i # 1 => /\ i - 1 \in DOMAIN subagentSets
                                                 /\ subagentSets'[i] = subagentSets[i - 1]
    <3> SUFFICES ASSUME NEW i \in DOMAIN subagentSets', i # 1
                 PROVE  /\ i - 1 \in 1 .. Len(subagentSets)
                        /\ subagentSets'[i] = subagentSets[i - 1]
      BY <2>2
    <3>1. i - 1 \in 1 .. Len(subagentSets) /\ (i - 1) + 1 = i
      BY <2>2
    <3> QED BY <2>2, <3>1
  <2> QED BY <1>1, <2>1, <2>2, <2>3 DEF Listed
<1>5. ASSUME NEW k \in DOMAIN subagentSets, subagentSets' = Without(subagentSets, k)
      PROVE  Listed'
  <2>1. /\ Len(subagentSets) \in Nat /\ DOMAIN subagentSets = 1 .. Len(subagentSets)
        /\ DOMAIN subagentSets' = 1 .. Len(subagentSets) - 1
        /\ \A i \in 1 .. Len(subagentSets) - 1 : /\ i < k => subagentSets'[i] = subagentSets[i]
                                                 /\ i >= k => subagentSets'[i] = subagentSets[i + 1]
    BY <1>2, <1>5, Removed
  <2>2. \A i, j \in DOMAIN subagentSets' : subagentSets'[i] = subagentSets'[j] => i = j
    <3> SUFFICES ASSUME NEW i \in DOMAIN subagentSets', NEW j \in DOMAIN subagentSets',
                        subagentSets'[i] = subagentSets'[j]
                 PROVE  i = j
      OBVIOUS
    <3>1. PICK x \in DOMAIN subagentSets : subagentSets'[i] = subagentSets[x]
                                           /\ x = IF i < k THEN i ELSE i + 1
      BY <2>1
    <3>2. PICK y \in DOMAIN subagentSets : subagentSets'[j] = subagentSets[y]
                                           /\ y = IF j < k THEN j ELSE j + 1
      BY <2>1
    <3>3. x = y
      BY <1>1, <3>1, <3>2 DEF Listed
    <3> QED BY <2>1, <3>1, <3>2, <3>3
  <2> QED BY <2>2 DEF Listed
<1>6. CASE SubagentReads
  <2>1. \/ \E c \in Cell : Tests(Head(toSub), c)
        \/ UNCHANGED subagentSets
    BY <1>1, <1>6, SubagentReadsMoves DEF Goes, Fails
  <2> QED BY <1>3, <1>4, <2>1
<1>7. CASE HandleSetResponse
  <2>1. \/ subagentSets' = Freed(Head(replies).trans)
        \/ UNCHANGED subagentSets
    BY <1>7, ResponseMoves DEF ReservesAgain, Answers, Crash, subVars
  <2> QED BY <1>1, <1>3, <1>5, <2>1, FreedList
<1> QED BY <1>3, <1>6, <1>7 DEF Next, StartSet, MasterReads, MasterTimeout, Disconnect,
           EndOfStream, Reconnect, InternalSet, FinishPass, subVars, setVars

\* A cache without an entry, which no delegated pass works on either.
Apart(cache, e, others) ==
    /\ \A i, j \in DOMAIN cache :
          i # j /\ cache[i].entry # Void => cache[i].entry # cache[j].entry
    /\ \A i \in DOMAIN cache : /\ cache[i].entry # Void => held[cache[i].entry].pass # "none"
                               /\ cache[i].entry # e
    /\ \A p \in others : /\ p.entry \in Entry /\ p.entry # e
                         /\ held[p.entry].status = "running" /\ held[p.entry].pass # "none"
                         /\ \A i \in DOMAIN cache : cache[i].entry # p.entry
    /\ \A p, q \in others : p.entry = q.entry => p = q

LEMMA SavedApart ==
    ASSUME Typed, NEW cache \in Seq(Kept), NEW p \in Begun, NEW e \in Entry,
           Apart(cache, e, running'),
           NEW status \in {"ok", "error", "running"}, Pass(p, e, status),
           agentSets' = Saved(cache, p, e), running' \in SUBSET Begun
    PROVE  Cached'
<1>1. held \in [Entry -> HeldType] /\ p.pass # "none" /\ e # Void
  BY Numbers DEF Typed, Begun, Passes, Reserving, Last, Void
<1>2. /\ held'[e].pass = p.pass
      /\ \A f \in Entry : f # e => held'[f] = held[f]
  BY <1>1 DEF Pass
<1>3. /\ Len(cache) \in Nat /\ DOMAIN cache = 1 .. Len(cache)
      /\ \A i \in DOMAIN cache : cache[i] \in Kept
  BY LenProperties, ElementOfSeq
<1>4. \A i \in DOMAIN cache : cache[i].entry # Void => /\ cache[i].entry \in Entry
                                                       /\ held'[cache[i].entry].pass # "none"
  BY <1>2, <1>3 DEF Kept, Apart
<1>5. \A q \in running' : /\ q.entry \in Entry
                          /\ held'[q.entry].status = "running" /\ held'[q.entry].pass # "none"
  BY <1>2 DEF Apart
<1>6. CASE p.pass \in Last
  <2>1. agentSets' = cache
    BY <1>6 DEF Saved
  <2> QED BY <1>4, <1>5, <2>1 DEF Apart, Cached
<1>7. CASE p.pass \notin Last
  <2> DEFINE x == [trans |-> p.trans, entry |-> e]
  <2>1. agentSets' = <<x>> \o cache
    BY <1>7 DEF Saved
  <2>2. x \in Kept /\ x.entry = e
    BY DEF Kept, Begun
  <2> HIDE DEF x
  <2>3. /\ DOMAIN agentSets' = 1 .. Len(cache) + 1 /\ agentSets'[1] = x
        /\ \A i \in 1 .. Len(cache) : agentSets'[i + 1] = cache[i]
    BY <2>1, <2>2, Prepended
  <2>4. \A i \in DOMAIN agentSets' : \/ i = 1 /\ agentSets'[i].entry = e
                                     \/ i - 1 \in DOMAIN cache /\ agentSets'[i] = cache[i - 1]
    <3> TAKE i \in DOMAIN agentSets'
    <3>1. CASE i = 1
      BY <2>2, <2>3, <3>1
    <3>2. CASE i # 1
      <4>1. i - 1 \in 1 .. Len(cache) /\ (i - 1) + 1 = i
        BY <1>3, <2>3, <3>2
      <4> QED BY <1>3, <2>3, <4>1
    <3> QED BY <3>1, <3>2
  <2>5. \A i, j \in DOMAIN agentSets' :
            i # j /\ agentSets'[i].entry # Void => agentSets'[i].entry # agentSets'[j].entry
    <3> TAKE i, j \in DOMAIN agentSets'
    <3>1. DOMAIN agentSets' \subseteq Int
      BY <1>3, <2>3
    <3> QED BY <2>4, <3>1 DEF Apart
  <2>6. \A i \in DOMAIN agentSets' :
            agentSets'[i].entry # Void => held'[agentSets'[i].entry].pass # "none"
    BY <1>1, <1>2, <1>4, <2>4
  <2>7. \A q \in running' : \A i \in DOMAIN agentSets' : agentSets'[i].entry # q.entry
    BY <2>4 DEF Apart
  <2> QED BY <1>5, <2>5, <2>6, <2>7 DEF Cached, Apart
<1> QED BY <1>6, <1>7

LEMMA TakenApart ==
    ASSUME SetsInv, NEW p, NEW e \in Entry, NEW cache \in Seq(Kept), Takes(p, e, cache)
    PROVE  Apart(cache, e, running)
<1>1. Typed /\ Cached /\ e # Void
  BY Numbers DEF SetsInv, Void
<1>2. CASE held[e].pass = "none" /\ cache = agentSets
  BY <1>1, <1>2 DEF Apart, Cached
<1>3. ASSUME NEW k \in DOMAIN agentSets, agentSets[k].entry = e, cache = Without(agentSets, k)
      PROVE  Apart(cache, e, running)
  <2>1. agentSets \in Seq(Kept)
    BY <1>1 DEF Typed
  <2>2. /\ Len(agentSets) \in Nat /\ DOMAIN agentSets = 1 .. Len(agentSets)
        /\ DOMAIN cache = 1 .. Len(agentSets) - 1
        /\ \A i \in 1 .. Len(agentSets) - 1 : /\ i < k => cache[i] = agentSets[i]
                                              /\ i >= k => cache[i] = agentSets[i + 1]
    BY <1>3, <2>1, Removed
  <2>3. \A i \in DOMAIN cache : \E x \in DOMAIN agentSets :
            cache[i] = agentSets[x] /\ x # k /\ x = IF i < k THEN i ELSE i + 1
    BY <2>2
  <2>4. \A i, j \in DOMAIN cache :
            i # j /\ cache[i].entry # Void => cache[i].entry # cache[j].entry
    <3> TAKE i, j \in DOMAIN cache
    <3>1. PICK x \in DOMAIN agentSets : cache[i] = agentSets[x] /\ x = IF i < k THEN i ELSE i + 1
      BY <2>3
    <3>2. PICK y \in DOMAIN agentSets : cache[j] = agentSets[y] /\ y = IF j < k THEN j ELSE j + 1
      BY <2>3
    <3>3. i # j => x # y
      BY <2>2, <3>1, <3>2
    <3> QED BY <1>1, <3>1, <3>2, <3>3 DEF Cached
  <2>5. \A i \in DOMAIN cache : /\ cache[i].entry # Void => held[cache[i].entry].pass # "none"
                                /\ cache[i].entry # e
    BY <1>1, <1>3, <2>3 DEF Cached
  <2>6. \A q \in running : q.entry # e /\ \A i \in DOMAIN cache : cache[i].entry # q.entry
    BY <1>1, <1>3, <2>3 DEF Cached
  <2> QED BY <1>1, <2>4, <2>5, <2>6 DEF Apart, Cached
<1> QED BY <1>2, <1>3 DEF Takes

LEMMA CachedStep ==
    ASSUME SetsInv, [Next]_setVars
    PROVE  Cached'
<1>1. Typed /\ Cached
  BY DEF SetsInv
<1>2. ASSUME UNCHANGED <<agentSets, running, held>> PROVE Cached'
  BY <1>1, <1>2 DEF Cached
<1>3. running' \in SUBSET Begun
  BY SetsTypedStep DEF Typed
<1>4. CASE InternalSet
  <2> DEFINE q == Head(internal)
             p == Begins(q)
  <2>1. q \in Queued
    BY <1>1, <1>4, InternalMoves, Tailed DEF Typed
  <2>2. p \in Begun /\ p.entry = Void
    BY <2>1, BegunTyped
  <2>3. \/ \E e \in Entry, cache \in Seq(Kept) : Takes(p, e, cache) /\ CallHandlers(p, e, cache)
        \/ agentSets' = Saved(agentSets, p, Void) /\ UNCHANGED <<running, held>>
        \/ UNCHANGED <<agentSets, running, held>>
    BY <1>1, <1>4, InternalMoves DEF agentVars
  <2> HIDE DEF q, p
  <2>4. ASSUME NEW e \in Entry, NEW cache \in Seq(Kept), Takes(p, e, cache),
               CallHandlers(p, e, cache)
        PROVE  Cached'
    <3>1. Apart(cache, e, running)
      BY <2>4, TakenApart
    <3>2. ASSUME NEW ok \in Outcomes(p.pass), Pass(p, e, IF ok THEN "ok" ELSE "error"),
                 agentSets' = Saved(cache, p, e), UNCHANGED running
          PROVE  Cached'
      BY <1>1, <1>3, <2>2, <3>1, <3>2, SavedApart
    <3>3. ASSUME Pass(p, e, "running"), running' = running \cup {[p EXCEPT !.entry = e]},
                 agentSets' = cache
          PROVE  Cached'
      <4> DEFINE x == [p EXCEPT !.entry = e]
      <4>1. x.entry = e /\ p.pass # "none" /\ e # Void
        BY <2>2, Numbers DEF Begun, Passes, Reserving, Last, Void
      <4> HIDE DEF x
      <4>2. held \in [Entry -> HeldType]
        BY <1>1 DEF Typed
      <4>3. /\ held'[e].pass = p.pass /\ held'[e].status = "running"
            /\ \A f \in Entry : f # e => held'[f] = held[f]
        BY <3>3, <4>2 DEF Pass
      <4>4. \A i \in DOMAIN cache : cache[i].entry # Void => cache[i].entry \in Entry
        <5>1. \A i \in DOMAIN cache : cache[i] \in Kept
          BY LenProperties, ElementOfSeq
        <5> QED BY <5>1 DEF Kept
      <4>5. running' = running \cup {x}
        BY <3>3 DEF x
      <4> QED BY <3>1, <3>3, <4>1, <4>3, <4>4, <4>5 DEF Apart, Cached
    <3> QED BY <2>4, <3>2, <3>3 DEF CallHandlers
  <2>5. ASSUME agentSets' = Saved(agentSets, p, Void), UNCHANGED <<running, held>>
        PROVE  Cached'
    <3>1. CASE p.pass \in Last
      BY <1>2, <2>5, <3>1 DEF Saved
    <3>2. CASE p.pass \notin Last
      <4> DEFINE x == [trans |-> p.trans, entry |-> Void]
      <4>1. x \in Kept /\ x.entry = Void
        BY <2>2 DEF Kept, Begun
      <4>2. agentSets' = <<x>> \o agentSets /\ agentSets \in Seq(Kept)
        BY <1>1, <2>5, <3>2 DEF Saved, Typed
      <4> HIDE DEF x
      <4>3. /\ Len(agentSets) \in Nat /\ DOMAIN agentSets = 1 .. Len(agentSets)
            /\ DOMAIN agentSets' = 1 .. Len(agentSets) + 1 /\ agentSets'[1] = x
            /\ \A i \in 1 .. Len(agentSets) : agentSets'[i + 1] = agentSets[i]
        BY <4>1, <4>2, Prepended
      <4>4. \A i \in DOMAIN agentSets' : \/ i = 1 /\ agentSets'[i].entry = Void
                                         \/ /\ i - 1 \in DOMAIN agentSets /\ i \in Int
                                            /\ agentSets'[i] = agentSets[i - 1]
        <5> TAKE i \in DOMAIN agentSets'
        <5>1. CASE i = 1
          BY <4>1, <4>3, <5>1
        <5>2. CASE i # 1
          <6>1. i - 1 \in 1 .. Len(agentSets) /\ (i - 1) + 1 = i /\ i \in Int
            BY <4>3, <5>2
          <6> QED BY <4>3, <6>1
        <5> QED BY <5>1, <5>2
      <4>5. \A q2 \in running : q2.entry # Void
        BY <1>1, Numbers DEF Cached, Void
      <4>6. \A i, j \in DOMAIN agentSets' :
                i # j /\ agentSets'[i].entry # Void => agentSets'[i].entry # agentSets'[j].entry
        BY <1>1, <4>4 DEF Cached
      <4>7. \A i \in DOMAIN agentSets' :
                agentSets'[i].entry # Void => held'[agentSets'[i].entry].pass # "none"
        BY <1>1, <2>5, <4>4 DEF Cached
      <4>8. \A q2 \in running' : \A i \in DOMAIN agentSets' : agentSets'[i].entry # q2.entry
        BY <1>1, <2>5, <4>4, <4>5 DEF Cached
      <4> QED BY <1>1, <2>5, <4>6, <4>7, <4>8 DEF Cached
    <3> QED BY <3>1, <3>2
  <2> QED BY <1>2, <2>3, <2>4, <2>5
<1>5. CASE FinishPass
  <2>1. PICK p \in Begun, ok \in BOOLEAN : Finishes(p, ok)
    BY <1>1, <1>5, FinishMoves
  <2>2. p \in running /\ p.entry \in Entry /\ running' = running \ {p} /\ agentSets \in Seq(Kept)
    BY <1>1, <2>1 DEF Finishes, Cached, Typed
  <2>3. Apart(agentSets, p.entry, running')
    BY <1>1, <2>2 DEF Apart, Cached
  <2>4. Pass(p, p.entry, IF ok THEN "ok" ELSE "error") /\ agentSets' = Saved(agentSets, p, p.entry)
    BY <2>1 DEF Finishes
  <2> QED BY <1>1, <1>3, <2>2, <2>3, <2>4, SavedApart
<1> QED BY <1>2, <1>4, <1>5 DEF Next, StartSet, MasterReads, MasterTimeout, Disconnect,
           EndOfStream, Reconnect, SubagentReads, HandleSetResponse, agentVars, setVars

-----------------------------------------------------------------------------
(* What the master decided stays decided.                                  *)

MasterActs == Starts \/ Ignores \/ Resends \/ Commits \/ Frees \/ Ends \/ Undoes \/ Undone \/ Loses
                     \/ Drains

LEMMA Acts ==
    ASSUME SetsInv, [Next]_setVars
    PROVE  MasterActs \/ (UNCHANGED <<master, decision>> /\
              (UNCHANGED toSub \/ (SubagentReads /\ toSub # <<>> /\ toSub' = Tail(toSub))))
<1>1. Typed
  BY DEF SetsInv
<1>2. CASE StartSet \/ MasterReads \/ MasterTimeout \/ Disconnect \/ EndOfStream
  BY <1>1, <1>2, MasterMoves DEF MasterActs
<1>3. CASE SubagentReads
  BY <1>1, <1>3, SubagentReadsMoves DEF SubagentReads, masterVars
<1> QED BY <1>2, <1>3 DEF Next, Reconnect, InternalSet, FinishPass, HandleSetResponse,
           masterVars, setVars

LEMMA DecidedActs ==
    ASSUME SetsInv, Typed', MasterActs
    PROVE  /\ Decided'
           /\ \A t \in Trans : decision[t] # "none" =>
                 /\ decision'[t] # "none"
                 /\ decision[t] \in {"free", "commit", "undo"} => decision'[t] = decision[t]
                 /\ Acted(t) => Acted(t)'
<1>1. /\ master.trans \in 0 .. NumTrans /\ master'.trans \in 0 .. NumTrans
      /\ decision \in [Trans -> {"none", "open", "free", "commit", "undo"}]
      /\ master.awaits \in {"none", "TESTSET", "COMMITSET", "UNDOSET"}
  BY DEF SetsInv, Typed
<1>2. Decided
  BY DEF SetsInv
<1>3. ASSUME UNCHANGED decision, master'.trans = master.trans,
             \/ master'.awaits = master.awaits
             \/ master.awaits = "TESTSET" /\ master'.awaits = "COMMITSET"
             \/ master.awaits = "UNDOSET" /\ master'.awaits = "none"
      PROVE  /\ Decided'
             /\ \A t \in Trans : decision[t] # "none" =>
                   /\ decision'[t] # "none"
                   /\ decision[t] \in {"free", "commit", "undo"} => decision'[t] = decision[t]
                   /\ Acted(t) => Acted(t)'
  <2>1. Decided'
    BY <1>1, <1>2, <1>3 DEF Decided
  <2>2. \A t \in Trans : Acted(t) => Acted(t)'
    BY <1>3 DEF Acted
  <2> QED BY <1>3, <2>1, <2>2
<1>4. ASSUME NEW d \in {"free", "commit", "undo"}, Becomes(d), master'.trans = master.trans,
             master'.awaits = "none" \/ (master'.awaits = "UNDOSET" /\ d = "undo"),
             \/ master.awaits = "TESTSET"
             \/ master.awaits = "COMMITSET" /\ d # "free"
             \/ master.awaits = "UNDOSET" /\ d = "undo"
      PROVE  /\ Decided'
             /\ \A t \in Trans : decision[t] # "none" =>
                   /\ decision'[t] # "none"
                   /\ decision[t] \in {"free", "commit", "undo"} => decision'[t] = decision[t]
                   /\ Acted(t) => Acted(t)'
  <2>1. /\ master.trans \in Trans
        /\ decision[master.trans] = IF master.awaits = "UNDOSET" THEN "undo" ELSE "open"
    BY <1>2, <1>4 DEF Decided
  <2>2. /\ decision'[master.trans] = d
        /\ \A t \in Trans : t # master.trans => decision'[t] = decision[t]
    BY <1>1, <1>4, <2>1 DEF Becomes
  <2>3. Decided'
    BY <1>1, <1>2, <1>4, <2>1, <2>2 DEF Decided
  <2>4. \A t \in Trans : Acted(t) => Acted(t)'
    BY <1>4, <2>1, <2>2 DEF Acted
  <2> QED BY <1>4, <2>1, <2>2, <2>3, <2>4
<1>5. CASE Starts
  <2> DEFINE n == master.trans + 1
  <2>1. /\ n \in Trans /\ master'.trans = n /\ master'.awaits = "TESTSET"
        /\ decision' = [decision EXCEPT ![n] = "open"] /\ master.awaits = "none"
    BY <1>5 DEF Starts
  <2>2. decision'[n] = "open" /\ \A t \in Trans : t # n => decision'[t] = decision[t]
    BY <1>1, <2>1
  <2>3. n > master.trans /\ decision[n] = "none"
    BY <1>1, <1>2, <2>1 DEF Decided
  <2>4. \A t \in Trans : t > n <=> t > master.trans /\ t # n
    BY <1>1, Numbers
  <2> HIDE DEF n
  <2>5. Decided'
    BY <1>2, <2>1, <2>2, <2>3, <2>4 DEF Decided
  <2>6. \A t \in Trans : Acted(t) => Acted(t)'
    BY <2>1, <2>2, <2>3 DEF Acted
  <2> QED BY <2>2, <2>3, <2>5, <2>6
<1>6. CASE Ignores \/ Resends \/ Commits \/ Undone
  BY <1>3, <1>6 DEF Ignores, Resends, Commits, Undone, Awaits
<1>7. CASE Frees \/ Ends \/ Undoes
  BY <1>4, <1>7 DEF Frees, Ends, Undoes, Awaits
<1>9. CASE Drains
  BY <1>3, <1>9 DEF Drains
<1>8. CASE Loses
  <2>1. CASE master.awaits = "none" /\ UNCHANGED decision
    BY <1>3, <1>8, <2>1 DEF Loses
  <2>2. CASE \/ master.awaits = "TESTSET" /\ Becomes("free")
             \/ master.awaits \in {"COMMITSET", "UNDOSET"} /\ Becomes("undo")
    BY <1>4, <1>8, <2>2 DEF Loses
  <2> QED BY <1>8, <2>1, <2>2 DEF Loses
<1> QED BY <1>5, <1>6, <1>7, <1>8, <1>9 DEF MasterActs

LEMMA DecidedStep ==
    ASSUME SetsInv, [Next]_setVars
    PROVE  /\ Decided'
           /\ \A t \in Trans : decision[t] # "none" =>
                 /\ decision'[t] # "none"
                 /\ decision[t] \in {"free", "commit", "undo"} => decision'[t] = decision[t]
                 /\ Acted(t) => Acted(t)'
<1>1. Typed'
  BY SetsTypedStep
<1>2. CASE MasterActs
  BY <1>1, <1>2, DecidedActs
<1>3. CASE UNCHANGED <<master, decision>>
  <2>1. Decided'
    BY <1>3 DEF SetsInv, Decided
  <2>2. \A t \in Trans : Acted(t) => Acted(t)'
    BY <1>3 DEF Acted
  <2> QED BY <1>3, <2>1, <2>2
<1> QED BY <1>2, <1>3, Acts

\* What agrees with a decision goes on agreeing.
LEMMA AgreesOn ==
    ASSUME SetsInv, [Next]_setVars, NEW t \in Trans, decision[t] # "none", NEW pass, Agrees(pass, t)
    PROVE  Agrees(pass, t)'
<1>1. decision[t] \in {"free", "commit", "undo"} => decision'[t] = decision[t]
  BY DecidedStep
<1>2. pass \in Last => decision[t] \in {"free", "commit", "undo"}
  BY DEF Agrees, Last, LastPassOf
<1> QED BY <1>1, <1>2 DEF Agrees

-----------------------------------------------------------------------------
(* What is on its way to the subagent.                                     *)

\* A PDU that agrees with the decision.
Fits(command, t) ==
    /\ decision[t] # "none"
    /\ command = "COMMITSET" => Acted(t)
    /\ command = "UNDOSET" => decision[t] = "undo"
    /\ command = "CLEANUPSET" => decision[t] \in {"free", "commit"}

LEMMA FitsOn ==
    ASSUME SetsInv, [Next]_setVars, NEW command, NEW i \in DOMAIN toSub,
           NEW t \in Trans, toSub[i].trans = t, toSub[i].command = command
    PROVE  Fits(command, t)'
<1>1. Fits(command, t)
  BY DEF SetsInv, Asked, Fits
<1>2. /\ decision'[t] # "none"
      /\ decision[t] \in {"free", "commit", "undo"} => decision'[t] = decision[t]
      /\ Acted(t) => Acted(t)'
  BY <1>1, DecidedStep DEF Fits
<1> QED BY <1>1, <1>2 DEF Fits

LEMMA AskedAppended ==
    ASSUME SetsInv, [Next]_setVars, NEW t \in Trans, NEW command \in Commands,
           toSub' = Append(toSub, [command |-> command, trans |-> t]), Fits(command, t)',
           command = "CLEANUPSET" => decision[t] \notin {"free", "commit"},
           command = "TESTSET" => ~Acted(t)
    PROVE  Asked'
<1> DEFINE m == [command |-> command, trans |-> t]
<1>1. toSub \in Seq(Request) /\ m \in Request /\ toSub' = Append(toSub, m)
  BY DEF SetsInv, Typed, Request
<1>2. m.command = command /\ m.trans = t
  OBVIOUS
<1> HIDE DEF m
<1>3. /\ Len(toSub) \in Nat /\ DOMAIN toSub = 1 .. Len(toSub)
      /\ DOMAIN toSub' = 1 .. Len(toSub) + 1
      /\ \A i \in 1 .. Len(toSub) : toSub'[i] = toSub[i]
      /\ toSub'[Len(toSub) + 1] = m
  BY <1>1, Appended
<1>4. \A i \in DOMAIN toSub' : \/ i \in DOMAIN toSub /\ toSub'[i] = toSub[i]
                               \/ i = Len(toSub) + 1 /\ toSub'[i] = m
  BY <1>3
<1>5. \A i \in DOMAIN toSub : toSub[i] \in Request
  BY <1>1, LenProperties, ElementOfSeq
<1>6. Asked
  BY DEF SetsInv
<1>7. \A i \in DOMAIN toSub' : /\ toSub'[i].trans \in Trans
                               /\ \A c, u : toSub'[i].command = c /\ toSub'[i].trans = u
                                                => Fits(c, u)'
  <2> TAKE i \in DOMAIN toSub'
  <2>1. CASE i \in DOMAIN toSub /\ toSub'[i] = toSub[i]
    <3>1. toSub[i].trans \in Trans
      BY <1>5, <2>1 DEF Request
    <3> QED BY <2>1, <3>1, FitsOn
  <2>2. CASE toSub'[i] = m
    BY <1>2, <2>2
  <2> QED BY <1>4, <2>1, <2>2
<1>9. \A i, j \in DOMAIN toSub' : toSub'[i].trans = toSub'[j].trans =>
          /\ toSub'[i].command = "COMMITSET" /\ i < j => toSub'[j].command # "TESTSET"
          /\ toSub'[i].command = "CLEANUPSET" /\ toSub'[j].command = "CLEANUPSET" => i = j
  <2> TAKE i, j \in DOMAIN toSub'
  <2> HAVE toSub'[i].trans = toSub'[j].trans
  <2>1. CASE i \in DOMAIN toSub /\ toSub'[i] = toSub[i]
    <3>1. CASE j \in DOMAIN toSub /\ toSub'[j] = toSub[j]
      BY <1>6, <2>1, <3>1 DEF Asked
    <3>2. CASE toSub'[j] = m
      BY <1>2, <1>6, <2>1, <3>2 DEF Asked
    <3> QED BY <1>4, <3>1, <3>2
  <2>2. CASE i = Len(toSub) + 1 /\ toSub'[i] = m
    <3>1. CASE j \in DOMAIN toSub /\ toSub'[j] = toSub[j]
      <4>1. ~(i < j)
        BY <1>3, <2>2, <3>1
      <4> QED BY <1>2, <1>6, <2>2, <3>1, <4>1 DEF Asked
    <3>2. CASE j = Len(toSub) + 1
      BY <1>3, <2>2, <3>2
    <3> QED BY <1>4, <3>1, <3>2
  <2> QED BY <1>4, <2>1, <2>2
<1> QED BY <1>7, <1>9 DEF Asked, Fits, Acted

LEMMA AskedStep ==
    ASSUME SetsInv, [Next]_setVars
    PROVE  Asked'
<1>1. /\ toSub \in Seq(Request) /\ master.trans \in 0 .. NumTrans
      /\ decision \in [Trans -> {"none", "open", "free", "commit", "undo"}]
  BY DEF SetsInv, Typed
<1>2. Decided /\ Asked
  BY DEF SetsInv
<1>3. \A i \in DOMAIN toSub : toSub[i].trans \in Trans
  <2>1. \A i \in DOMAIN toSub : toSub[i] \in Request
    BY <1>1, LenProperties, ElementOfSeq
  <2> QED BY <2>1 DEF Request
<1>4. \A u \in Trans : decision[u] # "none" =>
          /\ decision'[u] # "none"
          /\ decision[u] \in {"free", "commit", "undo"} => decision'[u] = decision[u]
          /\ Acted(u) => Acted(u)'
  BY DecidedStep
<1>5. ASSUME NEW n \in {0, 1}, DOMAIN toSub' \subseteq Int,
             \A i \in DOMAIN toSub' : i + n \in DOMAIN toSub /\ toSub'[i] = toSub[i + n]
      PROVE  Asked'
  <2>1. \A i \in DOMAIN toSub' : /\ toSub'[i].trans \in Trans
                                 /\ \A c, u : toSub'[i].command = c /\ toSub'[i].trans = u
                                                  => Fits(c, u)'
    BY <1>3, <1>5, FitsOn
  <2>2. \A i, j \in DOMAIN toSub' : (i < j => i + n < j + n) /\ (i + n = j + n => i = j)
    <3> TAKE i, j \in DOMAIN toSub'
    <3>1. i \in Int /\ j \in Int /\ n \in Int
      BY <1>5
    <3> QED BY <3>1
  <2>3. \A i, j \in DOMAIN toSub' : toSub'[i].trans = toSub'[j].trans =>
            /\ toSub'[i].command = "COMMITSET" /\ i < j => toSub'[j].command # "TESTSET"
            /\ toSub'[i].command = "CLEANUPSET" /\ toSub'[j].command = "CLEANUPSET" => i = j
    BY <1>2, <1>5, <2>2 DEF Asked
  <2> QED BY <2>1, <2>3 DEF Asked, Fits, Acted
<1>6. ASSUME UNCHANGED toSub PROVE Asked'
  <2>1. DOMAIN toSub \subseteq Int /\ \A i \in DOMAIN toSub : i + 0 = i
    BY <1>1, LenProperties
  <2> QED BY <1>5, <1>6, <2>1
<1>7. ASSUME toSub # <<>>, toSub' = Tail(toSub) PROVE Asked'
  <2>1. /\ Len(toSub) \in Nat /\ DOMAIN toSub = 1 .. Len(toSub)
        /\ DOMAIN toSub' = 1 .. Len(toSub) - 1
        /\ \A i \in 1 .. Len(toSub) - 1 : toSub'[i] = toSub[i + 1]
    BY <1>1, <1>7, Tailed
  <2>2. DOMAIN toSub' \subseteq Int /\ \A i \in DOMAIN toSub' : i + 1 \in DOMAIN toSub
    BY <2>1
  <2> QED BY <1>5, <2>1, <2>2
<1>8. CASE Starts
  <2>0. master.trans + 1 \in Trans /\ master.trans + 1 > master.trans
    BY <1>1, <1>8 DEF Starts
  <2>1. PICK n \in Trans :
        /\ toSub' = Append(toSub, [command |-> "TESTSET", trans |-> n])
        /\ decision' = [decision EXCEPT ![n] = "open"] /\ n > master.trans
    BY <1>8, <2>0 DEF Starts
  <2>2. decision'[n] = "open" /\ decision[n] = "none" /\ n # master.trans
    BY <1>1, <1>2, <2>1, Numbers DEF Decided
  <2>3. ~Acted(n)
    BY <2>2 DEF Acted
  <2>4. Fits("TESTSET", n)'
    BY <2>2 DEF Fits
  <2> QED BY <2>1, <2>3, <2>4, AskedAppended DEF Commands
<1>9. CASE Resends \/ Commits \/ Frees \/ Ends \/ Undoes
  <2> DEFINE t == master.trans
  <2>1. PICK command \in Commands : To(command) /\
           \/ master.awaits = command /\ UNCHANGED decision /\ command # "CLEANUPSET"
                /\ master'.awaits = command /\ master'.trans = t
           \/ /\ master.awaits = "TESTSET" /\ command = "COMMITSET" /\ UNCHANGED decision
              /\ master'.awaits = "COMMITSET" /\ master'.trans = t
           \/ master.awaits = "TESTSET" /\ command = "CLEANUPSET" /\ Becomes("free")
           \/ master.awaits = "COMMITSET" /\ command = "CLEANUPSET" /\ Becomes("commit")
           \/ master.awaits = "COMMITSET" /\ command = "UNDOSET" /\ Becomes("undo")
    BY <1>9 DEF Resends, Commits, Frees, Ends, Undoes, Awaits, Commands
  <2>2. /\ t \in Trans
        /\ decision[t] = IF master.awaits = "UNDOSET" THEN "undo" ELSE "open"
    BY <1>2, <2>1 DEF Decided, Commands
  <2>3. \A d : Becomes(d) => decision'[t] = d
    BY <1>1, <2>2 DEF Becomes
  <2>4. decision'[t] # "none"
    BY <1>4, <2>2
  <2>5. /\ command = "UNDOSET" => decision'[t] = "undo"
        /\ command = "CLEANUPSET" => decision'[t] \in {"free", "commit"}
    BY <2>1, <2>2, <2>3
  <2>6. command = "COMMITSET" => master'.awaits = "COMMITSET" /\ master'.trans = t
    BY <2>1
  <2>7. \A u : u = t => Fits(command, u)'
    BY <2>4, <2>5, <2>6 DEF Fits, Acted
  <2>8. command = "TESTSET" => ~Acted(t)
    BY <2>1, <2>2 DEF Acted
  <2>10. command = "CLEANUPSET" => decision[t] \notin {"free", "commit"}
    BY <2>1, <2>2
  <2>9. toSub' = Append(toSub, [command |-> command, trans |-> t])
    BY <2>1 DEF To
  <2> HIDE DEF t
  <2> QED BY <2>2, <2>7, <2>8, <2>9, <2>10, AskedAppended
<1>10. CASE Drains
  BY <1>5, <1>10 DEF Drains
<1>11. CASE Ignores \/ Undone \/ Loses
  BY <1>6, <1>11 DEF Ignores, Undone, Loses
<1> QED BY <1>6, <1>7, <1>8, <1>9, <1>10, <1>11, Acts DEF MasterActs

-----------------------------------------------------------------------------
(* The passes on their way, and the modes of the cells.                    *)

\* The head of the stream to the subagent.
LEMMA HeadAsked ==
    ASSUME SetsInv, toSub # <<>>, NEW m, m = Head(toSub)
    PROVE  /\ m \in Request /\ Fits(m.command, m.trans)
           /\ \E i \in DOMAIN toSub : i = 1 /\ toSub[i] = m
<1>1. toSub \in Seq(Request)
  BY DEF SetsInv, Typed
<1>2. m \in Request /\ m = toSub[1] /\ 1 \in DOMAIN toSub
  BY <1>1, Tailed
<1> QED BY <1>2 DEF SetsInv, Asked, Fits

LEMMA OneNewest ==
    ASSUME Typed, NEW t, NEW c, NEW d, Newest(c, t), Newest(d, t)
    PROVE  c = d
<1>1. DOMAIN subagentSets \subseteq Int
  BY LenProperties DEF Typed
<1>2. PICK i \in DOMAIN subagentSets :
          /\ subagentSets[i] = c /\ asi[c].trans = t
          /\ \A j \in DOMAIN subagentSets : j < i => asi[subagentSets[j]].trans # t
  BY DEF Newest
<1>3. PICK j \in DOMAIN subagentSets :
          /\ subagentSets[j] = d /\ asi[d].trans = t
          /\ \A k \in DOMAIN subagentSets : k < j => asi[subagentSets[k]].trans # t
  BY DEF Newest
<1>4. ~(i < j) /\ ~(j < i)
  BY <1>2, <1>3
<1>5. i = j
  BY <1>1, <1>4
<1> QED BY <1>2, <1>3, <1>5

\* The pass a PDU goes to is the one the master means: a SET is freed only
\* when it was not acted on, and committed only when it was.
LEMMA GoesRight ==
    ASSUME SetsInv, toSub # <<>>, NEW c \in Cell, NEW pass, Goes(Head(toSub), c, pass),
           NEW t, t = Head(toSub).trans
    PROVE  /\ t \in Trans /\ decision[t] # "none" /\ asi[c].trans = t
           /\ Agrees(pass, t) /\ (pass = "ACTION" => Acted(t))
           /\ pass # "none"
<1> DEFINE m == Head(toSub)
<1>1. m \in Request /\ Fits(m.command, m.trans) /\ \E i \in DOMAIN toSub : toSub[i] = m
  BY HeadAsked
<1> HIDE DEF m
<1>2. /\ m.command # "TESTSET" /\ Newest(c, t) /\ t = m.trans
      /\ pass = PassOf(m.command, asi[c].mode) /\ pass \in {"FREE", "ACTION", "COMMIT", "UNDO"}
  BY DEF Goes, m
<1>3. m.command \in Commands /\ t \in Trans /\ asi[c].mode \in Mode /\ asi[c].trans = t
  <2>1. asi[c] \in CellType
    BY DEF SetsInv, Typed
  <2> QED BY <1>1, <1>2, <2>1 DEF Request, CellType, Newest
<1>4. PassOf(m.command, asi[c].mode) # "none"
  BY <1>2
<1>5. /\ pass = "ACTION" => m.command = "COMMITSET"
      /\ pass = "FREE" => m.command = "CLEANUPSET" /\ asi[c].mode \in Reserving
      /\ pass = "COMMIT" => m.command = "CLEANUPSET" /\ asi[c].mode = "ACTION"
      /\ pass = "UNDO" => m.command = "UNDOSET"
  BY <1>2, <1>3, <1>4, PassOfLater
<1>6. ASSUME pass = "FREE" PROVE decision[t] = "free"
  <2>1. decision[t] \in {"free", "commit"} /\ m.command = "CLEANUPSET"
        /\ asi[c].mode \in Reserving
    BY <1>1, <1>2, <1>5, <1>6 DEF Fits
  <2>2. SUFFICES ASSUME decision[t] = "commit" PROVE FALSE
    BY <2>1
  <2>3. m = [command |-> "CLEANUPSET", trans |-> t]
    BY <1>1, <1>2, <2>1 DEF Request
  <2>4. Live(t) /\ Committing(t)
    BY <1>1, <2>2, <2>3 DEF Live, Committing
  <2>5. PICK d \in Cell : Newest(d, t) /\ asi[d].mode = "ACTION"
    BY <1>3, <2>4 DEF SetsInv, Lively
  <2>6. c = d
    BY <1>2, <2>5, OneNewest DEF SetsInv
  <2> QED BY <2>1, <2>5, <2>6 DEF Reserving
<1>7. ASSUME pass = "COMMIT" PROVE decision[t] = "commit"
  <2>1. decision[t] \in {"free", "commit"} /\ asi[c].mode = "ACTION"
    BY <1>1, <1>2, <1>5, <1>7 DEF Fits
  <2>2. Acted(t)
    BY <1>3, <2>1 DEF SetsInv, Modes
  <2>3. decision[t] # "free"
    BY <1>3, <2>2 DEF SetsInv, Decided, Acted
  <2> QED BY <2>1, <2>3
<1>8. pass = "UNDO" => decision[t] = "undo"
  BY <1>1, <1>2, <1>5 DEF Fits
<1>9. pass = "ACTION" => Acted(t)
  BY <1>1, <1>2, <1>5 DEF Fits
<1>10. decision[t] # "none"
  BY <1>1, <1>2 DEF Fits
<1>11. Agrees(pass, t)
  BY <1>2, <1>6, <1>7, <1>8 DEF Agrees, Last, LastPassOf
<1> QED BY <1>2, <1>3, <1>9, <1>10, <1>11

\* Where the passes of a step come from.
Same(p, q) == p.pass = q.pass /\ p.trans = q.trans /\ p.command = q.command /\ p.cell = q.cell

LEMMA FlyingAppended ==
    ASSUME NEW S, NEW w \in Seq(S), NEW x \in S
    PROVE  \A y \in Members(Append(w, x)) : y = x \/ y \in Members(w)
<1>1. /\ Len(w) \in Nat /\ DOMAIN w = 1 .. Len(w) /\ DOMAIN Append(w, x) = 1 .. Len(w) + 1
      /\ \A i \in 1 .. Len(w) : Append(w, x)[i] = w[i]
      /\ Append(w, x)[Len(w) + 1] = x
  BY Appended
<1>2. \A i \in DOMAIN Append(w, x) : i \in 1 .. Len(w) \/ i = Len(w) + 1
  BY <1>1
<1> QED BY <1>1, <1>2 DEF Members

LEMMA FlyingTailed ==
    ASSUME NEW S, NEW w \in Seq(S), w # <<>>
    PROVE  Head(w) \in Members(w) /\ \A y \in Members(Tail(w)) : y \in Members(w)
<1>1. /\ Head(w) = w[1] /\ 1 \in DOMAIN w
      /\ Len(w) \in Nat /\ DOMAIN w = 1 .. Len(w) /\ DOMAIN Tail(w) = 1 .. Len(w) - 1
      /\ \A i \in 1 .. Len(w) - 1 : Tail(w)[i] = w[i + 1]
  BY Tailed
<1>2. \A i \in DOMAIN Tail(w) : i + 1 \in DOMAIN w
  BY <1>1
<1> QED BY <1>1, <1>2 DEF Members

LEMMA InternalFlying ==
    ASSUME SetsInv, InternalSet
    PROVE  /\ \A p \in Flying' : \E q \in Flying : Same(p, q)
           /\ Head(internal) \in Flying /\ Head(internal) \in Queued
<1> DEFINE q == Head(internal)
           p == Begins(q)
<1>1. /\ internal # <<>> /\ internal' = Tail(internal) /\ internal \in Seq(Queued)
      /\ replies \in Seq(Begun)
  BY InternalMoves DEF SetsInv, Typed
<1>2. /\ q \in Queued /\ q \in Members(internal)
      /\ \A x \in Members(internal') : x \in Members(internal)
  BY <1>1, Tailed, FlyingTailed
<1>3. p \in Begun
  BY <1>2, BegunTyped
<1>4. \/ \E e \in Entry, cache \in Seq(Kept) : CallHandlers(p, e, cache)
      \/ WrapUp(p, FALSE) /\ UNCHANGED running
      \/ UNCHANGED <<running, replies>>
  BY InternalMoves DEF SetsInv, agentVars
<1>5. Same(p, q)
  BY DEF Same, Begins
<1> HIDE DEF q, p
<1>6. \A ok \in BOOLEAN : [p EXCEPT !.ok = ok] \in Begun /\ Same([p EXCEPT !.ok = ok], q)
  BY <1>3, <1>5 DEF Same, Begun
<1>7. \A e \in Entry : Same([p EXCEPT !.entry = e], q)
  BY <1>3, <1>5 DEF Same, Begun
<1>8. \A x \in running' : x \in running \/ Same(x, q)
  BY <1>4, <1>7 DEF CallHandlers
<1>9. \A x \in Members(replies') : x \in Members(replies) \/ Same(x, q)
  <2>1. UNCHANGED replies \/ \E ok \in BOOLEAN : replies' = Append(replies, [p EXCEPT !.ok = ok])
    BY <1>4 DEF CallHandlers, WrapUp, Outcomes
  <2> QED BY <1>1, <1>6, <2>1, FlyingAppended
<1>10. \A x : Same(x, x)
  BY DEF Same
<1> QED BY <1>2, <1>8, <1>9, <1>10 DEF Flying, q

LEMMA FinishFlying ==
    ASSUME SetsInv, FinishPass
    PROVE  \A p \in Flying' : \E q \in Flying : Same(p, q)
<1>1. PICK p \in Begun, ok \in BOOLEAN : Finishes(p, ok)
  BY FinishMoves DEF SetsInv
<1> DEFINE x == [p EXCEPT !.entry = Void, !.ok = ok]
<1>2. x \in Begun /\ Same(x, p)
  BY DEF Same, Begun
<1>3. /\ p \in running /\ running' = running \ {p} /\ replies' = Append(replies, x)
      /\ UNCHANGED internal
  BY <1>1 DEF Finishes, FinishPass
<1> HIDE DEF x
<1>4. replies \in Seq(Begun)
  BY DEF SetsInv, Typed
<1>5. \A y \in Members(replies') : y \in Members(replies) \/ y = x
  BY <1>2, <1>3, <1>4, FlyingAppended
<1>6. \A y : Same(y, y)
  BY DEF Same
<1>7. \A y \in Members(internal') : y \in Members(internal)
  BY <1>3
<1> QED BY <1>2, <1>3, <1>5, <1>6, <1>7 DEF Flying

LEMMA ReadsFlying ==
    ASSUME SetsInv, SubagentReads, NEW p \in Flying', p \notin Flying
    PROVE  \/ \E c \in Cell : Tests(Head(toSub), c) /\ p = QueuedPass("RESERVE1", Head(toSub), c)
           \/ \E c \in Cell, pass \in Passes : /\ Goes(Head(toSub), c, pass)
                                               /\ p = QueuedPass(pass, Head(toSub), c)
<1> DEFINE m == Head(toSub)
<1>1. /\ toSub # <<>> /\ toSub' = Tail(toSub)
      /\ \/ \E c \in Cell : Tests(m, c)
         \/ \E c \in Cell, pass \in Passes : Goes(m, c, pass)
         \/ Fails(m)
  BY SubagentReadsMoves DEF SetsInv
<1>2. m.trans \in Trans /\ m.command \in Commands
  BY <1>1, HeadAsked DEF Request
<1>3. internal \in Seq(Queued) /\ UNCHANGED <<running, replies>>
  BY DEF SetsInv, Typed, SubagentReads, agentVars
<1>4. p \in Members(internal') /\ p \notin Members(internal)
  <2>1. Members(replies)' = Members(replies)
    BY <1>3 DEF Members
  <2> QED BY <1>3, <2>1 DEF Flying
<1> HIDE DEF m
<1>5. ASSUME NEW c \in Cell, NEW pass \in Passes,
             internal' = Append(internal, QueuedPass(pass, m, c))
      PROVE  p = QueuedPass(pass, m, c)
  BY <1>2, <1>3, <1>4, <1>5, QueuedTyped, FlyingAppended
<1>6. CASE \E c \in Cell : Tests(m, c)
  BY <1>5, <1>6 DEF Tests, Passes, Reserving, m
<1>7. CASE \E c \in Cell, pass \in Passes : Goes(m, c, pass)
  BY <1>5, <1>7 DEF Goes, m
<1>8. CASE Fails(m)
  BY <1>4, <1>8 DEF Fails, Members
<1> QED BY <1>1, <1>6, <1>7, <1>8

LEMMA ResponseFlying ==
    ASSUME SetsInv, HandleSetResponse
    PROVE  /\ Head(replies) \in Flying /\ Head(replies) \in Begun
           /\ \A p \in Flying' : \/ p \in Flying
                                 \/ /\ ReservesAgain(Head(replies))
                                    /\ p = QueuedPass("RESERVE2", Head(replies), Head(replies).cell)
<1> DEFINE r == Head(replies)
<1>1. /\ replies # <<>> /\ replies' = Tail(replies)
      /\ ReservesAgain(r) \/ UNCHANGED internal
  BY ResponseMoves DEF Answers, Crash
<1>2. replies \in Seq(Begun) /\ internal \in Seq(Queued) /\ UNCHANGED running
  BY DEF SetsInv, Typed, HandleSetResponse, agentVars
<1>3. /\ r \in Members(replies) /\ r \in Begun
      /\ \A x \in Members(replies') : x \in Members(replies)
  BY <1>1, <1>2, Tailed, FlyingTailed
<1>4. r.trans \in Trans /\ r.command \in Commands /\ r.cell \in Cell /\ "RESERVE2" \in Passes
  BY <1>3 DEF Begun, Passes, Reserving
<1> HIDE DEF r
<1>5. \A x \in Members(internal') : \/ x \in Members(internal)
                                    \/ ReservesAgain(r) /\ x = QueuedPass("RESERVE2", r, r.cell)
  <2>1. CASE ReservesAgain(r)
    BY <1>2, <1>4, <2>1, QueuedTyped, FlyingAppended DEF ReservesAgain
  <2>2. CASE UNCHANGED internal
    BY <2>2
  <2> QED BY <1>1, <2>1, <2>2
<1> QED BY <1>2, <1>3, <1>5 DEF Flying, r

\* The fields of what is on its way.
LEMMA FlyingFields ==
    ASSUME Typed, NEW p \in Flying
    PROVE  p.trans \in Trans /\ p.pass \in Passes /\ p.command \in Commands /\ p.cell \in Cell
<1>1. internal \in Seq(Queued) /\ running \in SUBSET Begun /\ replies \in Seq(Begun)
  BY DEF Typed
<1>2. \A x \in Members(internal) : x \in Queued
  BY <1>1, LenProperties, ElementOfSeq DEF Members
<1>3. \A x \in Members(replies) : x \in Begun
  BY <1>1, LenProperties, ElementOfSeq DEF Members
<1>4. p \in Queued \/ p \in Begun
  BY <1>1, <1>2, <1>3 DEF Flying
<1>5. CASE p \in Queued
  BY <1>5 DEF Queued
<1>6. CASE p \in Begun
  BY <1>6 DEF Begun
<1> QED BY <1>4, <1>5, <1>6

LEMMA ModesStep ==
    ASSUME SetsInv, [Next]_setVars
    PROVE  Modes'
<1>1. Typed /\ Modes /\ Typed'
  BY SetsTypedStep DEF SetsInv
<1>2. \A t \in Trans : decision[t] # "none" =>
          /\ decision'[t] # "none"
          /\ decision[t] \in {"free", "commit", "undo"} => decision'[t] = decision[t]
          /\ Acted(t) => Acted(t)'
  BY DecidedStep
<1> DEFINE Right(mode, t) ==
      /\ mode # "none" => t \in Trans /\ decision[t] # "none"
      /\ mode = "none" => t = 0
      /\ mode = "ACTION" => Acted(t)
      /\ mode \in Last => mode = LastPassOf(decision[t])
<1>3. \A c \in Cell : Right(asi[c].mode, asi[c].trans)
  BY <1>1 DEF Modes
<1>4. \A mode \in Mode : \A t : Right(mode, t) => Right(mode, t)'
  <2> SUFFICES ASSUME NEW mode \in Mode, NEW t, Right(mode, t) PROVE Right(mode, t)'
    OBVIOUS
  <2>1. CASE mode = "none"
    BY <2>1 DEF Last
  <2>2. CASE mode # "none"
    <3>1. t \in Trans /\ decision[t] # "none"
      BY <2>2
    <3>2. mode \in Last => decision[t] \in {"free", "commit", "undo"}
      BY DEF Last, LastPassOf
    <3> QED BY <1>2, <2>2, <3>1, <3>2
  <2> QED BY <2>1, <2>2
<1>5. \A c \in Cell : Right(asi[c].mode, asi[c].trans) /\ asi[c].mode \in Mode
  BY <1>1, <1>3 DEF Typed, CellType
<1> HIDE DEF Right
<1>6. SUFFICES \A c \in Cell : \E mode \in Mode : \E t : /\ Right(mode, t)
                                                         /\ asi'[c].mode = mode /\ asi'[c].trans = t
  <2>1. \A c \in Cell : \A mode, t : asi'[c].mode = mode /\ asi'[c].trans = t => Right(mode, t)'
    BY <1>4, <1>6
  <2> QED BY <2>1 DEF Right, Modes, Acted
<1>7. ASSUME UNCHANGED asi
      PROVE  \A c \in Cell : \E mode \in Mode : \E t : /\ Right(mode, t)
                                                       /\ asi'[c].mode = mode /\ asi'[c].trans = t
  BY <1>5, <1>7
<1>8. asi \in [Cell -> CellType]
  BY <1>1 DEF Typed
<1>9. CASE StartSet \/ MasterReads \/ MasterTimeout \/ Disconnect \/ EndOfStream
  <2>1. UNCHANGED asi \/ asi' = [c \in Cell |-> [asi[c] EXCEPT !.old = TRUE]]
    BY <1>1, <1>9, MasterMoves
  <2>2. ASSUME asi' = [c \in Cell |-> [asi[c] EXCEPT !.old = TRUE]], NEW c \in Cell
        PROVE  asi'[c].mode = asi[c].mode /\ asi'[c].trans = asi[c].trans
    BY <1>8, <2>2 DEF CellType
  <2> QED BY <1>5, <1>7, <2>1, <2>2
<1>10. CASE SubagentReads
  <2> DEFINE m == Head(toSub)
  <2>1. /\ toSub # <<>>
        /\ \/ \E c \in Cell : Tests(m, c)
           \/ \E c \in Cell, pass \in Passes : Goes(m, c, pass)
           \/ Fails(m)
    BY <1>1, <1>10, SubagentReadsMoves
  <2>2. m.trans \in Trans /\ decision[m.trans] # "none"
    BY <2>1, HeadAsked DEF Request, Fits
  <2>3. ASSUME NEW d \in Cell, NEW pass \in Passes, Goes(m, d, pass), NEW c \in Cell
        PROVE  \E mode \in Mode : \E t : Right(mode, t) /\ asi'[c].mode = mode /\ asi'[c].trans = t
    <3>1. CASE c = d
      <4>1. /\ asi[d].trans = m.trans /\ Agrees(pass, m.trans)
            /\ (pass = "ACTION" => Acted(m.trans)) /\ pass # "none"
        BY <2>1, <2>3, GoesRight
      <4>2. Right(pass, m.trans)
        BY <2>2, <4>1 DEF Right, Agrees
      <4>3. asi'[c].mode = pass /\ asi'[c].trans = asi[d].trans
        BY <1>8, <2>3, <3>1 DEF Goes, CellType
      <4>4. pass \in Mode
        BY DEF Mode
      <4> QED BY <4>1, <4>2, <4>3, <4>4
    <3>2. CASE c # d
      <4>1. asi'[c] = asi[c]
        BY <1>8, <2>3, <3>2 DEF Goes
      <4> QED BY <1>5, <4>1
    <3> QED BY <3>1, <3>2
  <2>4. ASSUME NEW d \in Cell, Tests(m, d), NEW c \in Cell
        PROVE  \E mode \in Mode : \E t : Right(mode, t) /\ asi'[c].mode = mode /\ asi'[c].trans = t
    <3>1. CASE c = d
      <4>1. Right("RESERVE1", m.trans) /\ "RESERVE1" \in Mode
        BY <2>2 DEF Right, Last, Mode, Passes, Reserving
      <4>2. asi'[c].mode = "RESERVE1" /\ asi'[c].trans = m.trans
        BY <1>8, <2>4, <3>1 DEF Tests
      <4> QED BY <4>1, <4>2
    <3>2. CASE c # d
      <4>1. asi'[c] = asi[c]
        BY <1>8, <2>4, <3>2 DEF Tests
      <4> QED BY <1>5, <4>1
    <3> QED BY <3>1, <3>2
  <2>5. Fails(m) => UNCHANGED asi
    BY DEF Fails
  <2> HIDE DEF m
  <2> QED BY <1>7, <2>1, <2>3, <2>4, <2>5
<1>11. CASE HandleSetResponse
  <2> DEFINE r == Head(replies)
  <2>1. ReservesAgain(r) \/ UNCHANGED asi
    BY <1>11, ResponseMoves DEF Answers, Crash, subVars
  <2>2. ASSUME ReservesAgain(r), NEW c \in Cell
        PROVE  \E mode \in Mode : \E t : Right(mode, t) /\ asi'[c].mode = mode /\ asi'[c].trans = t
    <3>1. CASE c = r.cell
      <4>1. asi[c].mode = "RESERVE1" /\ asi' = [asi EXCEPT ![c].mode = "RESERVE2"]
        BY <2>2, <3>1 DEF ReservesAgain
      <4>2. asi[c].trans \in Trans /\ decision[asi[c].trans] # "none"
        BY <1>3, <4>1 DEF Right
      <4>3. Right("RESERVE2", asi[c].trans) /\ "RESERVE2" \in Mode
        BY <4>2 DEF Right, Last, Mode, Passes, Reserving
      <4>4. asi'[c].mode = "RESERVE2" /\ asi'[c].trans = asi[c].trans
        BY <1>8, <4>1 DEF CellType
      <4> QED BY <4>3, <4>4
    <3>2. CASE c # r.cell
      <4>1. asi'[c] = asi[c]
        BY <1>8, <2>2, <3>2 DEF ReservesAgain
      <4> QED BY <1>5, <4>1
    <3> QED BY <3>1, <3>2
  <2> HIDE DEF r
  <2> QED BY <1>7, <2>1, <2>2
<1> QED BY <1>7, <1>9, <1>10, <1>11 DEF Next, Reconnect, InternalSet, FinishPass, subVars, setVars

\* The steps that leave the passes on their way.
LEMMA FlyingStays ==
    ASSUME [Next]_setVars, ~SubagentReads, ~InternalSet, ~FinishPass, ~HandleSetResponse
    PROVE  Flying' = Flying /\ UNCHANGED held
<1>1. UNCHANGED <<internal, running, replies, held>>
  BY DEF Next, StartSet, MasterReads, MasterTimeout, Disconnect, EndOfStream, Reconnect,
         agentVars, setVars
<1> QED BY <1>1 DEF Flying, Members

LEMMA PassingStep ==
    ASSUME SetsInv, [Next]_setVars
    PROVE  Passing'
<1>1. Typed /\ Passing /\ Typed'
  BY SetsTypedStep DEF SetsInv
<1> DEFINE Right(t, pass, command) == /\ decision[t] # "none" /\ Agrees(pass, t)
                                      /\ command = "COMMITSET" => Acted(t)
<1>2. \A p \in Flying : /\ Right(p.trans, p.pass, p.command)
                        /\ p.trans \in Trans /\ p.command \in Commands
  BY <1>1, FlyingFields DEF Passing
<1>3. \A t \in Trans : \A pass, command : Right(t, pass, command) => Right(t, pass, command)'
  <2> TAKE t \in Trans
  <2> TAKE pass, command
  <2> HAVE Right(t, pass, command)
  <2>1. decision'[t] # "none" /\ (Acted(t) => Acted(t)')
    BY DecidedStep
  <2>2. Agrees(pass, t)'
    BY AgreesOn
  <2> QED BY <2>1, <2>2
<1>4. Decided
  BY DEF SetsInv
<1> HIDE DEF Right
<1>5. \A p \in Flying' : p.trans \in Trans /\ Right(p.trans, p.pass, p.command)
  <2>1. ASSUME NEW p \in Flying', NEW q \in Flying, Same(p, q)
        PROVE  p.trans \in Trans /\ Right(p.trans, p.pass, p.command)
    BY <1>2, <2>1 DEF Same
  <2>2. CASE InternalSet \/ FinishPass
    BY <2>1, <2>2, InternalFlying, FinishFlying
  <2>3. CASE HandleSetResponse
    <3> TAKE p \in Flying'
    <3>1. CASE p \in Flying
      BY <1>2, <3>1
    <3>2. CASE p = QueuedPass("RESERVE2", Head(replies), Head(replies).cell)
      <4>1. Head(replies) \in Flying
        BY <2>3, ResponseFlying
      <4>2. /\ p.trans = Head(replies).trans /\ p.pass = "RESERVE2"
            /\ p.command = Head(replies).command
        BY <3>2 DEF QueuedPass
      <4>3. Agrees("RESERVE2", p.trans)
        BY DEF Agrees, Last
      <4> QED BY <1>2, <4>1, <4>2, <4>3 DEF Right
    <3> QED BY <2>3, <3>1, <3>2, ResponseFlying
  <2>4. CASE SubagentReads
    <3> TAKE p \in Flying'
    <3> DEFINE m == Head(toSub)
    <3>1. toSub # <<>> /\ m \in Request /\ Fits(m.command, m.trans)
      BY <1>1, <2>4, SubagentReadsMoves, HeadAsked
    <3>2. ASSUME NEW c \in Cell, NEW pass \in Passes, p = QueuedPass(pass, m, c),
                 Agrees(pass, m.trans)
          PROVE  p.trans \in Trans /\ Right(p.trans, p.pass, p.command)
      <4>1. p.trans = m.trans /\ p.pass = pass /\ p.command = m.command
        BY <3>2 DEF QueuedPass
      <4> QED BY <3>1, <3>2, <4>1 DEF Right, Fits, Request
    <3>3. ASSUME NEW c \in Cell, p = QueuedPass("RESERVE1", m, c)
          PROVE  p.trans \in Trans /\ Right(p.trans, p.pass, p.command)
      <4>1. Agrees("RESERVE1", m.trans) /\ "RESERVE1" \in Passes
        BY DEF Agrees, Last, Passes, Reserving
      <4> QED BY <3>2, <3>3, <4>1
    <3>4. ASSUME NEW c \in Cell, NEW pass \in Passes, Goes(m, c, pass), p = QueuedPass(pass, m, c)
          PROVE  p.trans \in Trans /\ Right(p.trans, p.pass, p.command)
      BY <3>1, <3>2, <3>4, GoesRight
    <3> QED BY <1>2, <2>4, <3>3, <3>4, ReadsFlying
  <2> QED BY <1>2, <2>2, <2>3, <2>4, FlyingStays
<1>6. \A i \in DOMAIN toMaster : toMaster[i] \in Reply
  BY <1>1, LenProperties, ElementOfSeq DEF Typed
<1>7. \A x \in Members(toMaster') : \/ x \in Members(toMaster)
                                    \/ \E p \in Flying : x.command = p.command /\ x.trans = p.trans
                                    \/ /\ SubagentReads /\ toSub # <<>>
                                       /\ x.command = Head(toSub).command
                                       /\ x.trans = Head(toSub).trans
  <2>1. toMaster \in Seq(Reply)
    BY <1>1 DEF Typed
  <2>2. UNCHANGED toMaster => Members(toMaster') = Members(toMaster)
    OBVIOUS
  <2>3. CASE StartSet \/ MasterReads \/ MasterTimeout \/ Disconnect \/ EndOfStream
    <3>1. \/ UNCHANGED toMaster
          \/ toMaster # <<>> /\ toMaster' = Tail(toMaster)
          \/ toMaster' = <<>>
      BY <1>1, <2>3, MasterMoves DEF Loses, Drains
    <3>2. CASE toMaster # <<>> /\ toMaster' = Tail(toMaster)
      BY <2>1, <3>2, FlyingTailed
    <3>3. CASE toMaster' = <<>>
      BY <3>3 DEF Members
    <3> QED BY <2>2, <3>1, <3>2, <3>3
  <2>4. CASE SubagentReads
    <3> DEFINE m == Head(toSub)
               x == [command |-> m.command, trans |-> m.trans, ok |-> FALSE]
    <3>1. toSub # <<>> /\ m \in Request
      BY <1>1, <2>4, SubagentReadsMoves, HeadAsked
    <3>2. UNCHANGED toMaster \/ toMaster' = Append(toMaster, x)
      BY <1>1, <2>4, SubagentReadsMoves DEF Tests, Goes, Fails
    <3>3. x \in Reply /\ x.command = m.command /\ x.trans = m.trans
      BY <3>1 DEF Reply, Request
    <3> HIDE DEF m, x
    <3>4. \A y \in Members(toMaster') : y \in Members(toMaster) \/ y = x
      BY <2>1, <2>2, <3>2, <3>3, FlyingAppended
    <3> QED BY <2>4, <3>1, <3>3, <3>4 DEF m
  <2>5. CASE HandleSetResponse
    <3> DEFINE r == Head(replies)
               x == [command |-> r.command, trans |-> r.trans, ok |-> r.ok]
    <3>1. r \in Flying /\ r \in Begun
      BY <2>5, ResponseFlying
    <3>2. UNCHANGED toMaster \/ toMaster' = Append(toMaster, x)
      BY <2>5, ResponseMoves DEF ReservesAgain, Answers, Crash
    <3>3. x \in Reply /\ x.command = r.command /\ x.trans = r.trans
      BY <3>1 DEF Reply, Begun
    <3> HIDE DEF r, x
    <3>4. \A y \in Members(toMaster') : y \in Members(toMaster) \/ y = x
      BY <2>1, <2>2, <3>2, <3>3, FlyingAppended
    <3> QED BY <3>1, <3>3, <3>4
  <2> QED BY <2>2, <2>3, <2>4, <2>5 DEF Next, Reconnect, InternalSet, FinishPass, setVars
<1>8. \A x \in Members(toMaster') : x.trans \in Trans /\ decision[x.trans] # "none"
                                    /\ (x.command = "COMMITSET" => Acted(x.trans))
  <2> TAKE x \in Members(toMaster')
  <2>1. CASE x \in Members(toMaster)
    BY <1>1, <1>6, <2>1 DEF Members, Passing, Reply
  <2>2. CASE \E p \in Flying : x.command = p.command /\ x.trans = p.trans
    BY <1>2, <2>2 DEF Right
  <2>3. CASE /\ SubagentReads /\ toSub # <<>>
             /\ x.command = Head(toSub).command /\ x.trans = Head(toSub).trans
    <3>1. Head(toSub) \in Request /\ Fits(Head(toSub).command, Head(toSub).trans)
      BY <2>3, HeadAsked
    <3> QED BY <2>3, <3>1 DEF Request, Fits
  <2> QED BY <1>7, <2>1, <2>2, <2>3
<1>9. \A e \in Entry : held'[e].pass # "none" => held'[e].trans \in Trans
  <2>1. held' \in [Entry -> HeldType] /\ held \in [Entry -> HeldType]
    BY <1>1 DEF Typed
  <2>2. ASSUME NEW p \in Begun, NEW f, NEW status, Pass(p, f, status), NEW e \in Entry,
               held'[e].pass # "none"
        PROVE  held'[e].trans \in Trans
    <3>1. CASE e = f
      BY <2>1, <2>2, <3>1 DEF Pass, Begun
    <3>2. CASE e # f
      BY <1>1, <2>1, <2>2, <3>2 DEF Pass, Passing
    <3> QED BY <3>1, <3>2
  <2>3. CASE UNCHANGED held
    BY <1>1, <2>3 DEF Passing
  <2>4. CASE InternalSet
    <3>1. Begins(Head(internal)) \in Begun
      BY <2>4, InternalFlying, BegunTyped
    <3>2. UNCHANGED held \/ \E f, status : Pass(Begins(Head(internal)), f, status)
      BY <1>1, <2>4, InternalMoves DEF CallHandlers, agentVars
    <3> QED BY <2>2, <2>3, <3>1, <3>2
  <2>5. CASE FinishPass
    BY <1>1, <2>2, <2>5, FinishMoves DEF Finishes
  <2>6. SubagentReads \/ HandleSetResponse => UNCHANGED held
    BY DEF SubagentReads, HandleSetResponse, agentVars
  <2> QED BY <2>3, <2>4, <2>5, <2>6, FlyingStays
<1>10. \A p \in Flying' : \A t, pass, command :
           t = p.trans /\ pass = p.pass /\ command = p.command => Right(t, pass, command)'
  BY <1>3, <1>5
<1>11. \A i \in DOMAIN toMaster' : \A t, command :
           t = toMaster'[i].trans /\ command = toMaster'[i].command =>
               decision'[t] # "none" /\ (command = "COMMITSET" => Acted(t)')
  <2>1. \A i \in DOMAIN toMaster' : toMaster'[i] \in Members(toMaster')
    BY DEF Members
  <2> QED BY <1>8, <2>1, DecidedStep
<1> QED BY <1>9, <1>10, <1>11 DEF Passing, Right, Agrees, Acted

LEMMA AgreementStep ==
    ASSUME SetsInv, [Next]_setVars
    PROVE  Agreement'
<1>1. Typed /\ Passing /\ Agreement /\ Typed'
  BY SetsTypedStep DEF SetsInv
<1>2. \A e \in Entry : held[e].pass \in Last =>
          /\ held[e].trans \in Trans /\ decision[held[e].trans] # "none"
          /\ Agrees(held[e].pass, held[e].trans)
  <2> TAKE e \in Entry
  <2> HAVE held[e].pass \in Last
  <2>1. held[e].trans \in Trans
    BY <1>1 DEF Passing, Last
  <2>2. held[e].pass = LastPassOf(decision[held[e].trans])
    BY <1>1 DEF Agreement
  <2> QED BY <2>1, <2>2 DEF Agrees, Last, LastPassOf
<1>3. SUFFICES \A e \in Entry : held'[e].pass \in Last =>
                   /\ held'[e].trans \in Trans /\ decision[held'[e].trans] # "none"
                   /\ Agrees(held'[e].pass, held'[e].trans)
  <2>1. \A e \in Entry : \A t, pass : held'[e].pass = pass /\ held'[e].trans = t /\ pass \in Last
                                      => Agrees(pass, t)'
    BY <1>3, AgreesOn
  <2> QED BY <2>1 DEF Agreement, Agrees
<1>4. held \in [Entry -> HeldType]
  BY <1>1 DEF Typed
<1>5. ASSUME NEW p, NEW f, NEW status, Pass(p, f, status),
             p.trans \in Trans, decision[p.trans] # "none", Agrees(p.pass, p.trans),
             NEW e \in Entry, held'[e].pass \in Last
      PROVE  /\ held'[e].trans \in Trans /\ decision[held'[e].trans] # "none"
             /\ Agrees(held'[e].pass, held'[e].trans)
  <2>1. CASE e = f
    <3>1. held'[e].trans = p.trans /\ held'[e].pass = p.pass
      BY <1>4, <1>5, <2>1 DEF Pass
    <3> QED BY <1>5, <3>1
  <2>2. CASE e # f
    BY <1>2, <1>4, <1>5, <2>2 DEF Pass
  <2> QED BY <2>1, <2>2
<1>6. CASE UNCHANGED held
  BY <1>2, <1>6
<1>7. CASE InternalSet
  <2> DEFINE q == Head(internal)
             p == Begins(q)
  <2>1. /\ q \in Flying /\ q.trans \in Trans
        /\ p.trans = q.trans /\ p.pass = q.pass
    BY <1>1, <1>7, InternalFlying, FlyingFields DEF Begins
  <2>2. UNCHANGED held \/ \E f, status : Pass(p, f, status)
    BY <1>1, <1>7, InternalMoves DEF CallHandlers, agentVars
  <2> HIDE DEF p, q
  <2> QED BY <1>1, <1>5, <1>6, <2>1, <2>2 DEF Passing
<1>8. CASE FinishPass
  <2>1. PICK p \in Begun, ok \in BOOLEAN : Finishes(p, ok)
    BY <1>1, <1>8, FinishMoves
  <2>2. p \in Flying /\ \E status : Pass(p, p.entry, status)
    BY <2>1 DEF Finishes, Flying
  <2>3. p.trans \in Trans
    BY <1>1, <2>2, FlyingFields
  <2> QED BY <1>1, <1>5, <2>2, <2>3 DEF Passing
<1>9. SubagentReads \/ HandleSetResponse => UNCHANGED held
  BY DEF SubagentReads, HandleSetResponse, agentVars
<1> QED BY <1>6, <1>7, <1>8, <1>9, FlyingStays

-----------------------------------------------------------------------------
(* A live SET keeps its cells.                                             *)

\* The newest cell of a SET stays the newest when another is made or freed.
LEMMA NewestKept ==
    ASSUME Typed, NEW t, NEW c, Newest(c, t), UNCHANGED subagentSets,
           \A d \in Cell : asi'[d].trans = asi[d].trans
    PROVE  Newest(c, t)'
<1>1. \A i \in DOMAIN subagentSets : subagentSets[i] \in Cell
  BY LenProperties, ElementOfSeq DEF Typed
<1> QED BY <1>1 DEF Newest

LEMMA NewestPrepended ==
    ASSUME Typed, NEW t, NEW c, Newest(c, t), NEW d \in Cell, d \notin Members(subagentSets),
           subagentSets' = <<d>> \o subagentSets, asi'[d].trans # t,
           \A x \in Cell : x # d => asi'[x] = asi[x]
    PROVE  Newest(c, t)'
<1>1. /\ Len(subagentSets) \in Nat /\ DOMAIN subagentSets = 1 .. Len(subagentSets)
      /\ DOMAIN subagentSets' = 1 .. Len(subagentSets) + 1 /\ subagentSets'[1] = d
      /\ \A i \in 1 .. Len(subagentSets) : subagentSets'[i + 1] = subagentSets[i]
  BY Prepended DEF Typed
<1>2. PICK i \in DOMAIN subagentSets :
          /\ subagentSets[i] = c /\ asi[c].trans = t
          /\ \A j \in DOMAIN subagentSets : j < i => asi[subagentSets[j]].trans # t
  BY DEF Newest
<1>3. \A j \in DOMAIN subagentSets : asi'[subagentSets[j]] = asi[subagentSets[j]]
  <2>1. \A j \in DOMAIN subagentSets : subagentSets[j] \in Cell /\ subagentSets[j] # d
    BY LenProperties, ElementOfSeq DEF Typed, Members
  <2> QED BY <2>1
<1>4. /\ i + 1 \in DOMAIN subagentSets' /\ subagentSets'[i + 1] = c /\ asi'[c].trans = t
  BY <1>1, <1>2, <1>3
<1>5. \A j \in DOMAIN subagentSets' : j < i + 1 => asi'[subagentSets'[j]].trans # t
  <2> TAKE j \in DOMAIN subagentSets'
  <2> HAVE j < i + 1
  <2>1. CASE j = 1
    BY <1>1, <2>1
  <2>2. CASE j # 1
    <3>1. j - 1 \in 1 .. Len(subagentSets) /\ (j - 1) + 1 = j /\ j - 1 < i
      BY <1>1, <2>2
    <3> QED BY <1>1, <1>2, <1>3, <3>1
  <2> QED BY <2>1, <2>2
<1> QED BY <1>4, <1>5 DEF Newest

LEMMA NewestRemoved ==
    ASSUME Typed, NEW t, NEW c, Newest(c, t), NEW k \in DOMAIN subagentSets,
           subagentSets' = Without(subagentSets, k), asi[subagentSets[k]].trans # t, UNCHANGED asi
    PROVE  Newest(c, t)'
<1>1. /\ Len(subagentSets) \in Nat /\ DOMAIN subagentSets = 1 .. Len(subagentSets)
      /\ DOMAIN subagentSets' = 1 .. Len(subagentSets) - 1
      /\ \A i \in 1 .. Len(subagentSets) - 1 : /\ i < k => subagentSets'[i] = subagentSets[i]
                                               /\ i >= k => subagentSets'[i] = subagentSets[i + 1]
  BY Removed DEF Typed
<1>2. PICK i \in DOMAIN subagentSets :
          /\ subagentSets[i] = c /\ asi[c].trans = t
          /\ \A j \in DOMAIN subagentSets : j < i => asi[subagentSets[j]].trans # t
  BY DEF Newest
<1>3. i # k
  BY <1>2
<1>4. \E x \in DOMAIN subagentSets' : subagentSets'[x] = c /\ x = IF i < k THEN i ELSE i - 1
  <2>1. CASE i < k
    BY <1>1, <1>2, <2>1
  <2>2. CASE ~(i < k)
    <3>1. i - 1 \in 1 .. Len(subagentSets) - 1 /\ i - 1 >= k /\ (i - 1) + 1 = i
      BY <1>1, <1>3, <2>2
    <3> QED BY <1>1, <1>2, <2>2, <3>1
  <2> QED BY <2>1, <2>2
<1>5. PICK x \in DOMAIN subagentSets' : subagentSets'[x] = c /\ x = IF i < k THEN i ELSE i - 1
  BY <1>4
<1>6. \A j \in DOMAIN subagentSets' : j < x => asi[subagentSets'[j]].trans # t
  <2> TAKE j \in DOMAIN subagentSets'
  <2> HAVE j < x
  <2>1. CASE j < k
    BY <1>1, <1>2, <1>5, <2>1
  <2>2. CASE ~(j < k)
    <3>1. j + 1 \in DOMAIN subagentSets /\ j + 1 < i /\ subagentSets'[j] = subagentSets[j + 1]
      BY <1>1, <1>5, <2>2
    <3> QED BY <1>2, <3>1
  <2> QED BY <2>1, <2>2
<1> QED BY <1>2, <1>5, <1>6 DEF Newest

\* What the master sends.
LEMMA Sent ==
    ASSUME SetsInv, [Next]_setVars, NEW i \in DOMAIN toSub', NEW m, m = toSub'[i]
    PROVE  \/ \E j \in DOMAIN toSub : m = toSub[j]
           \/ m.command = "TESTSET" /\ ~Acted(m.trans)
           \/ m.command = "CLEANUPSET" /\ decision[m.trans] = "open"
           \/ m.command \in {"COMMITSET", "UNDOSET"}
<1>1. toSub \in Seq(Request) /\ Typed /\ Decided
  BY DEF SetsInv, Typed
<1>2. ASSUME NEW t \in Trans, NEW command \in Commands,
             toSub' = Append(toSub, [command |-> command, trans |-> t])
      PROVE  (\E j \in DOMAIN toSub : m = toSub[j]) \/ (m.command = command /\ m.trans = t)
  <2> DEFINE x == [command |-> command, trans |-> t]
  <2>1. x \in Request /\ x.command = command /\ x.trans = t
    BY DEF Request
  <2> HIDE DEF x
  <2>2. \A y \in Members(Append(toSub, x)) : y = x \/ y \in Members(toSub)
    BY <1>1, <2>1, FlyingAppended
  <2>3. m \in Members(toSub')
    BY DEF Members
  <2>4. m = x \/ m \in Members(toSub)
    BY <1>2, <2>2, <2>3 DEF x
  <2> QED BY <2>1, <2>4 DEF Members
<1>3. CASE UNCHANGED toSub
  BY <1>3
<1>4. CASE toSub # <<>> /\ toSub' = Tail(toSub)
  <2>1. m \in Members(toSub)
    BY <1>1, <1>4, FlyingTailed DEF Members
  <2> QED BY <2>1 DEF Members
<1>5. CASE Starts
  <2>1. master.trans \in 0 .. NumTrans
    BY <1>1 DEF Typed
  <2>2. PICK n \in Trans : n = master.trans + 1 /\ n > master.trans
    BY <1>5, <2>1 DEF Starts
  <2>3. decision[n] = "none" /\ n # master.trans
    BY <1>1, <2>1, <2>2 DEF Decided
  <2>4. ~Acted(n)
    BY <2>3 DEF Acted
  <2>5. toSub' = Append(toSub, [command |-> "TESTSET", trans |-> n])
    BY <1>5, <2>2 DEF Starts
  <2>6. (\E j \in DOMAIN toSub : m = toSub[j]) \/ (m.command = "TESTSET" /\ m.trans = n)
    BY <1>2, <2>5 DEF Commands
  <2> QED BY <2>4, <2>6
<1>6. CASE Resends \/ Commits \/ Frees \/ Ends \/ Undoes
  <2>1. PICK command \in Commands : To(command) /\ master.awaits # "none" /\
           \/ master.awaits = "TESTSET" /\ command = "TESTSET"
           \/ master.awaits # "UNDOSET" /\ command = "CLEANUPSET"
           \/ command \in {"COMMITSET", "UNDOSET"}
    BY <1>6 DEF Resends, Commits, Frees, Ends, Undoes, Awaits, Commands
  <2>2. /\ master.trans \in Trans
        /\ decision[master.trans] = IF master.awaits = "UNDOSET" THEN "undo" ELSE "open"
    BY <1>1, <2>1 DEF Decided
  <2>3. master.awaits = "TESTSET" => ~Acted(master.trans)
    BY <2>2 DEF Acted
  <2>4. (\E j \in DOMAIN toSub : m = toSub[j]) \/ (m.command = command /\ m.trans = master.trans)
    BY <1>2, <2>1, <2>2 DEF To
  <2> QED BY <2>1, <2>2, <2>3, <2>4
<1>7. CASE Drains
  BY <1>7 DEF Drains
<1>8. CASE Ignores \/ Undone \/ Loses
  BY <1>3, <1>8 DEF Ignores, Undone, Loses
<1> QED BY <1>3, <1>4, <1>5, <1>6, <1>7, <1>8, Acts DEF MasterActs

\* A SET is live from its start.
LEMMA LiveBefore ==
    ASSUME SetsInv, [Next]_setVars, NEW t \in Trans, Live(t)', decision[t] # "none"
    PROVE  Live(t)
<1>1. decision[t] \in {"open", "free", "commit", "undo"}
  BY DEF SetsInv, Typed
<1>2. decision[t] \in {"free", "commit", "undo"} => decision'[t] = decision[t]
  BY DecidedStep
<1>3. CASE decision[t] = "open"
  BY <1>3 DEF Live
<1>4. CASE decision[t] = "commit"
  <2>1. PICK i \in DOMAIN toSub' : toSub'[i] = [command |-> "CLEANUPSET", trans |-> t]
    BY <1>2, <1>4 DEF Live
  <2>2. \E j \in DOMAIN toSub : toSub'[i] = toSub[j]
    BY <1>4, <2>1, Sent
  <2> QED BY <1>4, <2>1, <2>2 DEF Live
<1> QED BY <1>1, <1>2, <1>3, <1>4 DEF Live

LEMMA CommittingActed ==
    ASSUME SetsInv, NEW t \in Trans, Committing(t)
    PROVE  Acted(t)
<1>1. CASE decision[t] = "commit"
  BY <1>1 DEF Acted
<1>2. CASE \E p \in Flying : p.trans = t /\ p.command = "COMMITSET"
  BY <1>2 DEF SetsInv, Passing
<1>3. CASE \E i \in DOMAIN toMaster : toMaster[i] = [command |-> "COMMITSET", trans |-> t,
                                                     ok |-> TRUE]
  BY <1>3 DEF SetsInv, Passing
<1> QED BY <1>1, <1>2, <1>3 DEF Committing

\* What a step has to keep for Lively.
Lives(t) == /\ \A c \in Cell : asi[c].trans = t => asi[c].mode \notin Last
            /\ \A p \in Flying : p.trans = t =>
                  asi[p.cell].trans = t /\ \E i \in DOMAIN subagentSets : subagentSets[i] = p.cell
            /\ Committing(t) =>
                  /\ \E c \in Cell : Newest(c, t) /\ asi[c].mode = "ACTION"
                  /\ \A i \in DOMAIN toSub : toSub[i].trans = t => toSub[i].command # "TESTSET"

LEMMA NothingTested ==
    ASSUME SetsInv, [Next]_setVars, NEW t \in Trans, Live(t), Committing(t)
    PROVE  \A i \in DOMAIN toSub' : toSub'[i].trans = t => toSub'[i].command # "TESTSET"
<1> SUFFICES ASSUME NEW i \in DOMAIN toSub', toSub'[i].trans = t, toSub'[i].command = "TESTSET"
             PROVE  FALSE
  OBVIOUS
<1>1. Acted(t)
  BY CommittingActed
<1>2. \E j \in DOMAIN toSub : toSub'[i] = toSub[j]
  BY <1>1, Sent
<1> QED BY <1>2 DEF SetsInv, Lively

LEMMA LivesMaster ==
    ASSUME SetsInv, [Next]_setVars, StartSet \/ MasterReads \/ MasterTimeout \/ Disconnect \/
           EndOfStream,
           NEW t \in Trans, Live(t)'
    PROVE  Lives(t)'
<1>1. Typed /\ Lively /\ Modes /\ Passing
  BY DEF SetsInv
<1>2. UNCHANGED <<subagentSets, internal, running, replies>> /\ Flying' = Flying
  <2>1. UNCHANGED <<subagentSets, internal, running, replies>>
    BY DEF StartSet, MasterReads, MasterTimeout, Disconnect, EndOfStream, subVars, agentVars
  <2> QED BY <2>1 DEF Flying, Members
<1>3. \A c \in Cell : asi'[c].trans = asi[c].trans /\ asi'[c].mode = asi[c].mode
  <2>1. asi \in [Cell -> CellType]
    BY <1>1 DEF Typed
  <2>2. UNCHANGED asi \/ asi' = [c \in Cell |-> [asi[c] EXCEPT !.old = TRUE]]
    BY <1>1, MasterMoves
  <2>3. ASSUME asi' = [c \in Cell |-> [asi[c] EXCEPT !.old = TRUE]], NEW c \in Cell
        PROVE  asi'[c].mode = asi[c].mode /\ asi'[c].trans = asi[c].trans
    BY <2>1, <2>3 DEF CellType
  <2> QED BY <2>2, <2>3
<1>4. \A p \in Flying : p.cell \in Cell
  BY <1>1, FlyingFields
<1>5. CASE decision[t] = "none"
  <2>1. \A c \in Cell : asi[c].trans # t
    BY <1>1, <1>5, Numbers DEF Modes
  <2>2. \A p \in Flying : p.trans # t
    BY <1>1, <1>5 DEF Passing
  <2>3. ~Committing(t)'
    <3>1. decision'[t] = "open"
      <4>1. Starts \/ ~Starts
        OBVIOUS
      <4>2. decision' = decision \/ Starts \/ \E d : Becomes(d) /\ master.awaits # "none"
        BY <1>1, MasterMoves DEF Ignores, Resends, Commits, Frees, Ends, Undoes, Undone, Loses,
           Drains, Awaits
      <4>3. /\ decision \in [Trans -> {"none", "open", "free", "commit", "undo"}]
            /\ master.awaits # "none" => /\ master.trans \in Trans
                                         /\ decision[master.trans] # "none"
        BY DEF SetsInv, Typed, Decided
      <4>4. decision'[t] # "none"
        BY <1>5 DEF Live
      <4>5. CASE Starts
        BY <1>5, <4>3, <4>4, <4>5 DEF Starts
      <4>6. CASE decision' = decision
        BY <1>5, <4>4, <4>6
      <4>7. CASE \E d : Becomes(d) /\ master.awaits # "none"
        BY <1>5, <4>3, <4>4, <4>7 DEF Becomes
      <4> QED BY <4>2, <4>5, <4>6, <4>7
    <3>2. \A i \in DOMAIN toMaster' : toMaster'[i].trans # t
      <4>1. \A i \in DOMAIN toMaster : toMaster[i].trans # t
        BY <1>1, <1>5 DEF Passing
      <4>2. \/ UNCHANGED toMaster \/ toMaster' = <<>>
            \/ toMaster # <<>> /\ toMaster' = Tail(toMaster)
        BY <1>1, MasterMoves DEF Loses, Drains
      <4>3. toMaster \in Seq(Reply)
        BY <1>1 DEF Typed
      <4>4. CASE toMaster # <<>> /\ toMaster' = Tail(toMaster)
        <5>1. \A y \in Members(toMaster') : y \in Members(toMaster)
          BY <4>3, <4>4, FlyingTailed
        <5> QED BY <4>1, <5>1 DEF Members
      <4> QED BY <4>1, <4>2, <4>4
    <3> QED BY <1>2, <2>2, <3>1, <3>2 DEF Committing
  <2> QED BY <1>2, <1>3, <2>1, <2>2, <2>3 DEF Lives
<1>6. CASE decision[t] # "none"
  <2>1. Live(t)
    BY <1>6, LiveBefore
  <2>2. Committing(t)' => Committing(t)
    <3> SUFFICES ASSUME Committing(t)' PROVE Committing(t)
      OBVIOUS
    <3>1. CASE decision[t] = "commit"
      BY <3>1 DEF Committing
    <3>2. CASE decision'[t] = "commit" /\ decision[t] # "commit"
      <4>1. toMaster # <<>> /\ Expected(Head(toMaster)) /\ Head(toMaster).ok /\ Ends
        <5>1. /\ decision \in [Trans -> {"none", "open", "free", "commit", "undo"}]
              /\ master.trans + 1 \in Trans \/ ~Starts
              /\ master.awaits # "none" => master.trans \in Trans
          BY DEF SetsInv, Typed, Decided, Starts
        <5>2. ~Starts
          BY <3>2, <5>1 DEF Starts
        <5>3. \A d : Becomes(d) /\ master.awaits # "none" => d = "commit"
          BY <3>2, <5>1 DEF Becomes
        <5>4. ~Frees /\ ~Undoes /\ ~Loses
          BY <3>2, <5>3 DEF Frees, Undoes, Loses, Awaits
        <5>5. ~Ignores /\ ~Resends /\ ~Commits /\ ~Undone /\ ~Drains
          BY <3>2 DEF Ignores, Resends, Commits, Undone, Drains
        <5> QED BY <1>1, <5>2, <5>4, <5>5, MasterMoves
      <4>2. toMaster \in Seq(Reply) /\ master.trans \in Trans
        BY <4>1 DEF SetsInv, Typed, Decided, Ends, Awaits
      <4>3. Head(toMaster) \in Reply /\ Head(toMaster) = toMaster[1] /\ 1 \in DOMAIN toMaster
        BY <4>1, <4>2, Tailed
      <4>4. t = master.trans
        BY <3>2, <4>1, <4>2 DEF Ends, Becomes, SetsInv, Typed
      <4>5. Head(toMaster).command = "COMMITSET" /\ Head(toMaster).trans = t
            /\ Head(toMaster).ok = TRUE
        BY <4>1, <4>3, <4>4 DEF Expected, Ends, Awaits, Reply
      <4>6. toMaster[1] = [command |-> "COMMITSET", trans |-> t, ok |-> TRUE]
        BY <4>3, <4>5 DEF Reply
      <4> QED BY <4>3, <4>6 DEF Committing
    <3>3. CASE \E i \in DOMAIN toMaster' : toMaster'[i] = [command |-> "COMMITSET", trans |-> t,
                                                           ok |-> TRUE]
      <4>1. \/ UNCHANGED toMaster \/ toMaster' = <<>>
            \/ toMaster # <<>> /\ toMaster' = Tail(toMaster)
        BY <1>1, MasterMoves DEF Loses, Drains
      <4>2. toMaster \in Seq(Reply)
        BY <1>1 DEF Typed
      <4>3. CASE toMaster # <<>> /\ toMaster' = Tail(toMaster)
        <5>1. \A y \in Members(toMaster') : y \in Members(toMaster)
          BY <4>2, <4>3, FlyingTailed
        <5> QED BY <3>3, <5>1 DEF Members, Committing
      <4> QED BY <3>3, <4>1, <4>3 DEF Committing
    <3>4. CASE \E p \in Flying : p.trans = t /\ p.command = "COMMITSET"
      BY <3>4 DEF Committing
    <3> QED BY <1>2, <3>1, <3>2, <3>3, <3>4 DEF Committing
  <2>3. Lives(t)
    BY <1>1, <2>1 DEF Lively, Lives
  <2>4. \A c : Newest(c, t) => Newest(c, t)'
    BY <1>1, <1>2, <1>3, NewestKept
  <2>5. Committing(t)' =>
            \A i \in DOMAIN toSub' : toSub'[i].trans = t => toSub'[i].command # "TESTSET"
    BY <2>1, <2>2, NothingTested
  <2>6. Committing(t)' => \E c \in Cell : Newest(c, t)' /\ asi'[c].mode = "ACTION"
    BY <1>3, <2>2, <2>3, <2>4 DEF Lives
  <2>7. \A c \in Cell : asi'[c].trans = t => asi'[c].mode \notin Last
    BY <1>3, <2>3 DEF Lives
  <2>8. \A p \in Flying' : p.trans = t =>
            /\ asi'[p.cell].trans = t
            /\ \E i \in DOMAIN subagentSets' : subagentSets'[i] = p.cell
    BY <1>2, <1>3, <1>4, <2>3 DEF Lives
  <2> QED BY <2>5, <2>6, <2>7, <2>8 DEF Lives
<1> QED BY <1>5, <1>6

LEMMA LivesReads ==
    ASSUME SetsInv, [Next]_setVars, SubagentReads, NEW t \in Trans, Live(t)'
    PROVE  Lives(t)'
<1> DEFINE m == Head(toSub)
<1>1. /\ toSub # <<>> /\ toSub' = Tail(toSub)
      /\ \/ \E c \in Cell : Tests(m, c)
         \/ \E c \in Cell, pass \in Passes : Goes(m, c, pass)
         \/ Fails(m)
  BY SubagentReadsMoves DEF SetsInv
<1>2. /\ m \in Request /\ Fits(m.command, m.trans)
      /\ 1 \in DOMAIN toSub /\ toSub[1] = m
  BY <1>1, HeadAsked
<1>3. Typed /\ Lively /\ Asked /\ UNCHANGED <<master, decision, running, replies>>
  BY DEF SetsInv, SubagentReads, masterVars, agentVars
<1>4. Live(t)
  <2>1. decision[t] # "none"
    BY <1>3 DEF Live
  <2> QED BY <2>1, LiveBefore
<1>5. Lives(t)
  BY <1>3, <1>4 DEF Lively, Lives
<1>6. asi \in [Cell -> CellType] /\ \A i \in DOMAIN subagentSets : subagentSets[i] \in Cell
  BY <1>3, LenProperties, ElementOfSeq DEF Typed
<1>7. \A i \in DOMAIN toSub' : i + 1 \in DOMAIN toSub /\ toSub'[i] = toSub[i + 1] /\ 1 < i + 1
  <2>1. toSub \in Seq(Request)
    BY <1>3 DEF Typed
  <2>2. /\ Len(toSub) \in Nat /\ DOMAIN toSub = 1 .. Len(toSub)
        /\ DOMAIN toSub' = 1 .. Len(toSub) - 1
        /\ \A i \in 1 .. Len(toSub) - 1 : toSub'[i] = toSub[i + 1]
    BY <1>1, <2>1, Tailed
  <2> QED BY <2>2
<1>8. \A p \in Flying : p.cell \in Cell
  BY <1>3, FlyingFields
<1>9. \A p \in Flying' : \/ p \in Flying
                         \/ \E c \in Cell : Tests(m, c) /\ p = QueuedPass("RESERVE1", m, c)
                         \/ \E c \in Cell, pass \in Passes : Goes(m, c, pass)
                                                             /\ p = QueuedPass(pass, m, c)
  BY ReadsFlying
<1> HIDE DEF m
<1>10. ASSUME NEW c \in Cell, Tests(m, c)
       PROVE  Lives(t)'
  <2>1. /\ m.command = "TESTSET" /\ c \notin Members(subagentSets)
        /\ asi' = [asi EXCEPT ![c] = [trans |-> m.trans, mode |-> "RESERVE1", old |-> FALSE]]
        /\ subagentSets' = <<c>> \o subagentSets /\ UNCHANGED toMaster
        /\ internal' = Append(internal, QueuedPass("RESERVE1", m, c))
    BY <1>10 DEF Tests
  <2>2. /\ asi'[c].trans = m.trans /\ asi'[c].mode = "RESERVE1"
        /\ \A d \in Cell : d # c => asi'[d] = asi[d]
    BY <1>6, <2>1
  <2>3. /\ Len(subagentSets) \in Nat /\ DOMAIN subagentSets = 1 .. Len(subagentSets)
        /\ DOMAIN subagentSets' = 1 .. Len(subagentSets) + 1 /\ subagentSets'[1] = c
        /\ \A i \in 1 .. Len(subagentSets) : subagentSets'[i + 1] = subagentSets[i]
    BY <1>3, <2>1, Prepended DEF Typed
  <2>4. \A i \in DOMAIN subagentSets : \E j \in DOMAIN subagentSets' :
            subagentSets'[j] = subagentSets[i]
    BY <2>3
  <2>5. 1 \in DOMAIN subagentSets'
    BY <2>3
  <2>6. \A x \in Cell : asi'[x].trans = t => asi'[x].mode \notin Last
    BY <1>5, <2>2 DEF Lives, Last
  <2>7. \A p \in Flying' : \/ p \in Flying
                           \/ p.trans = m.trans /\ p.command = "TESTSET" /\ p.cell = c
    <3> TAKE p \in Flying'
    <3>1. SUFFICES ASSUME p \notin Flying
                   PROVE  p.trans = m.trans /\ p.command = "TESTSET" /\ p.cell = c
      OBVIOUS
    <3>2. p.trans = m.trans /\ p.command = "TESTSET"
      BY <1>9, <2>1, <3>1 DEF QueuedPass
    <3>3. p \in Members(internal') /\ p \notin Members(internal)
      BY <1>3, <3>1 DEF Flying, Members
    <3>4. internal \in Seq(Queued) /\ QueuedPass("RESERVE1", m, c) \in Queued
      BY <1>2, <1>3, QueuedTyped DEF Typed, Request, Passes, Reserving
    <3>5. p = QueuedPass("RESERVE1", m, c)
      BY <2>1, <3>3, <3>4, FlyingAppended
    <3> QED BY <3>2, <3>5 DEF QueuedPass
  <2>8. \A p \in Flying' : p.trans = t =>
            /\ asi'[p.cell].trans = t
            /\ \E i \in DOMAIN subagentSets' : subagentSets'[i] = p.cell
    <3> TAKE p \in Flying'
    <3> HAVE p.trans = t
    <3>1. CASE p \in Flying
      <4>1. p.cell \in Cell /\ asi[p.cell].trans = t
            /\ \E i \in DOMAIN subagentSets : subagentSets[i] = p.cell
        BY <1>5, <1>8, <3>1 DEF Lives
      <4>2. p.cell # c
        BY <2>1, <4>1 DEF Members
      <4> QED BY <2>2, <2>4, <4>1, <4>2
    <3>2. CASE p.trans = m.trans /\ p.cell = c
      BY <2>2, <2>3, <2>5, <3>2
    <3> QED BY <2>7, <3>1, <3>2
  <2>9. ASSUME Committing(t)'
        PROVE  /\ \E x \in Cell : Newest(x, t)' /\ asi'[x].mode = "ACTION"
               /\ \A i \in DOMAIN toSub' : toSub'[i].trans = t => toSub'[i].command # "TESTSET"
    <3>1. Committing(t)
      BY <1>3, <2>1, <2>7, <2>9 DEF Committing
    <3>2. m.trans # t
      BY <1>2, <1>5, <2>1, <3>1 DEF Lives
    <3>3. PICK x \in Cell : Newest(x, t) /\ asi[x].mode = "ACTION"
      BY <1>5, <3>1 DEF Lives
    <3>4. x # c
      BY <2>1, <3>3 DEF Newest, Members
    <3>5. Newest(x, t)'
      BY <1>3, <2>1, <2>2, <3>2, <3>3, NewestPrepended
    <3> QED BY <1>4, <2>2, <3>1, <3>3, <3>4, <3>5, NothingTested
  <2> QED BY <2>6, <2>8, <2>9 DEF Lives
<1>11. ASSUME NEW c \in Cell, NEW pass \in Passes, Goes(m, c, pass)
       PROVE  Lives(t)'
  <2>1. /\ m.command # "TESTSET" /\ Newest(c, m.trans) /\ asi[c].trans = m.trans
        /\ pass = PassOf(m.command, asi[c].mode) /\ pass \in {"FREE", "ACTION", "COMMIT", "UNDO"}
        /\ asi' = [asi EXCEPT ![c].mode = pass] /\ UNCHANGED <<toMaster, subagentSets>>
        /\ internal' = Append(internal, QueuedPass(pass, m, c))
    BY <1>11 DEF Goes, Newest
  <2>2. /\ \A d \in Cell : asi'[d].trans = asi[d].trans /\ (d # c => asi'[d].mode = asi[d].mode)
        /\ asi'[c].mode = pass
    BY <1>6, <2>1 DEF CellType
  <2>3. m.trans = t => m.command = "COMMITSET" /\ pass = "ACTION"
    <3> SUFFICES ASSUME m.trans = t PROVE m.command = "COMMITSET" /\ pass = "ACTION"
      OBVIOUS
    <3>1. m.command # "UNDOSET"
      BY <1>2, <1>4 DEF Fits, Live
    <3>2. ASSUME m.command = "CLEANUPSET" PROVE FALSE
      <4>1. decision'[t] = "commit"
        BY <1>2, <1>3, <1>4, <3>2 DEF Fits, Live
      <4>2. PICK i \in DOMAIN toSub' : toSub'[i] = [command |-> "CLEANUPSET", trans |-> t]
        BY <4>1 DEF Live
      <4>3. toSub[i + 1].command = "CLEANUPSET" /\ toSub[i + 1].trans = t /\ i + 1 # 1
            /\ i + 1 \in DOMAIN toSub
        BY <1>7, <4>2
      <4> QED BY <1>2, <1>3, <3>2, <4>3 DEF Asked
    <3>3. m.command = "COMMITSET"
      BY <1>2, <2>1, <3>1, <3>2 DEF Request, Commands
    <3> QED BY <2>1, <3>3 DEF PassOf
  <2>4. \A x \in Cell : asi'[x].trans = t => asi'[x].mode \notin Last
    <3> TAKE x \in Cell
    <3>1. CASE x = c
      BY <2>1, <2>2, <2>3, <3>1 DEF Last
    <3>2. CASE x # c
      BY <1>5, <2>2, <3>2 DEF Lives
    <3> QED BY <3>1, <3>2
  <2>5. \A p \in Flying' : \/ p \in Flying
                           \/ p.trans = m.trans /\ p.command = m.command /\ p.cell = c
    <3> TAKE p \in Flying'
    <3>1. SUFFICES ASSUME p \notin Flying
                   PROVE  p.trans = m.trans /\ p.command = m.command /\ p.cell = c
      OBVIOUS
    <3>2. p \in Members(internal') /\ p \notin Members(internal)
      BY <1>3, <3>1 DEF Flying, Members
    <3>3. internal \in Seq(Queued) /\ QueuedPass(pass, m, c) \in Queued
      BY <1>2, <1>3, QueuedTyped DEF Typed, Request
    <3>4. p = QueuedPass(pass, m, c)
      BY <2>1, <3>2, <3>3, FlyingAppended
    <3> QED BY <3>4 DEF QueuedPass
  <2>6. \A p \in Flying' : p.trans = t =>
            /\ asi'[p.cell].trans = t
            /\ \E i \in DOMAIN subagentSets' : subagentSets'[i] = p.cell
    <3> TAKE p \in Flying'
    <3> HAVE p.trans = t
    <3>1. CASE p \in Flying
      BY <1>5, <1>8, <2>1, <2>2, <3>1 DEF Lives
    <3>2. CASE p.trans = m.trans /\ p.cell = c
      BY <2>1, <2>2, <3>2 DEF Newest
    <3> QED BY <2>5, <3>1, <3>2
  <2>7. ASSUME Committing(t)', m.trans # t
        PROVE  /\ \E x \in Cell : Newest(x, t)' /\ asi'[x].mode = "ACTION"
               /\ \A i \in DOMAIN toSub' : toSub'[i].trans = t => toSub'[i].command # "TESTSET"
    <3>1. Committing(t)
      BY <1>3, <2>1, <2>5, <2>7 DEF Committing
    <3>2. PICK x \in Cell : Newest(x, t) /\ asi[x].mode = "ACTION"
      BY <1>5, <3>1 DEF Lives
    <3>3. x # c
      BY <2>1, <2>7, <3>2 DEF Newest
    <3>4. Newest(x, t)'
      BY <1>3, <2>1, <2>2, <3>2, NewestKept
    <3> QED BY <1>4, <2>2, <3>1, <3>2, <3>3, <3>4, NothingTested
  <2>8. ASSUME m.trans = t
        PROVE  /\ \E x \in Cell : Newest(x, t)' /\ asi'[x].mode = "ACTION"
               /\ \A i \in DOMAIN toSub' : toSub'[i].trans = t => toSub'[i].command # "TESTSET"
    <3>1. Newest(c, t)'
      BY <1>3, <2>1, <2>2, <2>8, NewestKept
    <3>2. asi'[c].mode = "ACTION"
      BY <2>2, <2>3, <2>8
    <3>3. \A i \in DOMAIN toSub' : toSub'[i].trans = t => toSub'[i].command # "TESTSET"
      BY <1>2, <1>3, <1>7, <2>3, <2>8 DEF Asked
    <3> QED BY <3>1, <3>2, <3>3
  <2> QED BY <2>4, <2>6, <2>7, <2>8 DEF Lives
<1>12. ASSUME Fails(m)
       PROVE  Lives(t)'
  <2>1. /\ UNCHANGED <<asi, subagentSets, internal>>
        /\ \/ UNCHANGED toMaster
           \/ toMaster' = Append(toMaster, [command |-> m.command, trans |-> m.trans, ok |-> FALSE])
    BY <1>12 DEF Fails
  <2>2. Flying' = Flying
    BY <1>3, <2>1 DEF Flying, Members
  <2>3. ASSUME NEW i \in DOMAIN toMaster', toMaster'[i].ok = TRUE
        PROVE  \E j \in DOMAIN toMaster : toMaster'[i] = toMaster[j]
    <3> DEFINE x == [command |-> m.command, trans |-> m.trans, ok |-> FALSE]
    <3>1. x \in Reply /\ x.ok = FALSE /\ toMaster \in Seq(Reply)
      BY <1>2, <1>3 DEF Reply, Request, Typed
    <3>2. UNCHANGED toMaster \/ toMaster' = Append(toMaster, x)
      BY <2>1
    <3> HIDE DEF x
    <3>3. \A y \in Members(toMaster') : y \in Members(toMaster) \/ y = x
      BY <3>1, <3>2, FlyingAppended DEF Members
    <3>4. toMaster'[i] \in Members(toMaster)
      BY <2>3, <3>1, <3>3 DEF Members
    <3> QED BY <3>4 DEF Members
  <2>4. Committing(t)' => Committing(t)
    <3>1. \A x : x = [command |-> "COMMITSET", trans |-> t, ok |-> TRUE] => x.ok = TRUE
      OBVIOUS
    <3> QED BY <1>3, <2>2, <2>3, <3>1 DEF Committing
  <2>5. \A c : Newest(c, t) => Newest(c, t)'
    BY <1>3, <2>1, NewestKept
  <2>6. Committing(t)' =>
            \A i \in DOMAIN toSub' : toSub'[i].trans = t => toSub'[i].command # "TESTSET"
    BY <1>4, <2>4, NothingTested
  <2>7. Committing(t)' => \E c \in Cell : Newest(c, t)' /\ asi'[c].mode = "ACTION"
    BY <1>5, <2>1, <2>4, <2>5 DEF Lives
  <2> QED BY <1>5, <2>1, <2>2, <2>6, <2>7 DEF Lives
<1> QED BY <1>1, <1>10, <1>11, <1>12

LEMMA LivesAgent ==
    ASSUME SetsInv, [Next]_setVars, NEW t \in Trans, Live(t)',
           UNCHANGED <<master, decision, toSub, toMaster, subagentSets, asi>>,
           \A p \in Flying' : \E q \in Flying : Same(p, q)
    PROVE  Lives(t)'
<1>1. Live(t)
  <2>1. decision[t] # "none"
    BY DEF Live
  <2> QED BY <2>1, LiveBefore
<1>2. Lives(t) /\ Typed
  BY <1>1 DEF SetsInv, Lively, Lives
<1>3. Committing(t)' => Committing(t)
  BY DEF Committing, Same
<1>4. \A c : Newest(c, t) => Newest(c, t)'
  BY <1>2, NewestKept
<1>5. \A p \in Flying' : p.trans = t =>
          /\ asi'[p.cell].trans = t
          /\ \E i \in DOMAIN subagentSets' : subagentSets'[i] = p.cell
  BY <1>2 DEF Lives, Same
<1> QED BY <1>2, <1>3, <1>4, <1>5 DEF Lives

LEMMA LivesResponse ==
    ASSUME SetsInv, [Next]_setVars, HandleSetResponse, NEW t \in Trans, Live(t)'
    PROVE  Lives(t)'
<1> DEFINE r == Head(replies)
<1>1. ReservesAgain(r) \/ Answers(r) \/ (Dangling(r) /\ Crash)
  BY ResponseMoves
<1>2. /\ r \in Flying /\ r \in Begun
      /\ \A p \in Flying' : \/ p \in Flying
                            \/ ReservesAgain(r) /\ p = QueuedPass("RESERVE2", r, r.cell)
  BY ResponseFlying
<1>3. Typed /\ Lively /\ UNCHANGED <<master, decision, toSub>>
  BY DEF SetsInv, HandleSetResponse, masterVars
<1>4. Live(t)
  <2>1. decision[t] # "none"
    BY <1>3 DEF Live
  <2> QED BY <2>1, LiveBefore
<1>5. Lives(t)
  BY <1>3, <1>4 DEF Lively, Lives
<1>6. asi \in [Cell -> CellType] /\ \A i \in DOMAIN subagentSets : subagentSets[i] \in Cell
  BY <1>3, LenProperties, ElementOfSeq DEF Typed
<1>7. \A p \in Flying : p.cell \in Cell
  BY <1>3, FlyingFields
<1>8. /\ \A p \in Flying' : \E q \in Flying :
              p.trans = q.trans /\ p.command = q.command /\ p.cell = q.cell
      /\ r.cell \in Cell
  BY <1>2, <1>7 DEF QueuedPass
<1> HIDE DEF r
<1>9. ASSUME \A i \in DOMAIN toMaster' : \/ \E j \in DOMAIN toMaster : toMaster'[i] = toMaster[j]
                                         \/ /\ toMaster'[i].command = r.command
                                            /\ toMaster'[i].trans = r.trans,
             \A c \in Cell : asi'[c].trans = asi[c].trans,
             \A c \in Cell : /\ asi[c].mode = "ACTION" => asi'[c].mode = "ACTION"
                             /\ asi[c].mode \notin Last => asi'[c].mode \notin Last,
             \A c : Newest(c, t) => Newest(c, t)',
             \A i \in DOMAIN subagentSets : asi[subagentSets[i]].trans = t =>
                \E j \in DOMAIN subagentSets' : subagentSets'[j] = subagentSets[i]
      PROVE  Lives(t)'
  <2>1. Committing(t)' => Committing(t)
    <3>1. \A x : x = [command |-> "COMMITSET", trans |-> t, ok |-> TRUE]
                 => x.command = "COMMITSET" /\ x.trans = t
      OBVIOUS
    <3> QED BY <1>2, <1>3, <1>8, <1>9, <3>1 DEF Committing
  <2>2. \A p \in Flying' : p.trans = t =>
            /\ asi'[p.cell].trans = t
            /\ \E i \in DOMAIN subagentSets' : subagentSets'[i] = p.cell
    <3> TAKE p \in Flying'
    <3> HAVE p.trans = t
    <3>1. PICK q \in Flying : p.trans = q.trans /\ p.cell = q.cell
      BY <1>8
    <3>2. /\ asi[q.cell].trans = t /\ q.cell \in Cell
          /\ \E i \in DOMAIN subagentSets : subagentSets[i] = q.cell
      BY <1>5, <1>7, <3>1 DEF Lives
    <3> QED BY <1>9, <3>1, <3>2
  <2>3. Committing(t)' =>
            \A i \in DOMAIN toSub' : toSub'[i].trans = t => toSub'[i].command # "TESTSET"
    BY <1>4, <2>1, NothingTested
  <2>4. Committing(t)' => \E c \in Cell : Newest(c, t)' /\ asi'[c].mode = "ACTION"
    BY <1>5, <1>9, <2>1 DEF Lives
  <2>5. \A c \in Cell : asi'[c].trans = t => asi'[c].mode \notin Last
    BY <1>5, <1>9 DEF Lives
  <2> QED BY <2>2, <2>3, <2>4, <2>5 DEF Lives
<1>10. CASE ReservesAgain(r)
  <2>1. /\ asi[r.cell].mode = "RESERVE1" /\ asi' = [asi EXCEPT ![r.cell].mode = "RESERVE2"]
        /\ UNCHANGED <<toMaster, subagentSets>>
    BY <1>10 DEF ReservesAgain
  <2>2. /\ \A d \in Cell : /\ asi'[d].trans = asi[d].trans
                           /\ d # r.cell => asi'[d].mode = asi[d].mode
        /\ asi'[r.cell].mode = "RESERVE2"
    BY <1>6, <1>8, <2>1 DEF CellType
  <2>3. \A c \in Cell : /\ asi[c].mode = "ACTION" => asi'[c].mode = "ACTION"
                        /\ asi[c].mode \notin Last => asi'[c].mode \notin Last
    BY <2>1, <2>2 DEF Last
  <2>4. \A c : Newest(c, t) => Newest(c, t)'
    BY <1>3, <2>1, <2>2, NewestKept
  <2> QED BY <1>9, <2>1, <2>2, <2>3, <2>4
<1>11. CASE Answers(r)
  <2>1. /\ subagentSets' = IF asi[r.cell].mode \in Last THEN Freed(r.trans) ELSE subagentSets
        /\ \/ UNCHANGED toMaster
           \/ toMaster' = Append(toMaster, [command |-> r.command, trans |-> r.trans, ok |-> r.ok])
        /\ UNCHANGED asi
    BY <1>11 DEF Answers
  <2>2. \A i \in DOMAIN toMaster' : \/ \E j \in DOMAIN toMaster : toMaster'[i] = toMaster[j]
                                    \/ /\ toMaster'[i].command = r.command
                                       /\ toMaster'[i].trans = r.trans
    <3> DEFINE x == [command |-> r.command, trans |-> r.trans, ok |-> r.ok]
    <3>1. x \in Reply /\ x.command = r.command /\ x.trans = r.trans /\ toMaster \in Seq(Reply)
      BY <1>2, <1>3 DEF Reply, Begun, Typed
    <3>2. UNCHANGED toMaster \/ toMaster' = Append(toMaster, x)
      BY <2>1
    <3> HIDE DEF x
    <3>3. \A y \in Members(toMaster') : y \in Members(toMaster) \/ y = x
      BY <3>1, <3>2, FlyingAppended DEF Members
    <3> QED BY <3>1, <3>3 DEF Members
  <2>3. CASE asi[r.cell].mode \notin Last
    <3>1. UNCHANGED subagentSets
      BY <2>1, <2>3
    <3>2. \A c : Newest(c, t) => Newest(c, t)'
      BY <1>3, <2>1, <3>1, NewestKept
    <3> QED BY <1>9, <2>1, <2>2, <3>1, <3>2
  <2>4. CASE asi[r.cell].mode \in Last
    <3>1. r.trans # t
      BY <1>2, <1>5, <1>8, <2>4 DEF Lives
    <3>2. CASE UNCHANGED subagentSets
      <4>1. \A c : Newest(c, t) => Newest(c, t)'
        BY <1>3, <2>1, <3>2, NewestKept
      <4> QED BY <1>9, <2>1, <2>2, <3>2, <4>1
    <3>3. CASE \E k \in DOMAIN subagentSets : /\ subagentSets' = Without(subagentSets, k)
                                              /\ asi[subagentSets[k]].trans = r.trans
      <4>1. PICK k \in DOMAIN subagentSets : /\ subagentSets' = Without(subagentSets, k)
                                             /\ asi[subagentSets[k]].trans = r.trans
        BY <3>3
      <4>2. \A c : Newest(c, t) => Newest(c, t)'
        BY <1>3, <2>1, <3>1, <4>1, NewestRemoved
      <4>3. \A i \in DOMAIN subagentSets : asi[subagentSets[i]].trans = t =>
                \E j \in DOMAIN subagentSets' : subagentSets'[j] = subagentSets[i]
        <5> TAKE i \in DOMAIN subagentSets
        <5> HAVE asi[subagentSets[i]].trans = t
        <5>1. i # k
          BY <3>1, <4>1
        <5>0. subagentSets \in Seq(Cell) /\ subagentSets' = Without(subagentSets, k)
          BY <1>3, <4>1 DEF Typed
        <5>2. /\ Len(subagentSets) \in Nat /\ DOMAIN subagentSets = 1 .. Len(subagentSets)
              /\ DOMAIN subagentSets' = 1 .. Len(subagentSets) - 1
              /\ \A x \in 1 .. Len(subagentSets) - 1 :
                    /\ x < k => subagentSets'[x] = subagentSets[x]
                    /\ x >= k => subagentSets'[x] = subagentSets[x + 1]
          BY <5>0, Removed
        <5>3. CASE i < k
          BY <5>2, <5>3
        <5>4. CASE ~(i < k)
          <6>1. i - 1 \in 1 .. Len(subagentSets) - 1 /\ i - 1 >= k /\ (i - 1) + 1 = i
            BY <5>1, <5>2, <5>4
          <6> QED BY <5>2, <6>1
        <5> QED BY <5>3, <5>4
      <4> QED BY <1>9, <2>1, <2>2, <4>2, <4>3
    <3> QED BY <1>3, <2>1, <2>4, <3>2, <3>3, FreedList
  <2> QED BY <2>3, <2>4
<1>12. CASE Crash
  <2>1. UNCHANGED <<toMaster, subagentSets, asi>>
    BY <1>12 DEF Crash, subVars
  <2>2. \A c : Newest(c, t) => Newest(c, t)'
    BY <1>3, <2>1, NewestKept
  <2> QED BY <1>9, <2>1, <2>2
<1> QED BY <1>1, <1>10, <1>11, <1>12

LEMMA LivelyStep ==
    ASSUME SetsInv, [Next]_setVars
    PROVE  Lively'
<1> SUFFICES ASSUME NEW t \in Trans, Live(t)' PROVE Lives(t)'
  BY DEF Lively, Lives
<1>1. CASE InternalSet \/ FinishPass
  <2>1. UNCHANGED <<master, decision, toSub, toMaster, subagentSets, asi>>
    BY <1>1 DEF InternalSet, FinishPass, masterVars, subVars
  <2> QED BY <1>1, <2>1, InternalFlying, FinishFlying, LivesAgent
<1>2. CASE Reconnect \/ UNCHANGED setVars
  <2>1. UNCHANGED <<master, decision, toSub, toMaster, subagentSets, asi, internal, running,
                    replies>>
    BY <1>2 DEF Reconnect, masterVars, subVars, agentVars, setVars
  <2>2. \A p \in Flying' : p \in Flying /\ Same(p, p)
    BY <2>1 DEF Flying, Members, Same
  <2> QED BY <2>1, <2>2, LivesAgent
<1> QED BY <1>1, <1>2, LivesMaster, LivesReads, LivesResponse DEF Next

-----------------------------------------------------------------------------
(* The invariant, and what it gives.                                       *)

LEMMA SetsInit ==
    ASSUME Init
    PROVE  SetsInv
<1>1. /\ toSub = <<>> /\ toMaster = <<>> /\ subagentSets = <<>> /\ internal = <<>>
      /\ running = {} /\ replies = <<>> /\ agentSets = <<>>
      /\ link = "up" /\ troubled = FALSE /\ sessRetries \in 0 .. MaxRetries
      /\ master = [trans |-> 0, awaits |-> "none", retries |-> 0]
      /\ decision = [t \in Trans |-> "none"]
      /\ asi = [c \in Cell |-> [trans |-> 0, mode |-> "none", old |-> FALSE]]
      /\ held = [e \in Entry |-> [trans |-> 0, pass |-> "none", status |-> "ok"]]
  BY DEF Init
<1>2. Typed
  <2>1. \A S : <<>> \in Seq(S)
    BY EmptySeq
  <2>2. 0 \in 0 .. NumTrans /\ 0 \in 0 .. MaxRetries
    BY Numbers
  <2>3. master \in [trans : 0 .. NumTrans, retries : 0 .. MaxRetries,
                    awaits : {"none", "TESTSET", "COMMITSET", "UNDOSET"}]
    BY <1>1, <2>2
  <2>4. asi \in [Cell -> CellType]
    BY <1>1, <2>2 DEF CellType, Mode
  <2>5. held \in [Entry -> HeldType]
    BY <1>1, <2>2 DEF HeldType, Mode
  <2>6. /\ toSub \in Seq(Request) /\ toMaster \in Seq(Reply) /\ subagentSets \in Seq(Cell)
        /\ internal \in Seq(Queued) /\ replies \in Seq(Begun) /\ agentSets \in Seq(Kept)
    BY <1>1, <2>1
  <2>7. decision \in [Trans -> {"none", "open", "free", "commit", "undo"}]
    BY <1>1
  <2> QED BY <1>1, <2>3, <2>4, <2>5, <2>6, <2>7 DEF Typed
<1>3. Listed /\ Cached
  BY <1>1 DEF Listed, Cached
<1>4. Decided
  <2>1. \A t \in Trans : t > 0 /\ decision[t] = "none"
    BY <1>1 DEF Trans
  <2> QED BY <1>1, <2>1 DEF Decided
<1>5. Asked
  BY <1>1 DEF Asked
<1>6. Modes
  BY <1>1 DEF Modes, Last
<1>7. Flying = {}
  BY <1>1 DEF Flying, Members
<1>8. Passing
  BY <1>1, <1>7 DEF Passing
<1>9. Lively
  <2>1. \A t \in Trans : decision[t] = "none"
    BY <1>1
  <2> QED BY <2>1 DEF Lively, Live
<1>10. Agreement
  BY <1>1 DEF Agreement, Last
<1> QED BY <1>2, <1>3, <1>4, <1>5, <1>6, <1>8, <1>9, <1>10 DEF SetsInv

\* SetsInv is inductive: no step of the master, the subagent or its agent, and
\* no timeout, retransmission, lost connection, late answer to a freed cell or
\* crash, breaks it (Subagent.c, Master.c and Agent.c together).
THEOREM SetsInvariant == Spec => []SetsInv
<1>1. Init => SetsInv
  BY SetsInit
<1>2. SetsInv /\ [Next]_setVars => SetsInv'
  BY SetsTypedStep, ListedStep, CachedStep, DecidedStep, AskedStep, ModesStep, PassingStep,
     LivelyStep, AgreementStep DEF SetsInv
<1> QED BY <1>1, <1>2, PTL DEF Spec

\* A list without repetitions has as many elements as places.
LEMMA ListedOnce ==
    ASSUME Typed, Listed
    PROVE  Cardinality(Members(subagentSets)) = Len(subagentSets)
<1> DEFINE n == Len(subagentSets)
           M == Members(subagentSets)
           I == 1 .. n
<1>1. /\ n \in Nat /\ DOMAIN subagentSets = I
      /\ subagentSets \in [I -> Cell]
  BY LenProperties DEF Typed
<1>2. subagentSets \in Bijection(I, M)
  <2>1. subagentSets \in [I -> M]
    BY <1>1 DEF Members
  <2>2. \A i, j \in I : subagentSets[i] = subagentSets[j] => i = j
    BY <1>1 DEF Listed
  <2>3. \A x \in M : \E i \in I : subagentSets[i] = x
    BY <1>1 DEF Members
  <2> HIDE DEF M, I
  <2> QED BY <2>1, <2>2, <2>3, Fun_IsBij
<1>3. ExistsBijection(1 .. n, M)
  BY <1>2, Fun_ExistsBij
<1> QED BY <1>1, <1>3, FS_CountingElements

\* Types and lists: a cell is in _subagent_sets once, a cached entry is saved
\* once, and an entry that a delegated pass works on is in no list
\* (Subagent_saveSetVars, Agent_saveSetCache and Agent_getSetCache).
THEOREM SetsTypes == Spec => []SetsTypeOK
<1>1. SetsInv => SetsTypeOK
  <2> SUFFICES ASSUME SetsInv PROVE SetsTypeOK
    OBVIOUS
  <2>1. Typed /\ Listed /\ Cached
    BY DEF SetsInv
  <2>2. Members(toSub) \subseteq Request /\ Members(toMaster) \subseteq Reply
        /\ Members(subagentSets) \subseteq Cell
    BY <2>1, LenProperties, ElementOfSeq DEF Typed, Members
  <2>3. \A p \in Members(internal) : p.pass \in Passes /\ p.cell \in Cell
    BY <2>1, FlyingFields DEF Flying
  <2>4. Cardinality(Members(subagentSets)) = Len(subagentSets)
    BY <2>1, ListedOnce
  <2>5. asi \in [Cell -> CellType]
    BY <2>1 DEF Typed
  <2>6. \A p \in running : /\ held[p.entry].status = "running"
                           /\ \A x \in Members(agentSets) : x.entry # p.entry
    BY <2>1 DEF Cached, Members
  <2>7. \A i, j \in DOMAIN agentSets :
            i # j /\ agentSets[i].entry # Void => agentSets[i].entry # agentSets[j].entry
    BY <2>1 DEF Cached
  <2>8. /\ master \in [trans : 0 .. NumTrans, retries : 0 .. MaxRetries,
                       awaits : {"none", "TESTSET", "COMMITSET", "UNDOSET"}]
        /\ decision \in [Trans -> {"none", "open", "free", "commit", "undo"}]
    BY <2>1 DEF Typed
  <2> QED BY <2>2, <2>3, <2>4, <2>5, <2>6, <2>7, <2>8
          DEF SetsTypeOK, Request, Reply, CellType, Mode
<1> QED BY <1>1, SetsInvariant, PTL

\* What the handlers of the subagent end a SET with is what the master decided,
\* whatever was resent, given up or lost (the CLEANUPSET branch of
\* Subagent_handleAgentxPacket, which reads the mode of the newest cell).
THEOREM SetsAgree == Spec => []Agreement
<1>1. SetsInv => Agreement
  BY DEF SetsInv
<1> QED BY <1>1, SetsInvariant, PTL

-----------------------------------------------------------------------------
(* A SET that met no trouble.  What a step keeps of the others.            *)

LEMMA AppendSet ==
    ASSUME NEW S, NEW w \in Seq(S), NEW x \in S
    PROVE  /\ Members(Append(w, x)) = Members(w) \cup {x}
           /\ Distinct(w) /\ x \notin Members(w) => Distinct(Append(w, x))
<1>1. /\ Len(w) \in Nat /\ DOMAIN w = 1 .. Len(w) /\ DOMAIN Append(w, x) = 1 .. Len(w) + 1
      /\ \A i \in 1 .. Len(w) : Append(w, x)[i] = w[i]
      /\ Append(w, x)[Len(w) + 1] = x
  BY Appended
<1>2. \A i \in DOMAIN Append(w, x) : i \in DOMAIN w \/ i = Len(w) + 1
  BY <1>1
<1>3. \A i \in DOMAIN w : i \in DOMAIN Append(w, x) /\ Append(w, x)[i] = w[i]
  BY <1>1
<1>4. Len(w) + 1 \in DOMAIN Append(w, x)
  BY <1>1
<1>5. Members(Append(w, x)) = Members(w) \cup {x}
  BY <1>1, <1>2, <1>3, <1>4 DEF Members
<1>6. Distinct(w) /\ x \notin Members(w) => Distinct(Append(w, x))
  BY <1>1, <1>2 DEF Members, Distinct
<1> QED BY <1>5, <1>6

LEMMA TailSet ==
    ASSUME NEW S, NEW w \in Seq(S), w # <<>>, Distinct(w)
    PROVE  /\ Members(Tail(w)) = Members(w) \ {Head(w)}
           /\ Head(w) \in Members(w) /\ Distinct(Tail(w))
<1>1. /\ Head(w) = w[1] /\ 1 \in DOMAIN w
      /\ Len(w) \in Nat /\ DOMAIN w = 1 .. Len(w) /\ DOMAIN Tail(w) = 1 .. Len(w) - 1
      /\ \A i \in 1 .. Len(w) - 1 : Tail(w)[i] = w[i + 1]
  BY Tailed
<1>2. \A i \in DOMAIN Tail(w) : i + 1 \in DOMAIN w /\ i + 1 # 1 /\ Tail(w)[i] = w[i + 1]
  BY <1>1
<1>3. \A i \in DOMAIN w : i # 1 => i - 1 \in DOMAIN Tail(w) /\ Tail(w)[i - 1] = w[i]
  <2> TAKE i \in DOMAIN w
  <2> HAVE i # 1
  <2>1. i - 1 \in 1 .. Len(w) - 1 /\ (i - 1) + 1 = i
    BY <1>1
  <2> QED BY <1>1, <2>1
<1>4. \A y \in Members(Tail(w)) : y \in Members(w) /\ y # Head(w)
  BY <1>1, <1>2 DEF Members, Distinct
<1>5. \A y \in Members(w) : y # Head(w) => y \in Members(Tail(w))
  <2> SUFFICES ASSUME NEW i \in DOMAIN w, w[i] # Head(w) PROVE w[i] \in Members(Tail(w))
    BY DEF Members
  <2>1. i - 1 \in DOMAIN Tail(w) /\ Tail(w)[i - 1] = w[i]
    BY <1>1, <1>3
  <2> QED BY <2>1 DEF Members
<1>6. Distinct(Tail(w))
  <2> SUFFICES ASSUME NEW i \in DOMAIN Tail(w), NEW j \in DOMAIN Tail(w), Tail(w)[i] = Tail(w)[j]
               PROVE  i = j
    BY DEF Distinct
  <2>1. i + 1 = j + 1
    BY <1>2 DEF Distinct
  <2> QED BY <1>1, <2>1
<1> QED BY <1>1, <1>4, <1>5, <1>6 DEF Members

LEMMA PrependSet ==
    ASSUME NEW S, NEW w \in Seq(S), NEW x \in S
    PROVE  Members(<<x>> \o w) = Members(w) \cup {x}
<1>1. /\ Len(w) \in Nat /\ DOMAIN w = 1 .. Len(w) /\ DOMAIN (<<x>> \o w) = 1 .. Len(w) + 1
      /\ (<<x>> \o w)[1] = x
      /\ \A i \in 1 .. Len(w) : (<<x>> \o w)[i + 1] = w[i]
  BY Prepended
<1>2. \A i \in DOMAIN (<<x>> \o w) : i = 1 \/ (i - 1 \in DOMAIN w /\ (<<x>> \o w)[i] = w[i - 1])
  <2> TAKE i \in DOMAIN (<<x>> \o w)
  <2>1. CASE i # 1
    <3>1. i - 1 \in 1 .. Len(w) /\ (i - 1) + 1 = i
      BY <1>1, <2>1
    <3> QED BY <1>1, <3>1
  <2> QED BY <2>1
<1>3. \A i \in DOMAIN w : i + 1 \in DOMAIN (<<x>> \o w) /\ (<<x>> \o w)[i + 1] = w[i]
  BY <1>1
<1>4. 1 \in DOMAIN (<<x>> \o w)
  BY <1>1
<1> DEFINE v == <<x>> \o w
<1>5. v[1] = x
  BY <1>1
<1> HIDE DEF v
<1>6. \A y \in Members(v) : y \in Members(w) \cup {x}
  BY <1>2, <1>5 DEF v, Members
<1>7. \A y \in Members(w) : y \in Members(v)
  <2> SUFFICES ASSUME NEW i \in DOMAIN w PROVE w[i] \in Members(v)
    BY DEF Members
  <2>1. i + 1 \in DOMAIN v /\ v[i + 1] = w[i]
    BY <1>3 DEF v
  <2> QED BY <2>1 DEF Members
<1>8. x \in Members(v)
  BY <1>4, <1>5 DEF v, Members
<1> QED BY <1>6, <1>7, <1>8 DEF v

LEMMA WithoutSet ==
    ASSUME NEW S, NEW w \in Seq(S), NEW k \in DOMAIN w, Distinct(w)
    PROVE  Members(Without(w, k)) = Members(w) \ {w[k]}
<1>1. /\ Len(w) \in Nat /\ DOMAIN w = 1 .. Len(w) /\ DOMAIN Without(w, k) = 1 .. Len(w) - 1
      /\ \A i \in 1 .. Len(w) - 1 : /\ i < k => Without(w, k)[i] = w[i]
                                    /\ i >= k => Without(w, k)[i] = w[i + 1]
  BY Removed
<1>2. \A i \in DOMAIN Without(w, k) : \E x \in DOMAIN w : Without(w, k)[i] = w[x] /\ x # k
  <2> TAKE i \in DOMAIN Without(w, k)
  <2>1. CASE i < k
    BY <1>1, <2>1
  <2>2. CASE ~(i < k)
    <3>1. i + 1 \in DOMAIN w /\ i + 1 # k /\ i >= k
      BY <1>1, <2>2
    <3> QED BY <1>1, <3>1
  <2> QED BY <2>1, <2>2
<1>3. \A x \in DOMAIN w : x # k => \E i \in DOMAIN Without(w, k) : Without(w, k)[i] = w[x]
  <2> TAKE x \in DOMAIN w
  <2> HAVE x # k
  <2>1. CASE x < k
    <3>1. x \in 1 .. Len(w) - 1
      BY <1>1, <2>1
    <3> QED BY <1>1, <2>1, <3>1
  <2>2. CASE ~(x < k)
    <3>1. x - 1 \in 1 .. Len(w) - 1 /\ x - 1 >= k /\ (x - 1) + 1 = x
      BY <1>1, <2>2
    <3> QED BY <1>1, <3>1
  <2> QED BY <2>1, <2>2
<1>4. \A y \in Members(Without(w, k)) : y \in Members(w) /\ y # w[k]
  BY <1>2 DEF Members, Distinct
<1>5. \A y \in Members(w) : y # w[k] => y \in Members(Without(w, k))
  BY <1>3 DEF Members
<1> QED BY <1>4, <1>5

\* What a step on one SET leaves of another.
KeepsAway(t) ==
    \A x : x.trans = t => /\ x \in Members(toSub)' <=> x \in Members(toSub)
                          /\ x \in Members(internal)' <=> x \in Members(internal)
                          /\ x \in running' <=> x \in running
                          /\ x \in Members(replies)' <=> x \in Members(replies)
                          /\ x \in Members(toMaster)' <=> x \in Members(toMaster)

KeepsCell(t) ==
    \A c : /\ c \in Members(subagentSets)' /\ asi'[c].trans = t
              <=> c \in Members(subagentSets) /\ asi[c].trans = t
           /\ c \in Members(subagentSets) /\ asi[c].trans = t => asi'[c].mode = asi[c].mode

KeepsCache(t) ==
    \A x : x.trans = t => (x \in Members(agentSets)' <=> x \in Members(agentSets))

KeepsHeld(t) ==
    \A e \in Entry : /\ held'[e].pass # "none" /\ held'[e].trans = t
                        <=> held[e].pass # "none" /\ held[e].trans = t
                     /\ held[e].pass # "none" /\ held[e].trans = t => held'[e] = held[e]

KeepsMaster(t) ==
    \A command \in {"TESTSET", "COMMITSET", "UNDOSET"} :
        Current(t, command)' <=> Current(t, command)

Keeps(t) == KeepsAway(t) /\ KeepsCell(t) /\ KeepsCache(t) /\ KeepsHeld(t) /\ KeepsMaster(t)

LEMMA KeptCell ==
    ASSUME NEW t, KeepsCell(t)
    PROVE  /\ \A mode : CellIn(t, mode) => CellIn(t, mode)'
           /\ \A p : p.trans = t /\ OwnCell(p) => OwnCell(p)'
BY DEF KeepsCell, CellIn, OwnCell

LEMMA KeptSaw ==
    ASSUME NEW t, KeepsCache(t), KeepsHeld(t)
    PROVE  \A pass \in Passes : \A status : Saw(t, pass, status) => Saw(t, pass, status)'
<1> SUFFICES ASSUME NEW pass \in Passes, NEW status, Saw(t, pass, status)
             PROVE  Saw(t, pass, status)'
  OBVIOUS
<1>1. PICK e \in Entry : /\ [trans |-> t, entry |-> e] \in Members(agentSets)
                         /\ held[e] = [trans |-> t, pass |-> pass, status |-> status]
  BY DEF Saw
<1>2. pass # "none"
  BY DEF Passes, Reserving, Last
<1>3. held'[e] = held[e]
  BY <1>1, <1>2 DEF KeepsHeld
<1>4. [trans |-> t, entry |-> e] \in Members(agentSets)'
  BY <1>1 DEF KeepsCache
<1> QED BY <1>1, <1>3, <1>4 DEF Saw

LEMMA KeptResting ==
    ASSUME NEW t, KeepsCell(t), KeepsCache(t), KeepsHeld(t)
    PROVE  /\ \A pass \in Passes : \A status : Resting(t, pass, status) => Resting(t, pass, status)'
           /\ Gone(t) => Gone(t)'
<1>1. \A pass \in Passes : \A status : Resting(t, pass, status) => Resting(t, pass, status)'
  BY KeptCell, KeptSaw DEF Resting
<1>2. Gone(t) => Gone(t)'
  BY DEF KeepsCell, KeepsCache, Gone, Nowhere
<1> QED BY <1>1, <1>2

LEMMA PassesAre ==
    {"RESERVE1", "RESERVE2", "ACTION", "FREE", "COMMIT", "UNDO"} = Passes
    /\ Reserving \subseteq Passes /\ Last \subseteq Passes
BY DEF Passes, Reserving, Last

LEMMA KeptDue ==
    ASSUME NEW p, KeepsCache(p.trans), KeepsHeld(p.trans)
    PROVE  /\ Due(p) => Due(p)'
           /\ InHandlers(p) /\ p.pass \in Passes => InHandlers(p)'
           /\ Handled(p) /\ p.pass \in Passes => Handled(p)'
<1> DEFINE t == p.trans
<1>1. \A pass \in Passes : \A status : Saw(t, pass, status) => Saw(t, pass, status)'
  BY KeptSaw
<1>2. Unheard(t) => Unheard(t)'
  BY DEF KeepsHeld, Unheard
<1>3. Nowhere(Members(agentSets), t) => Nowhere(Members(agentSets), t)'
  BY DEF KeepsCache, Nowhere
<1>4. Due(p) => Due(p)'
  BY <1>1, <1>2, <1>3, PassesAre DEF Due
<1>5. InHandlers(p) /\ p.pass \in Passes => InHandlers(p)'
  BY <1>3 DEF InHandlers, KeepsHeld, Passes, Reserving, Last
<1>6. Handled(p) /\ p.pass \in Passes => Handled(p)'
  BY <1>1, <1>3 DEF Handled
<1> QED BY <1>4, <1>5, <1>6

LEMMA KeptServes ==
    ASSUME NEW p, KeepsMaster(p.trans)
    PROVE  Serves(p) => Serves(p)'
BY DEF KeepsMaster, Serves

LEMMA KeptMessages ==
    ASSUME NEW m, NEW t, m.trans = t,
           KeepsCell(t), KeepsCache(t), KeepsHeld(t), KeepsMaster(t)
    PROVE  (AtSubagent(m) => AtSubagent(m)') /\ (AtMaster(m) => AtMaster(m)')
<1>1. /\ \A pass \in Passes : \A status : Resting(t, pass, status) => Resting(t, pass, status)'
      /\ Gone(t) => Gone(t)'
  BY KeptResting
<1>2. Unheard(t) => Unheard(t)'
  BY DEF KeepsHeld, Unheard
<1>3. \A command \in {"TESTSET", "COMMITSET", "UNDOSET"} :
          Current(t, command) => Current(t, command)'
  BY DEF KeepsMaster
<1>4. AtSubagent(m) => AtSubagent(m)'
  BY <1>1, <1>2, <1>3, PassesAre DEF AtSubagent
<1>5. AtMaster(m) => AtMaster(m)'
  BY <1>1, <1>3, PassesAre DEF AtMaster
<1> QED BY <1>4, <1>5

LEMMA KeptEmpty ==
    ASSUME NEW t, KeepsAway(t)
    PROVE  \A but : Empty(t, but) => Empty(t, but)'
BY DEF KeepsAway, Empty, Nowhere

LEMMA KeptStage ==
    ASSUME Typed, NEW t, Keeps(t), Stage(t)
    PROVE  Stage(t)'
<1>1. KeepsAway(t) /\ KeepsCell(t) /\ KeepsCache(t) /\ KeepsHeld(t) /\ KeepsMaster(t)
  BY DEF Keeps
<1>2. \A but : Empty(t, but) => Empty(t, but)'
  BY <1>1, KeptEmpty
<1>3. \A m : m.trans = t => (AtSubagent(m) => AtSubagent(m)') /\ (AtMaster(m) => AtMaster(m)')
  BY <1>1, KeptMessages
<1>4. ASSUME NEW p, p.trans = t, p.pass \in Passes
      PROVE  /\ Serves(p) => Serves(p)'
             /\ OwnCell(p) => OwnCell(p)'
             /\ Due(p) => Due(p)'
             /\ InHandlers(p) => InHandlers(p)'
             /\ Handled(p) => Handled(p)'
  BY <1>1, <1>4, KeptServes, KeptCell, KeptDue
<1>5. \A p \in Flying : p.pass \in Passes
  BY FlyingFields
<1>6. /\ \A p \in Members(internal) : p \in Flying
      /\ \A p \in running : p \in Flying
      /\ \A p \in Members(replies) : p \in Flying
  BY DEF Flying
<1>7. CASE IsIdle(t)
  BY <1>1, <1>2, <1>7, KeptResting DEF IsIdle, Stage
<1>8. CASE IsSent(t)
  <2>1. PICK m \in Members(toSub) : Lone(Members(toSub), t, m) /\ AtSubagent(m)
    BY <1>8 DEF IsSent
  <2>2. m.trans = t /\ m \in Members(toSub)' /\ Lone(Members(toSub), t, m)'
    BY <1>1, <2>1 DEF KeepsAway, Lone
  <2> QED BY <1>2, <1>3, <1>8, <2>1, <2>2 DEF IsSent, Stage
<1>9. CASE IsQueued(t)
  <2>1. PICK p \in Members(internal) :
            Lone(Members(internal), t, p) /\ Serves(p) /\ OwnCell(p) /\ Due(p)
    BY <1>9 DEF IsQueued
  <2>2. p.trans = t /\ p \in Members(internal)' /\ Lone(Members(internal), t, p)'
    BY <1>1, <2>1 DEF KeepsAway, Lone
  <2> QED BY <1>2, <1>4, <1>5, <1>6, <1>9, <2>1, <2>2 DEF IsQueued, Stage
<1>10. CASE IsRunning(t)
  <2>1. PICK p \in running : Lone(running, t, p) /\ Serves(p) /\ OwnCell(p) /\ InHandlers(p)
    BY <1>10 DEF IsRunning
  <2>2. p.trans = t /\ p \in running' /\ Lone(running, t, p)'
    BY <1>1, <2>1 DEF KeepsAway, Lone
  <2> QED BY <1>2, <1>4, <1>5, <1>6, <1>10, <2>1, <2>2 DEF IsRunning, Stage
<1>11. CASE IsDone(t)
  <2>1. PICK p \in Members(replies) :
            Lone(Members(replies), t, p) /\ Serves(p) /\ OwnCell(p) /\ Handled(p)
    BY <1>11 DEF IsDone
  <2>2. p.trans = t /\ p \in Members(replies)' /\ Lone(Members(replies), t, p)'
    BY <1>1, <2>1 DEF KeepsAway, Lone
  <2> QED BY <1>2, <1>4, <1>5, <1>6, <1>11, <2>1, <2>2 DEF IsDone, Stage
<1>12. CASE IsAnswered(t)
  <2>1. PICK m \in Members(toMaster) : Lone(Members(toMaster), t, m) /\ AtMaster(m)
    BY <1>12 DEF IsAnswered
  <2>2. m.trans = t /\ m \in Members(toMaster)' /\ Lone(Members(toMaster), t, m)'
    BY <1>1, <2>1 DEF KeepsAway, Lone
  <2> QED BY <1>2, <1>3, <1>12, <2>1, <2>2 DEF IsAnswered, Stage
<1> QED BY <1>7, <1>8, <1>9, <1>10, <1>11, <1>12 DEF Stage

LEMMA KeptUnique ==
    ASSUME NEW t, Unique(t), KeepsCell(t), KeepsCache(t), KeepsHeld(t)
    PROVE  Unique(t)'
<1>1. \A c, d \in Members(subagentSets)' : asi'[c].trans = t /\ asi'[d].trans = t => c = d
  BY DEF Unique, KeepsCell
<1>2. \A x, y \in Members(agentSets)' : x.trans = t /\ y.trans = t => x = y
  BY DEF Unique, KeepsCache
<1>3. \A e, f \in Entry : /\ held'[e].pass # "none" /\ held'[f].pass # "none"
                          /\ held'[e].trans = t /\ held'[f].trans = t
                          => e = f
  BY DEF Unique, KeepsHeld
<1> QED BY <1>1, <1>2, <1>3 DEF Unique

-----------------------------------------------------------------------------
(* A SET that met no trouble.  Its own steps.                              *)

\* Where a SET is, by what is found there.
LEMMA Found ==
    ASSUME NEW t, Stage(t)
    PROVE  /\ \A m \in Members(toSub) : m.trans = t =>
                 Empty(t, "toSub") /\ Lone(Members(toSub), t, m) /\ AtSubagent(m)
           /\ \A p \in Members(internal) : p.trans = t =>
                 /\ Empty(t, "internal") /\ Lone(Members(internal), t, p)
                 /\ Serves(p) /\ OwnCell(p) /\ Due(p)
           /\ \A p \in running : p.trans = t =>
                 /\ Empty(t, "running") /\ Lone(running, t, p)
                 /\ Serves(p) /\ OwnCell(p) /\ InHandlers(p)
           /\ \A p \in Members(replies) : p.trans = t =>
                 /\ Empty(t, "replies") /\ Lone(Members(replies), t, p)
                 /\ Serves(p) /\ OwnCell(p) /\ Handled(p)
           /\ \A m \in Members(toMaster) : m.trans = t =>
                 Empty(t, "toMaster") /\ Lone(Members(toMaster), t, m) /\ AtMaster(m)
<1>1. CASE IsIdle(t)
  BY <1>1 DEF IsIdle, Empty, Nowhere
<1>2. CASE IsSent(t)
  BY <1>2 DEF IsSent, Empty, Nowhere, Lone
<1>3. CASE IsQueued(t)
  BY <1>3 DEF IsQueued, Empty, Nowhere, Lone
<1>4. CASE IsRunning(t)
  BY <1>4 DEF IsRunning, Empty, Nowhere, Lone
<1>5. CASE IsDone(t)
  BY <1>5 DEF IsDone, Empty, Nowhere, Lone
<1>6. CASE IsAnswered(t)
  BY <1>6 DEF IsAnswered, Empty, Nowhere, Lone
<1> QED BY <1>1, <1>2, <1>3, <1>4, <1>5, <1>6 DEF Stage

\* A step on one SET keeps the calm of the others.
LEMMA CalmBut ==
    ASSUME SetsInv, Calm, NEW u \in Trans, \A t \in Trans : t # u => Keeps(t),
           Stage(u)', Unique(u)', link' = "up", \A c \in Cell : asi'[c].old = FALSE,
           Distinct(toSub)', Distinct(internal)', Distinct(replies)', Distinct(toMaster)', Owned'
    PROVE  Calm'
<1>1. \A t \in Trans : Stage(t) /\ Unique(t)
  BY DEF Calm
<1>2. \A t \in Trans : t # u => Stage(t)' /\ Unique(t)'
  BY <1>1, KeptStage, KeptUnique DEF SetsInv, Keeps
<1> QED BY <1>2 DEF Calm

\* The entries stay owned when the handlers see nothing.
LEMMA OwnedOn ==
    ASSUME SetsInv, [Next]_setVars, Owned, UNCHANGED held,
           \A x \in Members(agentSets)' : x \in Members(agentSets)
    PROVE  Owned'
<1>1. \A e \in Entry : held[e].pass # "none" =>
          held[e].trans \in Trans /\ decision[held[e].trans] # "none"
  BY DEF SetsInv, Passing, Owned
<1>2. \A t \in Trans : decision[t] # "none" => decision'[t] # "none"
  BY DecidedStep
<1> QED BY <1>1, <1>2 DEF Owned

LEMMA Members2 ==
    /\ UNCHANGED toSub => Members(toSub)' = Members(toSub)
    /\ UNCHANGED internal => Members(internal)' = Members(internal)
    /\ UNCHANGED replies => Members(replies)' = Members(replies)
    /\ UNCHANGED toMaster => Members(toMaster)' = Members(toMaster)
    /\ UNCHANGED subagentSets => Members(subagentSets)' = Members(subagentSets)
    /\ UNCHANGED agentSets => Members(agentSets)' = Members(agentSets)
BY DEF Members

\* Nothing of a SET is anywhere before it begins.
LEMMA NothingBegun ==
    ASSUME SetsInv, Owned, NEW u \in Trans, decision[u] = "none"
    PROVE  Empty(u, "none") /\ Gone(u) /\ Unheard(u)
<1>1. Typed /\ Asked /\ Passing /\ Modes
  BY DEF SetsInv
<1>2. Nowhere(Members(toSub), u) /\ Nowhere(Members(toMaster), u)
  BY <1>1 DEF Asked, Passing, Nowhere, Members
<1>3. \A p \in Flying : p.trans # u
  BY <1>1 DEF Passing
<1>4. \A c \in Members(subagentSets) : c \in Cell
  BY <1>1, LenProperties, ElementOfSeq DEF Typed, Members
<1>5. \A c \in Cell : asi[c].trans # u
  BY <1>1, Numbers DEF Modes
<1>6. Unheard(u) /\ Nowhere(Members(agentSets), u)
  BY DEF Owned, Unheard, Nowhere
<1> QED BY <1>2, <1>3, <1>4, <1>5, <1>6 DEF Empty, Gone, Flying, Nowhere

LEMMA CalmStart ==
    ASSUME SetsInv, Calm, [Next]_setVars, StartSet
    PROVE  Calm'
<1>1. Typed /\ Decided /\ master.trans \in 0 .. NumTrans
  BY DEF SetsInv, Typed
<1>2. PICK u \in Trans :
          /\ u > master.trans /\ master.awaits = "none"
          /\ master' = [trans |-> u, awaits |-> "TESTSET", retries |-> 0]
          /\ toSub' = Append(toSub, [command |-> "TESTSET", trans |-> u])
  <2>1. master.trans + 1 \in Trans /\ master.trans + 1 > master.trans
    BY <1>1, Numbers DEF StartSet
  <2> QED BY <2>1 DEF StartSet
<1>3. UNCHANGED <<toMaster, subagentSets, asi, internal, replies, running, agentSets, held, link>>
  BY DEF StartSet, subVars, agentVars
<1>4. decision[u] = "none"
  BY <1>1, <1>2 DEF Decided
<1>5. Empty(u, "none") /\ Gone(u) /\ Unheard(u)
  BY <1>4, NothingBegun DEF Calm
<1> DEFINE m == [command |-> "TESTSET", trans |-> u]
<1>6. m \in Request /\ toSub \in Seq(Request) /\ m.trans = u /\ m.command = "TESTSET"
  BY <1>1 DEF Request, Commands, Typed
<1>7. m \notin Members(toSub)
  BY <1>5, <1>6 DEF Empty, Nowhere
<1> HIDE DEF m
<1>8. Members(toSub)' = Members(toSub) \cup {m} /\ Distinct(toSub)'
  BY <1>2, <1>6, <1>7, AppendSet DEF m, Calm, Members, Distinct
<1>9. /\ Members(internal)' = Members(internal) /\ Members(replies)' = Members(replies)
      /\ Members(toMaster)' = Members(toMaster) /\ Members(agentSets)' = Members(agentSets)
      /\ Members(subagentSets)' = Members(subagentSets)
  BY <1>3, Members2
<1>10. \A t \in Trans : t # u => Keeps(t)
  <2> SUFFICES ASSUME NEW t \in Trans, t # u PROVE Keeps(t)
    OBVIOUS
  <2>1. KeepsAway(t)
    BY <1>3, <1>6, <1>8, <1>9 DEF KeepsAway
  <2>2. KeepsCell(t) /\ KeepsCache(t) /\ KeepsHeld(t)
    BY <1>3, <1>9 DEF KeepsCell, KeepsCache, KeepsHeld
  <2>3. KeepsMaster(t)
    BY <1>2 DEF KeepsMaster, Current
  <2> QED BY <2>1, <2>2, <2>3 DEF Keeps
<1>11. Gone(u)' /\ Unheard(u)' /\ Current(u, "TESTSET")'
  BY <1>2, <1>3, <1>5, <1>9 DEF Gone, Unheard, Current, Nowhere
<1>12. Stage(u)'
  <2>1. Empty(u, "toSub")'
    BY <1>3, <1>5, <1>9 DEF Empty
  <2>2. Lone(Members(toSub), u, m)' /\ m \in Members(toSub)'
    BY <1>5, <1>6, <1>8 DEF Lone, Empty, Nowhere
  <2>3. AtSubagent(m)'
    BY <1>6, <1>11 DEF AtSubagent
  <2> QED BY <2>1, <2>2, <2>3 DEF IsSent, Stage
<1>13. Unique(u)'
  BY <1>11 DEF Unique, Gone, Unheard, Nowhere
<1>14. Owned'
  BY <1>3, <1>9, OwnedOn DEF Calm
<1> QED BY <1>3, <1>8, <1>10, <1>12, <1>13, <1>14, CalmBut DEF Calm, Distinct

LEMMA CalmMasterReads ==
    ASSUME SetsInv, Calm, [Next]_setVars, MasterReads
    PROVE  Calm'
<1> DEFINE m == Head(toMaster)
<1>1. Typed /\ toMaster # <<>> /\ toMaster' = Tail(toMaster) /\ toMaster \in Seq(Reply)
      /\ toSub \in Seq(Request)
  BY DEF SetsInv, Typed, MasterReads
<1>2. /\ Members(toMaster)' = Members(toMaster) \ {m} /\ m \in Members(toMaster)
      /\ Distinct(toMaster)' /\ m \in Reply
  <2>1. Distinct(toMaster)
    BY DEF Calm
  <2>2. /\ Members(Tail(toMaster)) = Members(toMaster) \ {m} /\ m \in Members(toMaster)
        /\ Distinct(Tail(toMaster)) /\ m \in Reply
    BY <1>1, <2>1, TailSet, Tailed
  <2> QED BY <1>1, <2>2 DEF Members, Distinct
<1>3. PICK u \in Trans : u = m.trans
  BY <1>2 DEF Reply
<1>4. UNCHANGED <<subagentSets, asi, internal, replies, running, agentSets, held, link>>
  BY DEF MasterReads, subVars, agentVars
<1>5. /\ Members(internal)' = Members(internal) /\ Members(replies)' = Members(replies)
      /\ Members(agentSets)' = Members(agentSets)
      /\ Members(subagentSets)' = Members(subagentSets)
  BY <1>4, Members2
<1>6. Empty(u, "toMaster") /\ Lone(Members(toMaster), u, m) /\ AtMaster(m) /\ Unique(u)
  BY <1>2, <1>3, Found DEF Calm
<1>7. \A t : KeepsCell(t) /\ KeepsCache(t) /\ KeepsHeld(t)
  BY <1>4, <1>5 DEF KeepsCell, KeepsCache, KeepsHeld
<1>8. Unique(u)' /\ Owned'
  BY <1>4, <1>5, <1>6, <1>7, KeptUnique, OwnedOn DEF Calm
<1>9. /\ link' = "up" /\ \A c \in Cell : asi'[c].old = FALSE
      /\ Distinct(internal)' /\ Distinct(replies)'
  BY <1>4 DEF Calm, Distinct
<1>10. Nowhere(Members(toMaster), u)'
  BY <1>2, <1>6 DEF Lone, Nowhere
<1>11. \/ Ignores /\ ~Expected(m)
       \/ Expected(m) /\ (((Commits \/ Ends) /\ m.ok) \/ Frees \/ Undoes \/ Undone)
  <2>1. CASE Expected(m)
    <3>1. PICK elsewhere \in BOOLEAN : NextPass(m.ok, elsewhere)
      BY <2>1 DEF MasterReads
    <3>2. m.ok \in BOOLEAN
      BY <1>2 DEF Reply
    <3> QED BY <1>1, <2>1, <3>1, <3>2, NextPassMoves
  <2>2. CASE ~Expected(m)
    BY <2>2 DEF MasterReads, Ignores, masterVars
  <2> QED BY <2>1, <2>2
<1> HIDE DEF m
<1>12. ASSUME UNCHANGED toSub, \A t \in Trans : t # u => KeepsMaster(t), Gone(u)
       PROVE  Calm'
  <2>1. Members(toSub)' = Members(toSub) /\ Distinct(toSub)'
    BY <1>12, Members2 DEF Calm, Distinct
  <2>2. \A t \in Trans : t # u => KeepsAway(t)
    BY <1>2, <1>3, <1>4, <1>5, <2>1 DEF KeepsAway
  <2>3. Empty(u, "none")'
    BY <1>4, <1>5, <1>6, <1>10, <2>1 DEF Empty
  <2>4. Gone(u)'
    BY <1>7, <1>12, KeptResting
  <2>5. Stage(u)'
    BY <2>3, <2>4 DEF IsIdle, Stage
  <2> QED BY <1>2, <1>7, <1>8, <1>9, <1>12, <2>1, <2>2, <2>5, CalmBut DEF Keeps
<1>13. ASSUME NEW x \in Request, toSub' = Append(toSub, x), x.trans = u, AtSubagent(x)',
              \A t \in Trans : t # u => KeepsMaster(t)
       PROVE  Calm'
  <2>1. x \notin Members(toSub)
    BY <1>6, <1>13 DEF Empty, Nowhere
  <2>2. Members(toSub)' = Members(toSub) \cup {x} /\ Distinct(toSub)'
    <3>1. Members(Append(toSub, x)) = Members(toSub) \cup {x} /\ Distinct(Append(toSub, x))
      BY <1>1, <2>1, AppendSet DEF Calm
    <3> QED BY <1>13, <3>1 DEF Members, Distinct
  <2>3. \A t \in Trans : t # u => KeepsAway(t)
    BY <1>2, <1>3, <1>4, <1>5, <1>13, <2>2 DEF KeepsAway
  <2>4. Empty(u, "toSub")'
    BY <1>4, <1>5, <1>6, <1>10 DEF Empty
  <2>5. Lone(Members(toSub), u, x)' /\ x \in Members(toSub)'
    BY <1>6, <1>13, <2>2 DEF Lone, Empty, Nowhere
  <2>6. Stage(u)'
    BY <1>13, <2>4, <2>5 DEF IsSent, Stage
  <2> QED BY <1>2, <1>7, <1>8, <1>9, <1>13, <2>2, <2>3, <2>6, CalmBut DEF Keeps
<1>14. CASE Ignores /\ ~Expected(m)
  <2>1. UNCHANGED <<master, toSub>>
    BY <1>14 DEF Ignores
  <2>2. Gone(u)
    BY <1>3, <1>6, <1>14 DEF AtMaster, Expected, Current
  <2>3. \A t : KeepsMaster(t)
    BY <2>1 DEF KeepsMaster, Current
  <2> QED BY <1>12, <2>1, <2>2, <2>3
<1>15. ASSUME Expected(m), master'.trans = master.trans
       PROVE  \A t \in Trans : t # u => KeepsMaster(t)
  BY <1>3, <1>15 DEF Expected, KeepsMaster, Current
<1>16. /\ \A pass \in Passes : \A status : Resting(u, pass, status) => Resting(u, pass, status)'
       /\ Gone(u) => Gone(u)'
  BY <1>7, KeptResting
<1>17. ASSUME Expected(m), NEW command \in Commands, To(command), master'.trans = master.trans,
              NEW x, x = [command |-> command, trans |-> u], AtSubagent(x)'
       PROVE  Calm'
  <2>1. x \in Request /\ x.trans = u
    BY <1>17 DEF Request
  <2>2. toSub' = Append(toSub, x)
    BY <1>3, <1>17 DEF Expected, To
  <2> QED BY <1>13, <1>15, <1>17, <2>1, <2>2
<1>18. CASE Expected(m) /\ Commits /\ m.ok
  <2>1. m.command = "TESTSET" /\ To("COMMITSET") /\ master.trans = u
        /\ master'.trans = master.trans /\ master'.awaits = "COMMITSET"
    BY <1>3, <1>18 DEF Expected, Commits, Awaits
  <2>2. Resting(u, "RESERVE2", "ok")
    BY <1>3, <1>6, <1>18, <2>1 DEF AtMaster
  <2>3. Resting(u, "RESERVE2", "ok")' /\ Current(u, "COMMITSET")'
    BY <1>16, <2>1, <2>2, PassesAre DEF Current
  <2>4. \A x : x = [command |-> "COMMITSET", trans |-> u] => AtSubagent(x)'
    BY <2>3 DEF AtSubagent
  <2> QED BY <1>17, <1>18, <2>1, <2>4 DEF Commands
<1>19. CASE Expected(m) /\ Ends /\ m.ok
  <2>1. m.command = "COMMITSET" /\ To("CLEANUPSET") /\ master.trans = u
        /\ master'.trans = master.trans
    BY <1>3, <1>19 DEF Expected, Ends, Awaits
  <2>2. Resting(u, "ACTION", "ok")
    BY <1>3, <1>6, <1>19, <2>1 DEF AtMaster
  <2>3. Resting(u, "ACTION", "ok")'
    BY <1>16, <2>2, PassesAre
  <2>4. \A x : x = [command |-> "CLEANUPSET", trans |-> u] => AtSubagent(x)'
    BY <2>3 DEF AtSubagent
  <2> QED BY <1>17, <1>19, <2>1, <2>4 DEF Commands
<1>20. CASE Expected(m) /\ Frees
  <2>1. m.command = "TESTSET" /\ To("CLEANUPSET") /\ master.trans = u
        /\ master'.trans = master.trans
    BY <1>3, <1>20 DEF Expected, Frees, Awaits
  <2>2. \E pass \in Reserving, status \in {"ok", "error"} : Resting(u, pass, status)
    BY <1>3, <1>6, <2>1 DEF AtMaster, Reserving
  <2>3. \E pass \in Reserving, status \in {"ok", "error"} : Resting(u, pass, status)'
    BY <1>16, <2>2, PassesAre
  <2>4. \A x : x = [command |-> "CLEANUPSET", trans |-> u] => AtSubagent(x)'
    BY <2>3 DEF AtSubagent
  <2> QED BY <1>17, <1>20, <2>1, <2>4 DEF Commands
<1>21. CASE Expected(m) /\ Undoes
  <2>1. m.command = "COMMITSET" /\ To("UNDOSET") /\ master.trans = u
        /\ master'.trans = master.trans /\ master'.awaits = "UNDOSET"
    BY <1>3, <1>21 DEF Expected, Undoes, Awaits
  <2>2. \E status \in {"ok", "error"} : Resting(u, "ACTION", status)
    BY <1>3, <1>6, <2>1 DEF AtMaster
  <2>3. (\E status \in {"ok", "error"} : Resting(u, "ACTION", status)') /\ Current(u, "UNDOSET")'
    BY <1>16, <2>1, <2>2, PassesAre DEF Current
  <2>4. \A x : x = [command |-> "UNDOSET", trans |-> u] => AtSubagent(x)'
    BY <2>3 DEF AtSubagent
  <2> QED BY <1>17, <1>21, <2>1, <2>4 DEF Commands
<1>22. CASE Expected(m) /\ Undone
  <2>1. m.command = "UNDOSET" /\ UNCHANGED toSub /\ master'.trans = master.trans
    BY <1>22 DEF Expected, Undone, Awaits
  <2>2. Gone(u)
    BY <1>3, <1>6, <2>1 DEF AtMaster
  <2> QED BY <1>12, <1>15, <1>22, <2>1, <2>2
<1> QED BY <1>11, <1>14, <1>18, <1>19, <1>20, <1>21, <1>22

-----------------------------------------------------------------------------
(* The subagent and its agent, for a SET that met no trouble.              *)

\* The cells a list names are cells.
LEMMA ListedCells ==
    ASSUME Typed
    PROVE  Members(subagentSets) \subseteq Cell
BY LenProperties, ElementOfSeq DEF Typed, Members

\* A pass is queued for the agent.
LEMMA CalmQueued ==
    ASSUME SetsInv, Calm, [Next]_setVars, NEW u \in Trans, NEW x \in Queued, x.trans = u,
           internal' = Append(internal, x), Nowhere(Members(internal), u),
           UNCHANGED <<toMaster, running, master, agentSets, held, link>>,
           Empty(u, "internal")', Distinct(toSub)', Distinct(replies)',
           \A t \in Trans : t # u => KeepsCell(t),
           \A y : y.trans # u => /\ y \in Members(toSub)' <=> y \in Members(toSub)
                                 /\ y \in Members(replies)' <=> y \in Members(replies),
           \A c \in Cell : asi'[c].old = FALSE,
           \A c, d \in Members(subagentSets)' : asi'[c].trans = u /\ asi'[d].trans = u => c = d,
           Serves(x)', OwnCell(x)', Due(x)'
    PROVE  Calm'
<1>1. x \notin Members(internal) /\ internal \in Seq(Queued) /\ Distinct(internal)
  BY DEF Nowhere, SetsInv, Typed, Calm
<1>2. Members(internal)' = Members(internal) \cup {x} /\ Distinct(internal)'
  <2>1. /\ Members(Append(internal, x)) = Members(internal) \cup {x}
        /\ Distinct(Append(internal, x))
    BY <1>1, AppendSet
  <2> QED BY <2>1 DEF Members, Distinct
<1>3. /\ Members(toMaster)' = Members(toMaster) /\ Members(agentSets)' = Members(agentSets)
  BY Members2
<1>4. \A t \in Trans : t # u => Keeps(t)
  <2> SUFFICES ASSUME NEW t \in Trans, t # u PROVE Keeps(t)
    OBVIOUS
  <2>1. KeepsAway(t)
    BY <1>2, <1>3 DEF KeepsAway
  <2>2. KeepsCache(t) /\ KeepsHeld(t)
    BY <1>3 DEF KeepsCache, KeepsHeld
  <2>3. KeepsMaster(t)
    BY DEF KeepsMaster, Current
  <2> QED BY <2>1, <2>2, <2>3 DEF Keeps
<1>5. Stage(u)'
  <2>1. x \in Members(internal)' /\ Lone(Members(internal), u, x)'
    BY <1>2 DEF Lone, Nowhere
  <2> QED BY <2>1 DEF IsQueued, Stage
<1>6. Unique(u)'
  <2>1. Unique(u)
    BY DEF Calm
  <2> QED BY <1>3, <2>1 DEF Unique
<1>7. Owned'
  BY <1>3, OwnedOn DEF Calm
<1>8. link' = "up" /\ Distinct(toMaster)'
  BY DEF Calm, Distinct
<1> QED BY <1>2, <1>4, <1>5, <1>6, <1>7, <1>8, CalmBut

\* A PDU for a SET that has a cell goes on with it (Subagent_restoreSetVars).
LEMMA CalmGoes ==
    ASSUME SetsInv, SubagentReads, NEW m, m = Head(toSub), m.command # "TESTSET",
           Unique(m.trans), NEW c \in Members(subagentSets), asi[c].trans = m.trans,
           NEW pass, pass = PassOf(m.command, asi[c].mode), pass # "none"
    PROVE  /\ asi' = [asi EXCEPT ![c].mode = pass]
           /\ internal' = Append(internal, QueuedPass(pass, m, c))
           /\ UNCHANGED <<toMaster, subagentSets>>
<1>1. Typed /\ LaterSet(m)
  BY DEF SetsInv, SubagentReads, TestSet
<1>2. Restored(m.trans) # 0
  BY <1>1, RestoredCell DEF Members
<1>3. Newest(Restored(m.trans), m.trans)
  BY <1>1, <1>2, RestoredCell
<1>4. Restored(m.trans) = c
  <2>1. Restored(m.trans) \in Members(subagentSets) /\ asi[Restored(m.trans)].trans = m.trans
    BY <1>3 DEF Newest, Members
  <2> QED BY <2>1 DEF Unique
<1>5. Submit(pass, m, c) /\ asi' = [asi EXCEPT ![c].mode = pass]
      /\ UNCHANGED <<toMaster, subagentSets>>
  BY <1>1, <1>2, <1>4 DEF LaterSet
<1> QED BY <1>5 DEF Submit, QueuedPass

LEMMA CalmReads ==
    ASSUME SetsInv, Calm, [Next]_setVars, SubagentReads
    PROVE  Calm'
<1>1. Typed /\ toSub # <<>> /\ toSub' = Tail(toSub) /\ toSub \in Seq(Request)
      /\ asi \in [Cell -> CellType] /\ Members(subagentSets) \subseteq Cell
  BY ListedCells DEF SetsInv, Typed, SubagentReads
<1>2. PICK m \in Request : m = Head(toSub)
  BY <1>1, Tailed
<1>3. PICK u \in Trans : u = m.trans
  BY DEF Request
<1>4. /\ Members(toSub)' = Members(toSub) \ {m} /\ m \in Members(toSub)
      /\ Distinct(toSub)'
  <2>1. Distinct(toSub)
    BY DEF Calm
  <2>2. /\ Members(Tail(toSub)) = Members(toSub) \ {m} /\ m \in Members(toSub)
        /\ Distinct(Tail(toSub))
    BY <1>1, <1>2, <2>1, TailSet
  <2> QED BY <1>1, <2>2 DEF Members, Distinct
<1>5. UNCHANGED <<master, decision, replies, running, agentSets, held, link>>
  BY DEF SubagentReads, masterVars, agentVars
<1>6. /\ Members(replies)' = Members(replies) /\ Distinct(replies)'
      /\ Members(agentSets)' = Members(agentSets)
  BY <1>5, Members2 DEF Calm, Distinct
<1>7. Empty(u, "toSub") /\ Lone(Members(toSub), u, m) /\ AtSubagent(m) /\ Unique(u)
  BY <1>3, <1>4, Found DEF Calm
<1>8. \A t : KeepsCache(t) /\ KeepsHeld(t) /\ KeepsMaster(t)
  BY <1>5, <1>6 DEF KeepsCache, KeepsHeld, KeepsMaster, Current
<1>9. \A y : y.trans # u => /\ y \in Members(toSub)' <=> y \in Members(toSub)
                            /\ y \in Members(replies)' <=> y \in Members(replies)
  BY <1>3, <1>4, <1>6
<1>10. UNCHANGED toMaster => Empty(u, "internal")'
  <2>1. Nowhere(Members(toSub), u)'
    BY <1>4, <1>7 DEF Lone, Nowhere
  <2>2. Nowhere(running, u)' /\ Nowhere(Members(replies), u)'
    BY <1>5, <1>6, <1>7 DEF Empty
  <2>3. UNCHANGED toMaster => Nowhere(Members(toMaster), u)'
    BY <1>7, Members2 DEF Empty
  <2> QED BY <2>1, <2>2, <2>3 DEF Empty
<1>11. Nowhere(Members(internal), u)
  BY <1>7 DEF Empty
<1>12. \A pass \in Passes : \A status : Saw(u, pass, status) => Saw(u, pass, status)'
  BY <1>8, KeptSaw
<1>13. CASE m.command = "TESTSET"
  <2>1. PICK c \in Cell : Tests(m, c)
    BY <1>1, <1>2, <1>13, SubagentReadsMoves DEF Goes, Fails
  <2>2. PICK x : x = QueuedPass("RESERVE1", m, c)
    OBVIOUS
  <2>3. /\ x \in Queued /\ x.pass = "RESERVE1" /\ x.trans = u /\ x.command = "TESTSET"
        /\ x.cell = c
    <3>1. m.trans \in Trans /\ m.command \in Commands
      BY DEF Request
    <3> QED BY <1>3, <1>13, <2>2, <3>1, QueuedTyped, PassesAre DEF QueuedPass
  <2>4. /\ c \notin Members(subagentSets) /\ internal' = Append(internal, x)
        /\ asi' = [asi EXCEPT ![c] = [trans |-> u, mode |-> "RESERVE1", old |-> FALSE]]
        /\ subagentSets' = <<c>> \o subagentSets /\ UNCHANGED toMaster
    BY <1>3, <2>1, <2>2 DEF Tests
  <2>5. Members(subagentSets)' = Members(subagentSets) \cup {c}
    <3>1. Members(<<c>> \o subagentSets) = Members(subagentSets) \cup {c}
      BY <1>1, PrependSet DEF Typed
    <3> QED BY <2>4, <3>1 DEF Members
  <2>6. /\ asi'[c].trans = u /\ asi'[c].mode = "RESERVE1" /\ asi'[c].old = FALSE
        /\ \A d \in Cell : d # c => asi'[d] = asi[d]
    BY <1>1, <2>4
  <2>7. Gone(u) /\ Unheard(u) /\ Current(u, "TESTSET")
    BY <1>3, <1>7, <1>13 DEF AtSubagent
  <2>8. \A t \in Trans : t # u => KeepsCell(t)
    BY <1>1, <2>4, <2>5, <2>6 DEF KeepsCell
  <2>9. \A d \in Cell : asi'[d].old = FALSE
    BY <2>6 DEF Calm
  <2>10. \A d \in Members(subagentSets)' : asi'[d].trans = u => d = c
    BY <1>1, <2>5, <2>6, <2>7 DEF Gone
  <2>11. Serves(x)'
    BY <1>5, <2>3, <2>7 DEF Serves, Reserving, Current
  <2>12. OwnCell(x)'
    BY <2>3, <2>5, <2>6 DEF OwnCell
  <2>13. Due(x)'
    BY <1>5, <1>6, <2>3, <2>7 DEF Due, Unheard, Gone
  <2> QED BY <1>4, <1>5, <1>6, <1>9, <1>10, <1>11, <2>3, <2>4, <2>8, <2>9, <2>10, <2>11, <2>12,
             <2>13, CalmQueued
<1>14. ASSUME m.command # "TESTSET", NEW c \in Members(subagentSets), asi[c].trans = u,
              NEW pass \in Passes, pass = PassOf(m.command, asi[c].mode),
              NEW x, x = QueuedPass(pass, m, c), Serves(x)', Due(x)'
       PROVE  Calm'
  <2>1. pass # "none" /\ c \in Cell
    BY <1>1 DEF Passes, Reserving, Last
  <2>2. /\ asi' = [asi EXCEPT ![c].mode = pass] /\ internal' = Append(internal, x)
        /\ UNCHANGED <<toMaster, subagentSets>>
    BY <1>2, <1>3, <1>7, <1>14, <2>1, CalmGoes
  <2>3. Members(subagentSets)' = Members(subagentSets)
    BY <2>2, Members2
  <2>4. asi[c] \in CellType /\ asi[c].trans = u
    BY <1>1, <1>14, <2>1
  <2>5. /\ \A d \in Cell : asi'[d].trans = asi[d].trans /\ asi'[d].old = asi[d].old
        /\ \A d \in Cell : d # c => asi'[d].mode = asi[d].mode
        /\ asi'[c].mode = pass
    BY <1>1, <2>1, <2>2 DEF CellType
  <2>6. x \in Queued /\ x.pass = pass /\ x.trans = u /\ x.cell = c
    <3>1. m.trans \in Trans /\ m.command \in Commands
      BY DEF Request
    <3> QED BY <1>3, <1>14, <2>1, <3>1, QueuedTyped DEF QueuedPass
  <2>7. \A t \in Trans : t # u => KeepsCell(t)
    BY <1>1, <1>14, <2>3, <2>5 DEF KeepsCell
  <2>8. \A d \in Cell : asi'[d].old = FALSE
    BY <2>5 DEF Calm
  <2>9. \A d, e \in Members(subagentSets)' : asi'[d].trans = u /\ asi'[e].trans = u => d = e
    BY <1>1, <1>7, <2>3, <2>5 DEF Unique
  <2>10. OwnCell(x)'
    BY <1>14, <2>1, <2>3, <2>5, <2>6 DEF OwnCell
  <2> QED BY <1>4, <1>5, <1>6, <1>9, <1>10, <1>11, <1>14, <2>2, <2>6, <2>7, <2>8, <2>9, <2>10,
             CalmQueued
<1>15. \A pass, c, x : x = QueuedPass(pass, m, c) =>
           x.pass = pass /\ x.trans = u /\ x.command = m.command
  BY <1>3 DEF QueuedPass
<1>16. CASE m.command = "COMMITSET"
  <2>1. Current(u, "COMMITSET")' /\ Resting(u, "RESERVE2", "ok")
    BY <1>3, <1>5, <1>7, <1>16 DEF AtSubagent, Current
  <2>2. PICK c \in Members(subagentSets) : asi[c].trans = u /\ asi[c].mode = "RESERVE2"
    BY <2>1 DEF Resting, CellIn
  <2>3. PassOf(m.command, asi[c].mode) = "ACTION"
    BY <1>16, <2>2 DEF PassOf
  <2>4. PICK x : x = QueuedPass("ACTION", m, c)
    OBVIOUS
  <2>5. Saw(u, "RESERVE2", "ok")'
    BY <1>12, <2>1, PassesAre DEF Resting
  <2>6. Serves(x)'
    BY <1>15, <1>16, <2>1, <2>4 DEF Serves
  <2>7. Due(x)'
    BY <1>15, <2>4, <2>5 DEF Due
  <2> QED BY <1>14, <1>16, <2>2, <2>3, <2>4, <2>6, <2>7, PassesAre
<1>17. CASE m.command = "UNDOSET"
  <2>1. PICK status \in {"ok", "error"} : Resting(u, "ACTION", status)
    BY <1>3, <1>7, <1>17 DEF AtSubagent
  <2>2. PICK c \in Members(subagentSets) : asi[c].trans = u /\ asi[c].mode = "ACTION"
    BY <2>1 DEF Resting, CellIn
  <2>3. PassOf(m.command, asi[c].mode) = "UNDO"
    BY <1>17 DEF PassOf
  <2>4. PICK x : x = QueuedPass("UNDO", m, c)
    OBVIOUS
  <2>5. Saw(u, "ACTION", status)'
    BY <1>12, <2>1, PassesAre DEF Resting
  <2>6. Serves(x)'
    BY <1>15, <1>17, <2>4 DEF Serves
  <2>7. Due(x)'
    BY <1>15, <2>4, <2>5 DEF Due
  <2> QED BY <1>14, <1>17, <2>2, <2>3, <2>4, <2>6, <2>7, PassesAre
<1>18. CASE /\ m.command = "CLEANUPSET"
            /\ \E pass \in Reserving, status \in {"ok", "error"} : Resting(u, pass, status)
  <2>1. PICK pass \in Reserving, status \in {"ok", "error"} : Resting(u, pass, status)
    BY <1>18
  <2>2. PICK c \in Members(subagentSets) : asi[c].trans = u /\ asi[c].mode \in Reserving
    BY <2>1 DEF Resting, CellIn
  <2>3. PassOf(m.command, asi[c].mode) = "FREE"
    BY <1>18, <2>2 DEF PassOf
  <2>4. PICK x : x = QueuedPass("FREE", m, c)
    OBVIOUS
  <2>5. Saw(u, pass, status)'
    BY <1>12, <2>1, PassesAre DEF Resting
  <2>6. Serves(x)'
    BY <1>15, <1>18, <2>4 DEF Serves
  <2>7. Due(x)'
    BY <1>15, <2>4, <2>5 DEF Due
  <2> QED BY <1>14, <1>18, <2>2, <2>3, <2>4, <2>6, <2>7, PassesAre
<1>19. CASE m.command = "CLEANUPSET" /\ Resting(u, "ACTION", "ok")
  <2>1. PICK c \in Members(subagentSets) : asi[c].trans = u /\ asi[c].mode = "ACTION"
    BY <1>19 DEF Resting, CellIn
  <2>2. PassOf(m.command, asi[c].mode) = "COMMIT"
    BY <1>19, <2>1 DEF PassOf, Reserving
  <2>3. PICK x : x = QueuedPass("COMMIT", m, c)
    OBVIOUS
  <2>4. Saw(u, "ACTION", "ok")'
    BY <1>12, <1>19, PassesAre DEF Resting
  <2>5. Serves(x)'
    BY <1>15, <1>19, <2>3 DEF Serves
  <2>6. Due(x)'
    BY <1>15, <2>3, <2>4 DEF Due
  <2> QED BY <1>14, <1>19, <2>1, <2>2, <2>3, <2>5, <2>6, PassesAre
<1> QED BY <1>3, <1>7, <1>13, <1>16, <1>17, <1>18, <1>19 DEF AtSubagent

-----------------------------------------------------------------------------
(* The agent of the subagent, for a SET that met no trouble.               *)

\* The handlers are given the requests of a SET, which are not in the cache.
Handed(u, e, cache) ==
    /\ Members(cache) \subseteq Members(agentSets) /\ Nowhere(Members(cache), u)
    /\ \A x \in Members(agentSets) : x.trans # u => x \in Members(cache)
    /\ \A f \in Entry : held[f].pass # "none" /\ held[f].trans = u => f = e
    /\ held[e].pass = "none" \/ held[e].trans = u

\* The entries of a distinct cache are taken once.
LEMMA DistinctCache ==
    ASSUME SetsInv, Owned
    PROVE  Distinct(agentSets)
<1>1. \A i \in DOMAIN agentSets : agentSets[i].entry # Void
  BY Numbers DEF Owned, Members, Void
<1> QED BY <1>1 DEF SetsInv, Cached, Distinct

LEMMA HandedTaken ==
    ASSUME SetsInv, Calm, NEW p, p.trans \in Trans, Due(p), NEW e \in Entry,
           NEW cache \in Seq(Kept), Takes(p, e, cache)
    PROVE  Handed(p.trans, e, cache)
<1> DEFINE u == p.trans
<1>1. Owned /\ Unique(u) /\ agentSets \in Seq(Kept) /\ Distinct(agentSets)
  BY DistinctCache DEF Calm, SetsInv, Typed
<1>2. CASE p.pass = "RESERVE1"
  <2>1. held[e].pass = "none" /\ cache = agentSets
    BY <1>2 DEF Takes
  <2>2. Unheard(u) /\ Nowhere(Members(agentSets), u)
    BY <1>2 DEF Due
  <2> QED BY <2>1, <2>2 DEF Handed, Unheard
<1>3. CASE p.pass # "RESERVE1"
  <2>1. PICK i \in DOMAIN agentSets : /\ agentSets[i].trans = u /\ agentSets[i].entry = e
                                      /\ cache = Without(agentSets, i)
    BY <1>3 DEF Takes
  <2>2. Members(cache) = Members(agentSets) \ {agentSets[i]} /\ agentSets[i] \in Members(agentSets)
    <3>1. Members(Without(agentSets, i)) = Members(agentSets) \ {agentSets[i]}
      BY <1>1, WithoutSet
    <3> QED BY <2>1, <3>1 DEF Members
  <2>3. held[e].pass # "none" /\ held[e].trans = u
    BY <1>1, <2>1, <2>2 DEF Owned
  <2>4. Nowhere(Members(cache), u)
    BY <1>1, <2>1, <2>2 DEF Unique, Nowhere
  <2>5. \A f \in Entry : held[f].pass # "none" /\ held[f].trans = u => f = e
    BY <1>1, <2>3 DEF Unique
  <2> QED BY <2>1, <2>2, <2>3, <2>4, <2>5 DEF Handed
<1> QED BY <1>2, <1>3

\* What the handlers leave of the cache and of the entries.
Leaves(u, e, cache, pass, status) ==
    /\ \A t \in Trans : t # u => KeepsCache(t) /\ KeepsHeld(t)
    /\ held'[e] = [trans |-> u, pass |-> pass, status |-> status]
    /\ agentSets' = cache => Nowhere(Members(agentSets), u)'
    /\ agentSets' = <<[trans |-> u, entry |-> e]>> \o cache => Saw(u, pass, status)'
    /\ \A x, y \in Members(agentSets)' : x.trans = u /\ y.trans = u => x = y
    /\ \A f \in Entry : held'[f].pass # "none" /\ held'[f].trans = u => f = e
    /\ Owned'

LEMMA HandlersLeave ==
    ASSUME SetsInv, Calm, [Next]_setVars, NEW u \in Trans, decision[u] # "none", NEW e \in Entry,
           NEW cache \in Seq(Kept), Handed(u, e, cache), NEW p \in Begun, p.trans = u,
           NEW status \in {"ok", "error", "running"}, Pass(p, e, status),
           \/ agentSets' = cache
           \/ agentSets' = <<[trans |-> u, entry |-> e]>> \o cache
    PROVE  Leaves(u, e, cache, p.pass, status)
<1>1. /\ Owned /\ held \in [Entry -> HeldType] /\ p.pass # "none" /\ p.pass \in Passes
      /\ \A k \in Entry : held[k].pass # "none" => held[k].trans \in Trans
  BY DEF Calm, SetsInv, Typed, Begun, Passes, Reserving, Last, Passing
<1>2. /\ held'[e] = [trans |-> u, pass |-> p.pass, status |-> status]
      /\ \A f \in Entry : f # e => held'[f] = held[f]
  BY <1>1 DEF Pass
<1>3. /\ held'[e].trans = u /\ held'[e].pass = p.pass /\ held'[e].pass # "none"
  BY <1>1, <1>2
<1>4. PICK z : z = [trans |-> u, entry |-> e]
  OBVIOUS
<1>5. z \in Kept /\ z.trans = u /\ z.entry = e
  BY <1>4 DEF Kept
<1>6. \/ agentSets' = cache /\ Members(agentSets)' = Members(cache)
      \/ agentSets' = <<z>> \o cache /\ Members(agentSets)' = Members(cache) \cup {z}
  <2>1. Members(<<z>> \o cache) = Members(cache) \cup {z}
    BY <1>5, PrependSet
  <2> QED BY <1>4, <2>1 DEF Members
<1>7. Members(agentSets)' \subseteq Members(cache) \cup {z}
      /\ Members(cache) \subseteq Members(agentSets)'
  BY <1>6
<1>8. \A t \in Trans : t # u => KeepsCache(t) /\ KeepsHeld(t)
  <2> SUFFICES ASSUME NEW t \in Trans, t # u PROVE KeepsCache(t) /\ KeepsHeld(t)
    OBVIOUS
  <2>1. KeepsCache(t)
    BY <1>5, <1>7 DEF KeepsCache, Handed
  <2>2. KeepsHeld(t)
    BY <1>2, <1>3 DEF KeepsHeld, Handed
  <2> QED BY <2>1, <2>2
<1>9. agentSets' = cache => Nowhere(Members(agentSets), u)'
  BY DEF Handed, Members, Nowhere
<1>10. agentSets' = <<[trans |-> u, entry |-> e]>> \o cache => Saw(u, p.pass, status)'
  <2>1. SUFFICES ASSUME agentSets' = <<z>> \o cache PROVE Saw(u, p.pass, status)'
    BY <1>4
  <2>2. Members(<<z>> \o cache) = Members(cache) \cup {z}
    BY <1>5, PrependSet
  <2>3. z \in Members(agentSets)'
    BY <2>1, <2>2 DEF Members
  <2> QED BY <1>2, <1>4, <2>3 DEF Saw
<1>11. \A x, y \in Members(agentSets)' : x.trans = u /\ y.trans = u => x = y
  BY <1>7 DEF Handed, Nowhere
<1>12. \A f \in Entry : held'[f].pass # "none" /\ held'[f].trans = u => f = e
  BY <1>2 DEF Handed
<1>13. Owned'
  <2>1. \A t \in Trans : decision[t] # "none" => decision'[t] # "none"
    BY DecidedStep
  <2>2. \A f \in Entry : /\ held'[f].pass = "none" => held'[f].status = "ok"
                         /\ held'[f].pass # "none" => decision'[held'[f].trans] # "none"
    <3> TAKE f \in Entry
    <3>1. CASE f = e
      BY <1>3, <2>1, <3>1
    <3>2. CASE f # e
      BY <1>1, <1>2, <2>1, <3>2 DEF Owned
    <3> QED BY <3>1, <3>2
  <2>3. \A x \in Members(cache) : /\ x.entry \in Entry /\ held[x.entry].pass # "none"
                                  /\ held[x.entry].trans = x.trans /\ x.entry # e
    BY <1>1 DEF Owned, Handed, Nowhere
  <2>4. \A x \in Members(agentSets)' : /\ x.entry \in Entry /\ held'[x.entry].pass # "none"
                                       /\ held'[x.entry].trans = x.trans
    <3> TAKE x \in Members(agentSets)'
    <3>1. CASE x \in Members(cache)
      BY <1>2, <2>3, <3>1
    <3>2. CASE x = z
      BY <1>3, <1>5, <3>2
    <3> QED BY <1>7, <3>1, <3>2
  <2> QED BY <2>2, <2>4 DEF Owned
<1> QED BY <1>2, <1>8, <1>9, <1>10, <1>11, <1>12, <1>13 DEF Leaves

\* The handlers of a pass end.
LEMMA CalmDone ==
    ASSUME SetsInv, Calm, [Next]_setVars, NEW u \in Trans, decision[u] # "none", NEW e \in Entry,
           NEW cache \in Seq(Kept), Handed(u, e, cache), NEW p \in Begun, p.trans = u,
           NEW ok \in BOOLEAN, ok \in Outcomes(p.pass),
           Pass(p, e, IF ok THEN "ok" ELSE "error"), agentSets' = Saved(cache, p, e),
           NEW r \in Begun, r.pass = p.pass, r.trans = u, r.command = p.command, r.cell = p.cell,
           r.ok = ok, replies' = Append(replies, r),
           UNCHANGED <<master, toSub, toMaster, subagentSets, asi, link>>,
           Serves(p), OwnCell(p), Nowhere(Members(toSub), u), Nowhere(Members(replies), u),
           Nowhere(Members(toMaster), u), Nowhere(Members(internal), u)', Nowhere(running, u)',
           Distinct(internal)',
           \A y : y.trans # u => /\ y \in Members(internal)' <=> y \in Members(internal)
                                 /\ y \in running' <=> y \in running
    PROVE  Calm'
<1> DEFINE status == IF ok THEN "ok" ELSE "error"
           z      == [trans |-> u, entry |-> e]
<1>1. \/ agentSets' = cache /\ p.pass \in Last
      \/ agentSets' = <<z>> \o cache /\ p.pass \notin Last
  BY DEF Saved
<1>2. status \in {"ok", "error", "running"} /\ Pass(p, e, status)
  OBVIOUS
<1>3. status = (IF ok THEN "ok" ELSE "error")
  OBVIOUS
<1> HIDE DEF status
<1>4. /\ \A t \in Trans : t # u => KeepsCache(t) /\ KeepsHeld(t)
      /\ agentSets' = cache => Nowhere(Members(agentSets), u)'
      /\ agentSets' = <<z>> \o cache => Saw(u, p.pass, status)'
      /\ \A x, y \in Members(agentSets)' : x.trans = u /\ y.trans = u => x = y
      /\ \A f \in Entry : held'[f].pass # "none" /\ held'[f].trans = u => f = e
      /\ Owned'
  <2>1. Leaves(u, e, cache, p.pass, status)
    BY <1>1, <1>2, HandlersLeave
  <2> QED BY <2>1 DEF Leaves
<1> HIDE DEF z
<1>5. Members(replies)' = Members(replies) \cup {r} /\ Distinct(replies)'
  <2>1. replies \in Seq(Begun) /\ Distinct(replies) /\ r \notin Members(replies)
    BY DEF SetsInv, Typed, Calm, Nowhere
  <2>2. Members(Append(replies, r)) = Members(replies) \cup {r} /\ Distinct(Append(replies, r))
    BY <2>1, AppendSet
  <2> QED BY <2>2 DEF Members, Distinct
<1>6. /\ Members(toSub)' = Members(toSub) /\ Members(toMaster)' = Members(toMaster)
      /\ Members(subagentSets)' = Members(subagentSets)
  BY Members2
<1>7. \A t \in Trans : t # u => Keeps(t)
  <2> SUFFICES ASSUME NEW t \in Trans, t # u PROVE Keeps(t)
    OBVIOUS
  <2>1. KeepsAway(t)
    BY <1>5, <1>6 DEF KeepsAway
  <2>2. KeepsCell(t) /\ KeepsMaster(t)
    BY <1>6 DEF KeepsCell, KeepsMaster, Current
  <2> QED BY <1>4, <2>1, <2>2 DEF Keeps
<1>8. Stage(u)'
  <2>1. Empty(u, "replies")'
    BY <1>6 DEF Empty
  <2>2. r \in Members(replies)' /\ Lone(Members(replies), u, r)'
    BY <1>5 DEF Lone, Nowhere
  <2>3. Serves(r)'
    BY DEF Serves, Current
  <2>4. OwnCell(r)'
    BY <1>6 DEF OwnCell
  <2>5. Handled(r)'
    <3>1. CASE p.pass \in Last
      <4>1. ok /\ agentSets' = cache
        BY <1>1, <3>1 DEF Outcomes
      <4> QED BY <1>4, <3>1, <4>1 DEF Handled
    <3>2. CASE p.pass \notin Last /\ ok
      <4>1. status = "ok" /\ Saw(u, p.pass, status)'
        BY <1>1, <1>3, <1>4, <3>2
      <4>2. Saw(u, p.pass, "ok")'
        BY <4>1
      <4> QED BY <3>2, <4>2 DEF Handled
    <3>3. CASE p.pass \notin Last /\ ~ok
      <4>1. status = "error" /\ Saw(u, p.pass, status)'
        BY <1>1, <1>3, <1>4, <3>3
      <4>2. Saw(u, p.pass, "error")'
        BY <4>1
      <4> QED BY <3>3, <4>2 DEF Handled
    <3> QED BY <3>1, <3>2, <3>3
  <2> QED BY <2>1, <2>2, <2>3, <2>4, <2>5 DEF IsDone, Stage
<1>9. Unique(u)'
  <2>1. Unique(u)
    BY DEF Calm
  <2> QED BY <1>4, <1>6, <2>1 DEF Unique
<1>10. /\ link' = "up" /\ \A c \in Cell : asi'[c].old = FALSE
       /\ Distinct(toSub)' /\ Distinct(toMaster)'
  BY DEF Calm, Distinct
<1> QED BY <1>4, <1>5, <1>7, <1>8, <1>9, <1>10, CalmBut

\* A pass that is due finds its requests: the cache neither misses nor holds a
\* void entry (Agent_getSetCache).
LEMMA HandlersCalled ==
    ASSUME SetsInv, Calm, InternalSet, NEW q, q = Head(internal), NEW p, p = Begins(q)
    PROVE  /\ q \in Queued /\ p \in Begun /\ p.trans = q.trans /\ p.trans \in Trans
           /\ Empty(p.trans, "internal") /\ Lone(Members(internal), p.trans, q)
           /\ Serves(p) /\ OwnCell(p) /\ Due(p)
           /\ \E e \in Entry, cache \in Seq(Kept) :
                 Takes(p, e, cache) /\ CallHandlers(p, e, cache) /\ UNCHANGED link
<1>1. Typed /\ internal # <<>> /\ internal \in Seq(Queued)
  BY DEF SetsInv, Typed, InternalSet
<1>2. q \in Queued /\ q \in Members(internal)
  BY <1>1, Tailed DEF Members
<1>3. PICK u \in Trans : u = q.trans
  BY <1>2 DEF Queued
<1>4. /\ p \in Begun /\ p.pass = q.pass /\ p.trans = u /\ p.command = q.command
      /\ p.cell = q.cell
  BY <1>2, <1>3, BegunTyped
<1>5. /\ Empty(u, "internal") /\ Lone(Members(internal), u, q)
      /\ Serves(q) /\ OwnCell(q) /\ Due(q)
  BY <1>2, <1>3, Found DEF Calm
<1>6. Serves(p) /\ OwnCell(p) /\ Due(p)
  BY <1>3, <1>4, <1>5 DEF Serves, OwnCell, Due
<1>7. p.pass # "RESERVE1" => \E i \in DOMAIN agentSets : agentSets[i].trans = u
  <2>1. p.pass # "RESERVE1" => \E pass, status : Saw(u, pass, status)
    BY <1>4, <1>6 DEF Due
  <2>2. \A pass, status : Saw(u, pass, status) => \E x \in Members(agentSets) : x.trans = u
    BY DEF Saw
  <2> QED BY <2>1, <2>2 DEF Members
<1>8. \A i \in DOMAIN agentSets : agentSets[i].entry # Void
  BY Numbers DEF Calm, Owned, Members, Void
<1>9. \E e \in Entry, cache \in Seq(Kept) :
          Takes(p, e, cache) /\ CallHandlers(p, e, cache) /\ UNCHANGED link
  BY <1>1, <1>4, <1>7, <1>8, InternalMoves
<1> QED BY <1>2, <1>3, <1>4, <1>5, <1>6, <1>9

LEMMA CalmInternal ==
    ASSUME SetsInv, Calm, [Next]_setVars, InternalSet
    PROVE  Calm'
<1>1. PICK q, p : q = Head(internal) /\ p = Begins(q)
  OBVIOUS
<1>2. /\ q \in Queued /\ p \in Begun /\ p.trans = q.trans /\ p.trans \in Trans
      /\ Empty(p.trans, "internal") /\ Lone(Members(internal), p.trans, q)
      /\ Serves(p) /\ OwnCell(p) /\ Due(p)
  BY <1>1, HandlersCalled
<1>3. PICK e \in Entry, cache \in Seq(Kept) :
          Takes(p, e, cache) /\ CallHandlers(p, e, cache) /\ UNCHANGED link
  BY <1>1, HandlersCalled
<1>4. PICK u \in Trans : u = p.trans
  BY <1>2
<1>5. p \in Begun /\ p.trans = u /\ q.trans = u
  BY <1>2, <1>4
<1>6. /\ Members(internal)' = Members(internal) \ {q} /\ q \in Members(internal)
      /\ Distinct(internal)'
  <2>1. Distinct(internal) /\ internal \in Seq(Queued)
    BY DEF Calm, SetsInv, Typed
  <2>2. internal # <<>> /\ internal' = Tail(internal)
    BY DEF InternalSet
  <2>3. /\ Members(Tail(internal)) = Members(internal) \ {q} /\ q \in Members(internal)
        /\ Distinct(Tail(internal))
    BY <1>1, <2>1, <2>2, TailSet
  <2> QED BY <2>2, <2>3 DEF Members, Distinct
<1>7. UNCHANGED <<master, decision, toSub, toMaster, subagentSets, asi>>
  BY DEF InternalSet, masterVars, subVars
<1>8. Empty(u, "internal") /\ Lone(Members(internal), u, q)
  BY <1>2, <1>5
<1>9. Serves(p) /\ OwnCell(p) /\ Due(p)
  BY <1>2
<1>10. decision[u] # "none"
  BY <1>5, <1>6 DEF SetsInv, Passing, Flying
<1>11. Owned /\ Unique(u)
  BY DEF Calm
<1>12. Takes(p, e, cache) /\ CallHandlers(p, e, cache) /\ UNCHANGED link
  BY <1>3
<1>13. Handed(u, e, cache)
  BY <1>5, <1>9, <1>12, HandedTaken
<1>14. Nowhere(Members(internal), u)'
  BY <1>6, <1>8 DEF Lone, Nowhere
<1>15. \A y : y.trans # u => (y \in Members(internal)' <=> y \in Members(internal))
  BY <1>5, <1>6
<1>16. /\ Nowhere(Members(toSub), u) /\ Nowhere(running, u) /\ Nowhere(Members(replies), u)
       /\ Nowhere(Members(toMaster), u)
  BY <1>8 DEF Empty
<1>17. ASSUME NEW ok \in Outcomes(p.pass), Pass(p, e, IF ok THEN "ok" ELSE "error"),
              agentSets' = Saved(cache, p, e), WrapUp(p, ok), UNCHANGED running
       PROVE  Calm'
  <2>1. ok \in BOOLEAN
    BY DEF Outcomes
  <2>2. PICK r : r = [p EXCEPT !.ok = ok]
    OBVIOUS
  <2>3. r \in Begun /\ r.pass = p.pass /\ r.trans = u /\ r.command = p.command
        /\ r.cell = p.cell /\ r.ok = ok
    BY <1>5, <2>1, <2>2 DEF Begun
  <2>4. replies' = Append(replies, r)
    BY <1>17, <2>2 DEF WrapUp
  <2>5. Nowhere(running, u)' /\ \A y : y \in running' <=> y \in running
    BY <1>16, <1>17
  <2> QED BY <1>5, <1>6, <1>7, <1>9, <1>10, <1>12, <1>13, <1>14, <1>15, <1>16, <1>17, <2>1, <2>3,
             <2>4, <2>5, CalmDone
<1>18. ASSUME Pass(p, e, "running"), running' = running \cup {[p EXCEPT !.entry = e]},
              agentSets' = cache, UNCHANGED replies
       PROVE  Calm'
  <2>1. PICK x : x = [p EXCEPT !.entry = e]
    OBVIOUS
  <2>2. x \in Begun /\ x.pass = p.pass /\ x.trans = u /\ x.command = p.command
        /\ x.cell = p.cell /\ x.entry = e
    BY <1>5, <2>1 DEF Begun
  <2>3. running' = running \cup {x}
    BY <1>18, <2>1
  <2>4. /\ \A t \in Trans : t # u => KeepsCache(t) /\ KeepsHeld(t)
        /\ held'[e] = [trans |-> u, pass |-> p.pass, status |-> "running"]
        /\ Nowhere(Members(agentSets), u)'
        /\ \A y, z \in Members(agentSets)' : y.trans = u /\ z.trans = u => y = z
        /\ \A f \in Entry : held'[f].pass # "none" /\ held'[f].trans = u => f = e
        /\ Owned'
    <3>1. Leaves(u, e, cache, p.pass, "running")
      BY <1>5, <1>10, <1>13, <1>18, HandlersLeave
    <3> QED BY <1>18, <3>1 DEF Leaves
  <2>5. /\ Members(toSub)' = Members(toSub) /\ Members(toMaster)' = Members(toMaster)
        /\ Members(subagentSets)' = Members(subagentSets)
        /\ Members(replies)' = Members(replies)
    BY <1>7, <1>18, Members2
  <2>6. \A t \in Trans : t # u => Keeps(t)
    <3> SUFFICES ASSUME NEW t \in Trans, t # u PROVE Keeps(t)
      OBVIOUS
    <3>1. KeepsAway(t)
      BY <1>15, <2>2, <2>3, <2>5 DEF KeepsAway
    <3>2. KeepsCell(t) /\ KeepsMaster(t)
      BY <1>7, <2>5 DEF KeepsCell, KeepsMaster, Current
    <3> QED BY <2>4, <3>1, <3>2 DEF Keeps
  <2>7. Stage(u)'
    <3>1. Empty(u, "running")'
      BY <1>14, <1>16, <2>5 DEF Empty
    <3>2. x \in running' /\ Lone(running, u, x)'
      BY <1>16, <2>2, <2>3 DEF Lone, Nowhere
    <3>3. Serves(x)'
      BY <1>5, <1>7, <1>9, <2>2 DEF Serves, Current
    <3>4. OwnCell(x)'
      BY <1>5, <1>7, <1>9, <2>2, <2>5 DEF OwnCell
    <3>5. InHandlers(x)'
      BY <2>2, <2>4 DEF InHandlers
    <3> QED BY <3>1, <3>2, <3>3, <3>4, <3>5 DEF IsRunning, Stage
  <2>8. Unique(u)'
    BY <1>7, <1>11, <2>4, <2>5 DEF Unique
  <2>9. /\ link' = "up" /\ \A c \in Cell : asi'[c].old = FALSE
        /\ Distinct(toSub)' /\ Distinct(toMaster)' /\ Distinct(replies)'
    BY <1>7, <1>12, <1>18 DEF Calm, Distinct
  <2> QED BY <1>6, <2>4, <2>6, <2>7, <2>8, <2>9, CalmBut
<1> QED BY <1>12, <1>17, <1>18 DEF CallHandlers

LEMMA CalmFinish ==
    ASSUME SetsInv, Calm, [Next]_setVars, FinishPass
    PROVE  Calm'
<1>1. PICK p \in Begun, ok \in BOOLEAN : Finishes(p, ok)
  BY FinishMoves DEF SetsInv
<1>2. PICK u \in Trans : u = p.trans
  BY DEF Begun
<1>3. UNCHANGED <<master, decision, toSub, toMaster, subagentSets, asi, internal, link>>
  BY DEF FinishPass, masterVars, subVars
<1>4. p \in running /\ running' = running \ {p} /\ agentSets \in Seq(Kept)
  BY <1>1 DEF Finishes, SetsInv, Typed
<1>5. /\ Empty(u, "running") /\ Lone(running, u, p)
      /\ Serves(p) /\ OwnCell(p) /\ InHandlers(p) /\ Unique(u)
  BY <1>2, <1>4, Found DEF Calm
<1>6. decision[u] # "none"
  BY <1>2, <1>4 DEF SetsInv, Passing, Flying
<1>7. p.entry \in Entry /\ held[p.entry].trans = u /\ held[p.entry].pass = p.pass
      /\ p.pass # "none" /\ Nowhere(Members(agentSets), u)
  BY <1>2, <1>5 DEF InHandlers, Begun, Passes, Reserving, Last
<1>8. PICK e \in Entry : e = p.entry
  BY <1>7
<1>9. Handed(u, e, agentSets)
  BY <1>5, <1>7, <1>8 DEF Handed, Unique
<1>10. PICK r : r = [p EXCEPT !.entry = Void, !.ok = ok]
  OBVIOUS
<1>11. r \in Begun /\ r.pass = p.pass /\ r.trans = u /\ r.command = p.command
       /\ r.cell = p.cell /\ r.ok = ok
  BY <1>2, <1>10 DEF Begun
<1>12. replies' = Append(replies, r) /\ ok \in Outcomes(p.pass)
       /\ Pass(p, e, IF ok THEN "ok" ELSE "error") /\ agentSets' = Saved(agentSets, p, e)
  BY <1>1, <1>8, <1>10 DEF Finishes
<1>13. Members(internal)' = Members(internal) /\ Distinct(internal)'
  BY <1>3, Members2 DEF Calm, Distinct
<1>14. /\ Nowhere(Members(toSub), u) /\ Nowhere(Members(replies), u)
       /\ Nowhere(Members(toMaster), u) /\ Nowhere(Members(internal), u)'
  BY <1>5, <1>13 DEF Empty
<1>15. Nowhere(running, u)' /\ \A y : y.trans # u => (y \in running' <=> y \in running)
  BY <1>2, <1>4, <1>5 DEF Lone, Nowhere
<1>16. UNCHANGED <<master, toSub, toMaster, subagentSets, asi, link>>
  BY <1>3
<1> QED BY <1>2, <1>4, <1>5, <1>6, <1>9, <1>11, <1>12, <1>13, <1>14, <1>15, <1>16, CalmDone

\* Subagent_handleSubagentSetResponse: the pass that follows, or the answer.
LEMMA CalmAnswered ==
    ASSUME SetsInv, Calm, [Next]_setVars, NEW u \in Trans, NEW r \in Begun, r.trans = u,
           OwnCell(r), Handled(r), Serves(r), Answers(r), Empty(u, "replies"),
           Nowhere(Members(replies), u)', Distinct(replies)',
           \A y : y.trans # u => (y \in Members(replies)' <=> y \in Members(replies)),
           UNCHANGED <<master, toSub, running, agentSets, held>>
    PROVE  Calm'
<1>1. /\ Typed /\ Listed /\ Unique(u) /\ link = "up" /\ r.cell \in Cell /\ asi[r.cell].old = FALSE
      /\ subagentSets \in Seq(Cell) /\ toMaster \in Seq(Reply)
  BY DEF Calm, SetsInv, Typed, Begun
<1>2. PICK y : y = [command |-> r.command, trans |-> u, ok |-> r.ok]
  OBVIOUS
<1>3. y \in Reply /\ y.trans = u /\ y.command = r.command /\ y.ok = r.ok
  BY <1>2 DEF Begun, Reply
<1>4. asi[r.cell].mode = r.pass /\ asi[r.cell].trans = u /\ r.cell \in Members(subagentSets)
  BY DEF OwnCell
<1>5. /\ ~(r.pass = "RESERVE1" /\ r.ok)
      /\ r.pass \notin Last => UNCHANGED subagentSets
      /\ r.pass \in Last => subagentSets' = Freed(u)
      /\ toMaster' = Append(toMaster, y)
      /\ UNCHANGED <<asi, internal, link>>
  BY <1>1, <1>2, <1>4 DEF Answers
<1>6. Members(toMaster)' = Members(toMaster) \cup {y} /\ Distinct(toMaster)'
  <2>1. y \notin Members(toMaster) /\ Distinct(toMaster)
    BY <1>3 DEF Empty, Nowhere, Calm
  <2>2. Members(Append(toMaster, y)) = Members(toMaster) \cup {y} /\ Distinct(Append(toMaster, y))
    BY <1>1, <1>3, <2>1, AppendSet
  <2> QED BY <1>5, <2>2 DEF Members, Distinct
<1>7. /\ Members(toSub)' = Members(toSub) /\ Members(internal)' = Members(internal)
      /\ Members(agentSets)' = Members(agentSets)
  BY <1>5, Members2
<1>8. /\ r.pass \notin Last => Members(subagentSets)' = Members(subagentSets)
      /\ r.pass \in Last =>
            /\ Members(subagentSets)' \subseteq Members(subagentSets)
            /\ \A c \in Members(subagentSets)' : asi[c].trans # u
            /\ \A c \in Members(subagentSets) : asi[c].trans # u => c \in Members(subagentSets)'
  <2>1. r.pass \notin Last => Members(subagentSets)' = Members(subagentSets)
    BY <1>5, Members2
  <2>2. ASSUME r.pass \in Last
        PROVE  \E k \in DOMAIN subagentSets :
                  /\ Members(subagentSets)' = Members(subagentSets) \ {subagentSets[k]}
                  /\ asi[subagentSets[k]].trans = u /\ subagentSets[k] \in Members(subagentSets)
    <3>1. PICK k \in DOMAIN subagentSets : /\ Freed(u) = Without(subagentSets, k)
                                           /\ asi[subagentSets[k]].trans = u
      BY <1>1, <1>4, FreedList DEF Members
    <3>2. Distinct(subagentSets)
      BY <1>1 DEF Listed, Distinct
    <3>3. Members(Without(subagentSets, k)) = Members(subagentSets) \ {subagentSets[k]}
      BY <1>1, <3>2, WithoutSet
    <3>4. Members(subagentSets)' = Members(subagentSets) \ {subagentSets[k]}
      <4>1. subagentSets' = Without(subagentSets, k)
        BY <1>5, <2>2, <3>1
      <4>2. Members(subagentSets)' = Members(Without(subagentSets, k))
        BY <4>1 DEF Members
      <4> QED BY <3>3, <4>2
    <3>5. subagentSets[k] \in Members(subagentSets)
      BY DEF Members
    <3> QED BY <3>1, <3>4, <3>5
  <2> QED BY <1>1, <2>1, <2>2 DEF Unique
<1>9. \A t \in Trans : t # u => Keeps(t)
  <2> SUFFICES ASSUME NEW t \in Trans, t # u PROVE Keeps(t)
    OBVIOUS
  <2>1. KeepsAway(t)
    BY <1>3, <1>6, <1>7 DEF KeepsAway
  <2>2. KeepsCell(t)
    BY <1>5, <1>8 DEF KeepsCell
  <2>3. KeepsCache(t) /\ KeepsHeld(t) /\ KeepsMaster(t)
    BY <1>7 DEF KeepsCache, KeepsHeld, KeepsMaster, Current
  <2> QED BY <2>1, <2>2, <2>3 DEF Keeps
<1>10. ASSUME r.pass \notin Last PROVE Resting(u, r.pass, IF r.ok THEN "ok" ELSE "error")'
  <2>1. CellIn(u, r.pass)'
    BY <1>4, <1>5, <1>8, <1>10 DEF CellIn
  <2>2. \A status : Saw(u, r.pass, status) => Saw(u, r.pass, status)'
    BY <1>7 DEF Saw
  <2>3. CASE r.ok
    BY <1>10, <2>1, <2>2, <2>3 DEF Handled, Resting
  <2>4. CASE ~r.ok
    BY <1>10, <2>1, <2>2, <2>4 DEF Handled, Resting
  <2> QED BY <2>3, <2>4
<1>11. AtMaster(y)'
  <2>1. \A command : Current(u, command) => Current(u, command)'
    BY DEF Current
  <2>2. CASE r.pass \in Last
    <3>1. Nowhere(Members(agentSets), u)
      BY <2>2 DEF Handled
    <3>2. Gone(u)'
      BY <1>5, <1>7, <1>8, <2>2, <3>1 DEF Gone, Nowhere
    <3>3. r.command \in {"UNDOSET", "CLEANUPSET"}
      BY <2>2 DEF Serves, Last, Reserving
    <3> QED BY <1>3, <3>2, <3>3 DEF AtMaster
  <2>3. CASE r.pass \in Reserving
    <3>1. r.command = "TESTSET" /\ Current(u, "TESTSET")' /\ r.pass \notin Last
      BY <2>1, <2>3 DEF Serves, Reserving, Last
    <3>2. CASE r.ok
      <4>1. r.pass = "RESERVE2"
        BY <1>5, <2>3, <3>2 DEF Reserving
      <4>2. Resting(u, "RESERVE2", "ok")'
        BY <1>10, <3>1, <3>2, <4>1
      <4> QED BY <1>3, <3>1, <3>2, <4>2 DEF AtMaster
    <3>3. CASE ~r.ok
      <4>1. Resting(u, r.pass, "error")'
        BY <1>10, <3>1, <3>3
      <4> QED BY <1>3, <2>3, <3>1, <3>3, <4>1 DEF AtMaster
    <3> QED BY <3>2, <3>3
  <2>4. CASE r.pass = "ACTION"
    <3>1. r.command = "COMMITSET" /\ Current(u, "COMMITSET")' /\ r.pass \notin Last
      BY <2>1, <2>4 DEF Serves, Reserving, Last
    <3>2. CASE r.ok
      <4>1. Resting(u, "ACTION", "ok")'
        BY <1>10, <2>4, <3>1, <3>2
      <4> QED BY <1>3, <3>1, <3>2, <4>1 DEF AtMaster
    <3>3. CASE ~r.ok
      <4>1. Resting(u, "ACTION", "error")'
        BY <1>10, <2>4, <3>1, <3>3
      <4> QED BY <1>3, <3>1, <3>3, <4>1 DEF AtMaster
    <3> QED BY <3>2, <3>3
  <2> QED BY <2>2, <2>3, <2>4 DEF Serves, Last
<1>12. Stage(u)'
  <2>1. Empty(u, "toMaster")'
    BY <1>7 DEF Empty
  <2>2. y \in Members(toMaster)' /\ Lone(Members(toMaster), u, y)'
    BY <1>3, <1>6 DEF Lone, Empty, Nowhere
  <2> QED BY <1>11, <2>1, <2>2 DEF IsAnswered, Stage
<1>13. Unique(u)'
  <2>1. Members(subagentSets)' \subseteq Members(subagentSets)
    BY <1>8
  <2> QED BY <1>1, <1>5, <1>7, <2>1 DEF Unique
<1>14. Owned'
  BY <1>7, OwnedOn DEF Calm
<1>15. /\ link' = "up" /\ \A c \in Cell : asi'[c].old = FALSE
       /\ Distinct(toSub)' /\ Distinct(internal)'
  BY <1>5 DEF Calm, Distinct
<1> QED BY <1>6, <1>9, <1>12, <1>13, <1>14, <1>15, CalmBut

LEMMA CalmResponse ==
    ASSUME SetsInv, Calm, [Next]_setVars, HandleSetResponse
    PROVE  Calm'
<1>1. Typed /\ replies # <<>> /\ replies' = Tail(replies) /\ replies \in Seq(Begun)
      /\ asi \in [Cell -> CellType] /\ Members(subagentSets) \subseteq Cell
  BY ListedCells DEF SetsInv, Typed, HandleSetResponse
<1>2. PICK r \in Begun : r = Head(replies)
  BY <1>1, Tailed
<1>3. PICK u \in Trans : u = r.trans
  BY DEF Begun
<1>4. /\ Members(replies)' = Members(replies) \ {r} /\ r \in Members(replies)
      /\ Distinct(replies)'
  <2>1. Distinct(replies)
    BY DEF Calm
  <2>2. /\ Members(Tail(replies)) = Members(replies) \ {r} /\ r \in Members(replies)
        /\ Distinct(Tail(replies))
    BY <1>1, <1>2, <2>1, TailSet
  <2> QED BY <1>1, <2>2 DEF Members, Distinct
<1>5. UNCHANGED <<master, toSub, running, agentSets, held>>
  BY DEF HandleSetResponse, masterVars, agentVars
<1>6. /\ Empty(u, "replies") /\ Lone(Members(replies), u, r)
      /\ Serves(r) /\ OwnCell(r) /\ Handled(r) /\ Unique(u)
  BY <1>3, <1>4, Found DEF Calm
<1>7. /\ r.cell \in Cell /\ r.cell \in Members(subagentSets) /\ asi[r.cell].old = FALSE
      /\ asi[r.cell].trans = u /\ asi[r.cell].mode = r.pass /\ asi[r.cell] \in CellType
  BY <1>1, <1>3, <1>6 DEF OwnCell, Calm, Begun
<1>8. ReservesAgain(r) \/ Answers(r)
  <2>1. ~Dangling(r)
    BY <1>7 DEF Dangling
  <2> QED BY <1>2, <2>1, ResponseMoves
<1>9. Nowhere(Members(replies), u)'
      /\ \A y : y.trans # u => (y \in Members(replies)' <=> y \in Members(replies))
  BY <1>3, <1>4, <1>6 DEF Lone, Nowhere
<1>10. CASE Answers(r)
  BY <1>3, <1>4, <1>5, <1>6, <1>9, <1>10, CalmAnswered
<1>11. CASE ReservesAgain(r)
  <2>1. PICK x : x = QueuedPass("RESERVE2", r, r.cell)
    OBVIOUS
  <2>2. /\ r.pass = "RESERVE1" /\ r.ok /\ asi' = [asi EXCEPT ![r.cell].mode = "RESERVE2"]
        /\ internal' = Append(internal, x) /\ UNCHANGED <<toMaster, subagentSets, link>>
    BY <1>7, <1>11, <2>1 DEF ReservesAgain
  <2>3. x \in Queued /\ x.pass = "RESERVE2" /\ x.trans = u /\ x.cell = r.cell
        /\ x.command = r.command
    <3>1. r.trans \in Trans /\ r.command \in Commands
      BY DEF Begun
    <3> QED BY <1>3, <1>7, <2>1, <3>1, QueuedTyped, PassesAre DEF QueuedPass
  <2>4. /\ Members(subagentSets)' = Members(subagentSets) /\ Members(toSub)' = Members(toSub)
        /\ Members(toMaster)' = Members(toMaster) /\ Members(agentSets)' = Members(agentSets)
    BY <1>5, <2>2, Members2
  <2>5. /\ \A d \in Cell : asi'[d].trans = asi[d].trans /\ asi'[d].old = asi[d].old
        /\ \A d \in Cell : d # r.cell => asi'[d].mode = asi[d].mode
        /\ asi'[r.cell].mode = "RESERVE2"
    BY <1>1, <1>7, <2>2 DEF CellType
  <2>6. \A t \in Trans : t # u => KeepsCell(t)
    BY <1>1, <1>7, <2>4, <2>5 DEF KeepsCell
  <2>7. \A d \in Cell : asi'[d].old = FALSE
    BY <2>5 DEF Calm
  <2>8. \A d, e \in Members(subagentSets)' : asi'[d].trans = u /\ asi'[e].trans = u => d = e
    BY <1>1, <1>6, <2>4, <2>5 DEF Unique
  <2>9. OwnCell(x)'
    BY <1>7, <2>3, <2>4, <2>5 DEF OwnCell
  <2>10. Serves(x)'
    BY <1>3, <1>5, <1>6, <2>2, <2>3 DEF Serves, Reserving, Current
  <2>11. Saw(u, "RESERVE1", "ok")
    BY <1>3, <1>6, <2>2 DEF Handled, Last
  <2>12. Due(x)'
    BY <1>5, <2>3, <2>4, <2>11 DEF Due, Saw
  <2>13. Empty(u, "internal")' /\ Nowhere(Members(internal), u) /\ Distinct(toSub)'
    BY <1>5, <1>6, <1>9, <2>4 DEF Empty, Calm, Distinct
  <2>14. \A y : y.trans # u => /\ y \in Members(toSub)' <=> y \in Members(toSub)
                               /\ y \in Members(replies)' <=> y \in Members(replies)
    BY <1>9, <2>4
  <2> QED BY <1>4, <1>5, <2>2, <2>3, <2>6, <2>7, <2>8, <2>9, <2>10, <2>12, <2>13, <2>14, CalmQueued
<1> QED BY <1>8, <1>10, <1>11

-----------------------------------------------------------------------------
(* The second invariant, and what it gives.                                *)

LEMMA CalmInit ==
    ASSUME Init
    PROVE  Calm
<1>1. /\ toSub = <<>> /\ toMaster = <<>> /\ subagentSets = <<>> /\ internal = <<>>
      /\ running = {} /\ replies = <<>> /\ agentSets = <<>> /\ link = "up"
      /\ asi = [c \in Cell |-> [trans |-> 0, mode |-> "none", old |-> FALSE]]
      /\ held = [e \in Entry |-> [trans |-> 0, pass |-> "none", status |-> "ok"]]
  BY DEF Init
<1>2. /\ Members(toSub) = {} /\ Members(toMaster) = {} /\ Members(subagentSets) = {}
      /\ Members(internal) = {} /\ Members(replies) = {} /\ Members(agentSets) = {}
  BY <1>1 DEF Members
<1>3. /\ Distinct(toSub) /\ Distinct(toMaster) /\ Distinct(internal) /\ Distinct(replies)
  BY <1>1 DEF Distinct
<1>4. \A e \in Entry : held[e].pass = "none" /\ held[e].status = "ok"
  BY <1>1
<1>5. \A t \in Trans : Stage(t) /\ Unique(t)
  BY <1>1, <1>2, <1>4 DEF Stage, IsIdle, Empty, Nowhere, Gone, Unique
<1>6. Owned
  BY <1>2, <1>4 DEF Owned
<1>7. \A c \in Cell : asi[c].old = FALSE
  BY <1>1
<1> QED BY <1>1, <1>3, <1>5, <1>6, <1>7 DEF Calm

\* Trouble is not forgotten.
LEMMA TroubleStays ==
    ASSUME Typed, [Next]_setVars
    PROVE  /\ ~troubled' => ~troubled /\ ~MasterTimeout /\ ~Disconnect
           /\ troubled \in BOOLEAN
BY DEF Next, StartSet, MasterReads, MasterTimeout, Disconnect, EndOfStream, Reconnect,
       SubagentReads,
       InternalSet, FinishPass, HandleSetResponse, faultVars, setVars, Typed

LEMMA CalmStep ==
    ASSUME SetsInv, CalmInv, [Next]_setVars
    PROVE  CalmInv'
<1>1. SUFFICES ASSUME ~troubled' PROVE Calm'
  BY DEF CalmInv
<1>2. Calm /\ ~MasterTimeout /\ ~Disconnect
  BY <1>1, TroubleStays DEF SetsInv, CalmInv
<1>3. ~EndOfStream /\ ~Reconnect
  BY <1>2 DEF Calm, EndOfStream, Reconnect
<1>4. CASE UNCHANGED setVars
  <2>1. UNCHANGED <<master, decision, toSub, toMaster, subagentSets, asi, internal, replies>>
        /\ UNCHANGED <<running, agentSets, held, link>>
    BY <1>4 DEF setVars, masterVars, subVars, agentVars
  <2>2. \A t : Keeps(t)
    <3>1. \A t : KeepsAway(t)
      BY <2>1, Members2 DEF KeepsAway
    <3>2. \A t : KeepsCell(t) /\ KeepsCache(t)
      BY <2>1, Members2 DEF KeepsCell, KeepsCache
    <3>3. \A t : KeepsHeld(t) /\ KeepsMaster(t)
      BY <2>1 DEF KeepsHeld, KeepsMaster, Current
    <3> QED BY <3>1, <3>2, <3>3 DEF Keeps
  <2>3. \A t \in Trans : Stage(t)' /\ Unique(t)'
    BY <1>2, <2>2, KeptStage, KeptUnique DEF SetsInv, Calm, Keeps
  <2>4. Owned'
    BY <1>2, <2>1, Members2, OwnedOn DEF Calm
  <2>5. /\ link' = "up" /\ \A c \in Cell : asi'[c].old = FALSE
        /\ Distinct(toSub)' /\ Distinct(toMaster)' /\ Distinct(internal)' /\ Distinct(replies)'
    BY <1>2, <2>1 DEF Calm, Distinct
  <2> QED BY <2>3, <2>4, <2>5 DEF Calm
<1> QED BY <1>2, <1>3, <1>4, CalmStart, CalmMasterReads, CalmReads, CalmInternal, CalmFinish,
           CalmResponse DEF Next

\* Until something is resent, given up or lost, a SET is at one place, and the
\* cell, the cached requests and the answers of the subagent are what that
\* place calls for (Subagent.c, Master.c and Agent.c together).
THEOREM CalmInvariant == Spec => []CalmInv
<1>1. Init => CalmInv
  BY CalmInit DEF CalmInv
<1>2. SetsInv /\ CalmInv /\ [Next]_setVars => CalmInv'
  BY CalmStep
<1> QED BY <1>1, <1>2, SetsInvariant, PTL DEF Spec

\* The pointer that a pass carries names the transaction it was sent for, which
\* is listed and in the mode of that pass; a SET has one pass in flight, and
\* cached requests are its own (the magic of Subagent_handleSubagentSetResponse).
THEOREM AnswersFound == Spec => []AnswersFindTheirSet
<1>1. SetsInv /\ CalmInv => AnswersFindTheirSet
  <2> SUFFICES ASSUME SetsInv, Calm, NEW t \in Trans
               PROVE  /\ Cardinality(InFlight(t)) \leq 1
                      /\ \A p \in InFlight(t) : /\ p.cell \in Members(subagentSets)
                                                /\ asi[p.cell].trans = t
                                                /\ asi[p.cell].mode = p.pass
                      /\ \A x \in Members(agentSets) :
                            x.trans = t => x.entry \in EntriesOf(t) /\ held[x.entry].trans = t
    BY DEF CalmInv, AnswersFindTheirSet
  <2>1. Stage(t) /\ Owned
    BY DEF Calm
  <2>2. \A p, q \in InFlight(t) : p = q
    BY <2>1, Found DEF InFlight, Lone, Empty, Nowhere
  <2>3. Cardinality(InFlight(t)) \leq 1
    <3>1. CASE InFlight(t) = {}
      BY <3>1, FS_EmptySet
    <3>2. ASSUME NEW p \in InFlight(t) PROVE Cardinality(InFlight(t)) \leq 1
      <4>1. InFlight(t) = {p}
        BY <2>2, <3>2
      <4>2. Cardinality({p}) = 1
        BY FS_Singleton
      <4> QED BY <4>1, <4>2
    <3> QED BY <3>1, <3>2
  <2>4. \A p \in InFlight(t) : OwnCell(p) /\ p.trans = t
    BY <2>1, Found DEF InFlight
  <2>5. \A x \in Members(agentSets) :
            x.trans = t => x.entry \in EntriesOf(t) /\ held[x.entry].trans = t
    BY <2>1 DEF Owned, EntriesOf
  <2> QED BY <2>3, <2>4, <2>5 DEF OwnCell
<1> QED BY <1>1, SetsInvariant, CalmInvariant, PTL

\* An answer that a pass succeeded is true: the handlers of the subagent ended
\* both reservations of a TESTSET, or the action of a COMMITSET, without error.
THEOREM AnswersTrue == Spec => []TruthfulAnswers
<1>1. SetsInv /\ CalmInv => TruthfulAnswers
  <2> SUFFICES ASSUME SetsInv, Calm, NEW m \in Members(toMaster), m.ok, NEW e \in EntriesOf(m.trans)
               PROVE  /\ m.command = "TESTSET" => held[e].pass = "RESERVE2"
                      /\ m.command = "COMMITSET" => held[e].pass = "ACTION"
                      /\ m.command \in {"TESTSET", "COMMITSET"} => held[e].status = "ok"
    BY DEF CalmInv, TruthfulAnswers
  <2>1. PICK t \in Trans : t = m.trans
    <3>1. m \in Reply
      BY LenProperties, ElementOfSeq DEF SetsInv, Typed, Members
    <3> QED BY <3>1 DEF Reply
  <2>2. AtMaster(m) /\ Unique(t)
    BY <2>1, Found DEF Calm
  <2>3. e \in Entry /\ held[e].pass # "none" /\ held[e].trans = t
    BY <2>1 DEF EntriesOf
  <2>4. ASSUME NEW pass \in Passes, Saw(t, pass, "ok")
        PROVE  held[e].pass = pass /\ held[e].status = "ok"
    <3>1. PICK f \in Entry : held[f] = [trans |-> t, pass |-> pass, status |-> "ok"]
      BY <2>4 DEF Saw
    <3>2. held[f].pass # "none" /\ held[f].trans = t
      BY <3>1 DEF Passes, Reserving, Last
    <3>3. e = f
      BY <2>2, <2>3, <3>2 DEF Unique
    <3> QED BY <3>1, <3>3
  <2>5. /\ m.command = "TESTSET" => Saw(t, "RESERVE2", "ok")
        /\ m.command = "COMMITSET" => Saw(t, "ACTION", "ok")
    BY <2>1, <2>2 DEF AtMaster, Resting
  <2> QED BY <2>4, <2>5, PassesAre
<1> QED BY <1>1, SetsInvariant, CalmInvariant, PTL

\* What the handlers see next of the requests they are given again.
LEMMA OrderInternal ==
    ASSUME SetsInv, Calm, InternalSet, NEW f \in Entry, held'[f] # held[f]
    PROVE  Follows(held'[f], held[f])
<1>1. PICK q, p : q = Head(internal) /\ p = Begins(q)
  OBVIOUS
<1>2. p \in Begun /\ p.trans \in Trans /\ Due(p)
  BY <1>1, HandlersCalled
<1>3. PICK e \in Entry, cache \in Seq(Kept) : Takes(p, e, cache) /\ CallHandlers(p, e, cache)
  BY <1>1, HandlersCalled
<1>4. held \in [Entry -> HeldType] /\ Owned /\ Unique(p.trans)
  BY <1>2 DEF SetsInv, Typed, Calm
<1>5. PICK status \in {"ok", "error", "running"} : Pass(p, e, status)
  BY <1>3 DEF CallHandlers
<1>6. f = e /\ held'[e].pass = p.pass
  BY <1>4, <1>5 DEF Pass
<1>7. \A pass, status2 : p.pass # "RESERVE1" /\ Saw(p.trans, pass, status2) =>
          held[e].pass = pass /\ held[e].status = status2
  <2> SUFFICES ASSUME NEW pass, NEW status2, p.pass # "RESERVE1", Saw(p.trans, pass, status2)
               PROVE  held[e].pass = pass /\ held[e].status = status2
    OBVIOUS
  <2>1. PICK g \in Entry :
            /\ [trans |-> p.trans, entry |-> g] \in Members(agentSets)
            /\ held[g] = [trans |-> p.trans, pass |-> pass, status |-> status2]
    BY DEF Saw
  <2>2. PICK i \in DOMAIN agentSets : agentSets[i].trans = p.trans /\ agentSets[i].entry = e
    BY <1>3 DEF Takes
  <2>3. agentSets[i] = [trans |-> p.trans, entry |-> g]
    BY <1>4, <2>1, <2>2 DEF Unique, Members
  <2> QED BY <2>1, <2>2, <2>3
<1>8. CASE p.pass = "RESERVE1"
  <2>1. held[e].pass = "none" /\ held[e].status = "ok"
    BY <1>3, <1>4, <1>8 DEF Takes, Owned
  <2> QED BY <1>6, <1>8, <2>1 DEF Follows
<1>9. CASE p.pass # "RESERVE1"
  BY <1>2, <1>6, <1>7, <1>9 DEF Due, Follows, Reserving
<1> QED BY <1>8, <1>9

LEMMA OrderFinish ==
    ASSUME SetsInv, Calm, FinishPass, NEW f \in Entry, held'[f] # held[f]
    PROVE  Follows(held'[f], held[f])
<1>1. PICK p \in Begun, ok \in BOOLEAN : Finishes(p, ok)
  BY FinishMoves DEF SetsInv
<1>2. p \in running /\ p.trans \in Trans /\ held \in [Entry -> HeldType]
  BY <1>1 DEF Finishes, Begun, SetsInv, Typed
<1>3. InHandlers(p)
  BY <1>2, Found DEF Calm
<1>4. PICK status \in {"ok", "error"} : Pass(p, p.entry, status)
  BY <1>1 DEF Finishes
<1>5. f = p.entry /\ held'[f].pass = p.pass /\ held'[f].status = status
  BY <1>2, <1>4 DEF Pass
<1>6. held[f].pass = p.pass /\ held[f].status = "running"
  BY <1>3, <1>5 DEF InHandlers
<1> QED BY <1>5, <1>6 DEF Follows

\* The handlers of the subagent see the passes of a SET one after the other:
\* nothing is reserved twice, acted on before both reservations succeeded,
\* committed after a failed action or undone without one (the mode switch of
\* Subagent_handleAgentxPacket and Subagent_handleSubagentSetResponse).
THEOREM PassesInOrder == Spec => PassOrder
<1>1. SetsInv /\ CalmInv /\ [Next]_setVars =>
          [~troubled' => \A e \in Entry : held'[e] # held[e] => Follows(held'[e], held[e])]_setVars
  <2> SUFFICES ASSUME SetsInv, CalmInv, [Next]_setVars, ~troubled', NEW e \in Entry,
                      held'[e] # held[e]
               PROVE  Follows(held'[e], held[e])
    OBVIOUS
  <2>1. Calm
    BY TroubleStays DEF SetsInv, CalmInv
  <2>2. InternalSet \/ FinishPass
    BY DEF Next, StartSet, MasterReads, MasterTimeout, Disconnect, EndOfStream, Reconnect,
           SubagentReads,
       HandleSetResponse, agentVars, setVars
  <2> QED BY <2>1, <2>2, OrderInternal, OrderFinish
<1> QED BY <1>1, SetsInvariant, CalmInvariant, PTL DEF Spec, PassOrder
=============================================================================

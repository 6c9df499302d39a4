----------------------------- MODULE RegistryTree -----------------------------
(***************************************************************************)
(* The registration tree of one context: src/Firmware/Priot/               *)
(* AgentRegistry.c.  Regions may nest and overlap, so the tree is a list of *)
(* slices that meet end to end, each slice a chain of the Subtree nodes     *)
(* that cover it, the one to be asked first.  Registering splits slices,   *)
(* unregistering unlinks one node of each, and a lookup walks the list,     *)
(* skipping comparisons by the oid_off of the nodes and starting from a     *)
(* cache of pointers into it.                                               *)
(*                                                                         *)
(* A node is named by what tells it from all others, so that a heap is a   *)
(* function from node names to the fields that change.                     *)
(***************************************************************************)
EXTENDS Integers, Sequences, SequencesExt, Functions, FiniteSets

CONSTANTS
    Region, Priority, Session, Object, \* as in Registry
    CacheSize,  \* agentRegistry_lookupCacheSize as configured
    MaxRegs,    \* bound on the regions registered at once
    Nil         \* NULL, and the session of what the agent itself registers

Name == Seq(Nat) \ {<<>>}

\* What tells a node from all others: the registration it stands for and where
\* it starts.
NodeName == [name : Name, prio : Int, sess : Session \cup {Nil}, start : Name]

ASSUME TreeAssumption ==
    /\ CacheSize \in Nat /\ Priority \subseteq Int
    /\ \A n \in Region \cup Object : n \in Name
    /\ \A n \in Region : Len(n) > 1 /\ n[1] \in 0 .. 2
    /\ Nil \notin Session /\ Nil \notin NodeName

VARIABLES
    heap,        \* the nodes and their fields
    first,       \* first_subtree of the context
    lookupCache, \* [entries, pos]: count is the length of entries
    cacheSize    \* agentRegistry_lookupCacheSize

treeVars == <<heap, first, lookupCache, cacheSize>>

-----------------------------------------------------------------------------
(* Names and nodes.                                                        *)

\* off of Api_oidCompareLl: the first position where two names differ.
Differ(a, b) ==
    CHOOSE i \in 1 .. Len(a) + 1 :
        /\ i > Len(a) \/ i > Len(b) \/ a[i] # b[i]
        /\ \A j \in 1 .. i - 1 : j \leq Len(b) /\ a[j] = b[j]

Less(a, b) == LET i == Differ(a, b)
              IN i \leq Len(b) /\ (i > Len(a) \/ a[i] < b[i])

\* The first name after the region of n.
EndOf(n) == [n EXCEPT ![Len(n)] = @ + 1]

Node(n, p, s) == [name |-> n, prio |-> p, sess |-> s, start |-> n]

New(h, x) == [y \in DOMAIN h \cup {x} |->
                IF y = x THEN [end |-> EndOf(x.name), next |-> Nil, prev |-> Nil,
                               children |-> Nil, off |-> 0]
                ELSE h[y]]

Free(h, x) == Restrict(h, DOMAIN h \ {x})

\* The nodes from x on along a pointer.
Follow(link, x) ==
    LET path[y \in DOMAIN link] ==
            IF link[y] \in DOMAIN link THEN <<y>> \o path[link[y]] ELSE <<y>>
    IN IF x \in DOMAIN link THEN path[x] ELSE <<>>

\* A slice from x down, and the heads of the slices from x on.
Chain(h, x) == Follow([y \in DOMAIN h |-> h[y].children], x)
Heads(h, x) == Follow([y \in DOMAIN h |-> h[y].next], x)

\* How many of 1 .. n there are before the first without P.
Leading(n, P(_)) == CHOOSE k \in 0 .. n : /\ k < n => ~P(k + 1)
                                          /\ \A j \in 1 .. k : P(j)

\* Nodes that start at one place, given their next or prev.
ChangeNext(h, S, next) ==
    [y \in DOMAIN h |->
        [h[y] EXCEPT !.next = IF y \in S THEN next ELSE @,
                     !.off  = IF y = next /\ S # {}
                              THEN Differ((CHOOSE x \in S : TRUE).start, y.start) ELSE @]]

ChangePrev(h, S, prev) ==
    [y \in DOMAIN h |->
        [h[y] EXCEPT !.prev = IF y \in S THEN prev ELSE @,
                     !.off  = IF y \in S /\ prev # Nil
                              THEN Differ(prev.start, y.start) ELSE @]]

\* The same for every node of a slice.
SliceNext(h, x, next) == ChangeNext(h, ToSet(Chain(h, x)), next)
SlicePrev(h, x, prev) == ChangePrev(h, ToSet(Chain(h, x)), prev)

-----------------------------------------------------------------------------
(* Lookup.                                                                 *)

\* Mutant: a node that differs where the name does is skipped too.
SkipsEqual(h, x, off) == off # 0 /\ h[x].off \geq off

\* A node that agrees with the one before it where the name did not: the name
\* falls behind this one too.
Skips(h, x, off) == off # 0 /\ h[x].off > off

\* The loop of AgentRegistry_subtreeFindPrev comes to the node x; off is ll_off.
Pass(job, h, o, x) ==
    IF ~job.more THEN job
    ELSE IF Skips(h, x, job.off) THEN [job EXCEPT !.previous = x]
    ELSE IF Less(o, x.start) THEN [job EXCEPT !.next = x, !.more = FALSE]
    ELSE [job EXCEPT !.previous = x, !.off = Differ(o, x.start)]

\* The loop from x, the node before it: the node the name falls behind, and
\* where it stopped.
Walk(h, o, x, previous) ==
    LET list == Heads(h, x)
        job[i \in 0 .. Len(list)] ==
            IF i = 0 THEN [previous |-> previous, next |-> Nil, off |-> 0, more |-> TRUE]
            ELSE Pass(job[i - 1], h, o, list[i])
        end == job[Len(list)]
    IN [previous |-> end.previous, next |-> end.next]

\* AgentRegistry_subtreeFind, given what the walk found.
Containing(h, o, previous) ==
    IF previous \in DOMAIN h /\ Less(o, h[previous].end) THEN previous ELSE Nil

Find(t, o) == Containing(t.heap, o, Walk(t.heap, o, t.first, Nil).previous)

\* The cache entry a lookup starts from: the last that is not behind it.
Hit(o) ==
    LET before == {i \in 1 .. Len(lookupCache.entries) :
                   i \leq cacheSize /\ ~Less(o, lookupCache.entries[i].previous.start)}
    IN IF before = {} THEN 0 ELSE CHOOSE i \in before : \A j \in before : j \leq i

FindPrev(o) ==
    IF Hit(o) = 0 THEN Walk(heap, o, first, Nil)
    ELSE LET e == lookupCache.entries[Hit(o)]
         IN Walk(heap, o, IF e.next = Nil THEN first ELSE e.next, e.previous)

Found(o) == Containing(heap, o, FindPrev(o).previous)

\* _AgentRegistry_lookupCacheAdd
CacheAdd(e) ==
    LET c == lookupCache
    IN [entries |-> IF c.pos < Len(c.entries) THEN [c.entries EXCEPT ![c.pos + 1] = e]
                    ELSE Append(c.entries, e),
        pos |-> (c.pos + 1) % cacheSize]

\* What a lookup of o leaves in the cache.
Remembered(o) ==
    LET e == FindPrev(o)
        i == Hit(o)
    IN IF e.next = Nil \/ e.previous = Nil THEN lookupCache
       ELSE IF i = 0 THEN CacheAdd(e)
       ELSE IF lookupCache.entries[i].previous.start = o THEN lookupCache
       ELSE [lookupCache EXCEPT !.entries[i] = e]

EmptyCache == [entries |-> <<>>, pos |-> 0]

\* Mutant: the position is reset and the entries are not.
Rewound == [lookupCache EXCEPT !.pos = 0]

\* _AgentRegistry_invalidateLookupCache
Invalidated == EmptyCache

-----------------------------------------------------------------------------
(* Registering.                                                            *)

\* AgentRegistry_subtreeSplit: a copy of every node of the slice from at on,
\* linked behind it.  The nodes of a slice end together.
Split(h, x, at) ==
    LET slice == ToSet(Chain(h, x))
        Copy(y) == IF y = Nil THEN Nil ELSE [y EXCEPT !.start = at]
        new == Copy(x)
        cut == [y \in DOMAIN h \cup {Copy(z) : z \in slice} |->
                  IF y \in slice THEN [h[y] EXCEPT !.end = at]
                  ELSE IF y \in DOMAIN h THEN h[y]
                  ELSE [h[[y EXCEPT !.start = x.start]] EXCEPT !.children = Copy(@)]]
    IN IF Less(h[x].end, at) THEN [heap |-> h, node |-> Nil]
       ELSE [heap |-> SlicePrev(SlicePrev(SliceNext(cut, x, new), new, x),
                                h[x].next, new),
             node |-> new]

\* AgentRegistry_removeSubtree and subtreeFree.
Removed(t, x) ==
    LET f == t.heap[x]
        g == IF f.prev = Nil THEN t.heap ELSE [t.heap EXCEPT ![f.prev].next = f.next]
        k == IF f.next = Nil THEN g ELSE [g EXCEPT ![f.next].prev = f.prev]
    IN [t EXCEPT !.first = IF f.prev = Nil THEN f.next ELSE @, !.heap = Free(k, x)]

\* The new node starts where nothing is registered: it ends the list.
LoadVirgin(t, new) ==
    LET previous == Walk(t.heap, new.start, t.first, Nil).previous
        h == ChangePrev(t.heap, {new}, previous)
    IN [heap  |-> ChangeNext(ChangeNext(h, {previous} \ {Nil}, new), {new}, Nil),
        first |-> IF previous = Nil THEN new ELSE t.first,
        ok    |-> TRUE]

\* Mutant: the neighbours go on pointing to the old head.
TellNobody(h, new) == h

\* The neighbours of a slice that has a new head.
TellNeighbours(h, new) == SliceNext(SlicePrev(h, h[new].next, new), h[new].prev, new)

\* The nodes of a slice that stay before the new one.
Ahead(x, new) == \/ Len(x.name) > Len(new.name)
                 \/ Len(x.name) = Len(new.name) /\ x.prio < new.prio

\* The new node matches the slice of x: it takes its place in the chain.
LoadMatching(t, x, new) ==
    LET chain == Chain(t.heap, x)
        Before(i) == Ahead(chain[i], new)
        k     == Leading(Len(chain), Before)
        next  == IF k < Len(chain) THEN chain[k + 1] ELSE Nil
        above == IF k > 0 THEN chain[k] ELSE Nil
        near  == t.heap[IF k > 0 THEN above ELSE next]
        h     == ChangeNext(ChangePrev([t.heap EXCEPT ![new].children = next],
                                       {new}, near.prev), {new}, near.next)
    IN IF next # Nil /\ Len(next.name) = Len(new.name) /\ next.prio = new.prio
       THEN [t EXCEPT !.ok = FALSE]
       ELSE [t EXCEPT !.heap = IF k > 0 THEN [h EXCEPT ![above].children = new]
                               ELSE TellNeighbours(h, new)]

\* The slice that starts at a name, split off the one it falls into if need be.
SplitOff(h, x, at) == IF x.start = at THEN [heap |-> h, node |-> x] ELSE Split(h, x, at)

Opened(t, new) == SplitOff(t.heap, Find(t, new.start), new.start)

\* The new node cut to the end of the slice of x, the rest being left to be
\* loaded, or the slice cut to the end of the node.
Trimmed(h, x, new) ==
    IF Less(h[x].end, h[new].end) THEN Split(h, new, h[x].end)
    ELSE IF Less(h[new].end, h[x].end) THEN [Split(h, x, h[new].end) EXCEPT !.node = Nil]
    ELSE [heap |-> h, node |-> Nil]

\* The rest of a node is loaded next, or goes with what was refused.
Merged(one, rest) ==
    IF one.ok THEN [tree |-> one, node |-> rest]
    ELSE [tree |-> IF rest = Nil THEN one ELSE Removed(one, rest), node |-> Nil]

\* The slice that holds the start of the new node.
LoadSlice(job) ==
    LET t   == job.tree
        new == job.node
        at  == Opened(t, new)
        cut == Trimmed(at.heap, at.node, new)
        one == LoadMatching([t EXCEPT !.heap = cut.heap], at.node, new)
    IN IF new = Nil THEN job
       ELSE IF Find(t, new.start) = Nil THEN [tree |-> LoadVirgin(t, new), node |-> Nil]
       ELSE Merged(one, cut.node)

\* AgentRegistry_subtreeLoad of a node that is in the heap but not in the tree:
\* slice by slice, each at most once.
Load(t, new) ==
    LET slices == Len(Heads(t.heap, t.first)) + 1
        job[k \in 0 .. slices] == IF k = 0 THEN [tree |-> t, node |-> new]
                                  ELSE LoadSlice(job[k - 1])
    IN job[slices].tree

\* Mutant: what is refused stays.
RegisteredUnfreed(t, x) == Load([t EXCEPT !.heap = New(t.heap, x)], x)

\* AgentRegistry_registerMib2: what is refused is freed.
Decided(loaded, x) == IF loaded.ok THEN loaded ELSE [loaded EXCEPT !.heap = Free(@, x)]

Registered(t, x) == Decided(Load([t EXCEPT !.heap = New(t.heap, x)], x), x)

Tree == [heap |-> heap, first |-> first, ok |-> TRUE]

Become(t) == heap' = t.heap /\ first' = t.first

\* The slices of three roots, registered when the context is first used.
Rooted(t, i) == Registered(t, Node(<<i>>, 127, Nil))

Roots == Rooted(Rooted(Rooted([heap |-> <<>>, first |-> Nil, ok |-> TRUE], 0), 1), 2)

Init ==
    /\ heap = Roots.heap /\ first = Roots.first
    /\ lookupCache = EmptyCache
    /\ cacheSize = CacheSize

Regs == {[name |-> x.name, prio |-> x.prio, sess |-> x.sess] :
            x \in {y \in DOMAIN heap : y.sess # Nil}}

\* A session that registers a region twice is refused like any other.
Register(n, p, s) ==
    /\ Cardinality(Regs) < MaxRegs
    /\ [name |-> n, prio |-> p, sess |-> s] \notin Regs
    /\ Become(Registered(Tree, Node(n, p, s)))
    /\ lookupCache' = Invalidated
    /\ UNCHANGED cacheSize

-----------------------------------------------------------------------------
(* Unregistering.                                                          *)

\* Mutant: the slice behind is not told.
BypassedAhead(h, x) ==
    SliceNext(h, h[x].prev, IF h[x].children = Nil THEN h[x].next ELSE h[x].children)

\* The neighbours of the slice whose head x leaves: the node below x is the
\* head now, or the slice is gone.
Bypassed(h, x) ==
    LET f == h[x]
        g == SliceNext(h, f.prev, IF f.children = Nil THEN f.next ELSE f.children)
    IN SlicePrev(g, f.next, IF f.children = Nil THEN f.prev ELSE f.children)

\* AgentRegistry_subtreeUnload and subtreeFree: x, below above in its chain.
Unloaded(t, x, above) ==
    LET f == t.heap[x]
    IN IF above # Nil
       THEN [t EXCEPT !.heap = Free([@ EXCEPT ![above].children = f.children], x)]
       ELSE [t EXCEPT !.heap = Free(Bypassed(@, x), x),
                      !.first = IF f.prev # Nil THEN @
                                ELSE IF f.children = Nil THEN f.next ELSE f.children]

\* The place of a registration in the slice of x, or 0.
PlaceOf(h, x, n, p) ==
    LET chain == Chain(h, x)
        named == {i \in DOMAIN chain : chain[i].name = n /\ chain[i].prio = p}
    IN IF named = {} THEN 0 ELSE CHOOSE i \in named : \A j \in named : i \leq j

UnloadAt(t, x, i) ==
    LET chain == Chain(t.heap, x)
    IN Unloaded(t, chain[i], IF i > 1 THEN chain[i - 1] ELSE Nil)

UnloadSlice(job, x, n, p) ==
    LET i == PlaceOf(job.tree.heap, x, n, p)
    IN IF job.more /\ i # 0 THEN [job EXCEPT !.tree = UnloadAt(@, x, i)]
       ELSE [job EXCEPT !.more = FALSE]

\* From x on, one node of each slice, up to the first that has none.
UnloadFrom(t, x, n, p) ==
    LET list == Heads(t.heap, x)
        job[i \in 0 .. Len(list)] == IF i = 0 THEN [tree |-> t, more |-> TRUE]
                                     ELSE UnloadSlice(job[i - 1], list[i], n, p)
    IN job[Len(list)].tree

\* AgentRegistry_unregisterMibContext without a range.  The early returns
\* leave the lookup cache off.
Unregister(n, p) ==
    LET x == Find(Tree, n)
    IN IF PlaceOf(heap, x, n, p) = 0
       THEN cacheSize' = 0 /\ UNCHANGED <<heap, first, lookupCache>>
       ELSE /\ Become(UnloadFrom(Tree, x, n, p))
            /\ lookupCache' = Invalidated
            /\ UNCHANGED cacheSize

CloseNode(job, y, S) ==
    IF y.sess \in S THEN [job EXCEPT !.tree = Unloaded(@, y, job.above)]
    ELSE [job EXCEPT !.above = y]

\* The nodes of one slice that belong to the sessions S, from its head down.
CloseSlice(t, x, S) ==
    LET chain == Chain(t.heap, x)
        job[i \in 0 .. Len(chain)] == IF i = 0 THEN [tree |-> t, above |-> Nil]
                                      ELSE CloseNode(job[i - 1], chain[i], S)
    IN job[Len(chain)].tree

CloseFrom(t, x, S) ==
    LET list == Heads(t.heap, x)
        tree[i \in 0 .. Len(list)] == IF i = 0 THEN t
                                      ELSE CloseSlice(tree[i - 1], list[i], S)
    IN tree[Len(list)]

\* AgentRegistry_unregisterMibsBySession for a subsession, or for all those
\* of a connection.  AgentRegistry_subtreeJoin does nothing: no two slices
\* share a reginfo.
CloseSessions(S) ==
    /\ Become(CloseFrom(Tree, first, S))
    /\ lookupCache' = IF \E r \in Regs : r.sess \in S THEN Invalidated ELSE lookupCache
    /\ UNCHANGED cacheSize

\* AgentRegistry_subtreeFind for a request.
Lookup(o) ==
    /\ cacheSize > 0
    /\ lookupCache' = Remembered(o)
    /\ UNCHANGED <<heap, first, cacheSize>>

Next ==
    \/ \E n \in Region, p \in Priority, s \in Session : Register(n, p, s)
    \/ \E n \in Region, p \in Priority : Unregister(n, p)
    \/ \E S \in SUBSET Session \ {{}} : CloseSessions(S)
    \/ \E o \in Object : Lookup(o)

Spec == Init /\ [][Next]_treeVars

-----------------------------------------------------------------------------
(* Properties.                                                             *)

Nodes == DOMAIN heap
Ptr   == Nodes \cup {Nil}

(* No pointer of the heap leads into freed memory (AgentRegistry_subtreeFree *)
(* after subtreeUnload), and the cache is within its size.                  *)
TreeTypeOK ==
    /\ first \in Nodes
    /\ \A x \in Nodes : heap[x].next \in Ptr /\ heap[x].prev \in Ptr
                        /\ heap[x].children \in Ptr
    /\ cacheSize \in {0, CacheSize}
    /\ Len(lookupCache.entries) \leq CacheSize

(* However regions were split and unlinked: the slices meet end to end from *)
(* the first root to the last, every node of a slice points to the heads of *)
(* the neighbouring slices and has the bounds of its slice, the node to ask *)
(* comes first in each chain, and nothing is left behind outside the list   *)
(* (subtreeSplit, subtreeLoad, subtreeUnload).                              *)
TreeSound ==
    LET heads == Heads(heap, first)
        slice(i) == Chain(heap, heads[i])
        nodesOf(i) == ToSet(slice(i))
    IN /\ heads[1].start = <<0>> /\ heap[heads[Len(heads)]].end = <<3>>
       /\ UNION {nodesOf(i) : i \in DOMAIN heads} = Nodes
       /\ \A i \in DOMAIN heads :
             /\ i < Len(heads) => heap[heads[i]].end = heads[i + 1].start
             /\ \A x \in nodesOf(i) :
                   /\ x.start = heads[i].start /\ heap[x].end = heap[heads[i]].end
                   /\ heap[x].prev = IF i = 1 THEN Nil ELSE heads[i - 1]
                   /\ heap[x].next = IF i = Len(heads) THEN Nil ELSE heads[i + 1]
             /\ \A j \in 1 .. Len(slice(i)) - 1 : Ahead(slice(i)[j], slice(i)[j + 1])

(* An entry of the lookup cache names two heads that are neighbours now: a  *)
(* lookup that starts from it skips nothing and reads no freed node         *)
(* (_AgentRegistry_invalidateLookupCache).                                  *)
CacheSound ==
    \A i \in 1 .. Len(lookupCache.entries) :
        LET e == lookupCache.entries[i]
        IN /\ e.previous \in ToSet(Heads(heap, first))
           /\ heap[e.previous].next = e.next

(* The walk with its offsets, from the list or from the cache, finds for    *)
(* every object the node the set of registrations calls for: the longest    *)
(* name that covers it, then the smallest priority; and nothing for what    *)
(* lies behind the roots (subtreeFindPrev, subtreeFind).                    *)
Abstract == INSTANCE Registry WITH Root <- Nil, regs <- Regs

LookupsServe ==
    \A o \in Object :
        LET x == Found(o)
        IN IF o[1] > 2 THEN x = Nil
           ELSE /\ x \in Nodes
                /\ Abstract!Serves(o) = IF x.sess = Nil THEN Nil
                     ELSE [name |-> x.name, prio |-> x.prio, sess |-> x.sess]

(* A registration takes effect as a whole or not at all, a duplicate is     *)
(* refused and changes nothing, and unregistering a region or closing a     *)
(* session takes away exactly what it names.                                *)
ImplementsRegistry == Abstract!RegistrySpec
=============================================================================

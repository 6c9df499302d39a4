-------------------------- MODULE RegistryTreeProofs --------------------------
(***************************************************************************)
(* The registration tree for every set of regions, priorities, sessions     *)
(* and objects and every size of the cache.  RegistryShapeProofs determines *)
(* the pointers of the tree by the nodes in it; which nodes there are is    *)
(* then a matter of sets: those of each registration in every slice of its  *)
(* region.  TreeInv is inductive and implies the rest.                      *)
(***************************************************************************)
EXTENDS RegistryShapeProofs

-----------------------------------------------------------------------------
(* A node that waits to be loaded.                                         *)

Pending(h, T, new) ==
    /\ new \in NodeName /\ new \notin T /\ DOMAIN h = T \cup {new}
    /\ h[new].next = Nil /\ h[new].children = Nil

\* What splitting it leaves in the fields of the nodes.
HalvedCells(g, h, new, at) ==
    LET c == Moved(new, at)
    IN /\ Typed(g) /\ DOMAIN g = DOMAIN h \cup {c}
       /\ g[new].end = at /\ g[new].next = c /\ g[new].children = Nil
       /\ g[c].end = h[new].end /\ g[c].next = Nil /\ g[c].children = Nil /\ g[c].prev = new
       /\ SameCells(g, h, DOMAIN h \ {new})

LEMMA HalvedIs ==
    ASSUME NEW h, NEW T, NEW z, Shape(h, T, z), NEW new, Pending(h, T, new),
           NEW at \in Name, Less(new.start, at), Less(at, h[new].end),
           Moved(new, at) \notin DOMAIN h
    PROVE  /\ Split(h, new, at).node = Moved(new, at)
           /\ HalvedCells(Split(h, new, at).heap, h, new, at)
<1> DEFINE D == DOMAIN h
           c == Moved(new, at)
           slice == ToSet(Chain(h, new))
           Copy(y) == IF y = Nil THEN Nil ELSE [y EXCEPT !.start = at]
           cut == [y \in D \cup {Copy(w) : w \in slice} |->
                     IF y \in slice THEN [h[y] EXCEPT !.end = at]
                     ELSE IF y \in D THEN h[y]
                     ELSE [h[[y EXCEPT !.start = new.start]] EXCEPT !.children = Copy(@)]]
           g1 == SliceNext(cut, new, c)
           g2 == SlicePrev(g1, c, new)
           g  == SlicePrev(g2, Nil, c)
<1>1. /\ new \in D /\ new \in NodeName /\ new \notin T /\ T \subseteq D /\ D \subseteq NodeName
      /\ Nil \notin D /\ new # Nil /\ IsFiniteSet(D) /\ h \in [D -> Cell] /\ D = T \cup {new}
      /\ h[new].next = Nil /\ h[new].children = Nil /\ h[new] \in Cell
      /\ new.start \in Name /\ h[new].end \in Name
  <2>1. /\ new \in D /\ new \in NodeName /\ new \notin T /\ D = T \cup {new}
        /\ h[new].next = Nil /\ h[new].children = Nil
    BY DEF Pending
  <2>2. /\ T \subseteq D /\ D \subseteq NodeName
        /\ Nil \notin D /\ IsFiniteSet(D) /\ h \in [D -> Cell]
    BY NilOut DEF Shape, Typed
  <2> QED BY <2>1, <2>2, NodeFacts, CellFacts DEF Shape
<1>2. /\ c \in NodeName /\ c.name = new.name /\ c.prio = new.prio /\ c.sess = new.sess
      /\ c.start = at /\ c \notin D /\ c # Nil
  BY <1>1, NodeFacts
<1>3. slice = {new}
  BY <1>1, ShapeChained, ChainOfLoose
<1>4. Copy(new) = c /\ Copy(Nil) = Nil
  BY <1>1 DEF Moved
<1>5. Split(h, new, at) = [heap |-> g, node |-> c]
  <2>1. ~Less(h[new].end, at)
    BY <1>1, NameOrder
  <2> HIDE DEF c
  <2> QED BY <2>1, <1>1, <1>4 DEF Split
<1> HIDE DEF slice
<1>6. {Copy(w) : w \in slice} = {c}
  BY <1>3, <1>4
<1>7. [c EXCEPT !.start = new.start] = new
  <2> DEFINE b == Moved(c, new.start)
  <2>1. [c EXCEPT !.start = new.start] = b
    BY DEF Moved
  <2>2. /\ b \in NodeName /\ b.name = c.name /\ b.prio = c.prio /\ b.sess = c.sess
        /\ b.start = new.start
    BY <1>1, <1>2, NodeFacts, ZenonT(20)
  <2> HIDE DEF b, c
  <2>3. b = new
    BY <1>1, <1>2, <2>2, NodeFacts
  <2> QED BY <2>1, <2>3
<1> HIDE DEF c
<1>8. DOMAIN cut = D \cup {c}
  BY <1>6
<1>9. cut[new] = [h[new] EXCEPT !.end = at]
  BY <1>1, <1>3
<1>10. \A y \in D \ {new} : cut[y] = h[y]
  BY <1>3
<1>11. cut[c] = [h[new] EXCEPT !.children = Nil]
  <2>1. c \in D \cup {Copy(w) : w \in slice} /\ c \notin D /\ c \notin slice
    BY <1>1, <1>2, <1>3, <1>6
  <2> QED BY <2>1, <1>1, <1>4, <1>7
<1>12. cut = [y \in DOMAIN cut |-> cut[y]]
  OBVIOUS
<1> HIDE DEF cut
<1>13. /\ cut[new].end = at /\ cut[new].next = Nil /\ cut[new].children = Nil
       /\ cut[new] \in Cell
       /\ cut[c].end = h[new].end /\ cut[c].next = Nil /\ cut[c].children = Nil
       /\ cut[c] \in Cell
  <2>1. Nil \in Ref
    BY DEF Ref
  <2> QED BY <1>1, <1>9, <1>11, <2>1 DEF Cell
<1>14. Typed(cut)
  <2>1. \A y \in D \cup {c} : cut[y] \in Cell
    BY <1>1, <1>10, <1>13
  <2>2. IsFiniteSet(D \cup {c})
    BY <1>1, FS_AddElement
  <2>3. cut \in [DOMAIN cut -> Cell]
    BY <1>8, <1>12, <2>1
  <2> QED BY <1>1, <1>2, <1>8, <2>2, <2>3 DEF Typed
<1>15. Chained(cut, T)
  <2>1. T \subseteq DOMAIN cut /\ Ranked(T)
    BY <1>1, <1>8 DEF Shape
  <2>2. \A y \in DOMAIN cut \ T : cut[y].children = Nil
    BY <1>1, <1>8, <1>13
  <2>3. \A y \in T : cut[y] = h[y]
    BY <1>1, <1>10
  <2>4. Belows(cut, T)
    BY <2>3 DEF Shape, Belows
  <2> QED BY <1>14, <2>1, <2>2, <2>4 DEF Chained
<1>16. new \in DOMAIN cut \ T /\ c \in DOMAIN cut \ T /\ new \in Ref /\ c \in Ref /\ new # c
  BY <1>1, <1>2, <1>8 DEF Ref
<1>17. g1 = ChangeNext(cut, {new}, c)
  BY <1>15, <1>16, ChainOfLoose DEF SliceNext
<1> HIDE DEF g1
<1>18. NextChanged(g1, cut, {new}, c, new.start)
  BY <1>1, <1>14, <1>16, <1>17, ChangeNextIs
<1>19. Chained(g1, T)
  BY <1>15, <1>18, ChainsKept DEF NextChanged
<1>20. g2 = ChangePrev(g1, {c}, new)
  <2>1. c \in DOMAIN g1 \ T
    BY <1>16, <1>18 DEF NextChanged
  <2> QED BY <2>1, <1>19, ChainOfLoose DEF SlicePrev
<1> HIDE DEF g2
<1>21. PrevChanged(g2, g1, {c}, new)
  BY <1>16, <1>18, <1>20, ChangePrevIs DEF NextChanged
<1>22. Chained(g2, T)
  BY <1>19, <1>21, ChainsKept DEF PrevChanged
<1>23. PrevChanged(g, g2, {}, c)
  <2>1. PrevChanged(g, g2, Row(T, Nil), c)
    BY <1>16, <1>22, SlicePrevIs
  <2>2. Row(T, Nil) = {}
    BY DEF Row
  <2> HIDE DEF g
  <2> QED BY <2>1, <2>2
<1> HIDE DEF g
<1>24. DOMAIN g = D \cup {c} /\ Typed(g) /\ DOMAIN g1 = D \cup {c} /\ DOMAIN g2 = D \cup {c}
  BY <1>8, <1>18, <1>21, <1>23 DEF NextChanged, PrevChanged
<1>25. /\ g[new].end = at /\ g[new].next = c /\ g[new].children = Nil
  <2>1. g1[new].end = at /\ g1[new].next = c /\ g1[new].children = Nil
    BY <1>1, <1>8, <1>13, <1>18 DEF NextChanged
  <2>2. g2[new].end = at /\ g2[new].next = c /\ g2[new].children = Nil
    BY <2>1, <1>1, <1>24, <1>21 DEF PrevChanged
  <2> QED BY <2>2, <1>1, <1>24, <1>23 DEF PrevChanged
<1>26. g[c].end = h[new].end /\ g[c].next = Nil /\ g[c].children = Nil /\ g[c].prev = new
  <2>1. g1[c].end = h[new].end /\ g1[c].next = Nil /\ g1[c].children = Nil
    BY <1>8, <1>13, <1>16, <1>18 DEF NextChanged
  <2>2. g2[c].end = h[new].end /\ g2[c].next = Nil /\ g2[c].children = Nil /\ g2[c].prev = new
    BY <2>1, <1>24, <1>21 DEF PrevChanged
  <2> QED BY <2>2, <1>24, <1>23 DEF PrevChanged
<1>27. SameCells(g, h, D \ {new})
  <2> SUFFICES ASSUME NEW y \in D \ {new}
               PROVE  /\ g[y].end = h[y].end /\ g[y].next = h[y].next /\ g[y].prev = h[y].prev
                      /\ g[y].children = h[y].children /\ g[y].off = h[y].off
    BY DEF SameCells
  <2>1. y \in D /\ y # new /\ y # c /\ cut[y] = h[y]
    BY <1>2, <1>10
  <2>2. /\ g1[y].end = h[y].end /\ g1[y].next = h[y].next /\ g1[y].prev = h[y].prev
        /\ g1[y].children = h[y].children /\ g1[y].off = h[y].off
    BY <2>1, <1>8, <1>18 DEF NextChanged
  <2>3. /\ g2[y].end = h[y].end /\ g2[y].next = h[y].next /\ g2[y].prev = h[y].prev
        /\ g2[y].children = h[y].children /\ g2[y].off = h[y].off
    BY <2>1, <2>2, <1>24, <1>21 DEF PrevChanged
  <2> QED BY <2>1, <2>3, <1>24, <1>23 DEF PrevChanged
<1>28. Split(h, new, at).node = c /\ Split(h, new, at).heap = g
  BY <1>1, <1>5 DEF g, g2, g1
<1> QED BY <1>24, <1>25, <1>26, <1>27, <1>28 DEF HalvedCells, c

\* Nodes outside the tree come and go.
LEMMA RestShape ==
    ASSUME NEW h, NEW T, NEW z, Shape(h, T, z), NEW g, Typed(g), T \subseteq DOMAIN g,
           SameCells(g, h, T), Loose(g, T)
    PROVE  Shape(g, T, z)
<1>1. \A y \in T : /\ g[y].end = h[y].end /\ g[y].next = h[y].next /\ g[y].prev = h[y].prev
                   /\ g[y].children = h[y].children /\ g[y].off = h[y].off
  BY DEF SameCells
<1>2. Ends(g, T, z)
  BY <1>1 DEF Shape, Ends
<1>3. Nexts(g, T, z)
  BY <1>1 DEF Shape, Nexts
<1>4. Prevs(g, T)
  <2> SUFFICES ASSUME NEW x \in T
               PROVE  IF x.start = <<0>> THEN g[x].prev = Nil
                      ELSE /\ IsTop(T, g[x].prev) /\ g[g[x].prev].end = x.start
                           /\ g[x].off = Differ(g[x].prev.start, x.start)
    BY DEF Prevs
  <2>1. CASE x.start = <<0>>
    BY <1>1, <2>1 DEF Shape, Prevs
  <2>2. CASE x.start # <<0>>
    <3>1. /\ IsTop(T, h[x].prev) /\ h[h[x].prev].end = x.start /\ h[x].prev \in T
          /\ h[x].off = Differ(h[x].prev.start, x.start)
      BY <2>2 DEF Shape, Prevs, IsTop
    <3> QED BY <1>1, <2>2, <3>1
  <2> QED BY <2>1, <2>2
<1>5. Belows(g, T)
  BY <1>1 DEF Shape, Belows
<1> QED BY <1>2, <1>3, <1>4, <1>5 DEF Shape

LEMMA HalvedShape ==
    ASSUME NEW h, NEW T, NEW z, Shape(h, T, z), NEW new, Pending(h, T, new),
           NEW at \in Name, Less(new.start, at), Moved(new, at) \notin DOMAIN h,
           NEW g, HalvedCells(g, h, new, at)
    PROVE  /\ Shape(g, T, z) /\ SameCells(g, h, T)
           /\ DOMAIN g \ T = {new, Moved(new, at)}
<1> DEFINE c == Moved(new, at)
<1>1. /\ Typed(g) /\ DOMAIN g = DOMAIN h \cup {c}
      /\ g[new].next = c /\ g[new].children = Nil
      /\ g[c].next = Nil /\ g[c].children = Nil
      /\ SameCells(g, h, DOMAIN h \ {new})
  BY DEF HalvedCells
<1>2. DOMAIN h = T \cup {new} /\ new \notin T /\ new \in NodeName
  BY DEF Pending
<1>3. c.start = at /\ c \notin DOMAIN h
  BY <1>2, NodeFacts
<1> HIDE DEF c
<1>4. SameCells(g, h, T)
  BY <1>1, <1>2 DEF SameCells
<1>5. DOMAIN g \ T = {new, c}
  BY <1>1, <1>2, <1>3
<1>6. Nil \notin DOMAIN g
  BY <1>1, NodeFacts DEF Typed
<1>7. Loose(g, T)
  BY <1>1, <1>3, <1>5, <1>6 DEF Loose
<1>8. Shape(g, T, z)
  BY <1>1, <1>2, <1>4, <1>7, RestShape
<1> QED BY <1>4, <1>5, <1>8 DEF c

LEMMA FreeShape ==
    ASSUME NEW h, NEW T, NEW z, Shape(h, T, z), NEW x, x \notin T
    PROVE  /\ Shape(Free(h, x), T, z) /\ DOMAIN Free(h, x) = DOMAIN h \ {x}
           /\ SameCells(Free(h, x), h, DOMAIN h \ {x})
<1> DEFINE g == Free(h, x)
<1>1. Typed(g) /\ DOMAIN g = DOMAIN h \ {x} /\ \A y \in DOMAIN h \ {x} : g[y] = h[y]
  BY FreeIs DEF Shape
<1> HIDE DEF g
<1>2. T \subseteq DOMAIN g
  BY <1>1 DEF Shape
<1>3. SameCells(g, h, DOMAIN h \ {x})
  BY <1>1 DEF SameCells
<1>4. SameCells(g, h, T)
  BY <1>1, <1>2, <1>3 DEF SameCells
<1>5. Loose(g, T)
  BY <1>1 DEF Loose, Shape
<1>6. Shape(g, T, z)
  BY <1>1, <1>2, <1>4, <1>5, RestShape
<1> QED BY <1>1, <1>3, <1>6 DEF g

\* The half c of new that was not loaded.
LeftOver(h, T, new, c) ==
    DOMAIN h \ T = {new, c} /\ c # new /\ h[c].next = Nil /\ h[c].prev = new

\* AgentRegistry_removeSubtree.
LEMMA RemovedIs ==
    ASSUME NEW h, NEW T, NEW z, Shape(h, T, z), NEW c, NEW new, LeftOver(h, T, new, c),
           NEW f, NEW ok, NEW r, r = Removed([heap |-> h, first |-> f, ok |-> ok], c)
    PROVE  /\ r = [heap |-> r.heap, first |-> f, ok |-> ok]
           /\ Shape(r.heap, T, z) /\ DOMAIN r.heap \ T = {new}
<1> DEFINE t == [heap |-> h, first |-> f, ok |-> ok]
           k == [h EXCEPT ![new].next = Nil]
           g == Free(k, c)
<1>0. DOMAIN h \ T = {new, c} /\ c # new /\ h[c].next = Nil /\ h[c].prev = new
  BY DEF LeftOver
<1>1. /\ new \in DOMAIN h /\ c \in DOMAIN h /\ new \notin T /\ c \notin T /\ new # Nil
      /\ T \subseteq DOMAIN h /\ h \in [DOMAIN h -> Cell] /\ Typed(h)
  BY <1>0, NilOut DEF Shape, Typed
<1>2. Removed(t, c) = [heap |-> g, first |-> f, ok |-> ok]
  <2>1. t.heap = h /\ t.first = f /\ t.ok = ok
    OBVIOUS
  <2> HIDE DEF t
  <2>2. Removed(t, c) = [t EXCEPT !.first = f, !.heap = Free(k, c)]
    BY <1>0, <1>1, <2>1 DEF Removed
  <2> USE DEF t
  <2> HIDE DEF g, k
  <2>3. Removed(t, c) = [t EXCEPT !.first = f, !.heap = g]
    BY <2>2 DEF g
  <2> QED BY <2>3
<1>3. /\ DOMAIN k = DOMAIN h
      /\ k[new] = [h[new] EXCEPT !.next = Nil]
      /\ \A y \in DOMAIN h \ {new} : k[y] = h[y]
      /\ k = [y \in DOMAIN h |-> k[y]]
  BY <1>1
<1> HIDE DEF k
<1>4. k[new] \in Cell /\ k[new].next = Nil /\ k[new].children = h[new].children
  <2>1. h[new] \in Cell /\ Nil \in Ref
    BY <1>1 DEF Ref
  <2> QED BY <1>3, <2>1 DEF Cell
<1>5. Typed(k)
  <2>1. \A y \in DOMAIN h : k[y] \in Cell
    BY <1>1, <1>3, <1>4
  <2>2. k \in [DOMAIN k -> Cell]
    BY <1>3, <2>1
  <2> QED BY <1>1, <1>3, <2>2 DEF Typed
<1>6. SameCells(k, h, T)
  BY <1>1, <1>3 DEF SameCells
<1>7. Loose(k, T)
  <2>1. Nil \notin DOMAIN h
    BY <1>1, NodeFacts DEF Typed
  <2>2. \A y \in DOMAIN h \ T : h[y].children = Nil
    BY DEF Shape, Loose
  <2>3. k[new].children = Nil /\ k[new].next \notin DOMAIN k
    BY <1>1, <1>3, <1>4, <2>1, <2>2
  <2>4. k[c].children = Nil /\ k[c].next \notin DOMAIN k
    BY <1>0, <1>1, <1>3, <2>1, <2>2
  <2>5. \A y \in DOMAIN k \ T : y = new \/ y = c
    BY <1>0, <1>3
  <2> QED BY <2>3, <2>4, <2>5 DEF Loose
<1>8. Shape(k, T, z)
  BY <1>1, <1>3, <1>5, <1>6, <1>7, RestShape
<1>9. Shape(g, T, z) /\ DOMAIN g = DOMAIN h \ {c}
  BY <1>1, <1>3, <1>8, FreeShape, ZenonT(20)
<1> HIDE DEF g
<1>10. DOMAIN g \ T = {new}
  BY <1>0, <1>9
<1>11. /\ Removed(t, c).heap = g
       /\ Removed(t, c) = [heap |-> g, first |-> f, ok |-> ok]
  BY ONLY <1>2
<1> QED BY <1>9, <1>10, <1>11 DEF t

-----------------------------------------------------------------------------
(* Which nodes the tree holds: those of each registration in every slice of *)
(* its region, and in no other.                                            *)

LEMMA MovedFacts ==
    /\ \A x \in NodeName : Moved(x, x.start) = x
    /\ \A x \in NodeName : \A s, t \in Name : Moved(Moved(x, s), t) = Moved(x, t)
    /\ \A x, y \in NodeName : \A s, t \in Name :
          Moved(x, s) = Moved(y, s) => Moved(x, t) = Moved(y, t)
<1>1. ASSUME NEW x \in NodeName PROVE Moved(x, x.start) = x
  <2> DEFINE m == Moved(x, x.start)
  <2>1. /\ m \in NodeName /\ m.name = x.name /\ m.prio = x.prio /\ m.sess = x.sess
        /\ m.start = x.start
    BY NodeFacts
  <2> HIDE DEF m
  <2>2. m = x
    BY <2>1, NodeFacts
  <2> QED BY <2>2 DEF m
<1>2. ASSUME NEW x \in NodeName, NEW s \in Name, NEW t \in Name
      PROVE  Moved(Moved(x, s), t) = Moved(x, t)
  <2> DEFINE a == Moved(x, s)
             m == Moved(a, t)
             n == Moved(x, t)
  <2>1. a \in NodeName /\ a.name = x.name /\ a.prio = x.prio /\ a.sess = x.sess
    BY NodeFacts
  <2> HIDE DEF a
  <2>2. /\ m \in NodeName /\ m.name = a.name /\ m.prio = a.prio /\ m.sess = a.sess
        /\ m.start = t
    BY <2>1, NodeFacts
  <2>3. /\ n \in NodeName /\ n.name = x.name /\ n.prio = x.prio /\ n.sess = x.sess
        /\ n.start = t
    BY NodeFacts
  <2> HIDE DEF m, n
  <2>4. m.name = n.name /\ m.prio = n.prio /\ m.sess = n.sess /\ m.start = n.start
    BY <2>1, <2>2, <2>3
  <2>5. m \in NodeName /\ n \in NodeName
    BY <2>2, <2>3
  <2>6. m = n
    BY <2>4, <2>5, NodeFacts
  <2> QED BY <2>6 DEF m, n, a
<1>3. ASSUME NEW x \in NodeName, NEW y \in NodeName, NEW s \in Name, NEW t \in Name,
             Moved(x, s) = Moved(y, s)
      PROVE  Moved(x, t) = Moved(y, t)
  <2>1. Moved(Moved(x, s), t) = Moved(Moved(y, s), t)
    BY <1>3
  <2> QED BY <2>1, <1>2
<1> QED BY <1>1, <1>2, <1>3

Edges(T) == {y.start : y \in T}

Whole(T, z, x) ==
    /\ x.name \in Edges(T) /\ (EndOf(x.name) = z \/ EndOf(x.name) \in Edges(T))
    /\ \A s \in Edges(T) : IsPrefix(x.name, s) <=> Moved(x, s) \in T

\* All registrations are whole, but the one of b that is loaded up to m.
Loaded(T, z, b, m) ==
    /\ \A x \in T : x = Moved(b, x.start) \/ Whole(T, z, x)
    /\ \A s \in Edges(T) : Moved(b, s) \in T <=> IsPrefix(b.name, s) /\ Less(s, m)

LEMMA EdgeFacts ==
    ASSUME NEW T, T \subseteq NodeName
    PROVE  /\ \A s \in Edges(T) : s \in Name /\ \E y \in T : y.start = s
           /\ \A y \in T : y.start \in Edges(T)
BY NodeFacts DEF Edges

LEMMA WholeMoved ==
    ASSUME NEW T, T \subseteq NodeName, NEW z, NEW x \in NodeName, NEW s \in Name, Whole(T, z, x)
    PROVE  Whole(T, z, Moved(x, s))
<1>1. Moved(x, s).name = x.name
  BY NodeFacts
<1>2. \A t \in Edges(T) : Moved(Moved(x, s), t) = Moved(x, t)
  BY MovedFacts, EdgeFacts
<1> QED BY <1>1, <1>2 DEF Whole

LEMMA RegionAt ==
    \A n, o \in Name : IsPrefix(n, o) <=> ~Less(o, n) /\ Less(o, EndOf(n))
BY RegionIsInterval DEF Name

\* Whether a region whose bounds are edges covers a name depends on its slice.
LEMMA SameRegion ==
    ASSUME NEW h, NEW T, NEW z, Shape(h, T, z), NEW x \in T, NEW at \in Name,
           ~Less(at, x.start), Less(at, h[x].end),
           NEW n \in Edges(T), EndOf(n) = z \/ EndOf(n) \in Edges(T)
    PROVE  IsPrefix(n, at) <=> IsPrefix(n, x.start)
<1> DEFINE e == EndOf(n)
           end == h[x].end
<1>1. T \subseteq NodeName /\ z \in Name /\ x.start \in Name /\ n \in Name
  BY NilOut, NodeFacts, EdgeFacts DEF Shape
<1>2. e \in Name /\ end \in Name
  BY <1>1, EndOfType, CellFacts DEF Shape
<1>3. \A s \in Edges(T) : Less(x.start, s) => ~Less(s, end)
  BY DEF Shape, Ends, Edges
<1>4. end = z \/ Less(end, z)
  BY EndLeZ
<1>5. /\ IsPrefix(n, at) <=> ~Less(at, n) /\ Less(at, e)
      /\ IsPrefix(n, x.start) <=> ~Less(x.start, n) /\ Less(x.start, e)
  BY <1>1, RegionAt
<1> HIDE DEF e, end
<1>6. ~Less(at, n) => ~Less(x.start, n)
  BY <1>1, <1>2, <1>3, NameOrder DEF end
<1>7. ~Less(x.start, n) => ~Less(at, n)
  BY <1>1, NameOrder
<1>8. Less(at, e) => Less(x.start, e)
  BY <1>1, <1>2, NameOrder
<1>9. Less(x.start, e) => Less(at, e)
  <2> SUFFICES ASSUME Less(x.start, e) PROVE Less(at, e)
    OBVIOUS
  <2>1. ~Less(e, end)
    <3>1. CASE e = z
      BY <3>1, <1>1, <1>2, <1>4, NameOrder
    <3>2. CASE e \in Edges(T)
      BY <3>2, <1>3
    <3> QED BY <3>1, <3>2 DEF e
  <2> QED BY <2>1, <1>1, <1>2, NameOrder DEF end
<1> QED BY <1>5, <1>6, <1>7, <1>8, <1>9

\* A split adds an edge, and gives each registration of the slice a node there.
LEMMA SplitEdges ==
    ASSUME NEW h, NEW T, NEW z, Shape(h, T, z), NEW x \in T, NEW at \in Name,
           Less(x.start, at), Less(at, h[x].end),
           NEW U, U = T \cup Copies(T, x, at)
    PROVE  /\ U \subseteq NodeName /\ Edges(U) = Edges(T) \cup {at} /\ at \notin Edges(T)
           /\ \A y \in U : y \in T \/ \E w \in Level(T, x) : y = Moved(w, at)
           /\ \A y \in NodeName : \A s \in Edges(T) : Moved(y, s) \in U <=> Moved(y, s) \in T
           /\ \A y \in NodeName : Moved(y, at) \in U <=> Moved(y, x.start) \in T
<1>1. T \subseteq NodeName
  BY NilOut DEF Shape
<1>2. \A y \in Level(T, x) : y \in NodeName /\ y \in T /\ y.start = x.start
  BY <1>1 DEF Level
<1>3. \A y \in U : y \in T \/ \E w \in Level(T, x) : y = Moved(w, at)
  BY DEF Copies
<1>4. U \subseteq NodeName
  BY <1>1, <1>2, <1>3, NodeFacts
<1>5. at \notin Edges(T)
  <2>1. \A s \in Edges(T) : Less(x.start, s) => ~Less(s, h[x].end)
    BY DEF Shape, Ends, Edges
  <2> QED BY <2>1
<1>6. \A y \in Level(T, x) : Moved(y, at) \in U
  BY DEF Copies
<1>7. Edges(U) = Edges(T) \cup {at}
  <2>1. ASSUME NEW s \in Edges(U) PROVE s \in Edges(T) \cup {at}
    <3>1. PICK y \in U : y.start = s
      BY <1>4, EdgeFacts
    <3>2. CASE y \in T
      BY <3>1, <3>2, <1>1, EdgeFacts
    <3>3. CASE y \notin T
      <4>1. PICK w \in Level(T, x) : y = Moved(w, at)
        BY <3>3, <1>3
      <4>2. Moved(w, at).start = at
        BY <1>2, NodeFacts
      <4> QED BY <3>1, <4>1, <4>2
    <3> QED BY <3>2, <3>3
  <2>2. ASSUME NEW s \in Edges(T) PROVE s \in Edges(U)
    BY DEF Edges
  <2>3. at \in Edges(U)
    <3>1. x \in Level(T, x)
      BY DEF Level
    <3>2. Moved(x, at) \in U /\ Moved(x, at).start = at
      BY <3>1, <1>2, <1>6, NodeFacts
    <3> QED BY <3>2, <1>4, EdgeFacts
  <2> QED BY <2>1, <2>2, <2>3
<1>8. ASSUME NEW y \in NodeName, NEW s \in Edges(T)
      PROVE  Moved(y, s) \in U <=> Moved(y, s) \in T
  <2>1. s \in Name /\ s # at
    BY <1>1, <1>5, EdgeFacts
  <2>2. Moved(y, s).start = s
    BY <2>1, NodeFacts
  <2>3. \A w \in Level(T, x) : Moved(w, at).start = at
    BY <1>2, NodeFacts
  <2> QED BY <2>1, <2>2, <2>3, <1>3
<1>9. ASSUME NEW y \in NodeName
      PROVE  Moved(y, at) \in U <=> Moved(y, x.start) \in T
  <2>0. x.start \in Name
    BY <1>1, NodeFacts
  <2>1. ASSUME Moved(y, x.start) \in T PROVE Moved(y, at) \in U
    <3>1. Moved(y, x.start) \in Level(T, x)
      BY <2>0, <2>1, NodeFacts DEF Level
    <3>2. Moved(Moved(y, x.start), at) = Moved(y, at)
      BY <2>0, MovedFacts
    <3> QED BY <3>1, <3>2, <1>6
  <2>2. ASSUME Moved(y, at) \in U PROVE Moved(y, x.start) \in T
    <3>1. Moved(y, at).start = at
      BY NodeFacts
    <3>2. Moved(y, at) \notin T
      BY <3>1, <1>1, <1>5, EdgeFacts
    <3>3. PICK w \in Level(T, x) : Moved(y, at) = Moved(w, at)
      BY <3>2, <2>2, <1>3
    <3>4. Moved(y, x.start) = Moved(w, x.start) /\ Moved(w, w.start) = w
      BY <3>3, <2>0, <1>2, MovedFacts
    <3> QED BY <3>4, <1>2
  <2> QED BY <2>1, <2>2
<1> QED BY <1>3, <1>4, <1>5, <1>7, <1>8, <1>9

LEMMA SplitLoaded ==
    ASSUME NEW h, NEW T, NEW z, Shape(h, T, z), NEW x \in T, NEW at \in Name,
           Less(x.start, at), Less(at, h[x].end),
           NEW U, U = T \cup Copies(T, x, at),
           NEW b \in NodeName, NEW m, Loaded(T, z, b, m),
           IsPrefix(b.name, at) /\ Less(at, m) <=> IsPrefix(b.name, x.start) /\ Less(x.start, m)
    PROVE  Loaded(U, z, b, m)
<1>1. /\ T \subseteq NodeName /\ x.start \in Edges(T) /\ x.start \in Name
  BY NilOut, EdgeFacts, NodeFacts DEF Shape
<1>2. /\ U \subseteq NodeName /\ Edges(U) = Edges(T) \cup {at} /\ at \notin Edges(T)
      /\ \A y \in U : y \in T \/ \E w \in Level(T, x) : y = Moved(w, at)
      /\ \A y \in NodeName : \A s \in Edges(T) : Moved(y, s) \in U <=> Moved(y, s) \in T
      /\ \A y \in NodeName : Moved(y, at) \in U <=> Moved(y, x.start) \in T
  BY SplitEdges
<1>3. ASSUME NEW w \in NodeName, Whole(T, z, w) PROVE Whole(U, z, w)
  <2>1. w.name \in Edges(T) /\ (EndOf(w.name) = z \/ EndOf(w.name) \in Edges(T))
    BY <1>3 DEF Whole
  <2>2. IsPrefix(w.name, at) <=> IsPrefix(w.name, x.start)
    <3>1. ~Less(at, x.start)
      BY <1>1, NameOrder
    <3> QED BY <3>1, <2>1, SameRegion
  <2>3. IsPrefix(w.name, x.start) <=> Moved(w, x.start) \in T
    BY <1>1, <1>3 DEF Whole
  <2>4. IsPrefix(w.name, at) <=> Moved(w, at) \in U
    BY <1>2, <2>2, <2>3
  <2>5. \A s \in Edges(T) : IsPrefix(w.name, s) <=> Moved(w, s) \in U
    BY <1>2, <1>3 DEF Whole
  <2> QED BY <1>2, <2>1, <2>4, <2>5 DEF Whole
<1>4. ASSUME NEW y \in U PROVE y = Moved(b, y.start) \/ Whole(U, z, y)
  <2>1. CASE y \in T
    BY <2>1, <1>1, <1>3 DEF Loaded
  <2>2. CASE y \notin T
    <3>1. PICK w \in Level(T, x) : y = Moved(w, at)
      BY <2>2, <1>2
    <3>2. w \in T /\ w \in NodeName /\ y.start = at
      BY <3>1, <1>1, NodeFacts DEF Level
    <3>3. CASE w = Moved(b, w.start)
      BY <3>1, <3>2, <3>3, MovedFacts, NodeFacts
    <3>4. CASE Whole(T, z, w)
      BY <3>1, <3>2, <3>4, <1>2, <1>3, WholeMoved
    <3> QED BY <3>2, <3>3, <3>4 DEF Loaded
  <2> QED BY <2>1, <2>2
<1>5. ASSUME NEW s \in Edges(U)
      PROVE  Moved(b, s) \in U <=> IsPrefix(b.name, s) /\ Less(s, m)
  <2>1. CASE s \in Edges(T)
    BY <2>1, <1>2 DEF Loaded
  <2>2. CASE s = at
    <3>1. Moved(b, x.start) \in T <=> IsPrefix(b.name, x.start) /\ Less(x.start, m)
      BY <1>1 DEF Loaded
    <3> QED BY <2>2, <3>1, <1>2
  <2> QED BY <2>1, <2>2, <1>2
<1> QED BY <1>4, <1>5 DEF Loaded

LEMMA MatchLoaded ==
    ASSUME NEW h, NEW T, NEW z, Shape(h, T, z), NEW x \in T, NEW b \in NodeName,
           NEW new, new = Moved(b, x.start), IsPrefix(b.name, x.start),
           Loaded(T, z, b, x.start), NEW U, U = T \cup {new}
    PROVE  Loaded(U, z, b, h[x].end) /\ Edges(U) = Edges(T) /\ U \subseteq NodeName
<1>1. /\ T \subseteq NodeName /\ x.start \in Edges(T) /\ x.start \in Name /\ h[x].end \in Name
  BY NilOut, EdgeFacts, NodeFacts, CellFacts DEF Shape
<1>2. new \in NodeName /\ new.start = x.start
  BY <1>1, NodeFacts
<1>3. U \subseteq NodeName
  BY <1>1, <1>2
<1>4. Edges(U) = Edges(T)
  <2>1. \A s \in Edges(U) : s \in Edges(T)
    BY <1>1, <1>2, <1>3, EdgeFacts
  <2>2. \A s \in Edges(T) : s \in Edges(U)
    BY DEF Edges
  <2> QED BY <2>1, <2>2
<1>5. ASSUME NEW y \in U PROVE y = Moved(b, y.start) \/ Whole(U, z, y)
  <2>1. CASE y = new
    BY <2>1, <1>2
  <2>2. CASE y # new /\ y # Moved(b, y.start)
    <3>1. y \in T /\ y \in NodeName /\ y.start \in Name
      BY <2>2, <1>1, NodeFacts
    <3>2. Whole(T, z, y)
      BY <3>1, <2>2 DEF Loaded
    <3>3. ASSUME NEW s \in Edges(T) PROVE Moved(y, s) # new
      <4> SUFFICES ASSUME Moved(y, s) = new PROVE FALSE
        OBVIOUS
      <4>1. s = x.start
        <5>1. s \in Name
          BY <1>1, EdgeFacts
        <5>2. Moved(y, s).start = s
          BY <5>1, <3>1, NodeFacts
        <5> QED BY <5>2, <1>2
      <4>2. Moved(y, y.start) = Moved(b, y.start)
        BY <4>1, <1>1, <3>1, MovedFacts
      <4> QED BY <4>2, <2>2, <3>1, MovedFacts
    <3> QED BY <3>2, <3>3, <1>4 DEF Whole
  <2> QED BY <2>1, <2>2
<1>6. ASSUME NEW s \in Edges(T)
      PROVE  Moved(b, s) \in U <=> IsPrefix(b.name, s) /\ Less(s, h[x].end)
  <2>1. s \in Name
    BY <1>1, EdgeFacts
  <2>2. Moved(b, s) = new <=> s = x.start
    BY <1>2, <2>1, NodeFacts
  <2>3. Moved(b, s) \in T <=> IsPrefix(b.name, s) /\ Less(s, x.start)
    BY DEF Loaded
  <2>4. Less(x.start, h[x].end) /\ (Less(x.start, s) => ~Less(s, h[x].end))
    BY DEF Shape, Ends, Edges
  <2>5. Less(s, h[x].end) <=> s = x.start \/ Less(s, x.start)
    BY <1>1, <2>1, <2>4, NameOrder
  <2> QED BY <2>2, <2>3, <2>5
<1> QED BY <1>3, <1>4, <1>5, <1>6 DEF Loaded

-----------------------------------------------------------------------------
(* Loading a node slice by slice.                                          *)

\* The node new is what of b has not been loaded.
Waits(h, T, z, b, new) ==
    /\ Shape(h, T, z) /\ Pending(h, T, new) /\ Loaded(T, z, b, new.start)
    /\ b \in NodeName /\ new = Moved(b, new.start) /\ new.start # <<0>>
    /\ new.start = b.name \/ new.start \in Edges(T)
    /\ IsPrefix(b.name, new.start) /\ h[new].end = EndOf(b.name)
    /\ EndOf(b.name) = z \/ Less(EndOf(b.name), z)

\* Every node of U is one of b or of a registration of T.
Kin(T, U, b) ==
    /\ T \subseteq U
    /\ \A x \in U : x = Moved(b, x.start) \/ \E y \in T : x = Moved(y, x.start)

LEMMA KinSelf ==
    ASSUME NEW T, T \subseteq NodeName, NEW b
    PROVE  Kin(T, T, b)
BY MovedFacts DEF Kin

LEMMA KinOn ==
    ASSUME NEW T, NEW U, NEW V, NEW b \in NodeName, V \subseteq NodeName, U \subseteq NodeName,
           T \subseteq NodeName, Kin(T, U, b), Kin(U, V, b)
    PROVE  Kin(T, V, b)
<1>1. T \subseteq V
  BY DEF Kin
<1>2. ASSUME NEW x \in V PROVE x = Moved(b, x.start) \/ \E y \in T : x = Moved(y, x.start)
  <2>1. x.start \in Name
    BY NodeFacts
  <2>2. CASE \E y \in U : x = Moved(y, x.start)
    <3>1. PICK y \in U : x = Moved(y, x.start)
      BY <2>2
    <3>2. y.start \in Name /\ y \in NodeName
      BY NodeFacts
    <3>3. CASE y = Moved(b, y.start)
      BY <2>1, <3>1, <3>2, <3>3, MovedFacts
    <3>4. CASE \E w \in T : y = Moved(w, y.start)
      <4>1. PICK w \in T : y = Moved(w, y.start)
        BY <3>4
      <4>2. x = Moved(w, x.start)
        BY <2>1, <3>1, <3>2, <4>1, MovedFacts
      <4> QED BY <4>2
    <3> QED BY <3>3, <3>4 DEF Kin
  <2> QED BY <2>2 DEF Kin
<1> QED BY <1>1, <1>2 DEF Kin

LEMMA KinCopies ==
    ASSUME NEW T, T \subseteq NodeName, NEW x, NEW at \in Name, NEW b
    PROVE  Kin(T, T \cup Copies(T, x, at), b)
<1>1. ASSUME NEW y \in T \cup Copies(T, x, at)
      PROVE  \E w \in T : y = Moved(w, y.start)
  <2>1. CASE y \in T
    BY <2>1, MovedFacts
  <2>2. CASE y \in Copies(T, x, at)
    <3>1. PICK w \in Level(T, x) : y = Moved(w, at)
      BY <2>2 DEF Copies
    <3>2. w \in T /\ y.start = at
      BY <3>1, NodeFacts DEF Level
    <3> QED BY <3>1, <3>2
  <2> QED BY <2>1, <2>2
<1> QED BY <1>1 DEF Kin

LEMMA WaitsFacts ==
    ASSUME NEW h, NEW T, NEW z, NEW b, NEW new, Waits(h, T, z, b, new)
    PROVE  /\ T \subseteq NodeName /\ T \subseteq DOMAIN h /\ z \in Name
           /\ b.name \in Name /\ new.start \in Name /\ EndOf(b.name) \in Name
           /\ Less(new.start, EndOf(b.name)) /\ Less(new.start, z) /\ ~Less(new.start, b.name)
           /\ new \in DOMAIN h \ T /\ DOMAIN h \ T = {new} /\ new \in NodeName
           /\ \A y \in DOMAIN h \ T : h[y].next = Nil
<1>1. T \subseteq NodeName /\ T \subseteq DOMAIN h /\ z \in Name
  BY NilOut DEF Waits, Shape
<1>2. /\ new \in DOMAIN h \ T /\ DOMAIN h \ T = {new} /\ new \in NodeName
      /\ \A y \in DOMAIN h \ T : h[y].next = Nil
  BY DEF Waits, Pending
<1>3. b.name \in Name /\ new.start \in Name
  BY <1>2, NodeFacts DEF Waits
<1>4. EndOf(b.name) \in Name
  BY <1>3, EndOfType
<1>5. ~Less(new.start, b.name) /\ Less(new.start, EndOf(b.name))
  BY <1>3, RegionAt DEF Waits
<1>6. Less(new.start, z)
  BY <1>1, <1>3, <1>4, <1>5, NameOrder DEF Waits
<1> QED BY <1>1, <1>2, <1>3, <1>4, <1>5, <1>6

LEMMA OpenedIs ==
    ASSUME NEW h, NEW T, NEW z, NEW b, NEW new, Waits(h, T, z, b, new),
           NEW f, IsTop(T, f), f.start = << 0 >>,
           NEW t, t = [heap |-> h, first |-> f, ok |-> TRUE]
    PROVE  /\ Find(t, new.start) # Nil
           /\ \E U : /\ Waits(Opened(t, new).heap, U, z, b, new)
                     /\ IsTop(U, Opened(t, new).node) /\ Opened(t, new).node.start = new.start
                     /\ IsTop(U, f) /\ Edges(U) = Edges(T) \cup {new.start} /\ Kin(T, U, b)
<1> DEFINE x == Find(t, new.start)
           at == new.start
           n == b.name
<1>0. Shape(h, T, z) /\ Pending(h, T, new) /\ Loaded(T, z, b, at) /\ b \in NodeName
  BY DEF Waits
<1>1. /\ T \subseteq NodeName /\ T \subseteq DOMAIN h /\ z \in Name
      /\ n \in Name /\ at \in Name /\ EndOf(n) \in Name
      /\ Less(at, EndOf(n)) /\ Less(at, z) /\ ~Less(at, n)
      /\ new \in DOMAIN h \ T /\ DOMAIN h \ T = {new} /\ new \in NodeName
      /\ \A y \in DOMAIN h \ T : h[y].next = Nil
  BY WaitsFacts
<1>2. Reaches(h, T, z, at, x) /\ Less(at, h[x].end)
  BY <1>0, <1>1, FindIs
<1>3. Opened(t, new) = IF x.start = at THEN [heap |-> h, node |-> x] ELSE Split(h, x, at)
  BY DEF Opened, SplitOff
<1> HIDE DEF x
<1>4. IsTop(T, x) /\ x \in T /\ x # Nil /\ ~Less(at, x.start) /\ x.start \in Name
  BY <1>0, <1>1, <1>2, NilOut, NodeFacts DEF Reaches, IsTop, Shape
<1>5. CASE x.start = at
  <2>1. Opened(t, new).heap = h /\ Opened(t, new).node = x
    BY <1>3, <1>5
  <2>2. Edges(T) = Edges(T) \cup {at}
    BY <1>1, <1>4, <1>5, EdgeFacts
  <2>3. Kin(T, T, b)
    BY <1>1, KinSelf
  <2> QED BY <1>4, <1>5, <2>1, <2>2, <2>3 DEF x
<1>6. CASE x.start # at
  <2> DEFINE U == T \cup Copies(T, x, at)
             g == Split(h, x, at).heap
             c == Moved(x, at)
  <2>1. Less(x.start, at)
    BY <1>1, <1>4, <1>6, NameOrder
  <2>2. at \notin Edges(T)
    <3>1. \A s \in Edges(T) : Less(x.start, s) => ~Less(s, h[x].end)
      BY <1>0, <1>4 DEF Shape, Ends, Edges
    <3> QED BY <3>1, <2>1, <1>2
  <2>3. at = n
    BY <2>2 DEF Waits
  <2>4. \A y \in Level(T, x) : Moved(y, at) \notin DOMAIN h
    <3> SUFFICES ASSUME NEW y \in Level(T, x), Moved(y, at) \in DOMAIN h PROVE FALSE
      OBVIOUS
    <3>1. y \in T /\ y \in NodeName /\ y.start = x.start
      BY <1>1 DEF Level
    <3>2. Moved(y, at).start = at
      BY <1>1, <3>1, NodeFacts
    <3>3. Moved(y, at) = new
      BY <1>1, <2>2, <3>2, EdgeFacts
    <3>4. Moved(y, at) = Moved(b, at)
      BY <3>3 DEF Waits
    <3>5. Moved(y, y.start) = Moved(b, x.start)
      BY <1>0, <1>1, <1>4, <3>1, <3>4, MovedFacts
    <3>6. Moved(b, x.start) \in T /\ x.start \in Edges(T)
      BY <1>1, <1>4, <3>1, <3>5, MovedFacts, EdgeFacts
    <3>7. IsPrefix(n, x.start)
      BY <1>0, <3>6 DEF Loaded
    <3> QED BY <3>7, <2>1, <2>3, <1>1, <1>4, RegionAt, NameOrder
  <2>5. Split(h, x, at).node = c /\ SplitCells(g, h, T, x, at)
    BY <1>0, <1>1, <1>2, <1>4, <2>1, <2>4, SplitIs
  <2>6. Opened(t, new).heap = g /\ Opened(t, new).node = c
    BY <1>3, <1>6, <2>5
  <2> HIDE DEF g
  <2>7. /\ Shape(g, U, z) /\ DOMAIN g = DOMAIN h \cup Copies(T, x, at)
        /\ \A y : IsTop(T, y) => IsTop(U, y)
        /\ IsTop(U, c) /\ c.start = at
        /\ g[c].end = h[x].end /\ g[x].end = at
        /\ SameCells(g, h, DOMAIN h \ T)
    <3>1. \A y \in DOMAIN h \ T : h[y].next = Nil
      BY <1>1
    <3>2. Less(at, h[x].end) /\ at \in Name /\ IsTop(T, x) /\ Shape(h, T, z)
      BY <1>0, <1>1, <1>2, <1>4
    <3>3. SplitCells(g, h, T, x, at)
      BY <2>5
    <3> HIDE DEF at, n
    <3> QED BY <2>1, <2>4, <3>1, <3>2, <3>3, SplitShape
  <2>8. Edges(U) = Edges(T) \cup {at}
    BY <1>0, <1>1, <1>2, <1>4, <2>1, SplitEdges
  <2>9. Loaded(U, z, b, at)
    <3>1. ~IsPrefix(n, x.start)
      BY <2>1, <2>3, <1>1, <1>4, RegionAt, NameOrder
    <3>2. ~Less(at, at)
      BY <1>1, NameOrder
    <3> QED BY <3>1, <3>2, <1>0, <1>1, <1>2, <1>4, <2>1, SplitLoaded
  <2>10. new \notin Copies(T, x, at)
    BY <1>1, <2>4 DEF Copies
  <2>11. Pending(g, U, new)
    BY <1>1, <2>7, <2>10, <1>0 DEF Pending, SameCells
  <2>12. g[new].end = h[new].end
    BY <1>1, <2>7 DEF SameCells
  <2>13. Waits(g, U, z, b, new)
    BY <2>7, <2>8, <2>9, <2>11, <2>12 DEF Waits
  <2>14. Kin(T, U, b)
    BY <1>1, KinCopies
  <2>15. IsTop(U, f)
    BY <2>7
  <2> HIDE DEF U, c
  <2> QED BY <1>4, <2>6, <2>7, <2>8, <2>13, <2>14, <2>15 DEF x
<1> QED BY <1>5, <1>6

\* The node new matches the slice of x, and rest is what lies behind the slice.
Fits(g, U, z, b, x, new, rest) ==
    /\ Shape(g, U, z) /\ IsTop(U, x) /\ Loaded(U, z, b, new.start)
    /\ g[new].end = g[x].end
    /\ IF rest = Nil THEN DOMAIN g \ U = {new} /\ g[x].end = EndOf(b.name)
       ELSE /\ DOMAIN g \ U = {new, rest} /\ rest # new /\ rest = Moved(b, g[x].end)
            /\ g[rest].end = EndOf(b.name) /\ g[rest].next = Nil
            /\ g[rest].children = Nil /\ g[rest].prev = new
            /\ Less(g[x].end, EndOf(b.name)) /\ g[x].end \in Edges(U)

LEMMA TrimmedIs ==
    ASSUME NEW h, NEW T, NEW z, NEW b, NEW new, Waits(h, T, z, b, new),
           NEW x, IsTop(T, x), x.start = new.start, NEW f, IsTop(T, f)
    PROVE  \E U : /\ Fits(Trimmed(h, x, new).heap, U, z, b, x, new, Trimmed(h, x, new).node)
                  /\ IsTop(U, f) /\ Kin(T, U, b)
                  /\ Trimmed(h, x, new).node # Nil => Edges(U) = Edges(T)
<1> DEFINE e == h[x].end
           n == b.name
           s == new.start
           E == EndOf(n)
<1>0. /\ Shape(h, T, z) /\ Pending(h, T, new) /\ Loaded(T, z, b, s) /\ b \in NodeName
      /\ h[new].end = E /\ new = Moved(b, s)
  BY DEF Waits
<1>1. /\ T \subseteq NodeName /\ T \subseteq DOMAIN h /\ z \in Name
      /\ n \in Name /\ s \in Name /\ E \in Name
      /\ Less(s, E) /\ Less(s, z) /\ ~Less(s, n)
      /\ new \in DOMAIN h \ T /\ DOMAIN h \ T = {new} /\ new \in NodeName
      /\ \A y \in DOMAIN h \ T : h[y].next = Nil
  BY WaitsFacts
<1>2. x \in T /\ e \in Name /\ Less(s, e) /\ (e = z \/ e \in Edges(T))
  <2>1. x \in T
    BY DEF IsTop
  <2>2. e = z \/ \E y \in T : y.start = e
    BY <1>0, <2>1 DEF Shape, Ends
  <2>3. Less(s, e)
    BY <1>0, <2>1 DEF Shape, Ends
  <2> QED BY <1>0, <1>1, <2>1, <2>2, <2>3, CellFacts DEF Shape, Edges
<1>3. \A y \in T : Less(s, y.start) => ~Less(y.start, e)
  BY <1>0, <1>2 DEF Shape, Ends
<1>4. Kin(T, T, b)
  BY <1>1, KinSelf
<1>5. Trimmed(h, x, new) = IF Less(e, E) THEN Split(h, new, e)
                           ELSE IF Less(E, e) THEN [Split(h, x, E) EXCEPT !.node = Nil]
                           ELSE [heap |-> h, node |-> Nil]
  BY <1>0 DEF Trimmed
<1> HIDE DEF e, E
<1>6. CASE Less(e, E)
  <2> DEFINE c == Moved(new, e)
             g == Split(h, new, e).heap
  <2>1. c = Moved(b, e)
    BY <1>0, <1>1, <1>2, MovedFacts
  <2>2. c \in NodeName /\ c.start = e /\ c # new /\ c # Nil
    <3>1. c \in NodeName /\ c.start = e
      BY <1>1, <1>2, NodeFacts
    <3>2. e # s
      BY <1>1, <1>2, NameOrder
    <3> QED BY <3>1, <3>2, NodeFacts
  <2>3. c \notin T
    <3> SUFFICES ASSUME c \in T PROVE FALSE
      OBVIOUS
    <3>1. e \in Edges(T)
      BY <1>1, <2>2, EdgeFacts
    <3>2. Less(e, s)
      BY <1>0, <2>1, <3>1 DEF Loaded
    <3> QED BY <3>2, <1>1, <1>2, NameOrder
  <2>4. c \notin DOMAIN h
    BY <1>1, <2>2, <2>3
  <2>5. Split(h, new, e).node = c /\ HalvedCells(g, h, new, e)
    <3>1. Less(new.start, e) /\ Less(e, h[new].end) /\ e \in Name /\ Moved(new, e) \notin DOMAIN h
      BY <1>0, <1>2, <1>6, <2>4
    <3> QED BY <1>0, <3>1, HalvedIs
  <2>6. Trimmed(h, x, new).heap = g /\ Trimmed(h, x, new).node = c
    BY <1>5, <1>6, <2>5
  <2> HIDE DEF g
  <2>7. Shape(g, T, z) /\ SameCells(g, h, T) /\ DOMAIN g \ T = {new, c}
    <3>1. Less(new.start, e) /\ e \in Name /\ Moved(new, e) \notin DOMAIN h
      BY <1>2, <2>4
    <3> QED BY <1>0, <3>1, <2>5, HalvedShape
  <2>8. /\ g[new].end = e /\ g[c].end = E /\ g[c].next = Nil
        /\ g[c].children = Nil /\ g[c].prev = new
    BY <1>0, <2>5 DEF HalvedCells
  <2>9. g[x].end = e
    BY <1>2, <2>7 DEF SameCells, e
  <2>10. e \in Edges(T)
    <3>1. e # z
      BY <1>0, <1>1, <1>2, <1>6, NameOrder DEF Waits, E
    <3> QED BY <3>1, <1>2
  <2> HIDE DEF c
  <2>11. Fits(g, T, z, b, x, new, c)
    BY <1>0, <1>6, <2>1, <2>2, <2>7, <2>8, <2>9, <2>10 DEF Fits, E
  <2> QED BY <1>4, <2>6, <2>11
<1>7. CASE ~Less(e, E) /\ Less(E, e)
  <2> DEFINE U == T \cup Copies(T, x, E)
             g == Split(h, x, E).heap
  <2>0. Less(x.start, E) /\ Less(E, h[x].end) /\ E \in Name
    BY <1>1, <1>7 DEF e
  <2>1. \A y \in Level(T, x) : Moved(y, E) \notin DOMAIN h
    <3> SUFFICES ASSUME NEW y \in Level(T, x), Moved(y, E) \in DOMAIN h PROVE FALSE
      OBVIOUS
    <3>1. Moved(y, E).start = E
      BY <1>1, NodeFacts DEF Level
    <3>2. Moved(y, E) # new
      BY <3>1, <1>1, NameOrder
    <3>3. Moved(y, E) \in T
      BY <3>2, <1>1
    <3> QED BY <3>1, <3>3, <1>1, <1>3, <1>7
  <2>2. SplitCells(g, h, T, x, E)
    BY <1>0, <2>0, <2>1, SplitIs
  <2>3. Trimmed(h, x, new) = [Split(h, x, E) EXCEPT !.node = Nil]
    BY <1>5, <1>7
  <2>4. Trimmed(h, x, new).heap = g /\ Trimmed(h, x, new).node = Nil
    <3>1. Split(h, x, E).node = Moved(x, E)
      BY <1>0, <2>0, <2>1, SplitIs
    <3>2. Split(h, x, E) = [heap |-> g, node |-> Moved(x, E)]
      BY <2>0, <3>1, <1>0, <1>1, <1>2, NameOrder DEF Split, e
    <3> HIDE DEF g
    <3> QED BY <2>3, <3>2
  <2> HIDE DEF g
  <2>5. /\ Shape(g, U, z) /\ DOMAIN g = DOMAIN h \cup Copies(T, x, E)
        /\ \A y : IsTop(T, y) => IsTop(U, y)
        /\ IsTop(U, Moved(x, E)) /\ Moved(x, E).start = E
        /\ g[Moved(x, E)].end = h[x].end /\ g[x].end = E
        /\ SameCells(g, h, DOMAIN h \ T)
    <3>1. \A y \in DOMAIN h \ T : h[y].next = Nil
      BY <1>1
    <3>2. Shape(h, T, z)
      BY <1>0
    <3> HIDE DEF n, s
    <3> QED BY <2>0, <2>1, <2>2, <3>1, <3>2, SplitShape
  <2>6. Loaded(U, z, b, s)
    <3>1. ~Less(s, s) /\ ~Less(E, s)
      BY <1>1, NameOrder
    <3> QED BY <1>0, <1>1, <1>2, <2>0, <3>1, SplitLoaded
  <2>7. g[new].end = E
    BY <1>0, <1>1, <2>5 DEF SameCells
  <2>8. new \notin Copies(T, x, E)
    BY <1>1, <2>1 DEF Copies
  <2>9. DOMAIN g \ U = {new}
    BY <1>1, <2>5, <2>8
  <2>10. Kin(T, U, b)
    BY <1>1, KinCopies
  <2> HIDE DEF U
  <2>11. Fits(g, U, z, b, x, new, Nil)
    BY <2>5, <2>6, <2>7, <2>9 DEF Fits, E
  <2> QED BY <2>4, <2>5, <2>10, <2>11
<1>8. CASE ~Less(e, E) /\ ~Less(E, e)
  <2>1. e = E
    BY <1>1, <1>2, <1>8, NameOrder
  <2>2. Trimmed(h, x, new).heap = h /\ Trimmed(h, x, new).node = Nil
    BY <1>5, <1>8
  <2>3. Fits(h, T, z, b, x, new, Nil)
    BY <1>0, <1>1, <2>1 DEF Fits, e, E
  <2> QED BY <1>4, <2>2, <2>3
<1> QED BY <1>6, <1>7, <1>8

\* The region of b ends where a slice does.
Shut(T, z, b) == EndOf(b.name) = z \/ EndOf(b.name) \in Edges(T)

\* What one slice leaves of a job: the tree V, and whether new is refused, or
\* loaded to its end, or waits with a later start.
Settled(r, V, T, z, b, new, f) ==
    /\ Kin(T, V, b) /\ IsTop(V, f)
    /\ r.tree = [heap |-> r.tree.heap, first |-> f, ok |-> r.tree.ok]
    /\ r = [tree |-> r.tree, node |-> r.node]
    /\ Shape(r.tree.heap, V, z)
    /\ \/ /\ r.tree.ok = FALSE /\ r.node = Nil
          /\ DOMAIN r.tree.heap \ V = {new} /\ Loaded(V, z, b, new.start)
          /\ \E y \in V : y.start = new.start /\ SameRank(y, new)
       \/ /\ r.tree.ok = TRUE /\ r.node = Nil
          /\ DOMAIN r.tree.heap = V /\ Loaded(V, z, b, EndOf(b.name)) /\ new \in V
          /\ Shut(V, z, b)
       \/ /\ r.tree.ok = TRUE /\ r.node # Nil /\ Waits(r.tree.heap, V, z, b, r.node)
          /\ Edges(V) = Edges(T) \cup {new.start}
          /\ r.node.start \in Edges(T) /\ Less(new.start, r.node.start) /\ new \in V

LEMMA LoadSliceIs ==
    ASSUME NEW h, NEW T, NEW z, NEW b, NEW new, Waits(h, T, z, b, new),
           NEW f, IsTop(T, f), f.start = << 0 >>
    PROVE  \E V : Settled(LoadSlice([tree |-> [heap |-> h, first |-> f, ok |-> TRUE],
                                     node |-> new]), V, T, z, b, new, f)
<1> DEFINE t == [heap |-> h, first |-> f, ok |-> TRUE]
           job == [tree |-> t, node |-> new]
           r == LoadSlice(job)
           found == Find(t, new.start)
           at == Opened(t, new)
           g == at.heap
           x == at.node
           cut == Trimmed(g, x, new)
           k == cut.heap
           c == cut.node
           t2 == [heap |-> k, first |-> f, ok |-> TRUE]
           one == LoadMatching(t2, x, new)
<1>1. new # Nil /\ new \in NodeName /\ T \subseteq NodeName /\ new.start # <<0>> /\ b \in NodeName
  BY WaitsFacts, NodeFacts DEF Waits
<1>2. found # Nil
  BY OpenedIs
<1>3. PICK T1 : /\ Waits(g, T1, z, b, new)
                /\ IsTop(T1, x) /\ x.start = new.start
                /\ IsTop(T1, f) /\ Edges(T1) = Edges(T) \cup {new.start} /\ Kin(T, T1, b)
  BY OpenedIs
<1>4. r = IF one.ok THEN [tree |-> one, node |-> c]
          ELSE [tree |-> IF c = Nil THEN one ELSE Removed(one, c), node |-> Nil]
  <2>1. PICK u : u = [t EXCEPT !.heap = k]
    OBVIOUS
  <2>2. u = t2
    <3> HIDE DEF k
    <3> QED BY <2>1
  <2>3. job.tree = t /\ job.node = new
    OBVIOUS
  <2> HIDE DEF t, job, t2
  <2> QED BY <1>1, <1>2, <2>1, <2>2, <2>3 DEF LoadSlice, Merged
<1> HIDE DEF at
<1>5. PICK U : /\ Fits(k, U, z, b, x, new, c)
               /\ IsTop(U, f) /\ Kin(T1, U, b)
               /\ c # Nil => Edges(U) = Edges(T1)
  BY <1>3, TrimmedIs
<1> HIDE DEF cut
<1>6. /\ Shape(k, U, z) /\ IsTop(U, x) /\ Loaded(U, z, b, new.start) /\ k[new].end = k[x].end
      /\ U \subseteq NodeName /\ T1 \subseteq NodeName /\ x \in U
      /\ IF c = Nil THEN DOMAIN k \ U = {new} /\ k[x].end = EndOf(b.name)
         ELSE /\ DOMAIN k \ U = {new, c} /\ c # new /\ c = Moved(b, k[x].end)
              /\ k[c].end = EndOf(b.name) /\ k[c].next = Nil
              /\ k[c].children = Nil /\ k[c].prev = new
              /\ Less(k[x].end, EndOf(b.name)) /\ k[x].end \in Edges(U)
  <2>1. Shape(k, U, z) /\ IsTop(U, x)
    BY <1>5 DEF Fits
  <2>2. U \subseteq NodeName /\ T1 \subseteq NodeName
    <3>1. T1 \subseteq NodeName
      BY <1>3, WaitsFacts
    <3> HIDE DEF k
    <3> QED BY <2>1, <3>1, NilOut DEF Shape
  <2> QED BY <1>5, <2>2 DEF Fits, IsTop
<1>7. Kin(T, U, b)
  BY <1>1, <1>3, <1>5, <1>6, KinOn
<1>8. Matches(k, U, z, x, new)
  <2>1. new \in DOMAIN k \ U
    BY <1>6
  <2> QED BY <1>1, <1>3, <1>6, <2>1 DEF Matches
<1> DEFINE V == U \cup {new}
<1>9. IF \E y \in Level(U, x) : SameRank(y, new)
      THEN one = [heap |-> k, first |-> f, ok |-> FALSE]
      ELSE /\ one = [heap |-> one.heap, first |-> f, ok |-> TRUE]
           /\ Shape(one.heap, V, z) /\ DOMAIN one.heap = DOMAIN k
           /\ \A y : IsTop(U, y) /\ y.start # new.start => IsTop(V, y)
           /\ SameCells(one.heap, k, DOMAIN k \ V)
  BY <1>6, <1>8, LoadMatchingIs
<1> HIDE DEF k, c, x, one, r
<1>10. CASE \E y \in Level(U, x) : SameRank(y, new)
  <2>1. one = [heap |-> k, first |-> f, ok |-> FALSE]
    BY <1>9, <1>10
  <2>2. \E y \in U : y.start = new.start /\ SameRank(y, new)
    BY <1>3, <1>10 DEF Level
  <2>3. CASE c = Nil
    <3>1. r = [tree |-> one, node |-> Nil]
      BY <1>4, <2>1, <2>3
    <3>2. r.tree = one /\ r.node = Nil /\ r = [tree |-> r.tree, node |-> r.node]
      BY <3>1
    <3>3. r.tree.heap = k /\ r.tree.ok = FALSE
          /\ r.tree = [heap |-> r.tree.heap, first |-> f, ok |-> r.tree.ok]
      BY <3>2, <2>1
    <3>4. Settled(r, U, T, z, b, new, f)
      BY <1>5, <1>6, <1>7, <2>2, <2>3, <3>2, <3>3 DEF Settled
    <3> QED BY <3>4 DEF r
  <2>4. CASE c # Nil
    <3> DEFINE q == Removed(one, c)
    <3>0. Shape(k, U, z) /\ LeftOver(k, U, new, c)
      BY <1>6, <2>4 DEF LeftOver
    <3>1. /\ q = [heap |-> q.heap, first |-> f, ok |-> FALSE]
          /\ Shape(q.heap, U, z) /\ DOMAIN q.heap \ U = {new}
      <4>0. PICK no : no = FALSE
        OBVIOUS
      <4>1. q = Removed([heap |-> k, first |-> f, ok |-> no], c)
        BY <2>1, <4>0
      <4> HIDE DEF q
      <4>2. /\ q = [heap |-> q.heap, first |-> f, ok |-> no]
            /\ Shape(q.heap, U, z) /\ DOMAIN q.heap \ U = {new}
        BY <3>0, <4>1, RemovedIs
      <4> QED BY <4>0, <4>2
    <3>2. r = [tree |-> q, node |-> Nil]
      BY <1>4, <2>1, <2>4
    <3> HIDE DEF q
    <3>3. r.tree = q /\ r.node = Nil /\ r = [tree |-> r.tree, node |-> r.node]
      BY <3>2
    <3>4. q.ok = FALSE
      BY ONLY <3>1
    <3>5. Settled(r, U, T, z, b, new, f)
      BY <1>5, <1>6, <1>7, <2>2, <3>1, <3>3, <3>4 DEF Settled
    <3> QED BY <3>5 DEF r
  <2> QED BY <2>3, <2>4
<1>11. CASE ~\E y \in Level(U, x) : SameRank(y, new)
  <2>1. /\ one = [heap |-> one.heap, first |-> f, ok |-> TRUE]
        /\ Shape(one.heap, V, z) /\ DOMAIN one.heap = DOMAIN k
        /\ \A y : IsTop(U, y) /\ y.start # new.start => IsTop(V, y)
        /\ SameCells(one.heap, k, DOMAIN k \ V)
    BY <1>9, <1>11
  <2>2. one.ok = TRUE
    BY ONLY <2>1
  <2>3. r = [tree |-> one, node |-> c]
    BY <1>4, <2>2
  <2>4. r.tree = one /\ r.node = c /\ r = [tree |-> r.tree, node |-> r.node]
    BY <2>3
  <2>5. /\ r.tree.ok = TRUE /\ Shape(r.tree.heap, V, z)
        /\ r.tree = [heap |-> r.tree.heap, first |-> f, ok |-> r.tree.ok]
    BY <2>1, <2>2, <2>4
  <2>6. IsTop(V, f)
    <3>1. f.start # new.start
      BY <1>1
    <3> QED BY <1>5, <2>1, <3>1
  <2>7. Loaded(V, z, b, k[x].end) /\ Edges(V) = Edges(U) /\ V \subseteq NodeName
    <3>1. new = Moved(b, x.start) /\ IsPrefix(b.name, x.start) /\ Loaded(U, z, b, x.start)
      BY <1>3, <1>6 DEF Waits
    <3> QED BY <1>1, <1>6, <3>1, MatchLoaded
  <2>8. Kin(T, V, b)
    <3>1. new = Moved(b, new.start)
      BY <1>3 DEF Waits
    <3> QED BY <3>1, <1>7 DEF Kin
  <2>9. CASE c = Nil
    <3>1. DOMAIN one.heap = V
      BY <1>6, <2>1, <2>9 DEF Shape
    <3>3. Shut(V, z, b)
      <4>1. k[x].end = EndOf(b.name)
        BY <1>6, <2>9
      <4>2. k[x].end = z \/ \E y \in U : y.start = k[x].end
        BY <1>6 DEF Shape, Ends
      <4>3. k[x].end = z \/ k[x].end \in Edges(U)
        BY <4>2, <1>6, EdgeFacts
      <4> QED BY <4>1, <4>3, <2>7 DEF Shut
    <3> HIDE DEF V
    <3>4. new \in V /\ Loaded(V, z, b, EndOf(b.name))
      BY <1>6, <2>7, <2>9 DEF V
    <3>2. Settled(r, V, T, z, b, new, f)
      BY <2>4, <2>5, <2>6, <2>8, <2>9, <3>1, <3>3, <3>4 DEF Settled
    <3> QED BY <3>2 DEF r
  <2>10. CASE c # Nil
    <3> DEFINE e == k[x].end
    <3>1. /\ DOMAIN k \ U = {new, c} /\ c # new /\ c = Moved(b, e)
          /\ k[c].end = EndOf(b.name) /\ k[c].next = Nil /\ k[c].children = Nil
          /\ Less(e, EndOf(b.name)) /\ e \in Edges(U)
      BY <1>6, <2>10
    <3>2. e \in Name /\ Less(new.start, e)
      <4>1. e \in Name
        BY <3>1, <1>6, EdgeFacts
      <4> QED BY <4>1, <1>3, <1>6 DEF Shape, Ends
    <3> HIDE DEF e
    <3>3. c \in NodeName /\ c.start = e
      BY <1>1, <3>1, <3>2, NodeFacts
    <3>4. DOMAIN one.heap = V \cup {c} /\ c \notin V /\ c \in DOMAIN k \ V
      BY <1>6, <2>1, <3>1 DEF Shape
    <3>5. one.heap[c].next = Nil /\ one.heap[c].children = Nil /\ one.heap[c].end = EndOf(b.name)
      BY <2>1, <3>1, <3>4 DEF SameCells
    <3>6. Pending(one.heap, V, c)
      BY <3>3, <3>4, <3>5 DEF Pending
    <3>7. IsPrefix(b.name, e)
      <4>1. b.name \in Name /\ new.start \in Name /\ ~Less(new.start, b.name)
        BY <1>3, WaitsFacts
      <4>2. ~Less(e, b.name)
        BY <4>1, <3>2, NameOrder
      <4> QED BY <4>1, <4>2, <3>1, <3>2, RegionAt
    <3>8. c.start # <<0>>
      BY <3>2, <3>3, RootNames, <1>1, NodeFacts
    <3>9. EndOf(b.name) = z \/ Less(EndOf(b.name), z)
      BY <1>3 DEF Waits
    <3>10. Loaded(V, z, b, c.start) /\ c = Moved(b, c.start) /\ c.start \in Edges(V)
      BY <2>7, <3>1, <3>3 DEF e
    <3>11. Waits(one.heap, V, z, b, c)
      BY <1>1, <2>1, <3>3, <3>5, <3>6, <3>7, <3>8, <3>9, <3>10 DEF Waits
    <3>12. Edges(V) = Edges(T) \cup {new.start}
      BY <1>3, <1>5, <2>7, <2>10
    <3>13. c.start \in Edges(T)
      <4>1. e # new.start
        BY <1>1, <3>2, NameOrder, NodeFacts
      <4>2. e \in Edges(T) \cup {new.start}
        BY <1>3, <1>5, <2>10, <3>1
      <4> QED BY <3>3, <4>1, <4>2
    <3>14. new \in V /\ Less(new.start, c.start)
      BY <3>2, <3>3
    <3> HIDE DEF V
    <3>15. Settled(r, V, T, z, b, new, f)
      BY <2>4, <2>5, <2>6, <2>8, <2>10, <3>11, <3>12, <3>13, <3>14 DEF Settled
    <3> QED BY <3>15 DEF r
  <2> QED BY <2>9, <2>10
<1> QED BY <1>10, <1>11

LoadJob(t, new, N) ==
    CHOOSE g : g = [k \in 0 .. N |-> IF k = 0 THEN [tree |-> t, node |-> new]
                                     ELSE LoadSlice(g[k - 1])]

LEMMA LoadJobIs ==
    ASSUME NEW t, NEW new, NEW N \in Nat
    PROVE  /\ LoadJob(t, new, N)[0] = [tree |-> t, node |-> new]
           /\ \A k \in 1 .. N : LoadJob(t, new, N)[k] = LoadSlice(LoadJob(t, new, N)[k - 1])
<1> DEFINE s == [tree |-> t, node |-> new]
           Def(g, k) == g = [i \in 0 .. k |-> IF i = 0 THEN s ELSE LoadSlice(g[i - 1])]
           Bad == {k \in Nat : ~\E g : Def(g, k)}
<1> HIDE DEF s
<1>1. Bad = {}
  <2> SUFFICES ASSUME Bad # {} PROVE FALSE
    OBVIOUS
  <2>1. PICK k \in Bad : \A l \in Bad : k \leq l
    <3>1. Bad \in SUBSET Nat
      OBVIOUS
    <3> HIDE DEF Bad
    <3> QED BY <3>1, LeastNumber
  <2>2. k # 0
    <3> DEFINE g == [i \in 0 .. 0 |-> s]
    <3>1. Def(g, 0)
      OBVIOUS
    <3> QED BY <3>1
  <2>3. PICK g : Def(g, k - 1)
    <3>1. k - 1 \in Nat /\ ~(k \leq k - 1)
      BY <2>2
    <3> QED BY <3>1, <2>1
  <2> DEFINE f == [i \in 0 .. k |-> IF i = k THEN LoadSlice(g[k - 1]) ELSE g[i]]
  <2>4. \A i \in 0 .. k : f[i] = IF i = 0 THEN s ELSE LoadSlice(f[i - 1])
    <3> TAKE i \in 0 .. k
    <3>1. CASE i = k
      <4>1. k - 1 \in 0 .. k /\ k - 1 # k /\ k \in 0 .. k
        BY <2>2
      <4> QED BY <3>1, <4>1, <2>2
    <3>2. CASE i # k
      <4>1. i \in 0 .. k - 1 /\ (i # 0 => i - 1 \in 0 .. k /\ i - 1 # k)
        BY <3>2
      <4>2. g[i] = IF i = 0 THEN s ELSE LoadSlice(g[i - 1])
        BY <4>1, <2>3
      <4> QED BY <3>2, <4>1, <4>2
    <3> QED BY <3>1, <3>2
  <2>5. Def(f, k)
    BY <2>4
  <2> QED BY <2>5
<1>2. \E g : Def(g, N)
  BY <1>1
<1> DEFINE job == CHOOSE g : Def(g, N)
<1>3. Def(job, N)
  BY <1>2
<1>4. LoadJob(t, new, N) = job
  BY DEF LoadJob, s
<1> HIDE DEF job
<1>5. 0 \in 0 .. N /\ \A i \in 1 .. N : i \in 0 .. N /\ i # 0
  OBVIOUS
<1> QED BY <1>3, <1>4, <1>5 DEF s

LEMMA LoadOf ==
    ASSUME NEW t, NEW new, NEW N, N = Len(Heads(t.heap, t.first)) + 1
    PROVE  Load(t, new) = LoadJob(t, new, N)[N].tree
BY DEF Load, LoadJob

\* A tree V that b was loaded into, or not for it was there before.
Ended(r, V, T, z, b, new, f) ==
    /\ Kin(T, V, b) /\ IsTop(V, f) /\ Shape(r.heap, V, z)
    /\ r = [heap |-> r.heap, first |-> f, ok |-> r.ok]
    /\ \/ /\ r.ok = FALSE /\ DOMAIN r.heap \ V = {new} /\ Loaded(V, z, b, b.name)
       \/ /\ r.ok = TRUE /\ DOMAIN r.heap = V /\ Loaded(V, z, b, EndOf(b.name)) /\ new \in V
          /\ Shut(V, z, b)

\* Only the first slice can hold a node of the same rank.
LEMMA RefusedFirst ==
    ASSUME NEW h, NEW V, NEW z, Shape(h, V, z), NEW b \in NodeName, NEW at \in Name,
           Loaded(V, z, b, at), IsPrefix(b.name, at), Moved(b, b.name) \in V,
           NEW y \in V, y.start = at, Len(y.name) = Len(b.name), y.prio = b.prio
    PROVE  FALSE
<1> DEFINE n == b.name
           v == Moved(y, n)
           w == Moved(b, n)
<1>1. /\ V \subseteq NodeName /\ y \in NodeName /\ n \in Name /\ y.name \in Name
      /\ n \in Seq(Nat) /\ y.name \in Seq(Nat) /\ at \in Seq(Nat)
  BY NilOut, NodeFacts DEF Shape, Name
<1>2. y # Moved(b, y.start)
  <2>1. y.start \in Edges(V) /\ ~Less(at, at)
    BY <1>1, EdgeFacts, NameOrder
  <2> QED BY <2>1 DEF Loaded
<1>3. Whole(V, z, y)
  BY <1>2 DEF Loaded
<1>4. IsPrefix(y.name, at)
  BY <1>1, <1>3, EdgeFacts, MovedFacts DEF Whole
<1>5. y.name = n
  BY <1>1, <1>4, PrefixesAgree
<1>6. v \in V
  <2>1. n \in Edges(V)
    BY <1>1, EdgeFacts, NodeFacts
  <2>2. IsPrefix(n, n)
    BY <1>1, RegionAt, NameOrder, RegionBounds
  <2> QED BY <1>3, <1>5, <2>1, <2>2 DEF Whole
<1>7. v.start = w.start /\ Len(v.name) = Len(w.name) /\ v.prio = w.prio /\ v \in NodeName
      /\ w \in NodeName
  <2>1. v.start = n /\ v.name = n /\ v.prio = y.prio /\ v \in NodeName
    BY <1>1, <1>5, NodeFacts
  <2>2. w.start = n /\ w.name = n /\ w.prio = b.prio /\ w \in NodeName
    BY <1>1, NodeFacts
  <2> HIDE DEF v, w
  <2> QED BY <2>1, <2>2
<1>8. v = w
  <2>1. SameRank(v, w)
    BY <1>7 DEF SameRank
  <2>2. ~Ahead(v, w) /\ ~Ahead(w, v)
    BY <1>7, <2>1, RankOrder
  <2> HIDE DEF v, w
  <2> QED BY <1>6, <1>7, <2>2 DEF Shape, Ranked, w
<1>9. Moved(y, y.start) = Moved(b, y.start)
  BY <1>1, <1>8, MovedFacts
<1> QED BY <1>1, <1>2, <1>9, MovedFacts

LEMMA LoadIs ==
    ASSUME NEW h, NEW T, NEW z, NEW b, NEW new, Waits(h, T, z, b, new), new.start = b.name,
           NEW f, IsTop(T, f), f.start = << 0 >>
    PROVE  \E V : Ended(Load([heap |-> h, first |-> f, ok |-> TRUE], new), V, T, z, b, new, f)
<1> DEFINE t == [heap |-> h, first |-> f, ok |-> TRUE]
           s == Heads(h, f)
           N == Len(s) + 1
           job == LoadJob(t, new, N)
           n == b.name
           On(j, k, V) ==
               /\ j = [tree |-> [heap |-> j.tree.heap, first |-> f, ok |-> TRUE],
                       node |-> j.node]
               /\ j.node # Nil /\ Waits(j.tree.heap, V, z, b, j.node)
               /\ Edges(V) \subseteq Edges(T) \cup {n}
               /\ k = 0 => j.node = new
               /\ k > 0 => new \in V /\ \E i \in 1 .. Len(s) : i > k /\ j.node.start = s[i].start
           Inv(k) == \E V : /\ Kin(T, V, b) /\ IsTop(V, f)
                            /\ \/ On(job[k], k, V)
                               \/ job[k].node = Nil /\ Ended(job[k].tree, V, T, z, b, new, f)
<1>1. IsHeads(h, T, f, s)
  BY HeadsAre DEF Waits
<1>2. /\ T \subseteq NodeName /\ n \in Name /\ new # Nil /\ new \in NodeName /\ b \in NodeName
      /\ new = Moved(b, n)
  BY WaitsFacts, NodeFacts DEF Waits
<1> HIDE DEF s
<1>3. /\ Len(s) \in Nat /\ N \in Nat /\ N > 0 /\ Len(s) > 0 /\ s[1] = f
      /\ \A i \in 1 .. Len(s) : s[i] \in T /\ s[i].start \in Name
  <2>1. Len(s) \in Nat /\ Len(s) > 0 /\ s[1] = f
    BY <1>1 DEF IsHeads
  <2>2. \A i \in 1 .. Len(s) : s[i] \in T
    BY <1>1 DEF IsHeads, IsTop
  <2>3. \A i \in 1 .. Len(s) : s[i].start \in Name
    BY <2>2, <1>2, NodeFacts
  <2> QED BY <2>1, <2>2, <2>3
<1>4. \A e \in Edges(T) : \E i \in 1 .. Len(s) : s[i].start = e
  <2> SUFFICES ASSUME NEW e \in Edges(T) PROVE \E i \in 1 .. Len(s) : s[i].start = e
    OBVIOUS
  <2>1. PICK y \in T : y.start = e
    BY <1>2, EdgeFacts
  <2>2. ~Less(y.start, f.start)
    BY <1>2, RootNames, NodeFacts, ZenonT(20)
  <2> QED BY <1>1, <2>1, <2>2 DEF IsHeads
<1>5. \A j \in 1 .. Len(s) : \A i \in 1 .. Len(s) : Less(s[i].start, s[j].start) => i < j
  <2> SUFFICES ASSUME NEW j \in 1 .. Len(s), NEW i \in 1 .. Len(s), Less(s[i].start, s[j].start)
               PROVE  i < j
    OBVIOUS
  <2>1. i # j
    BY <1>3, NameOrder
  <2>2. j < i => Less(s[j].start, s[i].start)
    BY <1>1, <1>3 DEF IsHeads
  <2> QED BY <2>1, <2>2, <1>3, NameOrder
<1>6. /\ job[0] = [tree |-> t, node |-> new]
      /\ \A k \in 1 .. N : job[k] = LoadSlice(job[k - 1])
  <2> HIDE DEF t
  <2>1. N \in Nat
    BY <1>3
  <2> HIDE DEF N
  <2> QED BY <2>1, LoadJobIs
<1>7. Load(t, new) = job[N].tree
  <2>1. Heads(t.heap, t.first) = s
    BY DEF s
  <2> HIDE DEF t, job
  <2> QED BY <2>1, LoadOf DEF job
<1> HIDE DEF job
<1>8. Inv(0)
  <2>1. job[0].node = new /\ job[0].tree = t
    BY <1>6
  <2>2. job[0] = [tree |-> [heap |-> job[0].tree.heap, first |-> f, ok |-> TRUE],
                  node |-> job[0].node]
    <3>1. job[0].tree.heap = h
      BY <2>1
    <3>2. job[0] = [tree |-> [heap |-> h, first |-> f, ok |-> TRUE], node |-> new]
      BY <1>6
    <3> HIDE DEF t
    <3> QED BY ONLY <2>1, <3>1, <3>2
  <2>3. job[0].tree.heap = h
    BY <2>1
  <2>4. On(job[0], 0, T)
    BY <1>2, <2>1, <2>2, <2>3
  <2>5. Kin(T, T, b)
    BY <1>2, KinSelf
  <2> HIDE DEF On
  <2> QED BY <2>4, <2>5
<1>9. ASSUME NEW k \in 1 .. N, Inv(k - 1) PROVE Inv(k)
  <2>0. k - 1 \in Nat /\ k \in Nat /\ k > 0
    BY <1>3
  <2>1. PICK V : /\ Kin(T, V, b) /\ IsTop(V, f)
                 /\ \/ On(job[k - 1], k - 1, V)
                    \/ /\ job[k - 1].node = Nil
                       /\ Ended(job[k - 1].tree, V, T, z, b, new, f)
    BY <1>9
  <2> DEFINE j == job[k - 1]
             r == job[k]
  <2>2. r = LoadSlice(j)
    BY <1>6
  <2>3. CASE j.node = Nil /\ Ended(j.tree, V, T, z, b, new, f)
    <3>1. r = j
      BY <2>2, <2>3 DEF LoadSlice, Merged
    <3> QED BY <2>1, <2>3, <3>1
  <2>4. CASE On(j, k - 1, V)
    <3> DEFINE node == j.node
               g == j.tree.heap
    <3>1. /\ j = [tree |-> [heap |-> g, first |-> f, ok |-> TRUE], node |-> node]
          /\ node # Nil /\ Waits(g, V, z, b, node)
          /\ Edges(V) \subseteq Edges(T) \cup {n}
          /\ k - 1 = 0 => node = new
          /\ k - 1 > 0 => /\ new \in V
                          /\ \E i \in 1 .. Len(s) : i > k - 1 /\ node.start = s[i].start
      BY <2>4
    <3> HIDE DEF g, node, j, On
    <3>2. PICK U : Settled(r, U, V, z, b, node, f)
      <4>1. \E U : Settled(LoadSlice([tree |-> [heap |-> g, first |-> f, ok |-> TRUE],
                                      node |-> node]), U, V, z, b, node, f)
        BY <2>1, <3>1, LoadSliceIs
      <4> QED BY <4>1, <2>2, <3>1
    <3>3. /\ V \subseteq NodeName /\ node.start \in Name /\ ~Less(node.start, n)
          /\ node \in NodeName /\ node = Moved(b, node.start) /\ IsPrefix(n, node.start)
      BY <3>1, WaitsFacts DEF Waits
    <3>4. /\ Kin(V, U, b) /\ IsTop(U, f) /\ Shape(r.tree.heap, U, z) /\ U \subseteq NodeName
          /\ r.tree = [heap |-> r.tree.heap, first |-> f, ok |-> r.tree.ok]
          /\ r = [tree |-> r.tree, node |-> r.node]
      BY <3>2, NilOut DEF Settled, Shape
    <3>5. Kin(T, U, b)
      BY <1>2, <2>1, <3>3, <3>4, KinOn
    <3>6. CASE /\ r.tree.ok = FALSE /\ r.node = Nil
               /\ DOMAIN r.tree.heap \ U = {node} /\ Loaded(U, z, b, node.start)
               /\ \E y \in U : y.start = node.start /\ SameRank(y, node)
      <4>1. k - 1 = 0
        <5> SUFFICES ASSUME k - 1 > 0 PROVE FALSE
          BY <2>0
        <5>1. Moved(b, n) \in U
          BY <1>2, <3>1, <3>4 DEF Kin
        <5>2. PICK y \in U : y.start = node.start /\ SameRank(y, node)
          BY <3>6
        <5>3. node.name = n /\ node.prio = b.prio
          BY <1>2, <3>3, NodeFacts
        <5>4. Len(y.name) = Len(n) /\ y.prio = b.prio
          BY <5>2, <5>3 DEF SameRank
        <5> QED BY <1>2, <3>3, <3>4, <3>6, <5>1, <5>2, <5>4, RefusedFirst
      <4>2. node = new
        BY <3>1, <4>1
      <4>3. Ended(r.tree, U, T, z, b, new, f)
        BY <3>4, <3>5, <3>6, <4>2 DEF Ended
      <4> HIDE DEF r
      <4> QED BY <3>4, <3>5, <3>6, <4>3 DEF r
    <3>7. CASE /\ r.tree.ok = TRUE /\ r.node = Nil
               /\ DOMAIN r.tree.heap = U /\ Loaded(U, z, b, EndOf(n)) /\ node \in U
               /\ Shut(U, z, b)
      <4>1. new \in U
        BY <2>0, <3>1, <3>4, <3>7 DEF Kin
      <4>2. Ended(r.tree, U, T, z, b, new, f)
        BY <3>4, <3>5, <3>7, <4>1 DEF Ended
      <4> HIDE DEF r
      <4> QED BY <3>4, <3>5, <3>7, <4>2 DEF r
    <3>8. CASE /\ r.tree.ok = TRUE /\ r.node # Nil /\ Waits(r.tree.heap, U, z, b, r.node)
               /\ Edges(U) = Edges(V) \cup {node.start}
               /\ r.node.start \in Edges(V) /\ Less(node.start, r.node.start) /\ node \in U
      <4> DEFINE e == r.node.start
      <4>1. e \in Name /\ e # n
        BY <1>2, <3>3, <3>8, NameOrder, WaitsFacts
      <4>2. e \in Edges(T)
        BY <3>1, <3>8, <4>1
      <4>3. PICK i \in 1 .. Len(s) : s[i].start = e
        BY <1>4, <4>2
      <4>4. i > k
        <5>1. CASE k - 1 = 0
          <6>1. node.start = n /\ n # <<0>>
            BY <3>1, <5>1 DEF Waits
          <6>2. e # <<0>>
            BY <3>3, <3>8, RootNames
          <6>3. i # 1
            BY <1>3, <4>3, <6>2
          <6> QED BY <1>3, <5>1, <6>3
        <5>2. CASE k - 1 > 0
          <6>1. PICK l \in 1 .. Len(s) : l > k - 1 /\ node.start = s[l].start
            BY <3>1, <5>2
          <6>2. l < i
            BY <1>5, <3>8, <4>3, <6>1
          <6> QED BY <1>3, <6>1, <6>2
        <5> QED BY <2>0, <5>1, <5>2
      <4>5. new \in U
        BY <2>0, <3>1, <3>4, <3>8 DEF Kin
      <4>6. Edges(U) \subseteq Edges(T) \cup {n}
        <5>1. node.start = n \/ node.start \in Edges(V)
          BY <3>1 DEF Waits
        <5> QED BY <3>1, <3>8, <5>1
      <4>7. r = [tree |-> [heap |-> r.tree.heap, first |-> f, ok |-> TRUE], node |-> r.node]
        <5> HIDE DEF r
        <5> QED BY <3>4, <3>8
      <4>8. On(r, k, U)
        <5> HIDE DEF r
        <5> QED BY <2>0, <3>8, <4>3, <4>4, <4>5, <4>6, <4>7 DEF On
      <4> QED BY <3>4, <3>5, <4>8
    <3> QED BY <3>2, <3>6, <3>7, <3>8 DEF Settled
  <2> QED BY <2>1, <2>3, <2>4
<1>10. Inv(N)
  <2> DEFINE Bad == {i \in 0 .. N : ~Inv(i)}
  <2> SUFFICES ASSUME Bad # {} PROVE FALSE
    BY <1>3
  <2> HIDE DEF Inv
  <2>1. Bad \in SUBSET Nat
    BY <1>3
  <2>2. PICK k \in Bad : \A l \in Bad : k \leq l
    BY <2>1, LeastNumber
  <2>3. k # 0
    BY <1>8
  <2>4. k \in 1 .. N /\ k - 1 \in 0 .. N /\ ~(k \leq k - 1)
    BY <2>3, <1>3
  <2>5. Inv(k - 1)
    BY <2>2, <2>4
  <2> QED BY <2>4, <2>5, <1>9
<1>11. PICK V : \/ On(job[N], N, V)
                \/ job[N].node = Nil /\ Ended(job[N].tree, V, T, z, b, new, f)
  BY <1>10
<1>12. ~On(job[N], N, V)
  BY <1>3
<1> QED BY <1>7, <1>11, <1>12
-----------------------------------------------------------------------------
(* A new node, and the roots.                                              *)

LEMMA NewIs ==
    ASSUME NEW h, NEW T, NEW z, Shape(h, T, z), DOMAIN h = T, NEW x \in NodeName, x \notin T,
           NEW g, g = New(h, x)
    PROVE  /\ Shape(g, T, z) /\ DOMAIN g = T \cup {x}
           /\ g[x].end = EndOf(x.name) /\ g[x].next = Nil /\ g[x].children = Nil
           /\ g[x].prev = Nil /\ SameCells(g, h, T)
<1> DEFINE c == [end |-> EndOf(x.name), next |-> Nil, prev |-> Nil, children |-> Nil, off |-> 0]
<1>1. g = [y \in T \cup {x} |-> IF y = x THEN c ELSE h[y]]
  BY DEF New
<1>2. c \in Cell
  <2>1. EndOf(x.name) \in Name /\ Nil \in Ref /\ 0 \in Nat
    BY NodeFacts, EndOfType DEF Ref
  <2> QED BY <2>1 DEF Cell
<1>3. c.end = EndOf(x.name) /\ c.next = Nil /\ c.prev = Nil /\ c.children = Nil
  OBVIOUS
<1> HIDE DEF c
<1>4. /\ h \in [T -> Cell] /\ T \subseteq NodeName /\ IsFiniteSet(T) /\ Nil \notin T /\ Nil # x
  BY NilOut, NodeFacts DEF Shape, Typed
<1>5. Typed(g)
  <2>1. g \in [T \cup {x} -> Cell]
    BY <1>1, <1>2, <1>4
  <2>2. IsFiniteSet(T \cup {x})
    BY <1>4, FS_AddElement
  <2> QED BY <1>1, <1>4, <2>1, <2>2 DEF Typed
<1>6. SameCells(g, h, T)
  BY <1>1 DEF SameCells
<1>7. Loose(g, T)
  BY <1>1, <1>3, <1>4 DEF Loose
<1>8. Shape(g, T, z)
  BY <1>1, <1>5, <1>6, <1>7, RestShape
<1> QED BY <1>1, <1>3, <1>6, <1>8

\* T ends where the node new starts.
Follows(h, T, z, new, e) ==
    /\ Shape(h, T, z) /\ DOMAIN h = T \cup {new} /\ new \in NodeName /\ new \notin T
    /\ new.start = z /\ h[new].end = e /\ e \in Name /\ Less(z, e) /\ h[new].children = Nil
    /\ \A x, y \in T : x.start = y.start => x = y
    /\ T = {} => z = <<0>>

\* What linking it leaves in the fields of the nodes.
VirginCells(g, h, T, new, p) ==
    /\ Typed(g) /\ DOMAIN g = DOMAIN h
    /\ \A y \in T : /\ g[y].end = h[y].end /\ g[y].prev = h[y].prev /\ g[y].off = h[y].off
                    /\ g[y].children = h[y].children
                    /\ g[y].next = IF y = p THEN new ELSE h[y].next
    /\ g[new].end = h[new].end /\ g[new].next = Nil /\ g[new].prev = p
    /\ g[new].children = h[new].children
    /\ p # Nil => g[new].off = Differ(p.start, new.start)

LEMMA VirginIs ==
    ASSUME NEW h, Typed(h), NEW new, NEW T, DOMAIN h = T \cup {new}, new \notin T,
           NEW p, p = Nil \/ p \in T,
           NEW g, g = ChangeNext(ChangeNext(ChangePrev(h, {new}, p), {p} \ {Nil}, new),
                                 {new}, Nil)
    PROVE  VirginCells(g, h, T, new, p)
<1> DEFINE h1 == ChangePrev(h, {new}, p)
           h2 == ChangeNext(h1, {p} \ {Nil}, new)
<1>1. T \subseteq NodeName /\ new \in NodeName /\ Nil \notin T /\ Nil # new /\ p \in Ref
      /\ new \in Ref /\ Nil \in Ref
  BY NodeFacts DEF Typed, Ref
<1>2. PrevChanged(h1, h, {new}, p)
  BY <1>1, ChangePrevIs
<1> HIDE DEF h1
<1>3. Typed(h1) /\ DOMAIN h1 = DOMAIN h
  BY <1>2 DEF PrevChanged
<1> DEFINE s == IF p = Nil THEN <<0>> ELSE p.start
<1>4. s \in Name /\ \A x \in {p} \ {Nil} : x.start = s
  BY <1>1, NodeFacts, RootNames
<1>5. p # Nil => s = p.start
  OBVIOUS
<1> HIDE DEF s
<1>6. NextChanged(h2, h1, {p} \ {Nil}, new, s)
  BY <1>1, <1>3, <1>4, ChangeNextIs
<1> HIDE DEF h2
<1>7. Typed(h2) /\ DOMAIN h2 = DOMAIN h
  BY <1>3, <1>6 DEF NextChanged
<1>8. NextChanged(g, h2, {new}, Nil, new.start)
  <2>1. g = ChangeNext(h2, {new}, Nil)
    BY DEF h1, h2
  <2>2. \A x \in {new} : x.start = new.start
    OBVIOUS
  <2> QED BY <1>1, <1>7, <2>1, <2>2, ChangeNextIs, NodeFacts
<1>9. ASSUME NEW y \in T
      PROVE  /\ g[y].end = h[y].end /\ g[y].prev = h[y].prev /\ g[y].off = h[y].off
             /\ g[y].children = h[y].children
             /\ g[y].next = IF y = p THEN new ELSE h[y].next
  <2>1. y # new /\ y \in DOMAIN h /\ y # Nil
    BY <1>1
  <2>2. /\ h1[y].end = h[y].end /\ h1[y].prev = h[y].prev /\ h1[y].off = h[y].off
        /\ h1[y].children = h[y].children /\ h1[y].next = h[y].next
    BY <2>1, <1>2 DEF PrevChanged
  <2>3. /\ h2[y].end = h1[y].end /\ h2[y].prev = h1[y].prev /\ h2[y].off = h1[y].off
        /\ h2[y].children = h1[y].children
        /\ h2[y].next = IF y = p THEN new ELSE h1[y].next
    BY <2>1, <1>3, <1>6 DEF NextChanged
  <2>4. /\ g[y].end = h2[y].end /\ g[y].prev = h2[y].prev /\ g[y].off = h2[y].off
        /\ g[y].children = h2[y].children /\ g[y].next = h2[y].next
    BY <2>1, <1>7, <1>8 DEF NextChanged
  <2> QED BY <2>2, <2>3, <2>4
<1>10. /\ g[new].end = h[new].end /\ g[new].next = Nil /\ g[new].prev = p
       /\ g[new].children = h[new].children
       /\ p # Nil => g[new].off = Differ(p.start, new.start)
  <2>1. new \in DOMAIN h /\ new # Nil
    BY <1>1
  <2>2. /\ h1[new].end = h[new].end /\ h1[new].prev = p /\ h1[new].children = h[new].children
    BY <2>1, <1>2 DEF PrevChanged
  <2>3. /\ h2[new].end = h1[new].end /\ h2[new].prev = h1[new].prev
        /\ h2[new].children = h1[new].children
        /\ p # Nil => h2[new].off = Differ(s, new.start)
    BY <2>1, <1>3, <1>6 DEF NextChanged
  <2>4. /\ g[new].end = h2[new].end /\ g[new].prev = h2[new].prev /\ g[new].next = Nil
        /\ g[new].children = h2[new].children /\ g[new].off = h2[new].off
    BY <2>1, <1>7, <1>8 DEF NextChanged
  <2> QED BY <2>2, <2>3, <2>4, <1>5
<1> QED BY <1>7, <1>8, <1>9, <1>10 DEF VirginCells, NextChanged

\* The last slice, if there is one.
LEMMA LastSlice ==
    ASSUME NEW h, NEW T, NEW z, NEW new, NEW e, Follows(h, T, z, new, e), NEW f, Starts(T, f),
           NEW t, t.heap = h, t.first = f, NEW p, p = Walk(h, z, f, Nil).previous
    PROVE  /\ Find(t, z) = Nil
           /\ IF T = {} THEN p = Nil ELSE IsTop(T, p) /\ h[p].end = z
<1>1. Shape(h, T, z) /\ z \in Name /\ Nil \notin DOMAIN h
  BY NilOut DEF Follows, Shape
<1>2. CASE T = {}
  <2>1. f = Nil
    BY <1>2 DEF Starts
  <2>2. Heads(h, f) = <<>>
    <3>1. DOMAIN [y \in DOMAIN h |-> h[y].next] = DOMAIN h
      OBVIOUS
    <3> QED BY <1>1, <2>1, <3>1 DEF Heads, Follow
  <2>3. WalkJob(h, z, <<>>, Nil)[0] = WalkStart(Nil)
    BY WalkJobIs
  <2>4. p = WalkStart(Nil).previous
    BY <2>2, <2>3, WalkIs
  <2>5. p = Nil
    BY <2>4 DEF WalkStart
  <2>7. Find(t, z) = Containing(h, z, p)
    BY DEF Find
  <2>8. Find(t, z) = Nil
    BY <2>5, <2>7, <1>1 DEF Containing
  <2> QED BY <1>2, <2>5, <2>8
<1>3. CASE T # {}
  <2>1. IsTop(T, f) /\ f.start = <<0>>
    BY <1>3 DEF Starts
  <2>2. ~Less(z, z) /\ ~Less(z, <<0>>)
    BY <1>1, NameOrder, RootNames
  <2>3. Find(t, z) = Nil
    <3> DEFINE s == [heap |-> h, first |-> f, ok |-> TRUE]
    <3>1. Find(s, z) = Nil
      BY <1>1, <2>1, <2>2, FindIs
    <3>2. s.heap = h /\ s.first = f
      OBVIOUS
    <3> HIDE DEF s
    <3> QED BY <3>1, <3>2 DEF Find
  <2>4. MayStart(h, T, z, f, Nil)
    BY <2>1, <2>2 DEF MayStart
  <2>5. Reaches(h, T, z, z, p)
    BY <1>1, <2>4, WalkReaches
  <2>6. IsTop(T, p) /\ (h[p].end = z \/ Less(z, h[p].end))
    BY <2>5 DEF Reaches
  <2>7. h[p].end = z
    <3>1. p \in T /\ p \in DOMAIN h
      BY <2>6, <1>1 DEF IsTop, Shape
    <3>2. h[p].end \in Name
      BY <3>1, <1>1, CellFacts DEF Shape
    <3> QED BY <2>6, <3>1, <3>2, <1>1, EndLeZ, NameOrder
  <2> QED BY <1>3, <2>3, <2>6, <2>7
<1> QED BY <1>2, <1>3

LEMMA VirginShape ==
    ASSUME NEW h, NEW T, NEW z, NEW new, NEW e, Follows(h, T, z, new, e), NEW p,
           IF T = {} THEN p = Nil ELSE IsTop(T, p) /\ h[p].end = z,
           NEW g, VirginCells(g, h, T, new, p), NEW U, U = T \cup {new}
    PROVE  /\ Shape(g, U, e) /\ DOMAIN g = U
           /\ \A y : IsTop(T, y) => IsTop(U, y)
           /\ IsTop(U, new)
<1>1. /\ Shape(h, T, z) /\ DOMAIN h = U /\ new \in NodeName /\ new \notin T
      /\ new.start = z /\ h[new].end = e /\ e \in Name /\ Less(z, e) /\ h[new].children = Nil
      /\ \A x, y \in T : x.start = y.start => x = y
      /\ T = {} => z = <<0>>
  BY DEF Follows
<1>2. /\ Typed(g) /\ DOMAIN g = U
      /\ \A y \in T : /\ g[y].end = h[y].end /\ g[y].prev = h[y].prev /\ g[y].off = h[y].off
                      /\ g[y].children = h[y].children
                      /\ g[y].next = IF y = p THEN new ELSE h[y].next
      /\ g[new].end = e /\ g[new].next = Nil /\ g[new].prev = p /\ g[new].children = Nil
      /\ p # Nil => g[new].off = Differ(p.start, z)
  BY <1>1 DEF VirginCells
<1>3. T \subseteq NodeName /\ Nil \notin T /\ Nil # new /\ z \in Name /\ T \subseteq DOMAIN h
  BY <1>1, NilOut DEF Shape
<1>4. /\ \A y \in T : y.start \in Name /\ h[y].end \in Name
      /\ \A y \in T : h[y].end = z \/ Less(h[y].end, z)
      /\ \A y \in T : Less(y.start, h[y].end) /\ Less(y.start, z) /\ y.start # z
  <2>1. \A y \in T : y.start \in Name /\ h[y].end \in Name
    BY <1>1, <1>3, NodeFacts, CellFacts DEF Shape
  <2>2. \A y \in T : h[y].end = z \/ Less(h[y].end, z)
    BY <1>1, EndLeZ
  <2>3. \A y \in T : Less(y.start, h[y].end) /\ Less(y.start, z)
    BY <1>1 DEF Shape, Ends
  <2> QED BY <2>1, <2>2, <2>3, <1>3, NameOrder
<1>5. \A y \in T : h[y].end # e
  BY <1>1, <1>3, <1>4, NameOrder
<1>6. \A y \in T : h[y].end = z => y = p
  <2> SUFFICES ASSUME NEW y \in T, h[y].end = z, y # p PROVE FALSE
    OBVIOUS
  <2>1. p \in T /\ h[p].end = z
    BY DEF IsTop
  <2>2. y.start # p.start
    BY <2>1, <1>1
  <2>3. Less(y.start, p.start) \/ Less(p.start, y.start)
    BY <2>1, <2>2, <1>4, NameOrder
  <2>4. ~Less(y.start, z) \/ ~Less(p.start, z)
    BY <2>1, <2>3, <1>1 DEF Shape, Ends
  <2> QED BY <2>1, <2>4, <1>4
<1>7. /\ \A y : IsTop(T, y) => IsTop(U, y)
      /\ IsTop(U, new)
  BY <1>1, <1>4 DEF IsTop
<1>8. Ends(g, U, e)
  <2> SUFFICES ASSUME NEW a \in U
               PROVE  /\ Less(a.start, g[a].end) /\ Less(a.start, e)
                      /\ \A y \in U : Less(a.start, y.start) => ~Less(y.start, g[a].end)
                      /\ g[a].end = e \/ \E y \in U : y.start = g[a].end
    BY DEF Ends
  <2>1. CASE a = new
    <3>1. \A y \in U : ~Less(z, y.start)
      BY <1>1, <1>3, <1>4, NameOrder
    <3> QED BY <2>1, <3>1, <1>1, <1>2
  <2>2. CASE a \in T
    <3>1. Less(a.start, e)
      BY <2>2, <1>1, <1>3, <1>4, NameOrder
    <3>2. \A y \in T : Less(a.start, y.start) => ~Less(y.start, h[a].end)
      BY <2>2, <1>1 DEF Shape, Ends
    <3>3. ~Less(z, h[a].end)
      BY <2>2, <1>3, <1>4, NameOrder
    <3>4. h[a].end = z \/ \E y \in T : y.start = h[a].end
      BY <2>2, <1>1 DEF Shape, Ends
    <3> QED BY <2>2, <3>1, <3>2, <3>3, <3>4, <1>1, <1>2, <1>4
  <2> QED BY <2>1, <2>2
<1>9. Nexts(g, U, e)
  <2> SUFFICES ASSUME NEW a \in U
               PROVE  IF g[a].end = e THEN g[a].next = Nil
                      ELSE IsTop(U, g[a].next) /\ g[a].next.start = g[a].end
    BY DEF Nexts
  <2>1. CASE a = new
    BY <2>1, <1>2
  <2>2. CASE a \in T /\ h[a].end = z
    BY <2>2, <1>1, <1>2, <1>5, <1>6, <1>7
  <2>3. CASE a \in T /\ h[a].end # z
    <3>1. a # p
      BY <2>3 DEF IsTop
    <3>2. IsTop(T, h[a].next) /\ h[a].next.start = h[a].end
      BY <2>3, <1>1 DEF Shape, Nexts
    <3> QED BY <2>3, <3>1, <3>2, <1>2, <1>5, <1>7
  <2> QED BY <2>1, <2>2, <2>3
<1>10. Prevs(g, U)
  <2> SUFFICES ASSUME NEW a \in U
               PROVE  IF a.start = <<0>> THEN g[a].prev = Nil
                      ELSE /\ IsTop(U, g[a].prev) /\ g[g[a].prev].end = a.start
                           /\ g[a].off = Differ(g[a].prev.start, a.start)
    BY DEF Prevs
  <2>1. CASE a = new /\ T = {}
    BY <2>1, <1>1, <1>2
  <2>2. CASE a = new /\ T # {}
    <3>1. IsTop(T, p) /\ h[p].end = z /\ p \in T
      BY <2>2 DEF IsTop
    <3>2. z # <<0>>
      BY <3>1, <1>4, RootNames
    <3> QED BY <2>2, <3>1, <3>2, <1>1, <1>2, <1>3, <1>7
  <2>3. CASE a \in T /\ a.start = <<0>>
    BY <2>3, <1>1, <1>2 DEF Shape, Prevs
  <2>4. CASE a \in T /\ a.start # <<0>>
    <3>1. /\ IsTop(T, h[a].prev) /\ h[h[a].prev].end = a.start
          /\ h[a].off = Differ(h[a].prev.start, a.start) /\ h[a].prev \in T
      BY <2>4, <1>1 DEF Shape, Prevs, IsTop
    <3>2. g[a].prev = h[a].prev /\ g[a].off = h[a].off /\ g[h[a].prev].end = h[h[a].prev].end
      BY <2>4, <3>1, <1>2
    <3>3. IsTop(U, h[a].prev)
      BY <3>1, <1>7
    <3> QED BY <2>4, <3>1, <3>2, <3>3
  <2> QED BY <2>1, <2>2, <2>3, <2>4
<1>11. Belows(g, U)
  <2> SUFFICES ASSUME NEW a \in U
               PROVE  IF g[a].children = Nil THEN \A y \in U : ~Over(a, y)
                      ELSE IsBelow(U, a, g[a].children)
    BY DEF Belows
  <2>1. CASE a = new
    <3>1. \A y \in U : ~Over(new, y)
      BY <1>1, <1>4, AheadOrder DEF Over
    <3> QED BY <2>1, <3>1, <1>2
  <2>2. CASE a \in T
    <3>1. ~Over(a, new)
      BY <2>2, <1>1, <1>4 DEF Over
    <3>2. IF h[a].children = Nil THEN \A y \in T : ~Over(a, y)
          ELSE IsBelow(T, a, h[a].children)
      BY <2>2, <1>1 DEF Shape, Belows
    <3>3. CASE h[a].children = Nil
      BY <2>2, <3>1, <3>2, <3>3, <1>2
    <3>4. CASE h[a].children # Nil
      BY <2>2, <3>1, <3>2, <3>4, <1>2 DEF IsBelow
    <3> QED BY <3>3, <3>4
  <2> QED BY <2>1, <2>2
<1>12. Ranked(U)
  BY <1>1, <1>4 DEF Shape, Ranked
<1>13. Loose(g, U)
  BY <1>2 DEF Loose
<1> QED BY <1>1, <1>2, <1>7, <1>8, <1>9, <1>10, <1>11, <1>12, <1>13 DEF Shape

LEMMA LoadSliceDone ==
    ASSUME NEW job, job.node = Nil
    PROVE  LoadSlice(job) = job
BY DEF LoadSlice, Merged

LEMMA LoadSliceVirgin ==
    ASSUME NEW job, NEW t, NEW new, job.tree = t, job.node = new, new # Nil,
           Find(t, new.start) = Nil
    PROVE  LoadSlice(job) = [tree |-> LoadVirgin(t, new), node |-> Nil]
BY Zenon DEF LoadSlice, Merged

\* The tree t of the nodes T that ends at z.
Planted(t, T, z) ==
    /\ t = [heap |-> t.heap, first |-> t.first, ok |-> TRUE]
    /\ Shape(t.heap, T, z) /\ DOMAIN t.heap = T
    /\ Starts(T, t.first)

\* subtreeLoad behind all slices.
LEMMA LoadVirginIs ==
    ASSUME NEW h, NEW T, NEW z, NEW new, NEW e, Follows(h, T, z, new, e), NEW f, Starts(T, f),
           NEW t, t.heap = h, t.first = f, NEW r, r = Load(t, new),
           NEW U, U = T \cup {new}
    PROVE  Planted(r, U, e)
<1> DEFINE N == Len(Heads(h, f)) + 1
           job == LoadJob(t, new, N)
           one == LoadVirgin(t, new)
           p == Walk(h, z, f, Nil).previous
           g == ChangeNext(ChangeNext(ChangePrev(h, {new}, p), {p} \ {Nil}, new), {new}, Nil)
<1>1. /\ Find(t, z) = Nil
      /\ IF T = {} THEN p = Nil ELSE IsTop(T, p) /\ h[p].end = z
  BY LastSlice
<1>2. /\ Shape(h, T, z) /\ DOMAIN h = U /\ new \in NodeName /\ new \notin T /\ new.start = z
      /\ new # Nil
      /\ T = {} => z = <<0>>
  BY NodeFacts DEF Follows
<1>3. N \in Nat /\ N > 0
  <2>1. CASE T = {}
    <3>1. Nil \notin DOMAIN h /\ f = Nil
      BY <1>2, <2>1, NilOut DEF Starts, Shape
    <3>2. Heads(h, f) = <<>>
      <4>1. DOMAIN [y \in DOMAIN h |-> h[y].next] = DOMAIN h
        OBVIOUS
      <4> QED BY <3>1, <4>1 DEF Heads, Follow
    <3> QED BY <3>2
  <2>2. CASE T # {}
    <3>1. IsTop(T, f)
      BY <2>2 DEF Starts
    <3>2. IsHeads(h, T, f, Heads(h, f))
      BY <1>2, <3>1, HeadsAre
    <3> QED BY <3>2 DEF IsHeads
  <2> QED BY <2>1, <2>2
<1> HIDE DEF p
<1>4. one = [heap |-> g, first |-> IF p = Nil THEN new ELSE f, ok |-> TRUE]
  <2>2. Walk(t.heap, new.start, t.first, Nil).previous = p
    BY <1>2 DEF p
  <2> QED BY <2>2 DEF LoadVirgin
<1>5. r = one
  <2>2. r = job[N].tree
    BY LoadOf
  <2> HIDE DEF one, N
  <2>3. /\ job[0] = [tree |-> t, node |-> new]
        /\ \A k \in 1 .. N : job[k] = LoadSlice(job[k - 1])
    BY ONLY <1>3, LoadJobIs
  <2> HIDE DEF job
  <2>4. LoadSlice(job[0]) = [tree |-> one, node |-> Nil]
    <3>1. job[0].tree = t /\ job[0].node = new
      BY <2>3
    <3>2. Find(t, new.start) = Nil /\ new # Nil
      BY <1>1, <1>2
    <3>3. LoadSlice(job[0]) = [tree |-> LoadVirgin(t, new), node |-> Nil]
      BY <3>1, <3>2, LoadSliceVirgin
    <3> QED BY <3>3 DEF one
  <2> DEFINE Bad == {k \in 1 .. N : job[k] # [tree |-> one, node |-> Nil]}
  <2>5. Bad = {}
    <3> SUFFICES ASSUME Bad # {} PROVE FALSE
      OBVIOUS
    <3>1. PICK k \in Bad : \A l \in Bad : k \leq l
      <4>1. Bad \in SUBSET Nat
        OBVIOUS
      <4> HIDE DEF Bad
      <4> QED BY <4>1, LeastNumber
    <3>2. k # 1
      BY <2>3, <2>4, <3>1
    <3>3. k - 1 \in 1 .. N /\ ~(k \leq k - 1) /\ k \in 1 .. N
      BY <3>1, <3>2, <1>3
    <3>4. job[k - 1] = [tree |-> one, node |-> Nil]
      BY <3>1, <3>3
    <3>5. job[k] = job[k - 1]
      <4>1. job[k - 1].node = Nil
        BY <3>4
      <4> QED BY <2>3, <3>3, <4>1, LoadSliceDone
    <3> QED BY <3>1, <3>4, <3>5
  <2>6. N \in 1 .. N
    BY <1>3
  <2> QED BY <2>2, <2>5, <2>6
<1>6. VirginCells(g, h, T, new, p)
  <2>1. p = Nil \/ p \in T
    BY <1>1 DEF IsTop
  <2>2. Typed(h)
    BY <1>2 DEF Shape
  <2> HIDE DEF g
  <2> QED BY <1>2, <2>1, <2>2, VirginIs DEF g
<1> HIDE DEF g
<1>7. /\ Shape(g, U, e) /\ DOMAIN g = U
      /\ \A y : IsTop(T, y) => IsTop(U, y)
      /\ IsTop(U, new)
  BY <1>1, <1>6, VirginShape
<1>8. p = Nil <=> T = {}
  BY <1>1, <1>2, NilOut DEF IsTop, Shape
<1> DEFINE a == IF p = Nil THEN new ELSE f
<1>9. IsTop(U, a) /\ a.start = <<0>> /\ a = IF T = {} THEN new ELSE f
  <2>1. a = IF T = {} THEN new ELSE f
    BY <1>8
  <2>2. CASE T = {}
    BY <2>1, <2>2, <1>2, <1>7
  <2>3. CASE T # {}
    <3>1. IsTop(T, f) /\ f.start = <<0>>
      BY <2>3 DEF Starts
    <3> QED BY <2>1, <2>3, <3>1, <1>7
  <2> QED BY <2>1, <2>2, <2>3
<1>10. /\ r.heap = g /\ r.first = a /\ r = [heap |-> g, first |-> a, ok |-> TRUE]
  BY ONLY <1>4, <1>5
<1>11. U # {}
  OBVIOUS
<1> HIDE DEF a
<1> QED BY <1>7, <1>9, <1>10, <1>11 DEF Planted, Starts

Root(i) == Node(<<i>>, 127, Nil)
RootsTo(i) == {Root(j) : j \in 0 .. i - 1}

\* The tree of the first i roots.
Bare(t, i) == Planted(t, RootsTo(i), <<i>>)

LEMMA RootFacts ==
    /\ \A i \in Nat : /\ Root(i) \in NodeName /\ Root(i).start = <<i>> /\ Root(i).name = <<i>>
                      /\ Root(i).prio = 127 /\ Root(i).sess = Nil
    /\ \A i, j \in Nat : Root(i) = Root(j) => i = j
<1>1. \A i \in Nat : /\ Root(i) \in NodeName /\ Root(i).start = <<i>> /\ Root(i).name = <<i>>
                     /\ Root(i).prio = 127 /\ Root(i).sess = Nil
  <2> SUFFICES ASSUME NEW i \in Nat
               PROVE  /\ Root(i) \in NodeName /\ Root(i).start = <<i>> /\ Root(i).name = <<i>>
                      /\ Root(i).prio = 127 /\ Root(i).sess = Nil
    OBVIOUS
  <2>1. <<i>> \in Name
    BY RootRegions
  <2>2. 127 \in Int
    OBVIOUS
  <2> DEFINE n == <<i>>
  <2> HIDE DEF n
  <2>3. Root(i) = [name |-> n, prio |-> 127, sess |-> Nil, start |-> n]
    BY DEF Root, Node, n
  <2>4. n \in Name
    BY <2>1 DEF n
  <2> QED BY <2>2, <2>3, <2>4 DEF NodeName, n
<1>2. \A i, j \in Nat : Root(i) = Root(j) => i = j
  <2> SUFFICES ASSUME NEW i \in Nat, NEW j \in Nat, Root(i) = Root(j) PROVE i = j
    OBVIOUS
  <2>1. <<i>> = <<j>>
    BY <1>1
  <2> QED BY <2>1, RootRegions
<1> QED BY <1>1, <1>2

LEMMA RootsGrow ==
    ASSUME NEW i \in Nat
    PROVE  /\ RootsTo(i + 1) = RootsTo(i) \cup {Root(i)}
           /\ Root(i) \notin RootsTo(i)
           /\ RootsTo(i) = {} <=> i = 0
           /\ \A x \in RootsTo(i) : \E j \in 0 .. i - 1 : x = Root(j)
<1>1. RootsTo(i + 1) = RootsTo(i) \cup {Root(i)}
  <2>1. \A j : j \in 0 .. (i + 1) - 1 <=> j \in 0 .. i - 1 \/ j = i
    OBVIOUS
  <2>2. \A x \in RootsTo(i + 1) : x \in RootsTo(i) \cup {Root(i)}
    BY <2>1 DEF RootsTo
  <2>3. \A x \in RootsTo(i) \cup {Root(i)} : x \in RootsTo(i + 1)
    BY <2>1 DEF RootsTo
  <2> QED BY <2>2, <2>3
<1>2. \A x \in RootsTo(i) : \E j \in 0 .. i - 1 : x = Root(j)
  BY DEF RootsTo
<1>3. Root(i) \notin RootsTo(i)
  BY <1>2, RootFacts
<1>4. RootsTo(i) = {} <=> i = 0
  <2>1. i # 0 => Root(0) \in RootsTo(i)
    BY DEF RootsTo
  <2> QED BY <1>2, <2>1
<1> QED BY <1>1, <1>2, <1>3, <1>4

LEMMA RootedIs ==
    ASSUME NEW i \in Nat, NEW t, Bare(t, i)
    PROVE  Bare(Rooted(t, i), i + 1)
<1> DEFINE x == Root(i)
           T == RootsTo(i)
           U == RootsTo(i + 1)
           h == t.heap
           f == t.first
           g == New(h, x)
           s == [heap |-> g, first |-> f, ok |-> TRUE]
           r == Load(s, x)
           z == <<i>>
           e == <<i + 1>>
<1>1. /\ t = [heap |-> h, first |-> f, ok |-> TRUE]
      /\ Shape(h, T, z) /\ DOMAIN h = T /\ Starts(T, f)
  BY DEF Bare, Planted
<1>2. x \in NodeName /\ x \notin T /\ x.name = z /\ x.start = z
  BY RootFacts, RootsGrow
<1>3. z \in Name /\ e \in Name /\ EndOf(z) = e /\ Less(z, e)
  <2>1. i + 1 \in Nat
    OBVIOUS
  <2>2. z \in Name /\ e \in Name /\ EndOf(z) = e
    BY <2>1, RootRegions
  <2> QED BY <2>2, RegionBounds
<1>4. \A y, w \in T : y.start = w.start => y = w
  <2> SUFFICES ASSUME NEW y \in T, NEW w \in T, y.start = w.start PROVE y = w
    OBVIOUS
  <2>1. PICK j \in 0 .. i - 1 : y = Root(j)
    BY RootsGrow
  <2>2. PICK k \in 0 .. i - 1 : w = Root(k)
    BY RootsGrow
  <2>3. y.start = <<j>> /\ w.start = <<k>> /\ j \in Nat /\ k \in Nat
    BY <2>1, <2>2, RootFacts
  <2>4. j = k
    BY <2>3, RootRegions
  <2> QED BY <2>1, <2>2, <2>4
<1>5. T = {} => z = <<0>>
  BY RootsGrow
<1>10. U = T \cup {x}
  BY RootsGrow
<1> HIDE DEF x, T, z, e, h, f, U
<1>6. /\ Shape(g, T, z) /\ DOMAIN g = T \cup {x}
      /\ g[x].end = e /\ g[x].children = Nil
  BY <1>1, <1>2, <1>3, NewIs
<1> HIDE DEF g
<1>7. Follows(g, T, z, x, e)
  BY <1>2, <1>3, <1>4, <1>5, <1>6 DEF Follows
<1>8. Planted(r, U, e)
  <2>1. s.heap = g /\ s.first = f /\ r = Load(s, x)
    OBVIOUS
  <2> HIDE DEF r, s
  <2> QED BY <1>1, <1>7, <1>10, <2>1, LoadVirginIs
<1>9. Rooted(t, i) = r
  <2>1. Rooted(t, i) = Registered(t, x)
    BY DEF Rooted, Root, x
  <2>2. [t EXCEPT !.heap = New(t.heap, x)] = s
    <3>1. t.heap = h
      BY DEF h
    <3>2. [t EXCEPT !.heap = New(t.heap, x)] = [t EXCEPT !.heap = g]
      BY <3>1 DEF g
    <3>3. t = [heap |-> h, first |-> f, ok |-> TRUE]
      BY <1>1
    <3>4. PICK ok : ok = TRUE
      OBVIOUS
    <3>5. t = [heap |-> h, first |-> f, ok |-> ok]
      BY <3>3, <3>4
    <3>6. s = [heap |-> g, first |-> f, ok |-> ok]
      BY <3>4
    <3> HIDE DEF s
    <3> QED BY ONLY <3>2, <3>5, <3>6
  <2>3. r.ok = TRUE
    <3> HIDE DEF r
    <3>1. PICK q : q = r
      OBVIOUS
    <3>2. q = [heap |-> q.heap, first |-> q.first, ok |-> TRUE]
      BY <1>8, <3>1 DEF Planted
    <3>3. q.ok = TRUE
      BY ONLY <3>2
    <3> QED BY <3>1, <3>3
  <2> HIDE DEF s, r
  <2> QED BY <2>1, <2>2, <2>3 DEF Registered, Decided, r
<1> HIDE DEF r
<1> QED BY <1>8, <1>9 DEF Bare, U, e

LEMMA RootsAre ==
    /\ Shape(Roots.heap, RootsTo(3), <<3>>) /\ DOMAIN Roots.heap = RootsTo(3)
    /\ IsTop(RootsTo(3), Roots.first) /\ Roots.first.start = <<0>>
<1> DEFINE t == [heap |-> <<>>, first |-> Nil, ok |-> TRUE]
<1>1. Bare(t, 0)
  <2>1. RootsTo(0) = {}
    BY RootsGrow
  <2>2. Shape(<<>>, {}, <<0>>)
    <3>1. Typed(<<>>)
      <4>1. DOMAIN <<>> = {} /\ <<>> \in [{} -> Cell]
        OBVIOUS
      <4> QED BY <4>1, FS_EmptySet DEF Typed
    <3>2. Ends(<<>>, {}, <<0>>) /\ Nexts(<<>>, {}, <<0>>) /\ Prevs(<<>>, {})
          /\ Belows(<<>>, {}) /\ Ranked({}) /\ Loose(<<>>, {})
      BY DEF Ends, Nexts, Prevs, Belows, Ranked, Loose
    <3> QED BY <3>1, <3>2, RootNames DEF Shape
  <2>3. DOMAIN <<>> = {}
    OBVIOUS
  <2> QED BY <2>1, <2>2, <2>3 DEF Bare, Planted, Starts
<1> HIDE DEF t
<1> DEFINE t1 == Rooted(t, 0)
           t2 == Rooted(t1, 1)
           t3 == Rooted(t2, 2)
<1>2. Bare(t1, 1)
  BY <1>1, RootedIs
<1> HIDE DEF t1
<1>3. Bare(t2, 2)
  BY <1>2, RootedIs
<1> HIDE DEF t2
<1>4. Bare(t3, 3)
  BY <1>3, RootedIs
<1>5. Roots = t3
  BY DEF Roots, t, t1, t2
<1> HIDE DEF t3
<1>6. RootsTo(3) # {}
  BY RootsGrow
<1> QED BY <1>4, <1>5, <1>6 DEF Bare, Planted, Starts
-----------------------------------------------------------------------------
(* Registering a region.                                                   *)

End == <<3>>

Reg(x) == [name |-> x.name, prio |-> x.prio, sess |-> x.sess]
RegsOf(D) == {Reg(x) : x \in {y \in D : y.sess # Nil}}

\* The nodes are of the roots and of registered regions.
Known(x) == IF x.sess = Nil THEN \E i \in 0 .. 2 : x.name = <<i>> /\ x.prio = 127
            ELSE x.name \in Region /\ x.prio \in Priority

Full(D) ==
    /\ \A x \in D : Whole(D, End, x) /\ Known(x)
    /\ \A i \in 0 .. 2 : Root(i) \in D

\* The tree between two operations.
Grown(h, f, D) ==
    Shape(h, D, End) /\ DOMAIN h = D /\ IsTop(D, f) /\ f.start = <<0>> /\ Full(D)

LEMMA RegFacts ==
    /\ \A x, y : Reg(x) = Reg(y) <=> x.name = y.name /\ x.prio = y.prio /\ x.sess = y.sess
    /\ \A x \in NodeName : \A s \in Name : Reg(Moved(x, s)) = Reg(x)
    /\ \A D : \A x \in D : x.sess # Nil => Reg(x) \in RegsOf(D)
    /\ \A D : \A r \in RegsOf(D) : \E x \in D : x.sess # Nil /\ r = Reg(x)
<1>1. \A x, y : Reg(x) = Reg(y) <=> x.name = y.name /\ x.prio = y.prio /\ x.sess = y.sess
  BY DEF Reg
<1>2. \A x \in NodeName : \A s \in Name : Reg(Moved(x, s)) = Reg(x)
  BY <1>1, NodeFacts
<1>3. /\ \A D : \A x \in D : x.sess # Nil => Reg(x) \in RegsOf(D)
      /\ \A D : \A r \in RegsOf(D) : \E x \in D : x.sess # Nil /\ r = Reg(x)
  BY DEF RegsOf
<1> QED BY <1>1, <1>2, <1>3

\* A new registration.
LEMMA NewNode ==
    ASSUME NEW n \in Region, NEW p \in Priority, NEW s \in Session,
           NEW b, b = Node(n, p, s)
    PROVE  /\ b \in NodeName /\ b.name = n /\ b.prio = p /\ b.sess = s /\ b.start = n
           /\ b = Moved(b, n) /\ n \in Name /\ n # <<0>> /\ b.sess # Nil
           /\ EndOf(n) \in Name /\ Less(EndOf(n), End) /\ End \in Name /\ Known(b)
<1>1. n \in Name /\ p \in Int /\ Len(n) > 1 /\ n[1] \in 0 .. 2 /\ s # Nil
  BY TreeAssumption
<1>2. b \in NodeName /\ b.name = n /\ b.prio = p /\ b.sess = s /\ b.start = n
  BY <1>1 DEF Node, NodeName
<1>3. b = Moved(b, n)
  BY <1>2, MovedFacts
<1>4. n # <<0>>
  <2> SUFFICES ASSUME n = << 0 >> PROVE FALSE
    OBVIOUS
  <2>1. Len(n) = Len(<<0>>) /\ Len(<<0>>) = 1
    BY RootRegions
  <2>2. ~(1 > 1)
    OBVIOUS
  <2> QED BY <1>1, <2>1, <2>2
<1>5. EndOf(n) \in Name /\ EndOf(n)[1] = n[1]
  <2>1. /\ EndOf(n) \in Name /\ Len(n) \in Nat
        /\ \A i \in 1 .. Len(n) : EndOf(n)[i] = IF i = Len(n) THEN n[i] + 1 ELSE n[i]
    BY <1>1, EndOfType
  <2>2. 1 \in 1 .. Len(n) /\ 1 # Len(n)
    BY <1>1, <2>1
  <2> QED BY <2>1, <2>2
<1>6. Less(EndOf(n), <<3>>)
  BY <1>1, <1>5, RootRegions
<1> QED BY <1>1, <1>2, <1>3, <1>4, <1>5, <1>6, RootNames DEF End, Known

LEMMA WaitsNew ==
    ASSUME NEW h, NEW f, NEW D, Grown(h, f, D),
           NEW n \in Region, NEW p \in Priority, NEW s \in Session,
           NEW b, b = Node(n, p, s), Reg(b) \notin RegsOf(D), NEW g, g = New(h, b)
    PROVE  Waits(g, D, End, b, b)
<1>1. /\ b \in NodeName /\ b.name = n /\ b.start = n /\ b.sess # Nil
      /\ b = Moved(b, n) /\ n \in Name /\ n # <<0>>
      /\ EndOf(n) \in Name /\ Less(EndOf(n), End) /\ End \in Name
  BY NewNode
<1>2. Shape(h, D, End) /\ DOMAIN h = D /\ Full(D)
  BY DEF Grown
<1>3. D \subseteq NodeName
  BY <1>2, NilOut DEF Shape
<1>4. b \notin D
  BY <1>1, RegFacts
<1>5. Shape(g, D, End) /\ DOMAIN g = D \cup {b} /\ g[b].end = EndOf(n)
      /\ g[b].next = Nil /\ g[b].children = Nil
  BY <1>1, <1>2, <1>4, NewIs
<1>6. Loaded(D, End, b, n)
  <2>1. \A e \in Edges(D) : Moved(b, e) \notin D
    <3> SUFFICES ASSUME NEW e \in Edges(D), Moved(b, e) \in D PROVE FALSE
      OBVIOUS
    <3>1. e \in Name
      BY <1>3, EdgeFacts
    <3>2. Reg(Moved(b, e)) = Reg(b) /\ Moved(b, e).sess # Nil
      BY <1>1, <3>1, RegFacts, NodeFacts
    <3> QED BY <3>2, RegFacts
  <2>2. \A e \in Edges(D) : ~(IsPrefix(b.name, e) /\ Less(e, n))
    BY <1>1, <1>3, EdgeFacts, RegionAt
  <2>3. \A x \in D : Whole(D, End, x)
    BY <1>2 DEF Full
  <2> QED BY <2>1, <2>2, <2>3 DEF Loaded
<1>7. IsPrefix(n, n)
  BY <1>1, NameOrder, RegionBounds, RegionAt
<1>8. Pending(g, D, b)
  BY <1>1, <1>4, <1>5 DEF Pending
<1> QED BY <1>1, <1>5, <1>6, <1>7, <1>8 DEF Waits

\* What is known of the nodes of a tree is known of those of one grown from it.
LEMMA KinKnown ==
    ASSUME NEW T, T \subseteq NodeName, NEW V, V \subseteq NodeName, NEW b \in NodeName,
           Kin(T, V, b), Full(T), Known(b)
    PROVE  /\ \A x \in V : Known(x)
           /\ \A i \in 0 .. 2 : Root(i) \in V
<1>1. \A x \in V : Known(x)
  <2> SUFFICES ASSUME NEW x \in V PROVE Known(x)
    OBVIOUS
  <2>1. x \in NodeName /\ x.start \in Name
    BY NodeFacts
  <2>2. PICK y \in NodeName : x = Moved(y, x.start) /\ Known(y)
    BY DEF Kin, Full
  <2>3. x.name = y.name /\ x.prio = y.prio /\ x.sess = y.sess
    BY <2>1, <2>2, NodeFacts
  <2> QED BY <2>2, <2>3 DEF Known
<1> QED BY <1>1 DEF Kin, Full

\* A registration that was loaded up to its end.
LEMMA AcceptedFull ==
    ASSUME NEW T, T \subseteq NodeName, NEW V, V \subseteq NodeName, NEW b \in NodeName,
           Kin(T, V, b), Full(T), Known(b), b.start = b.name,
           Loaded(V, End, b, EndOf(b.name)), b \in V, Shut(V, End, b)
    PROVE  Full(V)
<1> DEFINE n == b.name
<1>1. n \in Name /\ EndOf(n) \in Name /\ n \in Edges(V)
  BY NodeFacts, EndOfType, EdgeFacts
<1>2. Whole(V, End, b)
  <2>1. \A e \in Edges(V) : IsPrefix(n, e) <=> Moved(b, e) \in V
    <3> SUFFICES ASSUME NEW e \in Edges(V) PROVE IsPrefix(n, e) <=> Moved(b, e) \in V
      OBVIOUS
    <3>1. e \in Name
      BY EdgeFacts
    <3>2. IsPrefix(n, e) => Less(e, EndOf(n))
      BY <1>1, <3>1, RegionAt
    <3> QED BY <3>2 DEF Loaded
  <2> QED BY <1>1, <2>1 DEF Whole, Shut
<1>3. \A x \in V : Whole(V, End, x)
  <2> SUFFICES ASSUME NEW x \in V PROVE Whole(V, End, x)
    OBVIOUS
  <2>1. x.start \in Name
    BY NodeFacts
  <2>2. CASE x = Moved(b, x.start)
    BY <1>2, <2>1, <2>2, WholeMoved
  <2>3. CASE x # Moved(b, x.start)
    BY <2>3 DEF Loaded
  <2> QED BY <2>2, <2>3
<1> QED BY <1>3, KinKnown DEF Full

\* A registration that was refused at once.
LEMMA RefusedFull ==
    ASSUME NEW T, T \subseteq NodeName, NEW V, V \subseteq NodeName, NEW b \in NodeName,
           Kin(T, V, b), Full(T), Known(b), Loaded(V, End, b, b.name)
    PROVE  /\ Full(V)
           /\ \A x \in V : \E y \in T : x = Moved(y, x.start)
<1>1. \A x \in V : x # Moved(b, x.start)
  <2> SUFFICES ASSUME NEW x \in V, x = Moved(b, x.start) PROVE FALSE
    OBVIOUS
  <2>1. x.start \in Edges(V) /\ x.start \in Name /\ b.name \in Name
    BY EdgeFacts, NodeFacts
  <2>2. IsPrefix(b.name, x.start) /\ Less(x.start, b.name)
    BY <2>1 DEF Loaded
  <2> QED BY <2>1, <2>2, RegionAt
<1>2. \A x \in V : Whole(V, End, x)
  BY <1>1 DEF Loaded
<1>3. \A x \in V : \E y \in T : x = Moved(y, x.start)
  BY <1>1 DEF Kin
<1> QED BY <1>2, <1>3, KinKnown DEF Full

\* The registrations of a tree grown from another.
LEMMA KinRegs ==
    ASSUME NEW T, T \subseteq NodeName, NEW V, V \subseteq NodeName, NEW b \in NodeName,
           Kin(T, V, b)
    PROVE  /\ RegsOf(T) \subseteq RegsOf(V)
           /\ b.sess # Nil => RegsOf(V) \subseteq RegsOf(T) \cup {Reg(b)}
           /\ (\A x \in V : \E y \in T : x = Moved(y, x.start)) => RegsOf(V) = RegsOf(T)
<1>1. RegsOf(T) \subseteq RegsOf(V)
  BY DEF Kin, RegsOf
<1>2. ASSUME NEW x \in V, x.sess # Nil, NEW y \in NodeName, x = Moved(y, x.start)
      PROVE  Reg(x) = Reg(y) /\ y.sess # Nil
  BY <1>2, NodeFacts, RegFacts
<1>3. \A x \in V : x.sess # Nil => \/ x = Moved(b, x.start) /\ Reg(x) = Reg(b)
                                   \/ Reg(x) \in RegsOf(T)
  BY <1>2, RegFacts DEF Kin
<1>4. ASSUME \A x \in V : \E y \in T : x = Moved(y, x.start)
      PROVE  \A x \in V : x.sess # Nil => Reg(x) \in RegsOf(T)
  BY <1>2, <1>4, RegFacts
<1>5. b.sess # Nil => RegsOf(V) \subseteq RegsOf(T) \cup {Reg(b)}
  <2> SUFFICES ASSUME NEW r \in RegsOf(V) PROVE r \in RegsOf(T) \cup {Reg(b)}
    OBVIOUS
  <2>1. PICK x \in V : x.sess # Nil /\ r = Reg(x)
    BY RegFacts
  <2> QED BY <2>1, <1>3
<1>6. (\A x \in V : \E y \in T : x = Moved(y, x.start)) => RegsOf(V) = RegsOf(T)
  <2> SUFFICES ASSUME \A x \in V : \E y \in T : x = Moved(y, x.start)
               PROVE  RegsOf(V) \subseteq RegsOf(T)
    BY <1>1
  <2> SUFFICES ASSUME NEW r \in RegsOf(V) PROVE r \in RegsOf(T)
    OBVIOUS
  <2>1. PICK x \in V : x.sess # Nil /\ r = Reg(x)
    BY RegFacts
  <2> QED BY <2>1, <1>4
<1> QED BY <1>1, <1>5, <1>6

\* What came of registering b in a tree of the nodes D: its nodes are V.
Enrolled(h, f, D, b, V) ==
    /\ Grown(h, f, V)
    /\ \/ RegsOf(V) = RegsOf(D)
       \/ /\ RegsOf(V) = RegsOf(D) \cup {Reg(b)}
          /\ \A r \in RegsOf(D) : <<r.name, r.prio>> # <<b.name, b.prio>>

LEMMA RegisteredIs ==
    ASSUME NEW h, NEW f, NEW D, Grown(h, f, D),
           NEW n \in Region, NEW p \in Priority, NEW s \in Session,
           NEW b, b = Node(n, p, s), Reg(b) \notin RegsOf(D),
           NEW t, t = [heap |-> h, first |-> f, ok |-> TRUE],
           NEW r, r = Registered(t, b)
    PROVE  \E V : Enrolled(r.heap, r.first, D, b, V)
<1> DEFINE g == New(h, b)
           q == [heap |-> g, first |-> f, ok |-> TRUE]
           l == Load(q, b)
<1>1. /\ b \in NodeName /\ b.name = n /\ b.start = n /\ b.sess # Nil /\ b.prio = p
      /\ b = Moved(b, n) /\ n \in Name /\ Known(b)
  BY NewNode
<1>2. Shape(h, D, End) /\ DOMAIN h = D /\ Full(D) /\ IsTop(D, f) /\ f.start = <<0>>
  BY DEF Grown
<1>3. D \subseteq NodeName
  BY <1>2, NilOut DEF Shape
<1>4. Waits(g, D, End, b, b)
  BY WaitsNew
<1>5. r = IF l.ok THEN l ELSE [l EXCEPT !.heap = Free(l.heap, b)]
  <2>1. [t EXCEPT !.heap = New(t.heap, b)] = q
    <3>1. PICK ok : /\ t = [heap |-> h, first |-> f, ok |-> ok]
                    /\ q = [heap |-> g, first |-> f, ok |-> ok]
      OBVIOUS
    <3>2. t.heap = h
      BY <3>1
    <3>3. [t EXCEPT !.heap = New(t.heap, b)] = [t EXCEPT !.heap = g]
      BY <3>2
    <3> HIDE DEF g, q
    <3>4. [t EXCEPT !.heap = g] = q
      BY ONLY <3>1
    <3> QED BY <3>3, <3>4
  <2> HIDE DEF g, q
  <2> QED BY <2>1 DEF Registered, Decided
<1> HIDE DEF g
<1>6. PICK V : Ended(l, V, D, End, b, b, f)
  BY <1>1, <1>2, <1>4, LoadIs
<1> HIDE DEF q, l
<1>7. /\ Kin(D, V, b) /\ IsTop(V, f) /\ Shape(l.heap, V, End)
      /\ l = [heap |-> l.heap, first |-> f, ok |-> l.ok]
      /\ \/ /\ l.ok = FALSE /\ DOMAIN l.heap \ V = {b} /\ Loaded(V, End, b, n)
         \/ /\ l.ok = TRUE /\ DOMAIN l.heap = V /\ Loaded(V, End, b, EndOf(n)) /\ b \in V
            /\ Shut(V, End, b)
  BY <1>1, <1>6 DEF Ended
<1>8. V \subseteq NodeName /\ V \subseteq DOMAIN l.heap
  BY <1>7, NilOut DEF Shape
<1>9. CASE /\ l.ok = FALSE /\ DOMAIN l.heap \ V = {b} /\ Loaded(V, End, b, n)
  <2> DEFINE k == Free(l.heap, b)
  <2>1. b \notin V
    BY <1>9
  <2>2. Shape(k, V, End) /\ DOMAIN k = DOMAIN l.heap \ {b}
    BY <1>7, <2>1, FreeShape
  <2>3. DOMAIN k = V
    BY <1>8, <1>9, <2>2
  <2>4. r = [l EXCEPT !.heap = k]
    BY <1>5, <1>9
  <2> HIDE DEF k
  <2>5. r.heap = k /\ r.first = f
    BY ONLY <2>4, <1>7
  <2>6. Full(V) /\ \A x \in V : \E y \in D : x = Moved(y, x.start)
    BY <1>1, <1>2, <1>3, <1>7, <1>8, <1>9, RefusedFull
  <2>7. RegsOf(V) = RegsOf(D)
    BY <1>1, <1>3, <1>7, <1>8, <2>6, KinRegs
  <2>8. Grown(r.heap, r.first, V)
    BY <1>2, <1>7, <2>2, <2>3, <2>5, <2>6 DEF Grown
  <2> QED BY <2>7, <2>8 DEF Enrolled
<1>10. CASE /\ l.ok = TRUE /\ DOMAIN l.heap = V /\ Loaded(V, End, b, EndOf(n)) /\ b \in V
            /\ Shut(V, End, b)
  <2>1. r = l
    BY <1>5, <1>10
  <2>2. r.heap = l.heap /\ r.first = f
    BY ONLY <2>1, <1>7
  <2>3. Full(V)
    BY <1>1, <1>2, <1>3, <1>7, <1>8, <1>10, AcceptedFull
  <2>4. Grown(r.heap, r.first, V)
    BY <1>2, <1>7, <1>10, <2>2, <2>3 DEF Grown
  <2>5. RegsOf(V) = RegsOf(D) \cup {Reg(b)}
    BY <1>1, <1>3, <1>7, <1>8, <1>10, KinRegs, RegFacts
  <2>6. \A a \in RegsOf(D) : <<a.name, a.prio>> # <<b.name, b.prio>>
    <3> SUFFICES ASSUME NEW a \in RegsOf(D), a.name = b.name, a.prio = b.prio PROVE FALSE
      OBVIOUS
    <3>1. PICK y \in D : y.sess # Nil /\ a = Reg(y)
      BY RegFacts
    <3>2. y.name = n /\ y.prio = p /\ y \in NodeName
      BY <1>1, <1>3, <3>1 DEF Reg
    <3> DEFINE v == Moved(y, n)
    <3>3. v \in D
      <4>1. Whole(D, End, y)
        BY <1>2 DEF Full
      <4>2. IsPrefix(n, n)
        BY <1>1, NameOrder, RegionBounds, RegionAt
      <4> QED BY <4>1, <4>2, <3>2 DEF Whole
    <3>4. v \in V
      BY <3>3, <1>7 DEF Kin
    <3>5. v \in NodeName /\ v.start = n /\ v.name = n /\ v.prio = p
      BY <1>1, <3>2, NodeFacts
    <3>6. v # b
      <4>1. Reg(v) = a
        BY <1>1, <3>1, <3>2, RegFacts
      <4> QED BY <4>1
    <3>7. SameRank(v, b)
      BY <3>5, <1>1 DEF SameRank
    <3>8. ~Ahead(v, b) /\ ~Ahead(b, v)
      BY <3>5, <3>7, <1>1, RankOrder
    <3>9. Ranked(V) /\ b \in V
      BY <1>7, <1>10 DEF Shape
    <3> QED BY <1>1, <3>4, <3>5, <3>6, <3>8, <3>9 DEF Ranked
  <2> QED BY <2>4, <2>5, <2>6 DEF Enrolled
<1> QED BY <1>7, <1>9, <1>10

\* The tree of the roots alone.
LEMMA RootsGrown ==
    /\ Grown(Roots.heap, Roots.first, RootsTo(3))
    /\ RegsOf(RootsTo(3)) = {}
<1> DEFINE D == RootsTo(3)
<1>1. \A x : x \in D <=> \E j \in 0 .. 2 : x = Root(j)
  BY DEF RootsTo
<1> HIDE DEF D
<1>2. D \subseteq NodeName /\ \A j \in 0 .. 2 : Root(j) \in D
  BY <1>1, RootFacts
<1>3. Edges(D) = {<<0>>, <<1>>, <<2>>}
  <2>1. \A e \in Edges(D) : \E j \in 0 .. 2 : e = <<j>>
    <3> SUFFICES ASSUME NEW e \in Edges(D) PROVE \E j \in 0 .. 2 : e = <<j>>
      OBVIOUS
    <3>1. PICK y \in D : y.start = e
      BY <1>2, EdgeFacts
    <3>2. PICK j \in 0 .. 2 : y = Root(j)
      BY <1>1
    <3>3. e = <<j>>
      <4>1. j \in Nat
        OBVIOUS
      <4>2. Root(j).start = <<j>>
        BY <4>1, RootFacts
      <4> QED BY <3>1, <3>2, <4>2
    <3> QED BY <3>3
  <2>2. \A j \in 0 .. 2 : <<j>> \in Edges(D)
    BY <1>2, RootFacts DEF Edges
  <2>3. \A j : j \in 0 .. 2 <=> j = 0 \/ j = 1 \/ j = 2
    OBVIOUS
  <2> QED BY <2>1, <2>2, <2>3
<1>4. ASSUME NEW j \in 0 .. 2 PROVE Whole(D, End, Root(j)) /\ Known(Root(j))
  <2> DEFINE x == Root(j)
  <2>1. x \in NodeName /\ x.name = <<j>> /\ x.prio = 127 /\ x.sess = Nil /\ x.start = <<j>>
    BY RootFacts
  <2> HIDE DEF x
  <2>2. EndOf(<<j>>) = <<j + 1>>
    BY RootRegions
  <2>3. EndOf(<<j>>) = End \/ EndOf(<<j>>) \in Edges(D)
    BY <2>2, <1>3 DEF End
  <2>4. <<j>> \in Edges(D)
    BY <1>3
  <2>5. ASSUME NEW e \in Edges(D) PROVE IsPrefix(<<j>>, e) <=> Moved(x, e) \in D
    <3>1. PICK k \in 0 .. 2 : e = <<k>>
      BY <1>3
    <3>2. e \in Name /\ e[1] = k
      BY <3>1, RootRegions
    <3>3. IsPrefix(<<j>>, e) <=> k = j
      BY <3>2, RootRegions
    <3>4. k = j => Moved(x, e) = x
      BY <2>1, <3>1, MovedFacts
    <3>5. ASSUME Moved(x, e) \in D PROVE k = j
      <4>1. PICK l \in 0 .. 2 : Moved(x, e) = Root(l)
        BY <1>1, <3>5
      <4>2. <<j>> = <<l>> /\ <<k>> = <<l>>
        <5>1. Moved(x, e).name = <<j>> /\ Moved(x, e).start = <<k>>
          BY <2>1, <3>1, <3>2, NodeFacts, SMTT(20)
        <5>2. Root(l).name = <<l>> /\ Root(l).start = <<l>>
          BY RootFacts
        <5> QED BY <4>1, <5>1, <5>2
      <4> QED BY <4>2, RootRegions
    <3> QED BY <3>3, <3>4, <3>5, <1>2 DEF x
  <2>6. Whole(D, End, x)
    BY <2>1, <2>3, <2>4, <2>5 DEF Whole
  <2>7. Known(x)
    BY <2>1 DEF Known
  <2> QED BY <2>6, <2>7 DEF x
<1>5. Full(D)
  BY <1>1, <1>2, <1>4 DEF Full
<1>6. RegsOf(D) = {}
  <2> SUFFICES ASSUME NEW r \in RegsOf(D) PROVE FALSE
    OBVIOUS
  <2>1. PICK x \in D : x.sess # Nil
    BY RegFacts
  <2> QED BY <2>1, <1>1, RootFacts
<1> QED BY <1>5, <1>6, RootsAre DEF Grown, End, D

-----------------------------------------------------------------------------
(* Taking registrations away.                                              *)

\* In every slice there is a node of a root.
Floor(T) == \A y \in T : \E w \in T : w.start = y.start /\ w.sess = Nil

LEMMA FullFloor ==
    ASSUME NEW D, D \subseteq NodeName, Full(D), NEW h, Shape(h, D, End)
    PROVE  Floor(D)
<1> SUFFICES ASSUME NEW y \in D PROVE \E w \in D : w.start = y.start /\ w.sess = Nil
  BY DEF Floor
<1> DEFINE s == y.start
           i == s[1]
<1>1. s \in Name /\ s \in Edges(D) /\ Less(s, <<3>>)
  BY NodeFacts, EdgeFacts DEF Shape, Ends, End
<1>2. i \in 0 .. 2
  BY <1>1, RootRegions
<1>3. IsPrefix(<<i>>, s)
  BY <1>1, <1>2, RootRegions
<1>4. Root(i) \in D /\ Root(i).name = <<i>> /\ Root(i).sess = Nil /\ Root(i) \in NodeName
  BY <1>2, RootFacts DEF Full
<1>5. Whole(D, End, Root(i))
  BY <1>4 DEF Full
<1>6. Moved(Root(i), s) \in D
  BY <1>1, <1>3, <1>4, <1>5 DEF Whole
<1>7. Moved(Root(i), s).start = s /\ Moved(Root(i), s).sess = Nil
  BY <1>1, <1>4, NodeFacts
<1> QED BY <1>6, <1>7

\* What is left of D without the registrations Q.
Without(D, Q) == {y \in D : Reg(y) \notin Q}

LEMMA WithoutFull ==
    ASSUME NEW D, D \subseteq NodeName, Full(D), NEW h, Shape(h, D, End),
           NEW Q, \A r \in Q : r.sess # Nil
    PROVE  /\ Full(Without(D, Q))
           /\ RegsOf(Without(D, Q)) = RegsOf(D) \ Q
<1> DEFINE U == Without(D, Q)
<1>1. \A y \in D : y.sess = Nil => y \in U
  BY DEF Without, Reg
<1>2. U \subseteq D
  BY DEF Without
<1>3. Edges(U) = Edges(D)
  <2>1. Edges(U) \subseteq Edges(D)
    BY <1>2 DEF Edges
  <2>2. ASSUME NEW e \in Edges(D) PROVE e \in Edges(U)
    <3>1. PICK y \in D : y.start = e
      BY EdgeFacts
    <3>2. PICK w \in D : w.start = e /\ w.sess = Nil
      BY <3>1, FullFloor DEF Floor
    <3> QED BY <3>2, <1>1 DEF Edges
  <2> QED BY <2>1, <2>2
<1>4. ASSUME NEW x \in U PROVE Whole(U, End, x)
  <2>1. x \in D /\ x \in NodeName /\ Reg(x) \notin Q
    BY DEF Without
  <2>2. Whole(D, End, x)
    BY <2>1 DEF Full
  <2>3. \A e \in Edges(D) : Moved(x, e) \in U <=> Moved(x, e) \in D
    <3> SUFFICES ASSUME NEW e \in Edges(D), Moved(x, e) \in D PROVE Moved(x, e) \in U
      BY <1>2
    <3>1. Reg(Moved(x, e)) = Reg(x)
      BY <2>1, RegFacts, EdgeFacts
    <3> QED BY <2>1, <3>1 DEF Without
  <2> HIDE DEF U
  <2> QED BY <1>3, <2>2, <2>3 DEF Whole
<1>5. Full(U)
  <2>1. \A i \in 0 .. 2 : Root(i) \in U
    BY <1>1, RootFacts DEF Full
  <2> QED BY <1>2, <1>4, <2>1 DEF Full
<1>6. RegsOf(U) = RegsOf(D) \ Q
  <2>1. \A r \in RegsOf(U) : r \in RegsOf(D) \ Q
    <3> SUFFICES ASSUME NEW r \in RegsOf(U) PROVE r \in RegsOf(D) \ Q
      OBVIOUS
    <3>1. PICK x \in U : x.sess # Nil /\ r = Reg(x)
      BY RegFacts
    <3> QED BY <3>1, RegFacts DEF Without
  <2>2. \A r \in RegsOf(D) \ Q : r \in RegsOf(U)
    <3> SUFFICES ASSUME NEW r \in RegsOf(D) \ Q PROVE r \in RegsOf(U)
      OBVIOUS
    <3>1. PICK x \in D : x.sess # Nil /\ r = Reg(x)
      BY RegFacts
    <3>2. x \in U
      BY <3>1 DEF Without
    <3> QED BY <3>1, <3>2, RegFacts
  <2> QED BY <2>1, <2>2
<1> QED BY <1>5, <1>6

\* subtreeUnload of a tree.
LEMMA UnloadPlanted ==
    ASSUME NEW t, NEW T, NEW z, Planted(t, T, z), NEW x, NEW above,
           Leaves(t.heap, T, x, above),
           NEW r, r = Unloaded(t, x, above), NEW U, U = T \ {x}
    PROVE  /\ Planted(r, U, z)
           /\ \A y : IsTop(T, y) /\ y # x => IsTop(U, y)
<1> DEFINE h == t.heap
           f == t.first
<1>1. /\ t = [heap |-> h, first |-> f, ok |-> TRUE]
      /\ Shape(h, T, z) /\ DOMAIN h = T
  BY DEF Planted
<1>2. IsTop(T, f) /\ f.start = <<0>>
  <2>1. T # {}
    BY DEF Leaves
  <2> QED BY <2>1 DEF Planted, Starts
<1> HIDE DEF h, f
<1>3. PICK ok : ok = TRUE /\ t = [heap |-> h, first |-> f, ok |-> ok]
  BY <1>1
<1>4. Leaves(h, T, x, above)
  BY DEF h
<1> DEFINE q == Unloaded([heap |-> h, first |-> f, ok |-> ok], x, above)
<1>5. /\ Left(q, U, z, ok)
      /\ \A y : IsTop(T, y) /\ y # x => IsTop(U, y)
  <2>1. q = Unloaded([heap |-> h, first |-> f, ok |-> ok], x, above)
    OBVIOUS
  <2> HIDE DEF q
  <2> QED BY <1>1, <1>2, <1>4, <2>1, UnloadedIs, SMTT(20)
<1>6. q = r
  BY <1>3
<1> HIDE DEF q
<1>7. /\ r = [heap |-> r.heap, first |-> r.first, ok |-> ok]
      /\ Shape(r.heap, U, z) /\ DOMAIN r.heap = U
      /\ IsTop(U, r.first) /\ r.first.start = <<0>>
  BY <1>5, <1>6 DEF Left
<1>8. r = [heap |-> r.heap, first |-> r.first, ok |-> TRUE]
  BY ONLY <1>3, <1>7
<1>9. U # {}
  BY <1>7 DEF IsTop
<1> QED BY <1>5, <1>7, <1>8, <1>9 DEF Planted, Starts

-----------------------------------------------------------------------------
(* Closing sessions.                                                       *)

\* Behind the nodes that c lists the rest of the slice follows.
Listed(c, x, T) ==
    /\ Len(c) \in Nat
    /\ \A j \in 1 .. Len(c) : c[j] \in NodeName /\ c[j].start = x.start
    /\ \A j \in 1 .. Len(c) : \A i \in 1 .. j - 1 : Ahead(c[i], c[j])
    /\ \A y \in T : y.start = x.start => \E j \in 1 .. Len(c) : y = c[j]

\* The last of the first k nodes of c that is still in T.
LastKept(c, k, T, above) ==
    IF above = Nil THEN \A j \in 1 .. k : c[j] \notin T
    ELSE \E a \in 1 .. k : above = c[a] /\ c[a] \in T /\ \A j \in a + 1 .. k : c[j] \notin T

LEMMA KeptLeaves ==
    ASSUME NEW h, NEW T, NEW z, Shape(h, T, z), DOMAIN h = T, Floor(T), NEW c, NEW x,
           Listed(c, x, T), NEW k \in 1 .. Len(c), c[k] \in T, c[k].sess # Nil, NEW above,
           LastKept(c, k - 1, T, above)
    PROVE  Leaves(h, T, c[k], above)
<1> DEFINE y == c[k]
<1>1. /\ Len(c) \in Nat /\ k \in Nat /\ T \subseteq NodeName
      /\ \A j \in 1 .. Len(c) : c[j] \in NodeName /\ c[j].start = x.start
      /\ \A j \in 1 .. Len(c) : \A i \in 1 .. j - 1 : Ahead(c[i], c[j])
      /\ \A w \in T : w.start = x.start => \E j \in 1 .. Len(c) : w = c[j]
  <2>1. T \subseteq NodeName
    BY NilOut DEF Shape
  <2>2. /\ Len(c) \in Nat
        /\ \A j \in 1 .. Len(c) : c[j] \in NodeName /\ c[j].start = x.start
        /\ \A j \in 1 .. Len(c) : \A i \in 1 .. j - 1 : Ahead(c[i], c[j])
        /\ \A w \in T : w.start = x.start => \E j \in 1 .. Len(c) : w = c[j]
    BY DEF Listed
  <2> QED BY <2>1, <2>2
<1>2. y \in T /\ y \in NodeName /\ y.start = x.start
  BY <1>1
<1>3. \A j \in 1 .. Len(c) : \A i \in 1 .. Len(c) : i < j => Ahead(c[i], c[j])
  BY <1>1
<1> HIDE DEF y
<1>4. \E w \in T : w # y /\ w.start = y.start
  BY <1>2 DEF Floor, y
<1>5. CASE above = Nil
  <2>1. \A j \in 1 .. k - 1 : c[j] \notin T
    BY <1>5 DEF LastKept
  <2>2. ASSUME NEW w \in T, w.start = y.start PROVE w = y \/ Ahead(y, w)
    <3>1. PICK j \in 1 .. Len(c) : w = c[j]
      BY <1>1, <1>2, <2>2
    <3>2. ~(j \in 1 .. k - 1)
      BY <2>1, <2>2, <3>1
    <3>3. j = k \/ k < j
      BY <3>2, <1>1
    <3> QED BY <3>1, <3>3, <1>3 DEF y
  <2>3. IsTop(T, y)
    BY <1>2, <2>2 DEF IsTop
  <2> QED BY <1>2, <1>4, <1>5, <2>3 DEF Leaves, y
<1>6. CASE above # Nil
  <2>1. PICK a \in 1 .. k - 1 : /\ above = c[a] /\ c[a] \in T
                                 /\ \A j \in a + 1 .. k - 1 : c[j] \notin T
    BY <1>6 DEF LastKept
  <2> DEFINE d == h[above].children
  <2>2. above \in T /\ above \in NodeName /\ above.start = x.start /\ Ahead(above, y)
        /\ a \in Nat /\ a < k /\ a \in 1 .. Len(c)
    BY <1>1, <1>3, <2>1 DEF y
  <2>3. Over(above, y)
    BY <1>2, <2>2 DEF Over
  <2>4. IsBelow(T, above, d)
    BY <1>2, <2>2, <2>3 DEF Shape, Belows
  <2> HIDE DEF d
  <2>5. /\ d \in T /\ d.start = x.start /\ Ahead(above, d) /\ d \in NodeName
        /\ y = d \/ Ahead(d, y)
    BY <1>1, <1>2, <2>2, <2>3, <2>4 DEF IsBelow, Over
  <2>6. PICK j \in 1 .. Len(c) : d = c[j]
    BY <1>1, <2>5
  <2>7. ~(j < a) /\ j # a
    <3>1. j < a => Ahead(d, above)
      BY <1>3, <2>1, <2>2, <2>6
    <3>2. j = a => d = above
      BY <2>1, <2>6
    <3> QED BY <2>2, <2>5, <3>1, <3>2, AheadOrder
  <2>8. ~(j \in a + 1 .. k - 1)
    BY <2>1, <2>5, <2>6
  <2>9. j \geq k
    BY <1>1, <2>2, <2>7, <2>8
  <2>10. ~(k < j)
    <3>1. k < j => Ahead(y, d)
      BY <1>3, <2>6 DEF y
    <3> QED BY <1>2, <2>5, <3>1, AheadOrder
  <2>11. j = k
    BY <2>9, <2>10, <1>1
  <2>12. d = y
    BY <2>6, <2>11 DEF y
  <2> QED BY <1>2, <1>4, <1>6, <2>2, <2>12 DEF Leaves, d, y
<1> QED BY <1>5, <1>6

CloseJob(t, c, S, N) ==
    CHOOSE g : g = [i \in 0 .. N |-> IF i = 0 THEN [tree |-> t, above |-> Nil]
                                     ELSE CloseNode(g[i - 1], c[i], S)]

LEMMA CloseJobIs ==
    ASSUME NEW t, NEW c, NEW S, NEW N \in Nat
    PROVE  /\ CloseJob(t, c, S, N)[0] = [tree |-> t, above |-> Nil]
           /\ \A i \in 1 .. N :
                 CloseJob(t, c, S, N)[i] = CloseNode(CloseJob(t, c, S, N)[i - 1], c[i], S)
<1> DEFINE s == [tree |-> t, above |-> Nil]
           Def(g, k) == g = [i \in 0 .. k |-> IF i = 0 THEN s ELSE CloseNode(g[i - 1], c[i], S)]
           Bad == {k \in Nat : ~\E g : Def(g, k)}
<1> HIDE DEF s
<1>1. Bad = {}
  <2> SUFFICES ASSUME Bad # {} PROVE FALSE
    OBVIOUS
  <2>1. PICK k \in Bad : \A l \in Bad : k \leq l
    <3>1. Bad \in SUBSET Nat
      OBVIOUS
    <3> HIDE DEF Bad
    <3> QED BY <3>1, LeastNumber
  <2>2. k # 0
    <3> DEFINE g == [i \in 0 .. 0 |-> s]
    <3>1. Def(g, 0)
      OBVIOUS
    <3> QED BY <3>1
  <2>3. PICK g : Def(g, k - 1)
    <3>1. k - 1 \in Nat /\ ~(k \leq k - 1)
      BY <2>2
    <3> QED BY <3>1, <2>1
  <2> DEFINE f == [i \in 0 .. k |-> IF i = k THEN CloseNode(g[k - 1], c[k], S) ELSE g[i]]
  <2>4. \A i \in 0 .. k : f[i] = IF i = 0 THEN s ELSE CloseNode(f[i - 1], c[i], S)
    <3> TAKE i \in 0 .. k
    <3>1. CASE i = k
      <4>1. k - 1 \in 0 .. k /\ k - 1 # k /\ k \in 0 .. k
        BY <2>2
      <4> QED BY <3>1, <4>1, <2>2
    <3>2. CASE i # k
      <4>1. i \in 0 .. k - 1 /\ (i # 0 => i - 1 \in 0 .. k /\ i - 1 # k)
        BY <3>2
      <4>2. g[i] = IF i = 0 THEN s ELSE CloseNode(g[i - 1], c[i], S)
        BY <4>1, <2>3
      <4> QED BY <3>2, <4>1, <4>2
    <3> QED BY <3>1, <3>2
  <2>5. Def(f, k)
    BY <2>4
  <2> QED BY <2>5
<1>2. \E g : Def(g, N)
  BY <1>1
<1> DEFINE job == CHOOSE g : Def(g, N)
<1>3. Def(job, N)
  BY <1>2
<1>4. CloseJob(t, c, S, N) = job
  BY DEF CloseJob, s
<1> HIDE DEF job
<1>5. 0 \in 0 .. N /\ \A i \in 1 .. N : i \in 0 .. N /\ i # 0
  OBVIOUS
<1> QED BY <1>3, <1>4, <1>5 DEF s

LEMMA CloseOf ==
    ASSUME NEW t, NEW x, NEW S, NEW c, c = Chain(t.heap, x), NEW N, N = Len(c)
    PROVE  CloseSlice(t, x, S) = CloseJob(t, c, S, N)[N].tree
BY DEF CloseSlice, CloseJob

\* T without the nodes of the first k of c that belong to S.
Kept(T, c, k, S) == {y \in T : ~(y.sess \in S /\ \E j \in 1 .. k : y = c[j])}

LEMMA ChainListed ==
    ASSUME NEW h, NEW T, NEW z, Shape(h, T, z), NEW x, IsTop(T, x), NEW c, c = Chain(h, x)
    PROVE  /\ Listed(c, x, T) /\ Len(c) > 0
           /\ \A j \in 1 .. Len(c) : c[j] \in T
           /\ c[1] = x /\ \A j \in 1 .. Len(c) - 1 : h[c[j]].children = c[j + 1]
<1>1. IsChain(h, Level(T, x), c) /\ c[1] = x
  BY ShapeChained, ChainIs
<1>2. T \subseteq NodeName
  BY NilOut DEF Shape
<1>3. /\ ToSet(c) = Level(T, x) /\ Len(c) \in Nat /\ Len(c) > 0 /\ DOMAIN c = 1 .. Len(c)
      /\ \A i \in 1 .. Len(c) : c[i] \in Level(T, x)
      /\ \A i \in 1 .. Len(c) - 1 : c[i + 1] = h[c[i]].children
      /\ \A j \in 1 .. Len(c) : \A i \in 1 .. j - 1 : Over(c[i], c[j])
  BY <1>1 DEF IsChain
<1>4. \A j \in 1 .. Len(c) : c[j] \in T /\ c[j] \in NodeName /\ c[j].start = x.start
  BY <1>2, <1>3 DEF Level
<1>5. \A j \in 1 .. Len(c) : \A i \in 1 .. j - 1 : Ahead(c[i], c[j])
  BY <1>3 DEF Over
<1>6. \A y \in T : y.start = x.start => \E j \in 1 .. Len(c) : y = c[j]
  <2> SUFFICES ASSUME NEW y \in T, y.start = x.start PROVE \E j \in 1 .. Len(c) : y = c[j]
    OBVIOUS
  <2>1. y \in ToSet(c)
    BY <1>3 DEF Level
  <2> QED BY <2>1, <1>3 DEF ToSet
<1> QED BY <1>1, <1>3, <1>4, <1>5, <1>6 DEF Listed

\* T without the nodes of S in the slice of x.
Vacated(T, x, S) == {y \in T : ~(y.sess \in S /\ y.start = x.start)}

\* The nodes of one slice that belong to S leave it.
LEMMA CloseSliceIs ==
    ASSUME NEW t, NEW T, NEW z, Planted(t, T, z), Floor(T), NEW x, IsTop(T, x),
           NEW S \in SUBSET Session, NEW r, r = CloseSlice(t, x, S),
           NEW U, U = Vacated(T, x, S)
    PROVE  /\ Planted(r, U, z)
           /\ \A y : IsTop(T, y) /\ y.start # x.start => IsTop(U, y)
<1> DEFINE c == Chain(t.heap, x)
           N == Len(c)
           job == CloseJob(t, c, S, N)
           W(k) == Kept(T, c, k, S)
           Inv(k) ==
               /\ Planted(job[k].tree, W(k), z)
               /\ job[k] = [tree |-> job[k].tree, above |-> job[k].above]
               /\ LastKept(c, k, W(k), job[k].above)
               /\ \A y : IsTop(T, y) /\ y.start # x.start => IsTop(W(k), y)
<1>1. Shape(t.heap, T, z) /\ Nil \notin S
  BY TreeAssumption DEF Planted
<1>2. Listed(c, x, T) /\ \A j \in 1 .. N : c[j] \in T
  BY <1>1, ChainListed
<1>3. r = job[N].tree
  BY CloseOf, SMTT(20)
<1> HIDE DEF c
<1>4. N \in Nat
  BY <1>2 DEF Listed
<1>5. /\ job[0] = [tree |-> t, above |-> Nil]
      /\ \A k \in 1 .. N : job[k] = CloseNode(job[k - 1], c[k], S)
  BY <1>4, CloseJobIs
<1> HIDE DEF job
<1>6. /\ \A y \in T : y.start = x.start => \E j \in 1 .. N : y = c[j]
      /\ \A j \in 1 .. N : c[j] \in NodeName /\ c[j].start = x.start
      /\ \A j \in 1 .. N : \A i \in 1 .. j - 1 : Ahead(c[i], c[j])
  BY <1>2 DEF Listed
<1>7. Inv(0)
  <2>1. W(0) = T
    BY DEF Kept
  <2>2. job[0].tree = t /\ job[0].above = Nil
    BY <1>5
  <2>3. LastKept(c, 0, W(0), Nil)
    BY DEF LastKept
  <2> QED BY <1>5, <2>1, <2>2, <2>3
<1>8. ASSUME NEW k \in 1 .. N, Inv(k - 1) PROVE Inv(k)
  <2> DEFINE q == job[k - 1]
             r1 == job[k]
             V == W(k - 1)
             y == c[k]
  <2>0. k \in Nat /\ k - 1 \in Nat /\ k \in 1 .. N
    BY <1>4
  <2>1. r1 = CloseNode(q, y, S)
    BY <1>5
  <2>2. /\ Planted(q.tree, V, z)
        /\ q = [tree |-> q.tree, above |-> q.above]
        /\ LastKept(c, k - 1, V, q.above)
        /\ \A w : IsTop(T, w) /\ w.start # x.start => IsTop(V, w)
    BY <1>8
  <2>3. y \in T /\ \A j \in 1 .. k - 1 : c[j] # y
    <3>1. \A j \in 1 .. k - 1 : Ahead(c[j], y)
      BY <1>6
    <3> QED BY <1>2, <1>6, <3>1, AheadOrder
  <2>4. y \in V
    BY <2>3 DEF Kept
  <2>5. V \subseteq T
    BY DEF Kept
  <2>6. W(k) = IF y.sess \in S THEN V \ {y} ELSE V
    <3>1. \A j : j \in 1 .. k <=> j \in 1 .. k - 1 \/ j = k
      BY <2>0
    <3> QED BY <3>1, <2>0 DEF Kept
  <2>7. CASE y.sess \in S
    <3> DEFINE u == Unloaded(q.tree, y, q.above)
    <3>1. Floor(V)
      <4> SUFFICES ASSUME NEW w \in V PROVE \E v \in V : v.start = w.start /\ v.sess = Nil
        BY DEF Floor
      <4>1. PICK v \in T : v.start = w.start /\ v.sess = Nil
        BY <2>5 DEF Floor
      <4>2. v \in V
        BY <4>1, <1>1 DEF Kept
      <4> QED BY <4>1, <4>2
    <3>2. Shape(q.tree.heap, V, z) /\ DOMAIN q.tree.heap = V
      BY <2>2 DEF Planted
    <3>3. Listed(c, x, V)
      BY <1>4, <1>6, <2>5 DEF Listed
    <3> HIDE DEF V, q, y, r1
    <3>4. Leaves(q.tree.heap, V, y, q.above)
      <4>1. y \in V /\ y.sess # Nil
        BY <1>1, <2>4, <2>7
      <4> QED BY <4>1, <2>0, <2>2, <3>1, <3>2, <3>3, KeptLeaves DEF y
    <3>5. /\ Planted(u, V \ {y}, z)
          /\ \A w : IsTop(V, w) /\ w # y => IsTop(V \ {y}, w)
      <4> DEFINE X == V \ {y}
      <4> HIDE DEF X, u
      <4>1. u = Unloaded(q.tree, y, q.above) /\ X = V \ {y}
        BY DEF X, u
      <4>2. Planted(u, X, z) /\ \A w : IsTop(V, w) /\ w # y => IsTop(X, w)
        <5>1. PICK qt, qa : qt = q.tree /\ qa = q.above
          OBVIOUS
        <5>2. Planted(qt, V, z) /\ Leaves(qt.heap, V, y, qa) /\ u = Unloaded(qt, y, qa)
          BY <2>2, <3>4, <4>1, <5>1
        <5> QED BY <4>1, <5>2, UnloadPlanted
      <4> QED BY <4>2 DEF X
    <3>6. r1 = [q EXCEPT !.tree = u]
      BY <2>1, <2>7 DEF CloseNode
    <3> HIDE DEF u
    <3>7. r1 = [tree |-> u, above |-> q.above]
      BY ONLY <2>2, <3>6
    <3>8. r1.tree = u /\ r1.above = q.above /\ r1 = [tree |-> r1.tree, above |-> r1.above]
      BY ONLY <3>7
    <3>9. W(k) = V \ {y}
      BY <2>6, <2>7
    <3>10. LastKept(c, k, W(k), r1.above)
      <4>1. \A j \in 1 .. k : j = k \/ j \in 1 .. k - 1
        BY <2>0
      <4>2. c[k] \notin W(k)
        BY <3>9 DEF y
      <4>3. CASE q.above = Nil
        BY <2>2, <3>8, <3>9, <4>1, <4>2, <4>3 DEF LastKept
      <4>4. CASE q.above # Nil
        <5>1. PICK a \in 1 .. k - 1 : /\ q.above = c[a] /\ c[a] \in V
                                      /\ \A j \in a + 1 .. k - 1 : c[j] \notin V
          BY <2>2, <4>4 DEF LastKept
        <5>2. c[a] # y
          BY <2>3, <5>1
        <5>3. a \in 1 .. k /\ \A j \in a + 1 .. k : j = k \/ j \in a + 1 .. k - 1
          BY <2>0, <5>1
        <5>4. \A j \in a + 1 .. k : c[j] \notin W(k)
          BY <3>9, <4>2, <5>1, <5>3
        <5>5. c[a] \in W(k)
          BY <3>9, <5>1, <5>2
        <5> QED BY <3>8, <4>4, <5>1, <5>3, <5>4, <5>5 DEF LastKept
      <4> QED BY <4>3, <4>4
    <3>11. \A w : IsTop(T, w) /\ w.start # x.start => IsTop(W(k), w)
      <4>1. y.start = x.start
        BY <1>6 DEF y
      <4> QED BY <2>2, <3>5, <3>9, <4>1
    <3>12. Planted(r1.tree, W(k), z)
      BY <3>5, <3>8, <3>9
    <3> HIDE DEF W
    <3> QED BY <3>8, <3>10, <3>11, <3>12 DEF r1
  <2>8. CASE y.sess \notin S
    <3> HIDE DEF V, q, y, r1
    <3>1. r1 = [q EXCEPT !.above = y]
      BY <2>1, <2>8 DEF CloseNode
    <3>2. r1 = [tree |-> q.tree, above |-> y]
      BY ONLY <2>2, <3>1
    <3>3. r1.tree = q.tree /\ r1.above = y /\ r1 = [tree |-> r1.tree, above |-> r1.above]
      BY ONLY <3>2
    <3>4. W(k) = V
      BY <2>6, <2>8
    <3>5. LastKept(c, k, W(k), r1.above)
      <4>1. y # Nil
        BY <1>6, NodeFacts DEF y
      <4>2. k \in 1 .. k /\ \A j \in k + 1 .. k : FALSE
        BY <2>0
      <4>3. r1.above = c[k] /\ c[k] \in W(k)
        BY <3>3, <3>4, <2>4 DEF y
      <4> QED BY <3>3, <4>1, <4>2, <4>3 DEF LastKept
    <3>6. Planted(r1.tree, W(k), z) /\ \A w : IsTop(T, w) /\ w.start # x.start => IsTop(W(k), w)
      BY <2>2, <3>3, <3>4
    <3> HIDE DEF W
    <3> QED BY <3>3, <3>5, <3>6 DEF r1
  <2> QED BY <2>7, <2>8
<1>9. Inv(N)
  <2> DEFINE Bad == {i \in 0 .. N : ~Inv(i)}
  <2> SUFFICES ASSUME Bad # {} PROVE FALSE
    BY <1>4
  <2> HIDE DEF Inv
  <2>1. Bad \in SUBSET Nat
    BY <1>4
  <2>2. PICK k \in Bad : \A l \in Bad : k \leq l
    BY <2>1, LeastNumber
  <2>3. k # 0
    BY <1>7
  <2>4. k \in 1 .. N /\ k - 1 \in 0 .. N /\ ~(k \leq k - 1)
    BY <2>3, <1>4
  <2>5. Inv(k - 1)
    BY <2>2, <2>4
  <2> QED BY <2>4, <2>5, <1>8
<1>10. W(N) = U
  <2>1. \A w \in T : w.start = x.start <=> \E j \in 1 .. N : w = c[j]
    BY <1>6
  <2> QED BY <2>1 DEF Kept, Vacated
<1> HIDE DEF W
<1> QED BY <1>3, <1>9, <1>10

CloseTree(t, list, S, N) ==
    CHOOSE g : g = [i \in 0 .. N |-> IF i = 0 THEN t
                                     ELSE CloseSlice(g[i - 1], list[i], S)]

LEMMA CloseTreeIs ==
    ASSUME NEW t, NEW list, NEW S, NEW N \in Nat
    PROVE  /\ CloseTree(t, list, S, N)[0] = t
           /\ \A i \in 1 .. N :
                 CloseTree(t, list, S, N)[i]
                    = CloseSlice(CloseTree(t, list, S, N)[i - 1], list[i], S)
<1> DEFINE s == t
           Def(g, k) == g = [i \in 0 .. k |-> IF i = 0 THEN s ELSE CloseSlice(g[i - 1], list[i], S)]
           Bad == {k \in Nat : ~\E g : Def(g, k)}
<1> HIDE DEF s
<1>1. Bad = {}
  <2> SUFFICES ASSUME Bad # {} PROVE FALSE
    OBVIOUS
  <2>1. PICK k \in Bad : \A l \in Bad : k \leq l
    <3>1. Bad \in SUBSET Nat
      OBVIOUS
    <3> HIDE DEF Bad
    <3> QED BY <3>1, LeastNumber
  <2>2. k # 0
    <3> DEFINE g == [i \in 0 .. 0 |-> s]
    <3>1. Def(g, 0)
      OBVIOUS
    <3> QED BY <3>1
  <2>3. PICK g : Def(g, k - 1)
    <3>1. k - 1 \in Nat /\ ~(k \leq k - 1)
      BY <2>2
    <3> QED BY <3>1, <2>1
  <2> DEFINE f == [i \in 0 .. k |-> IF i = k THEN CloseSlice(g[k - 1], list[k], S) ELSE g[i]]
  <2>4. \A i \in 0 .. k : f[i] = IF i = 0 THEN s ELSE CloseSlice(f[i - 1], list[i], S)
    <3> TAKE i \in 0 .. k
    <3>1. CASE i = k
      <4>1. k - 1 \in 0 .. k /\ k - 1 # k /\ k \in 0 .. k
        BY <2>2
      <4> QED BY <3>1, <4>1, <2>2
    <3>2. CASE i # k
      <4>1. i \in 0 .. k - 1 /\ (i # 0 => i - 1 \in 0 .. k /\ i - 1 # k)
        BY <3>2
      <4>2. g[i] = IF i = 0 THEN s ELSE CloseSlice(g[i - 1], list[i], S)
        BY <4>1, <2>3
      <4> QED BY <3>2, <4>1, <4>2
    <3> QED BY <3>1, <3>2
  <2>5. Def(f, k)
    BY <2>4
  <2> QED BY <2>5
<1>2. \E g : Def(g, N)
  BY <1>1
<1> DEFINE job == CHOOSE g : Def(g, N)
<1>3. Def(job, N)
  BY <1>2
<1>4. CloseTree(t, list, S, N) = job
  BY DEF CloseTree, s
<1> HIDE DEF job
<1>5. 0 \in 0 .. N /\ \A i \in 1 .. N : i \in 0 .. N /\ i # 0
  OBVIOUS
<1> QED BY <1>3, <1>4, <1>5 DEF s

LEMMA CloseFromOf ==
    ASSUME NEW t, NEW x, NEW S, NEW s, s = Heads(t.heap, x), NEW N, N = Len(s)
    PROVE  CloseFrom(t, x, S) = CloseTree(t, s, S, N)[N]
BY DEF CloseFrom, CloseTree

LEMMA GrownPlanted ==
    ASSUME NEW h, NEW f, NEW D, Grown(h, f, D), NEW t, t = [heap |-> h, first |-> f, ok |-> TRUE]
    PROVE  Planted(t, D, End) /\ t.heap = h /\ t.first = f
<1>1. t.heap = h /\ t.first = f
  OBVIOUS
<1>2. D # {}
  BY DEF Grown, IsTop
<1> QED BY <1>1, <1>2 DEF Planted, Grown, Starts

LEMMA PlantedGrown ==
    ASSUME NEW t, NEW D, Planted(t, D, End), Full(D)
    PROVE  Grown(t.heap, t.first, D)
<1>1. D # {}
  BY DEF Full
<1> QED BY <1>1 DEF Planted, Grown, Starts

\* T without the nodes of S in the slices of the first k of s.
Emptied(T, s, k, S) ==
    {y \in T : ~(y.sess \in S /\ \E j \in 1 .. k : y.start = s[j].start)}

LEMMA CloseFromIs ==
    ASSUME NEW h, NEW f, NEW D, Grown(h, f, D), NEW S \in SUBSET Session,
           NEW t, t = [heap |-> h, first |-> f, ok |-> TRUE],
           NEW r, r = CloseFrom(t, f, S), NEW U, U = {y \in D : y.sess \notin S}
    PROVE  /\ Grown(r.heap, r.first, U)
           /\ RegsOf(U) = {g \in RegsOf(D) : g.sess \notin S}
<1> DEFINE s == Heads(h, f)
           N == Len(s)
           tree == CloseTree(t, s, S, N)
           W(k) == Emptied(D, s, k, S)
           Inv(k) == Planted(tree[k], W(k), End) /\ \A j \in k + 1 .. N : IsTop(W(k), s[j])
<1>1. Shape(h, D, End) /\ IsTop(D, f) /\ f.start = <<0>> /\ Full(D) /\ Nil \notin S
  BY TreeAssumption DEF Grown
<1>2. IsHeads(h, D, f, s)
  BY <1>1, HeadsAre
<1>3. D \subseteq NodeName /\ Floor(D)
  BY <1>1, NilOut, FullFloor DEF Shape
<1>4. Planted(t, D, End) /\ t.heap = h /\ t.first = f
  BY GrownPlanted
<1>5. r = tree[N]
  BY <1>4, CloseFromOf
<1> HIDE DEF s
<1>6. /\ N \in Nat
      /\ \A i \in 1 .. N : IsTop(D, s[i]) /\ s[i] \in D
      /\ \A j \in 1 .. N : \A i \in 1 .. j - 1 : Less(s[i].start, s[j].start)
      /\ \A y \in D : ~Less(y.start, f.start) => \E i \in 1 .. N : s[i].start = y.start
  BY <1>2 DEF IsHeads, IsTop
<1>7. \A y \in D : \E i \in 1 .. N : s[i].start = y.start
  <2>1. \A y \in D : ~Less(y.start, f.start)
    BY <1>1, <1>3, RootNames, NodeFacts
  <2> QED BY <2>1, <1>6
<1>8. /\ tree[0] = t
      /\ \A k \in 1 .. N : tree[k] = CloseSlice(tree[k - 1], s[k], S)
  BY <1>6, CloseTreeIs
<1> HIDE DEF tree
<1>9. Inv(0)
  <2>1. W(0) = D
    BY DEF Emptied
  <2> QED BY <1>4, <1>6, <1>8, <2>1
<1>10. ASSUME NEW k \in 1 .. N, Inv(k - 1) PROVE Inv(k)
  <2> DEFINE q == tree[k - 1]
             u == tree[k]
             V == W(k - 1)
             x == s[k]
  <2>0. k \in Nat /\ k - 1 \in Nat /\ k \in 1 .. N
    BY <1>6
  <2>1. u = CloseSlice(q, x, S)
    BY <1>8
  <2>2. Planted(q, V, End) /\ IsTop(V, x) /\ \A j \in k + 1 .. N : IsTop(V, s[j])
    BY <1>6, <1>10
  <2>3. Floor(V)
    <3> SUFFICES ASSUME NEW w \in V PROVE \E v \in V : v.start = w.start /\ v.sess = Nil
      BY DEF Floor
    <3>1. PICK v \in D : v.start = w.start /\ v.sess = Nil
      BY <1>3 DEF Floor, Emptied
    <3>2. v \in V
      BY <3>1, <1>1 DEF Emptied
    <3> QED BY <3>1, <3>2
  <2>4. W(k) = {y \in V : ~(y.sess \in S /\ y.start = x.start)}
    <3>1. \A j : j \in 1 .. k <=> j \in 1 .. k - 1 \/ j = k
      BY <2>0
    <3> QED BY <3>1, <2>0 DEF Emptied
  <2>5. \A j \in k + 1 .. N : s[j].start # x.start
    <3> SUFFICES ASSUME NEW j \in k + 1 .. N PROVE s[j].start # x.start
      OBVIOUS
    <3>1. Less(x.start, s[j].start)
      BY <1>6, <2>0
    <3>2. x.start \in Name
      BY <1>3, <1>6, <2>0, NodeFacts
    <3> QED BY <3>1, <3>2, NameOrder
  <2> HIDE DEF q, u, V, x, W
  <2>6. Planted(u, W(k), End) /\ \A y : IsTop(V, y) /\ y.start # x.start => IsTop(W(k), y)
    <3>1. PICK Y : Y = W(k)
      OBVIOUS
    <3>2. Y = Vacated(V, x, S)
      BY <2>4, <3>1 DEF Vacated
    <3>3. Planted(u, Y, End) /\ \A y : IsTop(V, y) /\ y.start # x.start => IsTop(Y, y)
      BY <2>1, <2>2, <2>3, <3>2, CloseSliceIs
    <3> QED BY <3>1, <3>3
  <2>7. \A j \in k + 1 .. N : IsTop(W(k), s[j])
    BY <2>2, <2>5, <2>6
  <2> QED BY <2>6, <2>7 DEF u
<1>11. Inv(N)
  <2> DEFINE Bad == {i \in 0 .. N : ~Inv(i)}
  <2> SUFFICES ASSUME Bad # {} PROVE FALSE
    BY <1>6
  <2> HIDE DEF Inv
  <2>1. Bad \in SUBSET Nat
    BY <1>6
  <2>2. PICK k \in Bad : \A l \in Bad : k \leq l
    BY <2>1, LeastNumber
  <2>3. k # 0
    BY <1>9
  <2>4. k \in 1 .. N /\ k - 1 \in 0 .. N /\ ~(k \leq k - 1)
    BY <2>3, <1>6
  <2>5. Inv(k - 1)
    BY <2>2, <2>4
  <2> QED BY <2>4, <2>5, <1>10
<1>12. W(N) = U
  BY <1>7 DEF Emptied
<1>13. Planted(r, U, End)
  BY <1>5, <1>11, <1>12
<1> DEFINE Q == {g \in RegsOf(D) : g.sess \in S}
<1>14. U = Without(D, Q)
  <2>1. \A y \in D : Reg(y) \in Q <=> y.sess \in S
    <3> SUFFICES ASSUME NEW y \in D PROVE Reg(y) \in Q <=> y.sess \in S
      OBVIOUS
    <3>1. Reg(y).sess = y.sess
      BY DEF Reg
    <3>2. y.sess \in S => Reg(y) \in RegsOf(D)
      BY <1>1, RegFacts
    <3> QED BY <3>1, <3>2
  <2> QED BY <2>1 DEF Without
<1>15. \A g \in Q : g.sess # Nil
  BY <1>1
<1>16. Full(Without(D, Q)) /\ RegsOf(Without(D, Q)) = RegsOf(D) \ Q
  <2> HIDE DEF Q
  <2> QED BY <1>1, <1>3, <1>15, WithoutFull
<1>17. RegsOf(U) = {g \in RegsOf(D) : g.sess \notin S}
  BY <1>14, <1>16
<1>18. Full(U)
  BY <1>14, <1>16
<1> QED BY <1>13, <1>17, <1>18, PlantedGrown

-----------------------------------------------------------------------------
(* Unregistering a region.                                                 *)

Named(y, n, p) == y.name = n /\ y.prio = p

LEMMA PlaceOfIs ==
    ASSUME NEW h, NEW T, NEW z, Shape(h, T, z), NEW x, IsTop(T, x), NEW n, NEW p,
           NEW c, c = Chain(h, x), NEW i, i = PlaceOf(h, x, n, p)
    PROVE  IF \E y \in T : y.start = x.start /\ Named(y, n, p)
           THEN i \in 1 .. Len(c) /\ Named(c[i], n, p) /\ i # 0
           ELSE i = 0
<1>1. IsChain(h, Level(T, x), c)
  BY ShapeChained, ChainIs
<1>2. /\ ToSet(c) = Level(T, x) /\ Len(c) \in Nat /\ DOMAIN c = 1 .. Len(c)
      /\ \A j \in 1 .. Len(c) : c[j] \in Level(T, x)
  BY <1>1 DEF IsChain
<1> DEFINE P == {j \in DOMAIN c : c[j].name = n /\ c[j].prio = p}
<1>3. i = IF P = {} THEN 0 ELSE CHOOSE j \in P : \A k \in P : j \leq k
  BY DEF PlaceOf
<1>4. CASE P = {}
  <2>1. i = 0
    BY <1>3, <1>4
  <2>2. ASSUME NEW y \in T, y.start = x.start, Named(y, n, p) PROVE FALSE
    <3>1. y \in ToSet(c)
      BY <1>2, <2>2 DEF Level
    <3>2. PICK j \in DOMAIN c : y = c[j]
      BY <3>1 DEF ToSet
    <3>3. j \in P
      BY <2>2, <3>2 DEF Named
    <3> QED BY <3>3, <1>4
  <2> QED BY <2>1, <2>2
<1>5. CASE P # {}
  <2>1. P \in SUBSET Nat
    BY <1>2
  <2>2. i \in P
    <3> HIDE DEF P
    <3>1. \E j \in P : \A k \in P : j \leq k
      BY <2>1, <1>5, LeastNumber
    <3> QED BY <3>1, <1>3, <1>5
  <2>3. i \in 1 .. Len(c) /\ Named(c[i], n, p)
    BY <2>2, <1>2 DEF Named
  <2>4. c[i] \in T /\ c[i].start = x.start
    BY <2>3, <1>2 DEF Level
  <2> QED BY <2>3, <2>4
<1> QED BY <1>4, <1>5

\* T without the registration of n and p in the slice of x.
Vacant(T, x, n, p) == {y \in T : ~(Named(y, n, p) /\ y.start = x.start)}

LEMMA UnloadAtIs ==
    ASSUME NEW t, NEW T, NEW z, Planted(t, T, z), Floor(T), NEW x, IsTop(T, x),
           NEW n, NEW p, \A y \in T : Named(y, n, p) => y.sess # Nil,
           NEW i, i = PlaceOf(t.heap, x, n, p), i # 0,
           NEW r, r = UnloadAt(t, x, i), NEW U, U = Vacant(T, x, n, p)
    PROVE  /\ Planted(r, U, z)
           /\ \A y : IsTop(T, y) /\ y.start # x.start => IsTop(U, y)
<1> DEFINE c == Chain(t.heap, x)
           y == c[i]
           above == IF i > 1 THEN c[i - 1] ELSE Nil
<1>1. Shape(t.heap, T, z) /\ DOMAIN t.heap = T /\ T \subseteq NodeName
  BY NilOut DEF Planted, Shape
<1>2. i \in 1 .. Len(c) /\ Named(c[i], n, p)
  BY <1>1, PlaceOfIs
<1>3. Listed(c, x, T) /\ \A j \in 1 .. Len(c) : c[j] \in T
  BY <1>1, ChainListed
<1>4. r = Unloaded(t, y, above)
  BY DEF UnloadAt
<1> HIDE DEF c
<1>5. Len(c) \in Nat /\ \A j \in 1 .. Len(c) : c[j] \in NodeName /\ c[j].start = x.start
  BY <1>3 DEF Listed
<1>6. LastKept(c, i - 1, T, above)
  <2>1. CASE i = 1
    BY <2>1 DEF LastKept
  <2>2. CASE i # 1
    <3>1. i > 1 /\ i - 1 \in 1 .. i - 1 /\ i - 1 \in 1 .. Len(c)
      BY <1>2, <1>5, <2>2
    <3>2. c[i - 1] \in T /\ c[i - 1] # Nil
      BY <1>3, <1>5, <3>1, NodeFacts
    <3>3. \A j \in (i - 1) + 1 .. i - 1 : FALSE
      BY <1>2, <1>5
    <3>4. above = c[i - 1]
      BY <3>1
    <3> QED BY <3>1, <3>2, <3>3, <3>4 DEF LastKept
  <2> QED BY <2>1, <2>2
<1> HIDE DEF above
<1>7. Leaves(t.heap, T, y, above)
  BY <1>1, <1>2, <1>3, <1>6, KeptLeaves
<1>8. y \in T /\ y \in NodeName /\ y.start = x.start /\ Named(y, n, p)
  BY <1>2, <1>3, <1>5
<1> HIDE DEF y
<1>9. U = T \ {y}
  <2>1. ASSUME NEW w \in T, Named(w, n, p), w.start = x.start PROVE w = y
    <3>1. SameRank(w, y) /\ w \in NodeName
      BY <1>1, <1>8, <2>1 DEF SameRank, Named
    <3>2. ~Ahead(w, y) /\ ~Ahead(y, w)
      BY <3>1, <1>8, RankOrder
    <3>3. Ranked(T)
      BY <1>1 DEF Shape
    <3> QED BY <3>2, <3>3, <1>8, <2>1 DEF Ranked
  <2> QED BY <2>1, <1>8 DEF Vacant
<1>10. Planted(r, U, z) /\ \A w : IsTop(T, w) /\ w # y => IsTop(U, w)
  BY <1>4, <1>7, <1>9, UnloadPlanted
<1> QED BY <1>8, <1>10

\* A job that goes on with the tree t, and one that has stopped there.
Going(job, t) == job = [tree |-> t, more |-> TRUE]
Stopped(job, t) == job = [tree |-> t, more |-> FALSE]

UnloadJob(t, list, n, p, N) ==
    CHOOSE g : g = [i \in 0 .. N |-> IF i = 0 THEN [tree |-> t, more |-> TRUE]
                                     ELSE UnloadSlice(g[i - 1], list[i], n, p)]

LEMMA UnloadJobIs ==
    ASSUME NEW t, NEW list, NEW n, NEW p, NEW N \in Nat
    PROVE  /\ Going(UnloadJob(t, list, n, p, N)[0], t)
           /\ \A i \in 1 .. N :
                 UnloadJob(t, list, n, p, N)[i]
                    = UnloadSlice(UnloadJob(t, list, n, p, N)[i - 1], list[i], n, p)
<1> DEFINE s == [tree |-> t, more |-> TRUE]
           Def(g, k) == g = [i \in 0 .. k |-> IF i = 0 THEN s
                                               ELSE UnloadSlice(g[i - 1], list[i], n, p)]
           Bad == {k \in Nat : ~\E g : Def(g, k)}
<1> HIDE DEF s
<1>1. Bad = {}
  <2> SUFFICES ASSUME Bad # {} PROVE FALSE
    OBVIOUS
  <2>1. PICK k \in Bad : \A l \in Bad : k \leq l
    <3>1. Bad \in SUBSET Nat
      OBVIOUS
    <3> HIDE DEF Bad
    <3> QED BY <3>1, LeastNumber
  <2>2. k # 0
    <3> DEFINE g == [i \in 0 .. 0 |-> s]
    <3>1. Def(g, 0)
      OBVIOUS
    <3> QED BY <3>1
  <2>3. PICK g : Def(g, k - 1)
    <3>1. k - 1 \in Nat /\ ~(k \leq k - 1)
      BY <2>2
    <3> QED BY <3>1, <2>1
  <2> DEFINE f == [i \in 0 .. k |-> IF i = k THEN UnloadSlice(g[k - 1], list[k], n, p) ELSE g[i]]
  <2>4. \A i \in 0 .. k : f[i] = IF i = 0 THEN s ELSE UnloadSlice(f[i - 1], list[i], n, p)
    <3> TAKE i \in 0 .. k
    <3>1. CASE i = k
      <4>1. k - 1 \in 0 .. k /\ k - 1 # k /\ k \in 0 .. k
        BY <2>2
      <4> QED BY <3>1, <4>1, <2>2
    <3>2. CASE i # k
      <4>1. i \in 0 .. k - 1 /\ (i # 0 => i - 1 \in 0 .. k /\ i - 1 # k)
        BY <3>2
      <4>2. g[i] = IF i = 0 THEN s ELSE UnloadSlice(g[i - 1], list[i], n, p)
        BY <4>1, <2>3
      <4> QED BY <3>2, <4>1, <4>2
    <3> QED BY <3>1, <3>2
  <2>5. Def(f, k)
    BY <2>4
  <2> QED BY <2>5
<1>2. \E g : Def(g, N)
  BY <1>1
<1> DEFINE job == CHOOSE g : Def(g, N)
<1>3. Def(job, N)
  BY <1>2
<1>4. UnloadJob(t, list, n, p, N) = job
  BY DEF UnloadJob, s
<1> HIDE DEF job
<1>5. 0 \in 0 .. N /\ \A i \in 1 .. N : i \in 0 .. N /\ i # 0
  OBVIOUS
<1> QED BY <1>3, <1>4, <1>5 DEF s, Going

LEMMA UnloadFromOf ==
    ASSUME NEW t, NEW x, NEW n, NEW p, NEW s, s = Heads(t.heap, x), NEW N, N = Len(s)
    PROVE  UnloadFrom(t, x, n, p) = UnloadJob(t, s, n, p, N)[N].tree
BY DEF UnloadFrom, UnloadJob

\* One slice, given what was found in it.
LEMMA UnloadSliceIs ==
    ASSUME NEW job, NEW x, NEW n, NEW p, NEW i, i = PlaceOf(job.tree.heap, x, n, p),
           NEW t, NEW r, r = UnloadSlice(job, x, n, p)
    PROVE  /\ Going(job, t) /\ i # 0 => Going(r, UnloadAt(t, x, i))
           /\ Going(job, t) /\ i = 0 => Stopped(r, t)
           /\ Stopped(job, t) => Stopped(r, t)
           /\ Going(job, t) => job.tree = t
<1>0. PICK yes, no : yes = TRUE /\ no = FALSE
  OBVIOUS
<1>1. ASSUME Going(job, t)
      PROVE  /\ i # 0 => Going(r, UnloadAt(t, x, i))
             /\ i = 0 => Stopped(r, t)
             /\ job.tree = t
  <2>1. job = [tree |-> t, more |-> yes]
    BY <1>0, <1>1 DEF Going
  <2>2. job.tree = t /\ job.more = yes
    BY ONLY <2>1
  <2>3. PICK u : u = UnloadAt(t, x, i)
    OBVIOUS
  <2>4. i # 0 => r = [job EXCEPT !.tree = u]
    BY <1>0, <2>2, <2>3 DEF UnloadSlice
  <2>5. i = 0 => r = [job EXCEPT !.more = no]
    BY <1>0, <2>2 DEF UnloadSlice
  <2>6. [job EXCEPT !.tree = u] = [tree |-> u, more |-> yes]
    BY ONLY <2>1
  <2>7. [job EXCEPT !.more = no] = [tree |-> t, more |-> no]
    BY ONLY <2>1
  <2>8. i # 0 => r = [tree |-> u, more |-> yes]
    BY ONLY <2>4, <2>6
  <2>9. i = 0 => r = [tree |-> t, more |-> no]
    BY ONLY <2>5, <2>7
  <2> QED BY <1>0, <2>2, <2>3, <2>8, <2>9 DEF Going, Stopped
<1>2. ASSUME Stopped(job, t) PROVE Stopped(r, t)
  <2>1. job = [tree |-> t, more |-> no]
    BY <1>0, <1>2 DEF Stopped
  <2>2. job.tree = t /\ job.more = no
    BY ONLY <2>1
  <2>3. r = [job EXCEPT !.more = no]
    BY <1>0, <2>2 DEF UnloadSlice
  <2>4. [job EXCEPT !.more = no] = [tree |-> t, more |-> no]
    BY ONLY <2>1
  <2>5. r = [tree |-> t, more |-> no]
    BY ONLY <2>3, <2>4
  <2> QED BY <1>0, <2>5 DEF Stopped
<1> QED BY <1>1, <1>2

\* T without the registration of n and p in the slices of the first k of s.
Cleared(T, s, k, n, p) ==
    {y \in T : ~(Named(y, n, p) /\ \E j \in 1 .. k : y.start = s[j].start)}

\* The slices from n on.
Spans(D, s, N, n, p) ==
    /\ \A i \in 1 .. N : s[i] \in D /\ ~Less(s[i].start, n)
    /\ \A j \in 1 .. N : \A i \in 1 .. j - 1 : Less(s[i].start, s[j].start)
    /\ \A y \in D : Named(y, n, p) => \E i \in 1 .. N : s[i].start = y.start

\* Where one slice of its region has no node of a registration, none has.
LEMMA NoneBehind ==
    ASSUME NEW h, NEW D, Shape(h, D, End), Full(D), NEW n \in Name, NEW p,
           NEW s, NEW N \in Nat, Spans(D, s, N, n, p),
           NEW k \in 1 .. N, NEW V, V = Cleared(D, s, k - 1, n, p),
           ~\E y \in V : y.start = s[k].start /\ Named(y, n, p)
    PROVE  \A y \in V : ~Named(y, n, p)
<1> SUFFICES ASSUME NEW y \in V, Named(y, n, p) PROVE FALSE
  OBVIOUS
<1>1. D \subseteq NodeName /\ y \in D /\ y \in NodeName /\ y.start \in Name
  BY NilOut, NodeFacts DEF Shape, Cleared
<1>2. PICK j \in 1 .. N : s[j].start = y.start
  BY <1>1 DEF Spans
<1>3. ~(j \in 1 .. k - 1) /\ j # k
  BY <1>2 DEF Cleared
<1>4. k \in 1 .. j - 1
  BY <1>3
<1>5. s[k] \in D /\ s[k].start \in Name /\ Less(s[k].start, y.start) /\ ~Less(s[k].start, n)
  BY <1>1, <1>2, <1>4, NodeFacts DEF Spans
<1>6. Whole(D, End, y) /\ y = Moved(y, y.start) /\ y.name = n
  BY <1>1, MovedFacts DEF Full, Named
<1>7. y.start \in Edges(D) /\ s[k].start \in Edges(D)
  BY <1>1, <1>5 DEF Edges
<1>8. IsPrefix(n, y.start)
  BY <1>1, <1>6, <1>7 DEF Whole
<1>9. Less(y.start, EndOf(n)) /\ EndOf(n) \in Name
  BY <1>1, <1>8, RegionAt, EndOfType
<1>10. Less(s[k].start, EndOf(n))
  BY <1>1, <1>5, <1>9, NameOrder
<1>11. IsPrefix(n, s[k].start)
  BY <1>5, <1>10, RegionAt
<1> DEFINE w == Moved(y, s[k].start)
<1>12. w \in D
  BY <1>6, <1>7, <1>11 DEF Whole
<1>13. w.start = s[k].start /\ Named(w, n, p)
  BY <1>1, <1>5, NodeFacts DEF Named
<1> HIDE DEF w
<1>14. \A i \in 1 .. k - 1 : w.start # s[i].start
  <2> SUFFICES ASSUME NEW i \in 1 .. k - 1 PROVE w.start # s[i].start
    OBVIOUS
  <2>1. Less(s[i].start, s[k].start)
    BY DEF Spans
  <2> QED BY <1>5, <1>13, <2>1, NameOrder
<1>15. w \in V
  BY <1>12, <1>14 DEF Cleared
<1> QED BY <1>13, <1>15

\* The nodes of a registration stand where its region is.
LEMMA NamedAt ==
    ASSUME NEW h, NEW D, Shape(h, D, End), Full(D), NEW n \in Region, NEW p,
           NEW y \in D, Named(y, n, p)
    PROVE  /\ y \in NodeName /\ y.start \in Name /\ n \in Name /\ y.sess # Nil
           /\ n \in Edges(D) /\ ~Less(y.start, n)
<1>1. y \in NodeName /\ y.start \in Name
  BY NilOut, NodeFacts DEF Shape
<1>2. n \in Name /\ Len(n) > 1
  BY TreeAssumption
<1>3. Whole(D, End, y) /\ Known(y) /\ y.name = n /\ y = Moved(y, y.start)
  BY <1>1, MovedFacts DEF Full, Named
<1>4. IsPrefix(n, y.start) /\ n \in Edges(D)
  <2>1. y.start \in Edges(D)
    BY DEF Edges
  <2> QED BY <1>3, <2>1 DEF Whole
<1>5. ~Less(y.start, n)
  BY <1>1, <1>2, <1>4, RegionAt
<1>6. y.sess # Nil
  <2> SUFFICES ASSUME y.sess = Nil PROVE FALSE
    OBVIOUS
  <2>1. PICK i \in 0 .. 2 : n = <<i>>
    BY <1>3 DEF Known
  <2> QED BY <2>1, <1>2
<1> QED BY <1>1, <1>2, <1>4, <1>5, <1>6

\* The slice that the name of a registered region falls into starts with it.
LEMMA NamedTop ==
    ASSUME NEW h, NEW f, NEW D, Grown(h, f, D), NEW n \in Region,
           NEW x, x = Find([heap |-> h, first |-> f, ok |-> TRUE], n)
    PROVE  /\ IsTop(D, x) /\ x \in D /\ x.start \in Name
           /\ n \in Edges(D) => x.start = n
<1>1. Shape(h, D, End) /\ IsTop(D, f) /\ f.start = <<0>> /\ n \in Name /\ n[1] \in 0 .. 2
  BY TreeAssumption DEF Grown
<1>2. Less(n, End)
  BY <1>1, RootRegions DEF End
<1>3. Reaches(h, D, End, n, x) /\ Less(n, h[x].end)
  BY <1>1, <1>2, FindIs
<1>4. IsTop(D, x) /\ x \in D /\ ~Less(n, x.start) /\ x.start \in Name
  BY <1>1, <1>3, NilOut, NodeFacts DEF Reaches, IsTop, Shape
<1>5. ASSUME n \in Edges(D), x.start # n PROVE FALSE
  <2>1. PICK y \in D : y.start = n
    BY <1>5 DEF Edges
  <2>2. Less(x.start, y.start)
    BY <1>1, <1>4, <1>5, <2>1, NameOrder
  <2>3. ~Less(y.start, h[x].end)
    BY <1>1, <1>4, <2>2 DEF Shape, Ends
  <2> QED BY <1>3, <2>1, <2>3
<1> QED BY <1>4, <1>5

LEMMA UnloadFromIs ==
    ASSUME NEW h, NEW f, NEW D, Grown(h, f, D), NEW n \in Region, NEW p,
           NEW t, t = [heap |-> h, first |-> f, ok |-> TRUE],
           NEW x, x = Find(t, n), PlaceOf(h, x, n, p) # 0,
           NEW r, r = UnloadFrom(t, x, n, p), NEW U, U = {y \in D : ~Named(y, n, p)}
    PROVE  /\ Grown(r.heap, r.first, U)
           /\ RegsOf(U) = {g \in RegsOf(D) : <<g.name, g.prio>> # <<n, p>>}
<1> DEFINE s == Heads(h, x)
           N == Len(s)
           job == UnloadJob(t, s, n, p, N)
           W(k) == Cleared(D, s, k, n, p)
           Inv(k) == \E q : /\ Planted(q, W(k), End)
                            /\ \A j \in k + 1 .. N : IsTop(W(k), s[j])
                            /\ \/ Going(job[k], q)
                               \/ Stopped(job[k], q) /\ \A y \in W(k) : ~Named(y, n, p)
<1>1. Shape(h, D, End) /\ IsTop(D, f) /\ Full(D) /\ n \in Name
  BY TreeAssumption DEF Grown
<1>2. D \subseteq NodeName /\ Floor(D)
  BY <1>1, NilOut, FullFloor DEF Shape
<1>3. Planted(t, D, End) /\ t.heap = h /\ t.first = f
  BY GrownPlanted
<1>4. IsTop(D, x) /\ x \in D /\ x.start \in Name
  BY NamedTop
<1>5. x.start = n
  <2>1. PICK y \in D : y.start = x.start /\ Named(y, n, p)
    BY <1>1, <1>4, PlaceOfIs
  <2> QED BY <1>1, <2>1, NamedAt, NamedTop
<1>6. IsHeads(h, D, x, s)
  BY <1>1, <1>4, HeadsAre
<1>7. r = job[N].tree
  <2>1. PICK c : c = s
    OBVIOUS
  <2>2. c = Heads(t.heap, x)
    BY <1>3, <2>1
  <2>3. PICK m : m = Len(c)
    OBVIOUS
  <2>4. UnloadFrom(t, x, n, p) = UnloadJob(t, c, n, p, m)[m].tree
    BY <2>2, <2>3, UnloadFromOf
  <2> QED BY <2>1, <2>3, <2>4
<1> HIDE DEF s
<1>8. /\ N \in Nat /\ N > 0 /\ s[1] = x
      /\ \A i \in 1 .. N : IsTop(D, s[i]) /\ s[i] \in D
      /\ \A j \in 1 .. N : \A i \in 1 .. j - 1 : Less(s[i].start, s[j].start)
      /\ \A y \in D : ~Less(y.start, x.start) => \E i \in 1 .. N : s[i].start = y.start
  BY <1>6 DEF IsHeads, IsTop
<1>9. \A y \in D : Named(y, n, p) => y.sess # Nil /\ \E i \in 1 .. N : s[i].start = y.start
  <2> SUFFICES ASSUME NEW y \in D, Named(y, n, p)
               PROVE  y.sess # Nil /\ \E i \in 1 .. N : s[i].start = y.start
    OBVIOUS
  <2>1. y.sess # Nil /\ ~Less(y.start, n)
    BY <1>1, NamedAt
  <2> QED BY <1>5, <1>8, <2>1
<1>10. \A i \in 1 .. N : ~Less(s[i].start, n)
  <2> SUFFICES ASSUME NEW i \in 1 .. N PROVE ~Less(s[i].start, n)
    OBVIOUS
  <2>1. CASE i = 1
    BY <1>1, <1>5, <1>8, <2>1, NameOrder
  <2>2. CASE i # 1
    <3>1. 1 \in 1 .. i - 1
      BY <2>2
    <3>2. Less(s[1].start, s[i].start) /\ s[i].start \in Name
      BY <1>2, <1>8, <3>1, NodeFacts
    <3> QED BY <1>1, <1>5, <1>8, <3>2, NameOrder
  <2> QED BY <2>1, <2>2
<1>11. /\ Going(job[0], t)
       /\ \A k \in 1 .. N : job[k] = UnloadSlice(job[k - 1], s[k], n, p)
  BY <1>8, UnloadJobIs
<1> HIDE DEF job
<1>12. Inv(0)
  <2>1. W(0) = D
    BY DEF Cleared
  <2>2. Going(job[0], t)
    BY <1>11
  <2> QED BY <1>3, <1>8, <2>1, <2>2
<1>13. ASSUME NEW k \in 1 .. N, Inv(k - 1) PROVE Inv(k)
  <2> DEFINE V == W(k - 1)
             w == s[k]
  <2>0. k \in Nat /\ k - 1 \in Nat /\ k \in 1 .. N
    BY <1>8
  <2>1. PICK q : /\ Planted(q, V, End)
                 /\ \A j \in (k - 1) + 1 .. N : IsTop(V, s[j])
                 /\ \/ Going(job[k - 1], q)
                    \/ Stopped(job[k - 1], q) /\ \A y \in V : ~Named(y, n, p)
    BY <1>13
  <2>2. IsTop(V, w) /\ \A j \in k + 1 .. N : IsTop(V, s[j])
    BY <2>0, <2>1
  <2>3. PICK i : i = PlaceOf(job[k - 1].tree.heap, w, n, p)
    OBVIOUS
  <2>4. job[k] = UnloadSlice(job[k - 1], w, n, p)
    BY <1>11
  <2> HIDE DEF w
  <2>5. /\ Going(job[k - 1], q) /\ i # 0 => Going(job[k], UnloadAt(q, w, i))
        /\ Going(job[k - 1], q) /\ i = 0 => Stopped(job[k], q)
        /\ Stopped(job[k - 1], q) => Stopped(job[k], q)
        /\ Going(job[k - 1], q) => job[k - 1].tree = q
    <3>1. PICK jp, jk : jp = job[k - 1] /\ jk = job[k]
      OBVIOUS
    <3>2. i = PlaceOf(jp.tree.heap, w, n, p) /\ jk = UnloadSlice(jp, w, n, p)
      BY <2>3, <2>4, <3>1
    <3>3. /\ Going(jp, q) /\ i # 0 => Going(jk, UnloadAt(q, w, i))
          /\ Going(jp, q) /\ i = 0 => Stopped(jk, q)
          /\ Stopped(jp, q) => Stopped(jk, q)
          /\ Going(jp, q) => jp.tree = q
      BY ONLY <3>2, UnloadSliceIs
    <3> QED BY <3>1, <3>3
  <2> USE DEF w
  <2>6. W(k) = Vacant(V, w, n, p)
    <3>1. \A j : j \in 1 .. k <=> j \in 1 .. k - 1 \/ j = k
      BY <2>0
    <3> QED BY <3>1, <2>0 DEF Cleared, Vacant
  <2>7. ASSUME \A y \in V : ~Named(y, n, p), Stopped(job[k], q) PROVE Inv(k)
    <3>1. W(k) = V
      BY <2>6, <2>7 DEF Vacant
    <3> QED BY <2>1, <2>2, <2>7, <3>1
  <2>8. CASE Going(job[k - 1], q) /\ i = 0
    <3>1. ~\E y \in V : y.start = s[k].start /\ Named(y, n, p)
      <4>1. i = PlaceOf(q.heap, w, n, p) /\ Shape(q.heap, V, End)
        BY <2>1, <2>3, <2>5, <2>8 DEF Planted
      <4> HIDE DEF V, w
      <4>2. IF \E y \in V : y.start = w.start /\ Named(y, n, p) THEN i # 0 ELSE i = 0
        BY <2>2, <4>1, PlaceOfIs
      <4> QED BY <2>8, <4>2 DEF w
    <3>2. \A y \in V : ~Named(y, n, p)
      <4>1. V = Cleared(D, s, k - 1, n, p)
        OBVIOUS
      <4>2. Spans(D, s, N, n, p)
        BY <1>8, <1>9, <1>10 DEF Spans
      <4> HIDE DEF V
      <4> QED BY <1>1, <1>8, <3>1, <4>1, <4>2, NoneBehind
    <3> QED BY <2>5, <2>7, <2>8, <3>2
  <2>9. CASE Going(job[k - 1], q) /\ i # 0
    <3>1. Floor(V)
      <4> SUFFICES ASSUME NEW y \in V PROVE \E v \in V : v.start = y.start /\ v.sess = Nil
        BY DEF Floor
      <4>1. PICK v \in D : v.start = y.start /\ v.sess = Nil
        BY <1>2 DEF Floor, Cleared
      <4>2. v \in V
        BY <1>9, <4>1 DEF Cleared
      <4> QED BY <4>1, <4>2
    <3>2. i = PlaceOf(q.heap, w, n, p)
      BY <2>3, <2>5, <2>9
    <3>3. PICK u, Y : u = UnloadAt(q, w, i) /\ Y = W(k)
      OBVIOUS
    <3>4. \A y \in V : Named(y, n, p) => y.sess # Nil
      BY <1>9 DEF Cleared
    <3>5. \A j \in k + 1 .. N : s[j].start # w.start
      <4> SUFFICES ASSUME NEW j \in k + 1 .. N PROVE s[j].start # w.start
        OBVIOUS
      <4>1. Less(w.start, s[j].start)
        BY <1>8, <2>0
      <4>2. w.start \in Name
        BY <1>2, <1>8, <2>0, NodeFacts
      <4> QED BY <4>1, <4>2, NameOrder
    <3> HIDE DEF V, w, W
    <3>6. Planted(u, Y, End) /\ \A y : IsTop(V, y) /\ y.start # w.start => IsTop(Y, y)
      BY <2>1, <2>2, <2>6, <2>9, <3>1, <3>2, <3>3, <3>4, UnloadAtIs
    <3>7. \A j \in k + 1 .. N : IsTop(W(k), s[j])
      BY <2>2, <3>3, <3>5, <3>6
    <3>8. Going(job[k], u)
      BY <2>5, <2>9, <3>3
    <3>9. Planted(u, W(k), End)
      BY <3>3, <3>6
    <3> QED BY <3>7, <3>8, <3>9
  <2>10. CASE Stopped(job[k - 1], q) /\ \A y \in V : ~Named(y, n, p)
    BY <2>5, <2>7, <2>10
  <2> QED BY <2>1, <2>8, <2>9, <2>10
<1>14. Inv(N)
  <2> DEFINE Bad == {i \in 0 .. N : ~Inv(i)}
  <2> SUFFICES ASSUME Bad # {} PROVE FALSE
    BY <1>8
  <2> HIDE DEF Inv
  <2>1. Bad \in SUBSET Nat
    BY <1>8
  <2>2. PICK k \in Bad : \A l \in Bad : k \leq l
    BY <2>1, LeastNumber
  <2>3. k # 0
    BY <1>12
  <2>4. k \in 1 .. N /\ k - 1 \in 0 .. N /\ ~(k \leq k - 1)
    BY <2>3, <1>8
  <2>5. Inv(k - 1)
    BY <2>2, <2>4
  <2> QED BY <2>4, <2>5, <1>13
<1>15. W(N) = U
  BY <1>9 DEF Cleared
<1>16. Planted(r, U, End)
  <2>1. PICK q : Planted(q, U, End) /\ (Going(job[N], q) \/ Stopped(job[N], q))
    BY <1>14, <1>15
  <2>2. job[N].tree = q
    BY <2>1 DEF Going, Stopped
  <2> QED BY <1>7, <2>1, <2>2
<1> DEFINE Q == {g \in RegsOf(D) : g.name = n /\ g.prio = p}
<1>17. U = Without(D, Q)
  <2>1. \A y \in D : Reg(y) \in Q <=> Named(y, n, p)
    <3> SUFFICES ASSUME NEW y \in D PROVE Reg(y) \in Q <=> Named(y, n, p)
      OBVIOUS
    <3>1. Reg(y).name = y.name /\ Reg(y).prio = y.prio
      BY DEF Reg
    <3>2. Named(y, n, p) => Reg(y) \in RegsOf(D)
      BY <1>9, RegFacts
    <3> QED BY <3>1, <3>2 DEF Named
  <2> QED BY <2>1 DEF Without
<1>18. \A g \in Q : g.sess # Nil
  BY DEF RegsOf, Reg
<1>19. Full(Without(D, Q)) /\ RegsOf(Without(D, Q)) = RegsOf(D) \ Q
  <2> HIDE DEF Q
  <2> QED BY <1>1, <1>2, <1>18, WithoutFull
<1>20. RegsOf(U) = {g \in RegsOf(D) : <<g.name, g.prio>> # <<n, p>>}
  BY <1>17, <1>19
<1>21. Full(U)
  BY <1>17, <1>19
<1> QED BY <1>16, <1>20, <1>21, PlantedGrown
-----------------------------------------------------------------------------
(* The inductive invariant: the tree is grown, and what the lookup cache    *)
(* remembers are pairs of neighbours in it.                                *)

\* Two heads that are neighbours.
Neighbours(h, D, e) ==
    /\ e.previous \in NodeName /\ e.next \in NodeName
    /\ IsTop(D, e.previous) /\ e.next = h[e.previous].next

Pair == [previous : NodeName, next : NodeName]

Cached(c, h, D) ==
    /\ c = [entries |-> c.entries, pos |-> c.pos]
    /\ c.entries \in Seq(Pair)
    /\ \A i \in 1 .. Len(c.entries) : Neighbours(h, D, c.entries[i])
    /\ c.pos \in Nat /\ c.pos \leq Len(c.entries) /\ Len(c.entries) \leq CacheSize
    /\ CacheSize > 0 => c.pos < CacheSize

TreeInv ==
    /\ Grown(heap, first, DOMAIN heap)
    /\ Cached(lookupCache, heap, DOMAIN heap)
    /\ cacheSize \in {0, CacheSize}

LEMMA Remainder ==
    ASSUME NEW a \in Nat, NEW b \in Nat, a < b
    PROVE  a % b = a /\ b % b = 0
OBVIOUS

\* Where a lookup arrives, from the first slice or from the cache.
LEMMA FindPrevIs ==
    ASSUME TreeInv, NEW o \in Name, NEW w, w = FindPrev(o)
    PROVE  /\ w = [previous |-> w.previous, next |-> w.next]
           /\ Reaches(heap, DOMAIN heap, End, o, w.previous)
           /\ w.next = heap[w.previous].next
           /\ Hit(o) # 0 => Hit(o) \in 1 .. Len(lookupCache.entries)
<1> DEFINE D == DOMAIN heap
           entries == lookupCache.entries
           before == {i \in 1 .. Len(entries) :
                         i \leq cacheSize /\ ~Less(o, entries[i].previous.start)}
<1>1. Shape(heap, D, End) /\ IsTop(D, first) /\ first.start = <<0>>
  BY DEF TreeInv, Grown
<1>2. /\ Len(entries) \in Nat
      /\ \A i \in 1 .. Len(entries) : Neighbours(heap, D, entries[i])
  BY DEF TreeInv, Cached
<1>3. Hit(o) = IF before = {} THEN 0 ELSE CHOOSE i \in before : \A j \in before : j \leq i
  BY DEF Hit
<1>4. before # {} => Hit(o) \in before
  <2> SUFFICES ASSUME before # {} PROVE Hit(o) \in before
    OBVIOUS
  <2> DEFINE mirror == {Len(entries) - i : i \in before}
  <2>1. mirror \in SUBSET Nat /\ mirror # {}
    <3>1. before \subseteq 1 .. Len(entries)
      OBVIOUS
    <3>2. PICK k : k \in before
      OBVIOUS
    <3>3. Len(entries) - k \in mirror
      BY <3>2
    <3> HIDE DEF before
    <3>4. \A i \in before : Len(entries) - i \in Nat
      BY <1>2, <3>1
    <3> QED BY <3>3, <3>4
  <2>2. PICK m \in mirror : \A k \in mirror : m \leq k
    <3> HIDE DEF mirror
    <3> QED BY <2>1, LeastNumber
  <2>3. PICK i \in before : m = Len(entries) - i
    BY <2>2
  <2>4. \A j \in before : j \leq i
    <3> SUFFICES ASSUME NEW j \in before PROVE j \leq i
      OBVIOUS
    <3>1. Len(entries) - j \in mirror
      OBVIOUS
    <3>2. Len(entries) - i \leq Len(entries) - j
      BY <2>2, <2>3, <3>1
    <3> QED BY <3>2, <1>2
  <2> HIDE DEF before
  <2> QED BY <2>4, <1>3
<1>5. Hit(o) # 0 => Hit(o) \in before
  BY <1>3, <1>4
<1>6. \E x, previous : MayStart(heap, D, o, x, previous) /\ w = Walk(heap, o, x, previous)
  <2>1. CASE Hit(o) = 0
    <3>1. ~Less(o, first.start)
      BY <1>1, RootNames
    <3> QED BY <1>1, <2>1, <3>1 DEF FindPrev, MayStart
  <2>2. CASE Hit(o) # 0
    <3> DEFINE e == entries[Hit(o)]
    <3>1. Hit(o) \in 1 .. Len(entries) /\ ~Less(o, e.previous.start)
      BY <1>5, <2>2
    <3>2. Neighbours(heap, D, e)
      BY <1>2, <3>1
    <3>3. e.next # Nil /\ IsTop(D, e.previous) /\ e.next = heap[e.previous].next
      BY <3>2, NodeFacts DEF Neighbours
    <3>4. w = Walk(heap, o, e.next, e.previous)
      BY <2>2, <3>3 DEF FindPrev
    <3> HIDE DEF e
    <3>5. e.previous \in D
      BY <3>3 DEF IsTop
    <3>6. IsTop(D, e.next) /\ e.next.start = heap[e.previous].end
      BY <1>1, <3>3, <3>5 DEF Shape, Nexts
    <3>7. MayStart(heap, D, o, e.next, e.previous)
      BY <3>1, <3>3, <3>6 DEF MayStart, e
    <3> QED BY <3>4, <3>7
  <2> QED BY <2>1, <2>2
<1>7. PICK x, previous : MayStart(heap, D, o, x, previous) /\ w = Walk(heap, o, x, previous)
  BY <1>6
<1>8. Reaches(heap, D, End, o, w.previous) /\ w.next = heap[w.previous].next
  BY <1>1, <1>7, WalkReaches
<1>9. w = [previous |-> w.previous, next |-> w.next]
  BY <1>7 DEF Walk
<1> QED BY <1>5, <1>8, <1>9

\* What a lookup leaves in the cache.
LEMMA RememberedIs ==
    ASSUME TreeInv, NEW o \in Name, cacheSize > 0, NEW c, c = Remembered(o)
    PROVE  Cached(c, heap, DOMAIN heap)
<1> DEFINE D == DOMAIN heap
           w == FindPrev(o)
           l == lookupCache
           i == Hit(o)
<1>1. /\ w = [previous |-> w.previous, next |-> w.next]
      /\ Reaches(heap, D, End, o, w.previous) /\ w.next = heap[w.previous].next
      /\ i # 0 => i \in 1 .. Len(l.entries)
  BY FindPrevIs
<1>2. Cached(l, heap, D) /\ cacheSize = CacheSize /\ CacheSize \in Nat /\ CacheSize > 0
  BY TreeAssumption DEF TreeInv
<1>3. /\ l = [entries |-> l.entries, pos |-> l.pos]
      /\ l.entries \in Seq(Pair) /\ Len(l.entries) \in Nat
      /\ \A j \in 1 .. Len(l.entries) : Neighbours(heap, D, l.entries[j])
      /\ l.pos \in Nat /\ l.pos \leq Len(l.entries) /\ Len(l.entries) \leq CacheSize
      /\ l.pos < CacheSize
  BY <1>2 DEF Cached
<1> HIDE DEF w, i
<1>4. CASE c = l
  BY <1>2, <1>4
<1>5. ASSUME c # l
      PROVE  w \in Pair /\ Neighbours(heap, D, w)
  <2>1. w.next # Nil /\ w.previous # Nil
    BY <1>5 DEF Remembered, w
  <2>2. IsTop(D, w.previous) /\ w.previous \in D
    BY <1>1 DEF Reaches, IsTop
  <2>3. Shape(heap, D, End)
    BY DEF TreeInv, Grown
  <2>4. w.previous \in NodeName /\ w.next \in NodeName
    <3>1. Typed(heap) /\ w.previous \in D
      BY <2>2, <2>3 DEF Shape
    <3>2. heap[w.previous].next \in Ref
      BY <3>1, CellFacts
    <3>3. w.next \in Ref
      BY <1>1, <3>2
    <3>4. w.previous \in NodeName
      BY <3>1 DEF Typed
    <3> QED BY <2>1, <3>3, <3>4 DEF Ref
  <2> QED BY <1>1, <2>2, <2>4 DEF Pair, Neighbours
<1>6. CASE c # l /\ i = 0
  <2>1. c = CacheAdd(w)
    BY <1>6 DEF Remembered, w, i
  <2> DEFINE E == IF l.pos < Len(l.entries) THEN [l.entries EXCEPT ![l.pos + 1] = w]
                  ELSE Append(l.entries, w)
             q == (l.pos + 1) % CacheSize
  <2>2. c = [entries |-> E, pos |-> q]
    BY <1>2, <2>1 DEF CacheAdd
  <2>3. q = IF l.pos + 1 < CacheSize THEN l.pos + 1 ELSE 0
    <3>1. l.pos + 1 \in Nat /\ (l.pos + 1 < CacheSize \/ l.pos + 1 = CacheSize)
      BY <1>2, <1>3
    <3>2. CASE l.pos + 1 < CacheSize
      BY <1>2, <3>1, <3>2, Remainder
    <3>3. CASE l.pos + 1 = CacheSize
      <4>1. CacheSize % CacheSize = 0
        BY <1>2, <1>3, Remainder
      <4>2. PICK a : a = l.pos + 1
        OBVIOUS
      <4>3. q = a % CacheSize /\ a = CacheSize
        BY <3>3, <4>2
      <4>4. q = 0
        BY ONLY <4>1, <4>3
      <4> HIDE DEF q
      <4> QED BY <1>2, <3>3, <4>4
    <3> QED BY <3>1, <3>2, <3>3
  <2> HIDE DEF q
  <2>4. w \in Pair /\ Neighbours(heap, D, w)
    BY <1>5, <1>6
  <2>5. /\ E \in Seq(Pair) /\ Len(E) \in Nat /\ Len(E) \leq CacheSize
        /\ l.pos + 1 \leq Len(E)
        /\ \A j \in 1 .. Len(E) : E[j] = w \/ (j \in 1 .. Len(l.entries) /\ E[j] = l.entries[j])
    <3>1. CASE l.pos < Len(l.entries)
      <4>1. E = [l.entries EXCEPT ![l.pos + 1] = w]
        BY <3>1
      <4>2. E \in Seq(Pair) /\ Len(E) = Len(l.entries)
        BY <1>3, <2>4, <4>1, ExceptSeq
      <4>3. \A j \in 1 .. Len(E) : E[j] = w \/ (j \in 1 .. Len(l.entries) /\ E[j] = l.entries[j])
        BY <1>3, <4>1, <4>2
      <4> HIDE DEF E
      <4> QED BY <1>3, <3>1, <4>2, <4>3
    <3>2. CASE ~(l.pos < Len(l.entries))
      <4>1. E = Append(l.entries, w) /\ l.pos = Len(l.entries)
        BY <1>3, <3>2
      <4>2. E \in Seq(Pair) /\ Len(E) = Len(l.entries) + 1
        BY <1>3, <2>4, <4>1, AppendProperties
      <4>3. \A j \in 1 .. Len(E) : E[j] = w \/ (j \in 1 .. Len(l.entries) /\ E[j] = l.entries[j])
        BY <1>3, <4>1, <4>2, AppendProperties
      <4> HIDE DEF E
      <4> QED BY <1>2, <1>3, <4>1, <4>2, <4>3
    <3> QED BY <3>1, <3>2
  <2>6. \A j \in 1 .. Len(E) : Neighbours(heap, D, E[j])
    BY <1>3, <2>4, <2>5
  <2>7. q \in Nat /\ q \leq Len(E) /\ q < CacheSize
    <3> HIDE DEF E
    <3> QED BY <1>2, <1>3, <2>3, <2>5
  <2> HIDE DEF E
  <2>8. c.entries = E /\ c.pos = q /\ c = [entries |-> c.entries, pos |-> c.pos]
    BY <2>2
  <2> QED BY <2>5, <2>6, <2>7, <2>8 DEF Cached
<1>7. CASE c # l /\ i # 0
  <2>1. c = [l EXCEPT !.entries[i] = w]
    BY <1>7 DEF Remembered, w, i
  <2>2. i \in 1 .. Len(l.entries) /\ w \in Pair /\ Neighbours(heap, D, w)
    BY <1>1, <1>5, <1>7
  <2> DEFINE E == [l.entries EXCEPT ![i] = w]
  <2>3. c = [entries |-> E, pos |-> l.pos]
    BY <1>3, <2>1
  <2>4. E \in Seq(Pair) /\ Len(E) = Len(l.entries)
    BY <1>3, <2>2, ExceptSeq
  <2>5. \A j \in 1 .. Len(E) : Neighbours(heap, D, E[j])
    BY <1>3, <2>2, <2>4
  <2> HIDE DEF E
  <2>6. c.entries = E /\ c.pos = l.pos /\ c = [entries |-> c.entries, pos |-> c.pos]
    BY <2>3
  <2> QED BY <1>3, <2>4, <2>5, <2>6 DEF Cached
<1> QED BY <1>4, <1>6, <1>7
-----------------------------------------------------------------------------
(* Every step keeps the invariant, and is one of the registry's.           *)

LEMMA RegsAre == Regs = RegsOf(DOMAIN heap)
BY DEF Regs, RegsOf, Reg

LEMMA RegsNext == Regs' = RegsOf(DOMAIN heap')
BY DEF Regs, RegsOf, Reg

LEMMA CacheEmpty ==
    ASSUME NEW h, NEW D
    PROVE  Cached(EmptyCache, h, D)
<1>1. EmptyCache.entries = <<>> /\ EmptyCache.pos = 0
  BY DEF EmptyCache
<1>2. <<>> \in Seq(Pair) /\ Len(<<>>) = 0
  OBVIOUS
<1>3. EmptyCache = [entries |-> EmptyCache.entries, pos |-> EmptyCache.pos]
  BY DEF EmptyCache
<1> HIDE DEF EmptyCache
<1>4. CacheSize \in Nat
  BY TreeAssumption
<1> QED BY <1>1, <1>2, <1>3, <1>4 DEF Cached

LEMMA TreeInit ==
    ASSUME Init
    PROVE  TreeInv /\ Regs = {}
<1>1. Grown(heap, first, RootsTo(3)) /\ RegsOf(RootsTo(3)) = {}
  BY RootsGrown DEF Init
<1>2. DOMAIN heap = RootsTo(3)
  BY <1>1 DEF Grown
<1>3. Cached(lookupCache, heap, DOMAIN heap)
  BY CacheEmpty DEF Init
<1> QED BY <1>1, <1>2, <1>3, RegsAre DEF TreeInv, Init

\* What became of the registrations.
RegistryStep == Regs' = Regs \/ Abstract!RegistryNext

LEMMA RegisterStep ==
    ASSUME TreeInv, NEW n \in Region, NEW p \in Priority, NEW s \in Session,
           Register(n, p, s)
    PROVE  TreeInv' /\ RegistryStep
<1> DEFINE D == DOMAIN heap
           b == Node(n, p, s)
           r == Registered(Tree, b)
<1>1. Grown(heap, first, D) /\ Tree = [heap |-> heap, first |-> first, ok |-> TRUE]
  BY DEF TreeInv, Tree
<1>2. b.name = n /\ b.prio = p /\ b.sess = s /\ Reg(b) = [name |-> n, prio |-> p, sess |-> s]
  BY NewNode DEF Reg
<1>3. Reg(b) \notin RegsOf(D)
  BY <1>2, RegsAre DEF Register
<1>4. heap' = r.heap /\ first' = r.first /\ lookupCache' = EmptyCache /\ cacheSize' = cacheSize
  BY DEF Register, Become, Invalidated
<1> HIDE DEF b
<1>5. PICK V : Enrolled(r.heap, r.first, D, b, V)
  BY <1>1, <1>3, RegisteredIs DEF b
<1> HIDE DEF r
<1>6. Grown(heap', first', V) /\ DOMAIN heap' = V
  BY <1>4, <1>5 DEF Enrolled, Grown
<1>7. Cached(lookupCache', heap', DOMAIN heap')
  BY <1>4, CacheEmpty
<1>8. TreeInv'
  BY <1>4, <1>6, <1>7 DEF TreeInv
<1>9. CASE RegsOf(V) = RegsOf(D)
  BY <1>6, <1>8, <1>9, RegsAre, RegsNext DEF RegistryStep
<1>10. CASE /\ RegsOf(V) = RegsOf(D) \cup {Reg(b)}
            /\ \A g \in RegsOf(D) : <<g.name, g.prio>> # <<b.name, b.prio>>
  <2>1. Regs' = Regs \cup {[name |-> n, prio |-> p, sess |-> s]}
    BY <1>2, <1>6, <1>10, RegsAre, RegsNext
  <2>2. \A g \in Regs : <<g.name, g.prio>> # <<n, p>>
    BY <1>2, <1>10, RegsAre
  <2>3. Abstract!RegistryRegister(n, p, s)
    BY <2>1, <2>2 DEF Abstract!RegistryRegister
  <2>4. Abstract!RegistryNext
    BY <2>3 DEF Abstract!RegistryNext
  <2> QED BY <1>8, <2>4 DEF RegistryStep
<1> QED BY <1>5, <1>9, <1>10 DEF Enrolled

\* A registration is found in the slice that its name leads to.
LEMMA PlaceFound ==
    ASSUME TreeInv, NEW n \in Region, NEW p \in Priority, NEW g \in Regs,
           g.name = n, g.prio = p, NEW x, x = Find(Tree, n)
    PROVE  PlaceOf(heap, x, n, p) # 0
<1> DEFINE D == DOMAIN heap
<1>1. /\ Grown(heap, first, D) /\ Tree = [heap |-> heap, first |-> first, ok |-> TRUE]
      /\ Shape(heap, D, End) /\ Full(D)
  BY DEF TreeInv, Tree, Grown
<1>2. PICK y \in D : g = Reg(y)
  BY RegsAre, RegFacts
<1>3. Named(y, n, p)
  BY <1>2 DEF Named, Reg
<1>4. y \in NodeName /\ n \in Name /\ n \in Edges(D)
  BY <1>1, <1>3, NamedAt
<1>5. IsTop(D, x) /\ x.start = n
  BY <1>1, <1>4, NamedTop
<1> DEFINE w == Moved(y, n)
<1>6. IsPrefix(n, n)
  BY <1>4, NameOrder, RegionBounds, RegionAt
<1>7. w \in D
  BY <1>1, <1>3, <1>4, <1>6 DEF Full, Whole, Named
<1>8. w.start = x.start /\ Named(w, n, p)
  BY <1>3, <1>4, <1>5, NodeFacts DEF Named
<1> QED BY <1>1, <1>5, <1>7, <1>8, PlaceOfIs

LEMMA UnregisterStep ==
    ASSUME TreeInv, NEW n \in Region, NEW p \in Priority, Unregister(n, p)
    PROVE  /\ TreeInv' /\ RegistryStep
           /\ Regs' = {g \in Regs : <<g.name, g.prio>> # <<n, p>>}
<1> DEFINE D == DOMAIN heap
           x == Find(Tree, n)
           r == UnloadFrom(Tree, x, n, p)
           U == {y \in D : ~Named(y, n, p)}
<1>1. Grown(heap, first, D) /\ Tree = [heap |-> heap, first |-> first, ok |-> TRUE]
  BY DEF TreeInv, Tree
<1>2. CASE PlaceOf(heap, x, n, p) = 0
  <2>1. heap' = heap /\ first' = first /\ lookupCache' = lookupCache /\ cacheSize' = 0
    BY <1>2 DEF Unregister
  <2>2. TreeInv'
    BY <2>1 DEF TreeInv
  <2>3. Regs' = Regs
    BY <2>1, RegsAre, RegsNext
  <2>4. \A g \in Regs : <<g.name, g.prio>> # <<n, p>>
    BY <1>2, PlaceFound
  <2> QED BY <2>2, <2>3, <2>4 DEF RegistryStep
<1>3. CASE PlaceOf(heap, x, n, p) # 0
  <2>1. /\ heap' = r.heap /\ first' = r.first /\ lookupCache' = EmptyCache
        /\ cacheSize' = cacheSize
    BY <1>3 DEF Unregister, Become, Invalidated
  <2>2. PICK t, y, q, Y : t = Tree /\ y = x /\ q = r /\ Y = U
    OBVIOUS
  <2>3. /\ t = [heap |-> heap, first |-> first, ok |-> TRUE] /\ y = Find(t, n)
        /\ PlaceOf(heap, y, n, p) # 0 /\ q = UnloadFrom(t, y, n, p)
        /\ Y = {v \in D : ~Named(v, n, p)}
    BY <1>1, <1>3, <2>2
  <2> HIDE DEF x, r, U
  <2>4. /\ Grown(q.heap, q.first, Y)
        /\ RegsOf(Y) = {g \in RegsOf(D) : <<g.name, g.prio>> # <<n, p>>}
    BY <1>1, <2>3, UnloadFromIs
  <2>5. Grown(heap', first', Y) /\ DOMAIN heap' = Y
    BY <2>1, <2>2, <2>4 DEF Grown
  <2>6. Cached(lookupCache', heap', DOMAIN heap')
    BY <2>1, CacheEmpty
  <2>7. TreeInv'
    BY <2>1, <2>5, <2>6 DEF TreeInv
  <2>8. Regs' = {g \in Regs : <<g.name, g.prio>> # <<n, p>>}
    BY <2>4, <2>5, RegsAre, RegsNext
  <2>9. Abstract!RegistryUnregister(n, p)
    BY <2>8 DEF Abstract!RegistryUnregister
  <2>10. Abstract!RegistryNext
    BY <2>9 DEF Abstract!RegistryNext
  <2> QED BY <2>7, <2>8, <2>10 DEF RegistryStep
<1> QED BY <1>2, <1>3

\* The pointers of a list of slices are determined by its nodes.
LEMMA EndNotLess ==
    ASSUME NEW h, NEW g, NEW T, NEW z, Shape(h, T, z), Shape(g, T, z), NEW x \in T
    PROVE  ~Less(h[x].end, g[x].end)
<1> SUFFICES ASSUME Less(h[x].end, g[x].end) PROVE FALSE
  OBVIOUS
<1>1. h[x].end \in Name /\ g[x].end \in Name /\ z \in Name
  BY CellFacts DEF Shape
<1>2. CASE h[x].end = z
  <2>1. g[x].end = z \/ Less(g[x].end, z)
    BY EndLeZ
  <2> QED BY <1>1, <1>2, <2>1, NameOrder
<1>3. CASE h[x].end # z
  <2>1. PICK y \in T : y.start = h[x].end
    BY <1>3 DEF Shape, Ends
  <2>2. Less(x.start, y.start)
    BY <2>1 DEF Shape, Ends
  <2>3. ~Less(y.start, g[x].end)
    BY <2>2 DEF Shape, Ends
  <2> QED BY <2>1, <2>3
<1> QED BY <1>2, <1>3

LEMMA NextDetermined ==
    ASSUME NEW h, NEW g, NEW T, NEW z, Shape(h, T, z), Shape(g, T, z), NEW x \in T
    PROVE  h[x].next = g[x].next
<1>1. h[x].end \in Name /\ g[x].end \in Name /\ T \subseteq NodeName
  BY CellFacts, NilOut DEF Shape
<1>2. h[x].end = g[x].end
  BY <1>1, EndNotLess, NameOrder
<1>3. CASE h[x].end = z
  BY <1>2, <1>3 DEF Shape, Nexts
<1>4. CASE h[x].end # z
  <2>1. /\ IsTop(T, h[x].next) /\ h[x].next.start = h[x].end
        /\ IsTop(T, g[x].next) /\ g[x].next.start = g[x].end
    BY <1>2, <1>4 DEF Shape, Nexts
  <2> QED BY <1>1, <1>2, <2>1, TopUnique
<1> QED BY <1>3, <1>4

LEMMA CloseStep ==
    ASSUME TreeInv, NEW S \in SUBSET Session, CloseSessions(S)
    PROVE  TreeInv' /\ RegistryStep /\ Regs' = {g \in Regs : g.sess \notin S}
<1> DEFINE D == DOMAIN heap
           r == CloseFrom(Tree, first, S)
           U == {y \in D : y.sess \notin S}
<1>1. Grown(heap, first, D) /\ Tree = [heap |-> heap, first |-> first, ok |-> TRUE]
  BY DEF TreeInv, Tree
<1>2. heap' = r.heap /\ first' = r.first /\ cacheSize' = cacheSize
  BY DEF CloseSessions, Become
<1>3. PICK t, q, Y : t = Tree /\ q = r /\ Y = U
  OBVIOUS
<1>4. /\ t = [heap |-> heap, first |-> first, ok |-> TRUE] /\ q = CloseFrom(t, first, S)
      /\ Y = {y \in D : y.sess \notin S}
  BY <1>1, <1>3
<1>5. U = D <=> ~\E g \in Regs : g.sess \in S
  <2>1. D \subseteq NodeName /\ Nil \notin S
    BY <1>1, NilOut, TreeAssumption DEF Grown, Shape
  <2>2. \A g \in RegsOf(D) : \E y \in D : y.sess # Nil /\ g = Reg(y)
    BY RegFacts
  <2>3. \A y \in D : Reg(y).sess = y.sess /\ (y.sess # Nil => Reg(y) \in RegsOf(D))
    BY RegFacts DEF Reg
  <2> QED BY <2>1, <2>2, <2>3, RegsAre
<1> HIDE DEF r, U
<1>6. /\ Grown(q.heap, q.first, Y)
      /\ RegsOf(Y) = {g \in RegsOf(D) : g.sess \notin S}
  BY <1>1, <1>4, CloseFromIs, SMTT(20)
<1>7. Grown(heap', first', Y) /\ DOMAIN heap' = Y
  BY <1>2, <1>3, <1>6 DEF Grown
<1>8. Regs' = {g \in Regs : g.sess \notin S}
  BY <1>6, <1>7, RegsAre, RegsNext
<1>9. Abstract!RegistryNext
  <2>1. Abstract!RegistryClose(S)
    BY <1>8 DEF Abstract!RegistryClose
  <2> QED BY <2>1 DEF Abstract!RegistryNext
<1>10. Cached(lookupCache', heap', DOMAIN heap')
  <2>1. CASE \E g \in Regs : g.sess \in S
    <3>1. lookupCache' = EmptyCache
      BY <2>1 DEF CloseSessions, Invalidated
    <3> QED BY <3>1, CacheEmpty
  <2>2. CASE ~\E g \in Regs : g.sess \in S
    <3>1. lookupCache' = lookupCache /\ DOMAIN heap' = D /\ Y = D
      BY <1>3, <1>5, <1>7, <2>2 DEF CloseSessions
    <3>2. Shape(heap, D, End) /\ Shape(heap', D, End)
      BY <1>1, <1>7, <3>1 DEF Grown
    <3>3. \A y \in D : heap'[y].next = heap[y].next
      BY <3>2, NextDetermined
    <3>4. Cached(lookupCache, heap, D)
      BY DEF TreeInv
    <3> DEFINE l == lookupCache.entries
    <3>5. \A i \in 1 .. Len(l) : Neighbours(heap', D, l[i])
      <4> SUFFICES ASSUME NEW i \in 1 .. Len(l) PROVE Neighbours(heap', D, l[i])
        OBVIOUS
      <4>1. Neighbours(heap, D, l[i])
        BY <3>4 DEF Cached
      <4>2. l[i].previous \in D
        BY <4>1 DEF Neighbours, IsTop
      <4> QED BY <3>3, <4>1, <4>2 DEF Neighbours
    <3>6. Cached(lookupCache, heap', D)
      BY <3>4, <3>5 DEF Cached
    <3> QED BY <3>1, <3>6
  <2> QED BY <2>1, <2>2
<1>11. TreeInv'
  BY <1>2, <1>7, <1>10 DEF TreeInv
<1> QED BY <1>8, <1>9, <1>11 DEF RegistryStep

LEMMA LookupStep ==
    ASSUME TreeInv, NEW o \in Object, Lookup(o)
    PROVE  TreeInv' /\ RegistryStep
<1>1. o \in Name
  BY TreeAssumption
<1>2. /\ cacheSize > 0 /\ lookupCache' = Remembered(o)
      /\ heap' = heap /\ first' = first /\ cacheSize' = cacheSize
  BY DEF Lookup
<1>3. Cached(lookupCache', heap', DOMAIN heap')
  BY <1>1, <1>2, RememberedIs
<1>4. TreeInv'
  BY <1>2, <1>3 DEF TreeInv
<1>5. Regs' = Regs
  BY <1>2, RegsAre, RegsNext
<1> QED BY <1>4, <1>5 DEF RegistryStep

LEMMA TreeStep ==
    ASSUME TreeInv, [Next]_treeVars
    PROVE  TreeInv' /\ RegistryStep
<1>1. CASE UNCHANGED treeVars
  <2>1. heap' = heap /\ first' = first /\ lookupCache' = lookupCache /\ cacheSize' = cacheSize
    BY <1>1 DEF treeVars
  <2>2. Regs' = Regs
    BY <2>1, RegsAre, RegsNext
  <2> QED BY <2>1, <2>2 DEF TreeInv, RegistryStep
<1>2. CASE Next
  <2>1. ASSUME NEW n \in Region, NEW p \in Priority, NEW s \in Session, Register(n, p, s)
        PROVE  TreeInv' /\ RegistryStep
    BY <2>1, RegisterStep
  <2>2. ASSUME NEW n \in Region, NEW p \in Priority, Unregister(n, p)
        PROVE  TreeInv' /\ RegistryStep
    BY <2>2, UnregisterStep
  <2>3. ASSUME NEW S \in SUBSET Session \ {{}}, CloseSessions(S)
        PROVE  TreeInv' /\ RegistryStep
    <3>1. S \in SUBSET Session
      OBVIOUS
    <3> QED BY <2>3, <3>1, CloseStep
  <2>4. ASSUME NEW o \in Object, Lookup(o) PROVE TreeInv' /\ RegistryStep
    BY <2>4, LookupStep
  <2> QED BY <1>2, <2>1, <2>2, <2>3, <2>4 DEF Next
<1> QED BY <1>1, <1>2

(* Between two operations the fields of the nodes are what the set of nodes *)
(* calls for, every registration has a node in each slice of its region and *)
(* in no other, and the cache holds neighbours (AgentRegistry_subtreeLoad,  *)
(* subtreeSplit, subtreeUnload, _AgentRegistry_invalidateLookupCache).      *)
THEOREM TreeInvariant == Spec => []TreeInv
<1>1. Init => TreeInv
  BY TreeInit
<1>2. TreeInv /\ [Next]_treeVars => TreeInv'
  BY TreeStep
<1> QED BY <1>1, <1>2, PTL DEF Spec

(* A registration takes effect as a whole or not at all, a duplicate is     *)
(* refused and changes nothing, and unregistering a region or closing a     *)
(* session takes away nothing else (AgentRegistry_subtreeLoad,              *)
(* unregisterMibContext, unregisterMibsBySession).                          *)
THEOREM RegistryImplemented == Spec => ImplementsRegistry
<1>1. Init => Abstract!RegistryInit
  BY TreeInit DEF Abstract!RegistryInit
<1>2. TreeInv /\ [Next]_treeVars => [Abstract!RegistryNext]_Regs
  BY TreeStep DEF RegistryStep
<1> QED BY <1>1, <1>2, TreeInvariant, PTL
        DEF Spec, ImplementsRegistry, Abstract!RegistrySpec

(* An unregistration leaves the others and only them, and so does the end   *)
(* of sessions (AgentRegistry_unregisterMibContext,                         *)
(* AgentRegistry_unregisterMibsBySession).                                  *)
OnlyNamedGo ==
    /\ \A n \in Region, p \in Priority : Unregister(n, p) =>
          Regs' = {g \in Regs : <<g.name, g.prio>> # <<n, p>>}
    /\ \A S \in SUBSET Session : CloseSessions(S) =>
          Regs' = {g \in Regs : g.sess \notin S}

(* However the slices of a region were split, unregistering it or closing   *)
(* its session finds it and takes all of it away, and nothing else: unlike  *)
(* in RegistryImplemented, leaving everything as it was is no way out       *)
(* (AgentRegistry_unregisterMibContext).                                    *)
THEOREM RemovalsTakeEffect == Spec => [][OnlyNamedGo]_treeVars
<1>1. TreeInv /\ [Next]_treeVars => [OnlyNamedGo]_treeVars
  BY UnregisterStep, CloseStep DEF OnlyNamedGo
<1> QED BY <1>1, TreeInvariant, PTL DEF Spec

(* No pointer of the heap leads into freed memory, and the cache is within  *)
(* its size, after any registrations and closings                           *)
(* (AgentRegistry_subtreeUnload, subtreeFree).                              *)
THEOREM TreeTypeCorrect == Spec => []TreeTypeOK
<1>1. TreeInv => TreeTypeOK
  <2> SUFFICES ASSUME TreeInv PROVE TreeTypeOK
    OBVIOUS
  <2> DEFINE D == DOMAIN heap
  <2>1. Shape(heap, D, End) /\ IsTop(D, first)
    BY DEF TreeInv, Grown
  <2>2. first \in D
    BY <2>1 DEF IsTop
  <2>3. \A x \in D : heap[x].next \in D \cup {Nil}
    BY <2>1 DEF Shape, Nexts, IsTop
  <2>4. \A x \in D : heap[x].prev \in D \cup {Nil}
    BY <2>1 DEF Shape, Prevs, IsTop
  <2>5. \A x \in D : heap[x].children \in D \cup {Nil}
    BY <2>1 DEF Shape, Belows, IsBelow
  <2>6. cacheSize \in {0, CacheSize} /\ Len(lookupCache.entries) \leq CacheSize
    BY DEF TreeInv, Cached
  <2> QED BY <2>2, <2>3, <2>4, <2>5, <2>6 DEF TreeTypeOK, Nodes, Ptr
<1> QED BY <1>1, TreeInvariant, PTL

(* An entry of the lookup cache names two heads that are neighbours now: a  *)
(* lookup that starts from it skips nothing and reads no freed node         *)
(* (_AgentRegistry_lookupCacheAdd, _AgentRegistry_invalidateLookupCache).   *)
THEOREM CacheCorrect == Spec => []CacheSound
<1>1. TreeInv => CacheSound
  <2> SUFFICES ASSUME TreeInv, NEW i \in 1 .. Len(lookupCache.entries),
                      NEW e, e = lookupCache.entries[i]
               PROVE  /\ e.previous \in ToSet(Heads(heap, first))
                      /\ heap[e.previous].next = e.next
    BY DEF CacheSound
  <2> DEFINE D == DOMAIN heap
             s == Heads(heap, first)
  <2>1. Shape(heap, D, End) /\ IsTop(D, first) /\ first.start = <<0>> /\ D \subseteq NodeName
    BY NilOut DEF TreeInv, Grown, Shape
  <2>2. Neighbours(heap, D, e)
    BY DEF TreeInv, Cached
  <2>3. IsTop(D, e.previous) /\ e.next = heap[e.previous].next /\ e.previous \in D
    BY <2>2 DEF Neighbours, IsTop
  <2>4. IsHeads(heap, D, first, s)
    BY <2>1, HeadsAre
  <2>5. ~Less(e.previous.start, first.start)
    BY <2>1, <2>3, RootNames, NodeFacts
  <2> HIDE DEF s
  <2>6. PICK k \in 1 .. Len(s) : s[k].start = e.previous.start
    BY <2>3, <2>4, <2>5 DEF IsHeads
  <2>7. IsTop(D, s[k]) /\ k \in DOMAIN s
    BY <2>4 DEF IsHeads
  <2>8. s[k] = e.previous
    BY <2>1, <2>3, <2>6, <2>7, TopUnique
  <2>9. e.previous \in ToSet(s)
    BY <2>7, <2>8 DEF ToSet
  <2> QED BY <2>3, <2>9 DEF s
<1> QED BY <1>1, TreeInvariant, PTL

(* The slices meet end to end from the first root to the last, each node    *)
(* points to its neighbours and has the bounds of its slice, the node to    *)
(* ask comes first in each chain, and nothing is left behind outside the    *)
(* list, for any registrations (AgentRegistry_subtreeSplit, subtreeLoad,    *)
(* subtreeUnload).                                                          *)
THEOREM TreeSoundCorrect == Spec => []TreeSound
<1>1. TreeInv => TreeSound
  <2> SUFFICES ASSUME TreeInv PROVE TreeSound
    OBVIOUS
  <2> DEFINE D == DOMAIN heap
  <2>1. Shape(heap, D, End) /\ IsTop(D, first) /\ first.start = <<0>> /\ D \subseteq NodeName
        /\ Nil \notin D
    BY NilOut DEF TreeInv, Grown, Shape
  <2>2. IsHeads(heap, D, first, Heads(heap, first))
    BY <2>1, HeadsAre
  <2>3. PICK c : c = Heads(heap, first)
    OBVIOUS
  <2> DEFINE slice(i) == Chain(heap, c[i])
             nodesOf(i) == ToSet(slice(i))
  <2>4. /\ Len(c) \in Nat /\ Len(c) > 0 /\ c[1] = first /\ DOMAIN c = 1 .. Len(c)
        /\ \A i \in 1 .. Len(c) : IsTop(D, c[i]) /\ c[i] \in D
        /\ \A i \in 1 .. Len(c) - 1 : c[i + 1] = heap[c[i]].next
        /\ heap[c[Len(c)]].next = Nil
        /\ \A y \in D : ~Less(y.start, first.start) => \E i \in 1 .. Len(c) : c[i].start = y.start
    BY <2>2, <2>3 DEF IsHeads, IsTop
  <2>5. \A i \in 1 .. Len(c) :
           /\ IsChain(heap, Level(D, c[i]), Chain(heap, c[i]))
           /\ ToSet(Chain(heap, c[i])) = Level(D, c[i])
    BY <2>1, <2>4, ShapeChained, ChainIs DEF IsChain
  <2>6. heap[c[Len(c)]].end = End
    <3> SUFFICES ASSUME heap[c[Len(c)]].end # End PROVE FALSE
      OBVIOUS
    <3>1. Len(c) \in 1 .. Len(c)
      BY <2>4
    <3>2. IsTop(D, heap[c[Len(c)]].next)
      BY <2>1, <2>4, <3>1 DEF Shape, Nexts
    <3> QED BY <2>1, <2>4, <3>2 DEF IsTop
  <2>7. UNION {nodesOf(i) : i \in DOMAIN c} = D
    <3>1. \A i \in DOMAIN c : nodesOf(i) = Level(D, c[i])
      BY <2>4, <2>5
    <3>2. ASSUME NEW y \in D PROVE \E i \in DOMAIN c : y \in nodesOf(i)
      <4>1. ~Less(y.start, first.start)
        BY <2>1, RootNames, NodeFacts
      <4>2. PICK i \in 1 .. Len(c) : c[i].start = y.start
        BY <2>4, <4>1
      <4>3. i \in DOMAIN c /\ y \in Level(D, c[i])
        BY <2>4, <4>2 DEF Level
      <4> QED BY <3>1, <4>3
    <3>3. \A i \in DOMAIN c : nodesOf(i) \subseteq D
      BY <3>1 DEF Level
    <3> HIDE DEF nodesOf
    <3> QED BY <3>2, <3>3
  <2>8. \A i \in 1 .. Len(c) : i < Len(c) => heap[c[i]].end = c[i + 1].start
    <3> SUFFICES ASSUME NEW i \in 1 .. Len(c), i < Len(c)
                 PROVE  heap[c[i]].end = c[i + 1].start
      OBVIOUS
    <3>1. i \in 1 .. Len(c) - 1 /\ i + 1 \in 1 .. Len(c)
      BY <2>4
    <3>2. c[i + 1] = heap[c[i]].next /\ heap[c[i]].next # Nil /\ c[i] \in D
      BY <2>1, <2>4, <3>1
    <3> QED BY <2>1, <3>2 DEF Shape, Nexts
  <2>9. ASSUME NEW i \in 1 .. Len(c), NEW x \in Level(D, c[i])
        PROVE  /\ x.start = c[i].start /\ heap[x].end = heap[c[i]].end
               /\ heap[x].prev = IF i = 1 THEN Nil ELSE c[i - 1]
               /\ heap[x].next = IF i = Len(c) THEN Nil ELSE c[i + 1]
    <3>1. x \in D /\ x.start = c[i].start /\ c[i] \in D /\ IsTop(D, c[i])
      BY <2>4, <2>9 DEF Level
    <3>2. heap[x].end = heap[c[i]].end
      BY <2>1, <3>1, SameEnd
    <3>3. heap[x].next = heap[c[i]].next /\ heap[x].prev = heap[c[i]].prev
      BY <2>1, <3>1, SameNeighbours, SMTT(20)
    <3>4. heap[c[i]].next = IF i = Len(c) THEN Nil ELSE c[i + 1]
      <4>1. Len(c) \in Nat
        BY <2>4
      <4>2. i = Len(c) \/ (i \in 1 .. Len(c) - 1 /\ i # Len(c))
        BY <4>1
      <4> QED BY <2>4, <4>2, Zenon
    <3>5. heap[c[i]].prev = IF i = 1 THEN Nil ELSE c[i - 1]
      <4>1. CASE i = 1
        BY <2>1, <2>4, <4>1 DEF Shape, Prevs, IsTop
      <4>2. CASE i # 1
        <5>1. i - 1 \in 1 .. Len(c) /\ i - 1 < Len(c) /\ (i - 1) + 1 = i
          BY <2>4, <4>2
        <5>2. PICK j \in 1 .. Len(c) : j = i - 1
          BY <5>1
        <5>3. IsTop(D, c[j]) /\ heap[c[j]].end = c[i].start
          BY <2>4, <2>8, <5>1, <5>2
        <5>4. heap[c[i]].prev = c[j]
          BY <2>1, <3>1, <5>3, PrevOfNext
        <5> QED BY <4>2, <5>2, <5>4
      <4> QED BY <4>1, <4>2
    <3> QED BY <3>1, <3>2, <3>3, <3>4, <3>5
  <2>10. ASSUME NEW i \in 1 .. Len(c)
         PROVE  \A j \in 1 .. Len(slice(i)) - 1 : Ahead(slice(i)[j], slice(i)[j + 1])
    <3>1. PICK l : l = slice(i)
      OBVIOUS
    <3>2. IsChain(heap, Level(D, c[i]), l)
      BY <2>5, <3>1
    <3>3. Len(l) \in Nat /\ \A k \in 1 .. Len(l) : \A m \in 1 .. k - 1 : Over(l[m], l[k])
      BY <3>2 DEF IsChain
    <3>4. ASSUME NEW j \in 1 .. Len(l) - 1 PROVE Ahead(l[j], l[j + 1])
      <4>1. j + 1 \in 1 .. Len(l) /\ j \in 1 .. (j + 1) - 1
        BY <3>3
      <4>2. Over(l[j], l[j + 1])
        BY <3>3, <4>1
      <4> QED BY <4>2 DEF Over
    <3> QED BY <3>1, <3>4
  <2>11. c[1].start = <<0>> /\ heap[c[Len(c)]].end = <<3>>
    BY <2>1, <2>4, <2>6 DEF End
  <2>12. ASSUME NEW i \in DOMAIN c
         PROVE  /\ i < Len(c) => heap[c[i]].end = c[i + 1].start
                /\ \A x \in nodesOf(i) :
                      /\ x.start = c[i].start /\ heap[x].end = heap[c[i]].end
                      /\ heap[x].prev = IF i = 1 THEN Nil ELSE c[i - 1]
                      /\ heap[x].next = IF i = Len(c) THEN Nil ELSE c[i + 1]
                /\ \A j \in 1 .. Len(slice(i)) - 1 : Ahead(slice(i)[j], slice(i)[j + 1])
    <3>1. i \in 1 .. Len(c) /\ nodesOf(i) = Level(D, c[i])
      BY <2>4, <2>5
    <3> HIDE DEF nodesOf
    <3>2. \A j \in 1 .. Len(slice(i)) - 1 : Ahead(slice(i)[j], slice(i)[j + 1])
      BY <2>10, <3>1
    <3> HIDE DEF slice
    <3> QED BY <2>8, <2>9, <3>1, <3>2
  <2> QED BY <2>3, <2>7, <2>11, <2>12 DEF TreeSound, Nodes
<1> QED BY <1>1, TreeInvariant, PTL

\* The registrations that cover a name are those of the slice it falls into.
LEMMA CoveringAre ==
    ASSUME NEW h, NEW D, Shape(h, D, End), Full(D), NEW x, IsTop(D, x), NEW o \in Name,
           ~Less(o, x.start), Less(o, h[x].end)
    PROVE  /\ \A y \in Level(D, x) : IsPrefix(y.name, o)
           /\ \A y \in D : IsPrefix(y.name, o)
                 => \E w \in Level(D, x) : w.sess = y.sess /\ Reg(w) = Reg(y)
<1>1. D \subseteq NodeName /\ x \in D /\ x \in NodeName /\ x.start \in Name
      /\ x.start \in Edges(D)
  BY NilOut, NodeFacts DEF Shape, IsTop, Edges
<1>2. ASSUME NEW y \in D PROVE IsPrefix(y.name, o) <=> IsPrefix(y.name, x.start)
  <2>1. y.name \in Edges(D) /\ (EndOf(y.name) = End \/ EndOf(y.name) \in Edges(D))
    BY DEF Full, Whole
  <2> QED BY <1>1, <2>1, SameRegion
<1>3. ASSUME NEW y \in D
      PROVE  IsPrefix(y.name, x.start) <=> Moved(y, x.start) \in D
  BY <1>1 DEF Full, Whole
<1>4. ASSUME NEW y \in Level(D, x) PROVE IsPrefix(y.name, o)
  <2>1. y \in D /\ y.start = x.start /\ y \in NodeName
    BY <1>1 DEF Level
  <2>2. Moved(y, x.start) = y
    BY <2>1, MovedFacts
  <2> QED BY <1>2, <1>3, <2>1, <2>2
<1>5. ASSUME NEW y \in D, IsPrefix(y.name, o)
      PROVE  \E w \in Level(D, x) : w.sess = y.sess /\ Reg(w) = Reg(y)
  <2>1. Moved(y, x.start) \in D
    BY <1>2, <1>3, <1>5
  <2>2. Moved(y, x.start).start = x.start /\ Moved(y, x.start).sess = y.sess
    BY <1>1, NodeFacts
  <2>3. Reg(Moved(y, x.start)) = Reg(y)
    BY <1>1, RegFacts
  <2> QED BY <2>1, <2>2, <2>3 DEF Level
<1> QED BY <1>4, <1>5

\* The head of a slice is better than the others.
LEMMA TopBetter ==
    ASSUME NEW D, D \subseteq NodeName, NEW x, IsTop(D, x), NEW o \in Name,
           \A y \in Level(D, x) : IsPrefix(y.name, o), NEW y \in Level(D, x), y # x
    PROVE  /\ Len(x.name) > Len(y.name) \/ (x.name = y.name /\ x.prio < y.prio)
           /\ ~(Len(y.name) > Len(x.name)) /\ ~(y.name = x.name /\ y.prio < x.prio)
<1>1. Ahead(x, y) /\ x \in Level(D, x) /\ x \in NodeName /\ y \in NodeName
  BY DEF IsTop, Level
<1>2. /\ x.name \in Name /\ y.name \in Name /\ x.prio \in Int /\ y.prio \in Int
      /\ Len(x.name) \in Nat /\ Len(y.name) \in Nat
  BY <1>1, NodeFacts
<1>3. Len(x.name) = Len(y.name) => x.name = y.name
  BY <1>1, <1>2, PrefixesAgree DEF Name
<1> QED BY <1>1, <1>2, <1>3 DEF Ahead

LEMMA ServesTop ==
    ASSUME TreeInv, NEW x, IsTop(DOMAIN heap, x), NEW o \in Name,
           ~Less(o, x.start), Less(o, heap[x].end)
    PROVE  Abstract!Serves(o) = IF x.sess = Nil THEN Nil
                                ELSE [name |-> x.name, prio |-> x.prio, sess |-> x.sess]
<1> DEFINE D == DOMAIN heap
           covering == {r \in Regs : IsPrefix(r.name, o)}
<1>1. Shape(heap, D, End) /\ Full(D) /\ D \subseteq NodeName
  BY NilOut DEF TreeInv, Grown, Shape
<1>2. /\ \A y \in Level(D, x) : IsPrefix(y.name, o)
      /\ \A y \in D : IsPrefix(y.name, o)
            => \E w \in Level(D, x) : w.sess = y.sess /\ Reg(w) = Reg(y)
  BY <1>1, CoveringAre
<1>3. x \in D /\ x \in Level(D, x)
  BY DEF IsTop, Level
<1>4. Abstract!Serves(o) = IF covering = {} THEN Nil
        ELSE CHOOSE r \in covering : \A s \in covering \ {r} : Abstract!Better(r, s)
  <2>1. \A r \in Regs : Abstract!Covers(r, o) <=> IsPrefix(r.name, o)
    BY DEF Abstract!Covers, Abstract!IsPrefix, IsPrefix
  <2>2. covering = {r \in Regs : Abstract!Covers(r, o)}
    BY <2>1
  <2> HIDE DEF covering
  <2> QED BY <2>2 DEF Abstract!Serves
<1>5. \A r \in covering : \E y \in Level(D, x) : y.sess # Nil /\ r = Reg(y)
  <2> SUFFICES ASSUME NEW r \in covering
               PROVE  \E y \in Level(D, x) : y.sess # Nil /\ r = Reg(y)
    OBVIOUS
  <2>1. PICK y \in D : y.sess # Nil /\ r = Reg(y)
    BY RegsAre, RegFacts
  <2>2. IsPrefix(y.name, o)
    BY <2>1 DEF Reg
  <2> QED BY <1>2, <2>1, <2>2
<1>6. Reg(x) = [name |-> x.name, prio |-> x.prio, sess |-> x.sess] /\ Reg(x).name = x.name
  BY DEF Reg
<1>7. CASE x.sess = Nil
  <2>1. covering = {}
    <3> SUFFICES ASSUME NEW r \in covering PROVE FALSE
      OBVIOUS
    <3>1. PICK y \in Level(D, x) : y.sess # Nil /\ r = Reg(y)
      BY <1>5
    <3>2. y \in D /\ Known(y) /\ Known(x)
      BY <1>1, <1>3 DEF Full, Level
    <3>3. Len(y.name) > 1 /\ Len(x.name) = 1
      <4>1. Len(y.name) > 1
        BY <3>1, <3>2, TreeAssumption DEF Known
      <4>2. PICK i \in 0 .. 2 : x.name = <<i>>
        BY <1>7, <3>2 DEF Known
      <4> QED BY <4>1, <4>2
    <3>4. ~(Len(y.name) > Len(x.name))
      <4>1. y # x
        BY <1>7, <3>1
      <4> QED BY <1>1, <1>2, <4>1, TopBetter
    <3> QED BY <3>3, <3>4
  <2> QED BY <1>4, <1>7, <2>1
<1>8. CASE x.sess # Nil
  <2>1. Reg(x) \in covering
    BY <1>2, <1>3, <1>6, <1>8, RegsAre, RegFacts
  <2>2. ASSUME NEW s \in covering, s # Reg(x)
        PROVE  Abstract!Better(Reg(x), s) /\ ~Abstract!Better(s, Reg(x))
    <3>1. PICK y \in Level(D, x) : s = Reg(y)
      BY <1>5
    <3>2. y # x
      BY <2>2, <3>1
    <3>3. /\ Len(x.name) > Len(y.name) \/ (x.name = y.name /\ x.prio < y.prio)
          /\ ~(Len(y.name) > Len(x.name)) /\ ~(y.name = x.name /\ y.prio < x.prio)
      BY <1>1, <1>2, <3>2, TopBetter
    <3>4. /\ Reg(x).name = x.name /\ Reg(x).prio = x.prio
          /\ s.name = y.name /\ s.prio = y.prio
      BY <3>1 DEF Reg
    <3> QED BY <3>3, <3>4 DEF Abstract!Better
  <2> HIDE DEF covering
  <2>3. \A r \in covering : (\A s \in covering \ {r} : Abstract!Better(r, s)) <=> r = Reg(x)
    BY <2>1, <2>2
  <2>4. Reg(x) = CHOOSE r \in covering : \A s \in covering \ {r} : Abstract!Better(r, s)
    BY <2>1, <2>3
  <2> QED BY <1>4, <1>6, <1>8, <2>1, <2>4
<1> QED BY <1>7, <1>8

(* The walk with its offsets, from the list or from the cache, finds for    *)
(* every object the node that the set of registrations calls for, and       *)
(* nothing for what lies behind the roots (AgentRegistry_subtreeFindPrev,   *)
(* subtreeFind).                                                            *)
THEOREM LookupsServeCorrect == Spec => []LookupsServe
<1>1. TreeInv => LookupsServe
  <2> SUFFICES ASSUME TreeInv, NEW o \in Object, NEW x, x = Found(o)
               PROVE  IF o[1] > 2 THEN x = Nil
                      ELSE /\ x \in Nodes
                           /\ Abstract!Serves(o) = IF x.sess = Nil THEN Nil
                                ELSE [name |-> x.name, prio |-> x.prio, sess |-> x.sess]
    BY DEF LookupsServe
  <2> DEFINE D == DOMAIN heap
  <2>1. PICK w : w = FindPrev(o).previous
    OBVIOUS
  <2>2. o \in Name
    BY TreeAssumption
  <2>3. Reaches(heap, D, End, o, w)
    BY <2>1, <2>2, FindPrevIs
  <2>4. /\ IsTop(D, w) /\ w \in D /\ ~Less(o, w.start)
        /\ heap[w].end = End \/ Less(o, heap[w].end)
    BY <2>3 DEF Reaches, IsTop
  <2>5. x = IF Less(o, heap[w].end) THEN w ELSE Nil
    BY <2>1, <2>4 DEF Found, Containing
  <2>6. Shape(heap, D, End) /\ End \in Name /\ heap[w].end \in Name
    BY <2>4, CellFacts DEF TreeInv, Grown, Shape
  <2>7. Less(o, End) <=> o[1] < 3
    BY <2>2, RootRegions DEF End
  <2>8. o[1] \in Nat
    BY <2>2, RootRegions
  <2>9. CASE o[1] > 2
    <3>1. ~Less(o, End)
      BY <2>7, <2>8, <2>9
    <3>2. heap[w].end = End \/ Less(heap[w].end, End)
      BY <2>4, <2>6, EndLeZ
    <3>3. ~Less(o, heap[w].end)
      BY <2>2, <2>6, <3>1, <3>2, NameOrder
    <3> QED BY <2>5, <2>9, <3>3
  <2>10. CASE ~(o[1] > 2)
    <3>1. Less(o, End)
      BY <2>7, <2>8, <2>10
    <3>2. Less(o, heap[w].end) /\ x = w
      BY <2>4, <2>5, <3>1
    <3>3. x \in Nodes
      BY <2>4, <3>2 DEF Nodes
    <3>4. Abstract!Serves(o) = IF x.sess = Nil THEN Nil
            ELSE [name |-> x.name, prio |-> x.prio, sess |-> x.sess]
      BY <2>2, <2>4, <3>2, ServesTop
    <3> QED BY <2>10, <3>3, <3>4
  <2> QED BY <2>9, <2>10
<1> QED BY <1>1, TreeInvariant, PTL
=============================================================================

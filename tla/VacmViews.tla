------------------------------ MODULE VacmViews ------------------------------
(***************************************************************************)
(* The list of views of the access control model and the two loops that   *)
(* search it (src/Firmware/Core/System/AccessControl/Vacm.c): viewGet      *)
(* finds the entry that decides about one name; viewSubtreeCheck decides   *)
(* about all names below one at once, so that a GETNEXT may pass over a    *)
(* registration without asking about each name in it.  Pointers into the   *)
(* list are positions, 0 is NULL.                                          *)
(***************************************************************************)
EXTENDS Naturals, Sequences, SequencesExt

CONSTANTS
    Name,     \* names of views, numbered as memcmp orders them
    Oid,      \* the object identifiers that are asked about
    Subtree,  \* those that entries are made for
    MaxLen,   \* TYPES_MAX_OID_LEN, the longest of them
    MaxViews  \* bound: entries in the list

ASSUME ViewsAssumption ==
    /\ Name \subseteq Nat /\ Name # {}
    /\ Oid \subseteq Seq(Nat) /\ Subtree \subseteq Oid /\ Oid # {}
    /\ MaxViews \in Nat /\ MaxLen \in Nat /\ \A o \in Oid : Len(o) \leq MaxLen

VARIABLES
    views,    \* *head and what follows it
    ask,      \* the search: viewGet or viewSubtreeCheck, viewName, viewSubtree
    vp,       \* the entry its loop has come to, 0 if no search is under way
    shorter,  \* vpret, vpShorter
    longer,   \* vpLonger
    verdict   \* what the last search returned, "none" if the list changed since

viewVars == <<views, ask, vp, shorter, longer, verdict>>

Type   == {"included", "excluded"}
Search == [fun : {"get", "check"}, name : Name, oid : Oid]

\* wild: the positions whose bit in viewMask is clear (VIEW_MASK reads a bit
\* beyond viewMaskLen as set).
Entry == {e \in [name : Name, oid : Subtree, wild : SUBSET (1..MaxLen), type : Type] :
            e.wild \subseteq DOMAIN e.oid}

\* Api_oidCompare for two of one length: a is smaller.
Precedes(a, b) ==
    \E p \in DOMAIN a : a[p] < b[p] /\ \A q \in 1..(p - 1) : a[q] = b[q]

\* The loops over oidpos.
Agrees(e, o, n) == \A p \in 1..n : p \in e.wild \/ o[p] = e.oid[p]

Matches(e, n, o) ==
    e.name = n /\ Len(o) \geq Len(e.oid) /\ Agrees(e, o, Len(e.oid))

\* "If the subtree defined in the view is longer than the subtree we are
\* comparing, then it might ambiguate our response."
Reaches(e, n, o) ==
    e.name = n /\ Len(o) < Len(e.oid) /\ Agrees(e, o, Len(o))

\* "longer than the previous or (equal and lexicographically greater than the
\* previous)"
Beats(e, f) ==
    \/ Len(e.oid) > Len(f.oid)
    \/ Len(e.oid) = Len(f.oid) /\ Precedes(f.oid, e.oid)

-----------------------------------------------------------------------------
Init ==
    /\ views = <<>> /\ vp = 0 /\ shorter = 0 /\ longer = 0 /\ verdict = "none"
    /\ ask \in Search

\* The list changes between two searches.
Change(list) ==
    /\ vp = 0 /\ views' = list /\ verdict' = "none"
    /\ UNCHANGED <<ask, vp, shorter, longer>>

\* The entries viewCreate does not go past.
After(e, n, o) ==
    \/ e.name > n
    \/ e.name = n /\ (\/ Len(e.oid) > Len(o)
                      \/ Len(e.oid) = Len(o) /\ Precedes(o, e.oid))

\* viewCreate, and its caller fills the entry in (VacmConf_parseView).
ViewCreate(e) ==
    /\ Len(views) < MaxViews
    /\ \E i \in 1..(Len(views) + 1) :
          /\ \A j \in 1..(i - 1) : ~After(views[j], e.name, e.oid)
          /\ i \leq Len(views) => After(views[i], e.name, e.oid)
          /\ Change(InsertAt(views, i, e))

ViewDestroy(n, o) ==
    \E i \in DOMAIN views :
       /\ views[i].name = n /\ views[i].oid = o
       /\ \A j \in 1..(i - 1) : views[j].name # n \/ views[j].oid # o
       /\ Change(RemoveAt(views, i))

ViewClear == views # <<>> /\ Change(<<>>)

-----------------------------------------------------------------------------
\* A call of viewGet or viewSubtreeCheck (VacmConf_checkViewContents).
Start(s) ==
    /\ vp = 0
    /\ ask' = s /\ vp' = 1 /\ shorter' = 0 /\ longer' = 0 /\ verdict' = "none"
    /\ UNCHANGED views

Here == views[vp]

\* Mutant: the last match is kept.
KeptLast == vp

Kept == IF shorter = 0 \/ Beats(Here, views[shorter]) THEN vp ELSE shorter

\* "match successful, keep this node"
PassShorter ==
    /\ vp \in DOMAIN views /\ Matches(Here, ask.name, ask.oid)
    /\ shorter' = Kept
    /\ vp' = vp + 1
    /\ UNCHANGED <<views, ask, longer, verdict>>

\* "If we already found a match with a different view type, then parts of the
\* subtree are included and others are excluded, so return UNKNOWN."
PassLonger ==
    /\ vp \in DOMAIN views /\ ask.fun = "check" /\ Reaches(Here, ask.name, ask.oid)
    /\ IF longer # 0 /\ views[longer].type # Here.type
       THEN verdict' = "unknown" /\ vp' = 0 /\ UNCHANGED longer
       ELSE /\ longer' = IF longer = 0 THEN vp ELSE longer
            /\ vp' = vp + 1
            /\ UNCHANGED verdict
    /\ UNCHANGED <<views, ask, shorter>>

PassOther ==
    /\ vp \in DOMAIN views /\ ~Matches(Here, ask.name, ask.oid)
    /\ ask.fun = "get" \/ ~Reaches(Here, ask.name, ask.oid)
    /\ vp' = vp + 1
    /\ UNCHANGED <<views, ask, shorter, longer, verdict>>

\* Mutant: without a shorter match the longer ones are not looked at.
ConflictShorter == longer # 0 /\ shorter # 0 /\ views[longer].type # views[shorter].type

\* "No matching shorter OID was found and the view type of the longer OID is
\* INCLUDE", or "its view type doesn't match the view type of the longer OID".
Conflict ==
    /\ longer # 0
    /\ views[longer].type # IF shorter = 0 THEN "excluded" ELSE views[shorter].type

Finish ==
    /\ vp > Len(views)
    /\ vp' = 0
    /\ verdict' = CASE ask.fun = "check" /\ Conflict -> "unknown"
                    [] ask.fun = "check" /\ ~Conflict /\ shorter = 0 -> "excluded"
                    [] ask.fun = "get" /\ shorter = 0 -> "noview"
                    [] OTHER -> views[shorter].type
    /\ UNCHANGED <<views, ask, shorter, longer>>

Next ==
    \/ \E e \in Entry : ViewCreate(e)
    \/ \E n \in Name, o \in Subtree : ViewDestroy(n, o)
    \/ ViewClear
    \/ \E s \in Search : Start(s)
    \/ PassShorter \/ PassLonger \/ PassOther \/ Finish

Spec == Init /\ [][Next]_viewVars

-----------------------------------------------------------------------------
Position == 0..Len(views)

\* Entry i decides about o: among the matches none beats it, and of several
\* for one subtree it is the first.
Best(i, k, n, o) ==
    /\ Matches(views[i], n, o)
    /\ \A j \in 1..k : Matches(views[j], n, o) =>
          /\ ~Beats(views[j], views[i])
          /\ j < i => views[j].oid # views[i].oid

(* What the loops know at each entry: vpShorter decides among the entries  *)
(* passed, and all those passed that reach below the subtree have the type *)
(* of vpLonger (Vacm_viewGet, Vacm_viewSubtreeCheck).                      *)
ScanInv ==
    /\ views \in Seq(Entry) /\ ask \in Search /\ vp \in 0..(Len(views) + 1)
    /\ verdict \in Type \cup {"none", "noview", "unknown"}
    /\ vp # 0 =>
         /\ verdict = "none"
         /\ shorter \in 0..(vp - 1) /\ longer \in 0..(vp - 1)
         /\ IF shorter # 0 THEN Best(shorter, vp - 1, ask.name, ask.oid)
            ELSE \A j \in 1..(vp - 1) : ~Matches(views[j], ask.name, ask.oid)
         /\ ask.fun = "check" =>
              \A j \in 1..(vp - 1) : Reaches(views[j], ask.name, ask.oid) =>
                  longer # 0 /\ views[j].type = views[longer].type

Decided(o, type) ==
    \A i \in DOMAIN views : Best(i, Len(views), ask.name, o) => views[i].type = type
Matched(o) == \E i \in DOMAIN views : Matches(views[i], ask.name, o)

Below(o) == {x \in Oid : Len(x) \geq Len(o) /\ \A p \in DOMAIN o : x[p] = o[p]}

(* What viewSubtreeCheck says of a subtree holds for every name in it, as  *)
(* the entry that decides about that name says.                            *)
CheckSound ==
    ask.fun = "check" =>
        \A x \in Below(ask.oid) :
            /\ verdict = "included" => Matched(x) /\ Decided(x, "included")
            /\ verdict = "excluded" => Decided(x, "excluded")

(* viewGet answers with the type of the entry that decides about the name, *)
(* and without one only if no entry matches.                               *)
GetSound ==
    ask.fun = "get" =>
        /\ verdict \in Type => Matched(ask.oid) /\ Decided(ask.oid, verdict)
        /\ verdict = "noview" => ~Matched(ask.oid)

(* Whatever entries were made and removed in whatever order, both searches *)
(* return what the deciding entries say.                                   *)
VerdictSound == CheckSound /\ GetSound
=============================================================================

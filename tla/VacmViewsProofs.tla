--------------------------- MODULE VacmViewsProofs ---------------------------
(***************************************************************************)
(* The searches of VacmViews answer correctly for every set of object      *)
(* identifiers, every list of entries and every mask: ScanInv is the loop  *)
(* invariant of both, and with it the verdicts are sound.                  *)
(***************************************************************************)
EXTENDS VacmViews, TLAPS, SequenceTheorems, WellFoundedInduction

-----------------------------------------------------------------------------
(* The order of object identifiers of one length.                          *)
LEMMA LeastExists ==
    ASSUME NEW S \in SUBSET Nat, S # {}
    PROVE  \E m \in S : \A k \in S : m <= k
<1>1. PICK m \in S : \A k \in S : <<k, m>> \notin OpToRel(<, Nat)
  BY NatLessThanWellFounded, WFMin
<1>2. \A k \in S : ~(k < m)
  BY <1>1 DEF OpToRel
<1> QED BY <1>2

LEMMA PrecedesTransitive ==
    ASSUME NEW a \in Seq(Nat), NEW b \in Seq(Nat), NEW c \in Seq(Nat),
           Len(a) = Len(b), Len(b) = Len(c), Precedes(a, b), Precedes(b, c)
    PROVE  Precedes(a, c)
<1>1. PICK p \in DOMAIN a : a[p] < b[p] /\ \A q \in 1..(p - 1) : a[q] = b[q]
  BY DEF Precedes
<1>2. PICK r \in DOMAIN b : b[r] < c[r] /\ \A q \in 1..(r - 1) : b[q] = c[q]
  BY DEF Precedes
<1>3. /\ Len(a) \in Nat /\ p \in 1..Len(a) /\ r \in 1..Len(a)
      /\ DOMAIN a = 1..Len(a)
      /\ \A i \in 1..Len(a) : a[i] \in Nat /\ b[i] \in Nat /\ c[i] \in Nat
  BY LenProperties, ElementOfSeq
<1>4. CASE p < r
  <2>1. p \in 1..(r - 1) /\ \A q \in 1..(p - 1) : q \in 1..(r - 1)
    BY <1>3, <1>4
  <2>2. a[p] < c[p] /\ \A q \in 1..(p - 1) : a[q] = c[q]
    BY <1>1, <1>2, <2>1
  <2> QED BY <2>2 DEF Precedes
<1>5. CASE r < p
  <2>1. r \in 1..(p - 1) /\ \A q \in 1..(r - 1) : q \in 1..(p - 1)
    BY <1>3, <1>5
  <2>2. a[r] < c[r] /\ \A q \in 1..(r - 1) : a[q] = c[q]
    BY <1>1, <1>2, <2>1
  <2> QED BY <2>2, <1>3 DEF Precedes
<1>6. CASE r = p
  <2>1. a[p] < c[p] /\ \A q \in 1..(p - 1) : a[q] = c[q]
    BY <1>1, <1>2, <1>3, <1>6
  <2> QED BY <2>1 DEF Precedes
<1> QED BY <1>3, <1>4, <1>5, <1>6

LEMMA PrecedesTotal ==
    ASSUME NEW a \in Seq(Nat), NEW b \in Seq(Nat), Len(a) = Len(b)
    PROVE  a = b \/ Precedes(a, b) \/ Precedes(b, a)
<1> DEFINE D == {p \in 1..Len(a) : a[p] # b[p]}
<1>1. CASE D = {}
  <2>1. \A p \in 1..Len(a) : a[p] = b[p]
    BY <1>1
  <2> QED BY <2>1, SeqEqual
<1>2. CASE D # {}
  <2>1. D \in SUBSET Nat
    OBVIOUS
  <2>2. PICK m \in D : \A k \in D : m <= k
    BY <1>2, <2>1, LeastExists
  <2>3. m \in DOMAIN a /\ m \in DOMAIN b /\ a[m] \in Nat /\ b[m] \in Nat /\ a[m] # b[m]
    OBVIOUS
  <2>4. \A q \in 1..(m - 1) : a[q] = b[q] /\ b[q] = a[q]
    BY <2>2
  <2>5. CASE a[m] < b[m]
    BY <2>3, <2>4, <2>5 DEF Precedes
  <2>6. CASE b[m] < a[m]
    BY <2>3, <2>4, <2>6 DEF Precedes
  <2> QED BY <2>3, <2>5, <2>6
<1> QED BY <1>1, <1>2

LEMMA PrecedesIrreflexive ==
    ASSUME NEW a \in Seq(Nat)
    PROVE  ~Precedes(a, a)
BY DEF Precedes

LEMMA EntryType ==
    ASSUME NEW e \in Entry
    PROVE  /\ e.oid \in Seq(Nat) /\ Len(e.oid) \in Nat
           /\ e.type \in Type /\ e.name \in Name
BY ViewsAssumption DEF Entry

(* Which of two matches is kept is a strict order that leaves apart only   *)
(* entries for the same subtree.                                           *)
LEMMA BeatsTransitive ==
    ASSUME NEW e \in Entry, NEW f \in Entry, NEW g \in Entry, Beats(e, f), Beats(f, g)
    PROVE  Beats(e, g)
BY EntryType, PrecedesTransitive DEF Beats

LEMMA BeatsTotal ==
    ASSUME NEW e \in Entry, NEW f \in Entry, ~Beats(e, f), ~Beats(f, e)
    PROVE  e.oid = f.oid
BY EntryType, PrecedesTotal DEF Beats

LEMMA BeatsIrreflexive ==
    ASSUME NEW e \in Entry, NEW f \in Entry, e.oid = f.oid
    PROVE  ~Beats(e, f)
BY EntryType, PrecedesIrreflexive DEF Beats

-----------------------------------------------------------------------------
(* The list keeps its type when an entry is put in or taken out.           *)
LEMMA ListType ==
    ASSUME views \in Seq(Entry)
    PROVE  /\ \A i \in 1..(Len(views) + 1), e \in Entry : InsertAt(views, i, e) \in Seq(Entry)
           /\ \A i \in DOMAIN views : RemoveAt(views, i) \in Seq(Entry)
<1>1. Len(views) \in Nat /\ DOMAIN views = 1..Len(views) /\ \A j \in 1..Len(views) : views[j] \in Entry
  BY LenProperties, ElementOfSeq
<1>2. \A i, j \in Nat : 1 <= i /\ j <= Len(views) => SubSeq(views, i, j) \in Seq(Entry)
  <2> TAKE i, j \in Nat
  <2> HAVE 1 <= i /\ j <= Len(views)
  <2>1. \A k \in i..j : views[k] \in Entry
    BY <1>1
  <2> QED BY <2>1, SubSeqProperties
<1>3. ASSUME NEW i \in 1..(Len(views) + 1), NEW e \in Entry
      PROVE  InsertAt(views, i, e) \in Seq(Entry)
  <2>1. /\ SubSeq(views, 1, i - 1) \in Seq(Entry)
        /\ SubSeq(views, i, Len(views)) \in Seq(Entry)
        /\ <<e>> \in Seq(Entry)
    BY <1>1, <1>2
  <2> QED BY <2>1, ConcatProperties DEF InsertAt
<1>4. ASSUME NEW i \in DOMAIN views
      PROVE  RemoveAt(views, i) \in Seq(Entry)
  <2>1. /\ SubSeq(views, 1, i - 1) \in Seq(Entry)
        /\ SubSeq(views, i + 1, Len(views)) \in Seq(Entry)
    BY <1>1, <1>2
  <2> QED BY <2>1, ConcatProperties DEF RemoveAt
<1> QED BY <1>3, <1>4

LEMMA ViewFacts ==
    ASSUME ScanInv
    PROVE  /\ Len(views) \in Nat /\ DOMAIN views = 1..Len(views)
           /\ \A i \in 1..Len(views) : views[i] \in Entry
           /\ ask.fun \in {"get", "check"} /\ ask.name \in Name /\ ask.oid \in Oid
           /\ vp \in Nat
BY LenProperties, ElementOfSeq DEF ScanInv, Search

\* A list that changed, or a search that goes on, has no verdict to defend.
LEMMA NoVerdict ==
    ASSUME verdict' \in {"none", "unknown"}
    PROVE  VerdictSound'
BY DEF VerdictSound, CheckSound, GetSound, Type

LEMMA ChangeKeeps ==
    ASSUME ScanInv, NEW list \in Seq(Entry), Change(list)
    PROVE  ScanInv' /\ VerdictSound'
<1>1. ScanInv'
  <2>1. Len(list) \in Nat
    BY LenProperties
  <2> QED BY <2>1 DEF ScanInv, Change
<1> QED BY <1>1, NoVerdict DEF Change

LEMMA StartKeeps ==
    ASSUME ScanInv, NEW s \in Search, Start(s)
    PROVE  ScanInv' /\ VerdictSound'
<1>1. ScanInv'
  BY ViewFacts DEF ScanInv, Start
<1> QED BY <1>1, NoVerdict DEF Start

-----------------------------------------------------------------------------
(* The turns of the loops.                                                 *)
LEMMA PassShorterKeeps ==
    ASSUME ScanInv, PassShorter
    PROVE  ScanInv' /\ VerdictSound'
<1> DEFINE n == ask.name  o == ask.oid
<1>1. /\ vp \in 1..Len(views) /\ vp' = vp + 1 /\ shorter' = Kept /\ Matches(views[vp], n, o)
      /\ views' = views /\ ask' = ask /\ longer' = longer /\ verdict' = verdict
      /\ verdict = "none" /\ shorter \in 0..(vp - 1) /\ longer \in 0..(vp - 1)
  BY ViewFacts DEF PassShorter, Here, ScanInv
<1>2. Kept \in 1..vp
  BY <1>1 DEF Kept
<1>3. Best(Kept, vp, n, o)
  <2>1. CASE shorter = 0
    <3>1. Kept = vp /\ \A j \in 1..(vp - 1) : ~Matches(views[j], n, o)
      BY <1>1, <2>1 DEF ScanInv, Kept
    <3>2. ~Beats(views[vp], views[vp])
      BY <1>1, ViewFacts, BeatsIrreflexive
    <3>3. \A j \in 1..vp : Matches(views[j], n, o) => j = vp
      BY <3>1, <1>1
    <3> QED BY <3>1, <3>2, <3>3, <1>1 DEF Best
  <2>2. CASE shorter # 0
    <3>1. Best(shorter, vp - 1, n, o) /\ shorter \in 1..(vp - 1)
      BY <1>1, <2>2 DEF ScanInv
    <3>2. CASE Beats(views[vp], views[shorter])
      <4>1. Kept = vp
        BY <3>2 DEF Kept, Here
      <4> SUFFICES ASSUME NEW j \in 1..vp, Matches(views[j], n, o)
                   PROVE  ~Beats(views[j], views[vp]) /\ (j < vp => views[j].oid # views[vp].oid)
        BY <4>1, <1>1 DEF Best
      <4>2. views[j] \in Entry /\ views[vp] \in Entry /\ views[shorter] \in Entry
        BY <1>1, <3>1, ViewFacts
      <4>3. CASE j = vp
        BY <4>2, <4>3, <1>1, BeatsIrreflexive
      <4>4. CASE j # vp
        <5>1. ~Beats(views[j], views[shorter])
          BY <4>4, <3>1, <1>1 DEF Best
        <5>2. ~Beats(views[j], views[vp])
          BY <5>1, <4>2, <3>2, BeatsTransitive
        <5>3. views[j].oid # views[vp].oid
          BY <5>1, <3>2 DEF Beats
        <5> QED BY <5>2, <5>3
      <4> QED BY <4>3, <4>4
    <3>3. CASE ~Beats(views[vp], views[shorter])
      <4>1. Kept = shorter
        BY <3>3, <2>2 DEF Kept, Here
      <4>2. \A j \in 1..vp : j = vp \/ j \in 1..(vp - 1)
        BY <1>1
      <4> QED BY <4>1, <4>2, <3>1, <3>3, <1>1 DEF Best
    <3> QED BY <3>2, <3>3
  <2> QED BY <2>1, <2>2
<1>4. ask.fun = "check" => \A j \in 1..vp : Reaches(views[j], n, o) =>
                              longer # 0 /\ views[j].type = views[longer].type
  <2>1. ~Reaches(views[vp], n, o)
    <3>1. Len(o) \in Nat /\ Len(views[vp].oid) \in Nat
      BY <1>1, ViewFacts, EntryType, ViewsAssumption, LenProperties
    <3> QED BY <3>1, <1>1 DEF Matches, Reaches
  <2>2. \A j \in 1..vp : j = vp \/ j \in 1..(vp - 1)
    BY <1>1
  <2> QED BY <2>1, <2>2, <1>1 DEF ScanInv
<1>5. ScanInv'
  <2>1. views' \in Seq(Entry) /\ ask' \in Search /\ vp' \in 0..(Len(views') + 1) /\ vp' - 1 = vp
    BY <1>1, ViewFacts DEF ScanInv
  <2>2. shorter' \in 0..(vp' - 1) /\ longer' \in 0..(vp' - 1) /\ shorter' # 0
    BY <1>1, <1>2, <2>1
  <2>3. Best(shorter, vp - 1, ask.name, ask.oid)'
    BY <1>1, <1>3, <2>1 DEF Best
  <2>4. (ask.fun = "check" => \A j \in 1..(vp - 1) : Reaches(views[j], ask.name, ask.oid) =>
                              longer # 0 /\ views[j].type = views[longer].type)'
    BY <1>1, <1>4, <2>1
  <2> QED BY <1>1, <2>1, <2>2, <2>3, <2>4 DEF ScanInv
<1> QED BY <1>1, <1>5, NoVerdict

\* An entry that is no match leaves what is known of vpShorter.
LEMMA ShorterStays ==
    ASSUME ScanInv, vp \in 1..Len(views), ~Matches(views[vp], ask.name, ask.oid)
    PROVE  /\ shorter # 0 => Best(shorter, vp, ask.name, ask.oid)
           /\ shorter = 0 => \A j \in 1..vp : ~Matches(views[j], ask.name, ask.oid)
<1>1. \A j \in 1..vp : j = vp \/ j \in 1..(vp - 1)
  OBVIOUS
<1> QED BY <1>1 DEF ScanInv, Best

LEMMA PassLongerKeeps ==
    ASSUME ScanInv, PassLonger
    PROVE  ScanInv' /\ VerdictSound'
<1> DEFINE n == ask.name  o == ask.oid
<1>1. /\ vp \in 1..Len(views) /\ Reaches(views[vp], n, o) /\ ask.fun = "check"
      /\ views' = views /\ ask' = ask /\ shorter' = shorter
      /\ verdict = "none" /\ shorter \in 0..(vp - 1) /\ longer \in 0..(vp - 1)
  BY ViewFacts DEF PassLonger, Here, ScanInv
<1>2. ~Matches(views[vp], n, o)
  <2>1. Len(o) \in Nat /\ Len(views[vp].oid) \in Nat
    BY <1>1, ViewFacts, EntryType, ViewsAssumption, LenProperties
  <2> QED BY <2>1, <1>1 DEF Matches, Reaches
<1>3. CASE longer # 0 /\ views[longer].type # views[vp].type
  <2>1. verdict' = "unknown" /\ vp' = 0
    BY <1>3 DEF PassLonger, Here
  <2> QED BY <1>1, <2>1, NoVerdict, ViewFacts DEF ScanInv
<1>4. CASE ~(longer # 0 /\ views[longer].type # views[vp].type)
  <2>1. /\ longer' = (IF longer = 0 THEN vp ELSE longer)
        /\ vp' = vp + 1 /\ verdict' = verdict
    BY <1>4 DEF PassLonger, Here
  <2>2. \A j \in 1..vp : Reaches(views[j], n, o) =>
            longer' # 0 /\ views[j].type = views[longer'].type
    <3>1. \A j \in 1..vp : j = vp \/ j \in 1..(vp - 1)
      BY <1>1
    <3>2. \A j \in 1..(vp - 1) : Reaches(views[j], n, o) =>
              longer # 0 /\ views[j].type = views[longer].type
      BY <1>1 DEF ScanInv
    <3> QED BY <1>1, <1>4, <2>1, <3>1, <3>2
  <2>3. vp' \in 0..(Len(views') + 1) /\ vp' - 1 = vp
        /\ shorter' \in 0..(vp' - 1) /\ longer' \in 0..(vp' - 1)
    BY <1>1, <2>1, ViewFacts
  <2>4. /\ shorter' # 0 => Best(shorter, vp - 1, ask.name, ask.oid)'
        /\ shorter' = 0 => (\A j \in 1..(vp - 1) : ~Matches(views[j], ask.name, ask.oid))'
    BY <1>1, <1>2, <2>3, ShorterStays DEF Best
  <2>5. (\A j \in 1..(vp - 1) : Reaches(views[j], ask.name, ask.oid) =>
            longer # 0 /\ views[j].type = views[longer].type)'
    BY <1>1, <2>2, <2>3
  <2>6. views' \in Seq(Entry) /\ ask' \in Search /\ verdict' = "none"
    BY <1>1, <2>1 DEF ScanInv
  <2>7. ScanInv'
    BY <2>3, <2>4, <2>5, <2>6 DEF ScanInv
  <2> QED BY <2>6, <2>7, NoVerdict
<1> QED BY <1>3, <1>4

LEMMA PassOtherKeeps ==
    ASSUME ScanInv, PassOther
    PROVE  ScanInv' /\ VerdictSound'
<1>1. /\ vp \in 1..Len(views) /\ ~Matches(views[vp], ask.name, ask.oid) /\ vp' = vp + 1
      /\ ask.fun = "check" => ~Reaches(views[vp], ask.name, ask.oid)
      /\ views' = views /\ ask' = ask /\ shorter' = shorter /\ longer' = longer
      /\ verdict = "none" /\ verdict' = "none"
      /\ shorter \in 0..(vp - 1) /\ longer \in 0..(vp - 1)
  BY ViewFacts DEF PassOther, Here, ScanInv
<1>2. vp' \in 0..(Len(views') + 1) /\ vp' - 1 = vp
      /\ shorter' \in 0..(vp' - 1) /\ longer' \in 0..(vp' - 1)
  BY <1>1, ViewFacts
<1>3. /\ shorter' # 0 => Best(shorter, vp - 1, ask.name, ask.oid)'
      /\ shorter' = 0 => (\A j \in 1..(vp - 1) : ~Matches(views[j], ask.name, ask.oid))'
  BY <1>1, <1>2, ShorterStays DEF Best
<1>4. (ask.fun = "check" => \A j \in 1..(vp - 1) : Reaches(views[j], ask.name, ask.oid) =>
            longer # 0 /\ views[j].type = views[longer].type)'
  <2>1. \A j \in 1..vp : j = vp \/ j \in 1..(vp - 1)
    BY <1>1
  <2> QED BY <1>1, <1>2, <2>1 DEF ScanInv
<1>5. views' \in Seq(Entry) /\ ask' \in Search
  BY <1>1 DEF ScanInv
<1>6. ScanInv'
  BY <1>1, <1>2, <1>3, <1>4, <1>5 DEF ScanInv
<1> QED BY <1>1, <1>6, NoVerdict

-----------------------------------------------------------------------------
(* What a search returns.                                                  *)

\* A match for a subtree matches every name in it, and what matches such a
\* name matches the subtree or reaches below it.
LEMMA MatchBelow ==
    ASSUME NEW e \in Entry, NEW n, NEW o \in Oid, NEW x \in Below(o)
    PROVE  /\ Matches(e, n, o) => Matches(e, n, x)
           /\ Matches(e, n, x) => Matches(e, n, o) \/ Reaches(e, n, o)
<1>1. /\ Len(e.oid) \in Nat /\ Len(o) \in Nat /\ Len(x) \in Nat /\ Len(x) >= Len(o)
      /\ \A p \in 1..Len(o) : x[p] = o[p]
  BY EntryType, ViewsAssumption, LenProperties DEF Below
<1>2. Len(e.oid) <= Len(o) => \A p \in 1..Len(e.oid) : p \in 1..Len(o)
  BY <1>1
<1>3. Len(o) < Len(e.oid) => \A p \in 1..Len(o) : p \in 1..Len(e.oid)
  BY <1>1
<1> QED BY <1>1, <1>2, <1>3 DEF Matches, Reaches, Agrees

\* The match that decides about a subtree is the only one of its length or
\* less that may decide about a name in it.
LEMMA SameMatch ==
    ASSUME views \in Seq(Entry), NEW n, NEW o, NEW x,
           NEW s \in DOMAIN views, NEW i \in DOMAIN views,
           Best(s, Len(views), n, o), Matches(views[i], n, o),
           Best(i, Len(views), n, x), Matches(views[s], n, x)
    PROVE  i = s
<1>1. /\ DOMAIN views = 1..Len(views) /\ Len(views) \in Nat
      /\ views[s] \in Entry /\ views[i] \in Entry
  BY LenProperties, ElementOfSeq
<1>2. ~Beats(views[i], views[s]) /\ (i < s => views[i].oid # views[s].oid)
  BY <1>1 DEF Best
<1>3. ~Beats(views[s], views[i]) /\ (s < i => views[s].oid # views[i].oid)
  BY <1>1 DEF Best
<1>4. views[i].oid = views[s].oid
  BY <1>1, <1>2, <1>3, BeatsTotal
<1> QED BY <1>1, <1>2, <1>3, <1>4

LEMMA FinishKeeps ==
    ASSUME ScanInv, Finish
    PROVE  ScanInv' /\ VerdictSound'
<1> DEFINE n == ask.name  o == ask.oid
<1>1. /\ vp = Len(views) + 1 /\ vp # 0 /\ vp' = 0 /\ views' = views /\ ask' = ask
      /\ shorter' = shorter /\ longer' = longer /\ vp - 1 = Len(views)
      /\ shorter \in 0..Len(views) /\ longer \in 0..Len(views)
  BY ViewFacts DEF Finish, ScanInv
<1>2. /\ shorter # 0 => Best(shorter, Len(views), n, o)
      /\ shorter = 0 => \A j \in 1..Len(views) : ~Matches(views[j], n, o)
      /\ ask.fun = "check" => \A j \in 1..Len(views) : Reaches(views[j], n, o) =>
                                 longer # 0 /\ views[j].type = views[longer].type
  BY <1>1 DEF ScanInv
<1>3. \A j \in 1..Len(views) : views[j] \in Entry /\ views[j].type \in Type
  BY ViewFacts, EntryType
<1>4. /\ ask.fun = "check" /\ Conflict => verdict' = "unknown"
      /\ ask.fun = "check" /\ ~Conflict => verdict' = IF shorter = 0 THEN "excluded" ELSE views[shorter].type
      /\ ask.fun = "get" => verdict' = IF shorter = 0 THEN "noview" ELSE views[shorter].type
  BY ViewFacts DEF Finish
<1>5. verdict' \in Type \cup {"noview", "unknown"}
  BY <1>1, <1>3, <1>4, ViewFacts DEF Type
<1>6. ScanInv'
  BY <1>1, <1>5, ViewFacts DEF ScanInv
<1>7. ASSUME ask.fun = "check", NEW x \in Below(o)
      PROVE  /\ verdict' = "included" => Matched(x) /\ Decided(x, "included")
             /\ verdict' = "excluded" => Decided(x, "excluded")
  <2>1. CASE Conflict
    BY <1>4, <1>7, <2>1
  <2>2. CASE ~Conflict
    <3>1. verdict' = IF shorter = 0 THEN "excluded" ELSE views[shorter].type
      BY <1>4, <1>7, <2>2
    <3>2. shorter # 0 => Matched(x) /\ Matches(views[shorter], n, x)
      <4> HAVE shorter # 0
      <4>1. shorter \in DOMAIN views /\ views[shorter] \in Entry /\ Matches(views[shorter], n, o)
        BY <1>1, <1>2, <1>3, ViewFacts DEF Best
      <4> QED BY <4>1, MatchBelow, ViewFacts DEF Matched
    <3>3. ASSUME NEW i \in DOMAIN views, Best(i, Len(views), n, x)
          PROVE  views[i].type = verdict'
      <4>1. views[i] \in Entry /\ Matches(views[i], n, x) /\ i \in 1..Len(views)
        BY <1>3, <3>3, ViewFacts DEF Best
      <4>2. CASE Matches(views[i], n, o)
        <5>1. shorter # 0 /\ shorter \in DOMAIN views
          BY <1>1, <1>2, <4>1, <4>2, ViewFacts
        <5>2. i = shorter
          BY <1>2, <3>2, <3>3, <4>2, <5>1, SameMatch DEF ScanInv
        <5> QED BY <3>1, <5>1, <5>2
      <4>3. CASE Reaches(views[i], n, o)
        <5>1. longer # 0 /\ views[i].type = views[longer].type
          BY <1>2, <1>7, <4>1, <4>3
        <5> QED BY <2>2, <3>1, <5>1 DEF Conflict
      <4> QED BY <4>1, <4>2, <4>3, MatchBelow, ViewFacts
    <3> QED BY <3>1, <3>2, <3>3 DEF Decided
  <2> QED BY <2>1, <2>2
<1>8. CheckSound'
  <2>1. ASSUME ask.fun = "check", NEW x \in Below(o)
        PROVE  /\ verdict' = "included" => Matched(x)' /\ Decided(x, "included")'
               /\ verdict' = "excluded" => Decided(x, "excluded")'
    BY <1>1, <1>7, <2>1 DEF Matched, Decided, Best
  <2> QED BY <1>1, <2>1 DEF CheckSound
<1>9. GetSound'
  <2>1. CASE ask.fun = "get" /\ shorter # 0
    <3>1. shorter \in DOMAIN views /\ Matches(views[shorter], n, o) /\ verdict' = views[shorter].type
          /\ verdict' \in Type
      BY <1>1, <1>2, <1>3, <1>4, <2>1, ViewFacts DEF Best
    <3>2. \A i \in DOMAIN views : Best(i, Len(views), n, o) => i = shorter
      <4> TAKE i \in DOMAIN views
      <4> HAVE Best(i, Len(views), n, o)
      <4>1. Matches(views[i], n, o)
        BY DEF Best
      <4> QED BY <1>2, <2>1, <3>1, <4>1, SameMatch DEF ScanInv
    <3>3. Matched(ask.oid)' /\ Decided(ask.oid, verdict)'
      BY <1>1, <3>1, <3>2 DEF Matched, Decided, Best
    <3> QED BY <3>1, <3>3 DEF GetSound, Type
  <2>2. CASE ask.fun = "get" /\ shorter = 0
    <3>1. verdict' = "noview" /\ ~Matched(o)
      BY <1>2, <1>4, <2>2, ViewFacts DEF Matched
    <3> QED BY <1>1, <3>1 DEF GetSound, Matched, Type
  <2>3. CASE ask.fun # "get"
    BY <1>1, <2>3 DEF GetSound
  <2> QED BY <2>1, <2>2, <2>3
<1> QED BY <1>6, <1>8, <1>9 DEF VerdictSound

-----------------------------------------------------------------------------
ViewsInv == ScanInv /\ VerdictSound

LEMMA InitViews == Init => ViewsInv
<1> SUFFICES ASSUME Init PROVE ViewsInv
  OBVIOUS
<1>1. ScanInv
  BY EmptySeq DEF Init, ScanInv
<1>2. VerdictSound
  BY DEF Init, VerdictSound, CheckSound, GetSound, Type
<1> QED BY <1>1, <1>2 DEF ViewsInv

LEMMA NextViews == ViewsInv /\ [Next]_viewVars => ViewsInv'
<1> SUFFICES ASSUME ScanInv, VerdictSound, Next \/ UNCHANGED viewVars
             PROVE  ScanInv' /\ VerdictSound'
  BY DEF ViewsInv
<1>1. ASSUME NEW e \in Entry, ViewCreate(e)
      PROVE  ScanInv' /\ VerdictSound'
  <2>1. PICK i \in 1..(Len(views) + 1) : Change(InsertAt(views, i, e))
    BY <1>1 DEF ViewCreate
  <2> QED BY <2>1, ListType, ChangeKeeps DEF ScanInv
<1>2. ASSUME NEW n \in Name, NEW o \in Subtree, ViewDestroy(n, o)
      PROVE  ScanInv' /\ VerdictSound'
  <2>1. PICK i \in DOMAIN views : Change(RemoveAt(views, i))
    BY <1>2 DEF ViewDestroy
  <2> QED BY <2>1, ListType, ChangeKeeps DEF ScanInv
<1>3. CASE ViewClear
  BY <1>3, EmptySeq, ChangeKeeps DEF ViewClear
<1>4. ASSUME NEW s \in Search, Start(s)
      PROVE  ScanInv' /\ VerdictSound'
  BY <1>4, StartKeeps
<1>5. CASE UNCHANGED viewVars
  BY <1>5 DEF viewVars, ScanInv, Best, VerdictSound, CheckSound, GetSound, Matched, Decided
<1> QED BY <1>1, <1>2, <1>3, <1>4, <1>5, PassShorterKeeps, PassLongerKeeps, PassOtherKeeps,
           FinishKeeps DEF Next

(* Both loops keep what they know, for every list and every mask           *)
(* (Vacm_viewGet, Vacm_viewSubtreeCheck).                                  *)
THEOREM ScanCorrect == Spec => []ScanInv
<1>1. ViewsInv => ScanInv
  BY DEF ViewsInv
<1> QED BY <1>1, InitViews, NextViews, PTL DEF Spec

(* What is said of a subtree holds for each name in it, and what is said of *)
(* a name is what its deciding entry says.                                  *)
THEOREM VerdictCorrect == Spec => []VerdictSound
<1>1. ViewsInv => VerdictSound
  BY DEF ViewsInv
<1> QED BY <1>1, InitViews, NextViews, PTL DEF Spec
=============================================================================

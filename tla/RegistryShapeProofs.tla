------------------------- MODULE RegistryShapeProofs -------------------------
(***************************************************************************)
(* The pointers of the registration tree, for any nodes: the order of the   *)
(* names, the lists that the pointers make, the walk along them, and what   *)
(* each operation on pointers leaves of the shape that the nodes in the     *)
(* tree call for.                                                          *)
(***************************************************************************)
EXTENDS RegistryTree, TLAPS, SequenceTheorems, FiniteSetTheorems, WellFoundedInduction

-----------------------------------------------------------------------------
(* The order of names.                                                     *)

\* A non-empty set of numbers has a least element.
LEMMA LeastNumber ==
    ASSUME NEW S \in SUBSET Nat, S # {}
    PROVE  \E m \in S : \A k \in S : m \leq k
<1>1. PICK m \in S : \A k \in S : <<k, m>> \notin OpToRel(<, Nat)
  BY NatLessThanWellFounded, WFMin
<1>2. \A k \in S : ~(k < m)
  BY <1>1 DEF OpToRel
<1> QED BY <1>2

LEMMA NameFacts ==
    ASSUME NEW a \in Seq(Nat)
    PROVE  /\ Len(a) \in Nat /\ DOMAIN a = 1 .. Len(a)
           /\ \A i \in 1 .. Len(a) : a[i] \in Nat
BY LenProperties, ElementOfSeq

\* Where two names differ.
DiffersAt(a, b, i) ==
    /\ i \in 1 .. Len(a) + 1
    /\ i > Len(a) \/ i > Len(b) \/ a[i] # b[i]
    /\ \A j \in 1 .. i - 1 : j \leq Len(a) /\ j \leq Len(b) /\ a[j] = b[j]

LEMMA DifferAt ==
    ASSUME NEW a \in Seq(Nat), NEW b \in Seq(Nat)
    PROVE  /\ DiffersAt(a, b, Differ(a, b))
           /\ \A i : DiffersAt(a, b, i) => i = Differ(a, b)
<1> DEFINE S == {i \in 1 .. Len(a) + 1 : i > Len(a) \/ i > Len(b) \/ a[i] # b[i]}
           P(i) == /\ i > Len(a) \/ i > Len(b) \/ a[i] # b[i]
                   /\ \A j \in 1 .. i - 1 : j \leq Len(b) /\ a[j] = b[j]
<1>1. Len(a) \in Nat /\ Len(b) \in Nat
  BY NameFacts
<1>2. Len(a) + 1 \in S
  BY <1>1
<1>3. S \in SUBSET Nat
  BY <1>1
<1>4. PICK m \in S : \A k \in S : m \leq k
  BY <1>2, <1>3, LeastNumber
<1>5. m \in 1 .. Len(a) + 1 /\ P(m)
  <2>1. \A j \in 1 .. m - 1 : j \in 1 .. Len(a) + 1 /\ j \notin S
    BY <1>1, <1>4
  <2> QED BY <2>1, <1>1, <1>4
<1>6. Differ(a, b) = CHOOSE i \in 1 .. Len(a) + 1 : P(i)
  BY DEF Differ
<1> DEFINE D == CHOOSE i \in 1 .. Len(a) + 1 : P(i)
<1>7. D \in 1 .. Len(a) + 1 /\ P(D)
  BY <1>5
<1> HIDE DEF D
<1>8. DiffersAt(a, b, D)
  <2>1. \A j \in 1 .. D - 1 : j \leq Len(a) /\ j \leq Len(b) /\ a[j] = b[j]
    BY <1>7, <1>1
  <2> QED BY <2>1, <1>7 DEF DiffersAt
<1>9. ASSUME NEW i, DiffersAt(a, b, i), NEW k, DiffersAt(a, b, k), i < k
      PROVE  FALSE
  <2>1. i \in 1 .. Len(a) + 1 /\ k \in 1 .. Len(a) + 1 /\ i \in 1 .. k - 1
    BY <1>1, <1>9 DEF DiffersAt
  <2>2. i \leq Len(a) /\ i \leq Len(b) /\ a[i] = b[i]
    BY <2>1, <1>9 DEF DiffersAt
  <2>3. i > Len(a) \/ i > Len(b) \/ a[i] # b[i]
    BY <1>9 DEF DiffersAt
  <2> QED BY <2>1, <2>2, <2>3, <1>1
<1>10. ASSUME NEW i, DiffersAt(a, b, i) PROVE i = D
  <2>1. i \in Int /\ D \in Int
    BY <1>10, <1>8, <1>1 DEF DiffersAt
  <2> QED BY <2>1, <1>10, <1>8, <1>9
<1> QED BY <1>6, <1>8, <1>10 DEF D

LEMMA LessAt ==
    ASSUME NEW a \in Seq(Nat), NEW b \in Seq(Nat), NEW i, DiffersAt(a, b, i)
    PROVE  Less(a, b) <=> i \leq Len(b) /\ (i > Len(a) \/ a[i] < b[i])
BY DifferAt DEF Less

LEMMA LessIrreflexive ==
    ASSUME NEW a \in Seq(Nat)
    PROVE  ~Less(a, a)
<1>1. DiffersAt(a, a, Len(a) + 1)
  BY NameFacts DEF DiffersAt
<1> QED BY <1>1, LessAt, NameFacts

LEMMA LessTotal ==
    ASSUME NEW a \in Seq(Nat), NEW b \in Seq(Nat)
    PROVE  /\ a = b \/ Less(a, b) \/ Less(b, a)
           /\ ~(Less(a, b) /\ Less(b, a))
<1> DEFINE i == Differ(a, b)
<1>1. DiffersAt(a, b, i)
  BY DifferAt
<1> HIDE DEF i
<1>2. /\ Len(a) \in Nat /\ Len(b) \in Nat
      /\ \A j \in 1 .. Len(a) : a[j] \in Nat
      /\ \A j \in 1 .. Len(b) : b[j] \in Nat
  BY NameFacts
<1>3. i \in 1 .. Len(a) + 1 /\ i \in 1 .. Len(b) + 1
  <2>1. i > 1 => i - 1 \in 1 .. i - 1
    BY <1>1, <1>2 DEF DiffersAt
  <2> QED BY <1>1, <1>2, <2>1 DEF DiffersAt
<1>4. DiffersAt(b, a, i)
  BY <1>1, <1>2, <1>3 DEF DiffersAt
<1>5. /\ Less(a, b) <=> i \leq Len(b) /\ (i > Len(a) \/ a[i] < b[i])
      /\ Less(b, a) <=> i \leq Len(a) /\ (i > Len(b) \/ b[i] < a[i])
  BY <1>1, <1>4, LessAt
<1>6. CASE i > Len(a) /\ i > Len(b)
  <2>1. Len(a) = Len(b) /\ \A j \in 1 .. Len(a) : a[j] = b[j]
    BY <1>1, <1>2, <1>3, <1>6 DEF DiffersAt
  <2>2. a = b
    BY <2>1, SeqEqual
  <2> QED BY <2>2, <1>2, <1>3, <1>5, <1>6
<1>7. CASE i > Len(a) /\ ~(i > Len(b))
  BY <1>2, <1>3, <1>5, <1>7
<1>8. CASE ~(i > Len(a)) /\ i > Len(b)
  BY <1>2, <1>3, <1>5, <1>8
<1>9. CASE ~(i > Len(a)) /\ ~(i > Len(b))
  <2>1. a[i] # b[i] /\ a[i] \in Nat /\ b[i] \in Nat
    BY <1>1, <1>2, <1>3, <1>9 DEF DiffersAt
  <2> QED BY <2>1, <1>2, <1>3, <1>5, <1>9
<1> QED BY <1>6, <1>7, <1>8, <1>9

\* The names before the first difference agree, so the nearer of two
\* differences decides.
LEMMA LessTransitive ==
    ASSUME NEW a \in Seq(Nat), NEW b \in Seq(Nat), NEW c \in Seq(Nat),
           Less(a, b), Less(b, c)
    PROVE  Less(a, c)
<1> DEFINE i == Differ(a, b)
           k == Differ(b, c)
<1>1. DiffersAt(a, b, i) /\ DiffersAt(b, c, k)
  BY DifferAt
<1> HIDE DEF i, k
<1>2. /\ Len(a) \in Nat /\ Len(b) \in Nat /\ Len(c) \in Nat
      /\ \A j \in 1 .. Len(a) : a[j] \in Nat
      /\ \A j \in 1 .. Len(b) : b[j] \in Nat
      /\ \A j \in 1 .. Len(c) : c[j] \in Nat
  BY NameFacts
<1>3. /\ i \leq Len(b) /\ (i > Len(a) \/ a[i] < b[i])
      /\ k \leq Len(c) /\ (k > Len(b) \/ b[k] < c[k])
  BY <1>1, LessAt
<1>4. i \in 1 .. Len(a) + 1 /\ k \in 1 .. Len(b) + 1
  BY <1>1 DEF DiffersAt
<1>5. CASE i < k
  <2>1. i \in 1 .. k - 1
    BY <1>4, <1>5, <1>2
  <2>2. i \leq Len(b) /\ i \leq Len(c) /\ b[i] = c[i]
    BY <2>1, <1>1 DEF DiffersAt
  <2>5. i > Len(a) \/ a[i] # c[i]
    BY <2>2, <1>2, <1>3, <1>4, SMTT(20)
  <2>6. \A j \in 1 .. i - 1 : j \in 1 .. k - 1
    BY <1>4, <1>5, <1>2
  <2>7. \A j \in 1 .. i - 1 : j \leq Len(a) /\ j \leq Len(c) /\ a[j] = c[j]
    BY <2>6, <1>1 DEF DiffersAt
  <2>3. DiffersAt(a, c, i)
    BY <2>5, <2>7, <1>4 DEF DiffersAt
  <2>4. i > Len(a) \/ a[i] < c[i]
    BY <2>2, <1>3
  <2> QED BY <2>2, <2>3, <2>4, LessAt
<1>6. CASE k < i
  <2>1. k \in 1 .. i - 1
    BY <1>4, <1>6, <1>2
  <2>2. k \leq Len(a) /\ k \leq Len(b) /\ a[k] = b[k]
    BY <2>1, <1>1 DEF DiffersAt
  <2>3. k \leq Len(c) /\ a[k] < c[k] /\ a[k] # c[k]
    <3>1. ~(k > Len(b)) /\ k \in 1 .. Len(b) /\ k \in 1 .. Len(c)
      BY <2>2, <1>2, <1>3, <1>4
    <3> QED BY <3>1, <2>2, <1>2, <1>3
  <2>5. \A j \in 1 .. k - 1 : j \in 1 .. i - 1
    BY <1>4, <1>6, <1>2
  <2>6. \A j \in 1 .. k - 1 : j \leq Len(a) /\ j \leq Len(c) /\ a[j] = c[j]
    BY <2>5, <1>1 DEF DiffersAt
  <2>7. k \in 1 .. Len(a) + 1
    BY <2>2, <1>2, <1>4
  <2>4. DiffersAt(a, c, k)
    BY <2>3, <2>6, <2>7 DEF DiffersAt
  <2> QED BY <2>3, <2>4, LessAt
<1>7. CASE i = k
  <2>1. ~(k > Len(b)) /\ k \in 1 .. Len(b) /\ k \in 1 .. Len(c)
    BY <1>7, <1>2, <1>3, <1>4
  <2>2. i > Len(a) \/ (a[i] < c[i] /\ a[i] # c[i])
    BY <2>1, <1>7, <1>2, <1>3, <1>4, SMTT(20)
  <2>3. \A j \in 1 .. i - 1 : j \leq Len(a) /\ j \leq Len(c) /\ a[j] = c[j]
    BY <1>1, <1>7 DEF DiffersAt
  <2>4. DiffersAt(a, c, i)
    BY <2>2, <2>3, <1>4 DEF DiffersAt
  <2> QED BY <2>1, <2>2, <2>4, <1>7, LessAt
<1> QED BY <1>2, <1>4, <1>5, <1>6, <1>7

\* A name that lies behind one node and differs from it before the next node
\* does, lies behind the next one too, and differs from it at the same place:
\* what lets the walk go on without comparing.
LEMMA SkipSound ==
    ASSUME NEW o \in Seq(Nat), NEW p \in Seq(Nat), NEW s \in Seq(Nat),
           ~Less(o, p), Differ(o, p) < Differ(p, s)
    PROVE  ~Less(o, s) /\ Differ(o, s) = Differ(o, p)
<1> DEFINE i == Differ(o, p)
           k == Differ(p, s)
<1>1. DiffersAt(o, p, i) /\ DiffersAt(p, s, k)
  BY DifferAt
<1>2. i < k
  OBVIOUS
<1> HIDE DEF i, k
<1>3. /\ Len(o) \in Nat /\ Len(p) \in Nat /\ Len(s) \in Nat
      /\ \A j \in 1 .. Len(o) : o[j] \in Nat
      /\ \A j \in 1 .. Len(p) : p[j] \in Nat
  BY NameFacts
<1>4. i \in 1 .. Len(o) + 1 /\ k \in 1 .. Len(p) + 1 /\ i \in 1 .. k - 1
  BY <1>1, <1>2, <1>3 DEF DiffersAt
<1>5. i \leq Len(p) /\ i \leq Len(s) /\ p[i] = s[i]
  BY <1>1, <1>4 DEF DiffersAt
<1>6. ~(i > Len(o)) /\ ~(o[i] < p[i])
  BY <1>1, <1>5, LessAt
<1>7. o[i] # s[i] /\ o[i] # p[i]
  BY <1>1, <1>5, <1>6, <1>3, <1>4 DEF DiffersAt
<1>8. \A j \in 1 .. i - 1 : j \leq Len(s) /\ o[j] = s[j] /\ j \leq Len(o)
  <2>1. \A j \in 1 .. i - 1 : j \in 1 .. k - 1
    BY <1>2, <1>3, <1>4
  <2> QED BY <2>1, <1>1 DEF DiffersAt
<1>9. DiffersAt(o, s, i)
  BY <1>4, <1>7, <1>8 DEF DiffersAt
<1>10. ~Less(o, s)
  BY <1>9, <1>5, <1>6, LessAt
<1> QED BY <1>9, <1>10, DifferAt DEF i

LEMMA LessOrder ==
    \A a, b, c \in Seq(Nat) :
        /\ ~Less(a, a)
        /\ a = b \/ Less(a, b) \/ Less(b, a)
        /\ ~(Less(a, b) /\ Less(b, a))
        /\ Less(a, b) /\ Less(b, c) => Less(a, c)
BY LessIrreflexive, LessTotal, LessTransitive

LEMMA PrefixAt ==
    ASSUME NEW n \in Seq(Nat), NEW o \in Seq(Nat)
    PROVE  IsPrefix(n, o) <=> Len(n) \leq Len(o) /\ \A i \in 1 .. Len(n) : n[i] = o[i]
<1>1. Len(n) \in Nat /\ Len(o) \in Nat
  BY NameFacts
<1>2. \A i \in 1 .. Len(n) : n[i] \in Nat
  BY NameFacts
<1>3. SUFFICES ASSUME Len(n) \leq Len(o)
               PROVE  SubSeq(n, 1, Len(n)) = SubSeq(o, 1, Len(n))
                         <=> \A i \in 1 .. Len(n) : n[i] = o[i]
  BY DEF IsPrefix
<1>4. \A i \in 1 .. Len(n) : o[i] \in Nat
  BY <1>1, <1>3, NameFacts
<1> DEFINE p == SubSeq(n, 1, Len(n))
           q == SubSeq(o, 1, Len(n))
<1>5. p \in Seq(Nat) /\ Len(p) = Len(n) /\ \A i \in 1 .. Len(n) : p[i] = n[i]
  BY <1>1, <1>2, SubSeqProperties
<1>6. q \in Seq(Nat) /\ Len(q) = Len(n) /\ \A i \in 1 .. Len(n) : q[i] = o[i]
  BY <1>1, <1>4, SubSeqProperties
<1> HIDE DEF p, q
<1>7. p = q <=> \A i \in 1 .. Len(n) : p[i] = q[i]
  BY <1>5, <1>6, SeqEqual
<1>8. p = q <=> \A i \in 1 .. Len(n) : n[i] = o[i]
  BY <1>5, <1>6, <1>7
<1> QED BY <1>8 DEF p, q

LEMMA EndOfType ==
    ASSUME NEW n \in Name
    PROVE  /\ EndOf(n) \in Name /\ Len(EndOf(n)) = Len(n) /\ Len(n) \in Nat /\ Len(n) > 0
           /\ \A i \in 1 .. Len(n) : EndOf(n)[i] = IF i = Len(n) THEN n[i] + 1 ELSE n[i]
<1>1. n \in Seq(Nat) /\ n # <<>>
  BY DEF Name
<1>2. Len(n) \in Nat /\ Len(n) > 0
  BY <1>1, EmptySeq
<1>3. n[Len(n)] \in Nat /\ Len(n) \in 1 .. Len(n)
  BY <1>1, <1>2, NameFacts
<1>4. EndOf(n) = [n EXCEPT ![Len(n)] = n[Len(n)] + 1]
  BY <1>1, <1>2 DEF EndOf
<1>5. /\ EndOf(n) \in Seq(Nat) /\ Len(EndOf(n)) = Len(n)
      /\ \A i \in 1 .. Len(n) : EndOf(n)[i] = IF i = Len(n) THEN n[Len(n)] + 1 ELSE n[i]
  BY <1>1, <1>3, <1>4, ExceptSeq
<1>6. EndOf(n) # <<>>
  BY <1>5, <1>2, EmptySeq
<1> QED BY <1>2, <1>5, <1>6 DEF Name

\* A region is what lies between its name and its end.
LEMMA RegionIsInterval ==
    ASSUME NEW n \in Name, NEW o \in Seq(Nat)
    PROVE  IsPrefix(n, o) <=> ~Less(o, n) /\ Less(o, EndOf(n))
<1> DEFINE e == EndOf(n)
           i == Differ(o, n)
           k == Differ(o, e)
<1>1. /\ n \in Seq(Nat) /\ e \in Seq(Nat) /\ Len(e) = Len(n)
      /\ Len(n) \in Nat /\ Len(n) > 0 /\ Len(o) \in Nat
      /\ \A j \in 1 .. Len(n) : e[j] = IF j = Len(n) THEN n[j] + 1 ELSE n[j]
  BY EndOfType, NameFacts DEF Name
<1>2. DiffersAt(o, n, i) /\ DiffersAt(o, e, k)
  BY <1>1, DifferAt
<1> HIDE DEF e, i, k
<1>3. i \in 1 .. Len(o) + 1 /\ k \in 1 .. Len(o) + 1
  BY <1>2 DEF DiffersAt
<1>4. /\ \A j \in 1 .. Len(o) : o[j] \in Nat
      /\ \A j \in 1 .. Len(n) : n[j] \in Nat
  BY <1>1, NameFacts
<1>5. /\ Less(o, n) <=> i \leq Len(n) /\ (i > Len(o) \/ o[i] < n[i])
      /\ Less(o, e) <=> k \leq Len(n) /\ (k > Len(o) \/ o[k] < e[k])
  BY <1>1, <1>2, LessAt
<1>6. ASSUME IsPrefix(n, o) PROVE ~Less(o, n) /\ Less(o, e)
  <2>1. Len(n) \leq Len(o) /\ \A j \in 1 .. Len(n) : n[j] = o[j]
    BY <1>1, <1>6, PrefixAt
  <2>2. ~(i \leq Len(n))
    BY <2>1, <1>1, <1>2, <1>3, SMTT(20) DEF DiffersAt
  <2>3. DiffersAt(o, e, Len(n))
    <3>1. Len(n) \in 1 .. Len(o) + 1
      BY <2>1, <1>1
    <3>2. o[Len(n)] # e[Len(n)]
      BY <2>1, <1>1, <1>4
    <3>3. \A j \in 1 .. Len(n) - 1 : j \leq Len(o) /\ j \leq Len(e) /\ o[j] = e[j]
      BY <2>1, <1>1, SMTT(20)
    <3> QED BY <3>1, <3>2, <3>3 DEF DiffersAt
  <2>4. o[Len(n)] < e[Len(n)]
    BY <2>1, <1>1, <1>4, SMTT(20)
  <2> QED BY <2>2, <2>3, <2>4, <1>1, <1>5, LessAt, SMTT(20)
<1>7. ASSUME ~Less(o, n), Less(o, e) PROVE IsPrefix(n, o)
  <2>1. CASE i > Len(n)
    <3>1. \A j \in 1 .. Len(n) : j \in 1 .. i - 1
      BY <2>1, <1>1, <1>3
    <3>2. Len(n) \leq Len(o) /\ \A j \in 1 .. Len(n) : o[j] = n[j]
      BY <2>1, <3>1, <1>1, <1>2, <1>3 DEF DiffersAt
    <3> QED BY <3>2, <1>1, PrefixAt
  <2>2. CASE ~(i > Len(n))
    <3>1. ~(i > Len(o)) /\ ~(o[i] < n[i]) /\ i \in 1 .. Len(n) /\ i \in 1 .. Len(o)
      BY <2>2, <1>1, <1>3, <1>5, <1>7, SMTT(20)
    <3>2. o[i] # n[i] /\ o[i] > n[i]
      BY <3>1, <1>2, <1>4, <1>1, SMTT(20) DEF DiffersAt
    <3>3. \A j \in 1 .. i - 1 : j \in 1 .. Len(n) /\ j # Len(n) /\ j \leq Len(o) /\ o[j] = n[j]
      BY <3>1, <1>1, <1>2, SMTT(20) DEF DiffersAt
    <3>4. \A j \in 1 .. i - 1 : j \leq Len(o) /\ j \leq Len(e) /\ o[j] = e[j]
      BY <3>3, <1>1
    <3>5. CASE o[i] # e[i]
      <4>1. DiffersAt(o, e, i)
        BY <3>1, <3>4, <3>5, <1>3 DEF DiffersAt
      <4>2. ~(o[i] < e[i])
        BY <3>1, <3>2, <1>1, <1>4, SMTT(20)
      <4> QED BY <4>1, <4>2, <3>1, <1>1, <1>7, LessAt
    <3>6. CASE o[i] = e[i]
      <4>1. i = Len(n)
        BY <3>1, <3>2, <3>6, <1>1
      <4>2. \A j \in 1 .. Len(n) : o[j] = e[j]
        BY <3>4, <3>6, <4>1, <1>1, SMTT(20)
      <4>3. ~(k \leq Len(n))
        BY <4>2, <1>1, <1>2, <1>3, <3>1, <4>1, SMTT(20) DEF DiffersAt
      <4> QED BY <4>3, <1>5, <1>7
    <3> QED BY <3>5, <3>6
  <2> QED BY <2>1, <2>2
<1> QED BY <1>6, <1>7 DEF e

\* Of two regions of one length that meet, the names are equal.
LEMMA PrefixesAgree ==
    ASSUME NEW a \in Seq(Nat), NEW b \in Seq(Nat), NEW o \in Seq(Nat),
           IsPrefix(a, o), IsPrefix(b, o), Len(a) = Len(b)
    PROVE  a = b
<1>1. \A i \in 1 .. Len(a) : a[i] = b[i]
  BY PrefixAt
<1> QED BY <1>1, SeqEqual

LEMMA RegionBounds ==
    ASSUME NEW n \in Name
    PROVE  Less(n, EndOf(n))
<1>1. n \in Seq(Nat) /\ Len(n) \in Nat
  BY NameFacts DEF Name
<1>2. IsPrefix(n, n)
  BY <1>1, PrefixAt
<1> QED BY <1>1, <1>2, RegionIsInterval

\* The three roots.
LEMMA RootRegions ==
    /\ \A i \in Nat : /\ <<i>> \in Name /\ Len(<<i>>) = 1 /\ EndOf(<<i>>) = <<i + 1>>
                      /\ \A o \in Name : IsPrefix(<<i>>, o) <=> o[1] = i
    /\ \A o \in Name : /\ o[1] \in Nat
                       /\ ~Less(o, <<0>>)
                       /\ \A i \in Nat : Less(o, <<i>>) <=> o[1] < i
    /\ \A i, j \in Nat : <<i>> = <<j>> => i = j
<1>1. ASSUME NEW i \in Nat
      PROVE  <<i>> \in Name /\ Len(<<i>>) = 1 /\ EndOf(<<i>>) = <<i + 1>>
  <2>1. <<i>> \in Seq(Nat) /\ Len(<<i>>) = 1 /\ <<i>> # <<>> /\ <<i>>[1] = i
    OBVIOUS
  <2>2. [<<i>> EXCEPT ![1] = i + 1] = <<i + 1>>
    OBVIOUS
  <2>3. EndOf(<<i>>) = <<i + 1>>
    BY <2>1, <2>2 DEF EndOf
  <2> QED BY <2>1, <2>3 DEF Name
<1>2. ASSUME NEW o \in Name
      PROVE  o \in Seq(Nat) /\ Len(o) \in Nat /\ Len(o) > 0 /\ o[1] \in Nat
  <2>1. o \in Seq(Nat) /\ Len(o) \in Nat /\ Len(o) > 0
    BY EmptySeq DEF Name
  <2> QED BY <2>1, NameFacts
<1>3. ASSUME NEW i \in Nat, NEW o \in Name
      PROVE  IsPrefix(<<i>>, o) <=> o[1] = i
  <2>1. /\ <<i>> \in Seq(Nat) /\ Len(<<i>>) = 1 /\ <<i>>[1] = i
    OBVIOUS
  <2>2. IsPrefix(<<i>>, o) <=> 1 \leq Len(o) /\ \A j \in 1 .. 1 : <<i>>[j] = o[j]
    BY <2>1, <1>2, PrefixAt
  <2> QED BY <2>1, <2>2, <1>2
<1>4. ASSUME NEW i \in Nat, NEW o \in Name
      PROVE  Less(o, <<i>>) <=> o[1] < i
  <2> DEFINE r == <<i>>
  <2>1. r \in Seq(Nat) /\ Len(r) = 1 /\ r[1] = i
    OBVIOUS
  <2> HIDE DEF r
  <2>2. CASE o[1] # i
    <3>1. DiffersAt(o, r, 1)
      BY <2>1, <2>2, <1>2 DEF DiffersAt
    <3>2. Less(o, r) <=> 1 \leq Len(r) /\ (1 > Len(o) \/ o[1] < r[1])
      BY <3>1, <2>1, <1>2, LessAt
    <3> QED BY <3>2, <2>1, <1>2 DEF r
  <2>3. CASE o[1] = i
    <3>1. DiffersAt(o, r, 2)
      <4>1. \A j \in 1 .. 2 - 1 : j = 1
        OBVIOUS
      <4> QED BY <4>1, <2>1, <2>3, <1>2 DEF DiffersAt
    <3>2. Less(o, r) <=> 2 \leq Len(r) /\ (2 > Len(o) \/ o[2] < r[2])
      BY <3>1, <2>1, <1>2, LessAt
    <3> QED BY <3>2, <2>1, <2>3, <1>2 DEF r
  <2> QED BY <2>2, <2>3
<1>5. \A i, j \in Nat : <<i>> = <<j>> => i = j
  OBVIOUS
<1>6. \A o \in Name : ~Less(o, <<0>>)
  BY <1>2, <1>4
<1> QED BY <1>1, <1>2, <1>3, <1>4, <1>5, <1>6

-----------------------------------------------------------------------------
(* Following a pointer.                                                    *)

\* The pointer never leads back: R is a strict order it goes up in.
GoesUp(link, R) ==
    /\ IsFiniteSet(DOMAIN link)
    /\ \A x \in DOMAIN link : <<x, x>> \notin R
    /\ \A x, y, z \in DOMAIN link : <<x, y>> \in R /\ <<y, z>> \in R => <<x, z>> \in R
    /\ \A x \in DOMAIN link : link[x] \in DOMAIN link => <<x, link[x]>> \in R

IsPath(link, x, s) ==
    /\ s \in Seq(DOMAIN link) /\ Len(s) > 0 /\ s[1] = x
    /\ \A i \in 1 .. Len(s) - 1 : s[i + 1] = link[s[i]]
    /\ link[s[Len(s)]] \notin DOMAIN link

Rank(link, R, x) == Cardinality({y \in DOMAIN link : <<x, y>> \in R})

LEMMA RankDrops ==
    ASSUME NEW link, NEW R, GoesUp(link, R)
    PROVE  \A x \in DOMAIN link :
              /\ Rank(link, R, x) \in Nat
              /\ link[x] \in DOMAIN link => Rank(link, R, link[x]) < Rank(link, R, x)
<1> SUFFICES ASSUME NEW x \in DOMAIN link
             PROVE  /\ Rank(link, R, x) \in Nat
                    /\ link[x] \in DOMAIN link => Rank(link, R, link[x]) < Rank(link, R, x)
  OBVIOUS
<1> DEFINE Up(z) == {y \in DOMAIN link : <<z, y>> \in R}
<1>1. IsFiniteSet(Up(x))
  <2>1. Up(x) \in SUBSET DOMAIN link
    OBVIOUS
  <2> QED BY <2>1, FS_Subset DEF GoesUp
<1>2. Cardinality(Up(x)) \in Nat
  BY <1>1, FS_CardinalityType
<1>3. ASSUME link[x] \in DOMAIN link PROVE Cardinality(Up(link[x])) < Cardinality(Up(x))
  <2>1. Up(link[x]) \subseteq Up(x) /\ link[x] \in Up(x) /\ link[x] \notin Up(link[x])
    BY <1>3 DEF GoesUp
  <2> HIDE DEF Up
  <2>2. Up(link[x]) # Up(x) /\ Up(link[x]) \in SUBSET Up(x)
    BY <2>1
  <2>3. Cardinality(Up(link[x])) \leq Cardinality(Up(x))
    BY <2>2, <1>1, FS_Subset
  <2>4. IsFiniteSet(Up(link[x])) /\ Cardinality(Up(link[x])) # Cardinality(Up(x))
    BY <2>2, <1>1, FS_Subset
  <2>5. Cardinality(Up(link[x])) \in Nat
    BY <2>4, FS_CardinalityType
  <2> QED BY <2>3, <2>4, <2>5, <1>2
<1> QED BY <1>2, <1>3 DEF Rank

LEMMA PathUnique ==
    ASSUME NEW link, NEW x, NEW s, NEW t, IsPath(link, x, s), IsPath(link, x, t)
    PROVE  s = t
<1>1. /\ Len(s) \in Nat /\ Len(t) \in Nat /\ Len(s) > 0 /\ Len(t) > 0
      /\ \A i \in 1 .. Len(s) : s[i] \in DOMAIN link
      /\ \A i \in 1 .. Len(t) : t[i] \in DOMAIN link
  BY LenProperties, ElementOfSeq DEF IsPath
<1> DEFINE D == {i \in 1 .. Len(s) : i \leq Len(t) /\ s[i] # t[i]}
<1>2. D = {}
  <2> SUFFICES ASSUME D # {} PROVE FALSE
    OBVIOUS
  <2>1. D \in SUBSET Nat
    BY <1>1
  <2>2. PICK m \in D : \A k \in D : m \leq k
    BY <2>1, LeastNumber
  <2>3. m # 1
    BY DEF IsPath
  <2>4. m - 1 \in 1 .. Len(s) - 1 /\ m - 1 \in 1 .. Len(t) - 1 /\ m - 1 \notin D
    BY <2>2, <2>3, <1>1
  <2>5. s[m - 1] = t[m - 1]
    BY <2>4, <1>1
  <2>6. s[(m - 1) + 1] = link[s[m - 1]] /\ t[(m - 1) + 1] = link[t[m - 1]]
    BY <2>4 DEF IsPath
  <2>7. (m - 1) + 1 = m
    BY <1>1
  <2> QED BY <2>5, <2>6, <2>7
<1>3. Len(s) = Len(t)
  <2>1. ASSUME Len(s) < Len(t) PROVE FALSE
    <3>1. Len(s) \in 1 .. Len(t) - 1 /\ Len(s) \in 1 .. Len(s) /\ Len(s) + 1 \in 1 .. Len(t)
      BY <2>1, <1>1
    <3>2. s[Len(s)] = t[Len(s)]
      BY <3>1, <1>2
    <3>3. t[Len(s) + 1] = link[t[Len(s)]]
      BY <3>1 DEF IsPath
    <3> QED BY <3>1, <3>2, <3>3, <1>1 DEF IsPath
  <2>2. ASSUME Len(t) < Len(s) PROVE FALSE
    <3>1. Len(t) \in 1 .. Len(s) - 1 /\ Len(t) \in 1 .. Len(t) /\ Len(t) + 1 \in 1 .. Len(s)
      BY <2>2, <1>1
    <3>2. s[Len(t)] = t[Len(t)]
      BY <3>1, <1>2
    <3>3. s[Len(t) + 1] = link[s[Len(t)]]
      BY <3>1 DEF IsPath
    <3> QED BY <3>1, <3>2, <3>3, <1>1 DEF IsPath
  <2> QED BY <2>1, <2>2, <1>1
<1>4. \A i \in 1 .. Len(s) : s[i] = t[i]
  BY <1>2, <1>3
<1>5. s \in Seq(DOMAIN link) /\ t \in Seq(DOMAIN link)
  BY DEF IsPath
<1> QED BY <1>3, <1>4, <1>5, SeqEqual

LEMMA PathLonger ==
    ASSUME NEW link, NEW x \in DOMAIN link, link[x] \in DOMAIN link,
           NEW s, IsPath(link, link[x], s)
    PROVE  IsPath(link, x, <<x>> \o s)
<1> DEFINE t == <<x>> \o s
<1>1. s \in Seq(DOMAIN link) /\ Len(s) \in Nat /\ Len(s) > 0
  BY LenProperties DEF IsPath
<1>2. <<x>> \in Seq(DOMAIN link) /\ Len(<<x>>) = 1 /\ <<x>>[1] = x
  OBVIOUS
<1>3. /\ t \in Seq(DOMAIN link) /\ Len(t) = 1 + Len(s)
      /\ \A i \in 1 .. 1 + Len(s) : t[i] = IF i \leq 1 THEN <<x>>[i] ELSE s[i - 1]
  BY <1>1, <1>2, ConcatProperties
<1> HIDE DEF t
<1>4. t[1] = x /\ \A i \in 1 .. Len(s) : t[i + 1] = s[i]
  <2>1. t[1] = x
    BY <1>1, <1>2, <1>3
  <2>2. ASSUME NEW i \in 1 .. Len(s) PROVE t[i + 1] = s[i]
    <3>1. i + 1 \in 1 .. 1 + Len(s) /\ ~(i + 1 \leq 1) /\ (i + 1) - 1 = i
      BY <1>1
    <3> QED BY <3>1, <1>3
  <2> QED BY <2>1, <2>2
<1>5. ASSUME NEW i \in 1 .. Len(t) - 1 PROVE t[i + 1] = link[t[i]]
  <2>1. i \in 1 .. Len(s)
    BY <1>1, <1>3
  <2>2. t[i + 1] = s[i]
    BY <2>1, <1>4
  <2>3. CASE i = 1
    BY <2>2, <2>3, <1>4 DEF IsPath
  <2>4. CASE i # 1
    <3>1. i - 1 \in 1 .. Len(s) - 1 /\ i - 1 \in 1 .. Len(s) /\ (i - 1) + 1 = i
      BY <2>1, <2>4, <1>1
    <3>2. s[(i - 1) + 1] = link[s[i - 1]] /\ t[(i - 1) + 1] = s[i - 1]
      BY <3>1, <1>4 DEF IsPath
    <3> QED BY <2>2, <3>1, <3>2
  <2> QED BY <2>3, <2>4
<1>6. link[t[Len(t)]] \notin DOMAIN link
  <2>1. Len(s) \in 1 .. Len(s) /\ Len(t) = Len(s) + 1
    BY <1>1, <1>3
  <2> QED BY <2>1, <1>4 DEF IsPath
<1> QED BY <1>1, <1>3, <1>4, <1>5, <1>6 DEF IsPath, t

LEMMA PathSingle ==
    ASSUME NEW link, NEW x \in DOMAIN link, link[x] \notin DOMAIN link
    PROVE  IsPath(link, x, <<x>>)
<1>1. <<x>> \in Seq(DOMAIN link) /\ Len(<<x>>) = 1 /\ <<x>>[1] = x
  OBVIOUS
<1> QED BY <1>1 DEF IsPath

\* The recursive definition has a value, and it is the path.
LEMMA FollowPath ==
    ASSUME NEW link, NEW R, GoesUp(link, R)
    PROVE  \A x \in DOMAIN link : IsPath(link, x, Follow(link, x))
<1> DEFINE D == DOMAIN link
           rank == [x \in D |-> Rank(link, R, x)]
<1>1. /\ \A x \in D : rank[x] \in Nat
      /\ \A x \in D : link[x] \in D => rank[link[x]] < rank[x]
  BY RankDrops
<1> HIDE DEF rank
<1>2. \A x \in D : \E s : IsPath(link, x, s)
  <2> DEFINE Bad == {x \in D : ~\E s : IsPath(link, x, s)}
             N == {rank[x] : x \in Bad}
  <2> SUFFICES ASSUME Bad # {} PROVE FALSE
    OBVIOUS
  <2>1. N \in SUBSET Nat /\ N # {}
    BY <1>1
  <2>2. PICK m \in N : \A k \in N : m \leq k
    BY <2>1, LeastNumber
  <2>3. PICK x \in Bad : m = rank[x]
    OBVIOUS
  <2>4. link[x] \in D
    BY PathSingle
  <2>5. rank[link[x]] < m
    BY <2>3, <2>4, <1>1
  <2>6. link[x] \notin Bad
    <3>1. rank[link[x]] \in Nat /\ m \in Nat
      BY <2>1, <2>4, <1>1
    <3> QED BY <2>2, <2>5, <3>1
  <2> QED BY <2>4, <2>6, PathLonger
<1> DEFINE f == [x \in D |-> CHOOSE s : IsPath(link, x, s)]
           Def(g) == g = [y \in D |-> IF link[y] \in D THEN <<y>> \o g[link[y]] ELSE <<y>>]
<1>3. \A x \in D : IsPath(link, x, f[x])
  BY <1>2
<1> HIDE DEF f
<1>4. \A x \in D : f[x] = IF link[x] \in D THEN <<x>> \o f[link[x]] ELSE <<x>>
  <2> TAKE x \in D
  <2>1. CASE link[x] \in D
    <3>1. IsPath(link, link[x], f[link[x]]) /\ IsPath(link, x, f[x])
      BY <2>1, <1>3
    <3>2. IsPath(link, x, <<x>> \o f[link[x]])
      BY <2>1, <3>1, PathLonger
    <3>3. f[x] = <<x>> \o f[link[x]]
      BY <3>1, <3>2, PathUnique
    <3> QED BY <2>1, <3>3
  <2>2. CASE link[x] \notin D
    <3>1. IsPath(link, x, <<x>>) /\ IsPath(link, x, f[x])
      BY <2>2, <1>3, PathSingle
    <3>2. f[x] = <<x>>
      BY <3>1, PathUnique
    <3> QED BY <2>2, <3>2
  <2> QED BY <2>1, <2>2
<1>5. Def(f)
  <2>1. f = [x \in D |-> f[x]]
    BY SMTT(20) DEF f
  <2> QED BY <2>1, <1>4
<1> DEFINE path == CHOOSE g : Def(g)
<1>6. Def(path)
  BY <1>5
<1>7. \A x \in D : Follow(link, x) = path[x]
  BY DEF Follow
<1> HIDE DEF path
<1>8. \A x \in D : path[x] = IF link[x] \in D THEN <<x>> \o path[link[x]] ELSE <<x>>
  BY <1>6
<1>9. \A x \in D : IsPath(link, x, path[x])
  <2> DEFINE Bad == {x \in D : ~IsPath(link, x, path[x])}
             N == {rank[x] : x \in Bad}
  <2> SUFFICES ASSUME Bad # {} PROVE FALSE
    OBVIOUS
  <2>1. N \in SUBSET Nat /\ N # {}
    BY <1>1
  <2>2. PICK m \in N : \A k \in N : m \leq k
    BY <2>1, LeastNumber
  <2>3. PICK x \in Bad : m = rank[x]
    OBVIOUS
  <2>4. link[x] \in D
    <3> SUFFICES ASSUME link[x] \notin D PROVE FALSE
      OBVIOUS
    <3>1. path[x] = <<x>> /\ IsPath(link, x, <<x>>)
      BY <1>8, PathSingle
    <3> QED BY <3>1
  <2>5. rank[link[x]] < m
    BY <2>3, <2>4, <1>1
  <2>6. link[x] \notin Bad
    <3>1. rank[link[x]] \in Nat /\ m \in Nat
      BY <2>1, <2>4, <1>1
    <3> QED BY <2>2, <2>5, <3>1
  <2>7. IsPath(link, link[x], path[link[x]])
    BY <2>4, <2>6
  <2>8. path[x] = <<x>> \o path[link[x]]
    BY <2>4, <1>8
  <2>9. IsPath(link, x, <<x>> \o path[link[x]])
    BY <2>4, <2>7, PathLonger
  <2> QED BY <2>8, <2>9
<1> QED BY <1>7, <1>9

\* It goes up.
LEMMA PathGoesUp ==
    ASSUME NEW link, NEW R, GoesUp(link, R), NEW x, NEW s, IsPath(link, x, s)
    PROVE  \A j \in 1 .. Len(s) : \A i \in 1 .. j - 1 : <<s[i], s[j]>> \in R
<1>1. Len(s) \in Nat /\ \A i \in 1 .. Len(s) : s[i] \in DOMAIN link
  BY LenProperties, ElementOfSeq DEF IsPath
<1> DEFINE Bad == {j \in 1 .. Len(s) : \E i \in 1 .. j - 1 : <<s[i], s[j]>> \notin R}
<1> SUFFICES ASSUME Bad # {} PROVE FALSE
  OBVIOUS
<1>2. Bad \in SUBSET Nat
  BY <1>1
<1>3. PICK j \in Bad : \A k \in Bad : j \leq k
  BY <1>2, LeastNumber
<1>4. PICK i \in 1 .. j - 1 : <<s[i], s[j]>> \notin R
  OBVIOUS
<1>51. j \in Int /\ i \in Int /\ 1 \leq i /\ i \leq j - 1 /\ j \leq Len(s)
  BY <1>1, <1>3, <1>4
<1>52. j - 1 \notin Bad
  <2>1. ~(j \leq j - 1)
    BY <1>51
  <2> QED BY <2>1, <1>3
<1>5. /\ j \in 1 .. Len(s) /\ j - 1 \in 1 .. Len(s) - 1 /\ j - 1 \in 1 .. Len(s)
      /\ i \in 1 .. Len(s) /\ (j - 1) + 1 = j /\ j - 1 \notin Bad
  BY <1>1, <1>51, <1>52
<1>6. s[j] = link[s[j - 1]]
  BY <1>5 DEF IsPath
<1>7. <<s[j - 1], s[j]>> \in R
  BY <1>5, <1>6, <1>1 DEF GoesUp
<1>8. i # j - 1
  BY <1>4, <1>7
<1>9. <<s[i], s[j - 1]>> \in R
  <2>1. i \in 1 .. (j - 1) - 1
    BY <1>4, <1>5, <1>8
  <2> QED BY <2>1, <1>5
<1> QED BY <1>4, <1>5, <1>7, <1>9, <1>1, SMTT(20) DEF GoesUp

\* If each node of C points to the next of C, the path from the first is C.
LEMMA PathCovers ==
    ASSUME NEW link, NEW R, GoesUp(link, R), NEW C, NEW x \in C, C \subseteq DOMAIN link,
           \A y \in C : y = x \/ <<x, y>> \in R,
           \A y, z \in C : y = z \/ <<y, z>> \in R \/ <<z, y>> \in R,
           \A y \in C : link[y] \in DOMAIN link => link[y] \in C,
           \A y \in C : \A z \in C :
               <<y, z>> \in R => link[y] \in DOMAIN link /\ <<z, link[y]>> \notin R,
           NEW s, IsPath(link, x, s)
    PROVE  ToSet(s) = C
<1>1. Len(s) \in Nat /\ Len(s) > 0 /\ DOMAIN s = 1 .. Len(s)
      /\ \A i \in 1 .. Len(s) : s[i] \in DOMAIN link
  BY LenProperties, ElementOfSeq DEF IsPath
<1>2. \A i \in 1 .. Len(s) : s[i] \in C
  <2> DEFINE Bad == {i \in 1 .. Len(s) : s[i] \notin C}
  <2> SUFFICES ASSUME Bad # {} PROVE FALSE
    OBVIOUS
  <2>1. Bad \in SUBSET Nat
    BY <1>1
  <2>2. PICK j \in Bad : \A k \in Bad : j \leq k
    BY <2>1, LeastNumber
  <2>3. j # 1
    BY DEF IsPath
  <2>4. j - 1 \in 1 .. Len(s) - 1 /\ j - 1 \in 1 .. Len(s) /\ (j - 1) + 1 = j /\ j - 1 \notin Bad
    BY <1>1, <2>2, <2>3
  <2>5. s[j] = link[s[j - 1]]
    BY <2>4 DEF IsPath
  <2> QED BY <2>4, <2>5, <1>1
<1>3. ASSUME NEW z \in C PROVE \E i \in 1 .. Len(s) : s[i] = z
  <2> DEFINE Past == {i \in 1 .. Len(s) : s[i] # z /\ <<s[i], z>> \notin R}
  <2>1. CASE Past = {}
    <3>1. Len(s) \in 1 .. Len(s)
      BY <1>1
    <3>2. ~(<<s[Len(s)], z>> \in R)
      <4>1. link[s[Len(s)]] \notin DOMAIN link /\ s[Len(s)] \in C
        BY <3>1, <1>2 DEF IsPath
      <4> QED BY <4>1
    <3> QED BY <2>1, <3>1, <3>2
  <2>2. CASE Past # {}
    <3>1. Past \in SUBSET Nat
      BY <1>1
    <3>2. PICK j \in Past : \A k \in Past : j \leq k
      BY <2>2, <3>1, LeastNumber
    <3>3. j # 1
      BY DEF IsPath
    <3>4. /\ j - 1 \in 1 .. Len(s) - 1 /\ j - 1 \in 1 .. Len(s) /\ (j - 1) + 1 = j
          /\ j - 1 \notin Past
      BY <1>1, <3>2, <3>3
    <3>5. s[j] = link[s[j - 1]]
      BY <3>4 DEF IsPath
    <3>6. s[j - 1] \in C /\ s[j] \in C
      BY <3>4, <1>2
    <3>7. CASE <<s[j - 1], z>> \in R
      <4>1. <<z, s[j]>> \notin R
        BY <3>5, <3>6, <3>7
      <4> QED BY <4>1, <3>2, <3>6
    <3> QED BY <3>4, <3>7
  <2> QED BY <2>1, <2>2
<1> QED BY <1>1, <1>2, <1>3 DEF ToSet

-----------------------------------------------------------------------------
(* The shape of the tree: what its pointers are, given its nodes.          *)

Ref == NodeName \cup {Nil}

Cell == [end : Name, next : Ref, prev : Ref, children : Ref, off : Nat]

Typed(h) ==
    /\ h \in [DOMAIN h -> Cell]
    /\ DOMAIN h \subseteq NodeName /\ IsFiniteSet(DOMAIN h)

Moved(x, at) == [x EXCEPT !.start = at]

\* x comes before y in one slice.
Over(x, y) == x.start = y.start /\ Ahead(x, y)

Level(T, x) == {y \in T : y.start = x.start}

IsTop(T, x) == x \in T /\ \A y \in T : y.start = x.start => y = x \/ Ahead(x, y)

IsBelow(T, x, y) == /\ y \in T /\ Over(x, y)
                    /\ \A w \in T : Over(x, w) => w = y \/ Ahead(y, w)

\* The slices of T meet end to end, up to z.
Ends(h, T, z) ==
    \A x \in T :
        /\ Less(x.start, h[x].end) /\ Less(x.start, z)
        /\ \A y \in T : Less(x.start, y.start) => ~Less(y.start, h[x].end)
        /\ h[x].end = z \/ \E y \in T : y.start = h[x].end

Nexts(h, T, z) ==
    \A x \in T : IF h[x].end = z THEN h[x].next = Nil
                 ELSE IsTop(T, h[x].next) /\ h[x].next.start = h[x].end

Prevs(h, T) ==
    \A x \in T : IF x.start = <<0>> THEN h[x].prev = Nil
                 ELSE /\ IsTop(T, h[x].prev) /\ h[h[x].prev].end = x.start
                      /\ h[x].off = Differ(h[x].prev.start, x.start)

Belows(h, T) ==
    \A x \in T : IF h[x].children = Nil THEN \A y \in T : ~Over(x, y)
                 ELSE IsBelow(T, x, h[x].children)

\* Of two nodes of a slice one is to be asked first.
Ranked(T) == \A x, y \in T : x.start = y.start => x = y \/ Ahead(x, y) \/ Ahead(y, x)

\* Nodes that are not in the tree yet.
Loose(h, T) ==
    \A x \in DOMAIN h \ T :
        /\ h[x].children = Nil
        /\ h[x].next \in DOMAIN h => Less(x.start, h[x].next.start)

Shape(h, T, z) ==
    /\ Typed(h) /\ T \subseteq DOMAIN h /\ z \in Name
    /\ Ends(h, T, z) /\ Nexts(h, T, z) /\ Prevs(h, T) /\ Belows(h, T)
    /\ Ranked(T) /\ Loose(h, T)

Starts(T, f) == IF T = {} THEN f = Nil ELSE IsTop(T, f) /\ f.start = <<0>>

LEMMA NodeFacts ==
    /\ Nil \notin NodeName
    /\ \A x \in NodeName : /\ x.name \in Name /\ x.prio \in Int /\ x.start \in Name
                           /\ x.sess \in Session \cup {Nil} /\ Len(x.name) \in Nat
    /\ \A x, y \in NodeName :
          x.name = y.name /\ x.prio = y.prio /\ x.sess = y.sess /\ x.start = y.start => x = y
    /\ \A x \in NodeName : \A at \in Name :
          /\ Moved(x, at) \in NodeName
          /\ Moved(x, at).name = x.name /\ Moved(x, at).prio = x.prio
          /\ Moved(x, at).sess = x.sess /\ Moved(x, at).start = at
<1>1. Nil \notin NodeName
  BY TreeAssumption
<1>2. ASSUME NEW x \in NodeName
      PROVE  /\ x.name \in Name /\ x.prio \in Int /\ x.start \in Name
             /\ x.sess \in Session \cup {Nil}
  BY DEF NodeName
<1>3. \A x \in NodeName : Len(x.name) \in Nat
  BY <1>2, NameFacts DEF Name
<1>4. ASSUME NEW x \in NodeName, NEW y \in NodeName,
             x.name = y.name, x.prio = y.prio, x.sess = y.sess, x.start = y.start
      PROVE  x = y
  BY <1>4 DEF NodeName
<1>5. ASSUME NEW x \in NodeName, NEW at \in Name
      PROVE  /\ Moved(x, at) \in NodeName
             /\ Moved(x, at).name = x.name /\ Moved(x, at).prio = x.prio
             /\ Moved(x, at).sess = x.sess /\ Moved(x, at).start = at
  BY DEF NodeName, Moved
<1> QED BY <1>1, <1>2, <1>3, <1>4, <1>5

LEMMA NameOrder ==
    \A a, b, c \in Name :
        /\ ~Less(a, a)
        /\ a = b \/ Less(a, b) \/ Less(b, a)
        /\ ~(Less(a, b) /\ Less(b, a))
        /\ Less(a, b) /\ Less(b, c) => Less(a, c)
<1>1. \A a \in Name : a \in Seq(Nat)
  BY DEF Name
<1> QED BY <1>1, LessOrder

LEMMA RootNames ==
    /\ <<0>> \in Name /\ <<1>> \in Name /\ <<2>> \in Name /\ <<3>> \in Name
    /\ \A o \in Name : ~Less(o, <<0>>)
    /\ \A o \in Name : o = <<0>> \/ Less(<<0>>, o)
    /\ Less(<<0>>, <<1>>) /\ Less(<<1>>, <<2>>) /\ Less(<<2>>, <<3>>)
<1>1. <<0>> \in Name /\ <<1>> \in Name /\ <<2>> \in Name /\ <<3>> \in Name
  BY RootRegions
<1>2. \A o \in Name : ~Less(o, <<0>>)
  BY RootRegions
<1>3. <<0>>[1] = 0 /\ <<1>>[1] = 1 /\ <<2>>[1] = 2
  OBVIOUS
<1>4. Less(<<0>>, <<1>>) /\ Less(<<1>>, <<2>>) /\ Less(<<2>>, <<3>>)
  BY <1>1, <1>3, RootRegions
<1> QED BY <1>1, <1>2, <1>4, NameOrder

LEMMA AheadOrder ==
    \A x, y, w \in NodeName :
        /\ ~Ahead(x, x)
        /\ ~(Ahead(x, y) /\ Ahead(y, x))
        /\ Ahead(x, y) /\ Ahead(y, w) => Ahead(x, w)
<1> SUFFICES ASSUME NEW x \in NodeName, NEW y \in NodeName, NEW w \in NodeName
             PROVE  /\ ~Ahead(x, x)
                    /\ ~(Ahead(x, y) /\ Ahead(y, x))
                    /\ Ahead(x, y) /\ Ahead(y, w) => Ahead(x, w)
  OBVIOUS
<1>1. /\ Len(x.name) \in Nat /\ Len(y.name) \in Nat /\ Len(w.name) \in Nat
      /\ x.prio \in Int /\ y.prio \in Int /\ w.prio \in Int
  BY NodeFacts
<1> QED BY <1>1, SMTT(20) DEF Ahead

LEMMA CellFacts ==
    ASSUME NEW h, Typed(h)
    PROVE  \A y \in DOMAIN h : /\ h[y].end \in Name /\ h[y].next \in Ref /\ h[y].prev \in Ref
                               /\ h[y].children \in Ref /\ h[y].off \in Nat
<1>1. \A y \in DOMAIN h : h[y] \in Cell
  BY DEF Typed
<1> QED BY <1>1 DEF Cell

LEMMA NilOut ==
    ASSUME NEW h, NEW T, Typed(h), T \subseteq DOMAIN h
    PROVE  Nil \notin DOMAIN h /\ Nil \notin T /\ T \subseteq NodeName /\ IsFiniteSet(T)
           /\ DOMAIN h \subseteq NodeName
<1>1. IsFiniteSet(T)
  BY FS_Subset DEF Typed
<1> QED BY <1>1, NodeFacts DEF Typed

\* The nodes of a slice end together.
LEMMA SameEnd ==
    ASSUME NEW h, NEW T, NEW z, Shape(h, T, z), NEW x \in T, NEW y \in T, x.start = y.start
    PROVE  h[x].end = h[y].end
<1>1. /\ h[x].end \in Name /\ h[y].end \in Name /\ x.start \in Name /\ z \in Name
      /\ \A w \in T : w.start \in Name
  BY CellFacts, NilOut, NodeFacts DEF Shape
<1>2. ASSUME NEW a \in T, NEW b \in T, a.start = b.start, h[a].end \in Name, h[b].end \in Name,
             a.start \in Name
      PROVE  ~Less(h[a].end, h[b].end)
  <2> SUFFICES ASSUME Less(h[a].end, h[b].end) PROVE FALSE
    OBVIOUS
  <2>1. h[a].end # z
    <3>1. h[b].end = z \/ \E w \in T : w.start = h[b].end
      BY DEF Shape, Ends
    <3>2. h[b].end = z \/ Less(h[b].end, z)
      BY <3>1 DEF Shape, Ends
    <3> QED BY <3>2, <1>1, <1>2, NameOrder
  <2>2. PICK w \in T : w.start = h[a].end
    BY <2>1 DEF Shape, Ends
  <2>3. Less(b.start, w.start)
    BY <2>2, <1>2 DEF Shape, Ends
  <2>4. ~Less(w.start, h[b].end)
    BY <2>3 DEF Shape, Ends
  <2> QED BY <2>2, <2>4
<1> QED BY <1>1, <1>2, NameOrder

LEMMA TopUnique ==
    ASSUME NEW T, T \subseteq NodeName, NEW x, NEW y, IsTop(T, x), IsTop(T, y),
           x.start = y.start
    PROVE  x = y
<1>1. x \in T /\ y \in T /\ (y = x \/ Ahead(x, y)) /\ (x = y \/ Ahead(y, x))
  BY DEF IsTop
<1> QED BY <1>1, AheadOrder

LEMMA TopExists ==
    ASSUME NEW T, T \subseteq NodeName, IsFiniteSet(T), Ranked(T), NEW x \in T
    PROVE  \E y : IsTop(T, y) /\ y.start = x.start
<1> DEFINE L == Level(T, x)
           Up(y) == {w \in L : Ahead(w, y)}
           rank == [y \in L |-> Cardinality(Up(y))]
           N == {rank[y] : y \in L}
<1>1. \A y \in L : IsFiniteSet(Up(y))
  <2>1. \A y \in L : Up(y) \in SUBSET T
    BY DEF Level
  <2> QED BY <2>1, FS_Subset
<1>2. \A y \in L : rank[y] \in Nat
  BY <1>1, FS_CardinalityType
<1> HIDE DEF rank
<1>3. N \in SUBSET Nat /\ N # {}
  <2>1. x \in L
    BY DEF Level
  <2> QED BY <2>1, <1>2
<1>4. PICK m \in N : \A k \in N : m \leq k
  BY <1>3, LeastNumber
<1>5. PICK y \in L : rank[y] = m
  OBVIOUS
<1>6. ASSUME NEW w \in L, Ahead(w, y) PROVE FALSE
  <2>1. Up(w) \subseteq Up(y) /\ w \in Up(y) /\ w \notin Up(w)
    <3>1. w \in NodeName /\ y \in NodeName /\ \A v \in L : v \in NodeName
      BY DEF Level
    <3> QED BY <3>1, <1>6, AheadOrder
  <2>2. Up(w) \in SUBSET Up(y) /\ Up(w) # Up(y) /\ IsFiniteSet(Up(y)) /\ IsFiniteSet(Up(w))
    BY <2>1, <1>1
  <2> HIDE DEF Up
  <2>3. Cardinality(Up(w)) \leq Cardinality(Up(y)) /\ Cardinality(Up(w)) # Cardinality(Up(y))
    <3>1. Cardinality(Up(w)) \leq Cardinality(Up(y))
      BY <2>2, FS_Subset
    <3>2. Cardinality(Up(w)) # Cardinality(Up(y))
      BY <2>2, FS_Subset
    <3> QED BY <3>1, <3>2
  <2>4. rank[w] = Cardinality(Up(w)) /\ rank[y] = Cardinality(Up(y))
    BY DEF rank
  <2>5. rank[w] < m /\ rank[w] \in N
    BY <2>3, <2>4, <1>2, <1>5
  <2>6. rank[w] \in Nat /\ m \in Nat
    BY <2>5, <1>3
  <2> QED BY <2>5, <2>6, <1>4
<1>7. IsTop(T, y)
  <2>1. y \in T /\ y.start = x.start
    BY DEF Level
  <2>2. ASSUME NEW w \in T, w.start = y.start PROVE w = y \/ Ahead(y, w)
    <3>1. w \in L
      BY <2>1, <2>2 DEF Level
    <3> QED BY <2>1, <2>2, <3>1, <1>6 DEF Ranked
  <2> QED BY <2>1, <2>2 DEF IsTop
<1> QED BY <1>7 DEF Level

-----------------------------------------------------------------------------
(* The lists of the tree.                                                  *)

BelowLink(h) == [y \in DOMAIN h |-> h[y].children]
NextLink(h)  == [y \in DOMAIN h |-> h[y].next]

BelowOrder(D) == {r \in D \X D : Over(r[1], r[2])}
NextOrder(D)  == {r \in D \X D : Less(r[1].start, r[2].start)}

LEMMA PairsOf ==
    ASSUME NEW D
    PROVE  \A x, y : <<x, y>> \in D \X D <=> x \in D /\ y \in D
OBVIOUS

LEMMA OrderPairs ==
    ASSUME NEW D
    PROVE  /\ \A x, y : <<x, y>> \in BelowOrder(D) <=> x \in D /\ y \in D /\ Over(x, y)
           /\ \A x, y : <<x, y>> \in NextOrder(D)
                            <=> x \in D /\ y \in D /\ Less(x.start, y.start)
BY PairsOf DEF BelowOrder, NextOrder

\* What of the shape the chains depend on.
Chained(h, T) ==
    /\ Typed(h) /\ T \subseteq DOMAIN h /\ Belows(h, T) /\ Ranked(T)
    /\ \A x \in DOMAIN h \ T : h[x].children = Nil

LEMMA ShapeChained ==
    ASSUME NEW h, NEW T, NEW z, Shape(h, T, z)
    PROVE  Chained(h, T)
BY DEF Shape, Chained, Loose

LEMMA BelowGoesUp ==
    ASSUME NEW h, NEW T, Chained(h, T)
    PROVE  GoesUp(BelowLink(h), BelowOrder(DOMAIN h))
<1> DEFINE D == DOMAIN h
           link == BelowLink(h)
           R == BelowOrder(DOMAIN h)
<1>1. DOMAIN link = D /\ \A x \in D : link[x] = h[x].children
  BY DEF BelowLink
<1>2. D \subseteq NodeName /\ IsFiniteSet(D) /\ Nil \notin D
  BY NilOut DEF Chained, Typed
<1>3. \A x \in D : <<x, x>> \notin R
  BY <1>2, AheadOrder, OrderPairs DEF Over
<1>4. \A x, y, w \in D : <<x, y>> \in R /\ <<y, w>> \in R => <<x, w>> \in R
  BY <1>2, AheadOrder, OrderPairs DEF Over
<1>5. ASSUME NEW x \in D, h[x].children \in D PROVE <<x, h[x].children>> \in R
  <2>1. x \in T
    BY <1>2, <1>5 DEF Chained
  <2>2. IsBelow(T, x, h[x].children)
    BY <2>1, <1>2, <1>5 DEF Chained, Belows
  <2> QED BY <2>2, <1>5, OrderPairs DEF IsBelow
<1> HIDE DEF link, R
<1> QED BY <1>1, <1>2, <1>3, <1>4, <1>5 DEF GoesUp, link, R

LEMMA NextGoesUp ==
    ASSUME NEW h, NEW T, NEW z, Shape(h, T, z)
    PROVE  GoesUp(NextLink(h), NextOrder(DOMAIN h))
<1> DEFINE D == DOMAIN h
           link == NextLink(h)
           R == NextOrder(DOMAIN h)
<1>1. DOMAIN link = D /\ \A x \in D : link[x] = h[x].next
  BY DEF NextLink
<1>2. D \subseteq NodeName /\ IsFiniteSet(D) /\ Nil \notin D
  BY NilOut DEF Shape, Typed
<1>3. \A x \in D : x.start \in Name
  BY <1>2, NodeFacts
<1>4. \A x \in D : <<x, x>> \notin R
  BY <1>3, NameOrder, OrderPairs
<1>5. \A x, y, w \in D : <<x, y>> \in R /\ <<y, w>> \in R => <<x, w>> \in R
  BY <1>3, NameOrder, OrderPairs
<1>6. ASSUME NEW x \in D, h[x].next \in D PROVE <<x, h[x].next>> \in R
  <2>1. CASE x \notin T
    BY <2>1, <1>6, OrderPairs DEF Shape, Loose
  <2>2. CASE x \in T
    <3>1. h[x].next.start = h[x].end
      BY <2>2, <1>2, <1>6 DEF Shape, Nexts
    <3>2. Less(x.start, h[x].end)
      BY <2>2 DEF Shape, Ends
    <3> QED BY <3>1, <3>2, <1>6, OrderPairs
  <2> QED BY <2>1, <2>2
<1> HIDE DEF link, R
<1> QED BY <1>1, <1>2, <1>4, <1>5, <1>6 DEF GoesUp, link, R

\* The chain of a slice holds all its nodes, in their order.
IsChain(h, C, c) ==
    /\ c \in Seq(C) /\ ToSet(c) = C /\ Len(c) \in Nat /\ Len(c) > 0
    /\ DOMAIN c = 1 .. Len(c)
    /\ \A i \in 1 .. Len(c) : c[i] \in C
    /\ \A i \in 1 .. Len(c) - 1 : c[i + 1] = h[c[i]].children
    /\ h[c[Len(c)]].children = Nil
    /\ \A j \in 1 .. Len(c) : \A i \in 1 .. j - 1 : Over(c[i], c[j])

LEMMA ChainIs ==
    ASSUME NEW h, NEW T, Chained(h, T), NEW x, IsTop(T, x)
    PROVE  IsChain(h, Level(T, x), Chain(h, x)) /\ Chain(h, x)[1] = x
<1> DEFINE D == DOMAIN h
           link == BelowLink(h)
           R == BelowOrder(DOMAIN h)
           C == Level(T, x)
           c == Chain(h, x)
<1>1. DOMAIN link = D /\ \A y \in D : link[y] = h[y].children
  BY DEF BelowLink
<1>2. D \subseteq NodeName /\ Nil \notin D /\ T \subseteq D
  BY NilOut DEF Chained
<1>3. x \in C /\ C \subseteq D /\ x \in D
  BY <1>2 DEF IsTop, Level
<1>4. GoesUp(link, R)
  BY BelowGoesUp
<1>5. c = Follow(link, x)
  BY DEF Chain, BelowLink
<1> HIDE DEF link, R
<1>6. IsPath(link, x, c)
  BY <1>1, <1>3, <1>4, <1>5, FollowPath
<1>7. \A y \in C : y = x \/ <<x, y>> \in R
  BY <1>2, OrderPairs DEF C, Level, IsTop, Over, R
<1>8. \A y, w \in C : y = w \/ <<y, w>> \in R \/ <<w, y>> \in R
  <2> SUFFICES ASSUME NEW y \in C, NEW w \in C
               PROVE  y = w \/ <<y, w>> \in R \/ <<w, y>> \in R
    OBVIOUS
  <2>1. y \in T /\ w \in T /\ y.start = w.start /\ y \in D /\ w \in D
    BY <1>2 DEF Level
  <2>2. y = w \/ Over(y, w) \/ Over(w, y)
    BY <2>1 DEF Chained, Ranked, Over
  <2> QED BY <2>1, <2>2, OrderPairs DEF R
<1>9. ASSUME NEW y \in C PROVE link[y] \in D => link[y] \in C
  <2>1. y \in T /\ y \in D
    BY <1>2 DEF Level
  <2>2. link[y] \in D => IsBelow(T, y, h[y].children)
    BY <2>1, <1>1, <1>2 DEF Chained, Belows
  <2> QED BY <2>1, <2>2, <1>1 DEF IsBelow, Over, Level
<1>10. ASSUME NEW y \in C, NEW w \in C, <<y, w>> \in R
       PROVE  link[y] \in D /\ <<w, link[y]>> \notin R
  <2>1. y \in T /\ w \in T /\ Over(y, w)
    BY <1>10, OrderPairs DEF Level, R
  <2>2. IsBelow(T, y, h[y].children)
    BY <2>1 DEF Chained, Belows
  <2>3. link[y] = h[y].children /\ link[y] \in T
    BY <2>1, <2>2, <1>1, <1>2 DEF IsBelow
  <2>4. ~Over(w, link[y])
    <3>1. w = link[y] \/ Ahead(link[y], w)
      BY <2>1, <2>2, <2>3 DEF IsBelow
    <3> QED BY <3>1, <2>1, <2>3, <1>2, AheadOrder DEF Over
  <2> QED BY <2>3, <2>4, <1>2, OrderPairs DEF R
<1> HIDE DEF C, c
<1>11. ToSet(c) = C
  BY <1>1, <1>3, <1>4, <1>6, <1>7, <1>8, <1>9, <1>10, PathCovers
<1>12. /\ c \in Seq(D) /\ Len(c) \in Nat /\ Len(c) > 0 /\ DOMAIN c = 1 .. Len(c) /\ c[1] = x
  BY <1>1, <1>6, LenProperties DEF IsPath
<1>13. \A i \in 1 .. Len(c) : c[i] \in C
  BY <1>11, <1>12 DEF ToSet
<1>14. c \in Seq(C)
  <2>1. Len(c) \in Nat
    BY <1>12
  <2>2. c \in [1 .. Len(c) -> D]
    BY <1>12, LenProperties
  <2>3. c \in [1 .. Len(c) -> C]
    BY <2>2, <1>13
  <2> QED BY <2>1, <2>3, SeqDef
<1>15. \A i \in 1 .. Len(c) - 1 : c[i + 1] = h[c[i]].children
  <2>1. \A i \in 1 .. Len(c) - 1 : c[i] \in D
    BY <1>3, <1>12, <1>13
  <2> QED BY <2>1, <1>1, <1>6 DEF IsPath
<1>16. h[c[Len(c)]].children = Nil
  <2>1. Len(c) \in 1 .. Len(c) /\ c[Len(c)] \in T /\ c[Len(c)] \in D
    BY <1>3, <1>12, <1>13 DEF C, Level
  <2>2. h[c[Len(c)]].children \notin D
    BY <2>1, <1>1, <1>6 DEF IsPath
  <2> QED BY <2>1, <2>2, <1>2 DEF Chained, Belows, IsBelow
<1>17. \A j \in 1 .. Len(c) : \A i \in 1 .. j - 1 : Over(c[i], c[j])
  <2>1. \A j \in 1 .. Len(c) : \A i \in 1 .. j - 1 : <<c[i], c[j]>> \in R
    BY <1>4, <1>6, PathGoesUp
  <2> QED BY <2>1, OrderPairs DEF R
<1> QED BY <1>11, <1>12, <1>13, <1>14, <1>15, <1>16, <1>17 DEF IsChain, C, c

\* The list of the heads of the slices from one on.
IsHeads(h, T, x, s) ==
    /\ s \in Seq(T) /\ Len(s) \in Nat /\ Len(s) > 0 /\ s[1] = x
    /\ DOMAIN s = 1 .. Len(s)
    /\ \A i \in 1 .. Len(s) : IsTop(T, s[i])
    /\ \A i \in 1 .. Len(s) - 1 : s[i + 1] = h[s[i]].next
    /\ h[s[Len(s)]].next = Nil
    /\ \A j \in 1 .. Len(s) : \A i \in 1 .. j - 1 : Less(s[i].start, s[j].start)
    /\ \A y \in T : ~Less(y.start, x.start) => \E i \in 1 .. Len(s) : s[i].start = y.start

LEMMA HeadsAre ==
    ASSUME NEW h, NEW T, NEW z, Shape(h, T, z), NEW x, IsTop(T, x)
    PROVE  IsHeads(h, T, x, Heads(h, x))
<1> DEFINE D == DOMAIN h
           link == NextLink(h)
           R == NextOrder(DOMAIN h)
           C == {y \in T : IsTop(T, y) /\ ~Less(y.start, x.start)}
           s == Heads(h, x)
<1>1. DOMAIN link = D /\ \A y \in D : link[y] = h[y].next
  BY DEF NextLink
<1>2. D \subseteq NodeName /\ Nil \notin D /\ T \subseteq D /\ T \subseteq NodeName
  BY NilOut DEF Shape
<1>3. (\A y \in D : y.start \in Name) /\ x \in D
  BY <1>2, NodeFacts DEF IsTop
<1>4. x \in C /\ C \subseteq D
  BY <1>2, <1>3, NameOrder DEF IsTop
<1>5. GoesUp(link, R)
  BY NextGoesUp
<1>6. s = Follow(link, x)
  BY DEF Heads, NextLink
<1> HIDE DEF link, R
<1>7. IsPath(link, x, s)
  BY <1>1, <1>3, <1>5, <1>6, FollowPath
<1>8. \A y \in C : \A w \in C : y = w \/ <<y, w>> \in R \/ <<w, y>> \in R
  <2> SUFFICES ASSUME NEW y \in C, NEW w \in C
               PROVE  y = w \/ <<y, w>> \in R \/ <<w, y>> \in R
    OBVIOUS
  <2>1. y.start = w.start => y = w
    BY <1>2, TopUnique
  <2>2. y.start = w.start \/ Less(y.start, w.start) \/ Less(w.start, y.start)
    BY <1>3, <1>4, NameOrder
  <2> QED BY <2>1, <2>2, <1>4, OrderPairs DEF R
<1>9. \A y \in C : y = x \/ <<x, y>> \in R
  BY <1>3, <1>4, <1>8, OrderPairs DEF R
<1>10. ASSUME NEW y \in C, h[y].next \in D PROVE link[y] \in C
  <2>1. IsTop(T, h[y].next) /\ h[y].next.start = h[y].end
    BY <1>2, <1>10 DEF Shape, Nexts
  <2>2. Less(y.start, h[y].next.start)
    BY <2>1 DEF Shape, Ends
  <2>3. ~Less(h[y].next.start, x.start)
    BY <2>2, <1>3, <1>4, <1>10, NameOrder
  <2> QED BY <2>1, <2>3, <1>1, <1>4 DEF IsTop
<1>11. ASSUME NEW y \in C, NEW w \in C, <<y, w>> \in R
       PROVE  link[y] \in D /\ <<w, link[y]>> \notin R
  <2>1. Less(y.start, w.start)
    BY <1>11, OrderPairs DEF R
  <2>2. ~Less(w.start, h[y].end) /\ Less(w.start, z)
    BY <2>1 DEF Shape, Ends
  <2>3. IsTop(T, h[y].next) /\ h[y].next.start = h[y].end
    BY <2>2 DEF Shape, Nexts
  <2> QED BY <2>2, <2>3, <1>1, <1>2, <1>4, OrderPairs DEF IsTop, R
<1> HIDE DEF s
<1>12. ToSet(s) = C
  <2>1. \A y \in C : link[y] \in D => link[y] \in C
    BY <1>1, <1>4, <1>10
  <2> HIDE DEF C
  <2> QED BY <2>1, <1>1, <1>4, <1>5, <1>7, <1>8, <1>9, <1>11, PathCovers
<1>13. s \in Seq(D) /\ Len(s) \in Nat /\ Len(s) > 0 /\ DOMAIN s = 1 .. Len(s) /\ s[1] = x
  BY <1>1, <1>7, LenProperties DEF IsPath
<1>14. \A i \in 1 .. Len(s) : s[i] \in C
  BY <1>12, <1>13 DEF ToSet
<1>15. s \in Seq(T)
  <2>1. Len(s) \in Nat
    BY <1>13
  <2>2. s \in [1 .. Len(s) -> D]
    BY <1>13, LenProperties
  <2>3. s \in [1 .. Len(s) -> T]
    BY <2>2, <1>14
  <2> QED BY <2>1, <2>3, SeqDef
<1>16. \A i \in 1 .. Len(s) : IsTop(T, s[i])
  BY <1>14
<1>17. \A i \in 1 .. Len(s) - 1 : s[i + 1] = h[s[i]].next
  <2>1. \A i \in 1 .. Len(s) - 1 : s[i] \in D
    BY <1>4, <1>13, <1>14
  <2> QED BY <2>1, <1>1, <1>7 DEF IsPath
<1>18. h[s[Len(s)]].next = Nil
  <2>1. Len(s) \in 1 .. Len(s) /\ s[Len(s)] \in T /\ s[Len(s)] \in D
    BY <1>4, <1>13, <1>14
  <2>2. h[s[Len(s)]].next \notin D
    BY <2>1, <1>1, <1>7 DEF IsPath
  <2> QED BY <2>1, <2>2, <1>2 DEF Shape, Nexts, IsTop
<1>19. \A j \in 1 .. Len(s) : \A i \in 1 .. j - 1 : Less(s[i].start, s[j].start)
  <2>1. \A j \in 1 .. Len(s) : \A i \in 1 .. j - 1 : <<s[i], s[j]>> \in R
    BY <1>5, <1>7, PathGoesUp
  <2> QED BY <2>1, OrderPairs DEF R
<1>20. ASSUME NEW y \in T, ~Less(y.start, x.start)
       PROVE  \E i \in 1 .. Len(s) : s[i].start = y.start
  <2>1. PICK t : IsTop(T, t) /\ t.start = y.start
    BY <1>2, NilOut, TopExists DEF Shape
  <2>2. t \in C
    BY <2>1, <1>20 DEF IsTop
  <2> QED BY <2>1, <2>2, <1>12, <1>13 DEF ToSet
<1> QED BY <1>13, <1>15, <1>16, <1>17, <1>18, <1>19, <1>20 DEF IsHeads, s

-----------------------------------------------------------------------------
(* Lookup.                                                                 *)

LEMMA PrevOfNext ==
    ASSUME NEW h, NEW T, NEW z, Shape(h, T, z), NEW p, NEW x, IsTop(T, p), IsTop(T, x),
           h[p].end = x.start
    PROVE  h[x].prev = p /\ h[p].next = x /\ x.start # <<0>>
           /\ h[x].off = Differ(p.start, x.start)
<1>1. T \subseteq NodeName /\ p \in T /\ x \in T /\ Nil \notin T
  BY NilOut DEF Shape, IsTop
<1>2. \A y \in T : y.start \in Name /\ h[y].end \in Name
  BY <1>1, NodeFacts, CellFacts DEF Shape
<1>3. Less(p.start, x.start)
  BY <1>1 DEF Shape, Ends
<1>4. x.start # <<0>>
  BY <1>1, <1>2, <1>3, RootNames
<1> DEFINE q == h[x].prev
<1>5. IsTop(T, q) /\ h[q].end = x.start /\ h[x].off = Differ(q.start, x.start) /\ q \in T
  BY <1>1, <1>4 DEF Shape, Prevs, IsTop
<1> HIDE DEF q
<1>6. ~Less(p.start, q.start) /\ ~Less(q.start, p.start)
  BY <1>1, <1>5 DEF Shape, Ends
<1>7. p.start = q.start
  BY <1>1, <1>2, <1>5, <1>6, NameOrder
<1>8. p = q
  BY <1>1, <1>5, <1>7, TopUnique
<1>9. h[p].next = x
  <2>1. h[p].end # z
    BY <1>1, <1>2, NameOrder DEF Shape, Ends
  <2>2. IsTop(T, h[p].next) /\ h[p].next.start = h[p].end
    BY <2>1, <1>1 DEF Shape, Nexts
  <2> QED BY <2>2, <1>1, TopUnique
<1> QED BY <1>4, <1>5, <1>8, <1>9 DEF q

WalkStart(previous) == [previous |-> previous, next |-> Nil, off |-> 0, more |-> TRUE]

WalkJob(h, o, list, previous) ==
    CHOOSE g : g = [i \in 0 .. Len(list) |->
                       IF i = 0 THEN WalkStart(previous) ELSE Pass(g[i - 1], h, o, list[i])]

LEMMA WalkJobIs ==
    ASSUME NEW h, NEW o, NEW previous, NEW list, Len(list) \in Nat
    PROVE  /\ WalkJob(h, o, list, previous)[0] = WalkStart(previous)
           /\ \A i \in 1 .. Len(list) :
                 WalkJob(h, o, list, previous)[i]
                    = Pass(WalkJob(h, o, list, previous)[i - 1], h, o, list[i])
<1> DEFINE s == WalkStart(previous)
           Def(g, k) == g = [i \in 0 .. k |-> IF i = 0 THEN s
                                              ELSE Pass(g[i - 1], h, o, list[i])]
           Bad == {k \in Nat : ~\E g : Def(g, k)}
<1> HIDE DEF s
<1>1. Bad = {}
  <2> SUFFICES ASSUME Bad # {} PROVE FALSE
    OBVIOUS
  <2>1. PICK k \in Bad : \A l \in Bad : k \leq l
    <3>1. Bad \in SUBSET Nat
      OBVIOUS
    <3> HIDE DEF Bad
    <3> QED BY <3>1, LeastNumber
  <2>2. k # 0
    <3> DEFINE g == [i \in 0 .. 0 |-> s]
    <3>1. Def(g, 0)
      OBVIOUS
    <3> QED BY <3>1
  <2>3. PICK g : Def(g, k - 1)
    <3>1. k - 1 \in Nat /\ ~(k \leq k - 1)
      BY <2>2
    <3> QED BY <3>1, <2>1
  <2> DEFINE f == [i \in 0 .. k |-> IF i = k THEN Pass(g[k - 1], h, o, list[k]) ELSE g[i]]
  <2>4. \A i \in 0 .. k : f[i] = IF i = 0 THEN s ELSE Pass(f[i - 1], h, o, list[i])
    <3> TAKE i \in 0 .. k
    <3>1. CASE i = k
      <4>1. k - 1 \in 0 .. k /\ k - 1 # k /\ k \in 0 .. k
        BY <2>2
      <4> QED BY <3>1, <4>1, <2>2
    <3>2. CASE i # k
      <4>1. i \in 0 .. k - 1 /\ (i # 0 => i - 1 \in 0 .. k /\ i - 1 # k)
        BY <3>2
      <4>2. g[i] = IF i = 0 THEN s ELSE Pass(g[i - 1], h, o, list[i])
        BY <4>1, <2>3
      <4> QED BY <3>2, <4>1, <4>2
    <3> QED BY <3>1, <3>2
  <2>5. Def(f, k)
    BY <2>4
  <2> QED BY <2>5
<1>2. \E g : Def(g, Len(list))
  BY <1>1
<1> DEFINE job == CHOOSE g : Def(g, Len(list))
<1>3. Def(job, Len(list))
  BY <1>2
<1>4. WalkJob(h, o, list, previous) = job
  BY DEF WalkJob, s
<1> HIDE DEF job
<1>5. 0 \in 0 .. Len(list) /\ \A i \in 1 .. Len(list) : i \in 0 .. Len(list) /\ i # 0
  OBVIOUS
<1> QED BY <1>3, <1>4, <1>5 DEF s

LEMMA WalkIs ==
    ASSUME NEW h, NEW o, NEW x, NEW previous
    PROVE  LET job == WalkJob(h, o, Heads(h, x), previous)
               end == job[Len(Heads(h, x))]
           IN Walk(h, o, x, previous) = [previous |-> end.previous, next |-> end.next]
BY DEF Walk, WalkJob, WalkStart

\* The slice that o falls into, or the last if o lies behind it, by its head.
Reaches(h, T, z, o, w) ==
    IsTop(T, w) /\ ~Less(o, w.start) /\ (h[w].end = z \/ Less(o, h[w].end))

\* Where a walk may start: at the first slice, or behind one that is not behind o.
MayStart(h, T, o, x, previous) ==
    /\ IsTop(T, x)
    /\ \/ previous = Nil /\ ~Less(o, x.start)
       \/ IsTop(T, previous) /\ h[previous].end = x.start /\ ~Less(o, previous.start)

LEMMA WalkReaches ==
    ASSUME NEW h, NEW T, NEW z, Shape(h, T, z), NEW o \in Name, NEW x, NEW previous,
           MayStart(h, T, o, x, previous)
    PROVE  LET w == Walk(h, o, x, previous)
           IN Reaches(h, T, z, o, w.previous) /\ w.next = h[w.previous].next
<1> DEFINE s == Heads(h, x)
           job == WalkJob(h, o, s, previous)
           Done(j) == Reaches(h, T, z, o, j.previous) /\ j.next = h[j.previous].next
           On(j, i) == /\ j.next = Nil /\ j.off \in Nat
                       /\ IF i = 0 THEN j.previous = previous /\ j.off = 0
                          ELSE /\ j.previous = s[i] /\ ~Less(o, s[i].start)
                               /\ j.off = Differ(o, s[i].start)
           Inv(i) == /\ job[i] = [previous |-> job[i].previous, next |-> job[i].next,
                                  off |-> job[i].off, more |-> job[i].more]
                     /\ job[i].more \in BOOLEAN
                     /\ IF job[i].more THEN On(job[i], i) ELSE Done(job[i])
<1>1. IsHeads(h, T, x, s)
  BY HeadsAre DEF MayStart
<1>2. T \subseteq NodeName /\ Nil \notin T /\ T \subseteq DOMAIN h
  BY NilOut DEF Shape
<1>3. /\ o \in Seq(Nat)
      /\ \A y \in T : y.start \in Name /\ y.start \in Seq(Nat) /\ h[y].end \in Name
  BY <1>2, NodeFacts, CellFacts DEF Name, Shape
<1> HIDE DEF s
<1>4. /\ Len(s) \in Nat /\ Len(s) > 0 /\ s[1] = x
      /\ \A i \in 1 .. Len(s) : IsTop(T, s[i]) /\ s[i] \in T
  BY <1>1 DEF IsHeads, IsTop
<1>5. /\ job[0] = WalkStart(previous)
      /\ \A i \in 1 .. Len(s) : job[i] = Pass(job[i - 1], h, o, s[i])
  BY <1>4, WalkJobIs
<1>6. Walk(h, o, x, previous) = [previous |-> job[Len(s)].previous, next |-> job[Len(s)].next]
  BY WalkIs DEF s
<1> HIDE DEF job
<1>7. Inv(0)
  BY <1>5 DEF WalkStart
<1>8. ASSUME NEW i \in 1 .. Len(s), Inv(i - 1) PROVE Inv(i)
  <2> DEFINE a == job[i - 1]
             y == s[i]
  <2>1. job[i] = Pass(a, h, o, y)
    BY <1>5
  <2>2. CASE ~a.more
    BY <2>1, <2>2, <1>8 DEF Pass
  <2>3. CASE a.more
    <3>1. On(a, i - 1) /\ i - 1 \in Nat
      BY <2>3, <1>8
    <3>2. /\ a = [previous |-> a.previous, next |-> a.next, off |-> a.off, more |-> a.more]
          /\ a.more = TRUE
      BY <2>3, <1>8
    <3>3. y \in T /\ IsTop(T, y) /\ y.start \in Seq(Nat) /\ y.start \in Name
      BY <1>3, <1>4
    \* The slice before this one, unless there is none.
    <3>4. i # 1 => /\ s[i - 1] \in T /\ IsTop(T, s[i - 1]) /\ h[s[i - 1]].end = y.start
                   /\ a.previous = s[i - 1]
      <4> SUFFICES ASSUME i # 1 PROVE /\ s[i - 1] \in T /\ IsTop(T, s[i - 1])
                                      /\ h[s[i - 1]].end = y.start
                                      /\ a.previous = s[i - 1]
        OBVIOUS
      <4>1. i - 1 \in 1 .. Len(s) /\ i - 1 \in 1 .. Len(s) - 1 /\ (i - 1) + 1 = i
        BY <1>4
      <4>2. y = h[s[i - 1]].next /\ s[i - 1] \in T /\ IsTop(T, s[i - 1])
        BY <4>1, <1>1, <1>4 DEF IsHeads
      <4>3. h[s[i - 1]].end = y.start
        BY <4>2, <3>3, <1>2 DEF Shape, Nexts
      <4> QED BY <4>2, <4>3, <3>1
    <3>5. CASE Skips(h, y, a.off)
      <4>1. i # 1 /\ a.off = Differ(o, s[i - 1].start) /\ ~Less(o, s[i - 1].start)
        BY <3>1, <3>5 DEF Skips
      <4>2. h[y].off = Differ(s[i - 1].start, y.start)
        BY <4>1, <3>3, <3>4, PrevOfNext
      <4>3. Differ(o, s[i - 1].start) < Differ(s[i - 1].start, y.start)
        BY <4>1, <4>2, <3>1, <3>5, DifferAt, <1>3, <3>3, <3>4, CellFacts DEF Skips, Shape
      <4>4. ~Less(o, y.start) /\ Differ(o, y.start) = Differ(o, s[i - 1].start)
        BY <4>1, <4>3, <1>3, <3>3, <3>4, SkipSound
      <4>5. job[i] = [a EXCEPT !.previous = y]
        BY <2>1, <2>3, <3>5 DEF Pass
      <4> HIDE DEF a, y
      <4>6. /\ job[i].previous = y /\ job[i].next = a.next /\ job[i].off = a.off
            /\ job[i].more = a.more
            /\ job[i] = [previous |-> y, next |-> a.next, off |-> a.off, more |-> a.more]
        BY <4>5, <3>2
      <4>7. job[i].more = TRUE /\ i # 0 /\ job[i].next = Nil /\ job[i].off \in Nat
        BY <4>6, <3>1, <3>2, <1>4
      <4>8. On(job[i], i)
        BY <4>1, <4>4, <4>6, <4>7 DEF y
      <4>9. job[i] = [previous |-> job[i].previous, next |-> job[i].next,
                      off |-> job[i].off, more |-> job[i].more]
        BY <4>6
      <4> HIDE DEF On
      <4> QED BY <4>7, <4>8, <4>9
    <3>6. CASE ~Skips(h, y, a.off) /\ Less(o, y.start)
      <4>1. job[i] = [a EXCEPT !.next = y, !.more = FALSE]
        BY <2>1, <2>3, <3>6 DEF Pass
      <4>2. /\ IsTop(T, a.previous) /\ h[a.previous].end = y.start
            /\ ~Less(o, a.previous.start)
        <5>1. CASE i = 1
          BY <5>1, <3>1, <3>6, <1>4 DEF MayStart
        <5>2. CASE i # 1
          BY <5>2, <3>1, <3>4
        <5> QED BY <5>1, <5>2
      <4>3. h[a.previous].next = y
        BY <4>2, <3>3, PrevOfNext
      <4> HIDE DEF a
      <4>4. /\ job[i].previous = a.previous /\ job[i].next = y /\ job[i].more = FALSE
            /\ job[i] = [previous |-> a.previous, next |-> y, off |-> a.off, more |-> FALSE]
        BY <4>1, <3>2
      <4> QED BY <4>2, <4>3, <4>4, <3>6 DEF Reaches
    <3>7. CASE ~Skips(h, y, a.off) /\ ~Less(o, y.start)
      <4>1. job[i] = [a EXCEPT !.previous = y, !.off = Differ(o, y.start)]
        BY <2>1, <2>3, <3>7 DEF Pass
      <4>2. Differ(o, y.start) \in Nat
        BY <1>3, <3>3, DifferAt, NameFacts DEF DiffersAt
      <4> HIDE DEF a, y
      <4>3. /\ job[i].previous = y /\ job[i].next = a.next /\ job[i].off = Differ(o, y.start)
            /\ job[i].more = a.more
            /\ job[i] = [previous |-> y, next |-> a.next, off |-> Differ(o, y.start),
                         more |-> a.more]
        BY <4>1, <3>2
      <4>4. job[i].more = TRUE /\ i # 0 /\ job[i].next = Nil
        BY <4>3, <3>1, <3>2, <1>4
      <4>5. On(job[i], i)
        BY <4>2, <4>3, <4>4, <3>7 DEF y
      <4>6. job[i] = [previous |-> job[i].previous, next |-> job[i].next,
                      off |-> job[i].off, more |-> job[i].more]
        BY <4>3
      <4> HIDE DEF On
      <4> QED BY <4>4, <4>5, <4>6
    <3> QED BY <3>5, <3>6, <3>7
  <2> QED BY <2>2, <2>3
<1>9. Inv(Len(s))
  <2> DEFINE Bad == {i \in 0 .. Len(s) : ~Inv(i)}
  <2> SUFFICES ASSUME Bad # {} PROVE FALSE
    BY <1>4
  <2> HIDE DEF Inv
  <2>1. Bad \in SUBSET Nat
    BY <1>4
  <2>2. PICK k \in Bad : \A l \in Bad : k \leq l
    BY <2>1, LeastNumber
  <2>3. k # 0
    BY <1>7
  <2>4. k \in 1 .. Len(s) /\ k - 1 \in 0 .. Len(s) /\ ~(k \leq k - 1)
    BY <2>3, <1>4
  <2>5. Inv(k - 1)
    BY <2>2, <2>4
  <2> QED BY <2>4, <2>5, <1>8
<1>10. Done(job[Len(s)])
  <2>1. CASE job[Len(s)].more
    <3> DEFINE l == s[Len(s)]
    <3>1. Len(s) \in 1 .. Len(s) /\ Len(s) # 0
      BY <1>4
    <3>2. IsTop(T, l) /\ l \in T /\ h[l].next = Nil
      BY <3>1, <1>1, <1>4 DEF IsHeads
    <3>3. h[l].end = z
      BY <3>2, <1>2 DEF Shape, Nexts, IsTop
    <3>4. job[Len(s)].previous = l /\ job[Len(s)].next = Nil /\ ~Less(o, l.start)
      BY <2>1, <1>9, <3>1
    <3> QED BY <3>2, <3>3, <3>4 DEF Reaches
  <2> QED BY <2>1, <1>9
<1> QED BY <1>6, <1>10

\* AgentRegistry_subtreeFind on a tree.
LEMMA FindIs ==
    ASSUME NEW h, NEW T, NEW z, Shape(h, T, z), NEW f, IsTop(T, f), f.start = << 0 >>,
           NEW o \in Name, NEW ok
    PROVE  LET x == Find([heap |-> h, first |-> f, ok |-> ok], o)
           IN IF Less(o, z) THEN Reaches(h, T, z, o, x) /\ Less(o, h[x].end) ELSE x = Nil
<1> DEFINE t == [heap |-> h, first |-> f, ok |-> ok]
           w == Walk(h, o, f, Nil)
<1>1. MayStart(h, T, o, f, Nil)
  BY RootNames DEF MayStart
<1>2. Reaches(h, T, z, o, w.previous)
  BY <1>1, WalkReaches
<1>3. w.previous \in T /\ T \subseteq DOMAIN h
  BY <1>2 DEF Reaches, IsTop, Shape
<1>4. Find(t, o) = IF Less(o, h[w.previous].end) THEN w.previous ELSE Nil
  BY <1>3 DEF Find, Containing
<1>5. h[w.previous].end = z \/ Less(h[w.previous].end, z)
  <2>1. h[w.previous].end = z \/ \E y \in T : y.start = h[w.previous].end
    BY <1>3 DEF Shape, Ends
  <2> QED BY <2>1 DEF Shape, Ends
<1>6. h[w.previous].end \in Name /\ z \in Name
  BY <1>3, CellFacts DEF Shape
<1> HIDE DEF w
<1> QED BY <1>2, <1>4, <1>5, <1>6, NameOrder DEF Reaches

-----------------------------------------------------------------------------
(* Changing pointers.                                                      *)

\* The slice of a head, or nothing.
Row(T, x) == IF x = Nil THEN {} ELSE Level(T, x)

LEMMA ChainSet ==
    ASSUME NEW h, NEW T, Chained(h, T), NEW x, x = Nil \/ IsTop(T, x)
    PROVE  ToSet(Chain(h, x)) = Row(T, x)
<1>1. CASE x = Nil
  <2>1. Nil \notin DOMAIN h
    BY NilOut DEF Chained
  <2>2. DOMAIN [y \in DOMAIN h |-> h[y].children] = DOMAIN h
    OBVIOUS
  <2>3. Chain(h, x) = <<>>
    BY <1>1, <2>1, <2>2 DEF Chain, Follow
  <2>4. ToSet(<<>>) = {}
    BY DEF ToSet
  <2> QED BY <1>1, <2>3, <2>4 DEF Row
<1>2. CASE x # Nil
  BY <1>2, ChainIs DEF IsChain, Row
<1> QED BY <1>1, <1>2

\* A node without children is a slice of its own.
LEMMA ChainOfLoose ==
    ASSUME NEW h, NEW T, Chained(h, T), NEW x \in DOMAIN h \ T
    PROVE  Chain(h, x) = <<x>> /\ ToSet(Chain(h, x)) = {x}
<1> DEFINE link == BelowLink(h)
<1>1. DOMAIN link = DOMAIN h /\ link[x] \notin DOMAIN h
  BY NilOut DEF BelowLink, Chained
<1>2. GoesUp(link, BelowOrder(DOMAIN h))
  BY BelowGoesUp
<1>3. Chain(h, x) = Follow(link, x)
  BY DEF Chain, BelowLink
<1> HIDE DEF link
<1>4. IsPath(link, x, Chain(h, x)) /\ IsPath(link, x, <<x>>)
  BY <1>1, <1>2, <1>3, FollowPath, PathSingle
<1>5. Chain(h, x) = <<x>>
  BY <1>4, PathUnique
<1>6. ToSet(<<x>>) = {x}
  BY DEF ToSet
<1> QED BY <1>5, <1>6

LEMMA DifferType ==
    \A a, b \in Name : Differ(a, b) \in Nat
<1> SUFFICES ASSUME NEW a \in Name, NEW b \in Name PROVE Differ(a, b) \in Nat
  OBVIOUS
<1>1. a \in Seq(Nat) /\ b \in Seq(Nat)
  BY DEF Name
<1> QED BY <1>1, DifferAt, NameFacts DEF DiffersAt

\* Everything about the nodes but what an operation names.
SameCells(g, h, Y) ==
    \A y \in Y : /\ g[y].end = h[y].end /\ g[y].next = h[y].next /\ g[y].prev = h[y].prev
                 /\ g[y].children = h[y].children /\ g[y].off = h[y].off

NextChanged(g, h, S, n, s) ==
    /\ Typed(g) /\ DOMAIN g = DOMAIN h
    /\ \A y \in DOMAIN h :
          /\ g[y].end = h[y].end /\ g[y].prev = h[y].prev /\ g[y].children = h[y].children
          /\ g[y].next = IF y \in S THEN n ELSE h[y].next
          /\ g[y].off = IF y = n /\ S # {} THEN Differ(s, y.start) ELSE h[y].off

PrevChanged(g, h, S, p) ==
    /\ Typed(g) /\ DOMAIN g = DOMAIN h
    /\ \A y \in DOMAIN h :
          /\ g[y].end = h[y].end /\ g[y].next = h[y].next /\ g[y].children = h[y].children
          /\ g[y].prev = IF y \in S THEN p ELSE h[y].prev
          /\ g[y].off = IF y \in S /\ p # Nil THEN Differ(p.start, y.start) ELSE h[y].off

LEMMA ChangeNextIs ==
    ASSUME NEW h, Typed(h), NEW S, NEW n \in Ref, NEW s \in Name, \A x \in S : x.start = s
    PROVE  NextChanged(ChangeNext(h, S, n), h, S, n, s)
<1> DEFINE g == ChangeNext(h, S, n)
           q == CHOOSE x \in S : TRUE
<1>1. /\ g = [y \in DOMAIN h |-> [h[y] EXCEPT
                !.next = IF y \in S THEN n ELSE h[y].next,
                !.off = IF y = n /\ S # {} THEN Differ(q.start, y.start) ELSE h[y].off]]
      /\ \A y \in DOMAIN h : h[y] \in Cell
  BY DEF ChangeNext, Typed
<1>2. S # {} => q.start = s
  OBVIOUS
<1> HIDE DEF g, q
<1>3. \A y \in DOMAIN h : y.start \in Name
  BY NodeFacts DEF Typed
<1>4. ASSUME NEW y \in DOMAIN h
      PROVE  /\ g[y] \in Cell
             /\ g[y].end = h[y].end /\ g[y].prev = h[y].prev /\ g[y].children = h[y].children
             /\ g[y].next = IF y \in S THEN n ELSE h[y].next
             /\ g[y].off = IF y = n /\ S # {} THEN Differ(s, y.start) ELSE h[y].off
  <2> DEFINE nx == IF y \in S THEN n ELSE h[y].next
             of == IF y = n /\ S # {} THEN Differ(q.start, y.start) ELSE h[y].off
  <2>1. g[y] = [h[y] EXCEPT !.next = nx, !.off = of]
    BY <1>1
  <2>2. h[y] \in Cell
    BY <1>1
  <2>3. of = IF y = n /\ S # {} THEN Differ(s, y.start) ELSE h[y].off
    BY <1>2
  <2>4. nx \in Ref
    BY <2>2 DEF Cell
  <2>5. of \in Nat
    BY <2>2, <2>3, <1>3, DifferType DEF Cell
  <2> HIDE DEF nx, of
  <2>6. /\ g[y].end = h[y].end /\ g[y].prev = h[y].prev /\ g[y].children = h[y].children
        /\ g[y].next = nx /\ g[y].off = of /\ g[y] \in Cell
    BY <2>1, <2>2, <2>4, <2>5 DEF Cell
  <2> QED BY <2>3, <2>6 DEF nx
<1>5. DOMAIN g = DOMAIN h /\ g \in [DOMAIN h -> Cell]
  BY <1>1, <1>4
<1> QED BY <1>4, <1>5 DEF NextChanged, Typed, g

LEMMA ChangePrevIs ==
    ASSUME NEW h, Typed(h), NEW S, NEW p \in Ref
    PROVE  PrevChanged(ChangePrev(h, S, p), h, S, p)
<1> DEFINE g == ChangePrev(h, S, p)
<1>1. /\ g = [y \in DOMAIN h |-> [h[y] EXCEPT
                !.prev = IF y \in S THEN p ELSE h[y].prev,
                !.off = IF y \in S /\ p # Nil THEN Differ(p.start, y.start) ELSE h[y].off]]
      /\ \A y \in DOMAIN h : h[y] \in Cell
  BY DEF ChangePrev, Typed
<1> HIDE DEF g
<1>2. (\A y \in DOMAIN h : y.start \in Name) /\ (p # Nil => p.start \in Name)
  BY NodeFacts DEF Typed, Ref
<1>4. ASSUME NEW y \in DOMAIN h
      PROVE  /\ g[y] \in Cell
             /\ g[y].end = h[y].end /\ g[y].next = h[y].next /\ g[y].children = h[y].children
             /\ g[y].prev = IF y \in S THEN p ELSE h[y].prev
             /\ g[y].off = IF y \in S /\ p # Nil THEN Differ(p.start, y.start) ELSE h[y].off
  <2> DEFINE pv == IF y \in S THEN p ELSE h[y].prev
             of == IF y \in S /\ p # Nil THEN Differ(p.start, y.start) ELSE h[y].off
  <2>1. g[y] = [h[y] EXCEPT !.prev = pv, !.off = of]
    BY <1>1
  <2>2. h[y] \in Cell
    BY <1>1
  <2>4. pv \in Ref
    BY <2>2 DEF Cell
  <2>5. of \in Nat
    BY <2>2, <1>2, DifferType DEF Cell
  <2> HIDE DEF pv, of
  <2>6. /\ g[y].end = h[y].end /\ g[y].next = h[y].next /\ g[y].children = h[y].children
        /\ g[y].prev = pv /\ g[y].off = of /\ g[y] \in Cell
    BY <2>1, <2>2, <2>4, <2>5, Zenon DEF Cell
  <2> QED BY <2>6 DEF pv, of
<1>5. DOMAIN g = DOMAIN h /\ g \in [DOMAIN h -> Cell]
  BY <1>1, <1>4, Zenon
<1> QED BY <1>4, <1>5 DEF PrevChanged, Typed, g

\* The chains of a heap are those of the heap whose next and prev have changed.
LEMMA ChainsKept ==
    ASSUME NEW h, NEW g, NEW T, Chained(h, T), Typed(g), DOMAIN g = DOMAIN h,
           \A y \in DOMAIN h : g[y].children = h[y].children
    PROVE  Chained(g, T)
BY DEF Chained, Belows

LEMMA SliceNextIs ==
    ASSUME NEW h, NEW T, Chained(h, T), NEW x, x = Nil \/ IsTop(T, x), NEW n \in Ref
    PROVE  /\ NextChanged(SliceNext(h, x, n), h, Row(T, x), n, x.start)
           /\ Chained(SliceNext(h, x, n), T)
<1>1. SliceNext(h, x, n) = ChangeNext(h, Row(T, x), n)
  BY ChainSet DEF SliceNext
<1>2. Typed(h)
  BY DEF Chained
<1>3. x # Nil => x.start \in Name /\ \A y \in Row(T, x) : y.start = x.start
  BY NilOut, NodeFacts DEF Row, Level, IsTop, Chained
<1>4. CASE x # Nil
  <2>1. NextChanged(SliceNext(h, x, n), h, Row(T, x), n, x.start)
    BY <1>1, <1>2, <1>3, <1>4, ChangeNextIs
  <2> QED BY <2>1, ChainsKept DEF NextChanged
<1>5. CASE x = Nil
  <2>1. Row(T, x) = {} /\ <<0>> \in Name
    BY <1>5, RootNames DEF Row
  <2>2. NextChanged(SliceNext(h, x, n), h, Row(T, x), n, <<0>>)
    BY <1>1, <1>2, <2>1, ChangeNextIs
  <2>3. NextChanged(SliceNext(h, x, n), h, Row(T, x), n, x.start)
    BY <2>1, <2>2 DEF NextChanged
  <2> QED BY <2>3, ChainsKept DEF NextChanged
<1> QED BY <1>4, <1>5

LEMMA SlicePrevIs ==
    ASSUME NEW h, NEW T, Chained(h, T), NEW x, x = Nil \/ IsTop(T, x), NEW p \in Ref
    PROVE  /\ PrevChanged(SlicePrev(h, x, p), h, Row(T, x), p)
           /\ Chained(SlicePrev(h, x, p), T)
<1>1. SlicePrev(h, x, p) = ChangePrev(h, Row(T, x), p)
  BY ChainSet DEF SlicePrev
<1>2. Typed(h)
  BY DEF Chained
<1>3. PrevChanged(SlicePrev(h, x, p), h, Row(T, x), p)
  BY <1>1, <1>2, ChangePrevIs
<1> QED BY <1>3, ChainsKept DEF PrevChanged

-----------------------------------------------------------------------------
(* Splitting a slice.                                                      *)

LEMMA EndLeZ ==
    ASSUME NEW h, NEW T, NEW z, Shape(h, T, z), NEW x \in T
    PROVE  h[x].end = z \/ Less(h[x].end, z)
<1>1. h[x].end = z \/ \E y \in T : y.start = h[x].end
  BY DEF Shape, Ends
<1> QED BY <1>1 DEF Shape, Ends

Copies(T, x, at) == {Moved(y, at) : y \in Level(T, x)}

\* What splitting the slice of x leaves in the fields of the nodes.
SplitCells(g, h, T, x, at) ==
    LET X == Level(T, x)
        K == Copies(T, x, at)
        c == Moved(x, at)
        n == h[x].next
    IN /\ Typed(g) /\ DOMAIN g = DOMAIN h \cup K
       /\ \A y \in X :
             /\ g[y].end = at /\ g[y].next = c /\ g[y].prev = h[y].prev
             /\ g[y].children = h[y].children /\ g[y].off = h[y].off
             /\ LET k == Moved(y, at)
                IN /\ g[k].end = h[y].end /\ g[k].next = h[y].next /\ g[k].prev = x
                   /\ g[k].children = IF h[y].children = Nil THEN Nil
                                      ELSE Moved(h[y].children, at)
                   /\ g[k].off = Differ(x.start, at)
       /\ \A y \in Row(T, n) :
             /\ g[y].end = h[y].end /\ g[y].next = h[y].next /\ g[y].prev = c
             /\ g[y].children = h[y].children /\ g[y].off = Differ(at, y.start)
       /\ SameCells(g, h, (DOMAIN h \ X) \ Row(T, n))

LEMMA SplitIs ==
    ASSUME NEW h, NEW T, NEW z, Shape(h, T, z), NEW x, IsTop(T, x), NEW at \in Name,
           Less(x.start, at), Less(at, h[x].end),
           \A y \in Level(T, x) : Moved(y, at) \notin DOMAIN h
    PROVE  /\ Split(h, x, at).node = Moved(x, at)
           /\ SplitCells(Split(h, x, at).heap, h, T, x, at)
<1> DEFINE D == DOMAIN h
           X == Level(T, x)
           K == Copies(T, x, at)
           c == Moved(x, at)
           n == h[x].next
           slice == ToSet(Chain(h, x))
           Copy(y) == IF y = Nil THEN Nil ELSE [y EXCEPT !.start = at]
           cut == [y \in D \cup {Copy(w) : w \in slice} |->
                     IF y \in slice THEN [h[y] EXCEPT !.end = at]
                     ELSE IF y \in D THEN h[y]
                     ELSE [h[[y EXCEPT !.start = x.start]] EXCEPT !.children = Copy(@)]]
           g1 == SliceNext(cut, x, c)
           g2 == SlicePrev(g1, c, x)
           g  == SlicePrev(g2, n, c)
           U  == T \cup K
<1>1. /\ T \subseteq NodeName /\ T \subseteq D /\ D \subseteq NodeName /\ Nil \notin D
      /\ x \in T /\ x # Nil /\ x \in X /\ X \subseteq T /\ IsFiniteSet(D)
  BY NilOut DEF Shape, IsTop, Level, Typed
<1>2. \A y \in D : /\ y.start \in Name /\ h[y].end \in Name /\ h[y].next \in Ref
                   /\ h[y].prev \in Ref /\ h[y].children \in Ref /\ h[y].off \in Nat
                   /\ h[y] \in Cell
  BY <1>1, NodeFacts, CellFacts DEF Shape, Typed
<1>3. slice = X /\ X = Row(T, x)
  BY ChainSet, ShapeChained, <1>1 DEF Row
<1>4. \A y \in NodeName : Copy(y) = Moved(y, at)
  BY NodeFacts DEF Moved
<1>5. Split(h, x, at) = [heap |-> g, node |-> c]
  <2>1. ~Less(h[x].end, at)
    BY <1>1, <1>2, NameOrder
  <2>2. Copy(x) = c
    BY <1>1, <1>4
  <2> HIDE DEF c, n
  <2> QED BY <2>1, <2>2 DEF Split, n
<1> HIDE DEF slice
<1>6. {Copy(w) : w \in slice} = K
  BY <1>1, <1>3, <1>4 DEF Copies
<1>7. \A y \in X : /\ Moved(y, at) \in K /\ Moved(y, at) \notin D
                   /\ [Moved(y, at) EXCEPT !.start = x.start] = y
  <2> SUFFICES ASSUME NEW y \in X
               PROVE  /\ Moved(y, at) \in K /\ Moved(y, at) \notin D
                      /\ [Moved(y, at) EXCEPT !.start = x.start] = y
    OBVIOUS
  <2>1. Moved(y, at) \in K /\ Moved(y, at) \notin D
    BY DEF Copies
  <2> DEFINE m == Moved(y, at)
  <2>2. y \in NodeName /\ y.start = x.start /\ x.start \in Name
    BY <1>1, <1>2 DEF Level
  <2>3. /\ m \in NodeName /\ m.name = y.name /\ m.prio = y.prio /\ m.sess = y.sess
    BY <2>2, NodeFacts
  <2> HIDE DEF m
  <2>4. [m EXCEPT !.start = x.start] = Moved(m, x.start)
    BY DEF Moved
  <2> DEFINE b == Moved(m, x.start)
  <2>6. /\ b \in NodeName /\ b.name = m.name /\ b.prio = m.prio /\ b.sess = m.sess
        /\ b.start = x.start
    BY <2>2, <2>3, NodeFacts
  <2>5. b = y
    <3> HIDE DEF b
    <3> QED BY <2>2, <2>3, <2>6, NodeFacts
  <2> QED BY <2>1, <2>4, <2>5 DEF m
<1>8. \A k \in K : \E y \in X : k = Moved(y, at)
  BY DEF Copies
<1>9. DOMAIN cut = D \cup K
  BY <1>6
<1>10. \A y \in X : cut[y] = [h[y] EXCEPT !.end = at]
  BY <1>1, <1>3, <1>6
<1>11. \A y \in D \ X : cut[y] = h[y]
  BY <1>1, <1>3, <1>6
<1>12. ASSUME NEW y \in X
       PROVE  cut[Moved(y, at)] = [h[y] EXCEPT !.children = Copy(h[y].children)]
  <2> DEFINE m == Moved(y, at)
  <2>1. m \in D \cup {Copy(w) : w \in slice} /\ m \notin D /\ m \notin slice
    BY <1>1, <1>3, <1>6, <1>7
  <2>2. [m EXCEPT !.start = x.start] = y
    BY <1>7
  <2> HIDE DEF m
  <2> QED BY <2>1, <2>2 DEF m
<1>13. \A y \in X : h[y].children = Nil \/ h[y].children \in X
  <2> SUFFICES ASSUME NEW y \in X PROVE h[y].children = Nil \/ h[y].children \in X
    OBVIOUS
  <2>1. h[y].children = Nil \/ IsBelow(T, y, h[y].children)
    BY <1>1 DEF Shape, Belows
  <2> QED BY <2>1 DEF IsBelow, Over, Level
<1> HIDE DEF cut
<1>14. \A y \in X : /\ cut[y].end = at /\ cut[y].next = h[y].next /\ cut[y].prev = h[y].prev
                    /\ cut[y].children = h[y].children /\ cut[y].off = h[y].off
                    /\ cut[y] \in Cell
  <2> SUFFICES ASSUME NEW y \in X
               PROVE  /\ cut[y].end = at /\ cut[y].next = h[y].next /\ cut[y].prev = h[y].prev
                      /\ cut[y].children = h[y].children /\ cut[y].off = h[y].off
                      /\ cut[y] \in Cell
    OBVIOUS
  <2>1. h[y] \in Cell
    BY <1>1, <1>2
  <2> QED BY <2>1, <1>10 DEF Cell
<1>15. \A y \in X : LET k == Moved(y, at)
                    IN /\ cut[k].end = h[y].end /\ cut[k].next = h[y].next
                       /\ cut[k].prev = h[y].prev /\ cut[k].off = h[y].off
                       /\ cut[k].children = IF h[y].children = Nil THEN Nil
                                            ELSE Moved(h[y].children, at)
                       /\ cut[k] \in Cell
  <2> SUFFICES ASSUME NEW y \in X
               PROVE  LET k == Moved(y, at)
                      IN /\ cut[k].end = h[y].end /\ cut[k].next = h[y].next
                         /\ cut[k].prev = h[y].prev /\ cut[k].off = h[y].off
                         /\ cut[k].children = IF h[y].children = Nil THEN Nil
                                              ELSE Moved(h[y].children, at)
                         /\ cut[k] \in Cell
    OBVIOUS
  <2> DEFINE k == Moved(y, at)
             b == IF h[y].children = Nil THEN Nil ELSE Moved(h[y].children, at)
  <2>1. h[y] \in Cell
    BY <1>1, <1>2
  <2>2. Copy(h[y].children) = b /\ b \in Ref
    <3>1. CASE h[y].children = Nil
      BY <3>1 DEF Ref
    <3>2. CASE h[y].children # Nil
      <4>1. h[y].children \in NodeName
        BY <3>2, <1>1, <1>13
      <4>2. Copy(h[y].children) = Moved(h[y].children, at)
        BY <4>1, <1>4
      <4>3. Moved(h[y].children, at) \in NodeName
        BY <4>1, NodeFacts
      <4> HIDE DEF Copy
      <4> QED BY <3>2, <4>2, <4>3 DEF Ref
    <3> QED BY <3>1, <3>2
  <2>3. cut[k] = [h[y] EXCEPT !.children = b]
    BY <1>12, <2>2
  <2> HIDE DEF k, b
  <2>4. /\ cut[k].end = h[y].end /\ cut[k].next = h[y].next
        /\ cut[k].prev = h[y].prev /\ cut[k].off = h[y].off
        /\ cut[k].children = b /\ cut[k] \in Cell
    BY <2>1, <2>2, <2>3 DEF Cell
  <2> QED BY <2>4 DEF k, b
<1>16. K \subseteq NodeName /\ IsFiniteSet(K)
  <2>1. K \subseteq NodeName
    BY <1>1, NodeFacts DEF Copies, Level
  <2>2. IsFiniteSet(X)
    BY <1>1, FS_Subset
  <2>3. [y \in X |-> Moved(y, at)] \in Surjection(X, K)
    BY DEF Copies, Surjection
  <2>4. IsFiniteSet(K)
    BY <2>2, <2>3, FS_Surjection
  <2> QED BY <2>1, <2>4
<1>17. Typed(cut)
  <2>1. \A y \in D \cup K : cut[y] \in Cell
    BY <1>2, <1>8, <1>11, <1>14, <1>15
  <2>2. IsFiniteSet(D \cup K)
    BY <1>1, <1>16, FS_Union
  <2>3. cut \in [DOMAIN cut -> Cell]
    BY <1>9, <2>1 DEF cut
  <2> QED BY <1>1, <1>9, <1>16, <2>2, <2>3 DEF Typed
<1>18. /\ \A y \in K : y.start = at /\ y \in NodeName /\ y \notin D
       /\ \A y \in T : y.start # at
  <2>1. \A y \in K : y.start = at /\ y \in NodeName /\ y \notin D
    BY <1>1, <1>7, <1>8, NodeFacts
  <2>2. ASSUME NEW y \in T, y.start = at PROVE FALSE
    <3>1. ~Less(at, h[x].end)
      BY <1>1, <2>2 DEF Shape, Ends
    <3> QED BY <3>1
  <2> QED BY <2>1, <2>2
<1>19. \A y \in T : Level(U, y) = Level(T, y)
  BY <1>18 DEF Level
<1>20. \A y : IsTop(T, y) => IsTop(U, y)
  BY <1>18 DEF IsTop
<1>21. /\ \A y \in X : \A w \in X : Ahead(Moved(y, at), Moved(w, at)) <=> Ahead(y, w)
       /\ \A y \in X : y.start = x.start /\ y \in NodeName
  <2>1. \A y \in X : y \in NodeName /\ y.start = x.start
    BY <1>1 DEF Level
  <2> QED BY <2>1, NodeFacts, ZenonT(20) DEF Ahead
<1>22. IsTop(U, c) /\ c \in K /\ Level(U, c) = K /\ c.start = at
  <2>1. c \in K /\ c.start = at
    BY <1>1, <1>7, <1>18
  <2>2. Level(U, c) = K
    BY <2>1, <1>18 DEF Level
  <2>3. ASSUME NEW y \in U, y.start = c.start PROVE y = c \/ Ahead(c, y)
    <3>1. y \in K
      BY <2>2, <2>3 DEF Level
    <3>2. PICK w \in X : y = Moved(w, at)
      BY <3>1, <1>8
    <3>3. w = x \/ Ahead(x, w)
      BY <1>1, <1>21 DEF IsTop
    <3> QED BY <3>2, <3>3, <1>1, <1>21
  <2> QED BY <2>1, <2>2, <2>3 DEF IsTop
<1>23. Chained(cut, U)
  <2>1. U \subseteq DOMAIN cut
    BY <1>1, <1>9
  <2>2. \A y \in DOMAIN cut \ U : cut[y].children = Nil
    BY <1>9, <1>11, <1>1 DEF Shape, Loose
  <2>3. Ranked(U)
    <3> SUFFICES ASSUME NEW y \in U, NEW w \in U, y.start = w.start
                 PROVE  y = w \/ Ahead(y, w) \/ Ahead(w, y)
      BY DEF Ranked
    <3>1. CASE y \in T
      BY <3>1, <1>18 DEF Shape, Ranked
    <3>2. CASE y \in K
      <4>1. w \in K
        BY <3>2, <1>18
      <4>2. PICK a \in X, b \in X : y = Moved(a, at) /\ w = Moved(b, at)
        BY <3>2, <4>1, <1>8
      <4>3. a = b \/ Ahead(a, b) \/ Ahead(b, a)
        BY <1>1, <1>21 DEF Shape, Ranked
      <4> QED BY <4>2, <4>3, <1>21
    <3> QED BY <3>1, <3>2
  <2>4. Belows(cut, U)
    <3> SUFFICES ASSUME NEW y \in U
                 PROVE  IF cut[y].children = Nil THEN \A w \in U : ~Over(y, w)
                        ELSE IsBelow(U, y, cut[y].children)
      BY DEF Belows
    <3>1. CASE y \in T
      <4>1. cut[y].children = h[y].children
        BY <3>1, <1>1, <1>11, <1>14
      <4>2. \A w \in U : Over(y, w) => w \in T
        BY <3>1, <1>18 DEF Over
      <4> QED BY <3>1, <4>1, <4>2 DEF Shape, Belows, IsBelow
    <3>2. CASE y \in K
      <4>1. PICK a \in X : y = Moved(a, at)
        BY <3>2, <1>8
      <4>2. \A w \in U : Over(y, w) => \E b \in X : w = Moved(b, at) /\ Over(a, b)
        <5> SUFFICES ASSUME NEW w \in U, Over(y, w)
                     PROVE  \E b \in X : w = Moved(b, at) /\ Over(a, b)
          OBVIOUS
        <5>1. w \in K
          BY <3>2, <1>18 DEF Over
        <5>2. PICK b \in X : w = Moved(b, at)
          BY <5>1, <1>8
        <5> QED BY <5>2, <4>1, <1>21 DEF Over
      <4>3. CASE h[a].children = Nil
        <5>1. \A b \in X : ~Over(a, b)
          BY <4>3, <1>1 DEF Shape, Belows
        <5>2. cut[y].children = Nil
          BY <4>1, <4>3, <1>15
        <5> QED BY <4>2, <5>1, <5>2
      <4>4. CASE h[a].children # Nil
        <5> DEFINE b == h[a].children
        <5>1. IsBelow(T, a, b) /\ b \in X
          BY <4>4, <1>1, <1>13 DEF Shape, Belows
        <5>2. cut[y].children = Moved(b, at) /\ Moved(b, at) \in K /\ Moved(b, at) # Nil
          BY <4>1, <4>4, <5>1, <1>1, <1>15, <1>7, <1>16, NodeFacts
        <5> HIDE DEF b
        <5>3. Over(y, Moved(b, at))
          BY <4>1, <5>1, <5>2, <1>18, <1>21, <3>2 DEF IsBelow, Over
        <5>4. \A w \in U : Over(y, w) => w = Moved(b, at) \/ Ahead(Moved(b, at), w)
          <6> SUFFICES ASSUME NEW w \in U, Over(y, w)
                       PROVE  w = Moved(b, at) \/ Ahead(Moved(b, at), w)
            OBVIOUS
          <6>1. PICK d \in X : w = Moved(d, at) /\ Over(a, d)
            BY <4>2
          <6>2. d = b \/ Ahead(b, d)
            BY <6>1, <5>1, <1>1 DEF IsBelow
          <6> QED BY <6>1, <6>2, <5>1, <1>21
        <5> QED BY <5>2, <5>3, <5>4 DEF IsBelow
      <4> QED BY <4>3, <4>4
    <3> QED BY <3>1, <3>2
  <2> QED BY <1>17, <2>1, <2>2, <2>3, <2>4 DEF Chained
<1>24. n = Nil \/ IsTop(U, n)
  BY <1>1, <1>20 DEF Shape, Nexts
<1>25. x \in Ref /\ c \in Ref /\ c # Nil
  BY <1>1, <1>16, <1>22, NodeFacts DEF Ref
<1>26. Row(U, x) = X /\ Row(U, c) = K /\ Row(U, n) = Row(T, n)
  <2>1. n # Nil => n \in T
    BY <1>1 DEF Shape, Nexts, IsTop
  <2> QED BY <2>1, <1>1, <1>19, <1>22, <1>25 DEF Row
<1>27. NextChanged(g1, cut, X, c, x.start) /\ Chained(g1, U)
  BY <1>1, <1>20, <1>23, <1>25, <1>26, SliceNextIs
<1> HIDE DEF g1
<1>28. PrevChanged(g2, g1, K, x) /\ Chained(g2, U)
  BY <1>22, <1>25, <1>26, <1>27, SlicePrevIs
<1> HIDE DEF g2
<1>29. PrevChanged(g, g2, Row(T, n), c)
  BY <1>24, <1>25, <1>26, <1>28, SlicePrevIs
<1> HIDE DEF g
<1>30. Row(T, n) \subseteq T /\ \A y \in X : y \notin Row(T, n)
  <2>1. Row(T, n) \subseteq T
    BY DEF Row, Level
  <2>2. n # Nil => n.start = h[x].end
    BY <1>1 DEF Shape, Nexts
  <2>3. n # Nil => n.start # x.start
    BY <2>2, <1>1, <1>2, NameOrder DEF Shape, Ends
  <2> QED BY <2>1, <2>3, <1>21 DEF Row, Level
<1>31. DOMAIN g = D \cup K /\ Typed(g)
  BY <1>9, <1>27, <1>28, <1>29 DEF NextChanged, PrevChanged
<1>32. c \notin D /\ (\A y \in K : y \notin T /\ y \notin X /\ y \notin Row(T, n)) /\ X # {}
  BY <1>1, <1>18, <1>22, <1>30
<1>33. \A y \in X :
          /\ g[y].end = at /\ g[y].next = c /\ g[y].prev = h[y].prev
          /\ g[y].children = h[y].children /\ g[y].off = h[y].off
  <2> SUFFICES ASSUME NEW y \in X
               PROVE  /\ g[y].end = at /\ g[y].next = c /\ g[y].prev = h[y].prev
                      /\ g[y].children = h[y].children /\ g[y].off = h[y].off
    OBVIOUS
  <2>1. y \in D /\ y \notin K /\ y \notin Row(T, n) /\ y # c
    BY <1>1, <1>18, <1>30, <1>32
  <2>2. y \in DOMAIN cut /\ y \in DOMAIN g1 /\ y \in DOMAIN g2
    BY <2>1, <1>9, <1>27, <1>28 DEF NextChanged, PrevChanged
  <2> QED BY <2>1, <2>2, <1>14, <1>27, <1>28, <1>29 DEF NextChanged, PrevChanged
<1>34. \A y \in X : LET k == Moved(y, at)
                    IN /\ g[k].end = h[y].end /\ g[k].next = h[y].next /\ g[k].prev = x
                       /\ g[k].children = IF h[y].children = Nil THEN Nil
                                          ELSE Moved(h[y].children, at)
                       /\ g[k].off = Differ(x.start, at)
  <2> SUFFICES ASSUME NEW y \in X
               PROVE  LET k == Moved(y, at)
                      IN /\ g[k].end = h[y].end /\ g[k].next = h[y].next /\ g[k].prev = x
                         /\ g[k].children = IF h[y].children = Nil THEN Nil
                                            ELSE Moved(h[y].children, at)
                         /\ g[k].off = Differ(x.start, at)
    OBVIOUS
  <2> DEFINE k == Moved(y, at)
  <2>1. k \in K /\ k \notin X /\ k \notin Row(T, n) /\ k.start = at
    BY <1>7, <1>18, <1>32
  <2>2. k \in DOMAIN cut /\ k \in DOMAIN g1 /\ k \in DOMAIN g2
    BY <2>1, <1>9, <1>27, <1>28 DEF NextChanged, PrevChanged
  <2>3. /\ cut[k].end = h[y].end /\ cut[k].next = h[y].next
        /\ cut[k].children = IF h[y].children = Nil THEN Nil ELSE Moved(h[y].children, at)
    BY <1>15
  <2> HIDE DEF k
  <2>4. /\ g1[k].end = cut[k].end /\ g1[k].next = cut[k].next
        /\ g1[k].children = cut[k].children
    BY <2>1, <2>2, <1>27 DEF NextChanged
  <2>5. /\ g2[k].end = cut[k].end /\ g2[k].next = cut[k].next
        /\ g2[k].children = cut[k].children /\ g2[k].prev = x
        /\ g2[k].off = Differ(x.start, at)
    BY <2>1, <2>2, <2>4, <1>1, <1>28 DEF PrevChanged
  <2>6. /\ g[k].end = cut[k].end /\ g[k].next = cut[k].next
        /\ g[k].children = cut[k].children /\ g[k].prev = x
        /\ g[k].off = Differ(x.start, at)
    BY <2>1, <2>2, <2>5, <1>29 DEF PrevChanged
  <2> QED BY <2>3, <2>6 DEF k
<1>35. \A y \in Row(T, n) :
          /\ g[y].end = h[y].end /\ g[y].next = h[y].next /\ g[y].prev = c
          /\ g[y].children = h[y].children /\ g[y].off = Differ(at, y.start)
  <2> SUFFICES ASSUME NEW y \in Row(T, n)
               PROVE  /\ g[y].end = h[y].end /\ g[y].next = h[y].next /\ g[y].prev = c
                      /\ g[y].children = h[y].children /\ g[y].off = Differ(at, y.start)
    OBVIOUS
  <2>1. y \in D /\ y \notin K /\ y \notin X /\ y # c
    BY <1>1, <1>18, <1>30, <1>32
  <2>2. y \in DOMAIN cut /\ y \in DOMAIN g1 /\ y \in DOMAIN g2
    BY <2>1, <1>9, <1>27, <1>28 DEF NextChanged, PrevChanged
  <2>3. cut[y] = h[y]
    BY <2>1, <1>11
  <2>4. /\ g2[y].end = h[y].end /\ g2[y].next = h[y].next /\ g2[y].children = h[y].children
    BY <2>1, <2>2, <2>3, <1>27, <1>28 DEF NextChanged, PrevChanged
  <2>5. /\ g[y].end = g2[y].end /\ g[y].next = g2[y].next /\ g[y].children = g2[y].children
        /\ g[y].prev = c /\ g[y].off = Differ(c.start, y.start)
    BY <2>2, <1>25, <1>29 DEF PrevChanged
  <2> QED BY <2>4, <2>5, <1>22
<1>36. SameCells(g, h, (D \ X) \ Row(T, n))
  <2> SUFFICES ASSUME NEW y \in (D \ X) \ Row(T, n)
               PROVE  /\ g[y].end = h[y].end /\ g[y].next = h[y].next /\ g[y].prev = h[y].prev
                      /\ g[y].children = h[y].children /\ g[y].off = h[y].off
    BY DEF SameCells
  <2>1. y \in D /\ y \notin K /\ y \notin X /\ y # c /\ y \notin Row(T, n)
    BY <1>18, <1>32
  <2>2. y \in DOMAIN cut /\ y \in DOMAIN g1 /\ y \in DOMAIN g2
    BY <2>1, <1>9, <1>27, <1>28 DEF NextChanged, PrevChanged
  <2>3. cut[y] = h[y]
    BY <2>1, <1>11
  <2> QED BY <2>1, <2>2, <2>3, <1>27, <1>28, <1>29 DEF NextChanged, PrevChanged
<1>37. Split(h, x, at).node = c /\ Split(h, x, at).heap = g
  BY <1>5 DEF g, g2, g1
<1> QED BY <1>31, <1>33, <1>34, <1>35, <1>36, <1>37 DEF SplitCells

\* A split slice is two slices.
LEMMA SplitShape ==
    ASSUME NEW h, NEW T, NEW z, Shape(h, T, z), NEW x, IsTop(T, x), NEW at \in Name,
           Less(x.start, at), Less(at, h[x].end),
           \A y \in Level(T, x) : Moved(y, at) \notin DOMAIN h,
           \A y \in DOMAIN h \ T : h[y].next = Nil,
           NEW g, SplitCells(g, h, T, x, at)
    PROVE  LET U == T \cup Copies(T, x, at)
           IN /\ Shape(g, U, z) /\ DOMAIN g = DOMAIN h \cup Copies(T, x, at)
              /\ \A y : IsTop(T, y) => IsTop(U, y)
              /\ IsTop(U, Moved(x, at)) /\ Moved(x, at).start = at
              /\ g[Moved(x, at)].end = h[x].end /\ g[x].end = at
              /\ SameCells(g, h, DOMAIN h \ T)
<1> DEFINE D == DOMAIN h
           X == Level(T, x)
           K == Copies(T, x, at)
           c == Moved(x, at)
           n == h[x].next
           N == Row(T, n)
           U == T \cup K
<1>1. /\ T \subseteq NodeName /\ T \subseteq D /\ D \subseteq NodeName /\ Nil \notin D
      /\ x \in T /\ x # Nil /\ x \in X /\ X \subseteq T
  BY NilOut DEF Shape, IsTop, Level
<1>2. \A y \in D : y.start \in Name /\ h[y].end \in Name
  BY <1>1, NodeFacts, CellFacts DEF Shape
<1>3. \A k \in K : \E y \in X : k = Moved(y, at)
  BY DEF Copies
<1>4. \A y \in X : Moved(y, at) \in K
  BY DEF Copies
<1>5. \A y \in K : y.start = at /\ y \in NodeName /\ y \notin D
  BY <1>1, <1>3, NodeFacts
<1>6. \A y \in T : y.start # at
  <2>1. ASSUME NEW y \in T, y.start = at PROVE FALSE
    <3>1. ~Less(at, h[x].end)
      BY <1>1, <2>1 DEF Shape, Ends
    <3> QED BY <3>1
  <2> QED BY <2>1
<1>7. \A y : IsTop(T, y) => IsTop(U, y)
  BY <1>5, <1>6 DEF IsTop
<1>8. \A y \in X : y.start = x.start /\ h[y].end = h[x].end
  <2> SUFFICES ASSUME NEW y \in X PROVE y.start = x.start /\ h[y].end = h[x].end
    OBVIOUS
  <2>1. y.start = x.start /\ y \in T
    BY DEF Level
  <2> QED BY <2>1, <1>1, SameEnd
<1>9. /\ \A y \in X : \A w \in X : Ahead(Moved(y, at), Moved(w, at)) <=> Ahead(y, w)
      /\ \A y \in X : y \in NodeName
  BY <1>1, NodeFacts, ZenonT(20) DEF Ahead
<1>10. IsTop(U, c) /\ c \in K /\ c.start = at
  <2>1. c \in K /\ c.start = at
    BY <1>1, <1>4, <1>5
  <2>2. ASSUME NEW y \in U, y.start = c.start PROVE y = c \/ Ahead(c, y)
    <3>1. y \in K
      BY <2>1, <2>2, <1>6
    <3>2. PICK w \in X : y = Moved(w, at)
      BY <3>1, <1>3
    <3>3. w = x \/ Ahead(x, w)
      BY <1>1, <1>8 DEF IsTop
    <3> QED BY <3>2, <3>3, <1>1, <1>9
  <2> QED BY <2>1, <2>2 DEF IsTop
<1>11. Typed(g) /\ DOMAIN g = D \cup K
  BY DEF SplitCells
<1>12. \A y \in X : /\ g[y].end = at /\ g[y].next = c /\ g[y].prev = h[y].prev
                    /\ g[y].children = h[y].children /\ g[y].off = h[y].off
  BY DEF SplitCells
<1>13. \A y \in X : /\ g[Moved(y, at)].end = h[y].end /\ g[Moved(y, at)].next = h[y].next
                    /\ g[Moved(y, at)].prev = x
                    /\ g[Moved(y, at)].children = IF h[y].children = Nil THEN Nil
                                                  ELSE Moved(h[y].children, at)
                    /\ g[Moved(y, at)].off = Differ(x.start, at)
  BY DEF SplitCells
<1>14. \A y \in N : /\ g[y].end = h[y].end /\ g[y].next = h[y].next /\ g[y].prev = c
                    /\ g[y].children = h[y].children /\ g[y].off = Differ(at, y.start)
  BY DEF SplitCells
<1>15. \A y \in (D \ X) \ N :
          /\ g[y].end = h[y].end /\ g[y].next = h[y].next /\ g[y].prev = h[y].prev
          /\ g[y].children = h[y].children /\ g[y].off = h[y].off
  BY DEF SplitCells, SameCells
<1>16. /\ h[x].end # z => IsTop(T, n) /\ n.start = h[x].end /\ n # Nil
       /\ h[x].end = z => n = Nil
  BY <1>1 DEF Shape, Nexts, IsTop
<1>17. \A y \in T : y \in N <=> y.start = h[x].end
  <2> SUFFICES ASSUME NEW y \in T PROVE y \in N <=> y.start = h[x].end
    OBVIOUS
  <2>1. CASE h[x].end = z
    <3>1. Less(y.start, z)
      BY DEF Shape, Ends
    <3> QED BY <2>1, <3>1, <1>1, <1>2, <1>16, NameOrder DEF Row
  <2>2. CASE h[x].end # z
    BY <2>2, <1>16 DEF Row, Level
  <2> QED BY <2>1, <2>2
<1>18. N \subseteq T /\ \A y \in N : y \notin X
  <2>1. N \subseteq T
    BY DEF Row, Level
  <2>2. h[x].end # x.start
    BY <1>1, <1>2, NameOrder DEF Shape, Ends
  <2> QED BY <2>1, <2>2, <1>8, <1>17
<1> DEFINE e == h[x].end
<1>19. /\ e \in Name /\ Less(x.start, at) /\ Less(at, e) /\ Less(x.start, e)
       /\ z \in Name /\ (e = z \/ Less(e, z)) /\ Less(at, z) /\ x.start \in Name
  <2>1. e \in Name /\ x.start \in Name /\ (e = z \/ Less(e, z)) /\ z \in Name
    BY <1>1, <1>2, EndLeZ DEF Shape
  <2> QED BY <2>1, <1>1, NameOrder
<1>20. Ends(g, U, z)
  <2> SUFFICES ASSUME NEW a \in U
               PROVE  /\ Less(a.start, g[a].end) /\ Less(a.start, z)
                      /\ \A y \in U : Less(a.start, y.start) => ~Less(y.start, g[a].end)
                      /\ g[a].end = z \/ \E y \in U : y.start = g[a].end
    BY DEF Ends
  <2>1. CASE a \in X
    <3>1. g[a].end = at /\ a.start = x.start
      BY <2>1, <1>8, <1>12
    <3>2. \A y \in T : Less(x.start, y.start) => ~Less(y.start, e)
      BY <1>1 DEF Shape, Ends
    <3>3. \A y \in U : Less(x.start, y.start) => ~Less(y.start, at)
      BY <3>2, <1>1, <1>2, <1>5, <1>19, NameOrder
    <3>4. \E y \in U : y.start = at
      BY <1>10
    <3>5. Less(x.start, z)
      BY <1>1 DEF Shape, Ends
    <3> QED BY <3>1, <3>3, <3>4, <3>5, <1>19
  <2>2. CASE a \in K
    <3>1. g[a].end = e /\ a.start = at
      BY <2>2, <1>3, <1>5, <1>8, <1>13
    <3>2. \A y \in T : Less(x.start, y.start) => ~Less(y.start, e)
      BY <1>1 DEF Shape, Ends
    <3>3. \A y \in U : Less(at, y.start) => ~Less(y.start, e)
      BY <3>2, <1>1, <1>2, <1>5, <1>19, NameOrder
    <3>4. e = z \/ \E y \in U : y.start = e
      BY <1>1 DEF Shape, Ends
    <3> QED BY <3>1, <3>3, <3>4, <1>19
  <2>3. CASE a \in T \ X
    <3>1. g[a].end = h[a].end /\ a \in D
      BY <2>3, <1>1, <1>14, <1>15
    <3>2. /\ Less(a.start, h[a].end) /\ Less(a.start, z)
          /\ \A y \in T : Less(a.start, y.start) => ~Less(y.start, h[a].end)
          /\ h[a].end = z \/ \E y \in T : y.start = h[a].end
      BY <2>3 DEF Shape, Ends
    <3>3. Less(a.start, at) => ~Less(at, h[a].end)
      <4>1. a.start # x.start
        BY <2>3 DEF Level
      <4>2. Less(x.start, a.start) => ~Less(a.start, e)
        BY <1>1, <2>3 DEF Shape, Ends
      <4>3. Less(a.start, x.start) => ~Less(x.start, h[a].end)
        BY <1>1, <3>2
      <4>4. a.start \in Name /\ h[a].end \in Name
        BY <3>1, <1>2
      <4>5. Less(x.start, a.start) => ~Less(a.start, at)
        BY <4>2, <4>4, <1>19, NameOrder
      <4>6. Less(a.start, x.start) => ~Less(at, h[a].end)
        BY <4>3, <4>4, <1>19, NameOrder
      <4> QED BY <4>1, <4>4, <4>5, <4>6, <1>19, NameOrder
    <3> QED BY <3>1, <3>2, <3>3, <1>5
  <2> QED BY <2>1, <2>2, <2>3
<1>21. Nexts(g, U, z)
  <2> SUFFICES ASSUME NEW a \in U
               PROVE  IF g[a].end = z THEN g[a].next = Nil
                      ELSE IsTop(U, g[a].next) /\ g[a].next.start = g[a].end
    BY DEF Nexts
  <2>1. CASE a \in X
    BY <2>1, <1>10, <1>12, <1>19, NameOrder
  <2>2. CASE a \in K
    <3>1. PICK y \in X : a = Moved(y, at)
      BY <2>2, <1>3
    <3>2. g[a].end = e /\ g[a].next = h[y].next /\ h[y].end = e /\ y \in T
      BY <3>1, <1>1, <1>8, <1>13
    <3> QED BY <3>2, <1>7 DEF Shape, Nexts
  <2>3. CASE a \in T \ X
    <3>1. g[a].end = h[a].end /\ g[a].next = h[a].next
      BY <2>3, <1>1, <1>14, <1>15
    <3> QED BY <2>3, <3>1, <1>7 DEF Shape, Nexts
  <2> QED BY <2>1, <2>2, <2>3
<1>22. Prevs(g, U)
  <2> SUFFICES ASSUME NEW a \in U
               PROVE  IF a.start = <<0>> THEN g[a].prev = Nil
                      ELSE /\ IsTop(U, g[a].prev) /\ g[g[a].prev].end = a.start
                           /\ g[a].off = Differ(g[a].prev.start, a.start)
    BY DEF Prevs
  <2>1. \A p \in T : h[p].end = x.start => p \notin X
    <3> SUFFICES ASSUME NEW p \in X, h[p].end = x.start PROVE FALSE
      OBVIOUS
    <3>1. h[p].end = e
      BY <1>8
    <3> QED BY <3>1, <1>19, NameOrder
  <2>2. CASE a \in X
    <3>1. g[a].prev = h[a].prev /\ g[a].off = h[a].off /\ a \in T /\ a.start = x.start
      BY <2>2, <1>1, <1>8, <1>12
    <3>2. CASE a.start = <<0>>
      BY <3>1, <3>2 DEF Shape, Prevs
    <3>3. CASE a.start # <<0>>
      <4> DEFINE p == h[a].prev
      <4>1. IsTop(T, p) /\ h[p].end = a.start /\ h[a].off = Differ(p.start, a.start)
        BY <3>1, <3>3 DEF Shape, Prevs
      <4> HIDE DEF p
      <4>2. p \in T /\ p \notin X
        BY <4>1, <3>1, <2>1 DEF IsTop
      <4>3. g[p].end = h[p].end
        BY <4>2, <1>1, <1>14, <1>15
      <4> QED BY <4>1, <4>3, <3>1, <3>3, <1>7 DEF p
    <3> QED BY <3>2, <3>3
  <2>3. CASE a \in K
    <3>1. a.start = at /\ g[a].prev = x /\ g[a].off = Differ(x.start, at)
      BY <2>3, <1>3, <1>5, <1>13
    <3>2. at # <<0>>
      BY <1>19, RootNames
    <3>3. g[x].end = at
      BY <1>1, <1>12
    <3> QED BY <3>1, <3>2, <3>3, <1>7
  <2>4. CASE a \in N
    <3>1. a.start = e /\ a.start # <<0>>
      BY <2>4, <1>17, <1>18, <1>19, RootNames
    <3>2. g[a].prev = c /\ g[a].off = Differ(at, a.start)
      BY <2>4, <1>14
    <3>3. g[c].end = e
      BY <1>1, <1>13
    <3> QED BY <3>1, <3>2, <3>3, <1>10
  <2>5. CASE a \in (T \ X) \ N
    <3>1. g[a].prev = h[a].prev /\ g[a].off = h[a].off /\ a \in T
      BY <2>5, <1>1, <1>15
    <3>2. CASE a.start = <<0>>
      BY <3>1, <3>2 DEF Shape, Prevs
    <3>3. CASE a.start # <<0>>
      <4> DEFINE p == h[a].prev
      <4>1. IsTop(T, p) /\ h[p].end = a.start /\ h[a].off = Differ(p.start, a.start)
        BY <3>1, <3>3 DEF Shape, Prevs
      <4> HIDE DEF p
      <4>2. p \in T /\ p \notin X
        BY <4>1, <2>5, <1>8, <1>17 DEF IsTop
      <4>3. g[p].end = h[p].end
        BY <4>2, <1>1, <1>14, <1>15
      <4> QED BY <4>1, <4>3, <3>1, <3>3, <1>7 DEF p
    <3> QED BY <3>2, <3>3
  <2> QED BY <2>2, <2>3, <2>4, <2>5
<1>23. Belows(g, U)
  <2> SUFFICES ASSUME NEW y \in U
               PROVE  IF g[y].children = Nil THEN \A w \in U : ~Over(y, w)
                      ELSE IsBelow(U, y, g[y].children)
    BY DEF Belows
  <2>1. CASE y \in T
    <3>1. g[y].children = h[y].children
      BY <2>1, <1>1, <1>12, <1>14, <1>15
    <3>2. \A w \in U : Over(y, w) => w \in T
      BY <2>1, <1>5, <1>6 DEF Over
    <3> QED BY <2>1, <3>1, <3>2 DEF Shape, Belows, IsBelow
  <2>2. CASE y \in K
    <3>1. PICK a \in X : y = Moved(a, at)
      BY <2>2, <1>3
    <3>2. \A w \in U : Over(y, w) => \E b \in X : w = Moved(b, at) /\ Over(a, b)
      <4> SUFFICES ASSUME NEW w \in U, Over(y, w)
                   PROVE  \E b \in X : w = Moved(b, at) /\ Over(a, b)
        OBVIOUS
      <4>1. w \in K
        BY <2>2, <1>5, <1>6 DEF Over
      <4>2. PICK b \in X : w = Moved(b, at)
        BY <4>1, <1>3
      <4> QED BY <4>2, <3>1, <1>8, <1>9 DEF Over
    <3>3. CASE h[a].children = Nil
      <4>1. \A b \in X : ~Over(a, b)
        BY <3>3, <1>1 DEF Shape, Belows
      <4>2. g[y].children = Nil
        BY <3>1, <3>3, <1>13
      <4> QED BY <3>2, <4>1, <4>2
    <3>4. CASE h[a].children # Nil
      <4> DEFINE b == h[a].children
      <4>1. IsBelow(T, a, b) /\ b \in X
        BY <3>4, <1>1, <1>8 DEF Shape, Belows, IsBelow, Over, Level
      <4>2. g[y].children = Moved(b, at) /\ Moved(b, at) \in K /\ Moved(b, at) # Nil
        BY <3>1, <3>4, <4>1, <1>4, <1>5, <1>13, NodeFacts
      <4> HIDE DEF b
      <4>3. Over(y, Moved(b, at))
        BY <3>1, <4>1, <4>2, <1>5, <1>9, <2>2 DEF IsBelow, Over
      <4>4. \A w \in U : Over(y, w) => w = Moved(b, at) \/ Ahead(Moved(b, at), w)
        <5> SUFFICES ASSUME NEW w \in U, Over(y, w)
                     PROVE  w = Moved(b, at) \/ Ahead(Moved(b, at), w)
          OBVIOUS
        <5>1. PICK d \in X : w = Moved(d, at) /\ Over(a, d)
          BY <3>2
        <5>2. d = b \/ Ahead(b, d)
          BY <5>1, <4>1, <1>1 DEF IsBelow
        <5> QED BY <5>1, <5>2, <4>1, <1>9
      <4> QED BY <4>2, <4>3, <4>4 DEF IsBelow
    <3> QED BY <3>3, <3>4
  <2> QED BY <2>1, <2>2
<1>24. Ranked(U)
  <2> SUFFICES ASSUME NEW y \in U, NEW w \in U, y.start = w.start
               PROVE  y = w \/ Ahead(y, w) \/ Ahead(w, y)
    BY DEF Ranked
  <2>1. CASE y \in T
    BY <2>1, <1>5, <1>6 DEF Shape, Ranked
  <2>2. CASE y \in K
    <3>1. w \in K
      BY <2>2, <1>5, <1>6
    <3>2. PICK a \in X, b \in X : y = Moved(a, at) /\ w = Moved(b, at)
      BY <2>2, <3>1, <1>3
    <3>3. a = b \/ Ahead(a, b) \/ Ahead(b, a)
      BY <1>1, <1>8 DEF Shape, Ranked
    <3> QED BY <3>2, <3>3, <1>9
  <2> QED BY <2>1, <2>2
<1>25. SameCells(g, h, D \ T)
  BY <1>1, <1>15, <1>18 DEF SameCells
<1>26. Loose(g, U)
  <2> SUFFICES ASSUME NEW y \in D \ T
               PROVE  g[y].children = Nil /\ g[y].next = Nil
    BY <1>1, <1>5, <1>11, NodeFacts DEF Loose
  <2> QED BY <1>25 DEF SameCells, Shape, Loose
<1>27. U \subseteq DOMAIN g
  BY <1>1, <1>11
<1>28. Shape(g, U, z)
  BY <1>11, <1>19, <1>20, <1>21, <1>22, <1>23, <1>24, <1>26, <1>27 DEF Shape
<1> QED BY <1>1, <1>7, <1>10, <1>11, <1>12, <1>13, <1>25, <1>28

-----------------------------------------------------------------------------
(* Loading a node into a slice that it matches.                            *)

\* The nodes of a slice have the same neighbours.
LEMMA SameNeighbours ==
    ASSUME NEW h, NEW T, NEW z, Shape(h, T, z), NEW x \in T, NEW y \in T, x.start = y.start
    PROVE  h[x].next = h[y].next /\ h[x].prev = h[y].prev
<1>1. h[x].end = h[y].end
  BY SameEnd
<1>2. T \subseteq NodeName
  BY NilOut DEF Shape
<1>3. h[x].next = h[y].next
  BY <1>1, <1>2, TopUnique DEF Shape, Nexts
<1>4. CASE x.start = <<0>>
  BY <1>3, <1>4 DEF Shape, Prevs
<1>5. CASE x.start # <<0>>
  <2> DEFINE p == h[x].prev
             q == h[y].prev
  <2>1. /\ IsTop(T, p) /\ h[p].end = x.start /\ p \in T
        /\ IsTop(T, q) /\ h[q].end = x.start /\ q \in T
    BY <1>5 DEF Shape, Prevs, IsTop
  <2> HIDE DEF p, q
  <2>2. Less(p.start, x.start) /\ Less(q.start, x.start)
    BY <2>1 DEF Shape, Ends
  <2>3. ~Less(p.start, q.start) /\ ~Less(q.start, p.start)
    BY <2>1, <2>2 DEF Shape, Ends
  <2>4. p.start = q.start
    BY <1>2, <2>1, <2>3, NodeFacts, NameOrder
  <2> QED BY <1>2, <1>3, <2>1, <2>4, TopUnique DEF p, q
<1> QED BY <1>4, <1>5

\* The place of a new node in a slice: below above, over next.
Placed(h, T, x, new, above, next) ==
    LET X == Level(T, x)
    IN /\ \A y \in X : Ahead(y, new) \/ Ahead(new, y)
       /\ IF above = Nil THEN next = x /\ \A y \in X : ~Ahead(y, new)
          ELSE /\ above \in X /\ Ahead(above, new) /\ next = h[above].children
               /\ \A y \in X : Ahead(y, new) => y = above \/ Ahead(y, above)
       /\ IF next = Nil THEN \A y \in X : ~Ahead(new, y)
          ELSE /\ next \in X /\ Ahead(new, next)
               /\ \A y \in X : Ahead(new, y) => y = next \/ Ahead(next, y)

SameRank(x, y) == Len(x.name) = Len(y.name) /\ x.prio = y.prio

LEMMA RankOrder ==
    \A x, y, w \in NodeName :
        /\ SameRank(x, y) \/ Ahead(x, y) \/ Ahead(y, x)
        /\ SameRank(x, y) => ~Ahead(x, y) /\ ~Ahead(y, x)
        /\ SameRank(x, y) => (Ahead(w, x) <=> Ahead(w, y)) /\ (Ahead(x, w) <=> Ahead(y, w))
<1> SUFFICES ASSUME NEW x \in NodeName, NEW y \in NodeName, NEW w \in NodeName
             PROVE  /\ SameRank(x, y) \/ Ahead(x, y) \/ Ahead(y, x)
                    /\ SameRank(x, y) => ~Ahead(x, y) /\ ~Ahead(y, x)
                    /\ SameRank(x, y) => /\ Ahead(w, x) <=> Ahead(w, y)
                                         /\ Ahead(x, w) <=> Ahead(y, w)
  OBVIOUS
<1>1. /\ Len(x.name) \in Nat /\ Len(y.name) \in Nat /\ Len(w.name) \in Nat
      /\ x.prio \in Int /\ y.prio \in Int /\ w.prio \in Int
  BY NodeFacts
<1> QED BY <1>1 DEF Ahead, SameRank

\* How many nodes of the slice of x stay before the new one.
Lead(h, x, new) ==
    LET chain == Chain(h, x)
        Before(i) == Ahead(chain[i], new)
    IN Leading(Len(chain), Before)

LEMMA PlaceIs ==
    ASSUME NEW h, NEW T, NEW z, Shape(h, T, z), NEW x, IsTop(T, x), NEW new \in NodeName
    PROVE  LET chain == Chain(h, x)
               k     == Lead(h, x, new)
               next  == IF k < Len(chain) THEN chain[k + 1] ELSE Nil
               above == IF k > 0 THEN chain[k] ELSE Nil
           IN /\ (k > 0 <=> above # Nil)
              /\ IF \E y \in Level(T, x) : SameRank(y, new)
                 THEN next # Nil /\ SameRank(next, new)
                 ELSE /\ next # Nil => ~SameRank(next, new)
                      /\ Placed(h, T, x, new, above, next)
<1> DEFINE c == Chain(h, x)
           X == Level(T, x)
           n == Len(c)
           K == {i \in 0 .. n : /\ i < n => ~Ahead(c[i + 1], new)
                                /\ \A j \in 1 .. i : Ahead(c[j], new)}
           k == Lead(h, x, new)
           next  == IF k < n THEN c[k + 1] ELSE Nil
           above == IF k > 0 THEN c[k] ELSE Nil
<1>1. IsChain(h, X, c) /\ c[1] = x
  BY ChainIs, ShapeChained
<1>2. X \subseteq NodeName /\ x \in X /\ Nil \notin X
  BY NilOut DEF Shape, IsTop, Level
<1> HIDE DEF c
<1>3. n \in Nat /\ n > 0 /\ \A i \in 1 .. n : c[i] \in X
  BY <1>1 DEF IsChain
<1>4. \A y \in X : \E i \in 1 .. n : y = c[i]
  BY <1>1 DEF IsChain, ToSet
<1> HIDE DEF X
<1>5. K # {}
  <2> DEFINE B == {i \in 1 .. n : ~Ahead(c[i], new)}
  <2>1. CASE B = {}
    <3>1. n \in K
      BY <2>1, <1>3
    <3> QED BY <3>1
  <2>2. CASE B # {}
    <3>1. B \in SUBSET Nat
      BY <1>3
    <3>2. PICK m \in B : \A l \in B : m \leq l
      BY <2>2, <3>1, LeastNumber
    <3>3. m \in 1 .. n /\ ~Ahead(c[m], new)
      OBVIOUS
    <3>4. \A j \in 1 .. m - 1 : j \in 1 .. n /\ j \notin B
      BY <3>2, <3>3, <1>3
    <3>5. m - 1 \in 0 .. n /\ (m - 1) + 1 = m
      BY <3>3, <1>3
    <3>6. m - 1 \in K
      BY <3>3, <3>4, <3>5
    <3> QED BY <3>6
  <2> QED BY <2>1, <2>2
<1>6. k \in K
  <2>1. k = CHOOSE i \in 0 .. n : /\ i < n => ~Ahead(c[i + 1], new)
                                  /\ \A j \in 1 .. i : Ahead(c[j], new)
    BY DEF Lead, Leading, c
  <2> QED BY <2>1, <1>5
<1> HIDE DEF k
<1>7. /\ k \in 0 .. n /\ (k < n => ~Ahead(c[k + 1], new))
      /\ \A j \in 1 .. k : Ahead(c[j], new)
  BY <1>6
<1>8. \A j \in 1 .. n : \A i \in 1 .. j - 1 : Ahead(c[i], c[j])
  BY <1>1 DEF IsChain, Over
<1>9. \A i \in 1 .. n : i > k => ~Ahead(c[i], new)
  <2> SUFFICES ASSUME NEW i \in 1 .. n, i > k PROVE ~Ahead(c[i], new)
    OBVIOUS
  <2>1. k + 1 \in 1 .. n /\ k < n
    BY <1>3, <1>7
  <2>2. CASE i = k + 1
    BY <2>1, <2>2, <1>7
  <2>3. CASE i # k + 1
    <3>1. k + 1 \in 1 .. i - 1
      BY <2>1, <2>3, <1>3, <1>7
    <3>2. Ahead(c[k + 1], c[i])
      BY <3>1, <1>8
    <3> QED BY <2>1, <3>2, <1>2, <1>3, <1>7, AheadOrder
  <2> QED BY <2>2, <2>3
<1>10. \A i \in 1 .. n : i \leq k => i \in 1 .. k
  BY <1>3, <1>7
<1>11. /\ k > 0 => above = c[k] /\ k \in 1 .. n /\ above \in X /\ Ahead(above, new)
       /\ ~(k > 0) => above = Nil /\ k = 0
       /\ k < n => next = c[k + 1] /\ k + 1 \in 1 .. n /\ next \in X /\ ~Ahead(next, new)
       /\ ~(k < n) => next = Nil /\ k = n
  <2>1. k > 0 => k \in 1 .. n /\ k \in 1 .. k
    BY <1>3, <1>7
  <2>2. k < n => k + 1 \in 1 .. n
    BY <1>3, <1>7
  <2> QED BY <2>1, <2>2, <1>3, <1>7
<1>12. k > 0 <=> above # Nil
  BY <1>2, <1>11
<1>13. k < n <=> next # Nil
  BY <1>2, <1>11
<1>14. \A i \in 1 .. n : i > k => i = k + 1 \/ Ahead(next, c[i])
  <2> SUFFICES ASSUME NEW i \in 1 .. n, i > k, i # k + 1 PROVE Ahead(next, c[i])
    OBVIOUS
  <2>1. k + 1 \in 1 .. i - 1 /\ k < n
    BY <1>3, <1>7
  <2> QED BY <2>1, <1>8, <1>11
<1>15. ASSUME NEW y \in X, SameRank(y, new) PROVE next # Nil /\ SameRank(next, new)
  <2>1. PICK i \in 1 .. n : y = c[i]
    BY <1>4
  <2>2. ~(i \leq k)
    BY <2>1, <1>2, <1>7, <1>10, <1>15, RankOrder
  <2>3. i > k /\ k < n
    BY <2>2, <1>3, <1>7
  <2>4. ~Ahead(next, y)
    BY <2>3, <1>2, <1>11, <1>15, RankOrder
  <2> QED BY <2>1, <2>3, <2>4, <1>11, <1>13, <1>14, <1>15
<1>16. ASSUME ~\E y \in X : SameRank(y, new)
       PROVE  (next # Nil => ~SameRank(next, new)) /\ Placed(h, T, x, new, above, next)
  <2>1. \A y \in X : Ahead(y, new) \/ Ahead(new, y)
    BY <1>2, <1>16, RankOrder
  <2>2. IF above = Nil THEN next = x /\ \A y \in X : ~Ahead(y, new)
        ELSE /\ above \in X /\ Ahead(above, new) /\ next = h[above].children
             /\ \A y \in X : Ahead(y, new) => y = above \/ Ahead(y, above)
    <3>1. CASE ~(k > 0)
      <4>1. next = x
        BY <3>1, <1>1, <1>3, <1>11
      <4>2. \A y \in X : ~Ahead(y, new)
        BY <3>1, <1>3, <1>4, <1>9, <1>11
      <4> QED BY <3>1, <4>1, <4>2, <1>11
    <3>2. CASE k > 0
      <4>1. next = h[above].children
        <5>1. CASE k < n
          <6>1. k \in 1 .. n - 1
            BY <3>2, <5>1, <1>3, <1>7
          <6> QED BY <6>1, <3>2, <5>1, <1>1, <1>11 DEF IsChain
        <5>2. CASE ~(k < n)
          BY <3>2, <5>2, <1>1, <1>11 DEF IsChain
        <5> QED BY <5>1, <5>2, SMTT(20)
      <4>2. ASSUME NEW y \in X, Ahead(y, new) PROVE y = above \/ Ahead(y, above)
        <5>1. PICK i \in 1 .. n : y = c[i]
          BY <1>4
        <5>2. i \leq k
          BY <5>1, <4>2, <1>3, <1>7, <1>9
        <5>3. i = k \/ i \in 1 .. k - 1
          BY <5>2, <1>3, <1>7
        <5> QED BY <5>1, <5>3, <3>2, <1>8, <1>11
      <4> QED BY <3>2, <4>1, <4>2, <1>11, <1>12
    <3> QED BY <3>1, <3>2
  <2>3. IF next = Nil THEN \A y \in X : ~Ahead(new, y)
        ELSE /\ next \in X /\ Ahead(new, next)
             /\ \A y \in X : Ahead(new, y) => y = next \/ Ahead(next, y)
    <3>1. \A y \in X : Ahead(new, y) => \E i \in 1 .. n : y = c[i] /\ i > k
      <4> SUFFICES ASSUME NEW y \in X, Ahead(new, y)
                   PROVE  \E i \in 1 .. n : y = c[i] /\ i > k
        OBVIOUS
      <4>1. PICK i \in 1 .. n : y = c[i]
        BY <1>4
      <4>2. ~(i \leq k)
        BY <4>1, <1>2, <1>7, <1>10, AheadOrder
      <4> QED BY <4>1, <4>2, <1>3, <1>7
    <3>2. CASE ~(k < n)
      BY <3>1, <3>2, <1>3, <1>7, <1>11
    <3>3. CASE k < n
      BY <3>1, <3>3, <2>1, <1>11, <1>13, <1>14
    <3> QED BY <3>2, <3>3
  <2>4. next # Nil => ~SameRank(next, new)
    BY <1>11, <1>13, <1>16
  <2> HIDE DEF next, above
  <2> QED BY <2>1, <2>2, <2>3, <2>4 DEF Placed, X
<1>17. IF \E y \in X : SameRank(y, new)
       THEN next # Nil /\ SameRank(next, new)
       ELSE (next # Nil => ~SameRank(next, new)) /\ Placed(h, T, x, new, above, next)
  <2> HIDE DEF next, above
  <2> QED BY <1>15, <1>16
<1> QED BY <1>12, <1>17 DEF c, X, k

\* A new node and the slice of x, which it matches.
Matches(h, T, z, x, new) ==
    /\ IsTop(T, x) /\ new \in DOMAIN h \ T
    /\ new.start = x.start /\ new.start # <<0>> /\ h[new].end = h[x].end

\* What taking its place leaves in the fields of the nodes.
MatchCells(g, h, T, x, new, above, next) ==
    LET N == Row(T, h[x].next)
        P == Row(T, h[x].prev)
    IN /\ Typed(g) /\ DOMAIN g = DOMAIN h
       /\ \A y \in DOMAIN h :
             /\ g[y].end = h[y].end
             /\ g[y].children = IF y = new THEN next
                                ELSE IF y = above THEN new ELSE h[y].children
             /\ g[y].next = IF y = new THEN h[x].next
                            ELSE IF y \in P /\ above = Nil THEN new ELSE h[y].next
             /\ g[y].prev = IF y = new THEN h[x].prev
                            ELSE IF y \in N /\ above = Nil THEN new ELSE h[y].prev
             /\ g[y].off = IF y = new THEN Differ(h[x].prev.start, new.start)
                           ELSE IF y \in N THEN Differ(new.start, y.start) ELSE h[y].off

\* Before the neighbours are told.
LinkedCells(g, h, x, new, next) ==
    /\ Typed(g) /\ DOMAIN g = DOMAIN h
    /\ \A y \in DOMAIN h :
          /\ g[y].end = h[y].end
          /\ g[y].children = IF y = new THEN next ELSE h[y].children
          /\ g[y].next = IF y = new THEN h[x].next ELSE h[y].next
          /\ g[y].prev = IF y = new THEN h[x].prev ELSE h[y].prev
          /\ g[y].off = IF y = new THEN Differ(h[x].prev.start, new.start)
                        ELSE IF y = h[x].next THEN Differ(new.start, y.start) ELSE h[y].off

LEMMA LinkedIs ==
    ASSUME NEW h, NEW T, NEW z, Shape(h, T, z), NEW x, NEW new, Matches(h, T, z, x, new),
           NEW next \in Ref
    PROVE  LET g == ChangeNext(ChangePrev([h EXCEPT ![new].children = next],
                                          {new}, h[x].prev), {new}, h[x].next)
           IN LinkedCells(g, h, x, new, next)
<1> DEFINE D == DOMAIN h
           n == h[x].next
           p == h[x].prev
           g1 == [h EXCEPT ![new].children = next]
           g2 == ChangePrev(g1, {new}, p)
           g == ChangeNext(g2, {new}, n)
<1>1. /\ new \in D /\ x \in D /\ x \in T /\ T \subseteq D /\ D \subseteq NodeName
      /\ h \in [D -> Cell] /\ Typed(h)
  BY NilOut DEF Matches, Shape, IsTop, Typed
<1>2. n \in Ref /\ p \in Ref /\ new.start \in Name
  BY <1>1, CellFacts, NodeFacts
<1>3. n # new
  <2>1. n = Nil \/ n \in T
    BY <1>1 DEF Shape, Nexts, IsTop
  <2> QED BY <2>1, NilOut DEF Shape, Matches
<1>4. p # Nil
  BY NilOut DEF Matches, Shape, Prevs, IsTop
<1>5. /\ Typed(g1) /\ DOMAIN g1 = D
      /\ \A y \in D : /\ g1[y].end = h[y].end /\ g1[y].next = h[y].next
                      /\ g1[y].prev = h[y].prev /\ g1[y].off = h[y].off
                      /\ g1[y].children = IF y = new THEN next ELSE h[y].children
  <2>1. DOMAIN g1 = D
    BY <1>1
  <2>2. \A y \in D : g1[y] = IF y = new THEN [h[y] EXCEPT !.children = next] ELSE h[y]
    BY <1>1
  <2>3. \A y \in D : h[y] \in Cell
    BY <1>1
  <2>6. g1 = [y \in D |-> g1[y]]
    BY <1>1
  <2> HIDE DEF g1
  <2>4. ASSUME NEW y \in D
        PROVE  /\ g1[y] \in Cell
               /\ g1[y].end = h[y].end /\ g1[y].next = h[y].next
               /\ g1[y].prev = h[y].prev /\ g1[y].off = h[y].off
               /\ g1[y].children = IF y = new THEN next ELSE h[y].children
    <3>1. CASE y = new
      <4>1. g1[y] = [h[y] EXCEPT !.children = next]
        BY <3>1, <2>2
      <4> QED BY <3>1, <4>1, <2>3 DEF Cell
    <3>2. CASE y # new
      <4>1. g1[y] = h[y]
        BY <3>2, <2>2
      <4> QED BY <3>2, <4>1, <2>3
    <3> QED BY <3>1, <3>2
  <2>5. g1 \in [D -> Cell]
    BY <2>4, <2>6
  <2> QED BY <1>1, <2>1, <2>4, <2>5 DEF Typed
<1> HIDE DEF g1
<1>6. PrevChanged(g2, g1, {new}, p)
  BY <1>2, <1>5, ChangePrevIs
<1> HIDE DEF g2
<1>7. NextChanged(g, g2, {new}, n, new.start)
  BY <1>2, <1>6, ChangeNextIs DEF PrevChanged
<1> HIDE DEF g
<1>8. Typed(g) /\ DOMAIN g = D /\ DOMAIN g2 = D
  BY <1>5, <1>6, <1>7 DEF PrevChanged, NextChanged
<1>9. ASSUME NEW y \in D
      PROVE  /\ g[y].end = h[y].end
             /\ g[y].children = IF y = new THEN next ELSE h[y].children
             /\ g[y].next = IF y = new THEN n ELSE h[y].next
             /\ g[y].prev = IF y = new THEN p ELSE h[y].prev
             /\ g[y].off = IF y = new THEN Differ(p.start, new.start)
                           ELSE IF y = n THEN Differ(new.start, y.start) ELSE h[y].off
  <2>1. /\ g2[y].end = g1[y].end /\ g2[y].children = g1[y].children
        /\ g2[y].next = g1[y].next
        /\ g2[y].prev = IF y = new THEN p ELSE g1[y].prev
        /\ g2[y].off = IF y = new THEN Differ(p.start, y.start) ELSE g1[y].off
    BY <1>4, <1>5, <1>6 DEF PrevChanged
  <2>2. /\ g[y].end = g2[y].end /\ g[y].children = g2[y].children /\ g[y].prev = g2[y].prev
        /\ g[y].next = IF y = new THEN n ELSE g2[y].next
        /\ g[y].off = IF y = n THEN Differ(new.start, y.start) ELSE g2[y].off
    BY <1>7, <1>8 DEF NextChanged
  <2> QED BY <2>1, <2>2, <1>3, <1>5
<1> QED BY <1>8, <1>9 DEF LinkedCells, g, g1, g2

\* Every node of the next slice has the offset of that slice.
LEMMA NextOffs ==
    ASSUME NEW h, NEW T, NEW z, Shape(h, T, z), NEW x, IsTop(T, x),
           NEW y \in Row(T, h[x].next)
    PROVE  /\ y \in T /\ h[y].prev = x /\ h[y].off = Differ(x.start, y.start)
           /\ y.start = h[x].end /\ y.start # x.start
<1>1. x \in T /\ T \subseteq NodeName /\ Nil \notin T /\ h[x].next # Nil
      /\ y \in T /\ y.start = h[x].next.start
  BY NilOut DEF Shape, IsTop, Row, Level
<1>2. y.start = h[x].end
  BY <1>1 DEF Shape, Nexts
<1>3. y.start \in Name /\ x.start \in Name /\ Less(x.start, y.start)
  BY <1>1, <1>2, NodeFacts DEF Shape, Ends
<1>4. y.start # <<0>> /\ y.start # x.start
  BY <1>3, RootNames, NameOrder
<1>5. PICK t : IsTop(T, t) /\ t.start = y.start
  BY <1>1, NilOut, TopExists DEF Shape
<1>6. h[t].prev = x /\ t \in T
  BY <1>2, <1>5, PrevOfNext DEF IsTop
<1>7. h[y].prev = x
  BY <1>1, <1>5, <1>6, SameNeighbours
<1> QED BY <1>1, <1>2, <1>4, <1>7 DEF Shape, Prevs

LEMMA MatchIs ==
    ASSUME NEW h, NEW T, NEW z, Shape(h, T, z), NEW x, NEW new, Matches(h, T, z, x, new),
           NEW above, NEW next, Placed(h, T, x, new, above, next),
           NEW g, LinkedCells(g, h, x, new, next)
    PROVE  MatchCells(IF above # Nil THEN [g EXCEPT ![above].children = new]
                      ELSE TellNeighbours(g, new), h, T, x, new, above, next)
<1> DEFINE D == DOMAIN h
           n == h[x].next
           p == h[x].prev
           N == Row(T, n)
           P == Row(T, p)
           X == Level(T, x)
           U == T \cup {new}
<1>1. /\ new \in D /\ new \notin T /\ x \in D /\ x \in T /\ T \subseteq D /\ D \subseteq NodeName
      /\ IsTop(T, x) /\ Typed(g) /\ DOMAIN g = D /\ Nil \notin D /\ new # Nil
      /\ X \subseteq T /\ new.start = x.start
  BY NilOut DEF Matches, Shape, IsTop, LinkedCells, Level
<1>2. /\ \A y \in N : y \in T /\ h[y].off = Differ(new.start, y.start) /\ y.start # x.start
                      /\ h[y].prev = x
      /\ n # Nil => n \in N
  <2>1. n # Nil => n \in T
    BY <1>1 DEF Shape, Nexts, IsTop
  <2> QED BY <2>1, <1>1, NextOffs DEF Row, Level
<1>3. IsTop(T, p) /\ p \in T /\ p # Nil /\ p.start # x.start /\ h[p].end = x.start
  <2>1. IsTop(T, p) /\ h[p].end = x.start /\ p \in T
    BY <1>1 DEF Matches, Shape, Prevs, IsTop
  <2>2. Less(p.start, x.start)
    BY <2>1 DEF Shape, Ends
  <2> QED BY <2>1, <2>2, <1>1, NodeFacts, NameOrder
<1>4. \A y \in P : y \in T /\ y.start # x.start
  BY <1>3 DEF Row, Level
<1>5. \A y \in N : y \notin P
  <2>1. h[p].next = x
    BY <1>1, <1>3, PrevOfNext
  <2>2. ASSUME NEW y \in N, y \in P PROVE FALSE
    <3>1. h[y].next = x
      BY <2>1, <2>2, <1>3, SameNeighbours DEF Row, Level
    <3>2. y.start = h[x].end /\ y \in T
      BY <2>2, <1>1, NextOffs
    <3>3. Less(x.start, y.start) /\ Less(y.start, h[y].end)
      BY <3>2, <1>1 DEF Shape, Ends
    <3>4. h[y].end = x.start
      BY <3>1, <3>2, <1>1, NilOut DEF Shape, Nexts
    <3> QED BY <3>2, <3>3, <3>4, <1>1, NodeFacts, NameOrder
  <2> QED BY <2>2
<1>6. \A y \in D :
          /\ g[y].end = h[y].end
          /\ g[y].children = IF y = new THEN next ELSE h[y].children
          /\ g[y].next = IF y = new THEN n ELSE h[y].next
          /\ g[y].prev = IF y = new THEN p ELSE h[y].prev
          /\ g[y].off = IF y = new THEN Differ(p.start, new.start)
                        ELSE IF y \in N THEN Differ(new.start, y.start) ELSE h[y].off
  <2> SUFFICES ASSUME NEW y \in D
               PROVE  /\ g[y].end = h[y].end
                      /\ g[y].children = IF y = new THEN next ELSE h[y].children
                      /\ g[y].next = IF y = new THEN n ELSE h[y].next
                      /\ g[y].prev = IF y = new THEN p ELSE h[y].prev
                      /\ g[y].off = IF y = new THEN Differ(p.start, new.start)
                                    ELSE IF y \in N THEN Differ(new.start, y.start)
                                    ELSE h[y].off
    OBVIOUS
  <2>1. y = n => y \in N
    BY <1>1, <1>2
  <2>2. y \in N => h[y].off = Differ(new.start, y.start)
    BY <1>2
  <2> HIDE DEF N
  <2>3. /\ g[y].end = h[y].end
        /\ g[y].children = IF y = new THEN next ELSE h[y].children
        /\ g[y].next = IF y = new THEN n ELSE h[y].next
        /\ g[y].prev = IF y = new THEN p ELSE h[y].prev
        /\ g[y].off = IF y = new THEN Differ(p.start, new.start)
                      ELSE IF y = n THEN Differ(new.start, y.start) ELSE h[y].off
    BY DEF LinkedCells
  <2> QED BY <2>1, <2>2, <2>3
<1> HIDE DEF N, P
<1>7. CASE above # Nil
  <2> DEFINE f == [g EXCEPT ![above].children = new]
  <2>1. above \in X /\ above \in D /\ above # new
    BY <1>1, <1>7 DEF Placed
  <2>2. g \in [D -> Cell] /\ new \in Ref
    BY <1>1 DEF Typed, Ref
  <2>3. DOMAIN f = D /\ f = [y \in D |-> f[y]]
    BY <2>2
  <2>4. \A y \in D : f[y] = IF y = above THEN [g[y] EXCEPT !.children = new] ELSE g[y]
    BY <2>1, <2>2
  <2> HIDE DEF f
  <2>5. ASSUME NEW y \in D
        PROVE  /\ f[y] \in Cell
               /\ f[y].end = g[y].end /\ f[y].next = g[y].next
               /\ f[y].prev = g[y].prev /\ f[y].off = g[y].off
               /\ f[y].children = IF y = above THEN new ELSE g[y].children
    <3>0. g[y] \in Cell
      BY <2>2
    <3>1. CASE y = above
      <4>1. f[y] = [g[y] EXCEPT !.children = new]
        BY <3>1, <2>4
      <4> QED BY <3>0, <3>1, <4>1, <2>2 DEF Cell
    <3>2. CASE y # above
      <4>1. f[y] = g[y]
        BY <3>2, <2>4
      <4> QED BY <3>0, <3>2, <4>1
    <3> QED BY <3>1, <3>2
  <2>6. Typed(f)
    <3>1. f \in [D -> Cell]
      BY <2>3, <2>5
    <3> QED BY <3>1, <2>3, <1>1 DEF Typed
  <2>7. MatchCells(f, h, T, x, new, above, next)
    <3> SUFFICES ASSUME NEW y \in D
                 PROVE  /\ f[y].end = h[y].end
                        /\ f[y].children = IF y = new THEN next
                                           ELSE IF y = above THEN new ELSE h[y].children
                        /\ f[y].next = IF y = new THEN n ELSE h[y].next
                        /\ f[y].prev = IF y = new THEN p ELSE h[y].prev
                        /\ f[y].off = IF y = new THEN Differ(p.start, new.start)
                                      ELSE IF y \in N THEN Differ(new.start, y.start)
                                      ELSE h[y].off
      BY <1>7, <2>3, <2>6 DEF MatchCells, N, P
    <3>1. /\ f[y].end = g[y].end /\ f[y].next = g[y].next
          /\ f[y].prev = g[y].prev /\ f[y].off = g[y].off
          /\ f[y].children = IF y = above THEN new ELSE g[y].children
      BY <2>5
    <3> QED BY <3>1, <1>6, <2>1
  <2> QED BY <1>7, <2>7 DEF f
<1>8. CASE above = Nil
  <2> DEFINE g1 == SlicePrev(g, n, new)
             f  == SliceNext(g1, p, new)
  <2>1. next = x /\ (\A y \in X : ~Ahead(y, new)) /\ \A y \in X : Ahead(new, y)
    BY <1>8 DEF Placed
  <2>2. TellNeighbours(g, new) = f
    BY <1>1, <1>6 DEF TellNeighbours
  <2>3. Level(U, x) = X \cup {new} /\ \A y \in T : y.start # x.start => Level(U, y) = Level(T, y)
    BY <1>1 DEF Level
  <2>4. n = Nil \/ (IsTop(U, n) /\ Row(U, n) = N)
    <3>1. n = Nil \/ (IsTop(T, n) /\ n \in T)
      BY <1>1 DEF Shape, Nexts, IsTop
    <3>2. CASE n # Nil
      <4>1. n.start # x.start /\ n \in T /\ IsTop(T, n)
        BY <3>1, <3>2, <1>2
      <4>2. Level(U, n) = Level(T, n)
        BY <4>1, <2>3
      <4>3. IsTop(U, n)
        BY <4>1, <1>1 DEF IsTop
      <4> QED BY <3>2, <4>2, <4>3 DEF Row, N
    <3> QED BY <3>2
  <2>5. IsTop(U, p) /\ Row(U, p) = P
    BY <1>1, <1>3, <2>3 DEF IsTop, Row, P
  <2>6. n = Nil => Row(U, n) = {} /\ N = {}
    BY DEF Row, N
  <2>7. Chained(g, U)
    <3>1. Ranked(U)
      <4> SUFFICES ASSUME NEW y \in U, NEW w \in U, y.start = w.start, y # w
                   PROVE  Ahead(y, w) \/ Ahead(w, y)
        BY DEF Ranked
      <4>1. CASE y = new
        BY <4>1, <1>1, <2>1 DEF Level
      <4>2. CASE w = new
        BY <4>2, <1>1, <2>1 DEF Level
      <4>3. CASE y # new /\ w # new
        BY <4>3 DEF Shape, Ranked
      <4> QED BY <4>1, <4>2, <4>3
    <3>2. Belows(g, U)
      <4> SUFFICES ASSUME NEW y \in U
                   PROVE  IF g[y].children = Nil THEN \A w \in U : ~Over(y, w)
                          ELSE IsBelow(U, y, g[y].children)
        BY DEF Belows
      <4>1. CASE y = new
        <5>1. g[y].children = x /\ x # Nil
          BY <4>1, <1>1, <1>6, <2>1
        <5>2. \A w \in U : Over(new, w) => w \in X
          <6>1. ~Ahead(new, new)
            BY <1>1, AheadOrder
          <6> QED BY <6>1, <1>1 DEF Over, Level
        <5>3. \A w \in X : w = x \/ Ahead(x, w)
          BY <1>1 DEF IsTop, Level
        <5>4. Over(new, x)
          BY <1>1, <2>1 DEF Over, Level
        <5> QED BY <4>1, <5>1, <5>2, <5>3, <5>4, <1>1 DEF IsBelow
      <4>2. CASE y # new
        <5>1. g[y].children = h[y].children /\ y \in T
          BY <4>2, <1>1, <1>6
        <5>2. ~Over(y, new)
          BY <5>1, <2>1, <1>1 DEF Over, Level
        <5> QED BY <5>1, <5>2 DEF Shape, Belows, IsBelow
      <4> QED BY <4>1, <4>2
    <3>3. \A y \in DOMAIN g \ U : g[y].children = Nil
      BY <1>1, <1>6 DEF Shape, Loose
    <3> QED BY <1>1, <3>1, <3>2, <3>3 DEF Chained
  <2>8. new \in Ref /\ new # Nil
    BY <1>1 DEF Ref
  <2>9. PrevChanged(g1, g, N, new) /\ Chained(g1, U)
    <3>1. PrevChanged(g1, g, Row(U, n), new) /\ Chained(g1, U)
      BY <2>4, <2>7, <2>8, SlicePrevIs
    <3> QED BY <3>1, <2>4, <2>6
  <2> HIDE DEF g1
  <2>10. NextChanged(f, g1, P, new, p.start)
    BY <2>5, <2>8, <2>9, SliceNextIs
  <2> HIDE DEF f
  <2>11. Typed(f) /\ DOMAIN f = D /\ DOMAIN g1 = D /\ P # {}
    <3>1. P # {}
      BY <1>3 DEF P, Row, Level
    <3> QED BY <3>1, <1>1, <2>9, <2>10 DEF PrevChanged, NextChanged
  <2>12. MatchCells(f, h, T, x, new, above, next)
    <3> SUFFICES ASSUME NEW y \in D
                 PROVE  /\ f[y].end = h[y].end
                        /\ f[y].children = IF y = new THEN next ELSE h[y].children
                        /\ f[y].next = IF y = new THEN n
                                       ELSE IF y \in P THEN new ELSE h[y].next
                        /\ f[y].prev = IF y = new THEN p
                                       ELSE IF y \in N THEN new ELSE h[y].prev
                        /\ f[y].off = IF y = new THEN Differ(p.start, new.start)
                                      ELSE IF y \in N THEN Differ(new.start, y.start)
                                      ELSE h[y].off
      BY <1>1, <1>8, <2>11 DEF MatchCells, N, P
    <3>1. /\ g1[y].end = g[y].end /\ g1[y].next = g[y].next /\ g1[y].children = g[y].children
          /\ g1[y].prev = IF y \in N THEN new ELSE g[y].prev
          /\ g1[y].off = IF y \in N THEN Differ(new.start, y.start) ELSE g[y].off
      BY <1>1, <2>8, <2>9 DEF PrevChanged
    <3>2. /\ f[y].end = g1[y].end /\ f[y].prev = g1[y].prev /\ f[y].children = g1[y].children
          /\ f[y].next = IF y \in P THEN new ELSE g1[y].next
          /\ f[y].off = IF y = new THEN Differ(p.start, y.start) ELSE g1[y].off
      BY <2>10, <2>11 DEF NextChanged
    <3>3. new \notin N /\ new \notin P
      BY <1>1, <1>2, <1>4
    <3> QED BY <3>1, <3>2, <3>3, <1>6
  <2> QED BY <1>8, <2>2, <2>12
<1> QED BY <1>7, <1>8

LEMMA MatchShape ==
    ASSUME NEW h, NEW T, NEW z, Shape(h, T, z), NEW x, NEW new, Matches(h, T, z, x, new),
           NEW above, NEW next, Placed(h, T, x, new, above, next),
           NEW g, MatchCells(g, h, T, x, new, above, next)
    PROVE  LET U == T \cup {new}
           IN /\ Shape(g, U, z) /\ DOMAIN g = DOMAIN h
              /\ \A y : IsTop(T, y) /\ y.start # new.start => IsTop(U, y)
              /\ SameCells(g, h, DOMAIN h \ U)
<1> DEFINE D == DOMAIN h
           n == h[x].next
           p == h[x].prev
           N == Row(T, n)
           P == Row(T, p)
           X == Level(T, x)
           U == T \cup {new}
<1>1. /\ new \in D /\ new \notin T /\ x \in D /\ x \in T /\ T \subseteq D /\ D \subseteq NodeName
      /\ IsTop(T, x) /\ Typed(g) /\ DOMAIN g = D /\ Nil \notin D /\ new # Nil
      /\ X \subseteq T /\ x \in X /\ new.start = x.start /\ h[new].end = h[x].end
      /\ new.start # <<0>> /\ z \in Name
  BY NilOut DEF Matches, Shape, IsTop, MatchCells, Level
<1>2. \A y \in D : y.start \in Name /\ h[y].end \in Name
  BY <1>1, NodeFacts, CellFacts DEF Shape
<1>3. \A y \in T : y \in X <=> y.start = x.start
  BY DEF Level
<1>4. \A y \in D :
          /\ g[y].end = h[y].end
          /\ g[y].children = IF y = new THEN next
                             ELSE IF y = above THEN new ELSE h[y].children
          /\ g[y].next = IF y = new THEN n
                         ELSE IF y \in P /\ above = Nil THEN new ELSE h[y].next
          /\ g[y].prev = IF y = new THEN p
                         ELSE IF y \in N /\ above = Nil THEN new ELSE h[y].prev
          /\ g[y].off = IF y = new THEN Differ(p.start, new.start)
                        ELSE IF y \in N THEN Differ(new.start, y.start) ELSE h[y].off
  BY DEF MatchCells
<1>5. /\ IsTop(T, p) /\ p \in T /\ h[p].end = x.start
      /\ h[x].off = Differ(p.start, x.start)
  BY <1>1 DEF Shape, Prevs, IsTop
<1>6. p.start # x.start
  <2>1. Less(p.start, x.start)
    BY <1>5 DEF Shape, Ends
  <2> QED BY <2>1, <1>1, <1>2, NameOrder
<1>7. \A y \in T : h[y].end = x.start => y \in P
  <2> SUFFICES ASSUME NEW y \in T, h[y].end = x.start PROVE y \in P
    OBVIOUS
  <2>1. PICK t : IsTop(T, t) /\ t.start = y.start
    BY NilOut, TopExists DEF Shape
  <2>2. h[t].end = x.start
    BY <2>1, SameEnd DEF IsTop
  <2>3. t = p
    BY <2>1, <2>2, <1>1, PrevOfNext
  <2> QED BY <2>1, <2>3, <1>1 DEF Row, Level, IsTop
<1>8. \A y \in P : y \in T /\ h[y].end = x.start
  <2> SUFFICES ASSUME NEW y \in P PROVE y \in T /\ h[y].end = x.start
    OBVIOUS
  <2>1. y \in T /\ y.start = p.start
    BY <1>1, <1>5 DEF Row, Level
  <2> QED BY <2>1, <1>5, SameEnd
<1>9. \A y \in N : /\ y \in T /\ h[y].prev = x /\ y.start = h[x].end /\ y.start # x.start
                   /\ y.start # <<0>>
  <2> SUFFICES ASSUME NEW y \in N
               PROVE  /\ y \in T /\ h[y].prev = x /\ y.start = h[x].end /\ y.start # x.start
                      /\ y.start # <<0>>
    OBVIOUS
  <2>1. y \in T /\ h[y].prev = x /\ y.start = h[x].end /\ y.start # x.start
    BY <1>1, NextOffs
  <2> QED BY <2>1, <1>1, NilOut DEF Shape, Prevs
<1>10. \A y \in T : y.start = h[x].end => y \in N
  <2> SUFFICES ASSUME NEW y \in T, y.start = h[x].end PROVE y \in N
    OBVIOUS
  <2>1. h[x].end # z
    BY <1>1, <1>2, NameOrder DEF Shape, Ends
  <2>2. IsTop(T, n) /\ n.start = h[x].end
    BY <2>1, <1>1 DEF Shape, Nexts
  <2> QED BY <2>2, <1>1 DEF Row, Level, IsTop
<1>11. \A y : IsTop(T, y) /\ y.start # x.start => IsTop(U, y)
  BY <1>1 DEF IsTop
<1>12. \A y \in X : Ahead(y, new) \/ Ahead(new, y)
  BY DEF Placed
<1>13. above = Nil => IsTop(U, new)
  <2> SUFFICES ASSUME above = Nil PROVE IsTop(U, new)
    OBVIOUS
  <2>1. \A y \in X : ~Ahead(y, new)
    BY DEF Placed
  <2> QED BY <2>1, <1>1, <1>3, <1>12 DEF IsTop
<1>14. above # Nil => IsTop(U, x)
  <2> SUFFICES ASSUME above # Nil PROVE IsTop(U, x)
    OBVIOUS
  <2>1. above \in X /\ Ahead(above, new)
    BY DEF Placed
  <2>2. above = x \/ Ahead(x, above)
    BY <2>1, <1>1, <1>3 DEF IsTop
  <2>3. Ahead(x, new)
    BY <2>1, <2>2, <1>1, AheadOrder
  <2> QED BY <2>3, <1>1 DEF IsTop
<1> HIDE DEF N, P, X
<1>20. Ends(g, U, z)
  <2> SUFFICES ASSUME NEW a \in U
               PROVE  /\ Less(a.start, g[a].end) /\ Less(a.start, z)
                      /\ \A y \in U : Less(a.start, y.start) => ~Less(y.start, g[a].end)
                      /\ g[a].end = z \/ \E y \in U : y.start = g[a].end
    BY DEF Ends
  <2>1. PICK b \in T : b.start = a.start /\ h[b].end = g[a].end
    BY <1>1, <1>4
  <2>2. \A y \in U : \E w \in T : w.start = y.start
    BY <1>1
  <2>3. /\ Less(b.start, h[b].end) /\ Less(b.start, z)
        /\ \A y \in T : Less(b.start, y.start) => ~Less(y.start, h[b].end)
        /\ h[b].end = z \/ \E y \in T : y.start = h[b].end
    BY DEF Shape, Ends
  <2> QED BY <2>1, <2>2, <2>3
<1>21. Nexts(g, U, z)
  <2> SUFFICES ASSUME NEW a \in U
               PROVE  IF g[a].end = z THEN g[a].next = Nil
                      ELSE IsTop(U, g[a].next) /\ g[a].next.start = g[a].end
    BY DEF Nexts
  <2>1. CASE a = new
    <3>1. g[a].end = h[x].end /\ g[a].next = n
      BY <2>1, <1>1, <1>4
    <3>2. CASE h[x].end = z
      BY <3>1, <3>2, <1>1 DEF Shape, Nexts
    <3>3. CASE h[x].end # z
      <4>1. IsTop(T, n) /\ n.start = h[x].end
        BY <3>3, <1>1 DEF Shape, Nexts
      <4>2. n.start # x.start
        BY <4>1, <1>1, <1>2, NameOrder DEF Shape, Ends
      <4> QED BY <3>1, <3>3, <4>1, <4>2, <1>11
    <3> QED BY <3>2, <3>3
  <2>2. CASE a \in P
    <3>1. g[a].end = x.start /\ a # new /\ a \in T /\ x.start # z
      BY <2>2, <1>1, <1>2, <1>4, <1>8, NameOrder DEF Shape, Ends
    <3>2. CASE above = Nil
      BY <2>2, <3>1, <3>2, <1>1, <1>4, <1>13
    <3>3. CASE above # Nil
      <4>1. g[a].next = h[a].next /\ h[a].end = x.start
        BY <3>1, <3>3, <1>1, <1>4
      <4>2. IsTop(T, h[a].next) /\ h[a].next.start = x.start
        BY <3>1, <4>1 DEF Shape, Nexts
      <4>3. h[a].next = x
        BY <4>2, <1>1, TopUnique
      <4> QED BY <3>1, <3>3, <4>1, <4>3, <1>14
    <3> QED BY <3>2, <3>3
  <2>3. CASE a \in T \ P
    <3>1. g[a].end = h[a].end /\ g[a].next = h[a].next
      BY <2>3, <1>1, <1>4
    <3>2. CASE h[a].end = z
      BY <2>3, <3>1, <3>2 DEF Shape, Nexts
    <3>3. CASE h[a].end # z
      <4>1. IsTop(T, h[a].next) /\ h[a].next.start = h[a].end
        BY <2>3, <3>3 DEF Shape, Nexts
      <4>2. h[a].end # x.start
        BY <2>3, <1>7
      <4> QED BY <3>1, <3>3, <4>1, <4>2, <1>11
    <3> QED BY <3>2, <3>3
  <2> QED BY <2>1, <2>2, <2>3
<1>22. Prevs(g, U)
  <2> SUFFICES ASSUME NEW a \in U
               PROVE  IF a.start = <<0>> THEN g[a].prev = Nil
                      ELSE /\ IsTop(U, g[a].prev) /\ g[g[a].prev].end = a.start
                           /\ g[a].off = Differ(g[a].prev.start, a.start)
    BY DEF Prevs
  <2>1. CASE a = new
    <3>1. g[a].prev = p /\ g[p].end = x.start /\ g[a].off = Differ(p.start, new.start)
      BY <2>1, <1>1, <1>4, <1>5
    <3> QED BY <2>1, <3>1, <1>1, <1>5, <1>6, <1>11
  <2>2. CASE a \in N
    <3>1. a \in T /\ h[a].prev = x /\ a.start = h[x].end /\ a # new /\ a.start # <<0>>
      BY <2>2, <1>1, <1>9
    <3>2. g[a].off = Differ(new.start, a.start)
      BY <2>2, <3>1, <1>1, <1>4
    <3>3. g[new].end = a.start /\ g[x].end = a.start
      BY <3>1, <1>1, <1>4
    <3>4. g[a].prev = IF above = Nil THEN new ELSE x
      BY <2>2, <3>1, <1>1, <1>4
    <3> QED BY <3>1, <3>2, <3>3, <3>4, <1>1, <1>13, <1>14
  <2>3. CASE a \in T \ N
    <3>1. g[a].prev = h[a].prev /\ g[a].off = h[a].off
      BY <2>3, <1>1, <1>4
    <3>2. CASE a.start = <<0>>
      BY <2>3, <3>1, <3>2 DEF Shape, Prevs
    <3>3. CASE a.start # <<0>>
      <4> DEFINE q == h[a].prev
      <4>1. IsTop(T, q) /\ h[q].end = a.start /\ h[a].off = Differ(q.start, a.start) /\ q \in T
        BY <2>3, <3>3 DEF Shape, Prevs, IsTop
      <4> HIDE DEF q
      <4>2. q.start # x.start
        <5> SUFFICES ASSUME q.start = x.start PROVE FALSE
          OBVIOUS
        <5>1. q = x
          BY <4>1, <1>1, TopUnique
        <5> QED BY <2>3, <4>1, <5>1, <1>10
      <4>3. g[q].end = a.start /\ IsTop(U, q)
        BY <4>1, <4>2, <1>1, <1>4, <1>11
      <4> QED BY <3>1, <3>3, <4>1, <4>3 DEF q
    <3> QED BY <3>2, <3>3
  <2> QED BY <2>1, <2>2, <2>3
<1>23. Belows(g, U)
  <2> SUFFICES ASSUME NEW y \in U
               PROVE  IF g[y].children = Nil THEN \A w \in U : ~Over(y, w)
                      ELSE IsBelow(U, y, g[y].children)
    BY DEF Belows
  <2>0. \A w \in U : Over(y, w) /\ y.start = x.start => w \in X \/ w = new
    BY <1>3 DEF Over
  <2>1. CASE y = new
    <3>1. g[y].children = next
      BY <2>1, <1>1, <1>4
    <3>2. \A w \in U : Over(y, w) => w \in X
      BY <2>0, <2>1, <1>1, AheadOrder DEF Over
    <3>3. CASE next = Nil
      <4>1. \A w \in X : ~Ahead(new, w)
        BY <3>3 DEF Placed, X
      <4> QED BY <2>1, <3>1, <3>2, <3>3, <4>1 DEF Over
    <3>4. CASE next # Nil
      <4>1. /\ next \in X /\ Ahead(new, next)
            /\ \A w \in X : Ahead(new, w) => w = next \/ Ahead(next, w)
        BY <3>4 DEF Placed, X
      <4>2. next \in U /\ Over(y, next)
        BY <2>1, <4>1, <1>1, <1>3 DEF Over
      <4> QED BY <2>1, <3>1, <3>2, <3>4, <4>1, <4>2 DEF IsBelow, Over
    <3> QED BY <3>3, <3>4
  <2>2. CASE y = above /\ y # new
    <3>0. y \in T
      BY <2>2
    <3>1. above \in X /\ Ahead(above, new) /\ above.start = x.start
          /\ \A w \in X : Ahead(w, new) => w = above \/ Ahead(w, above)
      BY <2>2, <3>0, <1>1, <1>3 DEF Placed, X
    <3>2. g[y].children = new
      BY <2>2, <3>0, <1>1, <1>4
    <3>3. Over(y, new)
      BY <2>2, <3>1, <1>1 DEF Over
    <3>4. \A w \in U : Over(y, w) => w = new \/ Ahead(new, w)
      <4> SUFFICES ASSUME NEW w \in U, Over(y, w), w # new PROVE Ahead(new, w)
        OBVIOUS
      <4>1. w \in X
        BY <2>0, <2>2, <3>1
      <4>2. Ahead(above, w)
        BY <2>2 DEF Over
      <4>3. w \in NodeName /\ above \in NodeName
        BY <4>1, <3>1, <1>1
      <4>4. ~Ahead(w, new)
        BY <3>1, <4>1, <4>2, <4>3, AheadOrder
      <4> QED BY <4>1, <4>4, <1>12
    <3> QED BY <3>2, <3>3, <3>4, <1>1 DEF IsBelow
  <2>3. CASE y # new /\ y # above
    <3>1. y \in T /\ g[y].children = h[y].children
      BY <2>3, <1>1, <1>4
    <3>2. Over(y, new) => above # Nil /\ Over(y, above) /\ above \in T /\ Ahead(above, new)
      <4> SUFFICES ASSUME Over(y, new)
                   PROVE  above # Nil /\ Over(y, above) /\ above \in T /\ Ahead(above, new)
        OBVIOUS
      <4>1. y \in X /\ Ahead(y, new)
        BY <3>1, <1>1, <1>3 DEF Over
      <4>2. above # Nil
        BY <4>1 DEF Placed, X
      <4>3. above \in X /\ Ahead(above, new) /\ Ahead(y, above)
        BY <2>3, <4>1, <4>2 DEF Placed, X
      <4> QED BY <4>1, <4>2, <4>3, <1>1, <1>3 DEF Over
    <3>3. CASE h[y].children = Nil
      <4>1. \A w \in T : ~Over(y, w)
        BY <3>1, <3>3 DEF Shape, Belows
      <4> QED BY <3>1, <3>2, <3>3, <4>1
    <3>4. CASE h[y].children # Nil
      <4> DEFINE b == h[y].children
      <4>1. IsBelow(T, y, b)
        BY <3>1, <3>4 DEF Shape, Belows
      <4> HIDE DEF b
      <4>2. ASSUME Over(y, new) PROVE Ahead(b, new)
        <5>1. above = b \/ Ahead(b, above)
          BY <3>2, <4>1, <4>2 DEF IsBelow
        <5>2. b \in T
          BY <4>1 DEF IsBelow
        <5> QED BY <3>2, <4>2, <5>1, <5>2, <1>1, AheadOrder
      <4>3. IsBelow(U, y, b)
        BY <4>1, <4>2 DEF IsBelow
      <4> QED BY <3>1, <3>4, <4>3 DEF b
    <3> QED BY <3>3, <3>4
  <2> QED BY <2>1, <2>2, <2>3
<1>24. Ranked(U)
  <2> SUFFICES ASSUME NEW y \in U, NEW w \in U, y.start = w.start, y # w
               PROVE  Ahead(y, w) \/ Ahead(w, y)
    BY DEF Ranked
  <2>1. CASE y = new
    BY <2>1, <1>1, <1>3, <1>12
  <2>2. CASE w = new
    BY <2>2, <1>1, <1>3, <1>12
  <2>3. CASE y # new /\ w # new
    BY <2>3 DEF Shape, Ranked
  <2> QED BY <2>1, <2>2, <2>3
<1>25. SameCells(g, h, D \ U)
  <2> SUFFICES ASSUME NEW y \in D, y \notin U
               PROVE  /\ g[y].end = h[y].end /\ g[y].next = h[y].next /\ g[y].prev = h[y].prev
                      /\ g[y].children = h[y].children /\ g[y].off = h[y].off
    BY DEF SameCells
  <2>1. y # new /\ y \notin N /\ y \notin P
    BY <1>8, <1>9
  <2>2. y # above
    BY <1>1 DEF Placed, X
  <2> QED BY <2>1, <2>2, <1>4
<1>26. Loose(g, U)
  <2> SUFFICES ASSUME NEW y \in D \ U
               PROVE  /\ g[y].children = Nil
                      /\ g[y].next \in D => Less(y.start, g[y].next.start)
    BY <1>1 DEF Loose
  <2> QED BY <1>25 DEF SameCells, Shape, Loose
<1>27. U \subseteq DOMAIN g
  BY <1>1
<1>28. Shape(g, U, z)
  BY <1>1, <1>20, <1>21, <1>22, <1>23, <1>24, <1>26, <1>27 DEF Shape
<1> QED BY <1>1, <1>11, <1>25, <1>28

\* subtreeLoad where the slice matches.
LEMMA LoadMatchingIs ==
    ASSUME NEW h, NEW T, NEW z, Shape(h, T, z), NEW x, NEW new, Matches(h, T, z, x, new),
           NEW f, NEW ok
    PROVE  LET t == [heap |-> h, first |-> f, ok |-> ok]
               r == LoadMatching(t, x, new)
               U == T \cup {new}
           IN IF \E y \in Level(T, x) : SameRank(y, new)
              THEN r = [heap |-> h, first |-> f, ok |-> FALSE]
              ELSE /\ r = [heap |-> r.heap, first |-> f, ok |-> ok]
                   /\ Shape(r.heap, U, z) /\ DOMAIN r.heap = DOMAIN h
                   /\ \A y : IsTop(T, y) /\ y.start # new.start => IsTop(U, y)
                   /\ SameCells(r.heap, h, DOMAIN h \ U)
<1> DEFINE t == [heap |-> h, first |-> f, ok |-> ok]
           chain == Chain(h, x)
           k     == Lead(h, x, new)
           next  == IF k < Len(chain) THEN chain[k + 1] ELSE Nil
           above == IF k > 0 THEN chain[k] ELSE Nil
           near  == h[IF k > 0 THEN above ELSE next]
           g     == ChangeNext(ChangePrev([h EXCEPT ![new].children = next],
                                          {new}, near.prev), {new}, near.next)
           heap1 == IF k > 0 THEN [g EXCEPT ![above].children = new] ELSE TellNeighbours(g, new)
           dup   == next # Nil /\ Len(next.name) = Len(new.name) /\ next.prio = new.prio
           Dup   == \E y \in Level(T, x) : SameRank(y, new)
<1>1. new \in NodeName /\ IsTop(T, x) /\ x \in T
  BY NilOut DEF Matches, Shape, IsTop
<1>2. LoadMatching(t, x, new) = IF dup THEN [t EXCEPT !.ok = FALSE]
                                ELSE [t EXCEPT !.heap = heap1]
  BY DEF LoadMatching, Lead
<1>3. /\ k > 0 <=> above # Nil
      /\ IF Dup THEN next # Nil /\ SameRank(next, new)
         ELSE (next # Nil => ~SameRank(next, new)) /\ Placed(h, T, x, new, above, next)
  BY <1>1, PlaceIs
<1>4. dup <=> Dup
  BY <1>3 DEF SameRank
<1> HIDE DEF k, next, above, dup, Dup
<1>5. CASE Dup
  <2>1. LoadMatching(t, x, new) = [t EXCEPT !.ok = FALSE]
    BY <1>2, <1>4, <1>5
  <2>2. LoadMatching(t, x, new) = [heap |-> h, first |-> f, ok |-> FALSE]
    BY <2>1
  <2> QED BY <1>5, <2>2 DEF Dup
<1>6. CASE ~Dup
  <2>1. Placed(h, T, x, new, above, next)
    BY <1>3, <1>6
  <2>2. near.prev = h[x].prev /\ near.next = h[x].next
    <3> DEFINE a == IF k > 0 THEN above ELSE next
    <3>1. a \in Level(T, x)
      BY <1>1, <1>3, <2>1 DEF Placed, Level
    <3>2. a \in T /\ a.start = x.start
      BY <3>1 DEF Level
    <3> HIDE DEF a
    <3>3. h[a].next = h[x].next /\ h[a].prev = h[x].prev
      BY <1>1, <3>2, SameNeighbours
    <3> QED BY <3>3 DEF a
  <2>3. next \in Ref
    BY <2>1, NilOut DEF Placed, Level, Ref, Shape
  <2>4. g = ChangeNext(ChangePrev([h EXCEPT ![new].children = next],
                                  {new}, h[x].prev), {new}, h[x].next)
    BY <2>2
  <2> HIDE DEF near, g
  <2>5. LinkedCells(g, h, x, new, next)
    BY <2>3, <2>4, LinkedIs
  <2>6. heap1 = IF above # Nil THEN [g EXCEPT ![above].children = new]
                ELSE TellNeighbours(g, new)
    BY <1>3
  <2>7. MatchCells(heap1, h, T, x, new, above, next)
    BY <2>1, <2>5, <2>6, MatchIs
  <2> HIDE DEF heap1
  <2>8. LoadMatching(t, x, new) = [heap |-> heap1, first |-> f, ok |-> ok]
    BY <1>2, <1>4, <1>6
  <2>9. LET U == T \cup {new}
        IN /\ Shape(heap1, U, z) /\ DOMAIN heap1 = DOMAIN h
           /\ \A y : IsTop(T, y) /\ y.start # new.start => IsTop(U, y)
           /\ SameCells(heap1, h, DOMAIN h \ U)
    BY <2>1, <2>7, MatchShape
  <2> QED BY <1>6, <2>8, <2>9 DEF Dup
<1> QED BY <1>5, <1>6

-----------------------------------------------------------------------------
(* Unlinking a node.                                                       *)

\* A node that is not the last of its slice, and the one above it in the chain.
Leaves(h, T, x, above) ==
    /\ DOMAIN h = T /\ x \in T /\ \E y \in T : y # x /\ y.start = x.start
    /\ IF above = Nil THEN IsTop(T, x) ELSE above \in T /\ h[above].children = x

UnloadCells(g, h, T, x, above) ==
    LET N == Row(T, h[x].next)
        P == Row(T, h[x].prev)
        c == h[x].children
    IN /\ Typed(g) /\ DOMAIN g = T \ {x}
       /\ \A y \in T \ {x} :
             /\ g[y].end = h[y].end /\ g[y].off = h[y].off
             /\ g[y].children = IF y = above THEN c ELSE h[y].children
             /\ g[y].next = IF y \in P /\ above = Nil THEN c ELSE h[y].next
             /\ g[y].prev = IF y \in N /\ above = Nil THEN c ELSE h[y].prev

LEMMA FreeIs ==
    ASSUME NEW h, Typed(h), NEW x
    PROVE  /\ Typed(Free(h, x)) /\ DOMAIN Free(h, x) = DOMAIN h \ {x}
           /\ \A y \in DOMAIN h \ {x} : Free(h, x)[y] = h[y]
<1> DEFINE g == Free(h, x)
           S == DOMAIN h \ {x}
<1>1. g = [y \in S |-> h[y]]
  BY DEF Free, Restrict
<1>2. \A y \in S : h[y] \in Cell
  BY DEF Typed
<1>3. IsFiniteSet(S)
  BY FS_Subset DEF Typed
<1> HIDE DEF g
<1>4. DOMAIN g = S /\ g \in [S -> Cell] /\ \A y \in S : g[y] = h[y]
  BY <1>1, <1>2
<1>5. S \subseteq NodeName
  BY DEF Typed
<1> QED BY <1>3, <1>4, <1>5 DEF Typed, g

\* The node below the head of a slice is its next head.
LEMMA NextHead ==
    ASSUME NEW h, NEW T, NEW z, Shape(h, T, z), NEW x, IsTop(T, x),
           \E y \in T : y # x /\ y.start = x.start
    PROVE  /\ h[x].children \in T /\ h[x].children # Nil /\ h[x].children # x
           /\ h[x].children.start = x.start /\ IsTop(T \ {x}, h[x].children)
<1> DEFINE c == h[x].children
<1>1. x \in T /\ T \subseteq NodeName /\ Nil \notin T
  BY NilOut DEF Shape, IsTop
<1>2. PICK y \in T : y # x /\ y.start = x.start
  OBVIOUS
<1>3. Over(x, y)
  BY <1>2 DEF IsTop, Over
<1>4. IsBelow(T, x, c)
  BY <1>1, <1>3 DEF Shape, Belows
<1>5. \A w \in T : w.start = x.start => w = x \/ w = c \/ Ahead(c, w)
  BY <1>4 DEF IsTop, IsBelow, Over
<1>6. c \in T /\ c.start = x.start /\ c # x
  BY <1>1, <1>4, AheadOrder DEF IsBelow, Over
<1> QED BY <1>1, <1>5, <1>6 DEF IsTop

LEMMA UnloadHeadIs ==
    ASSUME NEW h, NEW T, NEW z, Shape(h, T, z), NEW x, Leaves(h, T, x, Nil)
    PROVE  UnloadCells(Free(Bypassed(h, x), x), h, T, x, Nil)
<1> DEFINE n == h[x].next
           p == h[x].prev
           c == h[x].children
           N == Row(T, n)
           P == Row(T, p)
           g1 == SliceNext(h, p, c)
           g2 == SlicePrev(g1, n, c)
           g  == Free(g2, x)
<1>1. /\ x \in T /\ IsTop(T, x) /\ T \subseteq NodeName /\ Nil \notin T /\ DOMAIN h = T
      /\ \E y \in T : y # x /\ y.start = x.start
  BY NilOut DEF Leaves, Shape
<1>2. c \in T /\ c # Nil /\ c \in Ref /\ c.start = x.start
  <2>1. /\ h[x].children \in T /\ h[x].children # Nil /\ h[x].children # x
        /\ h[x].children.start = x.start /\ IsTop(T \ {x}, h[x].children)
    <3>1. \E y \in T : y # x /\ y.start = x.start
      BY <1>1
    <3>2. IsTop(T, x)
      BY <1>1
    <3> HIDE DEF n, p, c, N, P, g1, g2, g
    <3> QED BY <3>1, <3>2, NextHead
  <2> QED BY <2>1, <1>1 DEF Ref
<1>3. Bypassed(h, x) = g2
  BY <1>2 DEF Bypassed
<1>4. n = Nil \/ IsTop(T, n)
  BY <1>1 DEF Shape, Nexts
<1>5. p = Nil \/ (IsTop(T, p) /\ h[c].off = Differ(p.start, c.start))
  <2>1. CASE x.start = <<0>>
    BY <1>1, <2>1 DEF Shape, Prevs
  <2>2. CASE x.start # <<0>>
    <3>1. h[c].prev = p
      BY <1>1, <1>2, SameNeighbours
    <3> QED BY <2>2, <3>1, <1>1, <1>2 DEF Shape, Prevs
  <2> QED BY <2>1, <2>2
<1>6. \A y \in N : h[y].off = Differ(c.start, y.start)
  BY <1>1, <1>2, NextOffs
<1>7. Chained(h, T)
  BY ShapeChained
<1>8. NextChanged(g1, h, P, c, p.start) /\ Chained(g1, T)
  BY <1>2, <1>5, <1>7, SliceNextIs
<1> HIDE DEF g1
<1>9. PrevChanged(g2, g1, N, c)
  BY <1>2, <1>4, <1>8, SlicePrevIs
<1> HIDE DEF g2
<1>10. Typed(g2) /\ DOMAIN g2 = T /\ DOMAIN g1 = T
  BY <1>1, <1>8, <1>9 DEF NextChanged, PrevChanged
<1>11. Typed(g) /\ DOMAIN g = T \ {x} /\ \A y \in T \ {x} : g[y] = g2[y]
  BY <1>10, FreeIs
<1> HIDE DEF g
<1>12. P # {} => p # Nil
  BY DEF Row
<1> HIDE DEF N, P
<1>13. ASSUME NEW y \in T \ {x}
       PROVE  /\ g[y].end = h[y].end /\ g[y].off = h[y].off
              /\ g[y].children = h[y].children
              /\ g[y].next = IF y \in P THEN c ELSE h[y].next
              /\ g[y].prev = IF y \in N THEN c ELSE h[y].prev
  <2>1. /\ g1[y].end = h[y].end /\ g1[y].children = h[y].children /\ g1[y].prev = h[y].prev
        /\ g1[y].next = IF y \in P THEN c ELSE h[y].next
        /\ g1[y].off = IF y = c /\ P # {} THEN Differ(p.start, y.start) ELSE h[y].off
    BY <1>1, <1>8 DEF NextChanged
  <2>2. g1[y].off = h[y].off
    BY <2>1, <1>5, <1>12
  <2>3. /\ g2[y].end = g1[y].end /\ g2[y].children = g1[y].children /\ g2[y].next = g1[y].next
        /\ g2[y].prev = IF y \in N THEN c ELSE g1[y].prev
        /\ g2[y].off = IF y \in N /\ c # Nil THEN Differ(c.start, y.start) ELSE g1[y].off
    BY <1>9, <1>10 DEF PrevChanged
  <2>4. g2[y].off = h[y].off
    BY <2>2, <2>3, <1>6
  <2>5. g[y] = g2[y]
    BY <1>11
  <2> HIDE DEF c
  <2> QED BY <2>1, <2>3, <2>4, <2>5
<1>14. UnloadCells(g, h, T, x, Nil)
  <2>1. \A y \in T : y # Nil
    BY <1>1
  <2> QED BY <2>1, <1>11, <1>13 DEF UnloadCells, N, P
<1> QED BY <1>3, <1>14 DEF g

LEMMA UnloadInnerIs ==
    ASSUME NEW h, NEW T, NEW z, Shape(h, T, z), NEW x, NEW above, above # Nil,
           Leaves(h, T, x, above)
    PROVE  UnloadCells(Free([h EXCEPT ![above].children = h[x].children], x), h, T, x, above)
<1> DEFINE c == h[x].children
           f == [h EXCEPT ![above].children = c]
           g == Free(f, x)
<1>1. above \in T /\ x \in T /\ DOMAIN h = T /\ h \in [T -> Cell] /\ Typed(h)
  BY DEF Leaves, Shape, Typed
<1>2. c \in Ref
  BY <1>1, CellFacts
<1> HIDE DEF c
<1>3. DOMAIN f = T /\ f = [y \in T |-> f[y]]
  BY <1>1
<1>4. \A y \in T : f[y] = IF y = above THEN [h[y] EXCEPT !.children = c] ELSE h[y]
  BY <1>1
<1> HIDE DEF f
<1>5. ASSUME NEW y \in T
      PROVE  /\ f[y] \in Cell
             /\ f[y].end = h[y].end /\ f[y].next = h[y].next
             /\ f[y].prev = h[y].prev /\ f[y].off = h[y].off
             /\ f[y].children = IF y = above THEN c ELSE h[y].children
  <2>0. h[y] \in Cell
    BY <1>1
  <2>1. CASE y = above
    <3>1. f[y] = [h[y] EXCEPT !.children = c]
      BY <2>1, <1>4
    <3> QED BY <2>0, <2>1, <3>1, <1>2 DEF Cell
  <2>2. CASE y # above
    <3>1. f[y] = h[y]
      BY <2>2, <1>4
    <3> QED BY <2>0, <2>2, <3>1
  <2> QED BY <2>1, <2>2
<1>6. Typed(f)
  <2>1. f \in [T -> Cell]
    BY <1>3, <1>5
  <2> QED BY <2>1, <1>1, <1>3 DEF Typed
<1>7. Typed(g) /\ DOMAIN g = T \ {x} /\ \A y \in T \ {x} : g[y] = f[y]
  BY <1>3, <1>6, FreeIs
<1> HIDE DEF g
<1>8. UnloadCells(g, h, T, x, above)
  BY <1>5, <1>7 DEF UnloadCells, c
<1> QED BY <1>8 DEF g, f, c

LEMMA UnloadShape ==
    ASSUME NEW h, NEW T, NEW z, Shape(h, T, z), NEW x, NEW above, Leaves(h, T, x, above),
           NEW g, UnloadCells(g, h, T, x, above)
    PROVE  /\ Shape(g, T \ {x}, z)
           /\ \A y : IsTop(T, y) => IsTop(T \ {x}, IF y = x THEN h[x].children ELSE y)
           /\ IsTop(T, x) => h[x].children.start = x.start /\ h[x].children # Nil
<1> DEFINE n == h[x].next
           p == h[x].prev
           c == h[x].children
           N == Row(T, n)
           P == Row(T, p)
           U == T \ {x}
           Heir(y) == IF y = x THEN c ELSE y
<1>1. /\ x \in T /\ T \subseteq NodeName /\ Nil \notin T /\ DOMAIN h = T /\ z \in Name
      /\ DOMAIN g = U /\ Typed(g)
  BY NilOut DEF Leaves, Shape, UnloadCells
<1>2. \A y \in T : y.start \in Name /\ h[y].end \in Name
  BY <1>1, NodeFacts, CellFacts DEF Shape
<1>3. PICK other \in U : other.start = x.start
  BY DEF Leaves
<1>4. \A y \in U :
          /\ g[y].end = h[y].end /\ g[y].off = h[y].off
          /\ g[y].children = IF y = above THEN c ELSE h[y].children
          /\ g[y].next = IF y \in P /\ above = Nil THEN c ELSE h[y].next
          /\ g[y].prev = IF y \in N /\ above = Nil THEN c ELSE h[y].prev
  BY DEF UnloadCells
<1>5. IsTop(T, x) => c \in T /\ c # Nil /\ c # x /\ c.start = x.start /\ IsTop(U, c)
  <2> SUFFICES ASSUME IsTop(T, x)
               PROVE  c \in T /\ c # Nil /\ c # x /\ c.start = x.start /\ IsTop(U, c)
    OBVIOUS
  <2>1. \E y \in T : y # x /\ y.start = x.start
    BY <1>3
  <2> QED BY <2>1, NextHead
<1>6. above # Nil => IsBelow(T, above, x) /\ above \in T /\ ~IsTop(T, x)
  <2> SUFFICES ASSUME above # Nil PROVE IsBelow(T, above, x) /\ above \in T /\ ~IsTop(T, x)
    OBVIOUS
  <2>1. above \in T /\ h[above].children = x
    BY DEF Leaves
  <2>2. IsBelow(T, above, x)
    BY <2>1, <1>1 DEF Shape, Belows
  <2>3. above = x \/ Ahead(x, above) => FALSE
    BY <2>1, <2>2, <1>1, AheadOrder DEF IsBelow, Over
  <2>4. ~IsTop(T, x)
    BY <2>1, <2>2, <2>3 DEF IsTop, IsBelow, Over
  <2> QED BY <2>1, <2>2, <2>4
<1>7. above = Nil <=> IsTop(T, x)
  BY <1>6 DEF Leaves
<1>8. \A y : IsTop(T, y) => IsTop(U, Heir(y)) /\ Heir(y).start = y.start
  <2> SUFFICES ASSUME NEW y, IsTop(T, y) PROVE IsTop(U, Heir(y)) /\ Heir(y).start = y.start
    OBVIOUS
  <2>1. CASE y = x
    BY <2>1, <1>5
  <2>2. CASE y # x
    BY <2>2 DEF IsTop
  <2> QED BY <2>1, <2>2
<1>9. \A y \in T : IsTop(T, h[y].next) /\ h[y].next.start = h[y].end =>
                      (h[y].next = x => y \in P)
  <2> SUFFICES ASSUME NEW y \in T, IsTop(T, h[y].next), h[y].next.start = h[y].end,
                      h[y].next = x
               PROVE  y \in P
    OBVIOUS
  <2>1. PICK t : IsTop(T, t) /\ t.start = y.start
    BY NilOut, TopExists DEF Shape
  <2>2. h[t].end = x.start /\ t \in T
    BY <2>1, SameEnd DEF IsTop
  <2>3. t = p
    BY <2>1, <2>2, PrevOfNext
  <2> QED BY <2>1, <2>2, <2>3, <1>1 DEF Row, Level
<1>10. \A y \in P : y \in T /\ (IsTop(T, x) => h[y].end = x.start /\ h[y].next = x)
  <2> SUFFICES ASSUME NEW y \in P
               PROVE  y \in T /\ (IsTop(T, x) => h[y].end = x.start /\ h[y].next = x)
    OBVIOUS
  <2>1. p # Nil /\ y \in T /\ y.start = p.start
    BY DEF Row, Level
  <2>2. IsTop(T, p) /\ h[p].end = x.start /\ p \in T
    BY <2>1, <1>1 DEF Shape, Prevs, IsTop
  <2>3. h[y].end = x.start /\ h[y].next = h[p].next
    BY <2>1, <2>2, SameEnd, SameNeighbours
  <2>4. IsTop(T, x) => h[p].next = x
    BY <2>2, PrevOfNext
  <2> QED BY <2>1, <2>3, <2>4
<1>11. \A y \in N : y \in T /\ (IsTop(T, x) => h[y].prev = x /\ y.start = h[x].end)
  BY NextOffs DEF Row, Level
<1>12. \A y \in T : IsTop(T, x) /\ y.start = h[x].end => y \in N
  <2> SUFFICES ASSUME NEW y \in T, IsTop(T, x), y.start = h[x].end PROVE y \in N
    OBVIOUS
  <2>1. h[x].end # z
    BY <1>1, <1>2, NameOrder DEF Shape, Ends
  <2>2. IsTop(T, n) /\ n.start = h[x].end
    BY <2>1, <1>1 DEF Shape, Nexts
  <2> QED BY <2>2, <1>1 DEF Row, Level, IsTop
<1> HIDE DEF N, P
<1>20. Ends(g, U, z)
  <2> SUFFICES ASSUME NEW a \in U
               PROVE  /\ Less(a.start, g[a].end) /\ Less(a.start, z)
                      /\ \A y \in U : Less(a.start, y.start) => ~Less(y.start, g[a].end)
                      /\ g[a].end = z \/ \E y \in U : y.start = g[a].end
    BY DEF Ends
  <2>1. /\ Less(a.start, h[a].end) /\ Less(a.start, z)
        /\ \A y \in T : Less(a.start, y.start) => ~Less(y.start, h[a].end)
        /\ h[a].end = z \/ \E y \in T : y.start = h[a].end
    BY DEF Shape, Ends
  <2>2. \A y \in T : \E w \in U : w.start = y.start
    BY <1>3
  <2> QED BY <2>1, <2>2, <1>4
<1>21. Nexts(g, U, z)
  <2> SUFFICES ASSUME NEW a \in U
               PROVE  IF g[a].end = z THEN g[a].next = Nil
                      ELSE IsTop(U, g[a].next) /\ g[a].next.start = g[a].end
    BY DEF Nexts
  <2>1. CASE a \in P /\ above = Nil
    <3>1. h[a].end = x.start /\ x.start # z
      BY <2>1, <1>1, <1>2, <1>7, <1>10, NameOrder DEF Shape, Ends
    <3>2. g[a].end = h[a].end /\ g[a].next = c
      BY <2>1, <1>4
    <3> QED BY <2>1, <3>1, <3>2, <1>5, <1>7
  <2>2. CASE ~(a \in P /\ above = Nil)
    <3>1. g[a].end = h[a].end /\ g[a].next = h[a].next
      BY <2>2, <1>4
    <3>2. CASE h[a].end = z
      BY <3>1, <3>2 DEF Shape, Nexts
    <3>3. CASE h[a].end # z
      <4>1. IsTop(T, h[a].next) /\ h[a].next.start = h[a].end
        BY <3>3 DEF Shape, Nexts
      <4>2. h[a].next # x
        BY <2>2, <4>1, <1>7, <1>9
      <4> QED BY <3>1, <3>3, <4>1, <4>2, <1>8
    <3> QED BY <3>2, <3>3
  <2> QED BY <2>1, <2>2
<1>22. Prevs(g, U)
  <2> SUFFICES ASSUME NEW a \in U
               PROVE  IF a.start = <<0>> THEN g[a].prev = Nil
                      ELSE /\ IsTop(U, g[a].prev) /\ g[g[a].prev].end = a.start
                           /\ g[a].off = Differ(g[a].prev.start, a.start)
    BY DEF Prevs
  <2>0. h[a].prev = Nil \/ a.start # <<0>>
    BY DEF Shape, Prevs
  <2>1. CASE a \in N /\ above = Nil
    <3>1. h[a].prev = x /\ a.start = h[x].end /\ IsTop(T, x)
      BY <2>1, <1>7, <1>11
    <3>2. a.start # <<0>> /\ h[a].off = Differ(x.start, a.start)
      BY <2>0, <3>1, <1>1 DEF Shape, Prevs
    <3>3. c \in U /\ c.start = x.start /\ IsTop(U, c) /\ h[c].end = h[x].end
      BY <3>1, <1>1, <1>5, SameEnd
    <3>4. g[a].prev = c /\ g[a].off = h[a].off /\ g[c].end = h[c].end
      BY <2>1, <3>3, <1>4
    <3> QED BY <3>1, <3>2, <3>3, <3>4
  <2>2. CASE ~(a \in N /\ above = Nil)
    <3>1. g[a].prev = h[a].prev /\ g[a].off = h[a].off
      BY <2>2, <1>4
    <3>2. CASE a.start = <<0>>
      BY <3>1, <3>2 DEF Shape, Prevs
    <3>3. CASE a.start # <<0>>
      <4> DEFINE q == h[a].prev
      <4>1. IsTop(T, q) /\ h[q].end = a.start /\ h[a].off = Differ(q.start, a.start) /\ q \in T
        BY <3>3 DEF Shape, Prevs, IsTop
      <4> HIDE DEF q
      <4>2. q # x
        BY <2>2, <4>1, <1>7, <1>12
      <4>3. IsTop(U, q) /\ g[q].end = h[q].end
        BY <4>1, <4>2, <1>4, <1>8
      <4> QED BY <3>1, <3>3, <4>1, <4>3 DEF q
    <3> QED BY <3>2, <3>3
  <2> QED BY <2>1, <2>2
<1>23. Belows(g, U)
  <2> SUFFICES ASSUME NEW y \in U
               PROVE  IF g[y].children = Nil THEN \A w \in U : ~Over(y, w)
                      ELSE IsBelow(U, y, g[y].children)
    BY DEF Belows
  <2>1. CASE y = above
    <3>1. g[y].children = c /\ above # Nil
      BY <2>1, <1>1, <1>4
    <3>2. IsBelow(T, above, x)
      BY <3>1, <1>6
    <3>3. \A w \in U : Over(above, w) => Over(x, w)
      BY <3>2 DEF IsBelow, Over
    <3>4. CASE c = Nil
      <4>1. \A w \in T : ~Over(x, w)
        BY <3>4, <1>1 DEF Shape, Belows
      <4> QED BY <2>1, <3>1, <3>3, <3>4, <4>1
    <3>5. CASE c # Nil
      <4>1. IsBelow(T, x, c)
        BY <3>5, <1>1 DEF Shape, Belows
      <4>2. c # x /\ c \in T /\ above \in T
        BY <2>1, <4>1, <1>1, AheadOrder DEF IsBelow, Over
      <4>3. Over(above, c)
        BY <3>2, <4>1, <4>2, <1>1, AheadOrder DEF IsBelow, Over
      <4>4. \A w \in U : Over(above, w) => w = c \/ Ahead(c, w)
        BY <3>3, <4>1 DEF IsBelow
      <4> QED BY <2>1, <3>1, <3>5, <4>2, <4>3, <4>4 DEF IsBelow
    <3> QED BY <3>4, <3>5
  <2>2. CASE y # above
    <3>1. g[y].children = h[y].children
      BY <2>2, <1>4
    <3>2. CASE h[y].children = Nil
      BY <3>1, <3>2 DEF Shape, Belows
    <3>3. CASE h[y].children # Nil
      <4> DEFINE b == h[y].children
      <4>1. IsBelow(T, y, b)
        BY <3>3 DEF Shape, Belows
      <4> HIDE DEF b
      <4>2. b # x
        <5> SUFFICES ASSUME b = x PROVE FALSE
          OBVIOUS
        <5>1. Over(y, x)
          BY <4>1 DEF IsBelow
        <5>2. CASE above = Nil
          BY <5>1, <5>2, <1>1, <1>7, AheadOrder DEF IsTop, Over
        <5>3. CASE above # Nil
          <6>1. IsBelow(T, above, x) /\ above \in T
            BY <5>3, <1>6
          <6>2. Over(above, x) /\ y.start = above.start
            BY <5>1, <6>1 DEF IsBelow, Over
          <6>3. Ahead(y, above) \/ Ahead(above, y)
            BY <2>2, <6>1, <6>2 DEF Shape, Ranked
          <6>4. Ahead(y, above) => above = x \/ Ahead(x, above)
            BY <4>1, <6>1, <6>2 DEF IsBelow, Over
          <6>5. Ahead(above, y) => y = x \/ Ahead(x, y)
            BY <6>1, <6>2 DEF IsBelow, Over
          <6> QED BY <5>1, <6>1, <6>2, <6>3, <6>4, <6>5, <1>1, AheadOrder DEF Over
        <5> QED BY <5>2, <5>3
      <4>3. IsBelow(U, y, b)
        BY <4>1, <4>2 DEF IsBelow
      <4> QED BY <3>1, <3>3, <4>3 DEF b
    <3> QED BY <3>2, <3>3
  <2> QED BY <2>1, <2>2
<1>24. Ranked(U) /\ Loose(g, U)
  BY <1>1 DEF Shape, Ranked, Loose
<1>28. Shape(g, U, z)
  BY <1>1, <1>20, <1>21, <1>22, <1>23, <1>24 DEF Shape
<1>29. \A y : IsTop(T, y) => IsTop(U, Heir(y))
  BY <1>8
<1>30. IsTop(T, x) => c.start = x.start /\ c # Nil
  BY <1>5
<1> QED BY <1>28, <1>29, <1>30

\* The tree that r is, of the nodes U.
Left(r, U, z, ok) ==
    /\ r = [heap |-> r.heap, first |-> r.first, ok |-> ok]
    /\ Shape(r.heap, U, z) /\ DOMAIN r.heap = U
    /\ IsTop(U, r.first) /\ r.first.start = <<0>>

LEMMA UnloadedIs ==
    ASSUME NEW h, NEW T, NEW z, Shape(h, T, z), NEW f, IsTop(T, f), f.start = << 0 >>, NEW ok,
           NEW x, NEW above, Leaves(h, T, x, above),
           NEW r, r = Unloaded([heap |-> h, first |-> f, ok |-> ok], x, above),
           NEW U, U = T \ {x}
    PROVE  /\ Left(r, U, z, ok)
           /\ \A y : IsTop(T, y) /\ y # x => IsTop(U, y)
<1> DEFINE t == [heap |-> h, first |-> f, ok |-> ok]
<1>1. /\ x \in T /\ T \subseteq NodeName /\ Nil \notin T
      /\ \E y \in T : y # x /\ y.start = x.start
  BY NilOut DEF Leaves, Shape
<1>2. CASE above = Nil
  <2> DEFINE g == Free(Bypassed(h, x), x)
             a == IF h[x].prev # Nil THEN f
                  ELSE IF h[x].children = Nil THEN h[x].next ELSE h[x].children
  <2>1. Unloaded(t, x, above) = [t EXCEPT !.heap = g, !.first = a]
    BY <1>2 DEF Unloaded
  <2>2. Unloaded(t, x, above) = [heap |-> g, first |-> a, ok |-> ok]
    <3> HIDE DEF g, a
    <3> QED BY <2>1
  <2>3. UnloadCells(g, h, T, x, above)
    BY <1>2, UnloadHeadIs
  <2> HIDE DEF g
  <2>4. /\ Shape(g, U, z)
        /\ \A y : IsTop(T, y) => IsTop(U, IF y = x THEN h[x].children ELSE y)
        /\ IsTop(T, x) => h[x].children.start = x.start /\ h[x].children # Nil
    BY <2>3, UnloadShape
  <2>5. DOMAIN g = U
    BY <2>3 DEF UnloadCells
  <2>6. IsTop(T, x)
    BY <1>2 DEF Leaves
  <2>7. IsTop(U, a) /\ a.start = <<0>>
    <3>1. CASE x.start = <<0>>
      <4>1. f = x
        BY <2>6, <3>1, <1>1, TopUnique
      <4>2. h[x].prev = Nil
        BY <3>1, <1>1 DEF Shape, Prevs
      <4> QED BY <4>2, <2>4, <2>6, <3>1
    <3>2. CASE x.start # <<0>>
      <4>1. h[x].prev # Nil
        BY <3>2, <1>1 DEF Shape, Prevs, IsTop
      <4>2. f # x
        BY <3>2
      <4> QED BY <4>1, <4>2, <2>4
    <3> QED BY <3>1, <3>2
  <2> HIDE DEF a
  <2>8. \A y : IsTop(T, y) /\ y # x => IsTop(U, y)
    BY <2>4
  <2>9. r.heap = g /\ r.first = a /\ r = [heap |-> g, first |-> a, ok |-> ok]
    <3>1. r = Unloaded(t, x, above)
      OBVIOUS
    <3> QED BY ONLY <2>2, <3>1
  <2> QED BY <2>4, <2>5, <2>7, <2>8, <2>9 DEF Left
<1>3. CASE above # Nil
  <2> DEFINE g == Free([h EXCEPT ![above].children = h[x].children], x)
  <2>1. Unloaded(t, x, above) = [t EXCEPT !.heap = g]
    BY <1>3 DEF Unloaded
  <2>2. Unloaded(t, x, above) = [heap |-> g, first |-> f, ok |-> ok]
    <3> HIDE DEF g
    <3> QED BY <2>1
  <2>3. UnloadCells(g, h, T, x, above)
    BY <1>3, UnloadInnerIs
  <2> HIDE DEF g
  <2>4. /\ Shape(g, U, z)
        /\ \A y : IsTop(T, y) => IsTop(U, IF y = x THEN h[x].children ELSE y)
    BY <2>3, UnloadShape
  <2>5. DOMAIN g = U
    BY <2>3 DEF UnloadCells
  <2>6. f # x
    <3>1. above \in T /\ h[above].children = x
      BY <1>3 DEF Leaves
    <3>2. IsBelow(T, above, x)
      BY <3>1, <1>1 DEF Shape, Belows
    <3>3. f = x => above = x \/ Ahead(x, above)
      BY <3>1, <3>2 DEF IsTop, IsBelow, Over
    <3>4. f # x
      BY <3>1, <3>2, <3>3, <1>1, AheadOrder DEF IsBelow, Over
    <3> QED BY <3>4
  <2>7. IsTop(U, f)
    BY <2>4, <2>6
  <2>8. \A y : IsTop(T, y) /\ y # x => IsTop(U, y)
    BY <2>4
  <2>9. r.heap = g /\ r.first = f /\ r = [heap |-> g, first |-> f, ok |-> ok]
    <3>1. r = Unloaded(t, x, above)
      OBVIOUS
    <3> QED BY ONLY <2>2, <3>1
  <2> QED BY <2>4, <2>5, <2>7, <2>8, <2>9 DEF Left
<1> QED BY <1>2, <1>3
=============================================================================

-------------------------- MODULE ApiRequestsProofs --------------------------
(***************************************************************************)
(* The request list of ApiRequests stays sound for any number of requests,  *)
(* any sessions and any depth of calls; and while no call is made inside   *)
(* another, a call waits for its request and tells what became of it.      *)
(***************************************************************************)
EXTENDS ApiRequests, TLAPS, FiniteSetTheorems, SequenceTheorems

-----------------------------------------------------------------------------
(* What the pointers lead through.                                         *)

\* The requests in the order of the list.
Chained(l, s) ==
    /\ \A i, j \in 1 .. Len(s) : s[i] = s[j] => i = j
    /\ l.requests = IF Len(s) = 0 THEN Nil ELSE s[1]
    /\ l.requestsEnd = IF Len(s) = 0 THEN Nil ELSE s[Len(s)]
    /\ \A i \in 1 .. Len(s) : l.next[s[i]] = IF i = Len(s) THEN Nil ELSE s[i + 1]

\* The request before place i.
Pred(s, i) == IF i = 1 THEN Nil ELSE s[i - 1]

Elements(s) == {s[i] : i \in 1 .. Len(s)}

Dropped(s, i) == [j \in 1 .. Len(s) - 1 |-> IF j < i THEN s[j] ELSE s[j + 1]]

ListType(l) == l \in [requests : Pointer, requestsEnd : Pointer,
                      next : [Request -> Pointer]]

Places == 0 .. Cardinality(Request)

NodeStep(n, i) == IF i = 0 THEN isp.requests
                  ELSE IF n[i - 1] = Nil THEN Nil ELSE isp.next[n[i - 1]]

NodeOf(s) == [i \in Places |-> IF i < Len(s) THEN s[i + 1] ELSE Nil]

\* There are finitely many requests, and the null pointer is none of them.
LEMMA Finite == Cardinality(Request) \in Nat /\ Nil \notin Request
BY ApiAssumption, FS_CardinalityType

\* What a sequence of requests holds.
LEMMA Members ==
    ASSUME NEW s \in Seq(Request)
    PROVE  /\ Len(s) \in Nat
           /\ \A i \in 1 .. Len(s) : s[i] \in Request /\ s[i] # Nil
           /\ Elements(s) \subseteq Request
BY Finite, LenProperties, ElementOfSeq DEF Elements

\* A non-empty set of naturals has a least element.
LEMMA LeastExists ==
    ASSUME NEW S \in SUBSET Nat, S # {}
    PROVE  \E m \in S : \A k \in S : m <= k
<1>1. PICK m \in S : \A k \in S : <<k, m>> \notin OpToRel(<, Nat)
  BY NatLessThanWellFounded, WFMin
<1>2. \A k \in S : ~(k < m)
  BY <1>1 DEF OpToRel
<1> QED BY <1>2

\* A list without duplicates is not longer than there are requests.
LEMMA Count ==
    ASSUME NEW s \in Seq(Request), NEW l, Chained(l, s)
    PROVE  Cardinality(Elements(s)) = Len(s) /\ Len(s) <= Cardinality(Request)
<1> DEFINE f == [i \in 1 .. Len(s) |-> s[i]]
<1>1. f \in Bijection(1 .. Len(s), Elements(s))
  <2>1. f \in [1 .. Len(s) -> Elements(s)]
    BY DEF Elements
  <2>2. \A i, j \in 1 .. Len(s) : f[i] = f[j] => i = j
    BY DEF Chained
  <2>3. \A x \in Elements(s) : \E i \in 1 .. Len(s) : f[i] = x
    BY DEF Elements
  <2> QED BY <2>1, <2>2, <2>3 DEF Bijection, Injection, Surjection, IsInjective
<1>2. Len(s) \in Nat /\ Elements(s) \in SUBSET Request
  BY Members
<1>3. ExistsBijection(1 .. Len(s), Elements(s))
  BY <1>1 DEF ExistsBijection
<1>4. Cardinality(Elements(s)) = Len(s)
  BY <1>2, <1>3, FS_CountingElements
<1>5. Cardinality(Elements(s)) <= Cardinality(Request)
  BY <1>2, ApiAssumption, FS_Subset
<1> QED BY <1>4, <1>5

\* The places of the list, by the step from one to the next.
LEMMA NodeDef ==
    Node = CHOOSE n : n = [i \in Places |-> NodeStep(n, i)]
BY DEF Node, NodeStep, Places

\* A function that takes these steps exists, so Node takes them.
LEMMA NodeRec ==
    ASSUME NEW n, n = [i \in Places |-> NodeStep(n, i)]
    PROVE  Node = [i \in Places |-> NodeStep(Node, i)]
BY NodeDef

\* Following the pointers from the head meets the requests in their order.
LEMMA NodeIs ==
    ASSUME NEW s \in Seq(Request), Chained(isp, s)
    PROVE  Node = NodeOf(s)
<1>1. Len(s) \in Nat /\ Cardinality(Request) \in Nat
  BY Members, Finite
<1>2. \A i \in Places : NodeStep(NodeOf(s), i) = NodeOf(s)[i]
  <2>1. TAKE i \in Places
  <2>2. CASE i = 0
    BY <1>1, <2>2 DEF NodeStep, NodeOf, Chained, Places
  <2>3. CASE i # 0 /\ i - 1 < Len(s)
    <3>1. i \in 1 .. Len(s) /\ i - 1 \in Places /\ i - 1 + 1 = i
      BY <1>1, <2>1, <2>3 DEF Places
    <3>2. NodeOf(s)[i - 1] = s[i] /\ s[i] # Nil
      BY <3>1, <2>3, Members DEF NodeOf
    <3>3. isp.next[s[i]] = IF i = Len(s) THEN Nil ELSE s[i + 1]
      BY <3>1 DEF Chained
    <3> QED BY <1>1, <2>1, <2>3, <3>1, <3>2, <3>3 DEF NodeStep, NodeOf
  <2>4. CASE i # 0 /\ ~(i - 1 < Len(s))
    <3>1. i - 1 \in Places /\ ~(i < Len(s))
      BY <1>1, <2>1, <2>4 DEF Places
    <3> QED BY <2>1, <2>4, <3>1 DEF NodeStep, NodeOf
  <2> QED BY <2>2, <2>3, <2>4
<1>3. NodeOf(s) = [i \in Places |-> NodeStep(NodeOf(s), i)]
  BY <1>2 DEF NodeOf
<1>4. Node = [i \in Places |-> NodeStep(Node, i)]
  BY <1>3, NodeRec
<1> DEFINE D == {i \in Places : Node[i] # NodeOf(s)[i]}
<1>5. CASE D = {}
  BY <1>4, <1>5 DEF NodeOf
<1>6. CASE D # {}
  <2>1. PICK m \in D : \A k \in D : m <= k
    <3>1. D \in SUBSET Nat
      BY <1>1 DEF Places
    <3> QED BY <1>6, <3>1, LeastExists
  <2>2. CASE m = 0
    BY <1>2, <1>4, <2>2 DEF NodeStep
  <2>3. CASE m # 0
    <3>1. m - 1 \in Places /\ m - 1 \notin D
      BY <1>1, <2>1, <2>3 DEF Places
    <3>2. Node[m - 1] = NodeOf(s)[m - 1]
      BY <3>1
    <3>3. NodeStep(Node, m) = NodeStep(NodeOf(s), m)
      BY <2>3, <3>2 DEF NodeStep
    <3> QED BY <1>2, <1>4, <3>3
  <2> QED BY <2>2, <2>3
<1> QED BY <1>5, <1>6

\* What the walk from the head finds is what the pointers lead through.
LEMMA ListedIs ==
    ASSUME NEW s \in Seq(Request), Chained(isp, s)
    PROVE  /\ Listed = Elements(s)
           /\ \A i, j \in DOMAIN Node : Node[i] = Node[j] /\ Node[i] # Nil => i = j
           /\ isp.requestsEnd = IF Listed = {} THEN Nil
                                ELSE Node[Cardinality(Listed) - 1]
<1>1. Len(s) \in Nat /\ Cardinality(Request) \in Nat /\ Len(s) <= Cardinality(Request)
      /\ \A i \in 1 .. Len(s) : s[i] \in Request /\ s[i] # Nil
  BY Members, Finite, Count
<1>2. Node = NodeOf(s)
  BY NodeIs
<1>3. Listed \subseteq Elements(s)
  BY <1>1, <1>2 DEF Listed, NodeOf, Places, Elements
<1>4. Elements(s) \subseteq Listed
  <2>1. SUFFICES ASSUME NEW i \in 1 .. Len(s) PROVE s[i] \in Listed
    BY DEF Elements
  <2>2. i - 1 \in Places /\ i - 1 < Len(s) /\ i - 1 + 1 = i
    BY <1>1 DEF Places
  <2>3. Node[i - 1] = s[i] /\ i - 1 \in DOMAIN Node
    BY <1>2, <2>2 DEF NodeOf
  <2> QED BY <1>1, <2>3 DEF Listed
<1>5. \A i, j \in DOMAIN Node : Node[i] = Node[j] /\ Node[i] # Nil => i = j
  <2>1. SUFFICES ASSUME NEW i \in Places, NEW j \in Places,
                        NodeOf(s)[i] = NodeOf(s)[j], NodeOf(s)[i] # Nil
                 PROVE  i = j
    BY <1>2 DEF NodeOf
  <2>2. i < Len(s) /\ j < Len(s) /\ s[i + 1] = s[j + 1]
    BY <2>1 DEF NodeOf
  <2>3. i + 1 \in 1 .. Len(s) /\ j + 1 \in 1 .. Len(s) /\ i \in Nat /\ j \in Nat
    BY <1>1, <2>2 DEF Places
  <2>4. i + 1 = j + 1
    BY <2>2, <2>3 DEF Chained
  <2> QED BY <2>3, <2>4
<1>6. CASE Len(s) = 0
  <2>1. Elements(s) = {}
    BY <1>6 DEF Elements
  <2> QED BY <1>3, <1>4, <1>5, <1>6, <2>1 DEF Chained
<1>7. CASE Len(s) # 0
  <2>1. Cardinality(Listed) = Len(s) /\ Listed = Elements(s)
    BY <1>3, <1>4, Count
  <2>2. Len(s) - 1 \in Places /\ Len(s) - 1 < Len(s) /\ Len(s) - 1 + 1 = Len(s)
    BY <1>1, <1>7 DEF Places
  <2>3. Node[Len(s) - 1] = s[Len(s)]
    BY <1>2, <2>2 DEF NodeOf
  <2>4. Listed # {}
    <3>1. 1 \in 1 .. Len(s)
      BY <1>1, <1>7
    <3> QED BY <2>1, <3>1 DEF Elements
  <2> QED BY <1>5, <1>7, <2>1, <2>3, <2>4 DEF Chained
<1> QED BY <1>6, <1>7

-----------------------------------------------------------------------------
(* Joining and leaving the list.                                           *)

\* A request joins at the end (_Api_sessAsyncSend).
LEMMA JoinChained ==
    ASSUME NEW l, ListType(l), NEW s \in Seq(Request), Chained(l, s),
           NEW r \in Request, r \notin Elements(s)
    PROVE  /\ ListType(JoinList(l, r))
           /\ Append(s, r) \in Seq(Request)
           /\ Chained(JoinList(l, r), Append(s, r))
           /\ Elements(Append(s, r)) = Elements(s) \cup {r}
<1> DEFINE t == Append(s, r)
           m == JoinList(l, r)
<1>1. /\ Len(s) \in Nat /\ \A i \in 1 .. Len(s) : s[i] \in Request /\ s[i] # Nil
      /\ \A i \in 1 .. Len(s) : s[i] # r
  BY Members DEF Elements
<1>2. /\ t \in Seq(Request) /\ Len(t) = Len(s) + 1 /\ t[Len(s) + 1] = r
      /\ \A i \in 1 .. Len(s) : t[i] = s[i]
  BY AppendProperties
<1>3. Elements(t) = Elements(s) \cup {r}
  BY <1>1, <1>2 DEF Elements
<1>4. \A i, j \in 1 .. Len(t) : t[i] = t[j] => i = j
  <2>1. SUFFICES ASSUME NEW i \in 1 .. Len(s) + 1, NEW j \in 1 .. Len(s) + 1, t[i] = t[j]
                 PROVE  i = j
    BY <1>2
  <2>2. CASE i \in 1 .. Len(s) /\ j \in 1 .. Len(s)
    BY <1>2, <2>1, <2>2 DEF Chained
  <2>3. CASE i = Len(s) + 1 \/ j = Len(s) + 1
    BY <1>1, <1>2, <2>1, <2>3
  <2> QED BY <1>1, <2>2, <2>3
<1>5. CASE Len(s) = 0
  <2>1. /\ l.requestsEnd = Nil /\ l.requests = Nil
        /\ l.next \in [Request -> Pointer]
    BY <1>5 DEF Chained, ListType
  <2>2. m = [requests |-> r, requestsEnd |-> r, next |-> [l.next EXCEPT ![r] = Nil]]
    BY <2>1 DEF JoinList
  <2>3. ListType(m)
    BY <2>1, <2>2 DEF ListType, Pointer
  <2>4. /\ m.requests = t[1] /\ m.requestsEnd = t[Len(t)]
        /\ \A i \in 1 .. Len(t) : m.next[t[i]] = Nil /\ i = Len(t)
    BY <1>2, <1>5, <2>1, <2>2
  <2>5. Chained(m, t)
    BY <1>2, <1>4, <1>5, <2>4 DEF Chained
  <2> QED BY <1>2, <1>3, <2>3, <2>5
<1>6. CASE Len(s) # 0
  <2> DEFINE last == s[Len(s)]
  <2>1. /\ Len(s) \in 1 .. Len(s) /\ last \in Request /\ last # Nil /\ last # r
        /\ l.requestsEnd = last /\ l.requests = s[1] /\ l.next[last] = Nil
        /\ l.next \in [Request -> Pointer]
    BY <1>1, <1>6 DEF Chained, ListType
  <2>2. m = [l EXCEPT !.requestsEnd = r, !.next[r] = Nil, !.next[last] = r]
    BY <2>1 DEF JoinList
  <2>3. /\ m.requests = l.requests /\ m.requestsEnd = r
        /\ m.next = [[l.next EXCEPT ![r] = Nil] EXCEPT ![last] = r]
        /\ ListType(m)
    <3> DEFINE f == [[l.next EXCEPT ![r] = Nil] EXCEPT ![last] = r]
               k == [requests |-> l.requests, requestsEnd |-> r, next |-> f]
    <3>1. l = [requests |-> l.requests, requestsEnd |-> l.requestsEnd, next |-> l.next]
      BY DEF ListType
    <3>2. m = k
      BY <2>1, <2>2, <3>1
    <3>3. f \in [Request -> Pointer] /\ l.requests \in Pointer /\ r \in Pointer
      BY <2>1 DEF ListType, Pointer
    <3>4. ListType(k)
      BY <3>3 DEF ListType
    <3> QED BY <3>2, <3>4
  <2>4. \A i \in 1 .. Len(t) : m.next[t[i]] = IF i = Len(t) THEN Nil ELSE t[i + 1]
    <3>1. SUFFICES ASSUME NEW i \in 1 .. Len(s) + 1
                   PROVE  m.next[t[i]] = IF i = Len(s) + 1 THEN Nil ELSE t[i + 1]
      BY <1>2
    <3>2. CASE i = Len(s) + 1
      BY <1>2, <2>1, <2>3, <3>2
    <3>3. CASE i = Len(s)
      BY <1>1, <1>2, <2>1, <2>3, <3>3
    <3>4. CASE i < Len(s)
      <4>1. i \in 1 .. Len(s) /\ i + 1 \in 1 .. Len(s) /\ i # Len(s) /\ i # Len(s) + 1
        BY <1>1, <3>4
      <4>2. s[i] # last /\ s[i] # r /\ s[i] \in Request
        BY <1>1, <2>1, <4>1 DEF Chained
      <4>3. m.next[s[i]] = l.next[s[i]] /\ l.next[s[i]] = s[i + 1]
        BY <2>1, <2>3, <4>1, <4>2 DEF Chained
      <4> QED BY <1>2, <4>1, <4>3
    <3> QED BY <1>1, <3>1, <3>2, <3>3, <3>4
  <2>5. m.requests = t[1] /\ m.requestsEnd = t[Len(t)] /\ Len(t) # 0
    <3>1. 1 \in 1 .. Len(s)
      BY <1>1, <1>6
    <3> QED BY <1>1, <1>2, <2>1, <2>3, <3>1
  <2>6. Chained(m, t)
    BY <1>4, <2>4, <2>5 DEF Chained
  <2> QED BY <1>2, <1>3, <2>3, <2>6
<1> QED BY <1>5, <1>6

\* What is left of a sequence without one of its places.
LEMMA DroppedElements ==
    ASSUME NEW l, NEW s \in Seq(Request), Chained(l, s), NEW i \in 1 .. Len(s)
    PROVE  /\ Dropped(s, i) \in Seq(Request)
           /\ Len(Dropped(s, i)) = Len(s) - 1
           /\ \A j \in 1 .. Len(s) - 1 :
                 Dropped(s, i)[j] = IF j < i THEN s[j] ELSE s[j + 1]
           /\ Elements(Dropped(s, i)) = Elements(s) \ {s[i]}
<1> DEFINE t == Dropped(s, i)
<1>1. Len(s) \in Nat /\ \A j \in 1 .. Len(s) : s[j] \in Request
  BY Members
<1>2. /\ Len(s) - 1 \in Nat /\ \A j \in 1 .. Len(s) - 1 : j \in 1 .. Len(s) /\ j + 1 \in 1 .. Len(s)
      /\ \A j \in 1 .. Len(s) - 1 : t[j] = IF j < i THEN s[j] ELSE s[j + 1]
  BY <1>1 DEF Dropped
<1>3. t \in [1 .. Len(s) - 1 -> Request]
  BY <1>1, <1>2 DEF Dropped
<1>4. t \in Seq(Request) /\ Len(t) = Len(s) - 1
  BY <1>2, <1>3, SeqDef, LenProperties
<1>5. Elements(t) \subseteq Elements(s) \ {s[i]}
  <2>1. SUFFICES ASSUME NEW j \in 1 .. Len(s) - 1 PROVE t[j] \in Elements(s) \ {s[i]}
    BY <1>4 DEF Elements
  <2>2. j \in 1 .. Len(s) /\ j + 1 \in 1 .. Len(s)
    BY <1>2
  <2>3. CASE j < i
    BY <1>2, <2>2, <2>3 DEF Elements, Chained
  <2>4. CASE ~(j < i)
    BY <1>1, <1>2, <2>2, <2>4 DEF Elements, Chained
  <2> QED BY <2>3, <2>4
<1>6. Elements(s) \ {s[i]} \subseteq Elements(t)
  <2>1. SUFFICES ASSUME NEW j \in 1 .. Len(s), j # i PROVE s[j] \in Elements(t)
    BY DEF Elements
  <2>2. CASE j < i
    BY <1>1, <1>2, <1>4, <2>1, <2>2 DEF Elements
  <2>3. CASE i < j
    <3>1. j - 1 \in 1 .. Len(s) - 1 /\ ~(j - 1 < i) /\ j - 1 + 1 = j
      BY <1>1, <2>1, <2>3
    <3> QED BY <1>2, <1>4, <3>1 DEF Elements
  <2> QED BY <1>1, <2>1, <2>2, <2>3
<1> QED BY <1>2, <1>4, <1>5, <1>6

\* Unlinking with the request before, or none, drops just that one.
LEMMA UnlinkChained ==
    ASSUME NEW l, ListType(l), NEW s \in Seq(Request), Chained(l, s), NEW i \in 1 .. Len(s)
    PROVE  /\ ListType(Unlink(l, s[i], Pred(s, i)))
           /\ Chained(Unlink(l, s[i], Pred(s, i)), Dropped(s, i))
<1> DEFINE t == Dropped(s, i)
           m == Unlink(l, s[i], Pred(s, i))
           n == Len(s)
<1>1. /\ n \in Nat \ {0} /\ \A j \in 1 .. n : s[j] \in Request /\ s[j] # Nil
      /\ 1 \in 1 .. n /\ n \in 1 .. n
  BY Members
<1>2. /\ Len(t) = n - 1
      /\ \A j \in 1 .. n - 1 : t[j] = IF j < i THEN s[j] ELSE s[j + 1]
  BY DroppedElements
<1>3. /\ l.requests = s[1] /\ l.requestsEnd = s[n] /\ l.next \in [Request -> Pointer]
      /\ l.requests \in Pointer /\ l.requestsEnd \in Pointer
      /\ \A j, k \in 1 .. n : s[j] = s[k] => j = k
      /\ \A j \in 1 .. n : l.next[s[j]] = IF j = n THEN Nil ELSE s[j + 1]
  BY <1>1 DEF Chained, ListType
<1>4. Pred(s, i) = Nil <=> i = 1
  BY <1>1 DEF Pred
<1>5. i # 1 => i - 1 \in 1 .. n /\ Pred(s, i) = s[i - 1] /\ Pred(s, i) \in Request
  BY <1>1 DEF Pred
<1>6. l.requestsEnd = s[i] <=> i = n
  BY <1>1, <1>3
<1>7. m.requestsEnd = IF i = n THEN Pred(s, i) ELSE s[n]
  BY <1>3, <1>4, <1>6 DEF Unlink, ListType
<1>8. m.requests = IF i = 1 THEN l.next[s[1]] ELSE s[1]
  BY <1>3, <1>4 DEF Unlink, ListType
<1>9. m.next = IF i = 1 THEN l.next ELSE [l.next EXCEPT ![s[i - 1]] = l.next[s[i]]]
  BY <1>3, <1>4, <1>5 DEF Unlink, ListType
<1>10. ListType(m)
  <2>1. l.next[s[i]] \in Pointer /\ Pred(s, i) \in Pointer
    BY <1>1, <1>3, <1>4, <1>5 DEF Pointer
  <2> QED BY <1>1, <1>3, <1>4, <1>5, <2>1 DEF Unlink, ListType
<1>11. \A j, k \in 1 .. n - 1 : t[j] = t[k] => j = k
  <2>1. SUFFICES ASSUME NEW j \in 1 .. n - 1, NEW k \in 1 .. n - 1, t[j] = t[k]
                 PROVE  j = k
    OBVIOUS
  <2>2. j \in 1 .. n /\ k \in 1 .. n /\ j + 1 \in 1 .. n /\ k + 1 \in 1 .. n
    BY <1>1
  <2>3. CASE j < i /\ k < i
    BY <1>2, <1>3, <2>1, <2>2, <2>3
  <2>4. CASE j < i /\ ~(k < i)
    BY <1>2, <1>3, <2>1, <2>2, <2>4
  <2>5. CASE ~(j < i) /\ k < i
    BY <1>2, <1>3, <2>1, <2>2, <2>5
  <2>6. CASE ~(j < i) /\ ~(k < i)
    BY <1>2, <1>3, <2>1, <2>2, <2>6
  <2> QED BY <2>3, <2>4, <2>5, <2>6
<1>12. m.requests = IF n - 1 = 0 THEN Nil ELSE t[1]
  <2>1. CASE i = 1
    BY <1>1, <1>2, <1>3, <1>8, <2>1
  <2>2. CASE i # 1
    BY <1>1, <1>2, <1>8, <2>2
  <2> QED BY <2>1, <2>2
<1>13. m.requestsEnd = IF n - 1 = 0 THEN Nil ELSE t[n - 1]
  <2>1. CASE i = n
    BY <1>1, <1>2, <1>4, <1>5, <1>7, <2>1
  <2>2. CASE i # n
    BY <1>1, <1>2, <1>7, <2>2
  <2> QED BY <2>1, <2>2
<1>14. \A j \in 1 .. n - 1 : m.next[t[j]] = IF j = n - 1 THEN Nil ELSE t[j + 1]
  <2>1. SUFFICES ASSUME NEW j \in 1 .. n - 1
                 PROVE  m.next[t[j]] = IF j = n - 1 THEN Nil ELSE t[j + 1]
    OBVIOUS
  <2>2. j \in 1 .. n /\ j + 1 \in 1 .. n /\ j # n
    BY <1>1
  <2>3. CASE ~(j < i)
    <3>1. t[j] = s[j + 1] /\ s[j + 1] \in Request
      BY <1>1, <1>2, <2>2, <2>3
    <3>2. i # 1 => s[j + 1] # s[i - 1]
      BY <1>3, <1>5, <2>2, <2>3
    <3>3. m.next[t[j]] = l.next[s[j + 1]]
      BY <1>3, <1>5, <1>9, <3>1, <3>2
    <3>4. CASE j = n - 1
      BY <1>1, <1>3, <2>2, <3>3, <3>4
    <3>5. CASE j # n - 1
      <4>1. j + 1 \in 1 .. n - 1 /\ ~(j + 1 < i) /\ j + 1 # n
        BY <1>1, <2>2, <2>3, <3>5
      <4>2. t[j + 1] = s[j + 1 + 1]
        BY <1>2, <4>1
      <4> QED BY <1>3, <2>2, <3>3, <3>5, <4>1, <4>2
    <3> QED BY <3>4, <3>5
  <2>4. CASE j < i - 1
    <3>1. /\ j < i /\ j + 1 < i /\ i # 1 /\ j # n - 1 /\ j + 1 \in 1 .. n - 1 /\ j # i - 1
      BY <1>1, <2>2, <2>4
    <3>2. t[j] = s[j] /\ t[j + 1] = s[j + 1] /\ s[j] \in Request
      BY <1>1, <1>2, <2>2, <3>1
    <3>3. s[j] # s[i - 1]
      BY <1>3, <1>5, <2>2, <3>1
    <3>4. m.next[s[j]] = l.next[s[j]]
      BY <1>3, <1>5, <1>9, <3>1, <3>2, <3>3
    <3> QED BY <1>3, <2>2, <3>1, <3>2, <3>4
  <2>5. CASE j = i - 1
    <3>1. j < i /\ i # 1
      BY <1>1, <2>2, <2>5
    <3>2. t[j] = s[i - 1] /\ s[i - 1] \in Request
      BY <1>1, <1>2, <1>5, <2>5, <3>1
    <3>3. m.next[t[j]] = l.next[s[i]]
      BY <1>3, <1>9, <3>1, <3>2
    <3>4. l.next[s[i]] = IF i = n THEN Nil ELSE s[i + 1]
      BY <1>3
    <3>5. i # n => j + 1 \in 1 .. n - 1 /\ j + 1 = i /\ t[i] = s[i + 1]
      BY <1>1, <1>2, <2>5
    <3> QED BY <1>1, <2>5, <3>3, <3>4, <3>5
  <2> QED BY <1>1, <2>3, <2>4, <2>5
<1>15. Chained(m, t)
  BY <1>1, <1>2, <1>11, <1>12, <1>13, <1>14 DEF Chained
<1> QED BY <1>10, <1>15

\* The walk of _Api_sessProcessPacket finds the request before its own.
LEMMA BeforeIs ==
    ASSUME NEW s \in Seq(Request), Chained(isp, s), NEW i \in 1 .. Len(s)
    PROVE  Before(s[i]) = Pred(s, i)
<1>1. /\ Len(s) \in Nat \ {0} /\ \A j \in 1 .. Len(s) : s[j] \in Request /\ s[j] # Nil
      /\ 1 \in 1 .. Len(s)
  BY Members
<1>2. isp.requests = s[1]
  BY <1>1 DEF Chained
<1>3. CASE i = 1
  BY <1>2, <1>3 DEF Before, Pred
<1>4. CASE i # 1
  <2>1. i - 1 \in 1 .. Len(s) /\ i - 1 # Len(s) /\ i - 1 + 1 = i
    BY <1>1, <1>4
  <2>2. isp.requests # s[i]
    BY <1>1, <1>2, <1>4 DEF Chained
  <2>3. Listed = Elements(s)
    BY ListedIs
  <2>4. s[i - 1] \in Listed /\ isp.next[s[i - 1]] = s[i]
    BY <2>1, <2>3 DEF Elements, Chained
  <2>5. \A x \in Listed : isp.next[x] = s[i] => x = s[i - 1]
    <3>1. SUFFICES ASSUME NEW j \in 1 .. Len(s), isp.next[s[j]] = s[i]
                   PROVE  s[j] = s[i - 1]
      BY <2>3 DEF Elements
    <3>2. j # Len(s) /\ s[j + 1] = s[i]
      BY <1>1, <3>1 DEF Chained
    <3>3. j + 1 \in 1 .. Len(s)
      BY <1>1, <3>2
    <3>4. j + 1 = i
      BY <3>2, <3>3 DEF Chained
    <3> QED BY <3>4
  <2>6. Before(s[i]) = s[i - 1]
    BY <2>2, <2>4, <2>5 DEF Before
  <2> QED BY <1>4, <2>6 DEF Pred
<1> QED BY <1>3, <1>4

-----------------------------------------------------------------------------
(* The invariant of the list, for any depth of calls.                      *)

\* s is the list, and a walk is at one of its places.
InList(s) ==
    /\ Chained(isp, s)
    /\ Elements(s) = Outstanding
    /\ walk # NoWalk => \E i \in 1 .. Len(s) : walk = [rp |-> s[i], orp |-> Pred(s, i)]

FieldTypes ==
    /\ sp \in Sessions
    /\ ListType(isp)
    /\ kind \in [Request -> {"none", "async", "sync"}]
    /\ retries \in [Request -> Nat]
    /\ unsent \in SUBSET Request
    /\ outcome \in [Request -> Outcome]
    /\ session \in {"open", "broken", "gone"}

CallTypes ==
    /\ calls \in Seq(Request) /\ waiting \in SUBSET Request
    /\ status \in [Request -> {"none", "success", "timeout", "error"}]

NewUntold == \A r \in Request : kind[r] = "none" => outcome[r] = "none"

ListInv ==
    /\ FieldTypes
    /\ NewUntold
    /\ expired \subseteq Outstanding
    /\ walk # NoWalk => session = "open"
    /\ RetryBudget
    /\ \E s \in Seq(Request) : InList(s)

\* Every session has a number of retries.
LEMMA RetriesType ==
    ASSUME FieldTypes PROVE MaxRetries \in Nat
BY ApiAssumption DEF FieldTypes, MaxRetries

\* The list holds what is outstanding.
LEMMA ListedOutstanding ==
    ASSUME ListInv PROVE Listed = Outstanding
BY ListedIs DEF ListInv, InList

\* The current request of a walk, and what comes after it.
LEMMA WalkFacts ==
    ASSUME ListInv, walk # NoWalk
    PROVE  \E s \in Seq(Request) : \E i \in 1 .. Len(s) :
              /\ InList(s)
              /\ walk = [rp |-> s[i], orp |-> Pred(s, i)]
              /\ s[i] \in Request /\ s[i] # Nil /\ s[i] \in Outstanding
              /\ isp.next[s[i]] = IF i = Len(s) THEN Nil ELSE s[i + 1]
              /\ i # Len(s) => i + 1 \in 1 .. Len(s) /\ s[i + 1] # Nil
<1>1. PICK s \in Seq(Request) : InList(s)
  BY DEF ListInv
<1>2. PICK i \in 1 .. Len(s) : walk = [rp |-> s[i], orp |-> Pred(s, i)]
  BY <1>1 DEF InList
<1>3. /\ Len(s) \in Nat /\ \A j \in 1 .. Len(s) : s[j] \in Request /\ s[j] # Nil
  BY Members
<1>4. s[i] \in Outstanding /\ isp.next[s[i]] = IF i = Len(s) THEN Nil ELSE s[i + 1]
  BY <1>1 DEF InList, Chained, Elements
<1>5. i # Len(s) => i + 1 \in 1 .. Len(s)
  BY <1>3
<1> QED BY <1>1, <1>2, <1>3, <1>4, <1>5

\* A request that was sent joins, one that was not is told so.
LEMMA SentKeeps ==
    ASSUME ListInv, NEW r \in Request, NEW as \in {"async", "sync"},
           NEW ok \in BOOLEAN, walk = NoWalk, Sent(r, as, ok)
    PROVE  ListInv'
<1>1. PICK s \in Seq(Request) : InList(s)
  BY DEF ListInv
<1>2. /\ kind[r] = "none" /\ outcome[r] = "none" /\ r \notin Outstanding
      /\ kind' = [kind EXCEPT ![r] = as] /\ kind'[r] = as
      /\ \A q \in Request : q # r => kind'[q] = kind[q]
      /\ UNCHANGED <<sp, retries, unsent, expired, walk, session>>
  BY DEF Sent, ListInv, NewUntold, FieldTypes, Outstanding
<1>3. (expired \subseteq Outstanding)' /\ RetryBudget' /\ FieldTypes' /\ NewUntold' /\ walk' = NoWalk
      /\ \E t \in Seq(Request) : InList(t)'
  <2>1. CASE ok
    <3>1. outcome' = outcome /\ isp' = JoinList(isp, r)
      BY <2>1 DEF Sent
    <3>2. Outstanding' = Outstanding \cup {r}
      BY <1>2, <3>1 DEF Outstanding
    <3>3. /\ ListType(isp') /\ Append(s, r) \in Seq(Request)
          /\ Chained(isp', Append(s, r)) /\ Elements(Append(s, r)) = Outstanding'
      BY <1>1, <1>2, <3>1, <3>2, JoinChained DEF InList, ListInv, FieldTypes
    <3>4. InList(Append(s, r))'
      BY <1>2, <3>3 DEF InList, NoWalk
    <3>5. FieldTypes'
      BY <1>2, <3>1, <3>3 DEF ListInv, FieldTypes
    <3>6. RetryBudget' /\ NewUntold'
      BY <1>2, <3>1 DEF ListInv, NewUntold, RetryBudget, MaxRetries
    <3> QED BY <1>2, <3>2, <3>3, <3>4, <3>5, <3>6 DEF ListInv, NoWalk
  <2>2. CASE ~ok
    <3>1. outcome' = [outcome EXCEPT ![r] = "failed"] /\ isp' = isp
      BY <1>2, <2>2 DEF Sent, Told
    <3>2. Outstanding' = Outstanding
      BY <1>2, <3>1 DEF Outstanding, ListInv, FieldTypes
    <3>3. FieldTypes'
      BY <1>2, <3>1 DEF ListInv, FieldTypes, Outcome
    <3>4. RetryBudget' /\ NewUntold'
      BY <1>2, <3>1 DEF ListInv, FieldTypes, NewUntold, RetryBudget, MaxRetries
    <3>5. InList(s)'
      BY <1>1, <1>2, <3>1, <3>2 DEF InList, NoWalk
    <3> QED BY <1>2, <3>2, <3>3, <3>4, <3>5 DEF ListInv, NoWalk
  <2> QED BY <2>1, <2>2
<1> QED BY <1>2, <1>3 DEF ListInv

\* What a transmission leaves of the list.
LEMMA ResendKeeps ==
    ASSUME ListInv, NEW r \in Request, r \in Outstanding, NEW ok \in BOOLEAN, Resend(r, ok),
           retries[r] <= MaxRetries,
           UNCHANGED <<sp, kind, session>>
    PROVE  /\ FieldTypes' /\ NewUntold' /\ RetryBudget'
           /\ Outstanding' = Outstanding /\ (expired \subseteq Outstanding)'
<1>1. /\ UNCHANGED <<isp, outcome>> /\ retries' = [retries EXCEPT ![r] = @ + 1]
      /\ expired' \subseteq expired /\ unsent' \in SUBSET Request
  BY DEF Resend, ListInv, FieldTypes
<1>2. Outstanding' = Outstanding
  BY <1>1 DEF Outstanding
<1>3. FieldTypes' /\ NewUntold'
  BY <1>1 DEF ListInv, FieldTypes, NewUntold
<1>4. RetryBudget'
  <2>1. MaxRetries \in Nat /\ MaxRetries' = MaxRetries /\ retries \in [Request -> Nat]
    BY RetriesType DEF ListInv, FieldTypes, MaxRetries
  <2>2. retries'[r] = retries[r] + 1 /\ \A q \in Request : q # r => retries'[q] = retries[q]
    BY <1>1, <2>1
  <2>3. outcome[r] # "timedOut" /\ outcome' = outcome
    BY <1>1 DEF Outstanding
  <2> QED BY <2>1, <2>2, <2>3 DEF RetryBudget, ListInv
<1> QED BY <1>1, <1>2, <1>3, <1>4 DEF ListInv

\* The list stays when neither it nor what is outstanding changes, and the
\* walk ends, begins at the head or goes on.
LEMMA ListStays ==
    ASSUME ListInv, NEW s \in Seq(Request), InList(s), Outstanding' = Outstanding,
           isp' = isp,
           walk' = NoWalk \/ \E i \in 1 .. Len(s) : walk' = [rp |-> s[i], orp |-> Pred(s, i)]
    PROVE  InList(s)'
BY DEF InList

\* A report that restarts a request leaves the list alone.
LEMMA RetryOnReportKeeps ==
    ASSUME ListInv, NEW r \in Request, RetryOnReport(r)
    PROVE  ListInv'
<1>1. PICK s \in Seq(Request) : InList(s)
  BY DEF ListInv
<1>2. /\ walk = NoWalk /\ walk' = walk /\ r \in Outstanding /\ retries[r] <= MaxRetries
      /\ UNCHANGED <<sp, kind, session>>
  BY ListedOutstanding DEF RetryOnReport, Looping, Matches, ReportRetries
<1>3. PICK ok \in BOOLEAN : Resend(r, ok)
  BY DEF RetryOnReport, SendOutcomes
<1>4. isp' = isp
  BY <1>3 DEF Resend
<1>5. FieldTypes' /\ NewUntold' /\ RetryBudget' /\ Outstanding' = Outstanding
      /\ (expired \subseteq Outstanding)'
  BY <1>2, <1>3, ResendKeeps
<1>6. InList(s)'
  BY <1>1, <1>2, <1>4, <1>5, ListStays
<1> QED BY <1>2, <1>5, <1>6 DEF ListInv

\* Steps that leave the list and what is known of its requests alone.
LEMMA QuietKeeps ==
    ASSUME ListInv, NEW s \in Seq(Request), InList(s),
           UNCHANGED <<sp, isp, retries, unsent, outcome, kind>>,
           expired' \subseteq Outstanding,
           session' = session \/ (session' = "broken" /\ session = "open"),
           walk' # NoWalk => session' = "open",
           walk' = NoWalk \/ \E i \in 1 .. Len(s) : walk' = [rp |-> s[i], orp |-> Pred(s, i)]
    PROVE  ListInv'
<1>1. Outstanding' = Outstanding
  BY DEF Outstanding
<1>2. InList(s)'
  BY <1>1, ListStays
<1>3. FieldTypes' /\ NewUntold' /\ RetryBudget'
  BY DEF ListInv, FieldTypes, NewUntold, RetryBudget, MaxRetries
<1> QED BY <1>1, <1>2, <1>3 DEF ListInv

\* So do a return, a disconnect and the passing of time.
LEMMA IdleKeeps ==
    ASSUME ListInv, Return \/ Disconnect \/ (\E r \in Request : Expire(r))
    PROVE  ListInv'
<1>1. PICK s \in Seq(Request) : InList(s)
  BY DEF ListInv
<1>2. /\ walk' = NoWalk /\ UNCHANGED <<sp, isp, retries, unsent, outcome, kind>>
      /\ session' = session \/ (session' = "broken" /\ session = "open")
  BY DEF Return, Disconnect, Expire, Looping, listVars, callVars
<1>3. expired' \subseteq Outstanding
  BY ListedOutstanding DEF Return, Disconnect, Expire, ListInv, listVars, callVars
<1> QED BY <1>1, <1>2, <1>3, QuietKeeps

\* A walk begins at the head of the list.
LEMMA SessTimeoutKeeps ==
    ASSUME ListInv, SessTimeout
    PROVE  ListInv'
<1>1. PICK s \in Seq(Request) : InList(s)
  BY DEF ListInv
<1>2. /\ UNCHANGED <<sp, isp, retries, unsent, outcome, kind, expired, session>>
      /\ session = "open" /\ walk' = [rp |-> isp.requests, orp |-> Nil] /\ Listed # {}
  BY DEF SessTimeout, listVars
<1>3. /\ Listed = Elements(s) /\ Len(s) \in Nat
  BY <1>1, ListedIs, LenProperties DEF InList
<1>4. 1 \in 1 .. Len(s)
  BY <1>2, <1>3 DEF Elements
<1>5. walk' = [rp |-> s[1], orp |-> Pred(s, 1)]
  BY <1>1, <1>2, <1>3, <1>4 DEF InList, Chained, Pred
<1> QED BY <1>1, <1>2, <1>4, <1>5, QuietKeeps DEF ListInv

\* Where a walk goes that stays on the list.
LEMMA WalkOnPlaces ==
    ASSUME NEW s \in Seq(Request), NEW i \in 1 .. Len(s), Chained(isp, s), WalkOn(s[i], s[i])
    PROVE  walk' = NoWalk \/ \E j \in 1 .. Len(s) : walk' = [rp |-> s[j], orp |-> Pred(s, j)]
<1>1. Len(s) \in Nat /\ \A j \in 1 .. Len(s) : s[j] # Nil
  BY Members
<1>2. isp.next[s[i]] = IF i = Len(s) THEN Nil ELSE s[i + 1]
  BY DEF Chained
<1>3. CASE i = Len(s)
  BY <1>2, <1>3 DEF WalkOn
<1>4. CASE i # Len(s)
  <2>1. i + 1 \in 1 .. Len(s) /\ Pred(s, i + 1) = s[i]
    BY <1>1, <1>4 DEF Pred
  <2>2. walk' = [rp |-> s[i + 1], orp |-> s[i]]
    BY <1>1, <1>2, <1>4, <2>1 DEF WalkOn
  <2> QED BY <2>1, <2>2
<1> QED BY <1>3, <1>4

\* A request whose time has not come is remembered as orp.
LEMMA SkipFreshKeeps ==
    ASSUME ListInv, SkipFresh
    PROVE  ListInv'
<1>1. walk # NoWalk /\ session = "open"
      /\ UNCHANGED <<sp, isp, retries, unsent, outcome, kind, expired, session>>
      /\ WalkOn(walk.rp, walk.rp)
  BY DEF SkipFresh, ListInv, listVars
<1>2. PICK s \in Seq(Request) : \E i \in 1 .. Len(s) :
          InList(s) /\ walk = [rp |-> s[i], orp |-> Pred(s, i)]
  BY <1>1, WalkFacts
<1>3. PICK i \in 1 .. Len(s) : InList(s) /\ walk = [rp |-> s[i], orp |-> Pred(s, i)]
  BY <1>2
<1>4. walk' = NoWalk \/ \E j \in 1 .. Len(s) : walk' = [rp |-> s[j], orp |-> Pred(s, j)]
  BY <1>1, <1>3, WalkOnPlaces DEF InList
<1> QED BY <1>1, <1>3, <1>4, QuietKeeps DEF ListInv

\* So is one that was resent; a failure ends the walk.
LEMMA RetryExpiredKeeps ==
    ASSUME ListInv, RetryExpired
    PROVE  ListInv'
<1>1. /\ walk # NoWalk /\ session = "open" /\ retries[walk.rp] < MaxRetries
      /\ UNCHANGED <<sp, kind, session>>
  BY DEF RetryExpired, ListInv
<1>2. PICK s \in Seq(Request) : \E i \in 1 .. Len(s) :
          /\ InList(s) /\ walk = [rp |-> s[i], orp |-> Pred(s, i)]
          /\ s[i] \in Request /\ s[i] \in Outstanding
  BY <1>1, WalkFacts
<1>3. PICK i \in 1 .. Len(s) :
          /\ InList(s) /\ walk = [rp |-> s[i], orp |-> Pred(s, i)]
          /\ s[i] \in Request /\ s[i] \in Outstanding
  BY <1>2
<1>4. PICK ok \in BOOLEAN :
          Resend(s[i], ok) /\ IF ok THEN WalkOn(s[i], s[i]) ELSE walk' = NoWalk
  BY <1>3 DEF RetryExpired, SendOutcomes
<1>5. isp' = isp /\ retries[s[i]] <= MaxRetries
  <2>1. MaxRetries \in Nat /\ retries[s[i]] \in Nat
    BY <1>3, RetriesType DEF ListInv, FieldTypes
  <2> QED BY <1>1, <1>3, <1>4, <2>1 DEF Resend
<1>6. walk' = NoWalk \/ \E j \in 1 .. Len(s) : walk' = [rp |-> s[j], orp |-> Pred(s, j)]
  BY <1>3, <1>4, WalkOnPlaces DEF InList
<1>7. FieldTypes' /\ NewUntold' /\ RetryBudget' /\ Outstanding' = Outstanding
      /\ (expired \subseteq Outstanding)'
  BY <1>1, <1>3, <1>4, <1>5, ResendKeeps
<1>8. InList(s)'
  BY <1>3, <1>5, <1>6, <1>7, ListStays
<1> QED BY <1>1, <1>7, <1>8 DEF ListInv

\* What the end of an outstanding request leaves of the list.
LEMMA UnlinkKeeps ==
    ASSUME ListInv, NEW s \in Seq(Request), InList(s), NEW i \in 1 .. Len(s), NEW how,
           how \in Outcome \ {"none"},
           how = "timedOut" => retries[s[i]] >= MaxRetries,
           outcome' = Told(s[i], how), expired' = expired \ {s[i]},
           isp' = Unlink(isp, s[i], Pred(s, i)),
           UNCHANGED <<sp, kind, retries, unsent, session>>,
           walk' = NoWalk
             \/ \E j \in 1 .. Len(Dropped(s, i)) :
                  walk' = [rp |-> Dropped(s, i)[j], orp |-> Pred(Dropped(s, i), j)],
           walk' # NoWalk => session = "open"
    PROVE  ListInv'
<1> DEFINE r == s[i]
<1>1. r \in Request /\ r \in Outstanding /\ Chained(isp, s) /\ Elements(s) = Outstanding
  BY Members DEF InList, Elements
<1>2. outcome[r] = "none" /\ kind[r] # "none" /\ outcome \in [Request -> Outcome]
  BY <1>1 DEF Outstanding, ListInv, FieldTypes
<1>3. outcome' = [outcome EXCEPT ![r] = how]
  BY <1>2 DEF Told
<1>4. Outstanding' = Outstanding \ {r}
  BY <1>1, <1>2, <1>3 DEF Outstanding
<1>5. /\ ListType(isp') /\ Chained(isp', Dropped(s, i))
      /\ Dropped(s, i) \in Seq(Request) /\ Elements(Dropped(s, i)) = Outstanding'
  BY <1>1, <1>4, UnlinkChained, DroppedElements DEF ListInv, FieldTypes
<1>6. InList(Dropped(s, i))'
  BY <1>5 DEF InList
<1>7. FieldTypes' /\ NewUntold'
  BY <1>2, <1>3, <1>5 DEF ListInv, FieldTypes, NewUntold
<1>8. RetryBudget'
  BY <1>2, <1>3 DEF ListInv, RetryBudget, MaxRetries
<1>9. (expired \subseteq Outstanding)'
  BY <1>4 DEF ListInv
<1> QED BY <1>5, <1>6, <1>7, <1>8, <1>9 DEF ListInv

\* After a request is freed the walk goes on with the same orp.
LEMMA GiveUpKeeps ==
    ASSUME ListInv, GiveUp
    PROVE  ListInv'
<1>1. /\ walk # NoWalk /\ session = "open" /\ retries[walk.rp] \geq MaxRetries
      /\ UNCHANGED <<sp, kind, retries, unsent, session>>
      /\ outcome' = Told(walk.rp, "timedOut")
      /\ expired' = expired \ {walk.rp}
      /\ isp' = Unlink(isp, walk.rp, walk.orp)
      /\ WalkOn(walk.rp, walk.orp)
  BY DEF GiveUp, ListInv
<1>2. PICK s \in Seq(Request) : \E i \in 1 .. Len(s) :
          /\ InList(s) /\ walk = [rp |-> s[i], orp |-> Pred(s, i)]
          /\ isp.next[s[i]] = IF i = Len(s) THEN Nil ELSE s[i + 1]
          /\ i # Len(s) => i + 1 \in 1 .. Len(s) /\ s[i + 1] # Nil
  BY <1>1, WalkFacts
<1>3. PICK i \in 1 .. Len(s) :
          /\ InList(s) /\ walk = [rp |-> s[i], orp |-> Pred(s, i)]
          /\ isp.next[s[i]] = IF i = Len(s) THEN Nil ELSE s[i + 1]
          /\ i # Len(s) => i + 1 \in 1 .. Len(s) /\ s[i + 1] # Nil
  BY <1>2
<1>4. /\ Len(s) \in Nat /\ Len(Dropped(s, i)) = Len(s) - 1
      /\ \A j \in 1 .. Len(s) - 1 :
            Dropped(s, i)[j] = IF j < i THEN s[j] ELSE s[j + 1]
  BY <1>3, DroppedElements, LenProperties DEF InList
<1>5. walk' = NoWalk
        \/ \E j \in 1 .. Len(Dropped(s, i)) :
             walk' = [rp |-> Dropped(s, i)[j], orp |-> Pred(Dropped(s, i), j)]
  <2>1. CASE i = Len(s)
    BY <1>1, <1>3, <2>1 DEF WalkOn
  <2>2. CASE i # Len(s)
    <3>1. walk' = [rp |-> s[i + 1], orp |-> Pred(s, i)]
      BY <1>1, <1>3, <2>2 DEF WalkOn
    <3>2. i \in 1 .. Len(s) - 1 /\ Dropped(s, i)[i] = s[i + 1]
      BY <1>4, <2>2
    <3>3. Pred(Dropped(s, i), i) = Pred(s, i)
      <4>1. CASE i = 1
        BY <4>1 DEF Pred
      <4>2. CASE i # 1
        <5>1. i - 1 \in 1 .. Len(s) - 1 /\ i - 1 < i
          BY <1>4, <4>2
        <5> QED BY <1>4, <4>2, <5>1 DEF Pred
      <4> QED BY <4>1, <4>2
    <3> QED BY <1>4, <3>1, <3>2, <3>3
  <2> QED BY <2>1, <2>2
<1>6. "timedOut" \in Outcome \ {"none"}
  BY DEF Outcome
<1> QED BY <1>1, <1>3, <1>5, <1>6, UnlinkKeeps

\* The list of _Api_sessProcessPacket after its callback has sent q.
LEMMA FinishJoins ==
    ASSUME ListInv, NEW s \in Seq(Request), InList(s), NEW i \in 1 .. Len(s),
           NEW q \in Request, kind[q] = "none", kind' = [kind EXCEPT ![q] = "async"],
           outcome' = Told(s[i], "answered"), expired' = expired \ {s[i]},
           isp' = Unlink(JoinList(isp, q), s[i], Pred(s, i)),
           UNCHANGED <<sp, retries, unsent, session, walk>>, walk = NoWalk
    PROVE  ListInv'
<1> DEFINE r == s[i]
           l == JoinList(isp, q)
           t == Append(s, q)
<1>1. /\ r \in Request /\ r \in Outstanding /\ Chained(isp, s) /\ Elements(s) = Outstanding
      /\ Len(s) \in Nat
  BY Members DEF InList, Elements
<1>2. outcome[r] = "none" /\ kind[r] # "none" /\ outcome[q] = "none" /\ q # r
      /\ outcome \in [Request -> Outcome] /\ kind \in [Request -> {"none", "async", "sync"}]
  BY <1>1 DEF Outstanding, ListInv, FieldTypes, NewUntold
<1>3. outcome' = [outcome EXCEPT ![r] = "answered"]
  BY <1>2 DEF Told
<1>4. q \notin Outstanding /\ Outstanding' = (Outstanding \cup {q}) \ {r}
  BY <1>1, <1>2, <1>3 DEF Outstanding
<1>5. /\ ListType(l) /\ t \in Seq(Request) /\ Chained(l, t)
      /\ Elements(t) = Outstanding \cup {q}
  BY <1>1, <1>4, JoinChained DEF ListInv, FieldTypes
<1>6. i \in 1 .. Len(t) /\ t[i] = r /\ Pred(t, i) = Pred(s, i)
  <2>1. Len(t) = Len(s) + 1 /\ \A j \in 1 .. Len(s) : t[j] = s[j]
    BY AppendProperties
  <2>2. i # 1 => i - 1 \in 1 .. Len(s)
    BY <1>1
  <2> QED BY <1>1, <2>1, <2>2 DEF Pred
<1>7. /\ ListType(isp') /\ Chained(isp', Dropped(t, i))
      /\ Dropped(t, i) \in Seq(Request) /\ Elements(Dropped(t, i)) = Outstanding'
  <2>1. isp' = Unlink(l, t[i], Pred(t, i))
    BY <1>6
  <2>2. ListType(isp') /\ Chained(isp', Dropped(t, i))
    BY <1>5, <1>6, <2>1, UnlinkChained
  <2>3. Dropped(t, i) \in Seq(Request) /\ Elements(Dropped(t, i)) = Elements(t) \ {t[i]}
    BY <1>5, <1>6, DroppedElements
  <2> QED BY <1>4, <1>5, <1>6, <2>2, <2>3
<1>8. InList(Dropped(t, i))'
  BY <1>7 DEF InList, NoWalk
<1>9. FieldTypes' /\ NewUntold'
  BY <1>2, <1>3, <1>7 DEF ListInv, FieldTypes, NewUntold, Outcome
<1>10. RetryBudget'
  BY <1>2, <1>3 DEF ListInv, RetryBudget, MaxRetries
<1>11. (expired \subseteq Outstanding)'
  BY <1>4 DEF ListInv
<1> QED BY <1>7, <1>8, <1>9, <1>10, <1>11 DEF ListInv, NoWalk

\* An answer unlinks its request, whether its callback sent another or not.
LEMMA FinishKeeps ==
    ASSUME ListInv, NEW r \in Request, NEW reply, Finish(r, reply)
    PROVE  ListInv'
<1>1. PICK s \in Seq(Request) : InList(s)
  BY DEF ListInv
<1>2. /\ r \in Listed /\ walk = NoWalk
      /\ outcome' = Told(r, IF reply = "response" THEN "answered" ELSE "reported")
      /\ expired' = expired \ {r}
      /\ UNCHANGED <<sp, retries, unsent, walk, session>>
  BY DEF Finish, Matches, Looping
<1>3. PICK i \in 1 .. Len(s) : s[i] = r
  BY <1>1, <1>2, ListedOutstanding DEF InList, Elements
<1>4. Before(r) = Pred(s, i)
  BY <1>1, <1>3, BeforeIs DEF InList
<1>5. CASE isp' = Unlink(isp, r, Before(r)) /\ UNCHANGED kind
  <2> DEFINE how == IF reply = "response" THEN "answered" ELSE "reported"
  <2>1. how \in Outcome \ {"none"} /\ how # "timedOut"
    BY DEF Outcome
  <2>2. /\ outcome' = Told(s[i], how) /\ expired' = expired \ {s[i]}
        /\ isp' = Unlink(isp, s[i], Pred(s, i)) /\ walk' = NoWalk
    BY <1>2, <1>3, <1>4, <1>5
  <2> HIDE DEF how
  <2> QED BY <1>1, <1>2, <1>5, <2>1, <2>2, UnlinkKeeps
<1>6. CASE \E q \in Request :
             /\ kind[r] = "async" /\ reply = "response"
             /\ kind[q] = "none" /\ q \in sp.requests
             /\ kind' = [kind EXCEPT ![q] = "async"]
             /\ isp' = Unlink(JoinList(isp, q), r, Before(r))
  <2>1. PICK q \in Request :
             /\ reply = "response" /\ kind[q] = "none"
             /\ kind' = [kind EXCEPT ![q] = "async"]
             /\ isp' = Unlink(JoinList(isp, q), r, Before(r))
    BY <1>6
  <2>2. /\ outcome' = Told(s[i], "answered") /\ expired' = expired \ {s[i]}
        /\ isp' = Unlink(JoinList(isp, q), s[i], Pred(s, i))
    BY <1>2, <1>3, <1>4, <2>1
  <2> QED BY <1>1, <1>2, <2>1, <2>2, FinishJoins
<1> QED BY <1>5, <1>6 DEF Finish

\* A close tells every request on the list and empties it.
LEMMA CloseKeeps ==
    ASSUME ListInv, Close
    PROVE  ListInv'
<1>1. /\ walk = NoWalk /\ walk' = walk /\ session' = "gone" /\ expired' = {}
      /\ UNCHANGED <<sp, retries, unsent, kind>>
      /\ isp' = [isp EXCEPT !.requests = Nil, !.requestsEnd = Nil]
  BY DEF Close, Looping
<1>2. \A r \in Request : outcome'[r] =
         IF r \notin Outstanding THEN outcome[r]
         ELSE IF kind[r] = "async" THEN "timedOut" ELSE "closed"
  BY ListedOutstanding DEF Close, Told, Outstanding, ListInv, FieldTypes
<1>3. Outstanding' = {}
  BY <1>1, <1>2 DEF Outstanding
<1>4. ListType(isp') /\ isp'.requests = Nil /\ isp'.requestsEnd = Nil
  BY <1>1 DEF ListInv, FieldTypes, ListType, Pointer
<1>5. << >> \in Seq(Request) /\ Len(<< >>) = 0
  BY EmptySeq
<1>6. InList(<< >>)'
  <2>1. Chained(isp', << >>)
    BY <1>4, <1>5 DEF Chained
  <2>2. Elements(<< >>) = {}
    BY <1>5 DEF Elements
  <2> QED BY <1>1, <1>3, <2>1, <2>2 DEF InList, NoWalk
<1>7. outcome' \in [Request -> Outcome]
  BY <1>2 DEF Close, ListInv, FieldTypes, Outcome
<1>8. FieldTypes' /\ NewUntold'
  BY <1>1, <1>2, <1>4, <1>7 DEF ListInv, FieldTypes, NewUntold, Outstanding
<1>9. RetryBudget'
  BY <1>1 DEF ListInv, RetryBudget, MaxRetries
<1> QED BY <1>1, <1>3, <1>5, <1>6, <1>8, <1>9 DEF ListInv, NoWalk

-----------------------------------------------------------------------------
\* A session begins with an empty list.
LEMMA InitList == ApiInit => ListInv /\ CallTypes
<1> SUFFICES ASSUME ApiInit PROVE ListInv /\ CallTypes
  OBVIOUS
<1>1. << >> \in Seq(Request) /\ Len(<< >>) = 0
  BY EmptySeq
<1>2. Outstanding = {}
  BY DEF ApiInit, Outstanding
<1>3. InList(<< >>)
  BY <1>1, <1>2 DEF ApiInit, InList, Chained, Elements, NoWalk
<1>4. FieldTypes /\ NewUntold
  BY DEF ApiInit, FieldTypes, NewUntold, ListType, Pointer, Outcome
<1>5. RetryBudget
  BY <1>4, RetriesType DEF ApiInit, RetryBudget
<1>6. CallTypes
  BY <1>1 DEF ApiInit, CallTypes
<1> QED BY <1>1, <1>2, <1>3, <1>4, <1>5, <1>6 DEF ApiInit, ListInv

\* Every step keeps the list.
LEMMA NextList == ListInv /\ [ApiNext]_apiVars => ListInv'
<1> SUFFICES ASSUME ListInv, [ApiNext]_apiVars PROVE ListInv'
  OBVIOUS
<1>1. ASSUME NEW r \in Request, AsyncSend(r) PROVE ListInv'
  <2>1. PICK ok \in BOOLEAN : Sent(r, "async", ok)
    BY <1>1 DEF AsyncSend, SendOutcomes
  <2> QED BY <1>1, <2>1, SentKeeps DEF AsyncSend, Looping
<1>2. ASSUME NEW r \in Request, Call(r) PROVE ListInv'
  <2>1. PICK ok \in BOOLEAN : Sent(r, "sync", ok)
    BY <1>2 DEF Call, SendOutcomes
  <2> QED BY <1>2, <2>1, SentKeeps DEF Call, Looping
<1>3. CASE UNCHANGED apiVars
  <2>1. PICK s \in Seq(Request) : InList(s)
    BY DEF ListInv
  <2>2. /\ UNCHANGED <<sp, isp, retries, unsent, outcome, kind, expired, session>>
        /\ walk' = walk
    BY <1>3 DEF apiVars, listVars
  <2> QED BY <2>1, <2>2, QuietKeeps DEF ListInv, InList
<1> QED
  BY <1>1, <1>2, <1>3, RetryOnReportKeeps, IdleKeeps, FinishKeeps, SessTimeoutKeeps,
     SkipFreshKeeps, GiveUpKeeps, RetryExpiredKeeps, CloseKeeps DEF ApiNext, WalkStep

\* The innermost call.
LEMMA TopType ==
    ASSUME CallTypes
    PROVE  /\ Top = Nil <=> calls = <<>>
           /\ Top # Nil => Top \in Request /\ Len(calls) \in Nat \ {0} /\ Top = calls[Len(calls)]
<1>1. CASE calls = <<>>
  BY <1>1 DEF Top
<1>2. CASE calls # <<>>
  <2>1. Len(calls) \in Nat \ {0} /\ Len(calls) \in 1 .. Len(calls)
    BY <1>2, EmptySeq, LenProperties DEF CallTypes
  <2>2. calls[Len(calls)] \in Request /\ calls[Len(calls)] # Nil
    BY <2>1, Finite, ElementOfSeq DEF CallTypes
  <2> QED BY <1>2, <2>1, <2>2 DEF Top
<1> QED BY <1>1, <1>2

\* Telling a call its outcome keeps the types.
LEMMA AwakenTypes ==
    ASSUME CallTypes, NEW r \in Request, NEW event \in {"response", "timedOut"} \cup Reports,
           Awaken(r, event)
    PROVE  CallTypes'
<1>1. Reaches(r, event) => Top \in Request
  BY TopType DEF Reaches
<1>2. Meaning(event) \in {"success", "timeout", "error"}
  BY DEF Meaning, Reports
<1> QED BY <1>1, <1>2 DEF Awaken, CallTypes

\* Every step keeps the types of the calls.
LEMMA NextCallTypes == ListInv /\ CallTypes /\ [ApiNext]_apiVars => CallTypes'
<1> SUFFICES ASSUME ListInv, CallTypes, [ApiNext]_apiVars PROVE CallTypes'
  OBVIOUS
<1>1. ASSUME NEW r \in Request, Call(r) PROVE CallTypes'
  <2>1. calls' \in Seq(Request)
    BY <1>1, AppendProperties DEF Call, CallTypes
  <2> QED BY <1>1, <2>1 DEF Call, CallTypes
<1>2. CASE Return
  <2>1. Len(calls) \in Nat \ {0}
    BY <1>2, TopType DEF Return
  <2>2. SubSeq(calls, 1, Len(calls) - 1) \in Seq(Request)
    BY <2>1, SubSeqProperties DEF CallTypes
  <2> QED BY <1>2, <2>2 DEF Return, CallTypes
<1>3. ASSUME NEW r \in Request, RetryOnReport(r) PROVE CallTypes'
  <2>1. Reaches(r, "timeWindow") => Top \in Request
    BY TopType DEF Reaches
  <2> QED BY <1>3, <2>1 DEF RetryOnReport, CallTypes
<1>4. ASSUME NEW r \in Request, NEW reply \in {"response"} \cup Reports, Finish(r, reply)
      PROVE  CallTypes'
  BY <1>4, AwakenTypes DEF Finish
<1>5. CASE GiveUp
  <2>1. walk.rp \in Request
    BY <1>5, WalkFacts DEF GiveUp
  <2> QED BY <1>5, <2>1, AwakenTypes DEF GiveUp
<1>6. CASE Disconnect
  BY <1>6, TopType DEF Disconnect, CallTypes
<1>7. CASE UNCHANGED callVars
  BY <1>7 DEF callVars, CallTypes
<1> QED BY <1>1, <1>2, <1>3, <1>4, <1>5, <1>6, <1>7
  DEF ApiNext, WalkStep, AsyncSend, Expire, SessTimeout, SkipFresh, RetryExpired, Close,
      apiVars, callVars

\* What the invariant of the list says.
LEMMA ListFacts ==
    ASSUME ListInv, CallTypes
    PROVE  ApiTypeOK /\ ListSound /\ RetryBudget
<1>1. PICK s \in Seq(Request) : InList(s)
  BY DEF ListInv
<1>2. Listed = Outstanding
  BY ListedOutstanding
<1>3. walk \in [rp : Pointer, orp : Pointer]
  <2>1. CASE walk = NoWalk
    BY <2>1 DEF NoWalk, Pointer
  <2>2. CASE walk # NoWalk
    <3>1. PICK i \in 1 .. Len(s) : walk = [rp |-> s[i], orp |-> Pred(s, i)]
      BY <1>1, <2>2 DEF InList
    <3>2. Len(s) \in Nat /\ \A j \in 1 .. Len(s) : s[j] \in Request
      BY Members
    <3>3. i # 1 => i - 1 \in 1 .. Len(s)
      BY <3>2
    <3> QED BY <3>1, <3>2, <3>3 DEF Pred, Pointer
  <2> QED BY <2>1, <2>2
<1>4. ApiTypeOK
  BY <1>2, <1>3 DEF ListInv, FieldTypes, CallTypes, ApiTypeOK, ListType
<1>5. ListSound
  <2>1. \A r \in Request : outcome[r] # "twice"
    BY DEF ListInv, FieldTypes, Outcome
  <2> QED BY <1>1, <1>2, <2>1, ListedIs DEF InList, ListSound
<1> QED BY <1>4, <1>5 DEF ListInv

(* The pointers of the request list lead through the outstanding requests,  *)
(* each once, and none is told its outcome twice (Core/Api.c).              *)
THEOREM ListCorrect == ApiSpec => []ListSound
<1>1. ApiInit => ListInv /\ CallTypes
  BY InitList
<1>2. ListInv /\ CallTypes /\ [ApiNext]_apiVars => (ListInv /\ CallTypes)'
  BY NextList, NextCallTypes
<1>3. ListInv /\ CallTypes => ListSound
  BY ListFacts
<1> QED BY <1>1, <1>2, <1>3, PTL DEF ApiSpec

(* Every variable of a session keeps its type.                             *)
THEOREM ApiTypesCorrect == ApiSpec => []ApiTypeOK
<1>1. ApiInit => ListInv /\ CallTypes
  BY InitList
<1>2. ListInv /\ CallTypes /\ [ApiNext]_apiVars => (ListInv /\ CallTypes)'
  BY NextList, NextCallTypes
<1>3. ListInv /\ CallTypes => ApiTypeOK
  BY ListFacts
<1> QED BY <1>1, <1>2, <1>3, PTL DEF ApiSpec

(* Reports and timeouts together resend a request once more than the        *)
(* session allows at most, and the timer gives up none before.              *)
THEOREM RetryBudgetCorrect == ApiSpec => []RetryBudget
<1>1. ApiInit => ListInv /\ CallTypes
  BY InitList
<1>2. ListInv /\ CallTypes /\ [ApiNext]_apiVars => (ListInv /\ CallTypes)'
  BY NextList, NextCallTypes
<1>3. ListInv /\ CallTypes => RetryBudget
  BY ListFacts
<1> QED BY <1>1, <1>2, <1>3, PTL DEF ApiSpec


-----------------------------------------------------------------------------
(* The synchronous calls, while none is made inside another.               *)

\* What a call that waits, one that returned and one never made were told.
Tells ==
    \A r \in Request :
        kind[r] # "async" =>
            /\ status[r] = "success" <=> outcome[r] = "answered"
            /\ status[r] = "timeout" <=> outcome[r] = "timedOut"

OneCall == calls = <<>> \/ \E c \in Request : calls = <<c>> /\ kind[c] = "sync"

CallInv ==
    /\ OneCall
    /\ waiting \subseteq {Top}
    /\ session # "open" => waiting = {}
    /\ WaitsForListed /\ Tells /\ SessionOutlivesCalls

\* A call that waits has its request outstanding, and is the innermost.
LEMMA WaitingIsTop ==
    ASSUME ListInv, CallTypes, CallInv, session = "open", NEW r \in Request,
           kind[r] = "sync", r \in Outstanding
    PROVE  r \in waiting /\ r = Top /\ Top # Nil
BY Finite DEF CallInv, WaitsForListed

\* Nobody waits when the innermost call does not.
LEMMA NoTopNoWait ==
    ASSUME CallTypes, CallInv, Top = Nil \/ Top \notin waiting
    PROVE  waiting = {}
BY Finite DEF CallInv, CallTypes

\* Steps that tell nobody anything.
LEMMA CallsStay ==
    ASSUME CallInv, UNCHANGED <<callVars, kind, outcome, session>>
    PROVE  CallInv'
BY DEF CallInv, OneCall, WaitsForListed, Tells, SessionOutlivesCalls, Top, callVars, Outstanding

\* A request with a callback of its own concerns no call.
LEMMA AsyncSendCalls ==
    ASSUME ListInv, CallTypes, CallInv, NEW r \in Request, AsyncSend(r)
    PROVE  CallInv'
<1>1. PICK ok \in BOOLEAN : Sent(r, "async", ok)
  BY DEF AsyncSend, SendOutcomes
<1>2. /\ kind[r] = "none" /\ kind' = [kind EXCEPT ![r] = "async"] /\ outcome[r] = "none"
      /\ UNCHANGED <<calls, waiting, status, session>>
      /\ kind \in [Request -> {"none", "async", "sync"}]
  BY <1>1 DEF AsyncSend, Sent, callVars, ListInv, NewUntold, FieldTypes
<1>3. /\ kind'[r] = "async"
      /\ \A q \in Request : q # r => kind'[q] = kind[q] /\ outcome'[q] = outcome[q]
  BY <1>1, <1>2 DEF Sent, Told, ListInv, FieldTypes
<1>4. OneCall' /\ Top' = Top
  BY <1>2, <1>3 DEF CallInv, OneCall, Top
<1>5. WaitsForListed' /\ Tells'
  BY <1>2, <1>3 DEF CallInv, WaitsForListed, Outstanding, Tells
<1> QED BY <1>2, <1>4, <1>5 DEF CallInv, SessionOutlivesCalls

\* The only call waits for the request it sent.
LEMMA CallCalls ==
    ASSUME MaxDepth \leq 1, ListInv, CallTypes, CallInv, NEW r \in Request, Call(r)
    PROVE  CallInv'
<1>1. PICK ok \in SendOutcomes :
         /\ Sent(r, "sync", ok)
         /\ waiting' = IF ok THEN waiting \cup {r} ELSE waiting
         /\ status' = IF ok THEN status ELSE [status EXCEPT ![r] = "error"]
  BY DEF Call
<1>2. calls = <<>> /\ Top = Nil /\ waiting = {}
  <2>1. Len(calls) \in Nat /\ Len(calls) < MaxDepth /\ MaxDepth \in Nat
    BY ApiAssumption, LenProperties DEF Call, CallTypes
  <2>2. Len(calls) = 0
    BY <2>1
  <2>3. calls = <<>>
    BY <2>2, EmptySeq DEF CallTypes
  <2> QED BY <2>3, NoTopNoWait, TopType
<1>3. calls' = <<r>> /\ Top' = r
  BY <1>2 DEF Call, Top
<1>4. /\ kind[r] = "none" /\ kind' = [kind EXCEPT ![r] = "sync"] /\ outcome[r] = "none"
      /\ session' = session /\ session # "gone"
      /\ kind \in [Request -> {"none", "async", "sync"}]
      /\ status \in [Request -> {"none", "success", "timeout", "error"}]
  BY <1>1 DEF Call, Sent, CallTypes, ListInv, NewUntold, FieldTypes
<1>5. kind'[r] = "sync" /\ \A q \in Request : q # r => kind'[q] = kind[q]
  BY <1>4
<1>6. ok => session = "open"
  BY <1>1 DEF SendOutcomes
<1>7. ok \in BOOLEAN
  BY DEF SendOutcomes
<1>8. OneCall' /\ SessionOutlivesCalls'
  BY <1>3, <1>4, <1>5 DEF OneCall, SessionOutlivesCalls
<1>9. CASE ok
  <2>1. waiting' = {r} /\ status' = status /\ outcome' = outcome
    BY <1>1, <1>2, <1>9 DEF Sent
  <2>2. WaitsForListed'
    BY <1>2, <1>4, <1>5, <1>6, <1>9, <2>1 DEF CallInv, WaitsForListed, Outstanding
  <2>3. Tells'
    BY <1>4, <1>5, <2>1 DEF CallInv, Tells
  <2> QED BY <1>3, <1>4, <1>6, <1>8, <1>9, <2>1, <2>2, <2>3 DEF CallInv
<1>10. CASE ~ok
  <2>1. /\ waiting' = {} /\ status' = [status EXCEPT ![r] = "error"]
        /\ outcome' = [outcome EXCEPT ![r] = "failed"]
        /\ outcome \in [Request -> Outcome]
    BY <1>1, <1>2, <1>4, <1>10 DEF Sent, Told, ListInv, FieldTypes
  <2>2. WaitsForListed'
    BY <1>2, <1>4, <1>5, <2>1 DEF CallInv, WaitsForListed, Outstanding
  <2>3. Tells'
    BY <1>4, <1>5, <2>1 DEF CallInv, Tells
  <2> QED BY <1>8, <2>1, <2>2, <2>3 DEF CallInv
<1> QED BY <1>7, <1>9, <1>10

\* The only call returns, and nobody waits.
LEMMA ReturnCalls ==
    ASSUME CallTypes, CallInv, Return
    PROVE  CallInv'
<1>1. /\ waiting' = waiting /\ calls' = SubSeq(calls, 1, Len(calls) - 1)
      /\ UNCHANGED <<outcome, kind, status, session>>
      /\ Top # Nil /\ Top \notin waiting
  BY DEF Return, listVars
<1>2. waiting = {}
  BY <1>1, NoTopNoWait
<1>3. calls' = <<>>
  <2>1. PICK c \in Request : calls = <<c>>
    BY <1>1 DEF CallInv, OneCall, Top
  <2>2. Len(calls) - 1 = 0
    BY <2>1
  <2> QED BY <1>1, <2>2, SubSeqProperties, EmptySeq DEF CallTypes
<1> QED BY <1>1, <1>2, <1>3
  DEF CallInv, OneCall, WaitsForListed, Outstanding, Tells, SessionOutlivesCalls

\* A report marks the call that goes on waiting as failed.
LEMMA RetryOnReportCalls ==
    ASSUME ListInv, CallTypes, CallInv, NEW r \in Request, RetryOnReport(r)
    PROVE  CallInv'
<1>1. /\ session = "open" /\ r \in Outstanding
      /\ status' = IF Reaches(r, "timeWindow") THEN [status EXCEPT ![Top] = "error"]
                   ELSE status
      /\ UNCHANGED <<calls, waiting, kind, session, outcome>>
  BY ListedOutstanding DEF RetryOnReport, Resend, Matches
<1>2. Reaches(r, "timeWindow") => Top = r /\ outcome[r] = "none"
  BY <1>1, WaitingIsTop DEF Reaches, Outstanding
<1>3. Tells'
  BY <1>1, <1>2 DEF CallInv, CallTypes, Tells
<1> QED BY <1>1, <1>3 DEF CallInv, OneCall, WaitsForListed, Outstanding, SessionOutlivesCalls, Top

\* The end of a request wakes its call, and tells it how.
LEMMA AwakenTells ==
    ASSUME ListInv, CallTypes, CallInv, session = "open", session' = session,
           NEW r \in Request, r \in Outstanding,
           NEW event \in {"response", "timedOut"} \cup Reports, Awaken(r, event),
           outcome' = Told(r, IF event = "response" THEN "answered"
                              ELSE IF event = "timedOut" THEN "timedOut" ELSE "reported"),
           \/ kind' = kind
           \/ /\ kind[r] = "async"
              /\ \E q \in Request : kind[q] = "none" /\ kind' = [kind EXCEPT ![q] = "async"]
    PROVE  CallInv'
<1> DEFINE how == IF event = "response" THEN "answered"
                  ELSE IF event = "timedOut" THEN "timedOut" ELSE "reported"
<1>1. /\ kind \in [Request -> {"none", "async", "sync"}]
      /\ outcome \in [Request -> Outcome] /\ outcome[r] = "none" /\ kind[r] # "none"
      /\ status \in [Request -> {"none", "success", "timeout", "error"}]
  BY DEF ListInv, FieldTypes, CallTypes, Outstanding
<1>2. outcome' = [outcome EXCEPT ![r] = how]
  BY <1>1 DEF Told
<1>3. how # "none" /\ (how = "answered" <=> Meaning(event) = "success")
      /\ (how = "timedOut" <=> Meaning(event) = "timeout")
  BY DEF Meaning, Reports
<1>4. calls' = calls /\ Top' = Top
  BY DEF Awaken, Top
<1>5. \A x \in Request : kind'[x] # kind[x] => kind[x] = "none" /\ kind'[x] = "async"
  BY <1>1
<1>6. OneCall' /\ SessionOutlivesCalls'
  BY <1>4, <1>5 DEF CallInv, OneCall, SessionOutlivesCalls
<1>7. CASE kind[r] = "sync"
  <2>1. r = Top /\ Top # Nil /\ kind' = kind
    BY <1>7, WaitingIsTop
  <2>2. waiting' = waiting \ {r} /\ status' = [status EXCEPT ![r] = Meaning(event)]
    BY <1>7, <2>1 DEF Awaken, Reaches
  <2>3. WaitsForListed'
    BY <1>1, <1>2, <1>3, <2>1, <2>2 DEF CallInv, WaitsForListed, Outstanding
  <2>4. Tells'
    BY <1>1, <1>2, <1>3, <2>1, <2>2 DEF CallInv, Tells
  <2> QED BY <1>4, <1>6, <2>2, <2>3, <2>4 DEF CallInv
<1>8. CASE kind[r] = "async"
  <2>1. waiting' = waiting /\ status' = status
    BY <1>8 DEF Awaken, Reaches
  <2>2. \A x \in Request : kind[x] # "async" => outcome'[x] = outcome[x]
    BY <1>1, <1>2, <1>8
  <2>3. WaitsForListed'
    BY <1>1, <1>2, <1>5, <1>8, <2>1, <2>2 DEF CallInv, WaitsForListed, Outstanding
  <2>4. Tells'
    BY <1>5, <2>1, <2>2 DEF CallInv, Tells
  <2> QED BY <1>4, <1>6, <2>1, <2>3, <2>4 DEF CallInv
<1> QED BY <1>1, <1>7, <1>8

\* An answer or the last report wakes the call of its request.
LEMMA FinishCalls ==
    ASSUME ListInv, CallTypes, CallInv, NEW r \in Request,
           NEW reply \in {"response"} \cup Reports, Finish(r, reply)
    PROVE  CallInv'
<1>1. /\ session = "open" /\ session' = session /\ r \in Outstanding /\ Awaken(r, reply)
      /\ outcome' = Told(r, IF reply = "response" THEN "answered" ELSE "reported")
      /\ reply # "timedOut"
  BY ListedOutstanding DEF Finish, Matches, Reports
<1>2. \/ kind' = kind
      \/ /\ kind[r] = "async"
         /\ \E q \in Request : kind[q] = "none" /\ kind' = [kind EXCEPT ![q] = "async"]
  BY DEF Finish
<1> QED BY <1>1, <1>2, AwakenTells

\* So does the last timeout.
LEMMA GiveUpCalls ==
    ASSUME ListInv, CallTypes, CallInv, GiveUp
    PROVE  CallInv'
<1>1. /\ session = "open" /\ session' = session /\ kind' = kind
      /\ Awaken(walk.rp, "timedOut") /\ outcome' = Told(walk.rp, "timedOut")
      /\ walk # NoWalk
  BY DEF GiveUp, ListInv
<1>2. walk.rp \in Request /\ walk.rp \in Outstanding
  BY <1>1, WalkFacts
<1> QED BY <1>1, <1>2, AwakenTells

\* A disconnect wakes the call, while its request is on the list.
LEMMA DisconnectCalls ==
    ASSUME ListInv, CallTypes, CallInv, Disconnect
    PROVE  CallInv'
<1>1. /\ session = "open" /\ session' = "broken" /\ waiting' = waiting \ {Top}
      /\ status' = IF Top = Nil THEN status ELSE [status EXCEPT ![Top] = "error"]
      /\ UNCHANGED <<calls, kind, outcome>> /\ (Top = Nil \/ Top \in waiting)
  BY DEF Disconnect, Looping, listVars
<1>2. waiting' = {} /\ Top' = Top
  BY <1>1 DEF CallInv, Top
<1>3. Top # Nil => Top \in Request /\ outcome[Top] = "none"
  BY <1>1, TopType DEF CallInv, WaitsForListed, Outstanding
<1>4. Tells'
  BY <1>1, <1>3 DEF CallInv, CallTypes, Tells
<1> QED BY <1>1, <1>2, <1>4 DEF CallInv, OneCall, WaitsForListed, SessionOutlivesCalls

\* A close finds no call.
LEMMA CloseCalls ==
    ASSUME ListInv, CallTypes, CallInv, Close
    PROVE  CallInv'
<1>1. /\ session' = "gone" /\ UNCHANGED <<calls, waiting, status, kind>>
      /\ Top = Nil \/ Top \in waiting
      /\ session = "broken" \/ (session = "open" /\ calls = <<>>)
  BY DEF Close, Looping, callVars
<1>2. calls = <<>> /\ Top = Nil
  BY <1>1, TopType DEF CallInv
<1>3. waiting = {}
  BY <1>2, NoTopNoWait
<1>4. \A r \in Request : kind[r] # "async" =>
         outcome'[r] = outcome[r] \/ (outcome[r] = "none" /\ outcome'[r] = "closed")
  BY ListedOutstanding DEF Close, Told, Outstanding, ListInv, FieldTypes
<1>5. Tells'
  BY <1>1, <1>4 DEF CallInv, Tells
<1> QED BY <1>1, <1>2, <1>3, <1>5 DEF CallInv, OneCall, WaitsForListed, SessionOutlivesCalls

\* A session begins without calls.
LEMMA InitCalls == ApiInit => CallInv
BY DEF ApiInit, CallInv, OneCall, WaitsForListed, Tells, SessionOutlivesCalls, Outstanding

\* Every step keeps what is said of the calls.
LEMMA NextCalls ==
    ASSUME MaxDepth \leq 1
    PROVE  ListInv /\ CallTypes /\ CallInv /\ [ApiNext]_apiVars => CallInv'
<1> SUFFICES ASSUME ListInv, CallTypes, CallInv, [ApiNext]_apiVars PROVE CallInv'
  OBVIOUS
<1>1. CASE UNCHANGED apiVars
  BY <1>1, CallsStay DEF apiVars, listVars
<1>2. ASSUME NEW r \in Request, Expire(r) PROVE CallInv'
  BY <1>2, CallsStay DEF Expire
<1>3. CASE SessTimeout \/ SkipFresh
  BY <1>3, CallsStay DEF SessTimeout, SkipFresh, listVars
<1>4. CASE RetryExpired
  BY <1>4, CallsStay DEF RetryExpired, Resend
<1> QED
  BY <1>1, <1>2, <1>3, <1>4, AsyncSendCalls, CallCalls, ReturnCalls, RetryOnReportCalls,
     FinishCalls, GiveUpCalls, DisconnectCalls, CloseCalls DEF ApiNext, WalkStep

(* As long as its session lives, a synchronous call that is not made inside *)
(* another waits exactly as long as its request is on the list, returns    *)
(* with a status that tells what became of it, and never has its session   *)
(* freed under it (Core/Client.c, Core/Api.c).                              *)
LEMMA CallFacts ==
    ASSUME MaxDepth \leq 1
    PROVE  ApiSpec => [](WaitsForListed /\ StatusTellsOutcome /\ SessionOutlivesCalls)
<1>1. ApiInit => ListInv /\ CallTypes /\ CallInv
  BY InitList, InitCalls
<1>2. ListInv /\ CallTypes /\ CallInv /\ [ApiNext]_apiVars
        => (ListInv /\ CallTypes /\ CallInv)'
  BY NextList, NextCallTypes, NextCalls
<1>3. ListInv /\ CallTypes /\ CallInv
        => WaitsForListed /\ StatusTellsOutcome /\ SessionOutlivesCalls
  BY DEF CallInv, Tells, StatusTellsOutcome
<1> QED BY <1>1, <1>2, <1>3, PTL DEF ApiSpec

(* A call waits exactly as long as its request is on the list of the        *)
(* session, when no call is made inside another (Client_synchResponseCb).   *)
THEOREM WaitsCorrect ==
    ASSUME MaxDepth \leq 1
    PROVE  ApiSpec => []WaitsForListed
BY CallFacts, PTL

(* The status a call returns tells what became of its request, when no call *)
(* is made inside another (_Client_synchInput).                             *)
THEOREM StatusCorrect ==
    ASSUME MaxDepth \leq 1
    PROVE  ApiSpec => []StatusTellsOutcome
BY CallFacts, PTL

(* The session is not freed under a call, when no call is made inside       *)
(* another (Api_sessClose).                                                 *)
THEOREM SessionOutlives ==
    ASSUME MaxDepth \leq 1
    PROVE  ApiSpec => []SessionOutlivesCalls
BY CallFacts, PTL
=============================================================================

--------------------------- MODULE ListHeadProofs ---------------------------
(***************************************************************************)
(* Theorems about ListHead for any heads and any finite set of entries.    *)
(*                                                                         *)
(* The link fields of a list with its head are a ring.  Represents says    *)
(* that the fields are those of given sequences; it is the invariant: each *)
(* routine turns a memory that represents some sequences into one that     *)
(* represents the sequences its comment promises, and list_for_each reads  *)
(* from a memory the one family of sequences it represents.                *)
(***************************************************************************)
EXTENDS ListHead, SequenceTheorems, FiniteSetTheorems, WellFoundedInduction, TLAPS

Pointers == Nodes \cup {NULL, LIST_POISON1, LIST_POISON2}

Memory == [next : [Nodes -> Pointers], prev : [Nodes -> Pointers]]

\* The k-th node of the ring of h and s; the head comes before and after.
At(h, s, k) == IF k \in 1 .. Len(s) THEN s[k] ELSE h

\* The ring in memory: neighbours point to each other.
Linked(m, h, s) ==
  \A k \in 0 .. Len(s) : /\ m.next[At(h, s, k)] = At(h, s, k + 1)
                         /\ m.prev[At(h, s, k + 1)] = At(h, s, k)

\* No entry occurs twice.
Distinct(s) == \A i, j \in 1 .. Len(s) : s[i] = s[j] => i = j

Apart(s, t) == \A i \in 1 .. Len(s), j \in 1 .. Len(t) : s[i] # t[j]

Unique(l) ==
  /\ \A h \in Heads : Distinct(l[h])
  /\ \A g, h \in Heads : g # h => Apart(l[g], l[h])

\* A loop along link goes from h through q and back.
Route(link, h, q) ==
  /\ q \in Seq(Entries) /\ Distinct(q)
  /\ \A i \in 0 .. Len(q) : link[At(h, q, i)] = At(h, q, i + 1)

\* The links m with the undefined heads u are those of the sequences l.
Represents(m, u, l) ==
  /\ m \in Memory
  /\ u \subseteq Heads
  /\ l \in [Heads -> Seq(Entries)]
  /\ \A h \in u : l[h] = <<>>
  /\ \A h \in Heads \ u : Linked(m, h, l[h])
  /\ Unique(l)

-----------------------------------------------------------------------------
(* Loops over a ring *)

\* Every set of natural numbers that is not empty has a least element.
LEMMA Least ==
  ASSUME NEW T \in SUBSET Nat, T # {}
  PROVE  \E x \in T : \A y \in T : x <= y
<1> DEFINE R == OpToRel(<, Nat)
<1>1. IsWellFoundedOn(R, Nat)
  BY NatLessThanWellFounded
<1>2. \A x, y \in Nat : y < x => <<y, x>> \in R
  BY DEF OpToRel
<1> HIDE DEF R
<1>3. \E x \in T : \A y \in T : ~(<<y, x>> \in R)
  BY <1>1, WFMin
<1>4. PICK x \in T : \A y \in T : ~(<<y, x>> \in R)
  BY <1>3
<1>5. ASSUME NEW y \in T PROVE x <= y
  <2>1. x \in Nat /\ y \in Nat /\ ~(y < x)
    BY <1>2, <1>4
  <2> QED BY <2>1
<1> QED BY <1>5

\* Min finds it.
LEMMA MinIsLeast ==
  ASSUME NEW T \in SUBSET Nat, T # {}
  PROVE  Min(T) \in T /\ \A y \in T : Min(T) <= y
BY Least DEF Min

\* A sequence without repetitions is no longer than there are entries.
LEMMA ShortList ==
  ASSUME NEW s \in Seq(Entries), Distinct(s)
  PROVE  Len(s) \in Nat /\ Len(s) <= Cardinality(Entries) /\ Cardinality(Entries) \in Nat
<1>1. Len(s) \in Nat /\ s \in [1 .. Len(s) -> Entries]
  BY LenProperties
<1>2. s \in Injection(1 .. Len(s), Entries)
  BY <1>1 DEF Distinct, Injection, IsInjective
<1>3. IsFiniteSet(Entries)
  BY ListConstantsOK
<1>4. Cardinality(1 .. Len(s)) <= Cardinality(Entries)
  BY <1>2, <1>3, FS_Injection
<1>5. Cardinality(1 .. Len(s)) = Len(s)
  BY <1>1, FS_Interval
<1>6. Cardinality(Entries) \in Nat
  BY <1>3, FS_CardinalityType
<1> QED BY <1>1, <1>4, <1>5, <1>6

\* The turns of a loop, one after the other.
PathIs(link, head, at) ==
  at = [k \in 1 .. MaxTurns |->
          IF k = 1 THEN link[head]
          ELSE IF at[k - 1] \in Nodes \ {head} THEN link[at[k - 1]] ELSE at[k - 1]]

\* If there are such turns at all, Path has them.
LEMMA PathExists ==
  ASSUME NEW link, NEW head, NEW at, PathIs(link, head, at)
  PROVE  PathIs(link, head, Path(link, head))
BY DEF PathIs, Path

\* A loop along the links of a ring goes around it once.
LEMMA PathOfRing ==
  ASSUME NEW link, NEW h \in Heads, NEW s \in Seq(Entries), NEW n \in Nat, n = Len(s),
         n < MaxTurns, MaxTurns \in Nat,
         \A k \in 0 .. n : link[At(h, s, k)] = At(h, s, k + 1)
  PROVE  \A k \in 1 .. MaxTurns : Path(link, h)[k] = At(h, s, k)
<1> DEFINE f == [k \in 1 .. MaxTurns |-> At(h, s, k)]
           at == Path(link, h)
           wrong == {k \in 1 .. MaxTurns : at[k] # At(h, s, k)}
<1>0. \A k \in 1 .. n : At(h, s, k) \in Nodes \ {h}
  BY ElementOfSeq, ListConstantsOK DEF At, Nodes
<1>1. \A k \in Nat : k > n => At(h, s, k) = h
  BY DEF At
<1>2. At(h, s, 0) = h
  BY DEF At
<1>3. link[h] = At(h, s, 1)
  BY <1>2
<1>4. ASSUME NEW k \in 2 .. MaxTurns
      PROVE  At(h, s, k) = IF At(h, s, k - 1) \in Nodes \ {h} THEN link[At(h, s, k - 1)] ELSE At(h, s, k - 1)
  <2>1. CASE k - 1 <= n
    <3>1. k - 1 \in 1 .. n /\ (k - 1) + 1 = k
      BY <2>1
    <3>2. link[At(h, s, k - 1)] = At(h, s, k)
      BY <3>1
    <3> QED BY <3>1, <3>2, <1>0
  <2>2. CASE k - 1 > n
    BY <2>2, <1>1
  <2> QED BY <2>1, <2>2
<1>5. PathIs(link, h, f)
  <2>1. ASSUME NEW k \in 1 .. MaxTurns
        PROVE  f[k] = IF k = 1 THEN link[h]
                      ELSE IF f[k - 1] \in Nodes \ {h} THEN link[f[k - 1]] ELSE f[k - 1]
    <3>1. CASE k = 1
      BY <3>1, <1>3
    <3>2. CASE k # 1
      <4>1. k \in 2 .. MaxTurns /\ k - 1 \in 1 .. MaxTurns
        BY <3>2
      <4>2. f[k] = At(h, s, k) /\ f[k - 1] = At(h, s, k - 1)
        BY <4>1
      <4> HIDE DEF f
      <4> QED BY <3>2, <4>1, <4>2, <1>4
    <3> QED BY <3>1, <3>2
  <2> QED BY <2>1 DEF PathIs
<1>6. PathIs(link, h, at)
  BY <1>5, PathExists
<1> HIDE DEF f, at
<1>7. /\ at[1] = link[h] \/ MaxTurns = 0
      /\ \A k \in 2 .. MaxTurns : at[k] = IF at[k - 1] \in Nodes \ {h} THEN link[at[k - 1]] ELSE at[k - 1]
  BY <1>6 DEF PathIs
<1>8. wrong = {}
  <2> SUFFICES ASSUME wrong # {} PROVE FALSE
    OBVIOUS
  <2>0. wrong \in SUBSET Nat
    OBVIOUS
  <2>1. PICK k \in wrong : \A j \in wrong : k <= j
    <3> HIDE DEF wrong
    <3> QED BY <2>0, Least
  <2>2. k # 1
    BY <1>3, <1>7
  <2>3. k \in 2 .. MaxTurns /\ k - 1 \in 1 .. MaxTurns /\ k - 1 \notin wrong
    BY <2>1, <2>2
  <2>4. at[k - 1] = At(h, s, k - 1)
    BY <2>3
  <2>5. at[k] = At(h, s, k)
    BY <2>3, <2>4, <1>4, <1>7
  <2> QED BY <2>5
<1> QED BY <1>8 DEF at

\* So it visits the entries of the ring in order.
LEMMA RingIsVisited ==
  ASSUME NEW link, NEW h \in Heads, NEW s, Route(link, h, s)
  PROVE  Visited(link, h) = s
<1> DEFINE n == Len(s)
           at == Path(link, h)
           ends == {k \in 1 .. MaxTurns : at[k] = h}
<1>0. s \in Seq(Entries) /\ Distinct(s) /\ \A k \in 0 .. n : link[At(h, s, k)] = At(h, s, k + 1)
  BY DEF Route
<1>1. n \in Nat /\ MaxTurns \in Nat /\ n < MaxTurns
  BY <1>0, ShortList DEF MaxTurns
<1>2. \A k \in 1 .. MaxTurns : at[k] = At(h, s, k)
  BY <1>0, <1>1, PathOfRing
<1>3. \A k \in 1 .. n : At(h, s, k) = s[k] /\ s[k] # h
  BY <1>0, ElementOfSeq, ListConstantsOK DEF At
<1>4. n + 1 \in ends /\ \A k \in ends : n + 1 <= k
  <2>1. At(h, s, n + 1) = h
    BY <1>1 DEF At
  <2>2. \A k \in 1 .. n : at[k] # h
    BY <1>1, <1>2, <1>3
  <2> HIDE DEF at, n
  <2> QED BY <1>1, <1>2, <2>1, <2>2
<1>5. ends \in SUBSET Nat /\ ends # {}
  BY <1>1, <1>4
<1>6. Min(ends) = n + 1
  <2>1. Min(ends) \in ends /\ \A y \in ends : Min(ends) <= y
    BY <1>5, MinIsLeast
  <2> QED BY <1>1, <1>4, <2>1
<1>7. Visited(link, h) = [k \in 1 .. Min(ends) - 1 |-> at[k]]
  BY <1>5 DEF Visited
<1>8. s = [k \in 1 .. n |-> s[k]]
  BY <1>0, LenProperties
<1>9. \A k \in 1 .. n : at[k] = s[k]
  BY <1>1, <1>2, <1>3
<1> HIDE DEF at, ends, n
<1>10. Min(ends) - 1 = n
  BY <1>1, <1>6
<1> QED BY <1>7, <1>8, <1>9, <1>10

\* The nodes of a ring are nodes, the entries are not the head.
LEMMA RingNodes ==
  ASSUME NEW h \in Heads, NEW s \in Seq(Entries)
  PROVE  /\ Len(s) \in Nat
         /\ \A k \in Nat : At(h, s, k) \in Nodes
         /\ \A k \in 1 .. Len(s) : At(h, s, k) = s[k] /\ s[k] \in Entries /\ s[k] \notin Heads
         /\ At(h, s, 0) = h /\ At(h, s, Len(s) + 1) = h
<1>1. Len(s) \in Nat /\ \A k \in 1 .. Len(s) : s[k] \in Entries
  BY ElementOfSeq, LenProperties
<1> QED BY <1>1, ListConstantsOK DEF At, Nodes

\* A ring read backwards.
LEMMA RingReversed ==
  ASSUME NEW h \in Heads, NEW s \in Seq(Entries), NEW r, r = Reverse(s)
  PROVE  /\ r \in Seq(Entries) /\ Len(r) = Len(s)
         /\ \A k \in 1 .. Len(s) : r[k] = s[(Len(s) - k) + 1]
         /\ \A k \in 0 .. Len(s) + 1 : At(h, r, k) = At(h, s, (Len(s) - k) + 1)
<1> DEFINE n == Len(s)
<1>1. n \in Nat /\ \A k \in 1 .. n : s[k] \in Entries
  BY ElementOfSeq, LenProperties
<1>2. r = [i \in 1 .. n |-> s[(n - i) + 1]]
  BY DEF Reverse
<1>3. r \in [1 .. n -> Entries]
  BY <1>1, <1>2
<1>4. r \in Seq(Entries) /\ Len(r) = n
  BY <1>1, <1>3
<1>5. \A k \in 1 .. n : r[k] = s[(n - k) + 1]
  BY <1>1, <1>2
<1>6. ASSUME NEW k \in 0 .. n + 1 PROVE At(h, r, k) = At(h, s, (n - k) + 1)
  BY <1>1, <1>4, <1>5 DEF At
<1> QED BY <1>4, <1>5, <1>6

\* A ring is two routes, one along next and one along prev.
LEMMA RingRoutes ==
  ASSUME NEW m, NEW h \in Heads, NEW s \in Seq(Entries), Distinct(s), Linked(m, h, s)
  PROVE  Route(m.next, h, s) /\ Route(m.prev, h, Reverse(s))
<1> DEFINE n == Len(s)
           r == Reverse(s)
<1>1. Route(m.next, h, s)
  BY DEF Linked, Route
<1>2. /\ r \in Seq(Entries) /\ Len(r) = n
      /\ \A k \in 1 .. n : r[k] = s[(n - k) + 1]
      /\ \A k \in 0 .. n + 1 : At(h, r, k) = At(h, s, (n - k) + 1)
  BY RingReversed
<1>3. n \in Nat
  BY LenProperties
<1> HIDE DEF r, n
<1>4. Distinct(r)
  <2> SUFFICES ASSUME NEW i \in 1 .. n, NEW j \in 1 .. n, r[i] = r[j] PROVE i = j
    BY <1>2 DEF Distinct
  <2>1. (n - i) + 1 \in 1 .. n /\ (n - j) + 1 \in 1 .. n
    BY <1>3
  <2>2. s[(n - i) + 1] = s[(n - j) + 1]
    BY <1>2
  <2>3. (n - i) + 1 = (n - j) + 1
    BY <2>1, <2>2 DEF n, Distinct
  <2> QED BY <1>3, <2>3
<1>5. ASSUME NEW k \in 0 .. n PROVE m.prev[At(h, r, k)] = At(h, r, k + 1)
  <2>1. n - k \in 0 .. n /\ (n - k) + 1 \in 1 .. n + 1 /\ (n - (k + 1)) + 1 = n - k
    BY <1>3
  <2>2. m.prev[At(h, s, (n - k) + 1)] = At(h, s, n - k)
    BY <2>1 DEF Linked, n
  <2>3. At(h, r, k) = At(h, s, (n - k) + 1) /\ At(h, r, k + 1) = At(h, s, n - k)
    BY <1>2, <1>3, <2>1
  <2> QED BY <2>2, <2>3
<1>6. Route(m.prev, h, r)
  BY <1>2, <1>4, <1>5 DEF Route
<1> QED BY <1>1, <1>6 DEF r

\* The loops read the sequences from the memory that represents them.
LEMMA ReadBack ==
  ASSUME NEW m, NEW u, NEW l, Represents(m, u, l), NEW h \in Heads \ u
  PROVE  list_for_each(m, h) = l[h] /\ list_for_each_prev(m, h) = Reverse(l[h])
<1>1. l[h] \in Seq(Entries) /\ Distinct(l[h]) /\ Linked(m, h, l[h])
  BY DEF Represents, Unique
<1>2. Route(m.next, h, l[h]) /\ Route(m.prev, h, Reverse(l[h]))
  BY <1>1, RingRoutes
<1>3. Visited(m.next, h) = l[h] /\ Visited(m.prev, h) = Reverse(l[h])
  BY <1>2, RingIsVisited
<1> QED BY <1>3 DEF list_for_each, list_for_each_prev

\* There is only one family of sequences a memory represents, and Lists has it.
LEMMA ListsRead ==
  ASSUME NEW m, NEW u, NEW l, Represents(m, u, l)
  PROVE  l = [h \in Heads |-> IF h \in u THEN <<>> ELSE list_for_each(m, h)]
<1>1. l = [h \in Heads |-> l[h]]
  BY DEF Represents
<1>2. \A h \in Heads : l[h] = IF h \in u THEN <<>> ELSE list_for_each(m, h)
  BY ReadBack DEF Represents
<1> QED BY <1>1, <1>2

-----------------------------------------------------------------------------
(* What the routines do to the links *)

\* w and m differ in the next members of the nodes in P and in the prev
\* members of those in Q.
Same(w, m, P, Q) ==
  /\ \A x \in Nodes \ P : w.next[x] = m.next[x]
  /\ \A x \in Nodes \ Q : w.prev[x] = m.prev[x]

\* A node is linked to itself.
LoopedBack(w, m, e) ==
  /\ w \in Memory /\ Same(w, m, {e}, {e})
  /\ w.next[e] = e /\ w.prev[e] = e

\* INIT_LIST_HEAD does that.
LEMMA InitEffect ==
  ASSUME NEW m \in Memory, NEW e \in Nodes
  PROVE  LoopedBack(INIT_LIST_HEAD(m, e), m, e)
BY DEF LoopedBack, Same, INIT_LIST_HEAD, SetNext, SetPrev, Memory, Pointers

\* A node is linked in between p and q, which may be one.
PutBetween(w, m, e, p, q) ==
  /\ w \in Memory /\ Same(w, m, {p, e}, {e, q})
  /\ w.next[p] = e /\ w.next[e] = q
  /\ w.prev[e] = p /\ w.prev[q] = e

\* __list_add does that, for an empty list too.
LEMMA AddEffect ==
  ASSUME NEW m \in Memory, NEW e \in Nodes, NEW p \in Nodes \ {e}, NEW q \in Nodes \ {e}
  PROVE  PutBetween(__list_add(m, e, p, q), m, e, p, q)
BY DEF PutBetween, Same, __list_add, SetNext, SetPrev, Memory, Pointers

\* The neighbours p and q of a node become neighbours.  What the node itself
\* is left with depends on the routine.
TakenOut(w, m, e, p, q) ==
  /\ w \in Memory /\ Same(w, m, {p, e}, {e, q})
  /\ w.next[p] = q /\ w.prev[q] = p

\* The three ways to delete do that to the neighbours.
LEMMA DelEffect ==
  ASSUME NEW m \in Memory, NEW e \in Nodes, NEW p \in Nodes \ {e}, NEW q \in Nodes \ {e},
         p = m.prev[e], q = m.next[e]
  PROVE  /\ TakenOut(__list_del_entry(m, e), m, e, p, q)
         /\ TakenOut(list_del(m, e), m, e, p, q)
         /\ TakenOut(list_del_init(m, e), m, e, p, q)
<1>1. TakenOut(__list_del_entry(m, e), m, e, p, q)
  BY DEF TakenOut, Same, __list_del_entry, __list_del, SetNext, SetPrev, Memory, Pointers
<1>2. TakenOut(list_del(m, e), m, e, p, q)
  BY DEF TakenOut, Same, list_del, __list_del_entry, __list_del, SetNext, SetPrev, Memory, Pointers
<1>3. TakenOut(list_del_init(m, e), m, e, p, q)
  BY DEF TakenOut, Same, list_del_init, INIT_LIST_HEAD, __list_del_entry, __list_del,
         SetNext, SetPrev, Memory, Pointers
<1> QED BY <1>1, <1>2, <1>3

\* The neighbours p and q of a node become those of another one.
Exchanged(w, m, old, new, p, q) ==
  /\ w \in Memory /\ Same(w, m, {p, old, new}, {q, old, new})
  /\ w.next[p] = new /\ w.next[new] = q
  /\ w.prev[new] = p /\ w.prev[q] = new

\* list_replace does that to a node with neighbours.
LEMMA ReplaceEffect ==
  ASSUME NEW m \in Memory, NEW old \in Nodes, NEW new \in Nodes \ {old},
         NEW p \in Nodes \ {old, new}, NEW q \in Nodes \ {old, new},
         p = m.prev[old], q = m.next[old]
  PROVE  /\ Exchanged(list_replace(m, old, new), m, old, new, p, q)
         /\ Exchanged(list_replace_init(m, old, new), m, old, new, p, q)
<1>1. Exchanged(list_replace(m, old, new), m, old, new, p, q)
  BY DEF Exchanged, Same, list_replace, SetNext, SetPrev, Memory, Pointers
<1> DEFINE r == list_replace(m, old, new)
<1>2. LoopedBack(INIT_LIST_HEAD(r, old), r, old) /\ r \in Memory
  BY <1>1, InitEffect DEF Exchanged
<1> HIDE DEF r
<1>3. Exchanged(INIT_LIST_HEAD(r, old), m, old, new, p, q)
  BY <1>1, <1>2 DEF Exchanged, LoopedBack, Same, r
<1> QED BY <1>1, <1>3 DEF list_replace_init, r

\* A head without entries has no other neighbour than itself.
MadeAlone(w, m, old, new) ==
  /\ w \in Memory /\ Same(w, m, {old, new}, {old, new})
  /\ w.next[new] = new /\ w.prev[new] = new

\* And to a head without entries: the order of its stores matters here.
LEMMA ReplaceAloneEffect ==
  ASSUME NEW m \in Memory, NEW old \in Nodes, NEW new \in Nodes \ {old},
         m.prev[old] = old, m.next[old] = old
  PROVE  MadeAlone(list_replace(m, old, new), m, old, new)
BY DEF MadeAlone, Same, list_replace, SetNext, SetPrev, Memory, Pointers

\* The nodes from the first one behind h to e are linked to g, the ones from
\* rest on to h.
CutOff(w, m, g, h, e, first, rest) ==
  /\ w \in Memory /\ Same(w, m, {h, e, g}, {rest, g, first})
  /\ w.next[h] = rest /\ w.next[e] = g /\ w.next[g] = first
  /\ w.prev[rest] = h /\ w.prev[g] = e /\ w.prev[first] = g

\* __list_cut_position does that; rest is read before it is overwritten.
LEMMA CutEffect ==
  ASSUME NEW m \in Memory, NEW g \in Nodes, NEW h \in Nodes \ {g}, NEW e \in Nodes \ {g, h},
         NEW first \in Nodes \ {g}, NEW rest \in Nodes \ {g, first},
         first = m.next[h], rest = m.next[e]
  PROVE  CutOff(__list_cut_position(m, g, h, e), m, g, h, e, first, rest)
BY DEF CutOff, Same, __list_cut_position, SetNext, SetPrev, Memory, Pointers

\* The nodes from first to last are linked in between p and q.
Spliced(w, m, first, last, p, q) ==
  /\ w \in Memory /\ Same(w, m, {p, last}, {q, first})
  /\ w.next[p] = first /\ w.next[last] = q
  /\ w.prev[first] = p /\ w.prev[q] = last

\* __list_splice does that.
LEMMA SpliceEffect ==
  ASSUME NEW m \in Memory, NEW g \in Nodes, NEW first \in Nodes, NEW last \in Nodes,
         NEW p \in Nodes \ {last}, NEW q \in Nodes \ {first},
         first = m.next[g], last = m.prev[g]
  PROVE  Spliced(__list_splice(m, g, p, q), m, first, last, p, q)
BY DEF Spliced, Same, __list_splice, SetNext, SetPrev, Memory, Pointers

-----------------------------------------------------------------------------
(* Rings *)

\* A ring goes once through each of its nodes.
LEMMA OneRing ==
  ASSUME NEW h \in Heads, NEW s \in Seq(Entries), Distinct(s)
  PROVE  /\ \A i, j \in 0 .. Len(s) : At(h, s, i) = At(h, s, j) => i = j
         /\ \A i, j \in 1 .. Len(s) + 1 : At(h, s, i) = At(h, s, j) => i = j
<1>1. Len(s) \in Nat /\ \A k \in 1 .. Len(s) : s[k] # h
  BY RingNodes
<1>2. ASSUME NEW i \in 0 .. Len(s) + 1, NEW j \in 0 .. Len(s) + 1,
             At(h, s, i) = At(h, s, j), i # j
      PROVE  i \notin 1 .. Len(s) /\ j \notin 1 .. Len(s)
  <2>1. i \in 1 .. Len(s) /\ j \in 1 .. Len(s) => s[i] # s[j]
    BY <1>2 DEF Distinct
  <2> QED BY <1>1, <1>2, <2>1 DEF At
<1> QED BY <1>1, <1>2

\* Two rings have no node in common.
LEMMA TwoRings ==
  ASSUME NEW g \in Heads, NEW h \in Heads, g # h, NEW s \in Seq(Entries), NEW t \in Seq(Entries),
         Apart(s, t), NEW i \in Nat, NEW j \in Nat
  PROVE  At(g, s, i) # At(h, t, j)
<1>1. \A k \in 1 .. Len(s) : s[k] \notin Heads
  BY RingNodes
<1>2. \A k \in 1 .. Len(t) : t[k] \notin Heads
  BY RingNodes
<1>3. i \in 1 .. Len(s) /\ j \in 1 .. Len(t) => s[i] # t[j]
  BY DEF Apart
<1> QED BY <1>1, <1>2, <1>3 DEF At

\* An entry is not among those of a sequence, and not on its ring.
NotIn(s, e) == \A i \in 1 .. Len(s) : s[i] # e

\* An entry that is not in the sequence is not on the ring.
LEMMA OffRing ==
  ASSUME NEW h \in Heads, NEW s \in Seq(Entries), NEW e \in Entries, NotIn(s, e), NEW i \in Nat
  PROVE  At(h, s, i) # e
<1>1. e # h
  BY ListConstantsOK
<1> QED BY <1>1 DEF NotIn, At

\* t is s with e behind its k-th entry.
InsertedAt(t, s, k, e) ==
  /\ Len(t) = Len(s) + 1
  /\ \A i \in 1 .. Len(t) : t[i] = IF i <= k THEN s[i] ELSE IF i = k + 1 THEN e ELSE s[i - 1]

\* Linking a node in between neighbours makes the ring of the longer sequence.
LEMMA InsertedRing ==
  ASSUME NEW m \in Memory, NEW h \in Heads, NEW s \in Seq(Entries), Distinct(s), Linked(m, h, s),
         NEW e \in Entries, NotIn(s, e), NEW k \in 0 .. Len(s),
         NEW t \in Seq(Entries), InsertedAt(t, s, k, e),
         NEW w, PutBetween(w, m, e, At(h, s, k), At(h, s, k + 1))
  PROVE  Linked(w, h, t)
<1> DEFINE n == Len(s)
<1>1. n \in Nat /\ \A i \in Nat : At(h, s, i) \in Nodes
  BY RingNodes
<1>2. \A i \in Nat : At(h, s, i) # e
  BY OffRing
<1>3. /\ \A i, j \in 0 .. n : At(h, s, i) = At(h, s, j) => i = j
      /\ \A i, j \in 1 .. n + 1 : At(h, s, i) = At(h, s, j) => i = j
  BY OneRing
<1>4. /\ Len(t) = n + 1
      /\ \A i \in 0 .. k : At(h, t, i) = At(h, s, i)
      /\ At(h, t, k + 1) = e
      /\ \A i \in k + 1 .. n + 1 : At(h, t, i + 1) = At(h, s, i)
  BY <1>1 DEF At, InsertedAt
<1>5. \A i \in 0 .. n : m.next[At(h, s, i)] = At(h, s, i + 1) /\ m.prev[At(h, s, i + 1)] = At(h, s, i)
  BY DEF Linked
<1>6. \A x \in Nodes \ {At(h, s, k), e} : w.next[x] = m.next[x]
  BY DEF PutBetween, Same
<1>7. \A x \in Nodes \ {e, At(h, s, k + 1)} : w.prev[x] = m.prev[x]
  BY DEF PutBetween, Same
<1> HIDE DEF n
<1>8. ASSUME NEW i \in 0 .. n, i # k
      PROVE  w.next[At(h, s, i)] = At(h, s, i + 1) /\ w.prev[At(h, s, i + 1)] = At(h, s, i)
  <2>1. i \in Nat /\ i + 1 \in Nat /\ k \in 0 .. n /\ i + 1 \in 1 .. n + 1 /\ k + 1 \in 1 .. n + 1 /\ i + 1 # k + 1
    BY <1>1, <1>8 DEF n
  <2>2. At(h, s, i) # At(h, s, k)
    BY <1>3, <1>8, <2>1
  <2>3. At(h, s, i + 1) # At(h, s, k + 1)
    BY <1>3, <1>8, <2>1
  <2>4. At(h, s, i) \in Nodes \ {At(h, s, k), e} /\ At(h, s, i + 1) \in Nodes \ {e, At(h, s, k + 1)}
    BY <1>1, <1>2, <2>1, <2>2, <2>3
  <2> QED BY <1>5, <1>6, <1>7, <2>4
<1>9. ASSUME NEW i \in 0 .. n + 1
      PROVE  w.next[At(h, t, i)] = At(h, t, i + 1) /\ w.prev[At(h, t, i + 1)] = At(h, t, i)
  <2>0. k \in Nat /\ k <= n
    BY <1>1 DEF n
  <2>1. CASE i < k
    <3>1. i \in 0 .. k /\ i + 1 \in 0 .. k /\ i \in 0 .. n /\ i # k
      BY <1>1, <2>0, <2>1
    <3>2. At(h, t, i) = At(h, s, i) /\ At(h, t, i + 1) = At(h, s, i + 1)
      BY <1>4, <3>1
    <3> QED BY <1>8, <3>1, <3>2
  <2>2. CASE i = k
    <3>1. At(h, t, i) = At(h, s, k) /\ At(h, t, i + 1) = e
      BY <1>4, <2>0, <2>2
    <3> QED BY <3>1 DEF PutBetween
  <2>3. CASE i = k + 1
    <3>1. At(h, t, i) = e /\ At(h, t, i + 1) = At(h, s, k + 1)
      BY <1>1, <1>4, <2>0, <2>3
    <3> QED BY <3>1 DEF PutBetween
  <2>4. CASE i > k + 1
    <3>1. /\ i - 1 \in k + 1 .. n + 1 /\ i \in k + 1 .. n + 1 /\ (i - 1) + 1 = i
          /\ i - 1 \in 0 .. n /\ i - 1 # k
      BY <1>1, <2>0, <2>4
    <3>2. At(h, t, i) = At(h, s, i - 1) /\ At(h, t, i + 1) = At(h, s, i)
      BY <1>4, <3>1
    <3> QED BY <1>8, <3>1, <3>2
  <2> QED BY <2>0, <2>1, <2>2, <2>3, <2>4
<1> QED BY <1>1, <1>4, <1>9 DEF Linked

\* t is s without its k-th entry.
RemovedAt(t, s, k) ==
  /\ Len(t) = Len(s) - 1
  /\ \A i \in 1 .. Len(t) : t[i] = IF i < k THEN s[i] ELSE s[i + 1]

\* Taking a node out makes the ring of the shorter sequence.
LEMMA RemovedRing ==
  ASSUME NEW m \in Memory, NEW h \in Heads, NEW s \in Seq(Entries), Distinct(s), Linked(m, h, s),
         NEW k \in 1 .. Len(s), NEW t \in Seq(Entries), RemovedAt(t, s, k),
         NEW w, TakenOut(w, m, s[k], At(h, s, k - 1), At(h, s, k + 1))
  PROVE  Linked(w, h, t)
<1> DEFINE n == Len(s)
<1>1. n \in Nat /\ k \in Nat /\ 1 <= k /\ k <= n /\ \A i \in Nat : At(h, s, i) \in Nodes
  BY RingNodes
<1>2. s[k] = At(h, s, k)
  BY DEF At
<1>3. /\ \A i, j \in 0 .. n : At(h, s, i) = At(h, s, j) => i = j
      /\ \A i, j \in 1 .. n + 1 : At(h, s, i) = At(h, s, j) => i = j
  BY OneRing
<1>4. /\ Len(t) = n - 1
      /\ \A i \in 0 .. k - 1 : At(h, t, i) = At(h, s, i)
      /\ \A i \in k .. n : At(h, t, i) = At(h, s, i + 1)
  <2>1. Len(t) = n - 1 /\ Len(t) \in Nat
    BY <1>1 DEF RemovedAt
  <2>2. ASSUME NEW i \in 0 .. k - 1 PROVE At(h, t, i) = At(h, s, i)
    BY <1>1, <2>1 DEF At, RemovedAt
  <2>3. ASSUME NEW i \in k .. n PROVE At(h, t, i) = At(h, s, i + 1)
    BY <1>1, <2>1 DEF At, RemovedAt
  <2> QED BY <2>1, <2>2, <2>3
<1>5. \A i \in 0 .. n : m.next[At(h, s, i)] = At(h, s, i + 1) /\ m.prev[At(h, s, i + 1)] = At(h, s, i)
  BY DEF Linked
<1>6. \A x \in Nodes \ {At(h, s, k - 1), At(h, s, k)} : w.next[x] = m.next[x]
  BY <1>2 DEF TakenOut, Same
<1>7. \A x \in Nodes \ {At(h, s, k), At(h, s, k + 1)} : w.prev[x] = m.prev[x]
  BY <1>2 DEF TakenOut, Same
<1> HIDE DEF n
<1>8. ASSUME NEW i \in 0 .. n, i # k, i # k - 1
      PROVE  w.next[At(h, s, i)] = At(h, s, i + 1) /\ w.prev[At(h, s, i + 1)] = At(h, s, i)
  <2>1. /\ i \in Nat /\ i + 1 \in Nat /\ i + 1 \in 1 .. n + 1
        /\ k - 1 \in 0 .. n /\ k \in 0 .. n /\ k \in 1 .. n + 1 /\ k + 1 \in 1 .. n + 1
        /\ i + 1 # k + 1 /\ i + 1 # k
    BY <1>1, <1>8
  <2>2. At(h, s, i) # At(h, s, k) /\ At(h, s, i) # At(h, s, k - 1)
    BY <1>3, <1>8, <2>1
  <2>3. At(h, s, i + 1) # At(h, s, k + 1) /\ At(h, s, i + 1) # At(h, s, k)
    BY <1>3, <1>8, <2>1
  <2>4. At(h, s, i) \in Nodes /\ At(h, s, i + 1) \in Nodes
    BY <1>1, <2>1
  <2> QED BY <1>5, <1>6, <1>7, <2>2, <2>3, <2>4
<1>9. ASSUME NEW i \in 0 .. n - 1
      PROVE  w.next[At(h, t, i)] = At(h, t, i + 1) /\ w.prev[At(h, t, i + 1)] = At(h, t, i)
  <2>1. CASE i < k - 1
    <3>1. i \in 0 .. k - 1 /\ i + 1 \in 0 .. k - 1 /\ i \in 0 .. n /\ i # k /\ i # k - 1
      BY <1>1, <2>1
    <3>2. At(h, t, i) = At(h, s, i) /\ At(h, t, i + 1) = At(h, s, i + 1)
      BY <1>4, <3>1
    <3> QED BY <1>8, <3>1, <3>2
  <2>2. CASE i = k - 1
    <3>1. i \in 0 .. k - 1 /\ i + 1 \in k .. n /\ i + 1 = k
      BY <1>1, <2>2
    <3>2. At(h, t, i) = At(h, s, k - 1) /\ At(h, t, i + 1) = At(h, s, k + 1)
      BY <1>4, <2>2, <3>1
    <3> QED BY <3>2 DEF TakenOut
  <2>3. CASE i > k - 1
    <3>1. i \in k .. n /\ i + 1 \in k .. n /\ i + 1 \in 0 .. n /\ i + 1 # k /\ i + 1 # k - 1
      BY <1>1, <2>3
    <3>2. At(h, t, i) = At(h, s, i + 1) /\ At(h, t, i + 1) = At(h, s, (i + 1) + 1)
      BY <1>4, <3>1
    <3> QED BY <1>8, <3>1, <3>2
  <2> QED BY <1>1, <2>1, <2>2, <2>3
<1> QED BY <1>1, <1>4, <1>9 DEF Linked

\* t is s with e in place of its k-th entry.
ChangedAt(t, s, k, e) ==
  /\ Len(t) = Len(s)
  /\ \A i \in 1 .. Len(t) : t[i] = IF i = k THEN e ELSE s[i]

\* A node in the place of another one makes the ring of the changed sequence.
LEMMA ChangedRing ==
  ASSUME NEW m \in Memory, NEW h \in Heads, NEW s \in Seq(Entries), Distinct(s), Linked(m, h, s),
         NEW e \in Entries, NotIn(s, e),
         NEW k \in 1 .. Len(s), NEW t \in Seq(Entries), ChangedAt(t, s, k, e),
         NEW w, Exchanged(w, m, s[k], e, At(h, s, k - 1), At(h, s, k + 1))
  PROVE  Linked(w, h, t)
<1> DEFINE n == Len(s)
<1>1. n \in Nat /\ k \in Nat /\ 1 <= k /\ k <= n /\ \A i \in Nat : At(h, s, i) \in Nodes
  BY RingNodes
<1>2. s[k] = At(h, s, k) /\ \A i \in Nat : At(h, s, i) # e
  BY OffRing DEF At
<1>3. /\ \A i, j \in 0 .. n : At(h, s, i) = At(h, s, j) => i = j
      /\ \A i, j \in 1 .. n + 1 : At(h, s, i) = At(h, s, j) => i = j
  BY OneRing
<1>4. /\ Len(t) = n
      /\ \A i \in 0 .. n + 1 : i # k => At(h, t, i) = At(h, s, i)
      /\ At(h, t, k) = e
  BY <1>1 DEF At, ChangedAt
<1>5. \A i \in 0 .. n : m.next[At(h, s, i)] = At(h, s, i + 1) /\ m.prev[At(h, s, i + 1)] = At(h, s, i)
  BY DEF Linked
<1>6. \A x \in Nodes \ {At(h, s, k - 1), At(h, s, k), e} : w.next[x] = m.next[x]
  BY <1>2 DEF Exchanged, Same
<1>7. \A x \in Nodes \ {At(h, s, k + 1), At(h, s, k), e} : w.prev[x] = m.prev[x]
  BY <1>2 DEF Exchanged, Same
<1> HIDE DEF n
<1>8. ASSUME NEW i \in 0 .. n, i # k, i # k - 1
      PROVE  w.next[At(h, s, i)] = At(h, s, i + 1) /\ w.prev[At(h, s, i + 1)] = At(h, s, i)
  <2>1. /\ i \in Nat /\ i + 1 \in Nat /\ i + 1 \in 1 .. n + 1
        /\ k - 1 \in 0 .. n /\ k \in 0 .. n /\ k \in 1 .. n + 1 /\ k + 1 \in 1 .. n + 1
        /\ i + 1 # k + 1 /\ i + 1 # k
    BY <1>1, <1>8
  <2>2. At(h, s, i) # At(h, s, k) /\ At(h, s, i) # At(h, s, k - 1)
    BY <1>3, <1>8, <2>1
  <2>3. At(h, s, i + 1) # At(h, s, k + 1) /\ At(h, s, i + 1) # At(h, s, k)
    BY <1>3, <1>8, <2>1
  <2>4. At(h, s, i) \in Nodes \ {e} /\ At(h, s, i + 1) \in Nodes \ {e}
    BY <1>1, <1>2, <2>1
  <2> QED BY <1>5, <1>6, <1>7, <2>2, <2>3, <2>4
<1>9. ASSUME NEW i \in 0 .. n
      PROVE  w.next[At(h, t, i)] = At(h, t, i + 1) /\ w.prev[At(h, t, i + 1)] = At(h, t, i)
  <2>1. CASE i # k /\ i # k - 1
    <3>1. i \in 0 .. n + 1 /\ i + 1 \in 0 .. n + 1 /\ i + 1 # k
      BY <1>1, <2>1
    <3>2. At(h, t, i) = At(h, s, i) /\ At(h, t, i + 1) = At(h, s, i + 1)
      BY <1>4, <2>1, <3>1
    <3> QED BY <1>8, <2>1, <3>2
  <2>2. CASE i = k - 1
    <3>1. i \in 0 .. n + 1 /\ i # k /\ i + 1 = k
      BY <1>1, <2>2
    <3>2. At(h, t, i) = At(h, s, k - 1) /\ At(h, t, i + 1) = e
      BY <1>4, <2>2, <3>1
    <3> QED BY <3>2 DEF Exchanged
  <2>3. CASE i = k
    <3>1. k + 1 \in 0 .. n + 1 /\ k + 1 # k
      BY <1>1
    <3>2. At(h, t, i) = e /\ At(h, t, i + 1) = At(h, s, k + 1)
      BY <1>4, <2>3, <3>1
    <3> QED BY <3>2 DEF Exchanged
  <2> QED BY <2>1, <2>2, <2>3
<1> QED BY <1>1, <1>4, <1>9 DEF Linked

\* A new head takes over the ring of h.
LEMMA TakenOverRing ==
  ASSUME NEW m \in Memory, NEW h \in Heads, NEW g \in Heads \ {h}, NEW s \in Seq(Entries),
         Distinct(s), Linked(m, h, s), Len(s) > 0,
         NEW w, Exchanged(w, m, h, g, At(h, s, Len(s)), At(h, s, 1))
  PROVE  Linked(w, g, s)
<1> DEFINE n == Len(s)
<1>1. n \in Nat /\ n > 0 /\ \A i \in Nat : At(h, s, i) \in Nodes
  BY RingNodes
<1>2. \A i \in 1 .. n : At(g, s, i) = At(h, s, i) /\ At(h, s, i) # h /\ At(h, s, i) # g
  BY RingNodes DEF At
<1>3. At(g, s, 0) = g /\ At(g, s, n + 1) = g
  BY RingNodes
<1>4. \A i, j \in 0 .. n : At(h, s, i) = At(h, s, j) => i = j
  BY OneRing
<1>5. \A i \in 0 .. n : m.next[At(h, s, i)] = At(h, s, i + 1) /\ m.prev[At(h, s, i + 1)] = At(h, s, i)
  BY DEF Linked
<1>6. \A x \in Nodes \ {At(h, s, n), h, g} : w.next[x] = m.next[x]
  BY DEF Exchanged, Same
<1>7. \A x \in Nodes \ {At(h, s, 1), h, g} : w.prev[x] = m.prev[x]
  BY DEF Exchanged, Same
<1>8. w.next[At(h, s, n)] = g /\ w.next[g] = At(h, s, 1) /\ w.prev[g] = At(h, s, n) /\ w.prev[At(h, s, 1)] = g
  BY DEF Exchanged
<1> HIDE DEF n
<1>9. ASSUME NEW i \in 0 .. n
      PROVE  w.next[At(g, s, i)] = At(g, s, i + 1)
  <2>1. CASE i = 0
    <3>1. 1 \in 1 .. n
      BY <1>1
    <3> QED BY <1>2, <1>3, <1>8, <2>1, <3>1
  <2>2. CASE i # 0 /\ i # n
    <3>1. i \in 1 .. n /\ i + 1 \in 1 .. n /\ n \in 0 .. n /\ i \in Nat
      BY <1>1, <2>2
    <3>2. At(h, s, i) \in Nodes \ {At(h, s, n), h, g}
      BY <1>1, <1>2, <1>4, <2>2, <3>1
    <3> QED BY <1>2, <1>5, <1>6, <3>1, <3>2
  <2>3. CASE i = n
    <3>1. n \in 1 .. n
      BY <1>1
    <3> QED BY <1>2, <1>3, <1>8, <2>3, <3>1
  <2> QED BY <2>1, <2>2, <2>3
<1>10. ASSUME NEW i \in 0 .. n
       PROVE  w.prev[At(g, s, i + 1)] = At(g, s, i)
  <2>1. CASE i = 0
    <3>1. 1 \in 1 .. n
      BY <1>1
    <3> QED BY <1>2, <1>3, <1>8, <2>1, <3>1
  <2>2. CASE i # 0 /\ i # n
    <3>1. /\ i \in 1 .. n /\ i + 1 \in 1 .. n /\ i + 1 \in 0 .. n /\ 1 \in 0 .. n /\ i + 1 # 1
          /\ i + 1 \in Nat
      BY <1>1, <2>2
    <3>2. At(h, s, i + 1) # At(h, s, 1)
      BY <1>4, <3>1
    <3>3. At(h, s, i + 1) \in Nodes \ {At(h, s, 1), h, g}
      BY <1>1, <1>2, <3>1, <3>2
    <3> QED BY <1>2, <1>5, <1>7, <3>1, <3>3
  <2>3. CASE i = n
    <3>1. n \in 1 .. n
      BY <1>1
    <3> QED BY <1>2, <1>3, <1>8, <2>3, <3>1
  <2> QED BY <2>1, <2>2, <2>3
<1> QED BY <1>9, <1>10 DEF Linked, n

\* s is cut behind its k-th entry into a and b.
CutAt(a, b, s, k) ==
  /\ Len(a) = k /\ Len(b) = Len(s) - k
  /\ \A i \in 1 .. Len(a) : a[i] = s[i]
  /\ \A i \in 1 .. Len(b) : b[i] = s[i + k]

\* Cutting a ring makes two.
LEMMA CutRings ==
  ASSUME NEW m \in Memory, NEW h \in Heads, NEW g \in Heads \ {h}, NEW s \in Seq(Entries),
         Distinct(s), Linked(m, h, s), NEW k \in 1 .. Len(s),
         NEW a \in Seq(Entries), NEW b \in Seq(Entries), CutAt(a, b, s, k),
         NEW w, CutOff(w, m, g, h, s[k], At(h, s, 1), At(h, s, k + 1))
  PROVE  Linked(w, g, a) /\ Linked(w, h, b)
<1> DEFINE n == Len(s)
<1>1. n \in Nat /\ k \in Nat /\ 1 <= k /\ k <= n /\ \A i \in Nat : At(h, s, i) \in Nodes
  BY RingNodes
<1>2. s[k] = At(h, s, k)
  BY DEF At
<1>3. \A i \in Nat : At(h, s, i) # g
  BY RingNodes DEF At
<1>4. /\ \A i, j \in 0 .. n : At(h, s, i) = At(h, s, j) => i = j
      /\ \A i, j \in 1 .. n + 1 : At(h, s, i) = At(h, s, j) => i = j
  BY OneRing
<1>5. At(h, s, 0) = h /\ At(h, s, n + 1) = h
  BY RingNodes
<1>6. /\ Len(a) = k
      /\ \A i \in 1 .. k : At(g, a, i) = At(h, s, i)
      /\ At(g, a, 0) = g /\ At(g, a, k + 1) = g
  BY <1>1 DEF At, CutAt
<1>7. /\ Len(b) = n - k
      /\ \A i \in 1 .. (n - k) + 1 : At(h, b, i) = At(h, s, i + k)
      /\ At(h, b, 0) = h
  <2>1. Len(b) = n - k /\ Len(b) \in Nat
    BY <1>1 DEF CutAt
  <2>2. ASSUME NEW i \in 1 .. (n - k) + 1 PROVE At(h, b, i) = At(h, s, i + k)
    BY <1>1, <2>1 DEF At, CutAt
  <2>3. At(h, b, 0) = h
    BY DEF At
  <2> QED BY <2>1, <2>2, <2>3
<1>8. \A i \in 0 .. n : m.next[At(h, s, i)] = At(h, s, i + 1) /\ m.prev[At(h, s, i + 1)] = At(h, s, i)
  BY DEF Linked
<1>9. \A x \in Nodes \ {At(h, s, 0), At(h, s, k), g} : w.next[x] = m.next[x]
  BY <1>2, <1>5 DEF CutOff, Same
<1>10. \A x \in Nodes \ {At(h, s, k + 1), g, At(h, s, 1)} : w.prev[x] = m.prev[x]
  BY DEF CutOff, Same
<1>11. /\ w.next[h] = At(h, s, k + 1) /\ w.prev[At(h, s, k + 1)] = h
       /\ w.next[At(h, s, k)] = g /\ w.prev[g] = At(h, s, k)
       /\ w.next[g] = At(h, s, 1) /\ w.prev[At(h, s, 1)] = g
  BY <1>2 DEF CutOff
<1> HIDE DEF n
<1>12. ASSUME NEW i \in 1 .. n, i # k
       PROVE  w.next[At(h, s, i)] = At(h, s, i + 1) /\ w.prev[At(h, s, i + 1)] = At(h, s, i)
  <2>1. /\ i \in Nat /\ i + 1 \in Nat /\ i \in 0 .. n /\ i + 1 \in 1 .. n + 1
        /\ 0 \in 0 .. n /\ k \in 0 .. n /\ 1 \in 1 .. n + 1 /\ k + 1 \in 1 .. n + 1
        /\ i # 0 /\ i + 1 # k + 1 /\ i + 1 # 1
    BY <1>1, <1>12
  <2>2. At(h, s, i) # At(h, s, 0) /\ At(h, s, i) # At(h, s, k)
    BY <1>4, <1>12, <2>1
  <2>3. At(h, s, i + 1) # At(h, s, k + 1) /\ At(h, s, i + 1) # At(h, s, 1)
    BY <1>4, <2>1
  <2>4. At(h, s, i) \in Nodes \ {g} /\ At(h, s, i + 1) \in Nodes \ {g}
    BY <1>1, <1>3, <2>1
  <2> QED BY <1>8, <1>9, <1>10, <2>1, <2>2, <2>3, <2>4
<1>13. ASSUME NEW i \in 0 .. k
       PROVE  w.next[At(g, a, i)] = At(g, a, i + 1) /\ w.prev[At(g, a, i + 1)] = At(g, a, i)
  <2>1. CASE i = 0
    <3>1. 1 \in 1 .. k
      BY <1>1
    <3> QED BY <1>6, <1>11, <2>1, <3>1
  <2>2. CASE i = k
    <3>1. k \in 1 .. k
      BY <1>1
    <3> QED BY <1>6, <1>11, <2>2, <3>1
  <2>3. CASE i # 0 /\ i # k
    <3>1. i \in 1 .. k /\ i + 1 \in 1 .. k /\ i \in 1 .. n
      BY <1>1, <2>3
    <3> QED BY <1>6, <1>12, <2>3, <3>1
  <2> QED BY <2>1, <2>2, <2>3
<1>14. ASSUME NEW i \in 0 .. n - k
       PROVE  w.next[At(h, b, i)] = At(h, b, i + 1) /\ w.prev[At(h, b, i + 1)] = At(h, b, i)
  <2>1. CASE i = 0
    <3>1. 1 \in 1 .. (n - k) + 1 /\ 1 + k = k + 1
      BY <1>1
    <3>2. At(h, b, 1) = At(h, s, k + 1)
      BY <1>7, <3>1
    <3> QED BY <1>7, <1>11, <2>1, <3>2
  <2>2. CASE i # 0
    <3>1. /\ i \in 1 .. (n - k) + 1 /\ i + 1 \in 1 .. (n - k) + 1
          /\ i + k \in 1 .. n /\ i + k # k /\ (i + 1) + k = (i + k) + 1
      BY <1>1, <2>2
    <3>2. At(h, b, i) = At(h, s, i + k) /\ At(h, b, i + 1) = At(h, s, (i + k) + 1)
      BY <1>7, <3>1
    <3> QED BY <1>12, <3>1, <3>2
  <2> QED BY <2>1, <2>2
<1>15. Linked(w, g, a)
  BY <1>6, <1>13 DEF Linked
<1>16. Linked(w, h, b)
  BY <1>7, <1>14 DEF Linked
<1> QED BY <1>15, <1>16

\* t is s with all of r behind its k-th entry.
JoinedAt(t, s, k, r) ==
  /\ Len(t) = Len(s) + Len(r)
  /\ \A i \in 1 .. Len(t) : t[i] = IF i <= k THEN s[i]
                                   ELSE IF i <= k + Len(r) THEN r[i - k] ELSE s[i - Len(r)]

\* Splicing one ring into another makes one.
LEMMA JoinedRing ==
  ASSUME NEW m \in Memory, NEW h \in Heads, NEW g \in Heads \ {h},
         NEW s \in Seq(Entries), Distinct(s), Linked(m, h, s), NEW k \in 0 .. Len(s),
         NEW r \in Seq(Entries), Distinct(r), Linked(m, g, r), Len(r) > 0, Apart(s, r),
         NEW t \in Seq(Entries), JoinedAt(t, s, k, r),
         NEW w, Spliced(w, m, At(g, r, 1), At(g, r, Len(r)), At(h, s, k), At(h, s, k + 1))
  PROVE  Linked(w, h, t)
<1> DEFINE n == Len(s)
           c == Len(r)
<1>1. n \in Nat /\ k \in Nat /\ k <= n /\ \A i \in Nat : At(h, s, i) \in Nodes
  BY RingNodes
<1>2. c \in Nat /\ c > 0 /\ \A i \in Nat : At(g, r, i) \in Nodes
  BY RingNodes
<1>3. \A i, j \in Nat : At(h, s, i) # At(g, r, j)
  BY TwoRings
<1>4. /\ \A i, j \in 0 .. n : At(h, s, i) = At(h, s, j) => i = j
      /\ \A i, j \in 1 .. n + 1 : At(h, s, i) = At(h, s, j) => i = j
  BY OneRing
<1>5. /\ \A i, j \in 0 .. c : At(g, r, i) = At(g, r, j) => i = j
      /\ \A i, j \in 1 .. c + 1 : At(g, r, i) = At(g, r, j) => i = j
  BY OneRing
<1>6. /\ Len(t) = n + c
      /\ \A i \in 0 .. k : At(h, t, i) = At(h, s, i)
      /\ \A i \in 1 .. c : At(h, t, i + k) = At(g, r, i)
      /\ \A i \in k + 1 .. n + 1 : At(h, t, i + c) = At(h, s, i)
  <2>1. Len(t) = n + c
    BY DEF JoinedAt
  <2>2. ASSUME NEW i \in 0 .. k PROVE At(h, t, i) = At(h, s, i)
    BY <1>1, <1>2, <2>1 DEF At, JoinedAt
  <2>3. ASSUME NEW i \in 1 .. c PROVE At(h, t, i + k) = At(g, r, i)
    BY <1>1, <1>2, <2>1 DEF At, JoinedAt
  <2>4. ASSUME NEW i \in k + 1 .. n + 1 PROVE At(h, t, i + c) = At(h, s, i)
    <3>1. CASE i <= n
      <4>1. i + c \in 1 .. Len(t) /\ ~(i + c <= k) /\ ~(i + c <= k + c) /\ (i + c) - c = i /\ i \in 1 .. n
        BY <1>1, <1>2, <2>1, <3>1
      <4>2. t[i + c] = s[i]
        BY <4>1 DEF JoinedAt
      <4> QED BY <4>1, <4>2 DEF At
    <3>2. CASE i > n
      <4>1. i + c \notin 1 .. Len(t) /\ i \notin 1 .. n
        BY <1>1, <1>2, <2>1, <3>2
      <4> QED BY <4>1 DEF At
    <3> QED BY <1>1, <3>1, <3>2
  <2> QED BY <2>1, <2>2, <2>3, <2>4
<1>7. \A i \in 0 .. n : m.next[At(h, s, i)] = At(h, s, i + 1) /\ m.prev[At(h, s, i + 1)] = At(h, s, i)
  BY DEF Linked
<1>8. \A i \in 0 .. c : m.next[At(g, r, i)] = At(g, r, i + 1) /\ m.prev[At(g, r, i + 1)] = At(g, r, i)
  BY DEF Linked
<1>9. \A x \in Nodes \ {At(h, s, k), At(g, r, c)} : w.next[x] = m.next[x]
  BY DEF Spliced, Same
<1>10. \A x \in Nodes \ {At(h, s, k + 1), At(g, r, 1)} : w.prev[x] = m.prev[x]
  BY DEF Spliced, Same
<1>11. /\ w.next[At(h, s, k)] = At(g, r, 1) /\ w.prev[At(g, r, 1)] = At(h, s, k)
       /\ w.next[At(g, r, c)] = At(h, s, k + 1) /\ w.prev[At(h, s, k + 1)] = At(g, r, c)
  BY DEF Spliced
<1> HIDE DEF n, c
<1>12. ASSUME NEW i \in 0 .. n, i # k
       PROVE  w.next[At(h, s, i)] = At(h, s, i + 1) /\ w.prev[At(h, s, i + 1)] = At(h, s, i)
  <2>1. /\ i \in Nat /\ i + 1 \in Nat /\ i + 1 \in 1 .. n + 1 /\ c \in Nat /\ 1 \in Nat
        /\ k \in 0 .. n /\ k + 1 \in 1 .. n + 1 /\ i + 1 # k + 1
    BY <1>1, <1>2, <1>12
  <2>2. At(h, s, i) # At(h, s, k) /\ At(h, s, i) # At(g, r, c)
    BY <1>3, <1>4, <1>12, <2>1
  <2>3. At(h, s, i + 1) # At(h, s, k + 1) /\ At(h, s, i + 1) # At(g, r, 1)
    BY <1>3, <1>4, <2>1
  <2>4. At(h, s, i) \in Nodes /\ At(h, s, i + 1) \in Nodes
    BY <1>1, <2>1
  <2> QED BY <1>7, <1>9, <1>10, <2>1, <2>2, <2>3, <2>4
<1>13. ASSUME NEW i \in 1 .. c - 1
       PROVE  w.next[At(g, r, i)] = At(g, r, i + 1) /\ w.prev[At(g, r, i + 1)] = At(g, r, i)
  <2>1. /\ i \in Nat /\ i + 1 \in Nat /\ i \in 0 .. c /\ i + 1 \in 1 .. c + 1 /\ k \in Nat /\ k + 1 \in Nat
        /\ c \in 0 .. c /\ 1 \in 1 .. c + 1 /\ i # c /\ i + 1 # 1
    BY <1>1, <1>2, <1>13
  <2>2. At(g, r, i) # At(g, r, c) /\ At(g, r, i) # At(h, s, k)
    BY <1>3, <1>5, <2>1
  <2>3. At(g, r, i + 1) # At(g, r, 1) /\ At(g, r, i + 1) # At(h, s, k + 1)
    BY <1>3, <1>5, <2>1
  <2>4. At(g, r, i) \in Nodes /\ At(g, r, i + 1) \in Nodes
    BY <1>2, <2>1
  <2> QED BY <1>8, <1>9, <1>10, <2>1, <2>2, <2>3, <2>4
<1>14. ASSUME NEW i \in 0 .. n + c
       PROVE  w.next[At(h, t, i)] = At(h, t, i + 1) /\ w.prev[At(h, t, i + 1)] = At(h, t, i)
  <2>1. CASE i < k
    <3>1. i \in 0 .. k /\ i + 1 \in 0 .. k /\ i \in 0 .. n /\ i # k
      BY <1>1, <2>1
    <3> QED BY <1>6, <1>12, <3>1
  <2>2. CASE i = k
    <3>1. k \in 0 .. k /\ 1 \in 1 .. c /\ 1 + k = k + 1
      BY <1>1, <1>2
    <3>2. At(h, t, i) = At(h, s, k) /\ At(h, t, i + 1) = At(g, r, 1)
      BY <1>6, <2>2, <3>1
    <3> QED BY <1>11, <3>2
  <2>3. CASE i > k /\ i < k + c
    <3>1. /\ i - k \in 1 .. c /\ (i - k) + 1 \in 1 .. c /\ i - k \in 1 .. c - 1
          /\ (i - k) + k = i /\ ((i - k) + 1) + k = i + 1
      BY <1>1, <1>2, <2>3
    <3>2. At(h, t, i) = At(g, r, i - k)
      BY <1>6, <3>1
    <3>3. At(h, t, i + 1) = At(g, r, (i - k) + 1)
      BY <1>6, <3>1
    <3> QED BY <1>13, <3>1, <3>2, <3>3
  <2>4. CASE i = k + c
    <3>1. c \in 1 .. c /\ c + k = i /\ k + 1 \in k + 1 .. n + 1 /\ (k + 1) + c = i + 1
      BY <1>1, <1>2, <2>4
    <3>2. At(h, t, i) = At(g, r, c)
      BY <1>6, <3>1
    <3>3. At(h, t, i + 1) = At(h, s, k + 1)
      BY <1>6, <3>1
    <3> QED BY <1>11, <3>2, <3>3
  <2>5. CASE i > k + c
    <3>1. /\ i - c \in k + 1 .. n + 1 /\ (i - c) + 1 \in k + 1 .. n + 1 /\ i - c \in 0 .. n /\ i - c # k
          /\ (i - c) + c = i /\ ((i - c) + 1) + c = i + 1
      BY <1>1, <1>2, <2>5
    <3>2. At(h, t, i) = At(h, s, i - c)
      BY <1>6, <3>1
    <3>3. At(h, t, i + 1) = At(h, s, (i - c) + 1)
      BY <1>6, <3>1
    <3> QED BY <1>12, <3>1, <3>2, <3>3
  <2> QED BY <1>1, <1>2, <2>1, <2>2, <2>3, <2>4, <2>5
<1> QED BY <1>6, <1>14 DEF Linked

-----------------------------------------------------------------------------
(* Families of rings *)

\* An entry is on no list.
OffAll(l, e) == \A h \in Heads : NotIn(l[h], e)

\* Two sequences are changed, the others have none of their entries.
AllApart(s, l, C) == \A f \in Heads \ C : Apart(s, l[f])

Agree(l2, l, C) == \A f \in Heads \ C : l2[f] = l[f]

\* Two lists that changed, to entries of neither another list nor each other.
LEMMA TwoChanged ==
  ASSUME NEW l, Unique(l), NEW l2, NEW g \in Heads, NEW h \in Heads, g # h,
         NEW C, C = {g, h}, Agree(l2, l, C),
         Distinct(l2[g]), Distinct(l2[h]), Apart(l2[g], l2[h]),
         AllApart(l2[g], l, C), AllApart(l2[h], l, C)
  PROVE  Unique(l2)
<1>1. \A f \in Heads : Distinct(l2[f])
  BY DEF Unique, Agree
<1>2. /\ Apart(l2[h], l2[g])
      /\ \A f \in Heads \ C : Apart(l2[f], l2[g]) /\ Apart(l2[f], l2[h])
  BY DEF Apart, Agree, AllApart
<1>3. ASSUME NEW e \in Heads, NEW f \in Heads, e # f PROVE Apart(l2[e], l2[f])
  <2>1. CASE e \in C /\ f \in C
    BY <1>2, <1>3, <2>1
  <2>2. CASE e \in C /\ f \notin C
    BY <2>2 DEF Agree, AllApart
  <2>3. CASE e \notin C /\ f \in C
    BY <1>2, <2>3
  <2>4. CASE e \notin C /\ f \notin C
    BY <1>3, <2>4 DEF Agree, Unique
  <2> QED BY <2>1, <2>2, <2>3, <2>4
<1> QED BY <1>1, <1>3 DEF Unique

\* One list that changed, to entries of no other list.
LEMMA OneChanged ==
  ASSUME NEW l \in [Heads -> Seq(Entries)], Unique(l), NEW h \in Heads, NEW t \in Seq(Entries),
         Distinct(t), \A g \in Heads \ {h} : Apart(t, l[g]), NEW l2, l2 = [l EXCEPT ![h] = t]
  PROVE  /\ l2 \in [Heads -> Seq(Entries)] /\ Unique(l2)
         /\ l2[h] = t /\ \A g \in Heads \ {h} : l2[g] = l[g]
<1>1. l2 \in [Heads -> Seq(Entries)] /\ l2[h] = t /\ \A g \in Heads \ {h} : l2[g] = l[g]
  OBVIOUS
<1>2. \A g \in Heads : Distinct(l2[g])
  BY <1>1 DEF Unique
<1>3. \A g \in Heads \ {h} : Apart(l[g], t)
  BY DEF Apart
<1>4. ASSUME NEW f \in Heads, NEW g \in Heads, f # g PROVE Apart(l2[f], l2[g])
  BY <1>1, <1>3, <1>4 DEF Unique
<1> QED BY <1>1, <1>2, <1>4 DEF Unique

\* The heads in C are undefined and empty, or their rings are linked.
Settled(w, v, l, C) ==
  \A h \in C : (h \in v => l[h] = <<>>) /\ (h \notin v => Linked(w, h, l[h]))

\* The other heads have the sequences they had, and nothing was stored to
\* their rings.
Spared(w, m, u, v, l, l2, C) ==
  \A h \in Heads \ C :
    /\ l2[h] = l[h] /\ (h \in v <=> h \in u)
    /\ \A i \in Nat : /\ w.next[At(h, l[h], i)] = m.next[At(h, l[h], i)]
                      /\ w.prev[At(h, l[h], i)] = m.prev[At(h, l[h], i)]

\* The changed rings are settled, the others spared: together they represent.
LEMMA Assemble ==
  ASSUME NEW m, NEW u, NEW l, Represents(m, u, l),
         NEW w \in Memory, NEW v \in SUBSET Heads, NEW l2 \in [Heads -> Seq(Entries)], Unique(l2),
         NEW C \in SUBSET Heads, Settled(w, v, l2, C), Spared(w, m, u, v, l, l2, C)
  PROVE  Represents(w, v, l2)
<1>1. ASSUME NEW h \in Heads \ C, h \notin v PROVE Linked(w, h, l2[h])
  <2>1. l[h] \in Seq(Entries) /\ Linked(m, h, l[h]) /\ l2[h] = l[h] /\ Len(l[h]) \in Nat
    BY <1>1, LenProperties DEF Represents, Spared
  <2>2. ASSUME NEW k \in 0 .. Len(l[h])
        PROVE  w.next[At(h, l[h], k)] = At(h, l[h], k + 1) /\ w.prev[At(h, l[h], k + 1)] = At(h, l[h], k)
    <3>1. k \in Nat /\ k + 1 \in Nat
      BY <2>1
    <3>2. w.next[At(h, l[h], k)] = m.next[At(h, l[h], k)] /\ w.prev[At(h, l[h], k + 1)] = m.prev[At(h, l[h], k + 1)]
      BY <3>1 DEF Spared
    <3>3. m.next[At(h, l[h], k)] = At(h, l[h], k + 1) /\ m.prev[At(h, l[h], k + 1)] = At(h, l[h], k)
      BY <2>1 DEF Linked
    <3> QED BY <3>2, <3>3
  <2> QED BY <2>1, <2>2 DEF Linked
<1>2. ASSUME NEW h \in v PROVE l2[h] = <<>>
  BY <1>2 DEF Represents, Settled, Spared
<1>3. ASSUME NEW h \in Heads \ v PROVE Linked(w, h, l2[h])
  BY <1>1, <1>3 DEF Settled
<1> QED BY <1>2, <1>3 DEF Represents

\* What a memory represents.
LEMMA Parts ==
  ASSUME NEW m, NEW u, NEW l, Represents(m, u, l)
  PROVE  /\ m \in Memory /\ u \in SUBSET Heads /\ l \in [Heads -> Seq(Entries)] /\ Unique(l)
         /\ \A h \in Heads : l[h] \in Seq(Entries) /\ Len(l[h]) \in Nat /\ Distinct(l[h])
         /\ \A g, h \in Heads : g # h => Apart(l[g], l[h])
         /\ \A h \in u : l[h] = <<>>
         /\ \A h \in Heads \ u : Linked(m, h, l[h])
BY LenProperties DEF Represents, Unique

\* No node of another ring is among those of h, nor is an entry that is on no
\* list.
LEMMA OtherRings ==
  ASSUME NEW m, NEW u, NEW l, Represents(m, u, l), NEW h \in Heads, NEW g \in Heads \ {h}, NEW i \in Nat
  PROVE  /\ At(g, l[g], i) \in Nodes
         /\ At(g, l[g], i) # h
         /\ \A j \in Nat : At(g, l[g], i) # At(h, l[h], j)
         /\ \A e \in Entries : OffAll(l, e) => At(g, l[g], i) # e
<1>1. l[g] \in Seq(Entries) /\ l[h] \in Seq(Entries) /\ Apart(l[g], l[h])
  BY Parts
<1>2. At(g, l[g], i) \in Nodes /\ At(h, l[h], 0) = h
  BY <1>1, RingNodes
<1>3. \A j \in Nat : At(g, l[g], i) # At(h, l[h], j)
  BY <1>1, TwoRings
<1>4. ASSUME NEW e \in Entries, OffAll(l, e) PROVE At(g, l[g], i) # e
  <2>1. NotIn(l[g], e)
    BY <1>4 DEF OffAll
  <2> QED BY <1>1, <2>1, OffRing
<1> QED BY <1>2, <1>3, <1>4

\* INIT_LIST_HEAD makes a head without entries the head of an empty list.
LEMMA InitReps ==
  ASSUME NEW m, NEW u, NEW l, Represents(m, u, l), NEW h \in Heads, l[h] = <<>>
  PROVE  Represents(INIT_LIST_HEAD(m, h), u \ {h}, l)
<1> DEFINE w == INIT_LIST_HEAD(m, h)
           v == u \ {h}
           C == {h}
<1>1. m \in Memory /\ u \in SUBSET Heads /\ l \in [Heads -> Seq(Entries)] /\ Unique(l)
  BY Parts
<1>2. h \in Nodes
  BY DEF Nodes
<1>3. LoopedBack(w, m, h)
  BY <1>1, <1>2, InitEffect
<1> HIDE DEF w
<1>4. w \in Memory /\ Same(w, m, {h}, {h}) /\ w.next[h] = h /\ w.prev[h] = h
  BY <1>3 DEF LoopedBack
<1>5. Linked(w, h, l[h])
  <2>1. Len(l[h]) = 0
    BY <1>1
  <2>2. At(h, l[h], 0) = h /\ At(h, l[h], 0 + 1) = h
    BY <2>1 DEF At
  <2> QED BY <1>4, <2>1, <2>2 DEF Linked
<1>6. Settled(w, v, l, C)
  BY <1>5 DEF Settled
<1>7. Spared(w, m, u, v, l, l, C)
  <2>1. ASSUME NEW g \in Heads \ C, NEW i \in Nat
        PROVE  /\ w.next[At(g, l[g], i)] = m.next[At(g, l[g], i)]
               /\ w.prev[At(g, l[g], i)] = m.prev[At(g, l[g], i)]
    <3>1. At(g, l[g], i) \in Nodes \ {h}
      BY <1>2, OtherRings
    <3> QED BY <1>4, <3>1 DEF Same
  <2> QED BY <2>1 DEF Spared
<1>8. v \in SUBSET Heads /\ C \in SUBSET Heads
  BY <1>1, <1>2
<1> HIDE DEF v, C
<1>9. Represents(w, v, l)
  BY <1>1, <1>4, <1>6, <1>7, <1>8, Assemble
<1> QED BY <1>9 DEF w, v

\* With an entry of none of them a sequence remains without repetitions and
\* apart from the others.
LEMMA InsertedDistinct ==
  ASSUME NEW l \in [Heads -> Seq(Entries)], NEW h \in Heads, NEW s \in Seq(Entries), NEW e,
         Distinct(s), NotIn(s, e), \A g \in Heads \ {h} : Apart(s, l[g]),
         \A g \in Heads : NotIn(l[g], e),
         NEW k \in 0 .. Len(s), NEW t \in Seq(Entries), InsertedAt(t, s, k, e)
  PROVE  Distinct(t) /\ \A g \in Heads \ {h} : Apart(t, l[g])
<1>0. Len(s) \in Nat /\ k \in Nat
  BY LenProperties
<1>1. Len(t) = Len(s) + 1 /\ \A i \in 1 .. Len(t) : t[i] = IF i <= k THEN s[i] ELSE IF i = k + 1 THEN e ELSE s[i - 1]
  BY DEF InsertedAt
<1>2. \A i, j \in 1 .. Len(s) : s[i] = s[j] => i = j
  BY DEF Distinct
<1>3. \A i \in 1 .. Len(s) : s[i] # e
  BY DEF NotIn
<1>4. ASSUME NEW i \in 1 .. Len(t), NEW j \in 1 .. Len(t), i < j PROVE t[i] # t[j]
  <2>1. CASE j <= k
    BY <1>0, <1>1, <1>2, <1>4, <2>1
  <2>2. CASE j = k + 1
    <3>1. t[j] = e /\ t[i] = s[i] /\ i \in 1 .. Len(s)
      BY <1>0, <1>1, <1>4, <2>2
    <3> QED BY <1>3, <3>1
  <2>3. CASE j > k + 1
    <3>1. t[j] = s[j - 1] /\ j - 1 \in 1 .. Len(s)
      BY <1>0, <1>1, <1>4, <2>3
    <3>2. CASE i <= k
      <4>1. t[i] = s[i] /\ i \in 1 .. Len(s) /\ i # j - 1
        BY <1>0, <1>1, <2>3, <3>2
      <4> QED BY <1>2, <3>1, <4>1
    <3>3. CASE i = k + 1
      <4>1. t[i] = e
        BY <1>0, <1>1, <3>3
      <4> QED BY <1>3, <3>1, <4>1
    <3>4. CASE i > k + 1
      <4>1. t[i] = s[i - 1] /\ i - 1 \in 1 .. Len(s) /\ i - 1 # j - 1
        BY <1>0, <1>1, <1>4, <3>4
      <4> QED BY <1>2, <3>1, <4>1
    <3> QED BY <1>0, <3>2, <3>3, <3>4
  <2> QED BY <1>0, <2>1, <2>2, <2>3
<1>5. Distinct(t)
  <2> SUFFICES ASSUME NEW i \in 1 .. Len(t), NEW j \in 1 .. Len(t), t[i] = t[j], i # j PROVE FALSE
    BY DEF Distinct
  <2>1. i < j \/ j < i
    BY <1>0
  <2> QED BY <1>4, <2>1
<1>6. ASSUME NEW i \in 1 .. Len(t) PROVE t[i] = e \/ \E j \in 1 .. Len(s) : t[i] = s[j]
  <2>1. CASE i <= k
    BY <1>0, <1>1, <2>1
  <2>2. CASE i = k + 1
    BY <1>0, <1>1, <2>2
  <2>3. CASE i > k + 1
    <3>1. t[i] = s[i - 1] /\ i - 1 \in 1 .. Len(s)
      BY <1>0, <1>1, <2>3
    <3> QED BY <3>1
  <2> QED BY <1>0, <2>1, <2>2, <2>3
<1>7. ASSUME NEW g \in Heads \ {h}, NEW i \in 1 .. Len(t), NEW j \in 1 .. Len(l[g]) PROVE t[i] # l[g][j]
  <2>1. CASE t[i] = e
    BY <2>1 DEF NotIn
  <2>2. CASE \E f \in 1 .. Len(s) : t[i] = s[f]
    BY <2>2 DEF Apart
  <2> QED BY <1>6, <2>1, <2>2
<1> QED BY <1>5, <1>7 DEF Apart

\* __list_add puts an entry that is on no list behind the k-th node of a ring.
LEMMA AddReps ==
  ASSUME NEW m, NEW u, NEW l, Represents(m, u, l), NEW h \in Heads \ u,
         NEW e \in Entries, OffAll(l, e), NEW k \in 0 .. Len(l[h]),
         NEW t \in Seq(Entries), InsertedAt(t, l[h], k, e),
         NEW p, p = At(h, l[h], k), NEW q, q = At(h, l[h], k + 1)
  PROVE  Represents(__list_add(m, e, p, q), u, [l EXCEPT ![h] = t])
<1> DEFINE w == __list_add(m, e, p, q)
           l2 == [l EXCEPT ![h] = t]
           s == l[h]
           C == {h}
<1>1. /\ m \in Memory /\ u \in SUBSET Heads /\ l \in [Heads -> Seq(Entries)] /\ Unique(l)
      /\ s \in Seq(Entries) /\ Len(s) \in Nat /\ Distinct(s) /\ Linked(m, h, s)
      /\ \A g \in Heads \ {h} : Apart(s, l[g])
  BY Parts
<1>2. NotIn(s, e) /\ \A g \in Heads : NotIn(l[g], e)
  BY DEF OffAll
<1>3. k \in Nat /\ k + 1 \in Nat /\ k \in 0 .. Len(s) /\ InsertedAt(t, s, k, e) /\ p = At(h, s, k) /\ q = At(h, s, k + 1)
  BY <1>1
<1> HIDE DEF s
<1>4. p \in Nodes \ {e} /\ q \in Nodes \ {e} /\ e \in Nodes
  <2>1. p \in Nodes /\ q \in Nodes
    BY <1>1, <1>3, RingNodes
  <2>2. p # e /\ q # e
    BY <1>1, <1>2, <1>3, OffRing
  <2> QED BY <2>1, <2>2 DEF Nodes
<1>5. PutBetween(w, m, e, p, q)
  BY <1>1, <1>4, AddEffect
<1> HIDE DEF w
<1>6. Linked(w, h, t)
  BY <1>1, <1>2, <1>3, <1>5, InsertedRing
<1>7. Distinct(t) /\ \A g \in Heads \ {h} : Apart(t, l[g])
  BY <1>1, <1>2, <1>3, InsertedDistinct
<1>8. /\ l2 \in [Heads -> Seq(Entries)] /\ Unique(l2)
      /\ l2[h] = t /\ \A g \in Heads \ {h} : l2[g] = l[g]
  BY <1>1, <1>7, OneChanged
<1> HIDE DEF l2
<1>9. w \in Memory /\ Same(w, m, {p, e}, {e, q})
  BY <1>5 DEF PutBetween
<1>10. Settled(w, u, l2, C)
  BY <1>6, <1>8 DEF Settled
<1>11. Spared(w, m, u, u, l, l2, C)
  <2>1. ASSUME NEW g \in Heads \ C, NEW i \in Nat
        PROVE  /\ w.next[At(g, l[g], i)] = m.next[At(g, l[g], i)]
               /\ w.prev[At(g, l[g], i)] = m.prev[At(g, l[g], i)]
    <3>1. /\ At(g, l[g], i) \in Nodes /\ At(g, l[g], i) # e
          /\ \A j \in Nat : At(g, l[g], i) # At(h, l[h], j)
      BY OtherRings
    <3>2. At(g, l[g], i) # p /\ At(g, l[g], i) # q
      BY <1>3, <3>1
    <3> QED BY <1>9, <3>1, <3>2 DEF Same
  <2> QED BY <1>8, <2>1 DEF Spared
<1>12. C \in SUBSET Heads
  OBVIOUS
<1> HIDE DEF C
<1>13. Represents(w, u, l2)
  BY <1>1, <1>8, <1>9, <1>10, <1>11, <1>12, Assemble
<1> QED BY <1>13 DEF w, l2

\* An entry that was taken out occurs no more.
LEMMA RemovedDistinct ==
  ASSUME NEW l \in [Heads -> Seq(Entries)], NEW h \in Heads, NEW s \in Seq(Entries),
         Distinct(s), \A g \in Heads \ {h} : Apart(s, l[g]),
         NEW k \in 1 .. Len(s), NEW t \in Seq(Entries), RemovedAt(t, s, k)
  PROVE  Distinct(t) /\ NotIn(t, s[k]) /\ \A g \in Heads \ {h} : Apart(t, l[g]) /\ NotIn(l[g], s[k])
<1> DEFINE f(i) == IF i < k THEN i ELSE i + 1
<1>0. Len(s) \in Nat /\ Len(t) = Len(s) - 1
  BY LenProperties DEF RemovedAt
<1>1. \A i \in 1 .. Len(t) : t[i] = s[f(i)] /\ f(i) \in 1 .. Len(s) /\ f(i) # k
  BY <1>0 DEF RemovedAt
<1>2. \A i, j \in 1 .. Len(t) : f(i) = f(j) => i = j
  BY <1>0
<1> HIDE DEF f
<1>3. Distinct(t) /\ NotIn(t, s[k])
  BY <1>1, <1>2 DEF Distinct, NotIn
<1>4. ASSUME NEW g \in Heads \ {h} PROVE Apart(t, l[g])
  <2>1. Apart(s, l[g])
    OBVIOUS
  <2> QED BY <1>1, <2>1 DEF Apart
<1>5. ASSUME NEW g \in Heads \ {h} PROVE NotIn(l[g], s[k])
  <2>1. Apart(s, l[g])
    OBVIOUS
  <2> QED BY <2>1 DEF Apart, NotIn
<1> QED BY <1>3, <1>4, <1>5

\* The routines that take the k-th entry out of its ring.
Deletions(m, e) == {__list_del_entry(m, e), list_del(m, e), list_del_init(m, e)}

\* Deleting an entry represents the lists without it.
LEMMA DelReps ==
  ASSUME NEW m, NEW u, NEW l, Represents(m, u, l), NEW h \in Heads \ u,
         NEW k \in 1 .. Len(l[h]), NEW t \in Seq(Entries), RemovedAt(t, l[h], k),
         NEW e, e = l[h][k], NEW l2, l2 = [l EXCEPT ![h] = t],
         NEW w \in Deletions(m, e)
  PROVE  Represents(w, u, l2) /\ OffAll(l2, e)
<1> DEFINE s == l[h]
           p == At(h, s, k - 1)
           q == At(h, s, k + 1)
           C == {h}
<1>1. /\ m \in Memory /\ u \in SUBSET Heads /\ l \in [Heads -> Seq(Entries)] /\ Unique(l)
      /\ s \in Seq(Entries) /\ Len(s) \in Nat /\ Distinct(s) /\ Linked(m, h, s)
      /\ \A g \in Heads \ {h} : Apart(s, l[g])
  BY Parts
<1>2. /\ k \in Nat /\ k - 1 \in Nat /\ k + 1 \in Nat /\ k \in 1 .. Len(s) /\ k - 1 \in 0 .. Len(s)
      /\ RemovedAt(t, s, k) /\ e = s[k]
  BY <1>1
<1> HIDE DEF s
<1>3. e = At(h, s, k) /\ e \in Nodes /\ p \in Nodes /\ q \in Nodes
  <2>1. e = At(h, s, k)
    BY <1>2 DEF At
  <2> QED BY <1>1, <1>2, <2>1, RingNodes
<1>4. p # e /\ q # e
  <2>1. k \in 0 .. Len(s) /\ k \in 1 .. Len(s) + 1 /\ k + 1 \in 1 .. Len(s) + 1 /\ k - 1 # k /\ k + 1 # k
    BY <1>1, <1>2
  <2>2. /\ \A i, j \in 0 .. Len(s) : At(h, s, i) = At(h, s, j) => i = j
        /\ \A i, j \in 1 .. Len(s) + 1 : At(h, s, i) = At(h, s, j) => i = j
    BY <1>1, OneRing
  <2> QED BY <1>2, <1>3, <2>1, <2>2
<1>5. p = m.prev[e] /\ q = m.next[e]
  <2>1. (k - 1) + 1 = k /\ k - 1 \in 0 .. Len(s) /\ k \in 0 .. Len(s)
    BY <1>1, <1>2
  <2>2. m.prev[At(h, s, (k - 1) + 1)] = At(h, s, k - 1)
    BY <1>1, <2>1 DEF Linked
  <2>3. m.next[At(h, s, k)] = At(h, s, k + 1)
    BY <1>1, <2>1 DEF Linked
  <2> QED BY <1>3, <2>1, <2>2, <2>3
<1> HIDE DEF p, q
<1>6. TakenOut(w, m, e, p, q)
  <2>1. /\ TakenOut(__list_del_entry(m, e), m, e, p, q)
        /\ TakenOut(list_del(m, e), m, e, p, q)
        /\ TakenOut(list_del_init(m, e), m, e, p, q)
    BY <1>1, <1>3, <1>4, <1>5, DelEffect
  <2> QED BY <2>1 DEF Deletions
<1>7. w \in Memory /\ Same(w, m, {p, e}, {e, q})
  BY <1>6 DEF TakenOut
<1>8. Linked(w, h, t)
  <2>1. TakenOut(w, m, s[k], At(h, s, k - 1), At(h, s, k + 1))
    BY <1>2, <1>6 DEF p, q
  <2> QED BY <1>1, <1>2, <2>1, RemovedRing
<1>9. Distinct(t) /\ NotIn(t, s[k]) /\ \A g \in Heads \ {h} : Apart(t, l[g]) /\ NotIn(l[g], s[k])
  BY <1>1, <1>2, RemovedDistinct
<1>10. /\ l2 \in [Heads -> Seq(Entries)] /\ Unique(l2)
       /\ l2[h] = t /\ \A g \in Heads \ {h} : l2[g] = l[g]
  BY <1>1, <1>9, OneChanged
<1>11. OffAll(l2, e)
  BY <1>2, <1>9, <1>10 DEF OffAll
<1>12. Settled(w, u, l2, C)
  BY <1>8, <1>10 DEF Settled
<1>13. Spared(w, m, u, u, l, l2, C)
  <2>1. ASSUME NEW g \in Heads \ C, NEW i \in Nat
        PROVE  /\ w.next[At(g, l[g], i)] = m.next[At(g, l[g], i)]
               /\ w.prev[At(g, l[g], i)] = m.prev[At(g, l[g], i)]
    <3>1. At(g, l[g], i) \in Nodes /\ \A j \in Nat : At(g, l[g], i) # At(h, s, j)
      BY OtherRings DEF s
    <3>2. At(g, l[g], i) # p /\ At(g, l[g], i) # q /\ At(g, l[g], i) # e
      BY <1>2, <1>3, <3>1 DEF p, q
    <3> QED BY <1>7, <3>1, <3>2 DEF Same
  <2> QED BY <1>10, <2>1 DEF Spared
<1>14. C \in SUBSET Heads
  OBVIOUS
<1> HIDE DEF C
<1>15. Represents(w, u, l2)
  BY <1>1, <1>7, <1>10, <1>12, <1>13, <1>14, Assemble
<1> QED BY <1>11, <1>15

\* Exchanging one entry for an entry on no list keeps the entries distinct.
LEMMA ChangedDistinct ==
  ASSUME NEW l \in [Heads -> Seq(Entries)], NEW h \in Heads, NEW s \in Seq(Entries), NEW e,
         Distinct(s), NotIn(s, e), \A g \in Heads \ {h} : Apart(s, l[g]),
         \A g \in Heads : NotIn(l[g], e),
         NEW k \in 1 .. Len(s), NEW t \in Seq(Entries), ChangedAt(t, s, k, e)
  PROVE  Distinct(t) /\ \A g \in Heads \ {h} : Apart(t, l[g])
<1>1. Len(t) = Len(s) /\ \A i \in 1 .. Len(t) : t[i] = IF i = k THEN e ELSE s[i]
  BY DEF ChangedAt
<1>2. Distinct(t)
  BY <1>1 DEF Distinct, NotIn
<1>3. ASSUME NEW g \in Heads \ {h}, NEW i \in 1 .. Len(t), NEW j \in 1 .. Len(l[g]) PROVE t[i] # l[g][j]
  <2>1. Apart(s, l[g]) /\ NotIn(l[g], e)
    OBVIOUS
  <2> QED BY <1>1, <2>1 DEF Apart, NotIn
<1> QED BY <1>2, <1>3 DEF Apart

\* An entry that is on no list takes the place of the k-th one of a ring.
Replacements(m, old, new) == {list_replace(m, old, new), list_replace_init(m, old, new)}

\* Replacing an entry represents the lists with the new one in its place.
LEMMA ReplaceReps ==
  ASSUME NEW m, NEW u, NEW l, Represents(m, u, l), NEW h \in Heads \ u,
         NEW k \in 1 .. Len(l[h]), NEW e \in Entries, OffAll(l, e),
         NEW t \in Seq(Entries), ChangedAt(t, l[h], k, e),
         NEW old, old = l[h][k], NEW l2, l2 = [l EXCEPT ![h] = t],
         NEW w \in Replacements(m, old, e)
  PROVE  Represents(w, u, l2)
<1> DEFINE s == l[h]
           p == At(h, s, k - 1)
           q == At(h, s, k + 1)
           C == {h}
<1>1. /\ m \in Memory /\ u \in SUBSET Heads /\ l \in [Heads -> Seq(Entries)] /\ Unique(l)
      /\ s \in Seq(Entries) /\ Len(s) \in Nat /\ Distinct(s) /\ Linked(m, h, s)
      /\ \A g \in Heads \ {h} : Apart(s, l[g])
  BY Parts
<1>2. /\ k \in Nat /\ k - 1 \in Nat /\ k + 1 \in Nat /\ k \in 1 .. Len(s) /\ k - 1 \in 0 .. Len(s)
      /\ ChangedAt(t, s, k, e) /\ old = s[k]
  BY <1>1
<1>3. NotIn(s, e) /\ \A g \in Heads : NotIn(l[g], e)
  BY DEF OffAll
<1> HIDE DEF s
<1>4. old = At(h, s, k) /\ e \in Nodes /\ old \in Nodes /\ p \in Nodes /\ q \in Nodes
  <2>1. old = At(h, s, k)
    BY <1>2 DEF At
  <2>2. e \in Nodes
    BY DEF Nodes
  <2> QED BY <1>1, <1>2, <2>1, <2>2, RingNodes
<1>5. p # old /\ q # old
  <2>1. k \in 0 .. Len(s) /\ k \in 1 .. Len(s) + 1 /\ k + 1 \in 1 .. Len(s) + 1 /\ k - 1 # k /\ k + 1 # k
    BY <1>1, <1>2
  <2>2. /\ \A i, j \in 0 .. Len(s) : At(h, s, i) = At(h, s, j) => i = j
        /\ \A i, j \in 1 .. Len(s) + 1 : At(h, s, i) = At(h, s, j) => i = j
    BY <1>1, OneRing
  <2> QED BY <1>2, <1>4, <2>1, <2>2
<1>6. p # e /\ q # e /\ old # e
  BY <1>1, <1>2, <1>3, <1>4, OffRing
<1>7. p = m.prev[old] /\ q = m.next[old]
  <2>1. (k - 1) + 1 = k /\ k - 1 \in 0 .. Len(s) /\ k \in 0 .. Len(s)
    BY <1>1, <1>2
  <2>2. m.prev[At(h, s, (k - 1) + 1)] = At(h, s, k - 1)
    BY <1>1, <2>1 DEF Linked
  <2>3. m.next[At(h, s, k)] = At(h, s, k + 1)
    BY <1>1, <2>1 DEF Linked
  <2> QED BY <1>4, <2>1, <2>2, <2>3
<1> HIDE DEF p, q
<1>8. Exchanged(w, m, old, e, p, q)
  <2>1. /\ Exchanged(list_replace(m, old, e), m, old, e, p, q)
        /\ Exchanged(list_replace_init(m, old, e), m, old, e, p, q)
    BY <1>1, <1>4, <1>5, <1>6, <1>7, ReplaceEffect
  <2> QED BY <2>1 DEF Replacements
<1>9. w \in Memory /\ Same(w, m, {p, old, e}, {q, old, e})
  BY <1>8 DEF Exchanged
<1>10. Linked(w, h, t)
  <2>1. Exchanged(w, m, s[k], e, At(h, s, k - 1), At(h, s, k + 1))
    BY <1>2, <1>8 DEF p, q
  <2> QED BY <1>1, <1>2, <1>3, <2>1, ChangedRing
<1>11. Distinct(t) /\ \A g \in Heads \ {h} : Apart(t, l[g])
  BY <1>1, <1>2, <1>3, ChangedDistinct
<1>12. /\ l2 \in [Heads -> Seq(Entries)] /\ Unique(l2)
       /\ l2[h] = t /\ \A g \in Heads \ {h} : l2[g] = l[g]
  BY <1>1, <1>11, OneChanged
<1>13. Settled(w, u, l2, C)
  BY <1>10, <1>12 DEF Settled
<1>14. Spared(w, m, u, u, l, l2, C)
  <2>1. ASSUME NEW g \in Heads \ C, NEW i \in Nat
        PROVE  /\ w.next[At(g, l[g], i)] = m.next[At(g, l[g], i)]
               /\ w.prev[At(g, l[g], i)] = m.prev[At(g, l[g], i)]
    <3>1. /\ At(g, l[g], i) \in Nodes /\ At(g, l[g], i) # e
          /\ \A j \in Nat : At(g, l[g], i) # At(h, s, j)
      BY OtherRings DEF s
    <3>2. At(g, l[g], i) # p /\ At(g, l[g], i) # q /\ At(g, l[g], i) # old
      BY <1>2, <1>4, <3>1 DEF p, q
    <3> QED BY <1>9, <3>1, <3>2 DEF Same
  <2> QED BY <1>12, <2>1 DEF Spared, Agree
<1>15. C \in SUBSET Heads
  OBVIOUS
<1> HIDE DEF C
<1> QED BY <1>1, <1>9, <1>12, <1>13, <1>14, <1>15, Assemble

\* list_replace moves a whole list to an undefined head and leaves the old
\* one undefined.
LEMMA TakeOverReps ==
  ASSUME NEW m, NEW u, NEW l, Represents(m, u, l), NEW h \in Heads \ u, NEW g \in u,
         NEW l2, l2 = [l EXCEPT ![g] = l[h], ![h] = <<>>]
  PROVE  Represents(list_replace(m, h, g), (u \ {g}) \cup {h}, l2)
<1> DEFINE w == list_replace(m, h, g)
           v == (u \ {g}) \cup {h}
           s == l[h]
           n == Len(s)
           C == {g, h}
<1>1. /\ m \in Memory /\ u \in SUBSET Heads /\ l \in [Heads -> Seq(Entries)] /\ Unique(l)
      /\ s \in Seq(Entries) /\ n \in Nat /\ Distinct(s) /\ Linked(m, h, s)
      /\ \A f \in Heads \ {h} : Apart(s, l[f])
  BY Parts
<1>2. g \in Heads \ {h} /\ h \in Heads \ {g} /\ g \in Nodes \ {h} /\ h \in Nodes
  BY <1>1 DEF Nodes
<1> HIDE DEF w, s, n
<1>3. /\ w \in Memory /\ Linked(w, g, s)
      /\ \A x \in Nodes \ {g, h} : (\A j \in Nat : x # At(h, s, j)) =>
           w.next[x] = m.next[x] /\ w.prev[x] = m.prev[x]
  <2>1. CASE n = 0
    <3>1. At(h, s, 0) = h /\ At(h, s, 0 + 1) = h /\ At(g, s, 0) = g /\ At(g, s, 0 + 1) = g /\ Len(s) = 0
      BY <2>1 DEF At, n
    <3>2. m.next[h] = h /\ m.prev[h] = h
      BY <1>1, <3>1 DEF Linked
    <3>3. /\ w \in Memory /\ Same(w, m, {h, g}, {h, g})
          /\ w.next[g] = g /\ w.prev[g] = g
      BY <1>1, <1>2, <3>2, ReplaceAloneEffect DEF w, MadeAlone
    <3>4. Linked(w, g, s)
      BY <3>1, <3>3 DEF Linked
    <3> QED BY <3>3, <3>4 DEF Same
  <2>2. CASE n > 0
    <3> DEFINE p == At(h, s, n)
               q == At(h, s, 1)
    <3>1. 1 \in 1 .. n /\ n \in 1 .. n /\ n \in 0 .. n /\ 0 \in 0 .. n
      BY <1>1, <2>2
    <3>2. p \in Nodes \ {h, g} /\ q \in Nodes \ {h, g}
      <4>1. p \in Entries /\ q \in Entries
        BY <1>1, <3>1, RingNodes DEF n
      <4> QED BY <1>2, <4>1, ListConstantsOK DEF Nodes
    <3>3. p = m.prev[h] /\ q = m.next[h]
      <4>1. At(h, s, 0) = h /\ At(h, s, n + 1) = h
        BY <1>1, RingNodes DEF n
      <4>2. m.next[At(h, s, 0)] = At(h, s, 0 + 1) /\ m.prev[At(h, s, n + 1)] = At(h, s, n)
        BY <1>1, <3>1 DEF Linked, n
      <4> QED BY <4>1, <4>2
    <3> HIDE DEF p, q
    <3>4. Exchanged(w, m, h, g, p, q)
      BY <1>1, <1>2, <3>2, <3>3, ReplaceEffect DEF w
    <3>5. w \in Memory /\ Same(w, m, {p, h, g}, {q, h, g})
      BY <3>4 DEF Exchanged
    <3>6. Linked(w, g, s)
      <4>1. Exchanged(w, m, h, g, At(h, s, Len(s)), At(h, s, 1)) /\ Len(s) > 0
        BY <2>2, <3>4 DEF n, p, q
      <4> QED BY <1>1, <1>2, <4>1, TakenOverRing
    <3>7. ASSUME NEW x \in Nodes \ {g, h}, \A j \in Nat : x # At(h, s, j)
          PROVE  w.next[x] = m.next[x] /\ w.prev[x] = m.prev[x]
      <4>1. x # p /\ x # q
        BY <1>1, <3>7 DEF p, q
      <4> QED BY <3>5, <4>1 DEF Same
    <3> QED BY <3>5, <3>6, <3>7
  <2> QED BY <1>1, <2>1, <2>2
<1>4. /\ l2 \in [Heads -> Seq(Entries)] /\ Unique(l2)
      /\ l2[g] = s /\ l2[h] = <<>> /\ Agree(l2, l, C)
  <2>1. <<>> \in Seq(Entries) /\ Distinct(<<>>) /\ Apart(s, <<>>)
    BY DEF Distinct, Apart
  <2>2. AllApart(s, l, C) /\ AllApart(<<>>, l, C)
    BY <1>1 DEF AllApart, Apart
  <2>3. /\ l2 \in [Heads -> Seq(Entries)] /\ l2[g] = s /\ l2[h] = <<>>
        /\ Agree(l2, l, C)
    BY <1>1, <1>2, <2>1 DEF s, Agree
  <2> HIDE DEF C
  <2>4. C = {g, h}
    BY DEF C
  <2>5. Unique(l2)
    BY <1>1, <1>2, <2>1, <2>2, <2>3, <2>4, TwoChanged
  <2> QED BY <2>3, <2>5
<1>5. Settled(w, v, l2, C)
  BY <1>2, <1>3, <1>4 DEF Settled
<1>6. Spared(w, m, u, v, l, l2, C)
  <2>1. ASSUME NEW f \in Heads \ C, NEW i \in Nat
        PROVE  /\ w.next[At(f, l[f], i)] = m.next[At(f, l[f], i)]
               /\ w.prev[At(f, l[f], i)] = m.prev[At(f, l[f], i)]
    <3>1. /\ At(f, l[f], i) \in Nodes \ {h} /\ At(f, l[f], i) # g
          /\ \A j \in Nat : At(f, l[f], i) # At(h, s, j)
      BY <1>2, OtherRings DEF s
    <3> QED BY <1>3, <3>1
  <2> QED BY <1>4, <2>1 DEF Spared, Agree
<1>7. C \in SUBSET Heads /\ v \in SUBSET Heads
  BY <1>1, <1>2
<1> HIDE DEF C, v
<1>8. Represents(w, v, l2)
  BY <1>1, <1>3, <1>4, <1>5, <1>6, <1>7, Assemble
<1> QED BY <1>8 DEF w, v

\* __list_cut_position gives the first k entries to a head without entries.
LEMMA CutReps ==
  ASSUME NEW m, NEW u, NEW l, Represents(m, u, l), NEW h \in Heads \ u,
         NEW g \in Heads \ {h}, l[g] = <<>>, NEW k \in 1 .. Len(l[h]), NEW e, e = l[h][k],
         NEW a \in Seq(Entries), NEW b \in Seq(Entries), CutAt(a, b, l[h], k),
         NEW l2, l2 = [l EXCEPT ![g] = a, ![h] = b]
  PROVE  Represents(__list_cut_position(m, g, h, e), u \ {g}, l2)
<1> DEFINE w == __list_cut_position(m, g, h, e)
           v == u \ {g}
           s == l[h]
           n == Len(s)
           first == At(h, s, 1)
           rest == At(h, s, k + 1)
           C == {g, h}
<1>1. /\ m \in Memory /\ u \in SUBSET Heads /\ l \in [Heads -> Seq(Entries)] /\ Unique(l)
      /\ s \in Seq(Entries) /\ n \in Nat /\ Distinct(s) /\ Linked(m, h, s)
      /\ \A f \in Heads \ {h} : Apart(s, l[f])
  BY Parts
<1>2. g \in Heads \ {h} /\ h \in Heads \ {g} /\ g \in Nodes /\ h \in Nodes \ {g}
  BY <1>1 DEF Nodes
<1>3. /\ k \in Nat /\ k + 1 \in Nat /\ k \in 1 .. n /\ k \in 0 .. n /\ 0 \in 0 .. n
      /\ 1 \in 1 .. n + 1 /\ k + 1 \in 1 .. n + 1 /\ k + 1 # 1 /\ 1 \in 1 .. n
      /\ CutAt(a, b, s, k) /\ e = s[k] /\ k \in 1 .. Len(s)
  BY <1>1
<1> HIDE DEF w, s, n
<1>4. e = At(h, s, k) /\ e \in Entries
  BY <1>1, <1>3, RingNodes DEF n
<1>5. \A i \in Nat : At(h, s, i) \in Nodes \ {g}
  <2>1. \A i \in Nat : At(h, s, i) \in Nodes /\ At(h, s, i) # g
    BY <1>1, <1>2, RingNodes DEF At
  <2> QED BY <2>1
<1>6. e \in Nodes \ {g, h} /\ first \in Nodes \ {g} /\ rest \in Nodes \ {g, first}
  <2>1. rest # first
    BY <1>1, <1>3, OneRing DEF n
  <2>2. e \notin Heads
    BY <1>4, ListConstantsOK
  <2> QED BY <1>2, <1>3, <1>4, <1>5, <2>1, <2>2
<1>7. first = m.next[h] /\ rest = m.next[e]
  <2>1. At(h, s, 0) = h
    BY <1>1, RingNodes
  <2>2. m.next[At(h, s, 0)] = At(h, s, 0 + 1) /\ m.next[At(h, s, k)] = At(h, s, k + 1)
    BY <1>1, <1>3 DEF Linked, n
  <2> QED BY <1>4, <2>1, <2>2
<1> HIDE DEF first, rest
<1>8. CutOff(w, m, g, h, e, first, rest)
  BY <1>1, <1>2, <1>6, <1>7, CutEffect DEF w
<1>9. w \in Memory /\ Same(w, m, {h, e, g}, {rest, g, first})
  BY <1>8 DEF CutOff
<1>10. Linked(w, g, a) /\ Linked(w, h, b)
  <2>1. CutOff(w, m, g, h, s[k], At(h, s, 1), At(h, s, k + 1))
    BY <1>3, <1>8 DEF first, rest
  <2> QED BY <1>1, <1>2, <1>3, <2>1, CutRings
<1>11. /\ Distinct(a) /\ Distinct(b) /\ Apart(a, b)
       /\ AllApart(a, l, C) /\ AllApart(b, l, C)
  <2>1. \A i \in 1 .. Len(a) : a[i] = s[i] /\ i \in 1 .. n /\ i <= k
    BY <1>1, <1>3 DEF CutAt, n
  <2>2. \A i \in 1 .. Len(b) : b[i] = s[i + k] /\ i + k \in 1 .. n /\ i + k > k
    BY <1>1, <1>3 DEF CutAt, n
  <2>3. \A i, j \in 1 .. n : s[i] = s[j] => i = j
    BY <1>1 DEF Distinct, n
  <2>4. Distinct(a)
    BY <2>1, <2>3 DEF Distinct
  <2>5. ASSUME NEW i \in 1 .. Len(b), NEW j \in 1 .. Len(b), b[i] = b[j] PROVE i = j
    <3>1. i + k = j + k
      BY <2>2, <2>3, <2>5
    <3>2. Len(b) \in Nat
      BY LenProperties
    <3> QED BY <1>3, <3>1, <3>2
  <2>6. ASSUME NEW i \in 1 .. Len(a), NEW j \in 1 .. Len(b) PROVE a[i] # b[j]
    <3>1. i # j + k
      BY <1>3, <2>1, <2>2
    <3> QED BY <2>1, <2>2, <2>3, <3>1
  <2>7. ASSUME NEW f \in Heads \ {g, h} PROVE Apart(a, l[f]) /\ Apart(b, l[f])
    <3>1. \A i \in 1 .. n, j \in 1 .. Len(l[f]) : s[i] # l[f][j]
      BY <1>1 DEF Apart, n
    <3> QED BY <2>1, <2>2, <3>1 DEF Apart
  <2>8. Distinct(b)
    BY <2>5 DEF Distinct
  <2>9. Apart(a, b)
    BY <2>6 DEF Apart
  <2> QED BY <2>4, <2>7, <2>8, <2>9 DEF AllApart
<1>12. /\ l2 \in [Heads -> Seq(Entries)] /\ Unique(l2)
       /\ l2[g] = a /\ l2[h] = b /\ Agree(l2, l, C)
  <2>1. /\ l2 \in [Heads -> Seq(Entries)] /\ l2[g] = a /\ l2[h] = b
        /\ Agree(l2, l, C)
    BY <1>1, <1>2 DEF Agree
  <2> HIDE DEF C
  <2>2. C = {g, h}
    BY DEF C
  <2>3. Unique(l2)
    BY <1>1, <1>2, <1>11, <2>1, <2>2, TwoChanged
  <2> QED BY <2>1, <2>3
<1>13. Settled(w, v, l2, C)
  BY <1>10, <1>12 DEF Settled
<1>14. Spared(w, m, u, v, l, l2, C)
  <2>1. ASSUME NEW f \in Heads \ C, NEW i \in Nat
        PROVE  /\ w.next[At(f, l[f], i)] = m.next[At(f, l[f], i)]
               /\ w.prev[At(f, l[f], i)] = m.prev[At(f, l[f], i)]
    <3>1. /\ At(f, l[f], i) \in Nodes \ {h} /\ At(f, l[f], i) # g
          /\ \A j \in Nat : At(f, l[f], i) # At(h, s, j)
      BY <1>2, OtherRings DEF s
    <3>2. At(f, l[f], i) # e /\ At(f, l[f], i) # first /\ At(f, l[f], i) # rest
      BY <1>3, <1>4, <3>1 DEF first, rest
    <3> QED BY <1>9, <3>1, <3>2 DEF Same
  <2> QED BY <1>12, <2>1 DEF Spared, Agree
<1>15. C \in SUBSET Heads /\ v \in SUBSET Heads
  BY <1>1, <1>2
<1> HIDE DEF C, v
<1>16. Represents(w, v, l2)
  BY <1>1, <1>9, <1>12, <1>13, <1>14, <1>15, Assemble
<1> QED BY <1>16 DEF w, v

\* Two sequences without a common entry, joined.
LEMMA JoinedDistinct ==
  ASSUME NEW l, NEW C, NEW s \in Seq(Entries), NEW r \in Seq(Entries),
         Distinct(s), Distinct(r), Apart(s, r), AllApart(s, l, C), AllApart(r, l, C),
         NEW k \in 0 .. Len(s), NEW t \in Seq(Entries), JoinedAt(t, s, k, r)
  PROVE  Distinct(t) /\ AllApart(t, l, C)
<1> DEFINE n == Len(s)
           c == Len(r)
<1>0. n \in Nat /\ c \in Nat /\ k \in Nat /\ k <= n /\ Len(t) = n + c
  BY LenProperties DEF JoinedAt
<1>1. \A i \in 1 .. Len(t) : i <= k => t[i] = s[i] /\ i \in 1 .. n
  BY <1>0 DEF JoinedAt
<1>2. \A i \in 1 .. Len(t) : i > k /\ i <= k + c => t[i] = r[i - k] /\ i - k \in 1 .. c
  BY <1>0 DEF JoinedAt
<1>3. \A i \in 1 .. Len(t) : i > k + c => t[i] = s[i - c] /\ i - c \in 1 .. n /\ i - c > k
  BY <1>0 DEF JoinedAt
<1> HIDE DEF n, c
<1>4. /\ \A i, j \in 1 .. n : s[i] = s[j] => i = j
      /\ \A i, j \in 1 .. c : r[i] = r[j] => i = j
      /\ \A i \in 1 .. n, j \in 1 .. c : s[i] # r[j]
  BY DEF Distinct, Apart, n, c
<1>5. ASSUME NEW i \in 1 .. Len(t), NEW j \in 1 .. Len(t), i < j PROVE t[i] # t[j]
  <2>1. CASE j <= k
    <3>1. i <= k /\ i # j
      BY <1>0, <1>5, <2>1
    <3> QED BY <1>1, <1>4, <2>1, <3>1
  <2>2. CASE j > k /\ j <= k + c
    <3>1. CASE i <= k
      BY <1>1, <1>2, <1>4, <2>2, <3>1
    <3>2. CASE i > k
      <4>1. i <= k + c /\ i - k # j - k
        BY <1>0, <1>5, <2>2
      <4> QED BY <1>2, <1>4, <2>2, <3>2, <4>1
    <3> QED BY <1>0, <3>1, <3>2
  <2>3. CASE j > k + c
    <3>1. t[j] = s[j - c] /\ j - c \in 1 .. n /\ j - c > k
      BY <1>3, <2>3
    <3>2. CASE i <= k
      <4>1. t[i] = s[i] /\ i \in 1 .. n /\ i # j - c
        BY <1>0, <1>1, <3>1, <3>2
      <4> QED BY <1>4, <3>1, <4>1
    <3>3. CASE i > k /\ i <= k + c
      BY <1>2, <1>4, <3>1, <3>3
    <3>4. CASE i > k + c
      <4>1. t[i] = s[i - c] /\ i - c \in 1 .. n
        BY <1>3, <3>4
      <4>2. i - c # j - c
        BY <1>0, <1>5
      <4> QED BY <1>4, <3>1, <4>1, <4>2
    <3> QED BY <1>0, <3>2, <3>3, <3>4
  <2> QED BY <1>0, <2>1, <2>2, <2>3
<1>6. Distinct(t)
  <2> SUFFICES ASSUME NEW i \in 1 .. Len(t), NEW j \in 1 .. Len(t), t[i] = t[j], i # j PROVE FALSE
    BY DEF Distinct
  <2>1. i < j \/ j < i
    BY <1>0
  <2> QED BY <1>5, <2>1
<1>7. ASSUME NEW i \in 1 .. Len(t)
      PROVE  (\E j \in 1 .. n : t[i] = s[j]) \/ (\E j \in 1 .. c : t[i] = r[j])
  <2>1. i <= k \/ (i > k /\ i <= k + c) \/ i > k + c
    BY <1>0
  <2> QED BY <1>1, <1>2, <1>3, <2>1
<1>8. ASSUME NEW f \in Heads \ C, NEW i \in 1 .. Len(t), NEW j \in 1 .. Len(l[f]) PROVE t[i] # l[f][j]
  <2>1. /\ \A x \in 1 .. n : s[x] # l[f][j]
        /\ \A x \in 1 .. c : r[x] # l[f][j]
    BY DEF AllApart, Apart, n, c
  <2> QED BY <1>7, <2>1
<1> QED BY <1>6, <1>8 DEF AllApart, Apart

\* __list_splice puts all entries of g behind the k-th node of another ring
\* and leaves g undefined.
LEMMA SpliceReps ==
  ASSUME NEW m, NEW u, NEW l, Represents(m, u, l), NEW h \in Heads \ u,
         NEW g \in Heads \ u, g # h, Len(l[g]) > 0, NEW k \in 0 .. Len(l[h]),
         NEW t \in Seq(Entries), JoinedAt(t, l[h], k, l[g]),
         NEW p, p = At(h, l[h], k), NEW q, q = At(h, l[h], k + 1),
         NEW l2, l2 = [l EXCEPT ![g] = <<>>, ![h] = t]
  PROVE  Represents(__list_splice(m, g, p, q), u \cup {g}, l2)
<1> DEFINE w == __list_splice(m, g, p, q)
           v == u \cup {g}
           s == l[h]
           r == l[g]
           c == Len(r)
           first == At(g, r, 1)
           last == At(g, r, c)
           C == {g, h}
<1>1. /\ m \in Memory /\ u \in SUBSET Heads /\ l \in [Heads -> Seq(Entries)] /\ Unique(l)
      /\ s \in Seq(Entries) /\ Len(s) \in Nat /\ Distinct(s) /\ Linked(m, h, s)
      /\ r \in Seq(Entries) /\ c \in Nat /\ Distinct(r) /\ Linked(m, g, r)
      /\ Apart(s, r) /\ \A f \in Heads : (f # h => Apart(s, l[f])) /\ (f # g => Apart(r, l[f]))
  BY Parts
<1>2. h \in Heads \ {g} /\ g \in Heads \ {h} /\ g \in Nodes /\ h \in Nodes
  BY DEF Nodes
<1>3. /\ k \in Nat /\ k + 1 \in Nat /\ k \in 0 .. Len(s) /\ Len(r) > 0 /\ c > 0
      /\ JoinedAt(t, s, k, r) /\ p = At(h, s, k) /\ q = At(h, s, k + 1)
      /\ 0 \in 0 .. Len(r) /\ c \in 0 .. Len(r) /\ 1 \in Nat
  BY <1>1
<1> HIDE DEF w, s, r
<1>4. first \in Nodes /\ last \in Nodes /\ p \in Nodes /\ q \in Nodes
  BY <1>1, <1>3, RingNodes
<1>5. p # last /\ q # first
  BY <1>1, <1>2, <1>3, TwoRings
<1>6. first = m.next[g] /\ last = m.prev[g]
  <2>1. At(g, r, 0) = g /\ At(g, r, c + 1) = g
    BY <1>1, RingNodes
  <2>2. m.next[At(g, r, 0)] = At(g, r, 0 + 1) /\ m.prev[At(g, r, c + 1)] = At(g, r, c)
    BY <1>1, <1>3 DEF Linked
  <2> QED BY <2>1, <2>2
<1> HIDE DEF first, last
<1>7. Spliced(w, m, first, last, p, q)
  BY <1>1, <1>2, <1>4, <1>5, <1>6, SpliceEffect DEF w
<1>8. w \in Memory /\ Same(w, m, {p, last}, {q, first})
  BY <1>7 DEF Spliced
<1>9. Linked(w, h, t)
  <2>1. Spliced(w, m, At(g, r, 1), At(g, r, Len(r)), At(h, s, k), At(h, s, k + 1))
    BY <1>3, <1>7 DEF first, last
  <2> QED BY <1>1, <1>2, <1>3, <2>1, JoinedRing
<1>10. AllApart(s, l, C) /\ AllApart(r, l, C)
  BY <1>1 DEF AllApart
<1>11. Distinct(t) /\ AllApart(t, l, C)
  <2> HIDE DEF C, c
  <2> QED BY <1>1, <1>3, <1>10, JoinedDistinct
<1>12. /\ l2 \in [Heads -> Seq(Entries)] /\ Unique(l2)
       /\ l2[g] = <<>> /\ l2[h] = t /\ Agree(l2, l, C)
  <2>1. <<>> \in Seq(Entries) /\ Distinct(<<>>) /\ Apart(<<>>, t) /\ AllApart(<<>>, l, C)
    BY DEF Distinct, Apart, AllApart
  <2>2. /\ l2 \in [Heads -> Seq(Entries)] /\ l2[g] = <<>> /\ l2[h] = t
        /\ Agree(l2, l, C)
    BY <1>1, <1>2, <2>1 DEF Agree
  <2> HIDE DEF C
  <2>3. C = {g, h}
    BY DEF C
  <2>4. Unique(l2)
    BY <1>1, <1>2, <1>11, <2>1, <2>2, <2>3, TwoChanged
  <2> QED BY <2>2, <2>4
<1>13. Settled(w, v, l2, C)
  BY <1>9, <1>12 DEF Settled
<1>14. Spared(w, m, u, v, l, l2, C)
  <2>1. ASSUME NEW f \in Heads \ C, NEW i \in Nat
        PROVE  /\ w.next[At(f, l[f], i)] = m.next[At(f, l[f], i)]
               /\ w.prev[At(f, l[f], i)] = m.prev[At(f, l[f], i)]
    <3>1. At(f, l[f], i) \in Nodes /\ \A j \in Nat : At(f, l[f], i) # At(h, s, j)
      BY OtherRings DEF s
    <3>2. \A j \in Nat : At(f, l[f], i) # At(g, r, j)
      BY OtherRings DEF r
    <3>3. /\ At(f, l[f], i) # p /\ At(f, l[f], i) # q
          /\ At(f, l[f], i) # first /\ At(f, l[f], i) # last
      BY <1>1, <1>3, <3>1, <3>2 DEF first, last
    <3> QED BY <1>8, <3>1, <3>3 DEF Same
  <2> QED BY <1>12, <2>1 DEF Spared, Agree
<1>15. C \in SUBSET Heads /\ v \in SUBSET Heads
  BY <1>1, <1>2
<1> HIDE DEF C, v
<1>16. Represents(w, v, l2)
  BY <1>1, <1>8, <1>12, <1>13, <1>14, <1>15, Assemble
<1> QED BY <1>16 DEF w, v

-----------------------------------------------------------------------------
(* The operators of ListSeq, entry by entry *)

\* <<e>> \o s is an insertion at the front.
LEMMA PushedSeq ==
  ASSUME NEW s \in Seq(Entries), NEW e \in Entries, NEW t, t = <<e>> \o s
  PROVE  t \in Seq(Entries) /\ InsertedAt(t, s, 0, e)
<1> DEFINE a == <<e>>
<1>1. Len(s) \in Nat /\ a \in Seq(Entries) /\ Len(a) = 1 /\ a[1] = e
  BY LenProperties
<1> HIDE DEF a
<1>2. t = a \o s
  BY DEF a
<1>3. /\ t \in Seq(Entries) /\ Len(t) = Len(a) + Len(s)
      /\ \A i \in 1 .. Len(a) + Len(s) : t[i] = IF i <= Len(a) THEN a[i] ELSE s[i - Len(a)]
  BY <1>1, <1>2, ConcatProperties
<1>4. ASSUME NEW i \in 1 .. Len(t)
      PROVE  t[i] = IF i <= 0 THEN s[i] ELSE IF i = 0 + 1 THEN e ELSE s[i - 1]
  <2>1. CASE i = 1
    BY <1>1, <1>3, <2>1
  <2>2. CASE i > 1
    BY <1>1, <1>3, <2>2
  <2> QED BY <1>1, <1>3, <2>1, <2>2
<1> QED BY <1>1, <1>3, <1>4 DEF InsertedAt

\* Append is an insertion at the end.
LEMMA AppendedSeq ==
  ASSUME NEW s \in Seq(Entries), NEW e \in Entries, NEW t, t = Append(s, e)
  PROVE  t \in Seq(Entries) /\ InsertedAt(t, s, Len(s), e)
<1>1. Len(s) \in Nat
  BY LenProperties
<1>2. /\ t \in Seq(Entries) /\ Len(t) = Len(s) + 1
      /\ \A i \in 1 .. Len(s) : t[i] = s[i]
      /\ t[Len(s) + 1] = e
  BY AppendProperties
<1>3. ASSUME NEW i \in 1 .. Len(t)
      PROVE  t[i] = IF i <= Len(s) THEN s[i] ELSE IF i = Len(s) + 1 THEN e ELSE s[i - 1]
  BY <1>1, <1>2
<1> QED BY <1>2, <1>3 DEF InsertedAt

\* RemoveAt is a removal.
LEMMA RemovedSeq ==
  ASSUME NEW s \in Seq(Entries), NEW k \in 1 .. Len(s), NEW t, t = RemoveAt(s, k)
  PROVE  t \in Seq(Entries) /\ RemovedAt(t, s, k)
<1> DEFINE n == Len(s)
           a == SubSeq(s, 1, k - 1)
           b == SubSeq(s, k + 1, n)
<1>1. n \in Nat /\ k \in Nat /\ 1 <= k /\ k <= n
  BY LenProperties
<1>2. /\ a \in Seq(Entries) /\ Len(a) = k - 1
      /\ \A i \in 1 .. k - 1 : a[i] = s[i]
  BY <1>1, SubSeqProperties
<1>3. /\ b \in Seq(Entries) /\ Len(b) = n - k
      /\ \A i \in 1 .. n - k : b[i] = s[i + k]
  BY <1>1, SubSeqProperties
<1>4. t = a \o b
  BY DEF RemoveAt
<1> HIDE DEF a, b, n
<1>5. /\ t \in Seq(Entries) /\ Len(t) = Len(a) + Len(b)
      /\ \A i \in 1 .. Len(a) + Len(b) : t[i] = IF i <= Len(a) THEN a[i] ELSE b[i - Len(a)]
  BY <1>2, <1>3, <1>4, ConcatProperties
<1>6. Len(t) = n - 1
  BY <1>1, <1>2, <1>3, <1>5
<1>7. ASSUME NEW i \in 1 .. n - 1 PROVE t[i] = IF i < k THEN s[i] ELSE s[i + 1]
  <2>1. CASE i < k
    BY <1>1, <1>2, <1>3, <1>5, <2>1
  <2>2. CASE i >= k
    <3>1. i - (k - 1) \in 1 .. n - k /\ (i - (k - 1)) + k = i + 1
      BY <1>1, <2>2
    <3>2. t[i] = b[i - (k - 1)]
      BY <1>1, <1>2, <1>3, <1>5, <2>2
    <3> QED BY <1>1, <1>3, <2>2, <3>1, <3>2
  <2> QED BY <1>1, <2>1, <2>2
<1> QED BY <1>5, <1>6, <1>7 DEF RemovedAt, n

\* The two SubSeqs are the parts of a cut.
LEMMA CutSeqs ==
  ASSUME NEW s \in Seq(Entries), NEW k \in 1 .. Len(s),
         NEW a, a = SubSeq(s, 1, k), NEW b, b = SubSeq(s, k + 1, Len(s))
  PROVE  a \in Seq(Entries) /\ b \in Seq(Entries) /\ CutAt(a, b, s, k)
<1> DEFINE n == Len(s)
<1>1. n \in Nat /\ k \in Nat /\ 1 <= k /\ k <= n
  BY LenProperties
<1>2. a \in Seq(Entries) /\ Len(a) = k /\ \A i \in 1 .. k : a[i] = s[i]
  BY <1>1, SubSeqProperties
<1>3. b \in Seq(Entries) /\ Len(b) = n - k /\ \A i \in 1 .. n - k : b[i] = s[i + k]
  BY <1>1, SubSeqProperties
<1> QED BY <1>2, <1>3 DEF CutAt

\* Either concatenation is a join.
LEMMA JoinedSeqs ==
  ASSUME NEW s \in Seq(Entries), NEW r \in Seq(Entries), NEW t, NEW k,
         \/ t = r \o s /\ k = 0
         \/ t = s \o r /\ k = Len(s)
  PROVE  t \in Seq(Entries) /\ JoinedAt(t, s, k, r)
<1>1. Len(s) \in Nat /\ Len(r) \in Nat
  BY LenProperties
<1>2. CASE t = r \o s /\ k = 0
  <2>1. /\ t \in Seq(Entries) /\ Len(t) = Len(r) + Len(s)
        /\ \A i \in 1 .. Len(r) + Len(s) : t[i] = IF i <= Len(r) THEN r[i] ELSE s[i - Len(r)]
    BY <1>2, ConcatProperties
  <2>2. ASSUME NEW i \in 1 .. Len(t)
        PROVE  t[i] = IF i <= k THEN s[i] ELSE IF i <= k + Len(r) THEN r[i - k] ELSE s[i - Len(r)]
    BY <1>1, <1>2, <2>1
  <2>3. t \in Seq(Entries) /\ Len(t) = Len(s) + Len(r)
    BY <1>1, <2>1
  <2> QED BY <2>2, <2>3 DEF JoinedAt
<1>3. CASE t = s \o r /\ k = Len(s)
  <2>1. /\ t \in Seq(Entries) /\ Len(t) = Len(s) + Len(r)
        /\ \A i \in 1 .. Len(s) + Len(r) : t[i] = IF i <= Len(s) THEN s[i] ELSE r[i - Len(s)]
    BY <1>3, ConcatProperties
  <2>2. ASSUME NEW i \in 1 .. Len(t)
        PROVE  t[i] = IF i <= k THEN s[i] ELSE IF i <= k + Len(r) THEN r[i - k] ELSE s[i - Len(r)]
    BY <1>1, <1>3, <2>1
  <2> QED BY <2>1, <2>2 DEF JoinedAt
<1> QED BY <1>2, <1>3

\* The exchange of ListSeq changes one place.
LEMMA ChangedSeq ==
  ASSUME NEW s \in Seq(Entries), Distinct(s), NEW k \in 1 .. Len(s), NEW e \in Entries,
         NEW t, t = [i \in DOMAIN s |-> IF s[i] = s[k] THEN e ELSE s[i]]
  PROVE  t \in Seq(Entries) /\ ChangedAt(t, s, k, e)
<1>1. Len(s) \in Nat /\ DOMAIN s = 1 .. Len(s) /\ \A i \in 1 .. Len(s) : s[i] \in Entries
  BY LenProperties, ElementOfSeq
<1>2. t \in [1 .. Len(s) -> Entries]
  BY <1>1
<1>3. t \in Seq(Entries) /\ Len(t) = Len(s)
  BY <1>1, <1>2, IsASeq, LenProperties
<1>4. \A i \in 1 .. Len(s) : s[i] = s[k] <=> i = k
  BY DEF Distinct
<1> QED BY <1>1, <1>3, <1>4 DEF ChangedAt

-----------------------------------------------------------------------------
(* The routines on families of sequences *)

\* The links of a head, and what the tests make of them.
LEMMA HeadLinks ==
  ASSUME NEW m, NEW u, NEW l, Represents(m, u, l), NEW h \in Heads \ u
  PROVE  /\ m.next[h] = At(h, l[h], 1)
         /\ m.prev[h] = At(h, l[h], Len(l[h]))
         /\ list_empty(m, h) <=> l[h] = <<>>
         /\ list_empty_careful(m, h) <=> l[h] = <<>>
         /\ list_is_singular(m, h) <=> Len(l[h]) = 1
<1> DEFINE s == l[h]
           n == Len(s)
<1>1. s \in Seq(Entries) /\ n \in Nat /\ Distinct(s) /\ Linked(m, h, s)
  BY Parts
<1> HIDE DEF s
<1>2. m.next[h] = At(h, s, 1) /\ m.prev[h] = At(h, s, n)
  <2>1. At(h, s, 0) = h /\ At(h, s, n + 1) = h /\ 0 \in 0 .. n /\ n \in 0 .. n
    BY <1>1, RingNodes
  <2>2. m.next[At(h, s, 0)] = At(h, s, 0 + 1) /\ m.prev[At(h, s, n + 1)] = At(h, s, n)
    BY <1>1, <2>1 DEF Linked
  <2> QED BY <2>1, <2>2
<1>3. CASE n = 0
  <2>1. At(h, s, 1) = h /\ At(h, s, n) = h /\ s = <<>>
    BY <1>1, <1>3, EmptySeq DEF At
  <2> QED BY <1>2, <1>3, <2>1 DEF list_empty, list_empty_careful, list_is_singular, s
<1>4. CASE n > 0
  <2>1. s # <<>> /\ 1 \in 1 .. n /\ n \in 1 .. n
    BY <1>1, <1>4, EmptySeq
  <2>2. At(h, s, 1) = s[1] /\ At(h, s, n) = s[n] /\ s[1] # h /\ s[n] # h
    BY <1>1, <2>1, RingNodes
  <2>3. s[1] = s[n] <=> n = 1
    BY <1>1, <2>1 DEF Distinct
  <2> QED BY <1>2, <2>1, <2>2, <2>3 DEF list_empty, list_empty_careful, list_is_singular, s
<1> QED BY <1>1, <1>3, <1>4

\* list_add pushes.
LEMMA ListAddReps ==
  ASSUME NEW m, NEW u, NEW l, Represents(m, u, l), NEW h \in Heads \ u,
         NEW e \in Entries, OffAll(l, e)
  PROVE  Represents(list_add(m, e, h), u, [l EXCEPT ![h] = <<e>> \o @])
<1> DEFINE s == l[h]
           t == <<e>> \o s
           p == At(h, s, 0)
           q == At(h, s, 0 + 1)
<1>1. s \in Seq(Entries) /\ 0 \in 0 .. Len(s)
  BY Parts
<1>2. t \in Seq(Entries) /\ InsertedAt(t, s, 0, e)
  BY <1>1, PushedSeq
<1>3. p = h /\ q = m.next[h]
  BY <1>1, HeadLinks, RingNodes
<1> HIDE DEF t, p, q
<1>4. Represents(__list_add(m, e, p, q), u, [l EXCEPT ![h] = t])
  BY <1>1, <1>2, AddReps DEF p, q
<1> QED BY <1>3, <1>4 DEF list_add, t

\* list_add_tail appends.
LEMMA ListAddTailReps ==
  ASSUME NEW m, NEW u, NEW l, Represents(m, u, l), NEW h \in Heads \ u,
         NEW e \in Entries, OffAll(l, e)
  PROVE  Represents(list_add_tail(m, e, h), u, [l EXCEPT ![h] = Append(@, e)])
<1> DEFINE s == l[h]
           n == Len(s)
           t == Append(s, e)
           p == At(h, s, n)
           q == At(h, s, n + 1)
<1>1. s \in Seq(Entries) /\ n \in 0 .. n
  BY Parts
<1>2. t \in Seq(Entries) /\ InsertedAt(t, s, n, e)
  BY <1>1, AppendedSeq
<1>3. p = m.prev[h] /\ q = h
  BY <1>1, HeadLinks, RingNodes
<1> HIDE DEF t, p, q
<1>4. Represents(__list_add(m, e, p, q), u, [l EXCEPT ![h] = t])
  BY <1>1, <1>2, AddReps DEF p, q
<1> QED BY <1>3, <1>4 DEF list_add_tail, t

\* l without the k-th entry of h.
Less(l, h, k) == [l EXCEPT ![h] = RemoveAt(l[h], k)]

\* list_del and list_del_init remove.
LEMMA ListDelReps ==
  ASSUME NEW m, NEW u, NEW l, Represents(m, u, l), NEW h \in Heads, NEW k \in 1 .. Len(l[h]),
         NEW e, e = l[h][k],
         NEW w \in Deletions(m, e)
  PROVE  Represents(w, u, Less(l, h, k)) /\ OffAll(Less(l, h, k), e) /\ e \in Entries /\ h \notin u
<1> DEFINE t == RemoveAt(l[h], k)
           l2 == [l EXCEPT ![h] = t]
<1>1. l[h] \in Seq(Entries) /\ e \in Entries
  BY Parts, ElementOfSeq
<1>2. h \notin u
  <2>1. h \in u => l[h] = <<>>
    BY Parts
  <2> QED BY <2>1
<1>3. t \in Seq(Entries) /\ RemovedAt(t, l[h], k)
  BY <1>1, RemovedSeq
<1> HIDE DEF t
<1>4. l2 = [l EXCEPT ![h] = t] /\ h \in Heads \ u
  BY <1>2
<1> HIDE DEF l2
<1>5. Represents(w, u, l2) /\ OffAll(l2, e)
  BY <1>3, <1>4, DelReps
<1> QED BY <1>1, <1>2, <1>5 DEF Less, t, l2

\* list_move and list_move_tail remove and insert, on one list or from one to another.
LEMMA ListMoveReps ==
  ASSUME NEW m, NEW u, NEW l, Represents(m, u, l), NEW f \in Heads, NEW k \in 1 .. Len(l[f]),
         NEW e, e = l[f][k], NEW h \in Heads \ u
  PROVE  /\ Represents(list_move(m, e, h), u, [Less(l, f, k) EXCEPT ![h] = <<e>> \o @])
         /\ Represents(list_move_tail(m, e, h), u, [Less(l, f, k) EXCEPT ![h] = Append(@, e)])
<1> DEFINE w == __list_del_entry(m, e)
           l2 == Less(l, f, k)
<1>0. w \in Deletions(m, e)
  BY DEF Deletions
<1>1. Represents(w, u, l2) /\ OffAll(l2, e) /\ e \in Entries
  BY <1>0, ListDelReps
<1> HIDE DEF w, l2
<1>2. Represents(list_add(w, e, h), u, [l2 EXCEPT ![h] = <<e>> \o @])
  BY <1>1, ListAddReps
<1>3. Represents(list_add_tail(w, e, h), u, [l2 EXCEPT ![h] = Append(@, e)])
  BY <1>1, ListAddTailReps
<1> QED BY <1>2, <1>3 DEF list_move, list_move_tail, w, l2

\* list_replace and list_replace_init exchange an entry.
LEMMA ListReplaceReps ==
  ASSUME NEW m, NEW u, NEW l, Represents(m, u, l), NEW h \in Heads, NEW k \in 1 .. Len(l[h]),
         NEW old, old = l[h][k], NEW new \in Entries, OffAll(l, new),
         NEW w \in Replacements(m, old, new)
  PROVE  Represents(w, u, [l EXCEPT ![h] = [i \in DOMAIN l[h] |-> IF l[h][i] = old THEN new ELSE l[h][i]]])
<1> DEFINE s == l[h]
           t == [i \in DOMAIN s |-> IF s[i] = old THEN new ELSE s[i]]
           l2 == [l EXCEPT ![h] = t]
<1>1. s \in Seq(Entries) /\ Distinct(s)
  BY Parts
<1>2. h \in Heads \ u
  <2>1. h \in u => l[h] = <<>>
    BY Parts
  <2> QED BY <2>1
<1>3. t \in Seq(Entries) /\ ChangedAt(t, s, k, new)
  BY <1>1, ChangedSeq
<1> HIDE DEF t
<1>4. l2 = [l EXCEPT ![h] = t]
  OBVIOUS
<1> HIDE DEF l2
<1>5. Represents(w, u, l2)
  BY <1>2, <1>3, <1>4, ReplaceReps
<1> QED BY <1>5 DEF l2, t

\* On heads they hand the list over, an empty one included.
LEMMA ListReplaceHeadReps ==
  ASSUME NEW m, NEW u, NEW l, Represents(m, u, l), NEW h \in Heads \ u, NEW g \in u,
         NEW l2, l2 = [l EXCEPT ![g] = l[h], ![h] = <<>>]
  PROVE  /\ Represents(list_replace(m, h, g), (u \ {g}) \cup {h}, l2)
         /\ Represents(list_replace_init(m, h, g), u \ {g}, l2)
<1> DEFINE w == list_replace(m, h, g)
           v == (u \ {g}) \cup {h}
<1>1. Represents(w, v, l2)
  BY TakeOverReps
<1> HIDE DEF w
<1>2. l2[h] = <<>>
  BY Parts
<1>3. v \ {h} = u \ {g}
  OBVIOUS
<1> HIDE DEF v
<1>4. Represents(INIT_LIST_HEAD(w, h), v \ {h}, l2)
  BY <1>1, <1>2, InitReps
<1> QED BY <1>1, <1>3, <1>4 DEF list_replace_init, w, v

\* list_rotate_left moves the first entry to the end.
LEMMA ListRotateReps ==
  ASSUME NEW m, NEW u, NEW l, Represents(m, u, l), NEW h \in Heads \ u, l[h] # <<>>
  PROVE  Represents(list_rotate_left(m, h), u, [Less(l, h, 1) EXCEPT ![h] = Append(@, l[h][1])])
<1> DEFINE e == l[h][1]
<1>1. l[h] \in Seq(Entries) /\ Len(l[h]) \in Nat
  BY Parts
<1>2. 1 \in 1 .. Len(l[h])
  BY <1>1, EmptySeq
<1>3. m.next[h] = e /\ ~list_empty(m, h)
  BY <1>2, HeadLinks DEF At
<1> HIDE DEF e
<1>4. Represents(list_move_tail(m, e, h), u, [Less(l, h, 1) EXCEPT ![h] = Append(@, e)])
  BY <1>2, ListMoveReps DEF e
<1> QED BY <1>3, <1>4 DEF list_rotate_left, e

\* The entries of h up to the k-th one are those of g.
CutBehind(l, g, h, k) ==
  [l EXCEPT ![g] = SubSeq(l[h], 1, k), ![h] = SubSeq(l[h], k + 1, Len(l[h]))]

\* list_cut_position cuts behind the entry it is given, early returns included.
LEMMA ListCutReps ==
  ASSUME NEW m, NEW u, NEW l, Represents(m, u, l), NEW h \in Heads \ u,
         NEW g \in Heads \ {h}, l[g] = <<>>, NEW k \in 0 .. Len(l[h]), NEW e, e = At(h, l[h], k)
  PROVE  /\ CutReturns(m, h, e) => Represents(list_cut_position(m, g, h, e), u, CutBehind(l, g, h, k))
         /\ ~CutReturns(m, h, e) =>
              Represents(list_cut_position(m, g, h, e), u \ {g}, CutBehind(l, g, h, k))
<1> DEFINE s == l[h]
           n == Len(s)
           a == SubSeq(s, 1, k)
           b == SubSeq(s, k + 1, n)
           l2 == CutBehind(l, g, h, k)
<1>1. s \in Seq(Entries) /\ n \in Nat /\ l \in [Heads -> Seq(Entries)]
  BY Parts
<1>2. CutReturns(m, h, e) <=> s = <<>>
  <2>1. list_empty(m, h) <=> s = <<>>
    BY HeadLinks
  <2>2. list_is_singular(m, h) => e \in {h, m.next[h]}
    <3>1. m.next[h] = At(h, s, 1) /\ (list_is_singular(m, h) <=> n = 1)
      BY HeadLinks
    <3>2. n = 1 => e = At(h, s, 0) \/ e = At(h, s, 1)
      BY <1>1
    <3>3. At(h, s, 0) = h
      BY DEF At
    <3> QED BY <3>1, <3>2, <3>3
  <2> QED BY <2>1, <2>2 DEF CutReturns
<1>3. l2 = [l EXCEPT ![g] = a, ![h] = b]
  BY DEF CutBehind
<1>4. k = 0 => e = h /\ l2 = l
  <2> SUFFICES ASSUME k = 0 PROVE e = h /\ l2 = l
    OBVIOUS
  <2>1. e = h
    BY DEF At
  <2>2. a = <<>>
    BY SubSeqEmpty
  <2>3. b = s
    BY <1>1, SubSeqFull
  <2> HIDE DEF a, b, l2
  <2> QED BY <1>1, <1>3, <2>1, <2>2, <2>3
<1> HIDE DEF l2
<1>5. CASE s = <<>>
  <2>1. k = 0 /\ list_cut_position(m, g, h, e) = m
    BY <1>1, <1>2, <1>5 DEF list_cut_position
  <2> QED BY <1>2, <1>4, <1>5, <2>1 DEF l2
<1>6. CASE s # <<>> /\ k = 0
  <2>1. list_cut_position(m, g, h, e) = INIT_LIST_HEAD(m, g)
    BY <1>2, <1>4, <1>6 DEF list_cut_position
  <2>2. Represents(INIT_LIST_HEAD(m, g), u \ {g}, l)
    BY InitReps
  <2> QED BY <1>2, <1>4, <1>6, <2>1, <2>2 DEF l2
<1>7. CASE s # <<>> /\ k > 0
  <2>1. k \in 1 .. n /\ e = s[k]
    BY <1>1, <1>7 DEF At
  <2>2. e # h
    BY <1>1, <2>1, RingNodes
  <2>3. list_cut_position(m, g, h, e) = __list_cut_position(m, g, h, e)
    BY <1>2, <1>7, <2>2 DEF list_cut_position
  <2>4. a \in Seq(Entries) /\ b \in Seq(Entries) /\ CutAt(a, b, s, k)
    BY <1>1, <2>1, CutSeqs
  <2> HIDE DEF a, b
  <2>5. Represents(__list_cut_position(m, g, h, e), u \ {g}, l2)
    BY <1>3, <2>1, <2>4, CutReps
  <2> QED BY <1>2, <1>7, <2>3, <2>5 DEF l2
<1> QED BY <1>1, <1>5, <1>6, <1>7

\* What the two kinds of splice do to the sequences, an empty list included.
JoinedInFront(l, g, h) == [l EXCEPT ![g] = <<>>, ![h] = l[g] \o @]

JoinedBehind(l, g, h) == [l EXCEPT ![g] = <<>>, ![h] = @ \o l[g]]

\* Joining an empty list changes nothing.
LEMMA NothingJoined ==
  ASSUME NEW l \in [Heads -> Seq(Entries)], NEW g \in Heads, NEW h \in Heads, g # h, l[g] = <<>>
  PROVE  JoinedInFront(l, g, h) = l /\ JoinedBehind(l, g, h) = l
<1>1. l[h] \in Seq(Entries)
  OBVIOUS
<1>2. <<>> \o l[h] = l[h] /\ l[h] \o <<>> = l[h]
  BY <1>1, ConcatEmptySeq
<1> QED BY <1>2 DEF JoinedInFront, JoinedBehind

\* The splices join and leave the other head undefined.
LEMMA ListSpliceReps ==
  ASSUME NEW m, NEW u, NEW l, Represents(m, u, l), NEW g \in Heads \ u, NEW h \in Heads \ u,
         g # h, l[g] # <<>>
  PROVE  /\ Represents(list_splice(m, g, h), u \cup {g}, JoinedInFront(l, g, h))
         /\ Represents(list_splice_tail(m, g, h), u \cup {g}, JoinedBehind(l, g, h))
<1> DEFINE s == l[h]
           r == l[g]
           n == Len(s)
<1>1. /\ s \in Seq(Entries) /\ n \in Nat /\ r \in Seq(Entries) /\ Len(r) > 0
      /\ 0 \in 0 .. n /\ n \in 0 .. n
  BY Parts, EmptySeq
<1>2. ~list_empty(m, g) /\ m.next[h] = At(h, s, 1) /\ m.prev[h] = At(h, s, n)
  BY HeadLinks
<1>3. At(h, s, 0) = h /\ At(h, s, n + 1) = h
  BY <1>1, RingNodes
<1>4. Represents(list_splice(m, g, h), u \cup {g}, JoinedInFront(l, g, h))
  <2> DEFINE t == r \o s
             p == At(h, s, 0)
             q == At(h, s, 0 + 1)
             l2 == [l EXCEPT ![g] = <<>>, ![h] = t]
  <2>1. t \in Seq(Entries) /\ JoinedAt(t, s, 0, r)
    BY <1>1, JoinedSeqs
  <2>2. l2 = JoinedInFront(l, g, h)
    BY DEF JoinedInFront
  <2>3. l2 = [l EXCEPT ![g] = <<>>, ![h] = t] /\ p = At(h, s, 0) /\ q = At(h, s, 0 + 1)
    OBVIOUS
  <2>4. list_splice(m, g, h) = __list_splice(m, g, p, q)
    BY <1>2, <1>3 DEF list_splice
  <2> HIDE DEF t, p, q, l2
  <2>5. Represents(__list_splice(m, g, p, q), u \cup {g}, l2)
    BY <1>1, <2>1, <2>3, SpliceReps
  <2> QED BY <2>2, <2>4, <2>5
<1>5. Represents(list_splice_tail(m, g, h), u \cup {g}, JoinedBehind(l, g, h))
  <2> DEFINE t == s \o r
             p == At(h, s, n)
             q == At(h, s, n + 1)
             l2 == [l EXCEPT ![g] = <<>>, ![h] = t]
  <2>1. t \in Seq(Entries) /\ JoinedAt(t, s, n, r)
    BY <1>1, JoinedSeqs
  <2>2. l2 = JoinedBehind(l, g, h)
    BY DEF JoinedBehind
  <2>3. l2 = [l EXCEPT ![g] = <<>>, ![h] = t] /\ p = At(h, s, n) /\ q = At(h, s, n + 1)
    OBVIOUS
  <2>4. list_splice_tail(m, g, h) = __list_splice(m, g, p, q)
    BY <1>2, <1>3 DEF list_splice_tail
  <2> HIDE DEF t, p, q, l2
  <2>5. Represents(__list_splice(m, g, p, q), u \cup {g}, l2)
    BY <1>1, <2>1, <2>3, SpliceReps
  <2> QED BY <2>2, <2>4, <2>5
<1> QED BY <1>4, <1>5

\* With the _init suffix they leave it empty.
LEMMA ListSpliceInitReps ==
  ASSUME NEW m, NEW u, NEW l, Represents(m, u, l), NEW g \in Heads \ u, NEW h \in Heads \ u,
         g # h, l[g] # <<>>
  PROVE  /\ Represents(list_splice_init(m, g, h), u, JoinedInFront(l, g, h))
         /\ Represents(list_splice_tail_init(m, g, h), u, JoinedBehind(l, g, h))
<1> DEFINE a == list_splice(m, g, h)
           b == list_splice_tail(m, g, h)
           x == JoinedInFront(l, g, h)
           y == JoinedBehind(l, g, h)
           v == u \cup {g}
<1>1. Represents(a, v, x) /\ Represents(b, v, y)
  BY ListSpliceReps
<1>2. l \in [Heads -> Seq(Entries)] /\ ~list_empty(m, g)
  BY Parts, HeadLinks
<1>3. x[g] = <<>> /\ y[g] = <<>>
  BY <1>2 DEF JoinedInFront, JoinedBehind
<1>4. v \ {g} = u
  OBVIOUS
<1> HIDE DEF a, b, x, y, v
<1>5. Represents(INIT_LIST_HEAD(a, g), v \ {g}, x) /\ Represents(INIT_LIST_HEAD(b, g), v \ {g}, y)
  BY <1>1, <1>3, InitReps
<1> QED BY <1>2, <1>4, <1>5 DEF list_splice_init, list_splice_tail_init, a, b, x, y

-----------------------------------------------------------------------------
(* The callers *)

\* The memory is that of the sequences the loops read from it.
Faithful == Represents(mem, undef, Lists)

\* A step that makes the memory represent l2 makes Lists be l2.
LEMMA Becomes ==
  ASSUME NEW l2, Represents(mem', undef', l2)
  PROVE  Lists' = l2 /\ Faithful'
<1>1. l2 = [h \in Heads |-> IF h \in undef' THEN <<>> ELSE list_for_each(mem', h)]
  BY ListsRead
<1>2. Lists' = l2
  BY <1>1 DEF Lists
<1> QED BY <1>2 DEF Faithful

\* The entries of a head and those of all heads.
LEMMA Members ==
  ASSUME Faithful
  PROVE  /\ \A h \in Heads : On(h) = {Lists[h][i] : i \in 1 .. Len(Lists[h])}
         /\ \A e : e \notin Listed <=> OffAll(Lists, e)
         /\ \A e \in Listed : \E h \in Heads : \E k \in 1 .. Len(Lists[h]) : e = Lists[h][k]
<1>1. ASSUME NEW h \in Heads PROVE On(h) = {Lists[h][i] : i \in 1 .. Len(Lists[h])}
  <2>1. Lists[h] = IF h \in undef THEN <<>> ELSE list_for_each(mem, h)
    BY DEF Lists
  <2>2. Lists[h] \in Seq(Entries) /\ DOMAIN Lists[h] = 1 .. Len(Lists[h])
    BY Parts, LenProperties DEF Faithful
  <2>3. CASE h \in undef
    <3>1. Len(Lists[h]) = 0
      BY <2>1, <2>3, EmptySeq
    <3> QED BY <2>3, <3>1 DEF On
  <2>4. CASE h \notin undef
    BY <2>1, <2>2, <2>4 DEF On, ToSet
  <2> QED BY <2>3, <2>4
<1>2. Listed = UNION {{Lists[h][i] : i \in 1 .. Len(Lists[h])} : h \in Heads}
  BY <1>1 DEF Listed
<1>3. \A e : e \in Listed <=> \E h \in Heads : \E k \in 1 .. Len(Lists[h]) : e = Lists[h][k]
  BY <1>2
<1>4. \A e : e \notin Listed <=> OffAll(Lists, e)
  BY <1>3 DEF OffAll, NotIn
<1> QED BY <1>1, <1>3, <1>4

\* Off of ListSeq, in this module's terms.
LEMMA OffIs ==
  ASSUME NEW e
  PROVE  Seqs!Off(e) <=> OffAll(Lists, e)
BY DEF Seqs!Off, Seqs!Contains, OffAll, NotIn

\* The operators of ListSeq for an entry that is on a list.
LEMMA Located ==
  ASSUME Faithful, NEW h \in Heads, NEW k \in 1 .. Len(Lists[h]), NEW e, e = Lists[h][k]
  PROVE  /\ Seqs!Position(e, h) = k
         /\ Seqs!Without(e) = Less(Lists, h, k)
         /\ ~Seqs!Off(e)
         /\ e \in Entries /\ h \notin undef
<1>1. /\ Lists \in [Heads -> Seq(Entries)] /\ Lists[h] \in Seq(Entries) /\ Distinct(Lists[h])
      /\ \A g \in Heads \ {h} : Apart(Lists[g], Lists[h])
      /\ h \in undef => Lists[h] = <<>>
  BY Parts DEF Faithful
<1>2. e \in Entries /\ DOMAIN Lists[h] = 1 .. Len(Lists[h])
  BY <1>1, ElementOfSeq, LenProperties
<1>3. Seqs!Position(e, h) = k
  <2>1. \A i \in DOMAIN Lists[h] : Lists[h][i] = e <=> i = k
    BY <1>1, <1>2 DEF Distinct
  <2> QED BY <1>2, <2>1 DEF Seqs!Position
<1>4. Contains(Lists[h], e)
  BY DEF Contains
<1>5. \A g \in Heads \ {h} : ~Contains(Lists[g], e)
  BY <1>1 DEF Contains, Apart
<1>6. Seqs!Without(e) = Less(Lists, h, k)
  <2>1. Seqs!Without(e) = [g \in Heads |-> IF Contains(Lists[g], e)
                                           THEN RemoveAt(Lists[g], Seqs!Position(e, g)) ELSE Lists[g]]
    BY DEF Seqs!Without, Seqs!Contains, Seqs!RemoveAt, Contains, RemoveAt
  <2>2. \A g \in Heads : Seqs!Without(e)[g] = IF g = h THEN RemoveAt(Lists[h], k) ELSE Lists[g]
    BY <1>3, <1>4, <1>5, <2>1
  <2> QED BY <1>1, <2>1, <2>2 DEF Less
<1>7. ~Seqs!Off(e)
  BY <1>4 DEF Seqs!Off, Seqs!Contains, Contains
<1>8. h \notin undef
  BY <1>1, EmptySeq
<1> QED BY <1>2, <1>3, <1>6, <1>7, <1>8

\* Initialising a head is no step of ListSeq.
LEMMA InitHeadStep ==
  ASSUME Faithful, NEW h \in Heads, InitHead(h)
  PROVE  Faithful' /\ Lists' = Lists
<1>1. Lists[h] = <<>> /\ h \in undef
  BY DEF InitHead, Lists
<1>2. Represents(INIT_LIST_HEAD(mem, h), undef \ {h}, Lists)
  BY <1>1, InitReps DEF Faithful
<1>3. Represents(mem', undef', Lists)
  BY <1>2 DEF InitHead, Does
<1> QED BY <1>3, Becomes

\* Adding is Push or Append1.
LEMMA AddStep ==
  ASSUME Faithful, NEW e \in Entries, NEW h \in Heads
  PROVE  /\ AddHead(e, h) => Faithful' /\ Seqs!Push(e, h)
         /\ AddTail(e, h) => Faithful' /\ Seqs!Append1(e, h)
<1>1. ASSUME AddHead(e, h) PROVE Faithful' /\ Seqs!Push(e, h)
  <2>1. OffAll(Lists, e) /\ h \in Heads \ undef
    BY <1>1, Members DEF AddHead, Ready
  <2>2. Represents(list_add(mem, e, h), undef, [Lists EXCEPT ![h] = <<e>> \o @])
    BY <2>1, ListAddReps DEF Faithful
  <2>3. Represents(mem', undef', [Lists EXCEPT ![h] = <<e>> \o @])
    BY <1>1, <2>2 DEF AddHead, Does
  <2>4. Faithful' /\ Lists' = [Lists EXCEPT ![h] = <<e>> \o @]
    BY <2>3, Becomes
  <2> QED BY <2>1, <2>4, OffIs DEF Seqs!Push
<1>2. ASSUME AddTail(e, h) PROVE Faithful' /\ Seqs!Append1(e, h)
  <2>1. OffAll(Lists, e) /\ h \in Heads \ undef
    BY <1>2, Members DEF AddTail, Ready
  <2>2. Represents(list_add_tail(mem, e, h), undef, [Lists EXCEPT ![h] = Append(@, e)])
    BY <2>1, ListAddTailReps DEF Faithful
  <2>3. Represents(mem', undef', [Lists EXCEPT ![h] = Append(@, e)])
    BY <1>2, <2>2 DEF AddTail, Does
  <2>4. Faithful' /\ Lists' = [Lists EXCEPT ![h] = Append(@, e)]
    BY <2>3, Becomes
  <2> QED BY <2>1, <2>4, OffIs DEF Seqs!Append1
<1> QED BY <1>1, <1>2

\* Deleting is Drop.
LEMMA DelStep ==
  ASSUME Faithful, NEW e \in Entries, Del(e)
  PROVE  Faithful' /\ Seqs!Drop(e)
<1>0. PICK h \in Heads : \E k \in 1 .. Len(Lists[h]) : e = Lists[h][k]
  BY Members DEF Del
<1>1. PICK k \in 1 .. Len(Lists[h]) : e = Lists[h][k]
  BY <1>0
<1>2. mem' \in Deletions(mem, e) /\ undef' = undef
  BY DEF Del, Does, Deletions
<1>3. Represents(mem', undef', Less(Lists, h, k))
  BY <1>1, <1>2, ListDelReps DEF Faithful
<1>4. Faithful' /\ Lists' = Less(Lists, h, k)
  BY <1>3, Becomes
<1>5. Seqs!Without(e) = Less(Lists, h, k) /\ ~Seqs!Off(e)
  BY <1>1, Located
<1> QED BY <1>4, <1>5 DEF Seqs!Drop

\* Moving is MoveFront or MoveBack.
LEMMA MoveStep ==
  ASSUME Faithful, NEW e \in Entries, NEW h \in Heads
  PROVE  /\ MoveHead(e, h) => Faithful' /\ Seqs!MoveFront(e, h)
         /\ MoveTail(e, h) => Faithful' /\ Seqs!MoveBack(e, h)
<1> SUFFICES ASSUME MoveHead(e, h) \/ MoveTail(e, h)
             PROVE  /\ MoveHead(e, h) => Faithful' /\ Seqs!MoveFront(e, h)
                    /\ MoveTail(e, h) => Faithful' /\ Seqs!MoveBack(e, h)
  OBVIOUS
<1>0. PICK f \in Heads : \E k \in 1 .. Len(Lists[f]) : e = Lists[f][k]
  BY Members DEF MoveHead, MoveTail
<1>1. PICK k \in 1 .. Len(Lists[f]) : e = Lists[f][k]
  BY <1>0
<1>2. h \in Heads \ undef
  BY DEF MoveHead, MoveTail, Ready
<1>3. Seqs!Without(e) = Less(Lists, f, k) /\ ~Seqs!Off(e)
  BY <1>1, Located
<1> DEFINE less == Less(Lists, f, k)
<1>4. /\ Represents(list_move(mem, e, h), undef, [less EXCEPT ![h] = <<e>> \o @])
      /\ Represents(list_move_tail(mem, e, h), undef, [less EXCEPT ![h] = Append(@, e)])
  BY <1>1, <1>2, ListMoveReps DEF Faithful
<1> HIDE DEF less
<1>5. ASSUME MoveHead(e, h) PROVE Faithful' /\ Seqs!MoveFront(e, h)
  <2>1. Represents(mem', undef', [less EXCEPT ![h] = <<e>> \o @])
    BY <1>4, <1>5 DEF MoveHead, Does
  <2>2. Faithful' /\ Lists' = [less EXCEPT ![h] = <<e>> \o @]
    BY <2>1, Becomes
  <2> QED BY <1>3, <2>2 DEF Seqs!MoveFront, less
<1>6. ASSUME MoveTail(e, h) PROVE Faithful' /\ Seqs!MoveBack(e, h)
  <2>1. Represents(mem', undef', [less EXCEPT ![h] = Append(@, e)])
    BY <1>4, <1>6 DEF MoveTail, Does
  <2>2. Faithful' /\ Lists' = [less EXCEPT ![h] = Append(@, e)]
    BY <2>1, Becomes
  <2> QED BY <1>3, <2>2 DEF Seqs!MoveBack, less
<1> QED BY <1>5, <1>6

\* Replacing an entry is Exchange.
LEMMA ReplaceStep ==
  ASSUME Faithful, NEW old \in Entries, NEW new \in Entries, Replace(old, new)
  PROVE  Faithful' /\ Seqs!Exchange(old, new)
<1>0. PICK h \in Heads : \E k \in 1 .. Len(Lists[h]) : old = Lists[h][k]
  BY Members DEF Replace
<1>1. PICK k \in 1 .. Len(Lists[h]) : old = Lists[h][k]
  BY <1>0
<1>2. OffAll(Lists, new)
  BY Members DEF Replace
<1>3. mem' \in Replacements(mem, old, new) /\ undef' = undef
  BY DEF Replace, Does, Replacements
<1> DEFINE t(g) == [i \in DOMAIN Lists[g] |-> IF Lists[g][i] = old THEN new ELSE Lists[g][i]]
           l2 == [Lists EXCEPT ![h] = t(h)]
<1>4. Represents(mem', undef', l2)
  BY <1>1, <1>2, <1>3, ListReplaceReps DEF Faithful
<1>5. l2 = [g \in Heads |-> t(g)]
  <2>1. /\ Lists \in [Heads -> Seq(Entries)]
        /\ \A g \in Heads \ {h} : Apart(Lists[g], Lists[h])
    BY Parts DEF Faithful
  <2>2. ASSUME NEW g \in Heads \ {h} PROVE t(g) = Lists[g]
    <3>1. Lists[g] \in [1 .. Len(Lists[g]) -> Entries] /\ DOMAIN Lists[g] = 1 .. Len(Lists[g])
      BY <2>1, LenProperties
    <3>2. \A i \in DOMAIN Lists[g] : Lists[g][i] # old
      BY <1>1, <2>1, <3>1 DEF Apart
    <3> QED BY <3>1, <3>2
  <2> HIDE DEF t
  <2> QED BY <2>1, <2>2
<1> HIDE DEF t, l2
<1>6. Faithful' /\ Lists' = l2
  BY <1>4, Becomes
<1>7. ~Seqs!Off(old) /\ Seqs!Off(new)
  BY <1>1, <1>2, Located, OffIs
<1> QED BY <1>5, <1>6, <1>7 DEF Seqs!Exchange, t

\* Replacing a head joins its list to the new head, which had none.
LEMMA ReplaceHeadStep ==
  ASSUME Faithful, NEW old \in Heads, NEW new \in Heads, ReplaceHead(old, new)
  PROVE  Faithful' /\ Seqs!JoinFront(old, new)
<1>1. old \in Heads \ undef /\ new \in undef /\ old # new
  BY DEF ReplaceHead, Ready
<1> DEFINE l2 == [Lists EXCEPT ![new] = Lists[old], ![old] = <<>>]
<1>2. /\ Represents(list_replace(mem, old, new), (undef \ {new}) \cup {old}, l2)
      /\ Represents(list_replace_init(mem, old, new), undef \ {new}, l2)
  BY <1>1, ListReplaceHeadReps DEF Faithful
<1>3. l2 = [Lists EXCEPT ![old] = <<>>, ![new] = Lists[old] \o @]
  <2>1. Lists \in [Heads -> Seq(Entries)] /\ Lists[new] = <<>> /\ Lists[old] \in Seq(Entries)
    BY <1>1, Parts DEF Faithful
  <2>2. Lists[old] \o Lists[new] = Lists[old]
    BY <2>1, ConcatEmptySeq
  <2> QED BY <1>1, <2>1, <2>2
<1> HIDE DEF l2
<1>4. Represents(mem', undef', l2)
  BY <1>2 DEF ReplaceHead, Does
<1>5. Faithful' /\ Lists' = l2
  BY <1>4, Becomes
<1> QED BY <1>1, <1>3, <1>5 DEF Seqs!JoinFront

\* A list without entries is not rotated.
LEMMA RotateStep ==
  ASSUME Faithful, NEW h \in Heads, Rotate(h)
  PROVE  Faithful' /\ (Lists' = Lists \/ \E e \in Entries : Seqs!MoveBack(e, h))
<1>1. h \in Heads \ undef /\ mem' = list_rotate_left(mem, h) /\ undef' = undef
  BY DEF Rotate, Ready, Does
<1>2. CASE Lists[h] = <<>>
  <2>1. list_empty(mem, h)
    BY <1>1, <1>2, HeadLinks DEF Faithful
  <2>2. Represents(mem', undef', Lists)
    BY <1>1, <2>1 DEF list_rotate_left, Faithful
  <2> QED BY <2>2, Becomes
<1>3. CASE Lists[h] # <<>>
  <2> DEFINE e == Lists[h][1]
             less == Less(Lists, h, 1)
  <2>1. 1 \in 1 .. Len(Lists[h])
    BY <1>3, Parts, EmptySeq DEF Faithful
  <2>2. e \in Entries /\ Seqs!Without(e) = less /\ ~Seqs!Off(e)
    BY <2>1, Located
  <2>3. Represents(mem', undef', [less EXCEPT ![h] = Append(@, e)])
    BY <1>1, <1>3, ListRotateReps DEF Faithful
  <2> HIDE DEF e, less
  <2>4. Faithful' /\ Lists' = [less EXCEPT ![h] = Append(@, e)]
    BY <2>3, Becomes
  <2> QED BY <2>2, <2>4 DEF Seqs!MoveBack
<1> QED BY <1>2, <1>3

\* Cutting is Cut, at the position of the entry.
LEMMA CutStep ==
  ASSUME Faithful, NEW g \in Heads, NEW h \in Heads, NEW e \in Nodes, Cut(g, h, e)
  PROVE  /\ Faithful'
         /\ Seqs!Cut(g, h, IF e = h THEN 0 ELSE Seqs!Position(e, h))
         /\ (IF e = h THEN 0 ELSE Seqs!Position(e, h)) \in 0 .. Len(Lists[h])
<1> DEFINE k == IF e = h THEN 0 ELSE Seqs!Position(e, h)
           v == IF CutReturns(mem, h, e) THEN undef ELSE undef \ {g}
           l2 == CutBehind(Lists, g, h, k)
<1>1. h \in Heads \ undef /\ g \in Heads \ {h}
  BY DEF Cut, Ready
<1>2. Lists[h] \in Seq(Entries) /\ Len(Lists[h]) \in Nat /\ Lists[g] \in Seq(Entries)
  BY Parts DEF Faithful
<1>3. Lists[g] = <<>>
  <2>1. On(g) = {Lists[g][i] : i \in 1 .. Len(Lists[g])} /\ On(g) = {}
    BY Members DEF Cut
  <2>2. ~(1 \in 1 .. Len(Lists[g]))
    BY <2>1
  <2> QED BY <1>2, <2>2, EmptySeq
<1>4. k \in 0 .. Len(Lists[h]) /\ e = At(h, Lists[h], k)
  <2>1. CASE e = h
    BY <1>2, <2>1, RingNodes
  <2>2. CASE e # h
    <3>1. e \in On(h)
      BY <2>2 DEF Cut
    <3>2. PICK i \in 1 .. Len(Lists[h]) : e = Lists[h][i]
      BY <3>1, Members
    <3>3. k = i
      BY <2>2, <3>2, Located
    <3> QED BY <1>2, <3>2, <3>3, RingNodes
  <2> QED BY <2>1, <2>2
<1> HIDE DEF k
<1>5. Represents(list_cut_position(mem, g, h, e), v, l2)
  <2>1. /\ CutReturns(mem, h, e) => Represents(list_cut_position(mem, g, h, e), undef, CutBehind(Lists, g, h, k))
        /\ ~CutReturns(mem, h, e) =>
              Represents(list_cut_position(mem, g, h, e), undef \ {g}, CutBehind(Lists, g, h, k))
    BY <1>1, <1>3, <1>4, ListCutReps DEF Faithful
  <2> QED BY <2>1
<1> HIDE DEF v, l2
<1>6. Represents(mem', undef', l2)
  BY <1>5 DEF Cut, Does, v
<1>7. Faithful' /\ Lists' = l2
  BY <1>6, Becomes
<1>8. Seqs!Cut(g, h, k)
  BY <1>1, <1>3, <1>4, <1>7 DEF Seqs!Cut, l2, CutBehind
<1> QED BY <1>4, <1>7, <1>8 DEF k

\* Splicing is JoinFront or JoinBack.
LEMMA SpliceStep ==
  ASSUME Faithful, NEW g \in Heads, NEW h \in Heads
  PROVE  /\ SpliceHead(g, h) => Faithful' /\ Seqs!JoinFront(g, h)
         /\ SpliceTail(g, h) => Faithful' /\ Seqs!JoinBack(g, h)
<1> SUFFICES ASSUME SpliceHead(g, h) \/ SpliceTail(g, h)
             PROVE  /\ SpliceHead(g, h) => Faithful' /\ Seqs!JoinFront(g, h)
                    /\ SpliceTail(g, h) => Faithful' /\ Seqs!JoinBack(g, h)
  OBVIOUS
<1>1. g \in Heads \ undef /\ h \in Heads \ undef /\ g # h
  BY DEF SpliceHead, SpliceTail, Ready
<1>2. Emptied(g) = IF Lists[g] = <<>> THEN undef ELSE undef \cup {g}
  BY <1>1, HeadLinks DEF Emptied, Faithful
<1> DEFINE x == JoinedInFront(Lists, g, h)
           y == JoinedBehind(Lists, g, h)
<1>3. /\ Represents(list_splice_init(mem, g, h), undef, x)
      /\ Represents(list_splice_tail_init(mem, g, h), undef, y)
      /\ Represents(list_splice(mem, g, h), Emptied(g), x)
      /\ Represents(list_splice_tail(mem, g, h), Emptied(g), y)
  <2>1. CASE Lists[g] = <<>>
    <3>1. x = Lists /\ y = Lists
      BY <1>1, <2>1, NothingJoined, Parts DEF Faithful
    <3>2. list_empty(mem, g)
      BY <1>1, <2>1, HeadLinks DEF Faithful
    <3> HIDE DEF x, y
    <3> QED BY <1>2, <2>1, <3>1, <3>2
            DEF Faithful, list_splice, list_splice_tail, list_splice_init, list_splice_tail_init
  <2>2. CASE Lists[g] # <<>>
    <3>1. /\ Represents(list_splice(mem, g, h), undef \cup {g}, x)
          /\ Represents(list_splice_tail(mem, g, h), undef \cup {g}, y)
      BY <1>1, <2>2, ListSpliceReps DEF Faithful
    <3>2. /\ Represents(list_splice_init(mem, g, h), undef, x)
          /\ Represents(list_splice_tail_init(mem, g, h), undef, y)
      BY <1>1, <2>2, ListSpliceInitReps DEF Faithful
    <3> HIDE DEF x, y
    <3> QED BY <1>2, <2>2, <3>1, <3>2
  <2> QED BY <2>1, <2>2
<1> HIDE DEF x, y
<1>4. ASSUME SpliceHead(g, h) PROVE Faithful' /\ Seqs!JoinFront(g, h)
  <2>1. Represents(mem', undef', x)
    BY <1>3, <1>4 DEF SpliceHead, Does
  <2>2. Faithful' /\ Lists' = x
    BY <2>1, Becomes
  <2> QED BY <1>1, <2>2 DEF Seqs!JoinFront, x, JoinedInFront
<1>5. ASSUME SpliceTail(g, h) PROVE Faithful' /\ Seqs!JoinBack(g, h)
  <2>1. Represents(mem', undef', y)
    BY <1>3, <1>5 DEF SpliceTail, Does
  <2>2. Faithful' /\ Lists' = y
    BY <2>1, Becomes
  <2> QED BY <1>1, <2>2 DEF Seqs!JoinBack, y, JoinedBehind
<1> QED BY <1>4, <1>5

-----------------------------------------------------------------------------
(* The safe loops *)

\* Every node of q is one of s.
Among(q, s) == \A i \in 1 .. Len(q) : \E j \in 1 .. Len(s) : q[i] = s[j]

\* A loop over a list, forwards or backwards, goes through its entries.
LEMMA WayRound ==
  ASSUME NEW m, NEW u, NEW l, Represents(m, u, l), NEW h \in Heads \ u, NEW dir \in {"next", "prev"},
         NEW q, q = Visited(m[dir], h)
  PROVE  Route(m[dir], h, q) /\ Among(q, l[h]) /\ Among(l[h], q)
<1> DEFINE s == l[h]
           n == Len(s)
<1>1. s \in Seq(Entries) /\ n \in Nat /\ Distinct(s) /\ Linked(m, h, s)
  BY Parts
<1>2. Visited(m.next, h) = s /\ Visited(m.prev, h) = Reverse(s)
  BY ReadBack DEF list_for_each, list_for_each_prev
<1> HIDE DEF s
<1>3. Route(m.next, h, s) /\ Route(m.prev, h, Reverse(s))
  BY <1>1, RingRoutes
<1>4. CASE dir = "next"
  <2>1. m[dir] = m.next
    BY <1>4
  <2>2. q = s
    BY <1>2, <2>1
  <2> QED BY <1>3, <2>1, <2>2 DEF Among, s
<1>5. CASE dir = "prev"
  <2>0. m[dir] = m.prev
    BY <1>5
  <2>1. q = Reverse(s)
    BY <1>2, <2>0
  <2>2. q \in Seq(Entries) /\ Len(q) = n /\ \A k \in 1 .. n : q[k] = s[(n - k) + 1]
    BY <1>1, <2>1, RingReversed
  <2>3. Among(q, s)
    <3>1. ASSUME NEW i \in 1 .. n PROVE \E j \in 1 .. n : q[i] = s[j]
      <4>1. (n - i) + 1 \in 1 .. n
        BY <1>1
      <4> QED BY <2>2, <4>1
    <3> QED BY <2>2, <3>1 DEF Among
  <2>4. Among(s, q)
    <3>1. ASSUME NEW i \in 1 .. n PROVE \E j \in 1 .. n : s[i] = q[j]
      <4>1. (n - i) + 1 \in 1 .. n /\ (n - ((n - i) + 1)) + 1 = i
        BY <1>1
      <4>2. q[(n - i) + 1] = s[i]
        BY <2>2, <4>1
      <4> QED BY <4>1, <4>2
    <3> QED BY <2>2, <3>1 DEF Among
  <2> QED BY <1>3, <2>0, <2>1, <2>3, <2>4 DEF s
<1> QED BY <1>4, <1>5

\* The other nodes of a ring keep their links to nodes that stay on it.
Kept(w, m, x, e) ==
  /\ m.next[x] # e => w.next[x] = m.next[x]
  /\ m.prev[x] # e => w.prev[x] = m.prev[x]

\* Deletion changes only links to the deleted entry.
LEMMA DelKeeps ==
  ASSUME NEW m, NEW u, NEW l, Represents(m, u, l), NEW h \in Heads \ u, NEW j \in 1 .. Len(l[h]),
         NEW e, e = l[h][j], NEW i \in 1 .. Len(l[h]), NEW x, x = l[h][i], x # e
  PROVE  Kept(list_del(m, e), m, x, e) /\ Kept(__list_del_entry(m, e), m, x, e)
<1> DEFINE s == l[h]
           n == Len(s)
           p == At(h, s, j - 1)
           q == At(h, s, j + 1)
<1>1. m \in Memory /\ s \in Seq(Entries) /\ n \in Nat /\ Distinct(s) /\ Linked(m, h, s)
  BY Parts
<1>2. /\ j \in Nat /\ j - 1 \in Nat /\ j + 1 \in Nat /\ (j - 1) + 1 = j
      /\ j - 1 \in 0 .. n /\ j \in 0 .. n /\ j \in 1 .. n /\ e = s[j] /\ x = s[i] /\ i \in 1 .. n
  BY <1>1
<1> HIDE DEF s
<1>3. e = At(h, s, j) /\ \A k \in Nat : At(h, s, k) \in Nodes
  BY <1>1, <1>2, RingNodes DEF n
<1>4. m.next[p] = e /\ m.next[e] = q /\ m.prev[e] = p /\ m.prev[q] = e
  <2>1. /\ m.next[At(h, s, j - 1)] = At(h, s, (j - 1) + 1) /\ m.prev[At(h, s, (j - 1) + 1)] = At(h, s, j - 1)
        /\ m.next[At(h, s, j)] = At(h, s, j + 1) /\ m.prev[At(h, s, j + 1)] = At(h, s, j)
    BY <1>1, <1>2 DEF Linked, n
  <2> QED BY <1>2, <1>3, <2>1
<1>5. p \in Nodes /\ q \in Nodes /\ e \in Nodes /\ x \in Nodes
  <2>1. x \in Entries
    BY <1>1, <1>2, RingNodes DEF n
  <2> QED BY <1>2, <1>3, <2>1 DEF Nodes
<1>6. p # e /\ q # e
  <2>1. j - 1 # j /\ j + 1 # j /\ j \in 1 .. n + 1 /\ j + 1 \in 1 .. n + 1
    BY <1>1, <1>2
  <2>2. /\ \A a, b \in 0 .. n : At(h, s, a) = At(h, s, b) => a = b
        /\ \A a, b \in 1 .. n + 1 : At(h, s, a) = At(h, s, b) => a = b
    BY <1>1, OneRing
  <2> QED BY <1>2, <1>3, <2>1, <2>2
<1> HIDE DEF p, q
<1>7. TakenOut(list_del(m, e), m, e, p, q) /\ TakenOut(__list_del_entry(m, e), m, e, p, q)
  BY <1>1, <1>4, <1>5, <1>6, DelEffect
<1> DEFINE v == list_del(m, e)
           w == __list_del_entry(m, e)
<1> HIDE DEF v, w
<1>8. Kept(v, m, x, e)
  BY <1>4, <1>5, <1>7 DEF Kept, TakenOut, Same, v
<1>9. Kept(w, m, x, e)
  BY <1>4, <1>5, <1>7 DEF Kept, TakenOut, Same, w
<1> QED BY <1>8, <1>9 DEF v, w

\* An entry of another ring keeps its links when one is added at its front.
LEMMA AddKeeps ==
  ASSUME NEW m, NEW u, NEW l, Represents(m, u, l), NEW f \in Heads \ u, NEW h \in Heads \ {f},
         NEW e \in Entries, OffAll(l, e), NEW i \in 1 .. Len(l[h]), NEW x, x = l[h][i],
         NEW w, w = list_add(m, e, f)
  PROVE  w.next[x] = m.next[x] /\ w.prev[x] = m.prev[x]
<1> DEFINE q == At(f, l[f], 1)
<1>1. /\ m \in Memory /\ l[h] \in Seq(Entries) /\ Len(l[h]) \in Nat
      /\ l[f] \in Seq(Entries) /\ NotIn(l[f], e)
  BY Parts DEF OffAll
<1>2. x = At(h, l[h], i) /\ i \in Nat
  BY <1>1 DEF At
<1>3. x \in Nodes /\ x # f /\ x # e /\ x # q
  BY <1>2, OtherRings
<1>4. q = m.next[f] /\ q \in Nodes \ {e} /\ f \in Nodes \ {e} /\ e \in Nodes
  <2>1. q = m.next[f]
    BY HeadLinks
  <2>2. q \in Nodes /\ f \in Nodes /\ e \in Nodes
    BY <1>1, RingNodes DEF Nodes
  <2>3. q # e /\ f # e
    BY <1>1, OffRing, ListConstantsOK
  <2> QED BY <2>1, <2>2, <2>3
<1> HIDE DEF q
<1>5. w = __list_add(m, e, f, q)
  BY <1>4 DEF list_add
<1>6. PutBetween(w, m, e, f, q)
  BY <1>1, <1>4, <1>5, AddEffect
<1> QED BY <1>3, <1>6 DEF PutBetween, Same

-----------------------------------------------------------------------------
(* The loop in progress *)

\* The nodes of due behind the k-th are still on the list s of h, in this order.
StillDue(link, h, s, due, k) ==
  \A i \in 1 .. Len(due) :
     i > k => /\ \E j \in 1 .. Len(s) : due[i] = s[j]
              /\ link[due[i]] = At(h, due, i + 1)

Turns == [dir : {"next", "prev"}, head : Heads, pos : Nodes, n : Pointers,
          seen : Seq(Entries), due : Seq(Entries)]

\* The loop w is where it should be: what it has seen is a prefix of what was
\* due; n, read ahead of the body, is the node behind pos.
InStep(w, m, u, l) ==
  /\ w \in Turns /\ w.head \notin u
  /\ Distinct(w.due)
  /\ Len(w.seen) <= Len(w.due)
  /\ \A i \in 1 .. Len(w.seen) : w.seen[i] = w.due[i]
  /\ w.pos = At(w.head, w.due, Len(w.seen) + 1)
  /\ w.n = m[w.dir][w.pos]
  /\ StillDue(m[w.dir], w.head, l[w.head], w.due, Len(w.seen))

WalkInv == walk = NoWalk \/ InStep(walk, mem, undef, Lists)

\* From cuts off what is in front of the node it is given.
CutFrom(t, q, j) ==
  /\ t \in Seq(Entries) /\ Len(t) = (Len(q) - j) + 1
  /\ \A i \in 1 .. (Len(q) - j) + 1 : t[i] = q[(j + i) - 1]

\* From does that for a sequence without repetitions.
LEMMA RestOf ==
  ASSUME NEW q \in Seq(Entries), Distinct(q), NEW j \in 1 .. Len(q), NEW p, p = q[j],
         NEW t, t = From(q, p)
  PROVE  CutFrom(t, q, j) /\ Len(q) \in Nat /\ j \in Nat
<1> DEFINE n == Len(q)
<1>1. n \in Nat /\ DOMAIN q = 1 .. n /\ j \in Nat /\ 1 <= j /\ j <= n
      /\ \A i \in 1 .. n : q[i] \in Entries
  BY LenProperties, ElementOfSeq
<1>2. \A i \in DOMAIN q : q[i] = p <=> i = j
  BY <1>1 DEF Distinct
<1>3. t = SubSeq(q, j, n)
  BY <1>1, <1>2 DEF From
<1>4. \A i \in j .. n : q[i] \in Entries
  BY <1>1
<1>5. /\ t \in Seq(Entries) /\ Len(t) = IF j <= n THEN n - j + 1 ELSE 0
      /\ \A i \in 1 .. n - j + 1 : t[i] = q[j + i - 1]
  BY <1>1, <1>3, <1>4, SubSeqProperties
<1> QED BY <1>1, <1>5 DEF CutFrom

\* The loop over the rest of a route goes on as the route does.
LEMMA RestOfRoute ==
  ASSUME NEW link, NEW h \in Heads, NEW q, Route(link, h, q), NEW s, Among(q, s),
         NEW j \in 1 .. Len(q), NEW p, p = q[j], NEW t, t = From(q, p)
  PROVE  /\ t \in Seq(Entries) /\ Distinct(t)
         /\ p = At(h, t, 1)
         /\ StillDue(link, h, s, t, 0)
<1> DEFINE n == Len(q)
           c == (n - j) + 1
<1>1. q \in Seq(Entries) /\ Distinct(q) /\ \A i \in 0 .. n : link[At(h, q, i)] = At(h, q, i + 1)
  BY DEF Route
<1>2. /\ t \in Seq(Entries) /\ Len(t) = c /\ n \in Nat /\ j \in Nat
      /\ \A i \in 1 .. c : t[i] = q[(j + i) - 1]
  <2>1. CutFrom(t, q, j) /\ Len(q) \in Nat /\ j \in Nat
    BY <1>1, RestOf
  <2> QED BY <2>1 DEF CutFrom
<1> HIDE DEF n
<1>3. \A i \in 1 .. c : (j + i) - 1 \in 1 .. n
  BY <1>2
<1>4. \A i \in 1 .. c + 1 : At(h, t, i) = At(h, q, (j + i) - 1)
  <2> SUFFICES ASSUME NEW i \in 1 .. c + 1 PROVE At(h, t, i) = At(h, q, (j + i) - 1)
    OBVIOUS
  <2>1. CASE i \in 1 .. c
    BY <1>2, <1>3, <2>1 DEF At, n
  <2>2. CASE i = c + 1
    <3>1. i \notin 1 .. c /\ (j + i) - 1 = n + 1 /\ n + 1 \notin 1 .. n
      BY <1>2, <2>2
    <3> QED BY <1>2, <3>1 DEF At, n
  <2> QED BY <1>2, <2>1, <2>2
<1>5. Distinct(t)
  <2> SUFFICES ASSUME NEW a \in 1 .. c, NEW b \in 1 .. c, t[a] = t[b] PROVE a = b
    BY <1>2 DEF Distinct
  <2>1. (j + a) - 1 = (j + b) - 1
    BY <1>1, <1>2, <1>3 DEF Distinct, n
  <2> QED BY <1>2, <2>1
<1>6. p = At(h, t, 1)
  <2>1. 1 \in 1 .. c /\ (j + 1) - 1 = j
    BY <1>2 DEF n
  <2> QED BY <1>2, <2>1 DEF At
<1>7. ASSUME NEW i \in 1 .. c
      PROVE  (\E k \in 1 .. Len(s) : t[i] = s[k]) /\ link[t[i]] = At(h, t, i + 1)
  <2> DEFINE k == (j + i) - 1
  <2>1. k \in 1 .. n /\ t[i] = q[k] /\ k \in 0 .. n /\ k + 1 = (j + (i + 1)) - 1 /\ i + 1 \in 1 .. c + 1
    BY <1>2, <1>3
  <2> HIDE DEF k
  <2>2. \E z \in 1 .. Len(s) : q[k] = s[z]
    BY <2>1 DEF Among, n
  <2>3. q[k] = At(h, q, k)
    BY <2>1 DEF At, n
  <2>4. link[q[k]] = At(h, q, k + 1)
    BY <1>1, <2>1, <2>3
  <2>5. At(h, q, k + 1) = At(h, t, i + 1)
    BY <1>4, <2>1
  <2> QED BY <2>1, <2>2, <2>4, <2>5
<1> QED BY <1>2, <1>5, <1>6, <1>7 DEF StillDue

\* A loop begins in step, wherever it starts.
LEMMA WalkBeginStep ==
  ASSUME Faithful, NEW h \in Heads, NEW dir \in {"next", "prev"}, NEW p \in Nodes, WalkBegin(h, dir, p)
  PROVE  InStep(walk', mem, undef, Lists)
<1> DEFINE link == mem[dir]
           q == Visited(mem[dir], h)
           due == IF p = h THEN <<>> ELSE From(Visited(mem[dir], h), p)
<1>1. h \in Heads \ undef
  BY DEF WalkBegin, Ready
<1>2. Route(link, h, q) /\ Among(q, Lists[h]) /\ Among(Lists[h], q)
  BY <1>1, WayRound DEF Faithful
<1>3. walk' = [dir |-> dir, head |-> h, pos |-> p, n |-> link[p], seen |-> <<>>, due |-> due]
  BY DEF WalkBegin
<1>4. q \in Seq(Entries) /\ Len(q) \in Nat /\ \A i \in 0 .. Len(q) : link[At(h, q, i)] = At(h, q, i + 1)
  BY <1>2, LenProperties DEF Route
<1>5. p = h \/ \E j \in 1 .. Len(q) : p = q[j]
  <2> HIDE DEF q, link
  <2>1. \A x \in On(h) : \E j \in 1 .. Len(q) : x = q[j]
    <3>1. ASSUME NEW x \in On(h) PROVE \E j \in 1 .. Len(q) : x = q[j]
      <4>1. PICK i \in 1 .. Len(Lists[h]) : x = Lists[h][i]
        BY Members
      <4> QED BY <1>2, <4>1 DEF Among
    <3> QED BY <3>1
  <2>2. CASE p \in On(h)
    BY <2>1, <2>2
  <2>3. CASE p \notin On(h)
    <3>1. PICK x \in On(h) \cup {h} : p = link[x]
      BY <2>3 DEF WalkBegin, link
    <3>2. PICK i \in 0 .. Len(q) : x = At(h, q, i)
      <4>1. CASE x = h
        BY <1>4, <4>1 DEF At
      <4>2. CASE x \in On(h)
        BY <1>4, <2>1, <4>2 DEF At
      <4> QED BY <4>1, <4>2
    <3>3. p = At(h, q, i + 1)
      BY <1>4, <3>1, <3>2
    <3> QED BY <1>4, <3>3 DEF At
  <2> QED BY <2>2, <2>3
<1>6. due \in Seq(Entries) /\ Distinct(due) /\ p = At(h, due, 1) /\ StillDue(link, h, Lists[h], due, 0)
  <2>1. CASE p = h
    <3>1. due = <<>> /\ Len(due) = 0 /\ due \in Seq(Entries)
      BY <2>1
    <3> HIDE DEF due
    <3> QED BY <2>1, <3>1 DEF Distinct, At, StillDue
  <2>2. CASE p # h
    <3>1. PICK j \in 1 .. Len(q) : p = q[j]
      BY <1>5, <2>2
    <3>2. due = From(q, p)
      BY <2>2
    <3> HIDE DEF due, q, link
    <3> QED BY <1>2, <3>1, <3>2, RestOfRoute
  <2> QED BY <2>1, <2>2
<1>7. link[p] \in Pointers
  <2>1. mem \in Memory
    BY Parts DEF Faithful
  <2> QED BY <2>1 DEF Memory
<1>8. <<>> \in Seq(Entries) /\ Len(<<>>) = 0 /\ Len(due) \in Nat
  BY <1>6, LenProperties
<1> HIDE DEF q, due
<1>9. /\ walk'.dir = dir /\ walk'.head = h /\ walk'.pos = p /\ walk'.n = link[p]
      /\ walk'.seen = <<>> /\ walk'.due = due /\ walk' \in Turns
  <2> HIDE DEF link
  <2> QED BY <1>3, <1>6, <1>7, <1>8 DEF Turns
<1>10. Len(walk'.seen) = 0 /\ \A i \in 1 .. 0 : FALSE
  BY <1>9
<1> QED BY <1>1, <1>6, <1>8, <1>9, <1>10 DEF InStep

\* Where the loop is and where it goes next.
LEMMA LoopAt ==
  ASSUME NEW w, NEW m, NEW u, NEW l, InStep(w, m, u, l), w.pos # w.head, NEW k, k = Len(w.seen)
  PROVE  /\ k \in Nat /\ k + 1 \in 1 .. Len(w.due) /\ Len(w.due) \in Nat
         /\ w.pos = w.due[k + 1] /\ w.pos \in Entries
         /\ \E j \in 1 .. Len(l[w.head]) : w.pos = l[w.head][j]
         /\ w.n = At(w.head, w.due, k + 2)
<1>1. w \in Turns /\ w.pos = At(w.head, w.due, k + 1) /\ w.n = m[w.dir][w.pos] /\ k <= Len(w.due)
      /\ StillDue(m[w.dir], w.head, l[w.head], w.due, k)
  BY DEF InStep
<1>2. w.due \in Seq(Entries) /\ w.seen \in Seq(Entries)
  BY <1>1 DEF Turns
<1>3. k \in Nat /\ Len(w.due) \in Nat
  BY <1>2, LenProperties
<1>4. k + 1 \in 1 .. Len(w.due) /\ w.pos = w.due[k + 1]
  BY <1>1, <1>3 DEF At
<1>5. w.pos \in Entries
  BY <1>2, <1>4, ElementOfSeq
<1>6. (k + 1) + 1 = k + 2 /\ k + 1 > k
  BY <1>3
<1>7. (\E j \in 1 .. Len(l[w.head]) : w.pos = l[w.head][j]) /\ w.n = At(w.head, w.due, k + 2)
  BY <1>1, <1>4, <1>6 DEF StillDue
<1> QED BY <1>3, <1>4, <1>5, <1>7

\* A turn of the loop: pos becomes n, which was read before the body ran, and n
\* is read after it.
LEMMA TurnStep ==
  ASSUME NEW w, NEW m, NEW u, NEW l, InStep(w, m, u, l), w.pos # w.head, NEW v \in Memory, NEW l2,
         StillDue(v[w.dir], w.head, l2[w.head], w.due, Len(w.seen) + 1),
         NEW w2, w2 = [w EXCEPT !.pos = w.n, !.n = v[w.dir][w.n], !.seen = Append(@, w.pos)]
  PROVE  InStep(w2, v, u, l2)
<1> DEFINE k == Len(w.seen)
<1>1. /\ k \in Nat /\ k + 1 \in 1 .. Len(w.due) /\ Len(w.due) \in Nat
      /\ w.pos = w.due[k + 1] /\ w.pos \in Entries
      /\ w.n = At(w.head, w.due, k + 2)
  BY LoopAt
<1>2. /\ w \in Turns /\ w.head \notin u /\ Distinct(w.due)
      /\ \A i \in 1 .. k : w.seen[i] = w.due[i]
  BY DEF InStep
<1>3. /\ w.seen \in Seq(Entries) /\ w.due \in Seq(Entries) /\ w.head \in Heads
      /\ w.dir \in {"next", "prev"}
  BY <1>2 DEF Turns
<1>4. w.n \in Nodes
  <2>1. k + 2 \in Nat
    BY <1>1
  <2> QED BY <1>1, <1>3, <2>1, RingNodes
<1>5. v[w.dir][w.n] \in Pointers
  BY <1>3, <1>4 DEF Memory
<1> DEFINE seen2 == Append(w.seen, w.pos)
<1>6. /\ seen2 \in Seq(Entries) /\ Len(seen2) = k + 1 /\ seen2[k + 1] = w.pos
      /\ \A i \in 1 .. k : seen2[i] = w.seen[i]
  BY <1>1, <1>3, AppendProperties
<1> HIDE DEF seen2
<1>7. /\ w2.dir = w.dir /\ w2.head = w.head /\ w2.pos = w.n /\ w2.n = v[w.dir][w.n]
      /\ w2.seen = seen2 /\ w2.due = w.due /\ w2 \in Turns
  BY <1>2, <1>4, <1>5, <1>6 DEF Turns, seen2
<1> HIDE DEF k
<1>8. \A i \in 1 .. k + 1 : seen2[i] = w.due[i]
  <2>1. \A i \in 1 .. k + 1 : i \in 1 .. k \/ i = k + 1
    BY <1>1
  <2> QED BY <1>1, <1>2, <1>6, <2>1
<1>9. (k + 1) + 1 = k + 2 /\ k + 1 <= Len(w.due)
  BY <1>1
<1>10. StillDue(v[w.dir], w.head, l2[w.head], w.due, k + 1)
  BY DEF k
<1> QED BY <1>1, <1>2, <1>6, <1>7, <1>8, <1>9, <1>10 DEF InStep

\* The entry of the turn is not due again, nor behind one that is.
LEMMA DueLater ==
  ASSUME NEW w, NEW m, NEW u, NEW l, InStep(w, m, u, l), w.pos # w.head,
         NEW i \in 1 .. Len(w.due), i > Len(w.seen) + 1
  PROVE  /\ w.due[i] # w.pos
         /\ m[w.dir][w.due[i]] = At(w.head, w.due, i + 1)
         /\ m[w.dir][w.due[i]] # w.pos
         /\ \E j \in 1 .. Len(l[w.head]) : w.due[i] = l[w.head][j]
<1> DEFINE k == Len(w.seen)
           h == w.head
           due == w.due
<1>1. /\ k \in Nat /\ k + 1 \in 1 .. Len(due) /\ Len(due) \in Nat
      /\ w.pos = due[k + 1] /\ w.pos \in Entries
  BY LoopAt
<1>2. w \in Turns /\ Distinct(due) /\ StillDue(m[w.dir], h, l[h], due, k)
  BY DEF InStep
<1>3. h \in Heads
  BY <1>2 DEF Turns
<1> HIDE DEF k, h, due
<1>4. i \in 1 .. Len(due) /\ i > k + 1 /\ i > k /\ i # k + 1 /\ i + 1 # k + 1
  BY <1>1 DEF due, k
<1>5. due[i] # w.pos
  BY <1>1, <1>2, <1>4 DEF Distinct
<1>6. m[w.dir][due[i]] = At(h, due, i + 1) /\ \E j \in 1 .. Len(l[h]) : due[i] = l[h][j]
  BY <1>2, <1>4 DEF StillDue
<1>7. At(h, due, i + 1) # w.pos
  <2>1. CASE i + 1 \in 1 .. Len(due)
    BY <1>1, <1>2, <1>4, <2>1 DEF Distinct, At
  <2>2. CASE i + 1 \notin 1 .. Len(due)
    <3>1. At(h, due, i + 1) = h
      BY <2>2 DEF At
    <3> QED BY <1>1, <1>3, <3>1, ListConstantsOK
  <2> QED BY <2>1, <2>2
<1> QED BY <1>5, <1>6, <1>7 DEF h, due

\* An entry other than the removed one stays on its list.
LEMMA StaysOn ==
  ASSUME NEW s \in Seq(Entries), NEW j \in 1 .. Len(s), NEW i \in 1 .. Len(s), s[i] # s[j]
  PROVE  \E a \in 1 .. Len(RemoveAt(s, j)) : s[i] = RemoveAt(s, j)[a]
<1> DEFINE t == RemoveAt(s, j)
<1>1. RemovedAt(t, s, j)
  BY RemovedSeq
<1> HIDE DEF t
<1>2. /\ Len(t) = Len(s) - 1 /\ Len(s) \in Nat /\ i # j
      /\ \A a \in 1 .. Len(t) : t[a] = IF a < j THEN s[a] ELSE s[a + 1]
  BY <1>1, LenProperties DEF RemovedAt
<1>3. CASE i < j
  <2>1. i \in 1 .. Len(t) /\ t[i] = s[i]
    BY <1>2, <1>3
  <2> QED BY <2>1 DEF t
<1>4. CASE i > j
  <2>1. i - 1 \in 1 .. Len(t) /\ ~(i - 1 < j) /\ (i - 1) + 1 = i
    BY <1>2, <1>4
  <2>2. t[i - 1] = s[i]
    BY <1>2, <2>1
  <2> QED BY <2>1, <2>2 DEF t
<1> QED BY <1>2, <1>3, <1>4

\* What is due stays due when the body deletes the entry of the turn.
LEMMA DelDue ==
  ASSUME NEW w, NEW m, NEW u, NEW l, Represents(m, u, l), InStep(w, m, u, l), w.pos # w.head,
         NEW j \in 1 .. Len(l[w.head]), w.pos = l[w.head][j],
         NEW v, v = list_del(m, w.pos) \/ v = __list_del_entry(m, w.pos)
  PROVE  StillDue(v[w.dir], w.head, Less(l, w.head, j)[w.head], w.due, Len(w.seen) + 1)
<1> DEFINE h == w.head
           e == w.pos
           s == l[w.head]
           t == RemoveAt(l[w.head], j)
<1>1. w \in Turns /\ h \notin u
  BY DEF InStep
<1>2. h \in Heads \ u /\ w.dir \in {"next", "prev"}
  BY <1>1 DEF Turns
<1>3. l \in [Heads -> Seq(Entries)] /\ s \in Seq(Entries)
  BY <1>2, Parts
<1>4. Less(l, h, j)[h] = t
  BY <1>2, <1>3 DEF Less
<1>5. ASSUME NEW i \in 1 .. Len(w.due), i > Len(w.seen) + 1
      PROVE  /\ \E a \in 1 .. Len(t) : w.due[i] = t[a]
             /\ v[w.dir][w.due[i]] = At(h, w.due, i + 1)
  <2> DEFINE x == w.due[i]
  <2>1. /\ x # e /\ m[w.dir][x] = At(h, w.due, i + 1) /\ m[w.dir][x] # e
        /\ \E a \in 1 .. Len(s) : x = s[a]
    BY <1>5, DueLater
  <2> HIDE DEF x
  <2>2. PICK a \in 1 .. Len(s) : x = s[a]
    BY <2>1
  <2>3. \E b \in 1 .. Len(t) : x = t[b]
    BY <1>3, <2>1, <2>2, StaysOn
  <2>4. Kept(list_del(m, e), m, x, e) /\ Kept(__list_del_entry(m, e), m, x, e)
    BY <1>2, <2>1, <2>2, DelKeeps
  <2>5. Kept(v, m, x, e)
    BY <2>4
  <2>6. v[w.dir][x] = m[w.dir][x]
    <3>1. CASE w.dir = "next"
      BY <2>1, <2>5, <3>1 DEF Kept
    <3>2. CASE w.dir = "prev"
      BY <2>1, <2>5, <3>2 DEF Kept
    <3> QED BY <1>2, <3>1, <3>2
  <2> QED BY <2>1, <2>3, <2>6 DEF x
<1> HIDE DEF t
<1> QED BY <1>4, <1>5 DEF StillDue

\* And when it moves the entry to the front of another list.
LEMMA MoveDue ==
  ASSUME NEW w, NEW m, NEW u, NEW l, Represents(m, u, l), InStep(w, m, u, l), w.pos # w.head,
         NEW j \in 1 .. Len(l[w.head]), w.pos = l[w.head][j], NEW f \in Heads \ u, f # w.head,
         NEW v, v = list_move(m, w.pos, f),
         NEW l3, l3 = [Less(l, w.head, j) EXCEPT ![f] = <<w.pos>> \o @]
  PROVE  StillDue(v[w.dir], w.head, l3[w.head], w.due, Len(w.seen) + 1)
<1> DEFINE h == w.head
           e == w.pos
           v1 == __list_del_entry(m, w.pos)
           l2 == Less(l, w.head, j)
<1>1. w \in Turns /\ h \notin u
  BY DEF InStep
<1>2. h \in Heads \ u /\ h \in Heads \ {f} /\ w.dir \in {"next", "prev"}
  BY <1>1 DEF Turns
<1>3. StillDue(v1[w.dir], h, l2[h], w.due, Len(w.seen) + 1)
  BY DelDue
<1>4. Represents(v1, u, l2) /\ OffAll(l2, e) /\ e \in Entries
  <2>1. v1 \in Deletions(m, e)
    BY DEF Deletions
  <2>2. h \in Heads /\ j \in 1 .. Len(l[h]) /\ e = l[h][j] /\ l2 = Less(l, h, j)
    BY <1>2
  <2> HIDE DEF v1, l2, h, e
  <2> QED BY <2>1, <2>2, ListDelReps
<1>5. v = list_add(v1, e, f)
  BY DEF list_move
<1> HIDE DEF v1, l2
<1>6. l3[h] = l2[h]
  <2>1. l2 \in [Heads -> Seq(Entries)]
    BY <1>4, Parts
  <2> QED BY <1>2, <2>1 DEF l2
<1>7. ASSUME NEW i \in 1 .. Len(w.due), i > Len(w.seen) + 1
      PROVE  v[w.dir][w.due[i]] = v1[w.dir][w.due[i]]
  <2>1. PICK a \in 1 .. Len(l2[h]) : w.due[i] = l2[h][a]
    BY <1>3, <1>7 DEF StillDue
  <2>2. v.next[w.due[i]] = v1.next[w.due[i]] /\ v.prev[w.due[i]] = v1.prev[w.due[i]]
    BY <1>2, <1>4, <1>5, <2>1, AddKeeps
  <2> QED BY <1>2, <2>2
<1> HIDE DEF h
<1> QED BY <1>3, <1>6, <1>7 DEF StillDue, h

\* The body keeps the entry, which leaves the lists alone, or drops or moves it.
LEMMA WalkBodyStep ==
  ASSUME Faithful, InStep(walk, mem, undef, Lists), WalkBody
  PROVE  /\ Faithful' /\ InStep(walk', mem', undef', Lists')
         /\ \/ Lists' = Lists
            \/ \E e \in Entries : Seqs!Drop(e)
            \/ \E e \in Entries : \E h \in Heads : Seqs!MoveFront(e, h)
<1> DEFINE h == walk.head
           e == walk.pos
           k == Len(walk.seen)
<1>1. walk.pos # walk.head /\ undef' = undef
  BY DEF WalkBody
<1>2. /\ e \in Entries /\ k \in Nat
      /\ \E j \in 1 .. Len(Lists[h]) : e = Lists[h][j]
  BY <1>1, LoopAt
<1>3. PICK j \in 1 .. Len(Lists[h]) : e = Lists[h][j]
  BY <1>2
<1>4. walk \in Turns /\ h \in Heads \ undef
  BY DEF InStep, Turns
<1>5. Seqs!Without(e) = Less(Lists, h, j) /\ ~Seqs!Off(e)
  BY <1>3, <1>4, Located
<1>6. walk' = [walk EXCEPT !.pos = walk.n, !.n = mem'[walk.dir][walk.n], !.seen = Append(@, walk.pos)]
  BY DEF WalkBody, Advance
<1>7. ASSUME NEW l2, Represents(mem', undef', l2),
             StillDue(mem'[walk.dir], walk.head, l2[walk.head], walk.due, Len(walk.seen) + 1)
      PROVE  Faithful' /\ Lists' = l2 /\ InStep(walk', mem', undef', Lists')
  <2>1. Faithful' /\ Lists' = l2
    BY <1>7, Becomes
  <2>2. mem' \in Memory
    BY <1>7, Parts
  <2>3. InStep(walk', mem', undef, l2)
    BY <1>1, <1>6, <1>7, <2>2, TurnStep
  <2> QED BY <1>1, <2>1, <2>3
<1>8. CASE mem' = mem
  <2>1. Represents(mem', undef', Lists)
    BY <1>1, <1>8 DEF Faithful
  <2>2. StillDue(mem[walk.dir], walk.head, Lists[walk.head], walk.due, Len(walk.seen) + 1)
    <3>1. StillDue(mem[walk.dir], walk.head, Lists[walk.head], walk.due, Len(walk.seen))
      BY DEF InStep
    <3> HIDE DEF k, h
    <3>2. \A i \in 1 .. Len(walk.due) : i > Len(walk.seen) + 1 => i > Len(walk.seen)
      BY <1>2 DEF k
    <3> QED BY <3>1, <3>2 DEF StillDue
  <2>3. StillDue(mem'[walk.dir], walk.head, Lists[walk.head], walk.due, Len(walk.seen) + 1)
    BY <1>8, <2>2
  <2> QED BY <1>7, <2>1, <2>3
<1>9. CASE mem' = list_del(mem, walk.pos)
  <2> DEFINE l2 == Less(Lists, walk.head, j)
  <2>1. StillDue(mem'[walk.dir], walk.head, l2[walk.head], walk.due, Len(walk.seen) + 1)
    BY <1>1, <1>3, <1>9, DelDue DEF Faithful
  <2>2. Represents(mem', undef', l2)
    <3>1. mem' \in Deletions(mem, walk.pos)
      BY <1>9 DEF Deletions
    <3> QED BY <1>1, <1>3, <1>4, <3>1, ListDelReps DEF Faithful
  <2>3. Seqs!Without(e) = l2
    BY <1>5
  <2> HIDE DEF l2
  <2>4. Faithful' /\ Lists' = l2 /\ InStep(walk', mem', undef', Lists')
    BY <1>7, <2>1, <2>2
  <2>5. Seqs!Drop(e)
    BY <1>5, <2>3, <2>4 DEF Seqs!Drop
  <2> QED BY <1>2, <2>4, <2>5
<1>10. CASE \E f \in Ready \ {walk.head} : mem' = list_move(mem, walk.pos, f)
  <2>0. PICK f \in Ready \ {walk.head} : mem' = list_move(mem, walk.pos, f)
    BY <1>10
  <2>1. f \in Heads \ undef /\ f # walk.head
    BY DEF Ready
  <2> DEFINE less == Less(Lists, walk.head, j)
             l2 == [less EXCEPT ![f] = <<walk.pos>> \o @]
  <2>2. StillDue(mem'[walk.dir], walk.head, l2[walk.head], walk.due, Len(walk.seen) + 1)
    BY <1>1, <1>3, <2>0, <2>1, MoveDue DEF Faithful
  <2>3. Represents(mem', undef', l2)
    <3>1. Represents(list_move(mem, walk.pos, f), undef, l2)
      BY <1>3, <1>4, <2>1, ListMoveReps DEF Faithful
    <3> QED BY <1>1, <2>0, <3>1
  <2>4. Seqs!Without(e) = less
    BY <1>5
  <2> HIDE DEF l2, less
  <2>5. Faithful' /\ Lists' = l2 /\ InStep(walk', mem', undef', Lists')
    BY <1>7, <2>2, <2>3
  <2>6. Seqs!MoveFront(e, f)
    BY <1>5, <2>4, <2>5 DEF Seqs!MoveFront, l2
  <2> QED BY <1>2, <2>1, <2>5, <2>6
<1>11. \/ mem' = mem \/ mem' = list_del(mem, walk.pos)
       \/ \E f \in Ready \ {walk.head} : mem' = list_move(mem, walk.pos, f)
  BY DEF WalkBody
<1> QED BY <1>8, <1>9, <1>10, <1>11

-----------------------------------------------------------------------------
(* The theorems *)

ListInv == Faithful /\ WalkInv

\* At first no head is in use.
LEMMA InitOK ==
  ASSUME Init
  PROVE  ListInv /\ Seqs!Init
<1>1. Lists = [h \in Heads |-> <<>>]
  BY DEF Init, Lists
<1>2. mem \in Memory
  BY DEF Init, Memory, Pointers
<1>3. <<>> \in Seq(Entries) /\ Len(<<>>) = 0
  OBVIOUS
<1>4. Unique(Lists)
  BY <1>1, <1>3 DEF Unique, Distinct, Apart
<1>5. Faithful
  BY <1>1, <1>2, <1>3, <1>4 DEF Faithful, Represents, Init
<1> QED BY <1>1, <1>5 DEF ListInv, WalkInv, Init, Seqs!Init

\* No routine runs while a loop is in progress, except those of its body.
LEMMA NoLoop ==
  ASSUME NEW m, NEW u, Does(m, u)
  PROVE  WalkInv'
BY DEF Does, WalkInv, NoWalk

\* One step of the callers, and the step of ListSeq that it is.
LEMMA StepOK ==
  ASSUME ListInv, Next
  PROVE  ListInv' /\ (Seqs!Next \/ Lists' = Lists)
<1>0. Faithful /\ WalkInv
  BY DEF ListInv
<1>1. CASE \E h \in Heads : InitHead(h) \/ Rotate(h)
  <2>1. PICK h \in Heads : InitHead(h) \/ Rotate(h)
    BY <1>1
  <2>2. Faithful' /\ (Lists' = Lists \/ \E e \in Entries : Seqs!MoveBack(e, h))
    BY <1>0, <2>1, InitHeadStep, RotateStep
  <2>3. WalkInv'
    BY <2>1, NoLoop DEF InitHead, Rotate
  <2> QED BY <2>2, <2>3 DEF ListInv, Seqs!Next
<1>2. CASE \E e \in Entries : Del(e)
  <2>1. PICK e \in Entries : Del(e)
    BY <1>2
  <2>2. Faithful' /\ Seqs!Drop(e)
    BY <1>0, <2>1, DelStep
  <2>3. WalkInv'
    BY <2>1, NoLoop DEF Del
  <2> QED BY <2>2, <2>3 DEF ListInv, Seqs!Next
<1>3. CASE \E e \in Entries, h \in Heads :
             AddHead(e, h) \/ AddTail(e, h) \/ MoveHead(e, h) \/ MoveTail(e, h)
  <2>1. PICK e \in Entries, h \in Heads :
               AddHead(e, h) \/ AddTail(e, h) \/ MoveHead(e, h) \/ MoveTail(e, h)
    BY <1>3
  <2>2. Faithful' /\ (Seqs!Push(e, h) \/ Seqs!Append1(e, h) \/ Seqs!MoveFront(e, h) \/ Seqs!MoveBack(e, h))
    BY <1>0, <2>1, AddStep, MoveStep
  <2>3. WalkInv'
    BY <2>1, NoLoop DEF AddHead, AddTail, MoveHead, MoveTail
  <2> QED BY <2>2, <2>3 DEF ListInv, Seqs!Next
<1>4. CASE \E e, f \in Entries : Replace(e, f)
  <2>1. PICK e \in Entries, f \in Entries : Replace(e, f)
    BY <1>4
  <2>2. Faithful' /\ Seqs!Exchange(e, f)
    BY <1>0, <2>1, ReplaceStep
  <2>3. WalkInv'
    BY <2>1, NoLoop DEF Replace
  <2> QED BY <2>2, <2>3 DEF ListInv, Seqs!Next
<1>5. CASE \E g, h \in Heads : ReplaceHead(g, h) \/ SpliceHead(g, h) \/ SpliceTail(g, h)
  <2>1. PICK g \in Heads, h \in Heads : ReplaceHead(g, h) \/ SpliceHead(g, h) \/ SpliceTail(g, h)
    BY <1>5
  <2>2. Faithful' /\ (Seqs!JoinFront(g, h) \/ Seqs!JoinBack(g, h))
    BY <1>0, <2>1, ReplaceHeadStep, SpliceStep
  <2>3. WalkInv'
    BY <2>1, NoLoop DEF ReplaceHead, SpliceHead, SpliceTail
  <2> QED BY <2>2, <2>3 DEF ListInv, Seqs!Next
<1>6. CASE \E g, h \in Heads : \E e \in Nodes : Cut(g, h, e)
  <2>1. PICK g \in Heads, h \in Heads, e \in Nodes : Cut(g, h, e)
    BY <1>6
  <2> DEFINE n == IF e = h THEN 0 ELSE Seqs!Position(e, h)
  <2>2. Faithful' /\ Seqs!Cut(g, h, n) /\ n \in 0 .. Len(Lists[h])
    BY <1>0, <2>1, CutStep
  <2> HIDE DEF n
  <2>3. WalkInv'
    BY <2>1, NoLoop DEF Cut
  <2> QED BY <2>2, <2>3 DEF ListInv, Seqs!Next
<1>7. CASE \E h \in Heads, dir \in {"next", "prev"}, p \in Nodes : WalkBegin(h, dir, p)
  <2>1. PICK h \in Heads, dir \in {"next", "prev"}, p \in Nodes : WalkBegin(h, dir, p)
    BY <1>7
  <2>2. mem' = mem /\ undef' = undef
    BY <2>1 DEF WalkBegin
  <2>3. Represents(mem', undef', Lists)
    BY <1>0, <2>2 DEF Faithful
  <2>4. Faithful' /\ Lists' = Lists
    BY <2>3, Becomes
  <2>5. InStep(walk', mem, undef, Lists)
    BY <1>0, <2>1, WalkBeginStep
  <2> QED BY <2>2, <2>4, <2>5 DEF ListInv, WalkInv
<1>8. CASE WalkBody
  <2>1. InStep(walk, mem, undef, Lists)
    BY <1>0, <1>8 DEF WalkInv, WalkBody
  <2>2. /\ Faithful' /\ InStep(walk', mem', undef', Lists')
        /\ \/ Lists' = Lists
           \/ \E e \in Entries : Seqs!Drop(e)
           \/ \E e \in Entries : \E h \in Heads : Seqs!MoveFront(e, h)
    BY <1>0, <1>8, <2>1, WalkBodyStep
  <2> QED BY <2>2 DEF ListInv, WalkInv, Seqs!Next
<1>9. CASE WalkEnd
  <2>1. mem' = mem /\ undef' = undef /\ walk' = NoWalk
    BY <1>9 DEF WalkEnd
  <2>2. Represents(mem', undef', Lists)
    BY <1>0, <2>1 DEF Faithful
  <2>3. Faithful' /\ Lists' = Lists
    BY <2>2, Becomes
  <2> QED BY <2>1, <2>3 DEF ListInv, WalkInv, NoWalk
<1> QED BY <1>1, <1>2, <1>3, <1>4, <1>5, <1>6, <1>7, <1>8, <1>9 DEF Next

\* Nothing changes.
LEMMA StutterOK ==
  ASSUME ListInv, UNCHANGED vars
  PROVE  ListInv' /\ Lists' = Lists
<1>1. mem' = mem /\ undef' = undef /\ walk' = walk
  BY DEF vars
<1>2. Represents(mem', undef', Lists)
  BY <1>1 DEF ListInv, Faithful
<1>3. Faithful' /\ Lists' = Lists
  BY <1>2, Becomes
<1> QED BY <1>1, <1>3 DEF ListInv, WalkInv, NoWalk

(***************************************************************************)
(* The links of the nodes always are those of lists without common entries *)
(* and the heads and loops are where they should be: every routine of      *)
(* list.h leaves the memory like that, whatever lists it is called for.    *)
(***************************************************************************)
THEOREM LinksAreLists == Spec => []ListInv
<1>1. Init => ListInv
  BY InitOK
<1>2. ListInv /\ [Next]_vars => ListInv'
  BY StepOK, StutterOK
<1> QED BY <1>1, <1>2, PTL DEF Spec

(***************************************************************************)
(* For every number of heads and entries: list_for_each_prev visits what   *)
(* list_for_each visits, in the opposite order.                            *)
(***************************************************************************)
THEOREM BothDirections == Spec => []Mirrored
<1>1. ListInv => Mirrored
  <2> SUFFICES ASSUME Faithful, NEW h \in Ready
               PROVE  list_for_each_prev(mem, h) = Reverse(list_for_each(mem, h))
    BY DEF ListInv, Mirrored
  <2>1. h \in Heads \ undef
    BY DEF Ready
  <2>2. list_for_each(mem, h) = Lists[h] /\ list_for_each_prev(mem, h) = Reverse(Lists[h])
    BY <2>1, ReadBack DEF Faithful
  <2> QED BY <2>2
<1> QED BY <1>1, LinksAreLists, PTL

(***************************************************************************)
(* For every number of heads and entries: the tests of list.h, which look  *)
(* at one or two links, say what is true of the whole list.                *)
(***************************************************************************)
THEOREM TestsTell == Spec => []TestsAgree
<1>1. ListInv => TestsAgree
  <2> SUFFICES ASSUME Faithful, NEW h \in Ready, NEW s, s = list_for_each(mem, h)
               PROVE  /\ list_empty(mem, h) <=> s = <<>>
                      /\ list_empty_careful(mem, h) <=> s = <<>>
                      /\ list_is_singular(mem, h) <=> Len(s) = 1
                      /\ \A e \in Listed : list_is_last(mem, e, h) <=> s # <<>> /\ Last(s) = e
    BY DEF ListInv, TestsAgree
  <2>1. h \in Heads \ undef
    BY DEF Ready
  <2>2. s = Lists[h]
    BY <2>1, ReadBack DEF Faithful
  <2>3. /\ list_empty(mem, h) <=> s = <<>>
        /\ list_empty_careful(mem, h) <=> s = <<>>
        /\ list_is_singular(mem, h) <=> Len(s) = 1
    BY <2>1, <2>2, HeadLinks DEF Faithful
  <2>4. s \in Seq(Entries) /\ Len(s) \in Nat /\ Distinct(s)
    BY <2>1, <2>2, Parts DEF Faithful
  <2>5. ASSUME NEW e \in Listed
        PROVE  list_is_last(mem, e, h) <=> s # <<>> /\ Last(s) = e
    <3>0. PICK g \in Heads : \E k \in 1 .. Len(Lists[g]) : e = Lists[g][k]
      BY Members
    <3>1. PICK k \in 1 .. Len(Lists[g]) : e = Lists[g][k]
      BY <3>0
    <3>2. g \in Heads \ undef
      BY <3>1, Located
    <3> DEFINE t == Lists[g]
    <3>3. t \in Seq(Entries) /\ Len(t) \in Nat /\ Linked(mem, g, t)
      BY <3>2, Parts DEF Faithful
    <3>4. e = At(g, t, k) /\ k \in Nat /\ k + 1 \in Nat /\ k \in 0 .. Len(t)
      BY <3>1, <3>3 DEF At
    <3>5. mem.next[e] = At(g, t, k + 1)
      BY <3>3, <3>4 DEF Linked
    <3>6. CASE g = h
      <4>1. t = s
        BY <2>2, <3>6
      <4>2. s # <<>>
        BY <3>1, <4>1, EmptySeq
      <4>3. Last(s) = e <=> k = Len(s)
        <5>1. Len(s) \in 1 .. Len(s) /\ k \in 1 .. Len(s) /\ e = s[k]
          BY <2>4, <3>1, <4>1
        <5> HIDE DEF t
        <5> QED BY <2>4, <5>1 DEF Last, Distinct
      <4>4. At(h, s, k + 1) = h <=> k = Len(s)
        <5>1. k \in 1 .. Len(s)
          BY <4>1
        <5>2. CASE k = Len(s)
          BY <2>4, <5>2 DEF At
        <5>3. CASE k # Len(s)
          <6>1. k + 1 \in 1 .. Len(s)
            BY <2>4, <5>1, <5>3
          <6>2. At(h, s, k + 1) \notin Heads
            BY <2>1, <2>4, <6>1, RingNodes
          <6> QED BY <2>1, <5>3, <6>2
        <5> QED BY <5>2, <5>3
      <4> QED BY <3>5, <3>6, <4>1, <4>2, <4>3, <4>4 DEF list_is_last
    <3>7. CASE g # h
      <4>1. g \in Heads \ {h} /\ h \in Heads
        BY <2>1, <3>7
      <4>2. At(g, t, k + 1) # h
        BY <3>4, <4>1, OtherRings DEF Faithful
      <4>3. ~(s # <<>> /\ Last(s) = e)
        <5> SUFFICES ASSUME s # <<>>, Last(s) = e PROVE FALSE
          OBVIOUS
        <5>1. Len(s) \in 1 .. Len(s)
          BY <2>4, EmptySeq
        <5>2. Apart(Lists[g], Lists[h])
          BY <4>1, Parts DEF Faithful
        <5>3. e = Lists[h][Len(s)]
          BY <2>2 DEF Last
        <5> QED BY <2>2, <3>1, <5>1, <5>2, <5>3 DEF Apart
      <4> QED BY <3>5, <4>2, <4>3 DEF list_is_last
    <3> QED BY <3>6, <3>7
  <2> QED BY <2>3, <2>5
<1> QED BY <1>1, LinksAreLists, PTL

(***************************************************************************)
(* For every number of heads and entries: a safe loop visits the entries   *)
(* that were due when it began, each once and in order, although its body  *)
(* removes entries or moves them to the front of another list.             *)
(***************************************************************************)
THEOREM LoopsAreSafe == Spec => []WalkVisitsAll
<1>1. ListInv => WalkVisitsAll
  <2> SUFFICES ASSUME InStep(walk, mem, undef, Lists)
               PROVE  LET k == Len(walk.seen) IN
                        /\ IsPrefix(walk.seen, walk.due)
                        /\ walk.pos = IF k < Len(walk.due) THEN walk.due[k + 1] ELSE walk.head
    BY DEF ListInv, WalkInv, WalkVisitsAll
  <2> DEFINE k == Len(walk.seen)
             seen == walk.seen
             due == walk.due
  <2>1. /\ walk \in Turns /\ k <= Len(due) /\ walk.pos = At(walk.head, due, k + 1)
        /\ \A i \in 1 .. k : seen[i] = due[i]
    BY DEF InStep
  <2>2. seen \in Seq(Entries) /\ due \in Seq(Entries)
    BY <2>1 DEF Turns
  <2>3. k \in Nat /\ Len(due) \in Nat
    BY <2>2, LenProperties
  <2>4. walk.pos = IF k < Len(due) THEN due[k + 1] ELSE walk.head
    BY <2>1, <2>3 DEF At
  <2>5. IsPrefix(seen, due)
    <3>1. \A i \in DOMAIN seen : i \in DOMAIN due /\ seen[i] = due[i]
      BY <2>1, <2>2, <2>3, LenProperties
    <3> QED BY <2>1, <2>2, <2>3, <3>1 DEF IsPrefix
  <2> QED BY <2>4, <2>5
<1> QED BY <1>1, LinksAreLists, PTL

(***************************************************************************)
(* For every number of heads and entries: what the callers do to the links *)
(* of list.h is a behaviour of the lists of sequences of ListSeq.          *)
(***************************************************************************)
THEOREM ListsAreSequences == Spec => RefinesSequences
<1>1. Init => Seqs!Init
  BY InitOK
<1>2. ListInv /\ [Next]_vars => [Seqs!Next]_Lists
  BY StepOK, StutterOK
<1> QED BY <1>1, <1>2, LinksAreLists, PTL DEF Spec, RefinesSequences, Seqs!Spec

(***************************************************************************)
(* For every number of heads and entries, every operand allowed: each      *)
(* routine of list.h does to the sequences what its comment says.          *)
(***************************************************************************)
THEOREM RoutinesAsPromised == Spec => AsPromised
<1> DEFINE Promise ==
      /\ \A e \in Entries, h \in Heads :
           /\ AddHead(e, h) => Seqs!Push(e, h)
           /\ AddTail(e, h) => Seqs!Append1(e, h)
           /\ MoveHead(e, h) => Seqs!MoveFront(e, h)
           /\ MoveTail(e, h) => Seqs!MoveBack(e, h)
      /\ \A g, h \in Heads :
           /\ SpliceHead(g, h) => Seqs!JoinFront(g, h)
           /\ SpliceTail(g, h) => Seqs!JoinBack(g, h)
           /\ \A e \in Nodes : Cut(g, h, e) =>
                Seqs!Cut(g, h, IF e = h THEN 0 ELSE Seqs!Position(e, h))
<1>1. ASSUME ListInv PROVE Promise
  <2>0. Faithful
    BY <1>1 DEF ListInv
  <2>1. ASSUME NEW e \in Entries, NEW h \in Heads
        PROVE  /\ AddHead(e, h) => Seqs!Push(e, h)
               /\ AddTail(e, h) => Seqs!Append1(e, h)
               /\ MoveHead(e, h) => Seqs!MoveFront(e, h)
               /\ MoveTail(e, h) => Seqs!MoveBack(e, h)
    BY <2>0, AddStep, MoveStep
  <2>2. ASSUME NEW g \in Heads, NEW h \in Heads
        PROVE  /\ SpliceHead(g, h) => Seqs!JoinFront(g, h)
               /\ SpliceTail(g, h) => Seqs!JoinBack(g, h)
    BY <2>0, SpliceStep
  <2>3. ASSUME NEW g \in Heads, NEW h \in Heads, NEW e \in Nodes, Cut(g, h, e)
        PROVE  Seqs!Cut(g, h, IF e = h THEN 0 ELSE Seqs!Position(e, h))
    BY <2>0, <2>3, CutStep
  <2> QED BY <2>1, <2>2, <2>3
<1>2. ListInv /\ [Next]_vars => [Promise]_vars
  BY <1>1
<1> HIDE DEF Promise
<1>3. Spec => [][Promise]_vars
  BY <1>2, LinksAreLists, PTL DEF Spec
<1> QED BY <1>3 DEF AsPromised, Promise

=============================================================================

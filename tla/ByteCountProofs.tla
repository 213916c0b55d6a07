--------------------------- MODULE ByteCountProofs ---------------------------
(***************************************************************************)
(* What the proofs about memory need of Total: it is additive over the     *)
(* domain, so that a step that changes the value of one element changes    *)
(* the total by the same amount.                                           *)
(***************************************************************************)
EXTENDS ByteCount, FiniteSetTheorems, TLAPS

\* The bytes of a function, spelled out.
LEMMA BytesOf ==
  ASSUME NEW f, NEW b
  PROVE  b \in Bytes(f) <=> \E x \in DOMAIN f : \E k \in 1 .. f[x] : b = <<x, k>>
BY DEF Bytes

\* A byte belongs to the element it is named with.
LEMMA ByteOf ==
  ASSUME NEW f, NEW x, NEW k
  PROVE  <<x, k>> \in Bytes(f) <=> x \in DOMAIN f /\ k \in 1 .. f[x]
BY BytesOf

\* The bytes of one element.
LEMMA OneElement ==
  ASSUME NEW x, NEW n \in Nat
  PROVE  /\ IsFiniteSet({x} \X (1 .. n))
         /\ Cardinality({x} \X (1 .. n)) = n
<1>1. IsFiniteSet(1 .. n) /\ Cardinality(1 .. n) = n
  BY FS_Interval
<1>2. IsFiniteSet({x}) /\ Cardinality({x}) = 1
  BY FS_Singleton
<1>3. /\ IsFiniteSet({x} \X (1 .. n))
      /\ Cardinality({x} \X (1 .. n)) = Cardinality({x}) * Cardinality(1 .. n)
  BY <1>1, <1>2, FS_Product
<1>4. 1 * n = n
  OBVIOUS
<1> QED BY <1>1, <1>2, <1>3, <1>4

\* A function on a finite set has finitely many bytes.
LEMMA TotalType ==
  ASSUME NEW S, IsFiniteSet(S), NEW f \in [S -> Nat]
  PROVE  IsFiniteSet(Bytes(f)) /\ Total(f) \in Nat
<1> DEFINE g == [x \in S |-> {x} \X (1 .. f[x])]
           R == {{x} \X (1 .. f[x]) : x \in S}
<1>1. g \in Surjection(S, R)
  BY DEF Surjection
<1>2. IsFiniteSet(R)
  BY <1>1, FS_Surjection
<1>3. ASSUME NEW T \in R PROVE IsFiniteSet(T)
  <2>1. PICK x \in S : T = {x} \X (1 .. f[x])
    OBVIOUS
  <2>2. IsFiniteSet({x} \X (1 .. f[x]))
    BY OneElement
  <2> QED BY <2>1, <2>2
<1>4. Bytes(f) = UNION R
  BY DEF Bytes
<1>5. IsFiniteSet(Bytes(f))
  BY <1>2, <1>3, <1>4, FS_UNION
<1> QED BY <1>5, FS_CardinalityType DEF Total

\* Taking one element away takes its value from the total.
LEMMA TotalSplit ==
  ASSUME NEW S, IsFiniteSet(S), NEW f \in [S -> Nat], NEW x \in S,
         NEW g \in [S \ {x} -> Nat], \A y \in S \ {x} : g[y] = f[y]
  PROVE  Total(f) = Total(g) + f[x]
<1> DEFINE X == {x} \X (1 .. f[x])
<1>1. IsFiniteSet(S \ {x})
  BY FS_RemoveElement
<1>2. IsFiniteSet(Bytes(g)) /\ Total(g) \in Nat
  BY <1>1, TotalType
<1>3. IsFiniteSet(X) /\ Cardinality(X) = f[x]
  BY OneElement
<1>4. Bytes(f) = Bytes(g) \cup X
  <2>1. ASSUME NEW b \in Bytes(f) PROVE b \in Bytes(g) \cup X
    <3>1. PICK y \in S : \E k \in 1 .. f[y] : b = <<y, k>>
      BY BytesOf
    <3>2. CASE y = x
      BY <3>1, <3>2
    <3>3. CASE y # x
      BY <3>1, <3>3, BytesOf
    <3> QED BY <3>2, <3>3
  <2>2. ASSUME NEW b \in Bytes(g) PROVE b \in Bytes(f)
    <3>1. PICK y \in S \ {x} : \E k \in 1 .. g[y] : b = <<y, k>>
      BY BytesOf
    <3> QED BY <3>1, BytesOf
  <2>3. ASSUME NEW b \in X PROVE b \in Bytes(f)
    <3>1. PICK k \in 1 .. f[x] : b = <<x, k>>
      OBVIOUS
    <3> QED BY <3>1, BytesOf
  <2> QED BY <2>1, <2>2, <2>3
<1>5. Bytes(g) \cap X = {}
  <2> SUFFICES ASSUME NEW b \in Bytes(g), b \in X PROVE FALSE
    OBVIOUS
  <2>1. PICK y \in S \ {x} : \E k \in 1 .. g[y] : b = <<y, k>>
    BY BytesOf
  <2>2. PICK m \in 1 .. f[x] : b = <<x, m>>
    OBVIOUS
  <2> QED BY <2>1, <2>2
<1>6. Cardinality(Bytes(f)) = Cardinality(Bytes(g)) + Cardinality(X) - Cardinality({})
  BY <1>2, <1>3, <1>4, <1>5, FS_Union
<1>7. Cardinality({}) = 0
  BY FS_EmptySet
<1> QED BY <1>2, <1>3, <1>6, <1>7 DEF Total

\* The same for a function that gains an element.
LEMMA TotalAdd ==
  ASSUME NEW S, IsFiniteSet(S), NEW f \in [S -> Nat], NEW x, x \notin S,
         NEW g \in [S \cup {x} -> Nat], \A y \in S : g[y] = f[y]
  PROVE  Total(g) = Total(f) + g[x]
<1>1. IsFiniteSet(S \cup {x}) /\ (S \cup {x}) \ {x} = S
  BY FS_AddElement
<1> QED BY <1>1, TotalSplit

\* A function that changes at one element changes its total by as much.
LEMMA TotalChange ==
  ASSUME NEW S, IsFiniteSet(S), NEW f \in [S -> Nat], NEW g \in [S -> Nat],
         NEW x \in S, \A y \in S \ {x} : g[y] = f[y]
  PROVE  Total(g) + f[x] = Total(f) + g[x]
<1> DEFINE h == [y \in S \ {x} |-> f[y]]
<1>1. h \in [S \ {x} -> Nat] /\ \A y \in S \ {x} : h[y] = f[y] /\ h[y] = g[y]
  OBVIOUS
<1>2. IsFiniteSet(S \ {x})
  BY FS_RemoveElement
<1>3. Total(h) \in Nat
  BY <1>1, <1>2, TotalType
<1>4. Total(f) = Total(h) + f[x]
  BY <1>1, TotalSplit
<1>5. Total(g) = Total(h) + g[x]
  BY <1>1, TotalSplit
<1> HIDE DEF h
<1> QED BY <1>3, <1>4, <1>5

\* A smaller domain has no larger total.
LEMMA TotalSubset ==
  ASSUME NEW S, IsFiniteSet(S), NEW f \in [S -> Nat], NEW T \in SUBSET S,
         NEW g \in [T -> Nat], \A y \in T : g[y] = f[y]
  PROVE  Total(g) <= Total(f)
<1>1. Bytes(g) \subseteq Bytes(f)
  <2> SUFFICES ASSUME NEW b \in Bytes(g) PROVE b \in Bytes(f)
    OBVIOUS
  <2>1. PICK y \in T : \E k \in 1 .. g[y] : b = <<y, k>>
    BY BytesOf
  <2> QED BY <2>1, BytesOf
<1>2. IsFiniteSet(Bytes(f))
  BY TotalType
<1> QED BY <1>1, <1>2, FS_Subset DEF Total

\* One value is at most the total.
LEMMA TotalElement ==
  ASSUME NEW S, IsFiniteSet(S), NEW f \in [S -> Nat], NEW x \in S
  PROVE  f[x] <= Total(f)
<1> DEFINE g == [y \in S \ {x} |-> f[y]]
<1>1. g \in [S \ {x} -> Nat] /\ \A y \in S \ {x} : g[y] = f[y]
  OBVIOUS
<1>2. IsFiniteSet(S \ {x})
  BY FS_RemoveElement
<1>3. Total(g) \in Nat
  BY <1>1, <1>2, TotalType
<1>4. Total(f) = Total(g) + f[x]
  BY <1>1, TotalSplit
<1> HIDE DEF g
<1> QED BY <1>3, <1>4

\* The total of nothing, and of nothing but zeros.
LEMMA TotalZero ==
  ASSUME NEW f, \A x \in DOMAIN f : f[x] = 0
  PROVE  Total(f) = 0
<1>1. Bytes(f) = {}
  BY BytesOf
<1> QED BY <1>1, FS_EmptySet DEF Total

\* Naming the elements differently does not change the total.
LEMMA TotalRename ==
  ASSUME NEW S, IsFiniteSet(S), NEW f \in [S -> Nat], NEW T, NEW g \in [T -> Nat],
         NEW m \in Bijection(S, T), \A x \in S : g[m[x]] = f[x]
  PROVE  Total(g) = Total(f)
<1> DEFINE n == [b \in Bytes(f) |-> <<m[b[1]], b[2]>>]
<1>1. m \in [S -> T] /\ (\A x, y \in S : m[x] = m[y] => x = y) /\ \A z \in T : \E x \in S : m[x] = z
  BY DEF Bijection, Injection, Surjection, IsInjective
<1>2. n \in [Bytes(f) -> Bytes(g)]
  <2> SUFFICES ASSUME NEW b \in Bytes(f) PROVE <<m[b[1]], b[2]>> \in Bytes(g)
    OBVIOUS
  <2>1. PICK x \in S : \E k \in 1 .. f[x] : b = <<x, k>>
    BY BytesOf
  <2> QED BY <1>1, <2>1, BytesOf
<1>3. ASSUME NEW a \in Bytes(f), NEW b \in Bytes(f), n[a] = n[b] PROVE a = b
  <2>1. PICK x \in S : \E k \in 1 .. f[x] : a = <<x, k>>
    BY BytesOf
  <2>2. PICK y \in S : \E l \in 1 .. f[y] : b = <<y, l>>
    BY BytesOf
  <2> QED BY <1>1, <1>3, <2>1, <2>2
<1>4. ASSUME NEW c \in Bytes(g) PROVE \E b \in Bytes(f) : n[b] = c
  <2>1. PICK z \in T : \E k \in 1 .. g[z] : c = <<z, k>>
    BY BytesOf
  <2>2. PICK k \in 1 .. g[z] : c = <<z, k>>
    BY <2>1
  <2>3. PICK x \in S : m[x] = z
    BY <1>1
  <2>4. <<x, k>> \in Bytes(f)
    BY <2>2, <2>3, BytesOf
  <2> QED BY <2>2, <2>3, <2>4
<1>5. n \in Bijection(Bytes(f), Bytes(g))
  BY <1>2, <1>3, <1>4 DEF Bijection, Injection, Surjection, IsInjective
<1>6. IsFiniteSet(Bytes(f))
  BY TotalType
<1> QED BY <1>5, <1>6, FS_Bijection DEF Total, ExistsBijection

\* A total is the same without an element, renamed, and its value.
LEMMA TotalRemove ==
  ASSUME NEW S, IsFiniteSet(S), NEW f \in [S -> Nat], NEW x \in S,
         NEW T, IsFiniteSet(T), NEW h \in [T -> Nat], NEW R, R = S \ {x},
         NEW m \in Bijection(T, R), \A y \in T : f[m[y]] = h[y]
  PROVE  Total(f) = Total(h) + f[x]
<1> DEFINE g == [y \in S \ {x} |-> f[y]]
<1>1. g \in [S \ {x} -> Nat] /\ \A y \in S \ {x} : g[y] = f[y]
  OBVIOUS
<1>2. m \in [T -> R]
  BY DEF Bijection, Injection
<1>3. \A y \in T : g[m[y]] = h[y]
  BY <1>1, <1>2
<1>4. Total(f) = Total(g) + f[x]
  BY <1>1, TotalSplit
<1> HIDE DEF g
<1>5. Total(g) = Total(h)
  BY <1>1, <1>3, TotalRename
<1> QED BY <1>4, <1>5

\* Any change of a counter that stays within the limit is a grant or a release.
LEMMA WithinIsQuota ==
  ASSUME NEW limit \in Nat, NEW u \in 0 .. limit, NEW v \in 0 .. limit, v # u
  PROVE  \/ \E n \in 1 .. limit - u : v = u + n
         \/ \E n \in 1 .. u : v = u - n
<1>1. CASE v > u
  <2>1. v - u \in 1 .. limit - u /\ v = u + (v - u)
    BY <1>1
  <2> QED BY <2>1
<1>2. CASE v < u
  <2>1. u - v \in 1 .. u /\ v = u - (u - v)
    BY <1>2
  <2> QED BY <2>1
<1> QED BY <1>1, <1>2

=============================================================================

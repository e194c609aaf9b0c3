--------------------------- MODULE PendingProofs ----------------------------
(* Proofs about Pending, for any number of resources and any acyclic program *)
(* graph.  What a graph orders is the least set that is closed under its     *)
(* edges; a merge is compared with the graph in which the two vertices are   *)
(* identified at once, which orders the same and has a cycle as often.       *)
EXTENDS Pending, TLAPS, FiniteSetTheorems, SequenceTheorems, WellFoundedInduction

(***************************************************************************)
(* Induction, and the functions that are defined by it                     *)
(***************************************************************************)

\* the naturals are well-founded
LEMMA LeastNumber ==
    ASSUME NEW T \in SUBSET Nat, T # {}
    PROVE  \E n \in T : \A m \in T : n <= m
<1> DEFINE R == {ss \in Nat \X Nat : ss[1] < ss[2]}
<1>1. PICK n \in T : \A m \in T : ~(<<m, n>> \in R)
  <2>1. IsWellFoundedOn(R, Nat)
    BY NatLessThanWellFounded DEF OpToRel
  <2> HIDE DEF R
  <2> QED
    BY <2>1, WFMin
<1>2. ASSUME NEW m \in T PROVE n <= m
  <2>1. <<m, n>> \in Nat \X Nat
    OBVIOUS
  <2> QED
    BY <1>1, <2>1
<1> QED
  BY <1>2

\* what holds at the start and is kept by a step holds up to n
LEMMA Counting ==
    ASSUME NEW b \in Nat, NEW n \in Nat, NEW T, b \in T, \A k \in b + 1..n : k - 1 \in T => k \in T
    PROVE  b..n \subseteq T
<1> SUFFICES ASSUME NEW j \in b..n, j \notin T
             PROVE  FALSE
  OBVIOUS
<1> DEFINE C == {k \in b..n : k \notin T}
<1>1. C \in SUBSET Nat /\ C # {}
  OBVIOUS
<1>2. PICK k \in C : \A m \in C : k <= m
  <2> HIDE DEF C
  <2> QED
    BY <1>1, LeastNumber
<1>3. k \in b + 1..n /\ k - 1 \in b..n /\ k - 1 \notin C
  BY <1>2
<1> QED
  BY <1>2, <1>3

\* g starts at b with c, and F[k] is what its step to k does
Steps(F, S, b, n) == \A k \in b + 1..n : F[k] \in [S -> S]
Iterates(g, c, F, S, b, n) ==
    g \in [b..n -> S] /\ g[b] = c /\ \A k \in b + 1..n : g[k] = F[k][g[k - 1]]

\* a function that is defined by recursion over b..n exists
LEMMA Iteration ==
    ASSUME NEW S, NEW c \in S, NEW b \in Nat, NEW n \in Nat, NEW F, b <= n, Steps(F, S, b, n)
    PROVE  \E g : Iterates(g, c, F, S, b, n)
<1> USE DEF Steps, Iterates
<1> DEFINE Upto(m) == \E g \in [b..m -> S] : g[b] = c /\ \A k \in b + 1..m : g[k] = F[k][g[k - 1]]
           T == {m \in b..n : Upto(m)}
<1>1. b \in T
  <2>1. [k \in b..b |-> c] \in [b..b -> S]
    OBVIOUS
  <2>2. [k \in b..b |-> c][b] = c /\ b + 1..b = {}
    OBVIOUS
  <2>3. Upto(b)
    BY <2>1, <2>2
  <2>4. b \in b..n
    OBVIOUS
  <2> HIDE DEF Upto
  <2> QED
    BY <2>3, <2>4
<1>2. ASSUME NEW k \in b + 1..n, k - 1 \in T PROVE k \in T
  <2>1. PICK g \in [b..k - 1 -> S] : g[b] = c /\ \A i \in b + 1..k - 1 : g[i] = F[i][g[i - 1]]
    BY <1>2
  <2> DEFINE h == [i \in b..k |-> IF i = k THEN F[k][g[k - 1]] ELSE g[i]]
  <2>2. F[k][g[k - 1]] \in S
    BY <1>2, <2>1
  <2>3. h \in [b..k -> S]
    BY <2>2
  <2>4. h[b] = c /\ h[k] = F[k][g[k - 1]] /\ \A i \in b..k - 1 : h[i] = g[i]
    BY <2>1
  <2>5. \A i \in b + 1..k : i - 1 \in b..k - 1 /\ (i = k \/ i \in b + 1..k - 1)
    OBVIOUS
  <2> HIDE DEF h
  <2>6. ASSUME NEW i \in b + 1..k PROVE h[i] = F[i][h[i - 1]]
    <3>1. h[i - 1] = g[i - 1]
      BY <2>4, <2>5
    <3>2. CASE i = k
      BY <3>1, <3>2, <2>4
    <3>3. CASE i \in b + 1..k - 1
      <4>1. h[i] = g[i]
        BY <3>3, <2>4
      <4> QED
        BY <3>1, <3>3, <4>1, <2>1
    <3> QED
      BY <3>2, <3>3, <2>5
  <2>7. Upto(k)
    BY <2>3, <2>4, <2>6
  <2>8. k \in b..n
    OBVIOUS
  <2> HIDE DEF Upto
  <2> QED
    BY <2>7, <2>8
<1>3. n \in T
  <2> HIDE DEF T
  <2>1. b..n \subseteq T
    BY <1>1, <1>2, Counting
  <2> QED
    BY <2>1
<1> QED
  BY <1>3

(***************************************************************************)
(* What is below a vertex                                                  *)
(***************************************************************************)

Edges == SUBSET (Res \X Res)

Closed(E, X) == \A x, y : <<x, y>> \in E /\ x \in X => y \in X
Below(E, a) ==
    {x \in Res : \A X \in SUBSET Res : Closed(E, X) /\ (\A y : <<a, y>> \in E => y \in X) => x \in X}

Acyclic(E) == \A a \in Res : a \notin Below(E, a)

LEMMA BelowStarts ==
    ASSUME NEW E \in Edges, NEW a, NEW b, <<a, b>> \in E
    PROVE  b \in Below(E, a)
BY DEF Edges, Below

LEMMA BelowGoesOn ==
    ASSUME NEW E \in Edges, NEW a, NEW b \in Below(E, a), NEW c, <<b, c>> \in E
    PROVE  c \in Below(E, a)
BY DEF Edges, Below, Closed

\* nothing else is below it
LEMMA BelowLeast ==
    ASSUME NEW E \in Edges, NEW a, NEW X, Closed(E, X), \A y : <<a, y>> \in E => y \in X
    PROVE  Below(E, a) \subseteq X
<1> DEFINE Y == X \cap Res
<1>1. Y \in SUBSET Res /\ Closed(E, Y) /\ \A y : <<a, y>> \in E => y \in Y
  BY DEF Edges, Closed
<1>2. Below(E, a) \subseteq Y
  <2> HIDE DEF Y
  <2> QED
    BY <1>1 DEF Below
<1> QED
  BY <1>2

\* a map of the vertices under which the ends of an edge are in order keeps the order
LEMMA BelowMaps ==
    ASSUME NEW E \in Edges, NEW F \in Edges, NEW h \in [Res -> Res],
           \A x, y : <<x, y>> \in E => h[y] \in Below(F, h[x]),
           NEW a \in Res, NEW b \in Below(E, a)
    PROVE  h[b] \in Below(F, h[a])
<1> DEFINE X == {x \in Res : h[x] \in Below(F, h[a])}
<1>1. ASSUME NEW y, <<a, y>> \in E PROVE y \in X
  BY <1>1 DEF Edges
<1>2. ASSUME NEW x, NEW y, <<x, y>> \in E, x \in X PROVE y \in X
  <2>1. h[y] \in Below(F, h[x]) /\ h[x] \in Below(F, h[a]) /\ y \in Res
    BY <1>2 DEF Edges
  <2>2. Below(F, h[x]) \subseteq Below(F, h[a])
    <3>1. Closed(F, Below(F, h[a]))
      BY BelowGoesOn DEF Closed
    <3>2. \A z : <<h[x], z>> \in F => z \in Below(F, h[a])
      BY <2>1, BelowGoesOn
    <3> QED
      BY <3>1, <3>2, BelowLeast
  <2> QED
    BY <2>1, <2>2
<1>3. Below(E, a) \subseteq X
  <2> HIDE DEF X
  <2> QED
    BY <1>1, <1>2, BelowLeast DEF Closed
<1> QED
  BY <1>3

\* so does putting something in order for each edge
LEMMA BelowRefines ==
    ASSUME NEW E \in Edges, NEW F \in Edges, \A x, y : <<x, y>> \in E => y \in Below(F, x),
           NEW a \in Res
    PROVE  Below(E, a) \subseteq Below(F, a)
<1> DEFINE h == [x \in Res |-> x]
<1>1. h \in [Res -> Res] /\ \A x \in Res : h[x] = x
  OBVIOUS
<1>2. \A x, y : <<x, y>> \in E => x \in Res /\ y \in Res
  BY DEF Edges
<1>3. Below(E, a) \subseteq Res
  BY DEF Below
<1> HIDE DEF h
<1>4. \A x, y : <<x, y>> \in E => h[y] \in Below(F, h[x])
  BY <1>1, <1>2
<1>5. ASSUME NEW b \in Below(E, a) PROVE b \in Below(F, a)
  <2>1. h[b] \in Below(F, h[a])
    BY <1>1, <1>4, BelowMaps
  <2> QED
    BY <2>1, <1>1, <1>3
<1> QED
  BY <1>5

LEMMA BelowGrows ==
    ASSUME NEW F \in Edges, NEW E, E \subseteq F, NEW a \in Res
    PROVE  Below(E, a) \subseteq Below(F, a)
<1>1. E \in Edges
  BY DEF Edges
<1>2. \A x, y : <<x, y>> \in E => y \in Below(F, x)
  BY BelowStarts
<1> QED
  BY <1>1, <1>2, BelowRefines

LEMMA BelowTransitive ==
    ASSUME NEW E \in Edges, NEW a, NEW b \in Below(E, a), NEW c \in Below(E, b)
    PROVE  c \in Below(E, a)
<1>1. Closed(E, Below(E, a)) /\ \A y : <<b, y>> \in E => y \in Below(E, a)
  BY BelowGoesOn DEF Closed
<1> QED
  BY <1>1, BelowLeast

\* what is below c with the edge <<a, b>> is below it without, or the edge was used:
\* before it a way to a, after it a way from b
LEMMA BelowWithout ==
    ASSUME NEW E \in Edges, NEW a, NEW b, NEW c, NEW y \in Below(E, c), <<a, b>> \in E
    PROVE  LET F == E \ {<<a, b>>}
           IN  \/ y \in Below(F, c)
               \/ (a = c \/ a \in Below(F, c)) /\ (y = b \/ y \in Below(F, b))
<1> DEFINE F == E \ {<<a, b>>}
           X == Below(F, c) \cup (IF a = c \/ a \in Below(F, c) THEN {b} \cup Below(F, b) ELSE {})
<1>1. F \in Edges /\ F \subseteq E /\ \A x, z : <<x, z>> \in E => <<x, z>> \in F \/ (x = a /\ z = b)
  BY DEF Edges
<1> HIDE DEF F
<1>2. ASSUME NEW z, <<c, z>> \in E PROVE z \in X
  <2>1. CASE <<c, z>> \in F
    BY <2>1, <1>1, BelowStarts
  <2>2. CASE c = a /\ z = b
    BY <2>2
  <2> QED
    BY <2>1, <2>2, <1>1, <1>2
<1>3. ASSUME NEW x, NEW z, <<x, z>> \in E, x \in X PROVE z \in X
  <2>1. CASE <<x, z>> \in F /\ x \in Below(F, c)
    BY <2>1, <1>1, BelowGoesOn
  <2>2. CASE <<x, z>> \in F /\ x \notin Below(F, c)
    <3>1. (a = c \/ a \in Below(F, c)) /\ (x = b \/ x \in Below(F, b))
      BY <2>2, <1>3
    <3>2. z \in Below(F, b)
      BY <2>2, <3>1, <1>1, BelowStarts, BelowGoesOn
    <3> QED
      BY <3>1, <3>2
  <2>3. CASE x = a /\ z = b
    BY <2>3, <1>3
  <2> QED
    BY <2>1, <2>2, <2>3, <1>1, <1>3
<1>4. Below(E, c) \subseteq X
  <2> HIDE DEF X
  <2> QED
    BY <1>2, <1>3, BelowLeast DEF Closed
<1> QED
  BY <1>4 DEF F

(***************************************************************************)
(* The descendants that the grouper computes are what is below a vertex    *)
(***************************************************************************)

LEMMA Neighbours ==
    ASSUME NEW E \in Edges, NEW a, NEW b
    PROVE  /\ b \in OutgoingGraphVertices(E, a) <=> <<a, b>> \in E
           /\ b \in IncomingGraphVertices(E, a) <=> <<b, a>> \in E
BY DEF Edges, OutgoingGraphVertices, IncomingGraphVertices

LEMMA Finite ==
    ASSUME NEW V \in SUBSET Res
    PROVE  IsFiniteSet(V) /\ Cardinality(V) \in Nat /\ (V # {} => Cardinality(V) >= 1)
<1>1. IsFiniteSet(Res)
  BY ResAssumption, FS_Interval
<1>2. IsFiniteSet(V)
  BY <1>1, FS_Subset
<1> QED
  BY <1>2, FS_CardinalityType, FS_EmptySet

Grown(E, X) == X \cup UNION {OutgoingGraphVertices(E, m) : m \in X}

\* the recursion in Descendants, as equations
LEMMA ReachEquations ==
    ASSUME NEW V \in SUBSET Res, V # {}, NEW E \in SUBSET (V \X V), NEW v
    PROVE  \E r : /\ Descendants(V, E, v) = r[Cardinality(V)]
                  /\ \A y : y \in r[1] <=> <<v, y>> \in E
                  /\ \A k \in 2..Cardinality(V) :
                       \A y : y \in r[k] <=> y \in r[k - 1] \/ \E x \in r[k - 1] : <<x, y>> \in E
<1> DEFINE n == Cardinality(V)
           Out(m) == OutgoingGraphVertices(E, m)
           Def(r) == [k \in 1..n |-> IF k = 1 THEN Out(v) ELSE Grown(E, r[k - 1])]
           S == SUBSET V
           F == [k \in 1 + 1..n |-> [X \in S |-> Grown(E, X)]]
<1>1. n \in Nat /\ 1 <= n
  BY Finite
<1>2. \A m : Out(m) \in SUBSET V
  BY DEF OutgoingGraphVertices
<1>3. Descendants(V, E, v) = (CHOOSE r : r = Def(r))[n]
  BY DEF Descendants, Grown
<1>4. \A a, y : y \in Out(a) <=> <<a, y>> \in E
  BY Neighbours DEF Edges
<1>5. \A X \in S : Grown(E, X) \in S
  BY <1>2 DEF Grown
<1>6. ASSUME NEW X, NEW y PROVE y \in Grown(E, X) <=> y \in X \/ \E x \in X : <<x, y>> \in E
  BY <1>4 DEF Grown
<1> HIDE DEF n, Out
<1>7. Out(v) \in S /\ 1 \in Nat
  BY <1>2
<1> HIDE DEF S
<1>8. Steps(F, S, 1, n) /\ \A k \in 2..n, X \in S : F[k][X] = Grown(E, X)
  BY <1>5 DEF Steps
<1> HIDE DEF F
<1>9. PICK g : Iterates(g, Out(v), F, S, 1, n)
  BY <1>1, <1>7, <1>8, Iteration
<1>10. g \in [1..n -> S] /\ g[1] = Out(v) /\ \A k \in 2..n : g[k] = F[k][g[k - 1]]
  BY <1>9 DEF Iterates
<1>11. g = Def(g)
  <2>1. ASSUME NEW k \in 1..n PROVE g[k] = Def(g)[k]
    <3>1. CASE k = 1
      BY <3>1, <1>10
    <3>2. CASE k # 1
      <4>1. k \in 2..n /\ k - 1 \in 1..n
        BY <3>2, <1>1
      <4>2. g[k] = Grown(E, g[k - 1])
        BY <4>1, <1>8, <1>10
      <4> QED
        BY <3>2, <4>2
    <3> QED
      BY <3>1, <3>2
  <2> QED
    BY <2>1, <1>10
<1>12. PICK r : r = (CHOOSE q : q = Def(q))
  OBVIOUS
<1>13. r = Def(r)
  <2> HIDE DEF Def
  <2> QED
    BY <1>11, <1>12
<1>14. r[1] = Out(v) /\ \A k \in 2..n : r[k] = Grown(E, r[k - 1])
  <2>1. ASSUME NEW k \in 1..n PROVE r[k] = IF k = 1 THEN Out(v) ELSE Grown(E, r[k - 1])
    BY <1>13, Zenon
  <2> QED
    BY <2>1, <1>1
<1>15. \A y : y \in r[1] <=> <<v, y>> \in E
  BY <1>14, <1>4
<1>16. ASSUME NEW k \in 2..n, NEW z
       PROVE  z \in r[k] <=> z \in r[k - 1] \/ \E x \in r[k - 1] : <<x, z>> \in E
  <2>1. z \in Grown(E, r[k - 1]) <=> z \in r[k - 1] \/ \E x \in r[k - 1] : <<x, z>> \in E
    BY <1>6
  <2> QED
    BY <2>1, <1>14
<1> QED
  BY <1>3, <1>12, <1>15, <1>16 DEF n

LEMMA DescendantsAreBelow ==
    ASSUME NEW V \in SUBSET Res, NEW E \in SUBSET (V \X V), NEW v
    PROVE  Descendants(V, E, v) = Below(E, v)
<1>1. E \in Edges
  BY DEF Edges
<1>2. CASE V = {}
  <2>1. Below(E, v) \subseteq {}
    BY <1>1, <1>2, BelowLeast DEF Closed
  <2> QED
    BY <1>2, <2>1 DEF Descendants
<1>3. CASE V # {}
  <2> DEFINE n == Cardinality(V)
  <2>1. n \in Nat /\ 1 <= n /\ IsFiniteSet(V)
    BY <1>3, Finite
  <2>2. PICK r : /\ Descendants(V, E, v) = r[n]
                 /\ \A y : y \in r[1] <=> <<v, y>> \in E
                 /\ \A k \in 2..n :
                      \A y : y \in r[k] <=> y \in r[k - 1] \/ \E x \in r[k - 1] : <<x, y>> \in E
    BY <1>3, ReachEquations
  <2> HIDE DEF n
  <2> DEFINE P(X) == X \in SUBSET V /\ X \subseteq Below(E, v) /\ \A y : <<v, y>> \in E => y \in X
             T == {k \in 1..n : P(r[k]) /\ (Closed(E, r[k]) \/ Cardinality(r[k]) >= k)}
  <2>3. 1 \in T
    <3>1. P(r[1])
      <4>1. ASSUME NEW y \in r[1] PROVE y \in V /\ y \in Below(E, v)
        <5>1. <<v, y>> \in E
          BY <2>2
        <5> QED
          BY <5>1, <1>1, BelowStarts
      <4> QED
        BY <4>1, <2>2
    <3>2. Closed(E, r[1]) \/ Cardinality(r[1]) >= 1
      <4>1. r[1] = {} \/ Cardinality(r[1]) >= 1
        BY <3>1, Finite
      <4> QED
        BY <4>1 DEF Closed
    <3> HIDE DEF P
    <3> QED
      BY <3>1, <3>2, <2>1
  <2>4. ASSUME NEW k \in 1 + 1..n, k - 1 \in T PROVE k \in T
    <3>1. /\ P(r[k - 1]) /\ (Closed(E, r[k - 1]) \/ Cardinality(r[k - 1]) >= k - 1)
          /\ k \in 2..n /\ k \in 1..n
      BY <2>4, <2>1
    <3>2. \A y : y \in r[k] <=> y \in r[k - 1] \/ \E x \in r[k - 1] : <<x, y>> \in E
      BY <2>2, <3>1
    <3>3. P(r[k])
      <4>1. ASSUME NEW y \in r[k] PROVE y \in V /\ y \in Below(E, v)
        BY <3>1, <3>2, <1>1, BelowGoesOn
      <4> QED
        BY <4>1, <3>1, <3>2
    <3>4. CASE Closed(E, r[k - 1])
      <4>1. \A y : y \in r[k] <=> y \in r[k - 1]
        BY <3>2, <3>4 DEF Closed
      <4>2. Closed(E, r[k])
        BY <3>4, <4>1 DEF Closed
      <4> HIDE DEF P
      <4> QED
        BY <3>1, <3>3, <4>2
    <3>5. CASE ~Closed(E, r[k - 1])
      <4>1. PICK y : y \notin r[k - 1] /\ y \in r[k]
        BY <3>5, <3>2 DEF Closed
      <4>2. r[k - 1] \cup {y} \subseteq r[k] /\ r[k - 1] \in SUBSET Res /\ r[k] \in SUBSET Res
        BY <3>1, <3>2, <3>3, <4>1
      <4>3. IsFiniteSet(r[k - 1]) /\ IsFiniteSet(r[k]) /\ Cardinality(r[k - 1]) \in Nat /\ Cardinality(r[k]) \in Nat
        BY <4>2, Finite
      <4>4. Cardinality(r[k - 1] \cup {y}) = Cardinality(r[k - 1]) + 1
        BY <4>1, <4>3, FS_AddElement
      <4>5. Cardinality(r[k - 1] \cup {y}) <= Cardinality(r[k])
        BY <4>2, <4>3, FS_Subset
      <4>6. Cardinality(r[k]) >= k
        BY <3>1, <3>5, <4>3, <4>4, <4>5
      <4> HIDE DEF P
      <4> QED
        BY <3>1, <3>3, <4>6
    <3> QED
      BY <3>4, <3>5
  <2>5. n \in T
    <3> HIDE DEF T
    <3>1. 1..n \subseteq T
      BY <2>1, <2>3, <2>4, Counting
    <3> QED
      BY <3>1, <2>1
  <2>6. P(r[n]) /\ (Closed(E, r[n]) \/ Cardinality(r[n]) >= n)
    BY <2>5
  <2>7. Closed(E, r[n])
    <3>1. CASE Cardinality(r[n]) >= n
      <4>1. Cardinality(r[n]) <= n /\ Cardinality(r[n]) \in Nat
        BY <2>1, <2>6, FS_Subset, FS_CardinalityType DEF n
      <4>2. r[n] = V
        BY <4>1, <3>1, <2>1, <2>6, FS_Subset DEF n
      <4> QED
        BY <4>2 DEF Closed
    <3> QED
      BY <3>1, <2>6
  <2>8. Below(E, v) \subseteq r[n]
    BY <1>1, <2>6, <2>7, BelowLeast
  <2> QED
    BY <2>2, <2>6, <2>8 DEF n
<1> QED
  BY <1>2, <1>3

LEMMA DagIsAcyclic ==
    ASSUME NEW V \in SUBSET Res, NEW E \in SUBSET (V \X V)
    PROVE  IsDag(V, E) <=> Acyclic(E)
<1>1. E \in Edges
  BY DEF Edges
<1>2. ASSUME NEW a PROVE Below(E, a) \subseteq V
  BY <1>1, BelowLeast DEF Closed
<1>3. \A a \in V : Descendants(V, E, a) = Below(E, a)
  BY DescendantsAreBelow
<1> QED
  BY <1>2, <1>3 DEF IsDag, Acyclic

(***************************************************************************)
(* A path that bfsShortestPath returns is one                              *)
(***************************************************************************)

LongerBy(E, p) == {Append(p, m) : m \in OutgoingGraphVertices(E, Last(p)) \ ToSet(p)}
Longer(E, X) == UNION {LongerBy(E, p) : p \in X}

LEMMA LongerPath ==
    ASSUME NEW V \in SUBSET Res, NEW E \in SUBSET (V \X V), NEW p \in Seq(V), NEW q \in LongerBy(E, p)
    PROVE  /\ q \in Seq(V) /\ Len(q) = Len(p) + 1
           /\ \A i \in 1..Len(p) : q[i] = p[i]
           /\ <<p[Len(p)], q[Len(p) + 1]>> \in E
<1>1. E \in Edges
  BY DEF Edges
<1>2. PICK m : q = Append(p, m) /\ m \in OutgoingGraphVertices(E, Last(p))
  BY DEF LongerBy
<1>3. <<p[Len(p)], m>> \in E
  BY <1>1, <1>2, Neighbours DEF Last
<1>4. m \in V
  BY <1>3
<1> QED
  BY <1>2, <1>3, <1>4

\* the recursion in bfsShortestPath, as equations
LEMMA PathEquations ==
    ASSUME NEW V \in SUBSET Res, NEW E \in SUBSET (V \X V), NEW a \in V, NEW b, NEW p,
           p \in bfsShortestPath(V, E, a, b)
    PROVE  \E path : \E k \in 1..Cardinality(V) :
              /\ p \in path[k] /\ Last(p) = b
              /\ path[0] = {<<a>>} /\ \A m \in 1..Cardinality(V) : path[m] = Longer(E, path[m - 1])
<1> DEFINE n == Cardinality(V)
           Def(r) == [k \in 0..n |-> IF k = 0 THEN {<<a>>} ELSE Longer(E, r[k - 1])]
           S == SUBSET Seq(V)
           F == [k \in 1..n |-> [X \in S |-> Longer(E, X)]]
           Found(r) == {k \in 1..n : \E q \in r[k] : Last(q) = b}
<1>1. n \in Nat
  BY Finite
<1>2. PICK r : r = (CHOOSE q : q = Def(q))
  OBVIOUS
<1>3. /\ Found(r) # {}
      /\ p \in r[CHOOSE k \in Found(r) : \A m \in Found(r) : k <= m] /\ Last(p) = b
  BY <1>2 DEF bfsShortestPath, Longer, LongerBy
<1> HIDE DEF n
<1>4. \A X \in S : Longer(E, X) \in S
  <2> SUFFICES ASSUME NEW X \in S, NEW q, NEW s \in X, q \in LongerBy(E, s)
               PROVE  q \in Seq(V)
    BY DEF Longer
  <2>1. s \in Seq(V)
    OBVIOUS
  <2> QED
    BY <2>1, LongerPath
<1>5. {<<a>>} \in S
  OBVIOUS
<1> HIDE DEF S
<1>6. Steps(F, S, 0, n) /\ \A k \in 1..n, X \in S : F[k][X] = Longer(E, X)
  BY <1>4 DEF Steps
<1> HIDE DEF F
<1>7. PICK g : Iterates(g, {<<a>>}, F, S, 0, n)
  BY <1>1, <1>5, <1>6, Iteration
<1>8. g \in [0..n -> S] /\ g[0] = {<<a>>} /\ \A k \in 1..n : g[k] = F[k][g[k - 1]]
  BY <1>7 DEF Iterates
<1>9. g = Def(g)
  <2>1. ASSUME NEW k \in 0..n PROVE g[k] = Def(g)[k]
    <3>1. CASE k = 0
      BY <3>1, <1>8
    <3>2. CASE k # 0
      <4>1. k \in 1..n /\ k - 1 \in 0..n
        BY <3>2, <1>1
      <4>2. g[k] = Longer(E, g[k - 1])
        BY <4>1, <1>6, <1>8
      <4> QED
        BY <3>2, <4>2
    <3> QED
      BY <3>1, <3>2
  <2> QED
    BY <2>1, <1>8
<1>10. r = Def(r)
  <2> HIDE DEF Def
  <2> QED
    BY <1>9, <1>2
<1>11. r[0] = {<<a>>} /\ \A k \in 1..n : r[k] = Longer(E, r[k - 1])
  <2>1. ASSUME NEW k \in 0..n PROVE r[k] = IF k = 0 THEN {<<a>>} ELSE Longer(E, r[k - 1])
    BY <1>10, Zenon
  <2> QED
    BY <2>1, <1>1
<1>12. \E k \in 1..n : p \in r[k]
  <2>1. Found(r) \in SUBSET Nat /\ Found(r) \subseteq 1..n
    OBVIOUS
  <2> HIDE DEF Found
  <2>2. \E k \in Found(r) : \A m \in Found(r) : k <= m
    BY <1>3, <2>1, LeastNumber
  <2> QED
    BY <1>3, <2>1, <2>2
<1> QED
  BY <1>3, <1>11, <1>12 DEF n

LEMMA ShortestPath ==
    ASSUME NEW V \in SUBSET Res, NEW E \in SUBSET (V \X V), NEW a \in V, NEW b, NEW p,
           p \in bfsShortestPath(V, E, a, b)
    PROVE  p \in Seq(V) /\ Len(p) >= 2 /\ p[1] = a /\ p[Len(p)] = b /\ Along(p) \subseteq E
<1> DEFINE n == Cardinality(V)
<1>1. n \in Nat
  BY Finite
<1>2. PICK r : \E k \in 1..n :
              /\ p \in r[k] /\ Last(p) = b
              /\ r[0] = {<<a>>} /\ \A m \in 1..n : r[m] = Longer(E, r[m - 1])
  BY PathEquations
<1>3. PICK k \in 1..n : p \in r[k] /\ Last(p) = b
  BY <1>2
<1> HIDE DEF n
<1> DEFINE P(q, m) == /\ q \in Seq(V) /\ Len(q) = m + 1 /\ q[1] = a
                      /\ \A i \in 1..m : <<q[i], q[i + 1]>> \in E
           T == {m \in 0..n : \A q \in r[m] : P(q, m)}
<1>4. 0 \in T
  <2>1. P(<<a>>, 0)
    OBVIOUS
  <2> HIDE DEF P
  <2> QED
    BY <2>1, <1>1, <1>2
<1>5. ASSUME NEW m \in 0 + 1..n, m - 1 \in T PROVE m \in T
  <2>1. SUFFICES ASSUME NEW q \in r[m] PROVE P(q, m)
    BY <1>1
  <2>2. PICK s \in r[m - 1] : q \in LongerBy(E, s)
    BY <1>2 DEF Longer
  <2>3. s \in Seq(V) /\ Len(s) = m /\ s[1] = a /\ \A i \in 1..m - 1 : <<s[i], s[i + 1]>> \in E
    <3>1. P(s, m - 1)
      <4> HIDE DEF P
      <4> QED
        BY <1>5, <2>2
    <3> QED
      BY <3>1
  <2>4. /\ q \in Seq(V) /\ Len(q) = m + 1
        /\ \A i \in 1..m : q[i] = s[i]
        /\ <<s[m], q[m + 1]>> \in E
    <3>1. /\ q \in Seq(V) /\ Len(q) = Len(s) + 1
          /\ \A i \in 1..Len(s) : q[i] = s[i]
          /\ <<s[Len(s)], q[Len(s) + 1]>> \in E
      BY <2>2, <2>3, LongerPath
    <3> QED
      BY <3>1, <2>3
  <2>5. ASSUME NEW i \in 1..m PROVE <<q[i], q[i + 1]>> \in E
    BY <2>3, <2>4
  <2> QED
    BY <2>3, <2>4, <2>5
<1>6. k \in T
  <2> HIDE DEF T
  <2>1. 0..n \subseteq T
    BY <1>1, <1>4, <1>5, Counting
  <2> QED
    BY <2>1
<1>7. P(p, k)
  BY <1>3, <1>6
<1>8. Along(p) \subseteq E
  BY <1>7 DEF Along
<1> QED
  BY <1>3, <1>7, <1>8 DEF Last

\* along a path, a later vertex is below an earlier one
LEMMA PathBelow ==
    ASSUME NEW p \in Seq(Res), NEW i \in 1..Len(p), NEW j \in 1..Len(p), i < j
    PROVE  Along(p) \in Edges /\ p[j] \in Below(Along(p), p[i])
<1>1. Along(p) \in Edges
  BY DEF Along, Edges
<1>2. \A k \in 1..Len(p) - 1 : <<p[k], p[k + 1]>> \in Along(p)
  BY DEF Along
<1> DEFINE T == {k \in 1..Len(p) : p[k] \in Below(Along(p), p[i])}
<1>3. i + 1 \in T
  <2>1. i + 1 \in 1..Len(p) /\ <<p[i], p[i + 1]>> \in Along(p)
    BY <1>2
  <2> QED
    BY <2>1, <1>1, BelowStarts
<1>4. ASSUME NEW k \in (i + 1) + 1..j, k - 1 \in T PROVE k \in T
  <2>1. <<p[k - 1], p[k]>> \in Along(p)
    <3>1. k - 1 \in 1..Len(p) - 1 /\ (k - 1) + 1 = k
      OBVIOUS
    <3> QED
      BY <3>1, <1>2
  <2> QED
    BY <1>4, <2>1, <1>1, BelowGoesOn
<1>5. j \in T
  <2>1. i + 1 \in Nat /\ j \in Nat /\ j \in i + 1..j
    OBVIOUS
  <2> HIDE DEF T
  <2>2. i + 1..j \subseteq T
    BY <2>1, <1>3, <1>4, Counting
  <2> QED
    BY <2>1, <2>2
<1> QED
  BY <1>1, <1>5

(***************************************************************************)
(* TopologicalSort succeeds for a DAG, and for nothing else                *)
(***************************************************************************)

AfterTurn(E, x) ==
    LET v == Last(x.s)
        l == Append(x.l, v)
        ready == NoneRemaining(E, l, OutgoingGraphVertices(E, v))
    IN  {[l |-> l, s |-> Front(x.s) \o p] : p \in SetToSeqs(ready)}
Turn(E, X) == UNION {AfterTurn(E, x) : x \in {y \in X : y.s # <<>>}}

Lists(V) == [l : Seq(V), s : Seq(V)]

\* after k turns: everything is listed once, after all that has to be before it
Sorted(E, x, k) ==
    /\ Len(x.l) = k
    /\ \A i, j \in 1..k : x.l[i] = x.l[j] => i = j
    /\ \A i, j \in 1..Len(x.s) : x.s[i] = x.s[j] => i = j
    /\ \A i \in 1..k, j \in 1..Len(x.s) : x.l[i] # x.s[j]
    /\ \A i \in 1..k : \A u : <<u, x.l[i]>> \in E => \E j \in 1..i - 1 : x.l[j] = u
    /\ \A i \in 1..Len(x.s) : \A u : <<u, x.s[i]>> \in E => \E j \in 1..k : x.l[j] = u

LEMMA InjectionCovers ==
    ASSUME NEW C, IsFiniteSet(C), NEW p \in [1..Cardinality(C) -> C],
           \A i, j \in 1..Cardinality(C) : p[i] = p[j] => i = j,
           NEW z \in C
    PROVE  \E i \in 1..Cardinality(C) : p[i] = z
<1> DEFINE n == Cardinality(C)
           I == {p[i] : i \in 1..n}
<1>1. n \in Nat
  BY FS_CardinalityType
<1>2. p \in Bijection(1..n, I)
  BY DEF Bijection, Injection, Surjection, IsInjective
<1>3. I \in SUBSET C
  OBVIOUS
<1> HIDE DEF I
<1>4. Cardinality(I) = n
  BY <1>1, <1>2, FS_CountingElements DEF ExistsBijection
<1>5. I = C
  BY <1>3, <1>4, FS_Subset
<1> QED
  BY <1>5 DEF I

LEMMA SetAsSeqs ==
    ASSUME NEW C, IsFiniteSet(C), NEW p \in SetToSeqs(C)
    PROVE  /\ p \in Seq(C) /\ \A i, j \in 1..Len(p) : p[i] = p[j] => i = j
           /\ \A z \in C : \E i \in 1..Len(p) : p[i] = z
<1>1. Cardinality(C) \in Nat
  BY FS_CardinalityType
<1>2. p \in [1..Cardinality(C) -> C] /\ \A i, j \in 1..Cardinality(C) : i # j => p[i] # p[j]
  BY DEF SetToSeqs
<1>3. p \in Seq(C) /\ Len(p) = Cardinality(C)
  BY <1>1, <1>2
<1>4. \A z \in C : \E i \in 1..Cardinality(C) : p[i] = z
  <2>1. \A i, j \in 1..Cardinality(C) : p[i] = p[j] => i = j
    BY <1>2
  <2> QED
    BY <1>2, <2>1, InjectionCovers
<1> QED
  BY <1>2, <1>3, <1>4

\* y is x after a turn that takes v from the stack: k vertices were listed and m stay
\* on the stack
Turned(V, E, x, y, v, k, m) ==
    /\ y \in Lists(V) /\ Len(y.l) = k + 1 /\ y.l[k + 1] = v
    /\ \A i \in 1..k : y.l[i] = x.l[i]
    /\ Len(y.s) >= m /\ \A i \in 1..m : y.s[i] = x.s[i]
    /\ \A i, j \in m + 1..Len(y.s) : y.s[i] = y.s[j] => i = j
    /\ \A i \in m + 1..Len(y.s) :
         /\ <<v, y.s[i]>> \in E
         /\ \A u : <<u, y.s[i]>> \in E => \E j \in 1..k + 1 : y.l[j] = u
    /\ \A z : <<v, z>> \in E /\ (\A u : <<u, z>> \in E => \E j \in 1..k + 1 : y.l[j] = u)
              => \E i \in 1..Len(y.s) : y.s[i] = z

LEMMA TurnElements ==
    ASSUME NEW V \in SUBSET Res, NEW E \in SUBSET (V \X V), NEW x \in Lists(V), x.s # <<>>,
           NEW y \in AfterTurn(E, x)
    PROVE  Turned(V, E, x, y, x.s[Len(x.s)], Len(x.l), Len(x.s) - 1)
<1> DEFINE v == x.s[Len(x.s)]
           k == Len(x.l)
           m == Len(x.s) - 1
           ready == NoneRemaining(E, Append(x.l, v), OutgoingGraphVertices(E, v))
<1>1. E \in Edges
  BY DEF Edges
<1>2. PICK p \in SetToSeqs(ready) : y = [l |-> Append(x.l, v), s |-> Front(x.s) \o p]
  BY DEF AfterTurn, Last
<1>3. x.l \in Seq(V) /\ x.s \in Seq(V) /\ k \in Nat /\ m \in Nat /\ v \in V
  BY DEF Lists
<1>4. y.l = Append(x.l, v) /\ y.l \in Seq(V) /\ Len(y.l) = k + 1 /\ y.l[k + 1] = v
      /\ \A i \in 1..k : y.l[i] = x.l[i]
  BY <1>2, <1>3
<1>5. ASSUME NEW z \in ready
      PROVE  z \in V /\ <<v, z>> \in E /\ \A u : <<u, z>> \in E => \E j \in 1..k + 1 : y.l[j] = u
  <2>1. z \in OutgoingGraphVertices(E, v) /\ IncomingGraphVertices(E, z) \subseteq ToSet(y.l)
    BY <1>4, <1>5 DEF NoneRemaining
  <2>2. <<v, z>> \in E
    BY <2>1, <1>1, Neighbours
  <2>3. ASSUME NEW u, <<u, z>> \in E PROVE \E j \in 1..k + 1 : y.l[j] = u
    <3>1. u \in ToSet(y.l)
      BY <2>1, <2>3, <1>1, Neighbours
    <3> QED
      BY <3>1, <1>4 DEF ToSet
  <2> QED
    BY <2>2, <2>3
<1>6. ready \in SUBSET V
  BY <1>5
<1>7. ASSUME NEW z, <<v, z>> \in E, \A u : <<u, z>> \in E => \E j \in 1..k + 1 : y.l[j] = u
       PROVE  z \in ready
  <2>1. z \in OutgoingGraphVertices(E, v)
    BY <1>1, <1>7, Neighbours
  <2>2. ASSUME NEW u \in IncomingGraphVertices(E, z) PROVE u \in ToSet(y.l)
    <3>1. <<u, z>> \in E
      BY <2>2, <1>1, Neighbours
    <3>2. PICK j \in 1..k + 1 : y.l[j] = u
      BY <3>1, <1>7
    <3> QED
      BY <3>2, <1>4 DEF ToSet
  <2> QED
    BY <2>1, <2>2, <1>4 DEF NoneRemaining
<1> HIDE DEF ready
<1>8. p \in Seq(ready) /\ \A i, j \in 1..Len(p) : p[i] = p[j] => i = j
  BY <1>6, Finite, SetAsSeqs
<1>9. \A z \in ready : \E i \in 1..Len(p) : p[i] = z
  BY <1>6, Finite, SetAsSeqs
<1>10. p \in Seq(V)
  BY <1>6, <1>8
<1>11. Front(x.s) \in Seq(V) /\ Len(Front(x.s)) = m /\ \A i \in 1..m : Front(x.s)[i] = x.s[i]
  BY <1>3 DEF Front
<1> HIDE DEF k, m, v
<1>12. y.s \in Seq(V) /\ Len(y.s) = m + Len(p) /\ \A i \in 1..m : y.s[i] = x.s[i]
  <2>1. y.s = Front(x.s) \o p
    BY <1>2
  <2> DEFINE f == Front(x.s)
  <2>2. f \in Seq(V) /\ Len(f) = m /\ (\A i \in 1..m : f[i] = x.s[i]) /\ y.s = f \o p
    BY <1>11, <2>1
  <2> HIDE DEF f
  <2>3. y.s \in Seq(V) /\ Len(y.s) = m + Len(p)
    BY <1>3, <1>10, <2>2, ConcatProperties
  <2>4. ASSUME NEW i \in 1..m PROVE y.s[i] = f[i]
    BY <1>3, <1>10, <2>2
  <2> QED
    BY <2>2, <2>3, <2>4
<1>13. ASSUME NEW i \in m + 1..Len(y.s)
       PROVE  i - m \in 1..Len(p) /\ y.s[i] = p[i - m] /\ y.s[i] \in ready
  <2>1. i - m \in 1..Len(p) /\ y.s[i] = p[i - m]
    BY <1>2, <1>3, <1>10, <1>11, <1>12
  <2>2. p[i - m] \in ready
    BY <2>1, <1>8
  <2> QED
    BY <2>1, <2>2
<1>14. \A i, j \in m + 1..Len(y.s) : y.s[i] = y.s[j] => i = j
  <2> SUFFICES ASSUME NEW i \in m + 1..Len(y.s), NEW j \in m + 1..Len(y.s), y.s[i] = y.s[j]
               PROVE  i = j
    OBVIOUS
  <2>1. i - m = j - m
    BY <1>8, <1>13
  <2> QED
    BY <2>1, <1>3, <1>12
<1>15. y \in Lists(V)
  BY <1>2, <1>4, <1>12 DEF Lists
<1>16. Len(y.s) >= m
  BY <1>3, <1>10, <1>12
<1>17. ASSUME NEW z \in ready PROVE \E i \in 1..Len(y.s) : y.s[i] = z
  <2>1. PICK i \in 1..Len(p) : p[i] = z
    BY <1>9
  <2>2. m + i \in m + 1..Len(y.s) /\ m + i \in 1..Len(y.s) /\ (m + i) - m = i
    BY <1>3, <1>10, <1>12
  <2>3. y.s[m + i] = p[(m + i) - m]
    BY <2>2, <1>13
  <2> QED
    BY <2>1, <2>2, <2>3
<1>18. ASSUME NEW z, <<v, z>> \in E, \A u : <<u, z>> \in E => \E j \in 1..k + 1 : y.l[j] = u
       PROVE  \E i \in 1..Len(y.s) : y.s[i] = z
  BY <1>7, <1>17, <1>18
<1> QED
  BY <1>4, <1>5, <1>12, <1>13, <1>14, <1>15, <1>16, <1>18 DEF k, m, v, Turned

LEMMA TurnSorted ==
    ASSUME NEW V \in SUBSET Res, NEW E \in SUBSET (V \X V), NEW x \in Lists(V), x.s # <<>>,
           NEW k \in Nat, Sorted(E, x, k), NEW y \in AfterTurn(E, x)
    PROVE  Sorted(E, y, k + 1)
<1> DEFINE v == x.s[Len(x.s)]
           m == Len(x.s) - 1
<1>1. /\ x.l \in Seq(V) /\ x.s \in Seq(V) /\ m \in Nat /\ Len(x.s) = m + 1 /\ Len(x.l) = k
  BY DEF Lists, Sorted
<1>2. /\ y \in Lists(V) /\ Len(y.l) = k + 1 /\ y.l[k + 1] = v
      /\ \A i \in 1..k : y.l[i] = x.l[i]
      /\ Len(y.s) >= m /\ \A i \in 1..m : y.s[i] = x.s[i]
      /\ \A i, j \in m + 1..Len(y.s) : y.s[i] = y.s[j] => i = j
      /\ \A i \in m + 1..Len(y.s) :
           /\ <<v, y.s[i]>> \in E
           /\ \A u : <<u, y.s[i]>> \in E => \E j \in 1..k + 1 : y.l[j] = u
  <2>1. Turned(V, E, x, y, v, Len(x.l), m)
    BY TurnElements
  <2> QED
    BY <2>1, <1>1 DEF Turned
<1>3. Len(y.s) \in Nat
  BY <1>2 DEF Lists
<1>4. /\ \A i, j \in 1..k : x.l[i] = x.l[j] => i = j
      /\ \A i, j \in 1..m + 1 : x.s[i] = x.s[j] => i = j
      /\ \A i \in 1..k, j \in 1..m + 1 : x.l[i] # x.s[j]
      /\ \A i \in 1..k : \A u : <<u, x.l[i]>> \in E => \E j \in 1..i - 1 : x.l[j] = u
      /\ \A i \in 1..m + 1 : \A u : <<u, x.s[i]>> \in E => \E j \in 1..k : x.l[j] = u
  BY <1>1 DEF Sorted
<1>5. v = x.s[m + 1] /\ m + 1 \in 1..m + 1
  BY <1>1
<1> HIDE DEF m, v
\* nothing that has to wait for v was listed or on the stack
<1>6. ASSUME NEW z, <<v, z>> \in E
      PROVE  (\A i \in 1..k : x.l[i] # z) /\ (\A i \in 1..m + 1 : x.s[i] # z)
  <2>1. \A j \in 1..k : x.l[j] # v
    BY <1>4, <1>5
  <2>2. ASSUME NEW i \in 1..k, x.l[i] = z PROVE FALSE
    <3>1. PICK j \in 1..i - 1 : x.l[j] = v
      BY <1>4, <1>6, <2>2
    <3>2. j \in 1..k
      OBVIOUS
    <3> QED
      BY <2>1, <3>1, <3>2
  <2>3. ASSUME NEW i \in 1..m + 1, x.s[i] = z PROVE FALSE
    BY <1>4, <1>6, <2>1, <2>3
  <2> QED
    BY <2>2, <2>3
<1>7. \A i, j \in 1..k + 1 : y.l[i] = y.l[j] => i = j
  <2> SUFFICES ASSUME NEW i \in 1..k + 1, NEW j \in 1..k + 1, i < j, y.l[i] = y.l[j] PROVE FALSE
    OBVIOUS
  <2>1. i \in 1..k /\ (j = k + 1 \/ j \in 1..k)
    OBVIOUS
  <2> QED
    BY <2>1, <1>2, <1>4, <1>5
<1>8. \A i, j \in 1..Len(y.s) : y.s[i] = y.s[j] => i = j
  <2> SUFFICES ASSUME NEW i \in 1..Len(y.s), NEW j \in 1..Len(y.s), i < j, y.s[i] = y.s[j] PROVE FALSE
    BY <1>3
  <2>1. CASE j \in 1..m
    <3>1. i \in 1..m /\ i \in 1..m + 1 /\ j \in 1..m + 1
      BY <2>1, <1>1
    <3> QED
      BY <2>1, <3>1, <1>2, <1>4
  <2>2. CASE i \in m + 1..Len(y.s)
    <3>1. j \in m + 1..Len(y.s)
      BY <2>2, <1>1, <1>3
    <3> QED
      BY <2>2, <3>1, <1>2
  <2>3. CASE i \in 1..m /\ j \in m + 1..Len(y.s)
    <3>1. i \in 1..m + 1 /\ y.s[i] = x.s[i] /\ <<v, y.s[j]>> \in E
      BY <2>3, <1>1, <1>2
    <3> QED
      BY <3>1, <1>6
  <2> QED
    BY <2>1, <2>2, <2>3, <1>1, <1>3
<1>9. ASSUME NEW i \in 1..k + 1, NEW j \in 1..Len(y.s) PROVE y.l[i] # y.s[j]
  <2>1. i = k + 1 \/ i \in 1..k
    OBVIOUS
  <2>2. CASE j \in 1..m
    <3>1. j \in 1..m + 1 /\ j # m + 1
      BY <2>2, <1>1
    <3> QED
      BY <2>1, <2>2, <3>1, <1>2, <1>4, <1>5
  <2>3. CASE j \in m + 1..Len(y.s)
    <3>1. <<v, y.s[j]>> \in E
      BY <2>3, <1>2
    <3> QED
      BY <2>1, <3>1, <1>2, <1>5, <1>6
  <2> QED
    BY <2>2, <2>3, <1>1, <1>3
<1>10. ASSUME NEW i \in 1..k + 1, NEW u, <<u, y.l[i]>> \in E
       PROVE  \E j \in 1..i - 1 : y.l[j] = u
  <2>1. CASE i \in 1..k
    <3>1. PICK j \in 1..i - 1 : x.l[j] = u
      BY <2>1, <1>2, <1>4, <1>10
    <3>2. j \in 1..k
      BY <2>1
    <3> QED
      BY <3>1, <3>2, <1>2
  <2>2. CASE i = k + 1
    <3>1. PICK j \in 1..k : x.l[j] = u
      BY <2>2, <1>2, <1>4, <1>5, <1>10
    <3> QED
      BY <3>1, <2>2, <1>2
  <2> QED
    BY <2>1, <2>2
<1>11. ASSUME NEW i \in 1..Len(y.s), NEW u, <<u, y.s[i]>> \in E
       PROVE  \E j \in 1..k + 1 : y.l[j] = u
  <2>1. CASE i \in 1..m
    <3>1. i \in 1..m + 1 /\ <<u, x.s[i]>> \in E
      <4>1. y.s[i] = x.s[i]
        BY <2>1, <1>2
      <4> QED
        BY <2>1, <4>1, <1>1, <1>11
    <3>2. PICK j \in 1..k : x.l[j] = u
      BY <3>1, <1>4
    <3>3. j \in 1..k + 1
      OBVIOUS
    <3> QED
      BY <3>2, <3>3, <1>2
  <2>2. CASE i \in m + 1..Len(y.s)
    BY <2>2, <1>2, <1>11
  <2> QED
    BY <2>1, <2>2, <1>1, <1>3
<1> QED
  BY <1>2, <1>7, <1>8, <1>9, <1>10, <1>11 DEF Sorted

FirstStacks(V, E) == {[l |-> <<>>, s |-> p] : p \in SetToSeqs(NoneRemaining(E, <<>>, V))}

LEMMA FirstSorted ==
    ASSUME NEW V \in SUBSET Res, NEW E \in SUBSET (V \X V), NEW x \in FirstStacks(V, E)
    PROVE  x \in Lists(V) /\ Sorted(E, x, 0)
<1> DEFINE C == NoneRemaining(E, <<>>, V)
<1>1. E \in Edges
  BY DEF Edges
<1>2. PICK p \in SetToSeqs(C) : x = [l |-> <<>>, s |-> p]
  BY DEF FirstStacks
<1>3. C \in SUBSET V /\ \A z \in C : \A u : <<u, z>> \notin E
  <2>1. ASSUME NEW z \in C, NEW u, <<u, z>> \in E PROVE FALSE
    <3>1. u \in ToSet(<<>>)
      BY <2>1, <1>1, Neighbours DEF NoneRemaining
    <3> QED
      BY <3>1 DEF ToSet
  <2> QED
    BY <2>1 DEF NoneRemaining
<1> HIDE DEF C
<1>4. p \in Seq(C) /\ \A i, j \in 1..Len(p) : p[i] = p[j] => i = j
  BY <1>3, Finite, SetAsSeqs
<1>5. p \in Seq(V) /\ <<>> \in Seq(V) /\ Len(<<>>) = 0
  BY <1>3, <1>4
<1>6. x.l = <<>> /\ x.s = p /\ x \in Lists(V)
  BY <1>2, <1>5 DEF Lists
<1>7. \A i \in 1..Len(p) : p[i] \in C
  BY <1>4
<1> QED
  BY <1>3, <1>4, <1>5, <1>6, <1>7 DEF Sorted

\* the recursion in Kahn, as equations
LEMMA KahnEquations ==
    ASSUME NEW V \in SUBSET Res, NEW E \in SUBSET (V \X V)
    PROVE  /\ Kahn(V, E)[0] = FirstStacks(V, E)
           /\ \A k \in 1..Cardinality(V) : Kahn(V, E)[k] = Turn(E, Kahn(V, E)[k - 1])
<1> DEFINE n == Cardinality(V)
           c == FirstStacks(V, E)
           Def(r) == [k \in 0..n |-> IF k = 0 THEN c ELSE Turn(E, r[k - 1])]
           S == SUBSET Lists(V)
           F == [k \in 1..n |-> [X \in S |-> Turn(E, X)]]
<1>1. n \in Nat
  BY Finite
<1>2. PICK r : r = (CHOOSE q : q = Def(q))
  OBVIOUS
<1>3. Kahn(V, E) = r
  BY <1>2 DEF Kahn, FirstStacks, Turn, AfterTurn
<1> HIDE DEF n
<1>4. \A X \in S : Turn(E, X) \in S
  <2> SUFFICES ASSUME NEW X \in S, NEW y, NEW x \in X, x.s # <<>>, y \in AfterTurn(E, x)
               PROVE  y \in Lists(V)
    BY DEF Turn
  <2>1. x \in Lists(V)
    OBVIOUS
  <2> QED
    BY <2>1, TurnElements DEF Turned
<1>5. c \in S
  BY FirstSorted
<1> HIDE DEF S, c
<1>6. Steps(F, S, 0, n) /\ \A k \in 1..n, X \in S : F[k][X] = Turn(E, X)
  BY <1>4 DEF Steps
<1> HIDE DEF F
<1>7. PICK g : Iterates(g, c, F, S, 0, n)
  BY <1>1, <1>5, <1>6, Iteration
<1>8. g \in [0..n -> S] /\ g[0] = c /\ \A k \in 1..n : g[k] = F[k][g[k - 1]]
  BY <1>7 DEF Iterates
<1>9. g = Def(g)
  <2>1. ASSUME NEW k \in 0..n PROVE g[k] = Def(g)[k]
    <3>1. CASE k = 0
      BY <3>1, <1>8
    <3>2. CASE k # 0
      <4>1. k \in 1..n /\ k - 1 \in 0..n
        BY <3>2, <1>1
      <4>2. g[k] = Turn(E, g[k - 1])
        BY <4>1, <1>6, <1>8
      <4> QED
        BY <3>2, <4>2
    <3> QED
      BY <3>1, <3>2
  <2> QED
    BY <2>1, <1>8
<1>10. r = Def(r)
  <2> HIDE DEF Def
  <2> QED
    BY <1>9, <1>2
<1>11. r[0] = c /\ \A k \in 1..n : r[k] = Turn(E, r[k - 1])
  <2>1. ASSUME NEW k \in 0..n PROVE r[k] = IF k = 0 THEN c ELSE Turn(E, r[k - 1])
    BY <1>10, Zenon
  <2> QED
    BY <2>1, <1>1
<1> QED
  BY <1>3, <1>11 DEF n, c

\* a list of n vertices that has each of them after what is before it
Listed(V, E, l, n) ==
    /\ l \in [1..n -> V] /\ \A i, j \in 1..n : l[i] = l[j] => i = j
    /\ \A i \in 1..n : \A u : <<u, l[i]>> \in E => \E j \in 1..i - 1 : l[j] = u

LEMMA ListedMeansAcyclic ==
    ASSUME NEW V \in SUBSET Res, NEW E \in SUBSET (V \X V), NEW l, Listed(V, E, l, Cardinality(V))
    PROVE  Acyclic(E)
<1> DEFINE n == Cardinality(V)
<1>1. E \in Edges /\ IsFiniteSet(V) /\ n \in Nat
  BY Finite DEF Edges
<1> HIDE DEF n
<1>2. /\ n = Cardinality(V) /\ l \in [1..n -> V] /\ \A i, j \in 1..n : l[i] = l[j] => i = j
      /\ \A i \in 1..n : \A u : <<u, l[i]>> \in E => \E j \in 1..i - 1 : l[j] = u
  BY DEF Listed, n
<1>3. ASSUME NEW z \in V PROVE \E i \in 1..n : l[i] = z
  BY <1>1, <1>2, InjectionCovers
<1>4. SUFFICES ASSUME NEW a \in Res, a \in Below(E, a)
               PROVE  FALSE
  BY DEF Acyclic
<1>5. a \in V
  <2>1. Below(E, a) \subseteq V
    BY <1>1, BelowLeast DEF Closed
  <2> QED
    BY <2>1, <1>4
<1>6. PICK i \in 1..n : l[i] = a
  BY <1>3, <1>5
<1> DEFINE X == {l[j] : j \in i + 1..n}
\* what is below something at place k comes later
<1>7. ASSUME NEW k \in 1..n, NEW y, <<l[k], y>> \in E PROVE \E j \in k + 1..n : l[j] = y
  <2>1. PICK j \in 1..n : l[j] = y
    BY <1>3, <1>7
  <2>2. PICK h \in 1..j - 1 : l[h] = l[k]
    BY <1>7, <1>2, <2>1
  <2>3. h = k
    <3>1. h \in 1..n
      BY <1>1
    <3> QED
      BY <2>2, <3>1, <1>2
  <2>4. j \in k + 1..n
    BY <2>3, <1>1
  <2> QED
    BY <2>1, <2>4
<1>8. \A y : <<a, y>> \in E => y \in X
  BY <1>6, <1>7
<1>9. ASSUME NEW x \in X, NEW y, <<x, y>> \in E PROVE y \in X
  <2>1. PICK k \in i + 1..n : l[k] = x
    BY <1>9
  <2>2. k \in 1..n
    OBVIOUS
  <2>3. PICK j \in k + 1..n : l[j] = y
    BY <1>7, <1>9, <2>1, <2>2
  <2>4. j \in i + 1..n
    OBVIOUS
  <2> QED
    BY <2>3, <2>4
<1>10. a \in X
  <2> HIDE DEF X
  <2>1. Below(E, a) \subseteq X
    BY <1>1, <1>8, <1>9, BelowLeast DEF Closed
  <2> QED
    BY <2>1, <1>4
<1>11. PICK j \in i + 1..n : l[j] = l[i]
  BY <1>6, <1>10
<1> QED
  BY <1>11, <1>1, <1>2

\* The order that TopologicalSort returns, if it returns one, shows that there is no
\* cycle: the check of the main loop, and the one at the end of AutoGroup, are sound.
THEOREM SortMeansDag ==
    ASSUME NEW V \in SUBSET Res, NEW E \in SUBSET (V \X V), TopologicalSort(V, E) # {}
    PROVE  IsDag(V, E)
<1> DEFINE n == Cardinality(V)
           t == Kahn(V, E)
           T == {k \in 0..n : \A x \in t[k] : x \in Lists(V) /\ Sorted(E, x, k)}
<1>1. n \in Nat
  BY Finite
<1>2. t[0] = FirstStacks(V, E) /\ \A k \in 1..n : t[k] = Turn(E, t[k - 1])
  BY KahnEquations
<1>3. PICK x \in t[n] : TRUE
  BY DEF TopologicalSort
<1> HIDE DEF n, t
<1>4. 0 \in T
  BY <1>1, <1>2, FirstSorted
<1>5. ASSUME NEW k \in 0 + 1..n, k - 1 \in T PROVE k \in T
  <2>1. SUFFICES ASSUME NEW y \in t[k] PROVE y \in Lists(V) /\ Sorted(E, y, k)
    BY <1>1
  <2>2. PICK z \in t[k - 1] : z.s # <<>> /\ y \in AfterTurn(E, z)
    BY <1>2 DEF Turn
  <2>3. z \in Lists(V) /\ Sorted(E, z, k - 1) /\ k - 1 \in Nat /\ (k - 1) + 1 = k
    BY <1>5, <2>2
  <2>4. y \in Lists(V)
    BY <2>2, <2>3, TurnElements DEF Turned
  <2>5. Sorted(E, y, (k - 1) + 1)
    BY <2>2, <2>3, TurnSorted
  <2> QED
    BY <2>3, <2>4, <2>5
<1>6. n \in T
  <2> HIDE DEF T
  <2>1. 0..n \subseteq T
    BY <1>1, <1>4, <1>5, Counting
  <2> QED
    BY <2>1, <1>1
<1>7. x \in Lists(V) /\ Sorted(E, x, n)
  BY <1>3, <1>6
<1>8. Listed(V, E, x.l, n)
  BY <1>1, <1>7 DEF Lists, Sorted, Listed
<1>9. Acyclic(E)
  BY <1>8, ListedMeansAcyclic DEF n
<1> QED
  BY <1>9, DagIsAcyclic

\* something without anything before it, if there is no cycle
LEMMA FirstOne ==
    ASSUME NEW E \in Edges, Acyclic(E), NEW R \in SUBSET Res, R # {}
    PROVE  \E z \in R : \A u \in R : <<u, z>> \notin E
<1> SUFFICES ASSUME \A z \in R : \E u \in R : <<u, z>> \in E
             PROVE  FALSE
  OBVIOUS
<1> DEFINE B(z) == Below(E, z)
           c(z) == Cardinality(Res) - Cardinality(B(z))
           T == {c(z) : z \in R}
<1>1. \A z \in R : B(z) \in SUBSET Res
  BY DEF Below
<1>2. IsFiniteSet(Res) /\ Cardinality(Res) \in Nat
  BY Finite
<1>3. ASSUME NEW z \in R
      PROVE  Cardinality(B(z)) \in Nat /\ Cardinality(B(z)) <= Cardinality(Res) /\ IsFiniteSet(B(z))
  <2>1. B(z) \in SUBSET Res
    BY <1>1
  <2> HIDE DEF B
  <2> QED
    BY <2>1, <1>2, FS_Subset, FS_CardinalityType
<1>4. T \in SUBSET Nat /\ T # {}
  <2>1. \A z \in R : c(z) \in Nat
    <3> HIDE DEF B
    <3> QED
      BY <1>2, <1>3
  <2> HIDE DEF c
  <2> QED
    BY <2>1
<1>5. PICK n \in T : \A m \in T : n <= m
  <2> HIDE DEF T
  <2> QED
    BY <1>4, LeastNumber
<1>6. PICK z \in R : \A u \in R : c(z) <= c(u)
  <2> HIDE DEF c
  <2> QED
    BY <1>5
<1>7. PICK u \in R : <<u, z>> \in E
  OBVIOUS
<1>8. z \in B(u) /\ z \notin B(z) /\ B(z) \subseteq B(u)
  <2>1. z \in B(u)
    BY <1>7, BelowStarts
  <2>2. B(z) \subseteq B(u)
    BY <2>1, BelowTransitive
  <2> QED
    BY <2>1, <2>2 DEF Acyclic
<1> HIDE DEF B
<1>9. Cardinality(B(z)) # Cardinality(B(u)) /\ Cardinality(B(z)) <= Cardinality(B(u))
  BY <1>3, <1>8, FS_Subset
<1> QED
  BY <1>2, <1>3, <1>6, <1>9

\* whatever waits for nothing more is listed or on the stack
Found(V, E, x, k) ==
    \A z \in V : (\A u : <<u, z>> \in E => \E j \in 1..k : x.l[j] = u)
                 => (\E j \in 1..k : x.l[j] = z) \/ (\E j \in 1..Len(x.s) : x.s[j] = z)

LEMMA AnyOrder ==
    ASSUME NEW C, IsFiniteSet(C)
    PROVE  SetToSeqs(C) # {}
<1> DEFINE n == Cardinality(C)
<1>1. PICK f : f \in Bijection(1..n, C)
  BY FS_CardinalityType DEF ExistsBijection
<1>2. f \in [1..n -> C] /\ \A i, j \in 1..n : f[i] = f[j] => i = j
  BY <1>1 DEF Bijection, Injection, IsInjective
<1>3. f \in SetToSeqs(C)
  BY <1>2 DEF SetToSeqs
<1> QED
  BY <1>3

LEMMA FirstFound ==
    ASSUME NEW V \in SUBSET Res, NEW E \in SUBSET (V \X V)
    PROVE  FirstStacks(V, E) # {} /\ \A x \in FirstStacks(V, E) : Found(V, E, x, 0)
<1> DEFINE C == NoneRemaining(E, <<>>, V)
<1>1. E \in Edges
  BY DEF Edges
<1>2. C \in SUBSET V /\ \A z \in V : (\A u : <<u, z>> \notin E) => z \in C
  BY <1>1, Neighbours DEF NoneRemaining
<1> HIDE DEF C
<1>3. IsFiniteSet(C)
  BY <1>2, Finite
<1>4. SetToSeqs(C) # {}
  BY <1>3, AnyOrder
<1>5. ASSUME NEW x \in FirstStacks(V, E) PROVE Found(V, E, x, 0)
  <2>1. PICK p \in SetToSeqs(C) : x = [l |-> <<>>, s |-> p]
    BY DEF FirstStacks, C
  <2>2. \A z \in C : \E i \in 1..Len(p) : p[i] = z
    BY <1>3, SetAsSeqs
  <2>3. x.s = p
    BY <2>1
  <2>4. 1..0 = {}
    OBVIOUS
  <2> QED
    BY <1>2, <2>2, <2>3, <2>4 DEF Found
<1> QED
  BY <1>4, <1>5 DEF FirstStacks, C

LEMMA TurnFound ==
    ASSUME NEW V \in SUBSET Res, NEW E \in SUBSET (V \X V), NEW x \in Lists(V), x.s # <<>>,
           NEW k \in Nat, Sorted(E, x, k), Found(V, E, x, k), NEW y \in AfterTurn(E, x)
    PROVE  Found(V, E, y, k + 1)
<1> DEFINE v == x.s[Len(x.s)]
           m == Len(x.s) - 1
<1>1. /\ x.l \in Seq(V) /\ x.s \in Seq(V) /\ m \in Nat /\ Len(x.s) = m + 1 /\ Len(x.l) = k /\ v = x.s[m + 1]
  BY DEF Lists, Sorted
<1>2. Turned(V, E, x, y, v, k, m)
  BY <1>1, TurnElements
<1> HIDE DEF v, m
<1>3. /\ y.l[k + 1] = v /\ \A i \in 1..k : y.l[i] = x.l[i]
      /\ Len(y.s) >= m /\ \A i \in 1..m : y.s[i] = x.s[i]
      /\ \A z : <<v, z>> \in E /\ (\A u : <<u, z>> \in E => \E j \in 1..k + 1 : y.l[j] = u)
                => \E i \in 1..Len(y.s) : y.s[i] = z
  BY <1>2 DEF Turned
<1>4. Len(y.s) \in Nat
  BY <1>2 DEF Turned, Lists
<1>5. SUFFICES ASSUME NEW z \in V, \A u : <<u, z>> \in E => \E j \in 1..k + 1 : y.l[j] = u
               PROVE  (\E j \in 1..k + 1 : y.l[j] = z) \/ (\E j \in 1..Len(y.s) : y.s[j] = z)
  BY DEF Found
<1>6. CASE <<v, z>> \in E
  BY <1>3, <1>5, <1>6
<1>7. CASE <<v, z>> \notin E
  <2>1. ASSUME NEW u, <<u, z>> \in E PROVE \E j \in 1..k : x.l[j] = u
    <3>1. PICK j \in 1..k + 1 : y.l[j] = u
      BY <1>5, <2>1
    <3>2. j # k + 1
      BY <3>1, <2>1, <1>3, <1>7
    <3>3. j \in 1..k
      BY <3>2
    <3> QED
      BY <3>1, <3>3, <1>3
  <2>2. (\E j \in 1..k : x.l[j] = z) \/ (\E j \in 1..m + 1 : x.s[j] = z)
    BY <2>1, <1>1 DEF Found
  <2>3. ASSUME NEW j \in 1..k, x.l[j] = z PROVE j \in 1..k + 1 /\ y.l[j] = z
    BY <2>3, <1>3
  <2>4. ASSUME NEW j \in 1..m, x.s[j] = z PROVE j \in 1..Len(y.s) /\ y.s[j] = z
    BY <2>4, <1>1, <1>3, <1>4
  <2>5. ASSUME x.s[m + 1] = z PROVE k + 1 \in 1..k + 1 /\ y.l[k + 1] = z
    BY <2>5, <1>1, <1>3
  <2>6. \A j \in 1..m + 1 : j \in 1..m \/ j = m + 1
    BY <1>1
  <2> QED
    BY <2>2, <2>3, <2>4, <2>5, <2>6
<1> QED
  BY <1>6, <1>7

\* in a DAG the stack is empty only when all is listed
LEMMA NotStuck ==
    ASSUME NEW V \in SUBSET Res, NEW E \in SUBSET (V \X V), Acyclic(E), NEW x \in Lists(V), NEW k \in Nat,
           k < Cardinality(V), Sorted(E, x, k), Found(V, E, x, k)
    PROVE  x.s # <<>> /\ AfterTurn(E, x) # {}
<1> DEFINE L == {x.l[j] : j \in 1..k}
           R == V \ L
<1>1. E \in Edges /\ x.l \in Seq(V) /\ Len(x.l) = k /\ x.s \in Seq(V)
  BY DEF Edges, Lists, Sorted
<1>2. L \in SUBSET V
  BY <1>1
<1>3. Cardinality(L) = k
  <2>1. \A i, j \in 1..k : x.l[i] = x.l[j] => i = j
    BY DEF Sorted
  <2> DEFINE f == [j \in 1..k |-> x.l[j]]
  <2>2. f \in Bijection(1..k, L)
    BY <2>1 DEF Bijection, Injection, Surjection, IsInjective
  <2> HIDE DEF L, f
  <2> QED
    BY <2>2, FS_CountingElements DEF ExistsBijection
<1>4. R # {}
  <2> HIDE DEF L
  <2>1. L # V
    BY <1>3, Finite
  <2> QED
    BY <2>1, <1>2
<1>5. R \in SUBSET Res
  OBVIOUS
<1>6. PICK z \in R : \A u \in R : <<u, z>> \notin E
  <2> HIDE DEF R
  <2> QED
    BY <1>1, <1>4, <1>5, FirstOne
<1>7. ASSUME NEW u, <<u, z>> \in E PROVE \E j \in 1..k : x.l[j] = u
  <2>1. u \in V /\ u \notin R
    BY <1>6, <1>7
  <2> QED
    BY <2>1
<1>8. PICK j \in 1..Len(x.s) : x.s[j] = z
  <2>1. z \in V /\ ~\E j \in 1..k : x.l[j] = z
    OBVIOUS
  <2> HIDE DEF R, L
  <2> QED
    BY <2>1, <1>7 DEF Found
<1>9. x.s # <<>>
  BY <1>1, <1>8
<1>10. AfterTurn(E, x) # {}
  <2> DEFINE v == Last(x.s)
             l == Append(x.l, v)
             ready == NoneRemaining(E, l, OutgoingGraphVertices(E, v))
  <2>1. AfterTurn(E, x) = {[l |-> l, s |-> Front(x.s) \o p] : p \in SetToSeqs(ready)}
    BY DEF AfterTurn
  <2>2. ready \in SUBSET V
    BY DEF NoneRemaining, OutgoingGraphVertices
  <2> HIDE DEF ready, l
  <2>3. SetToSeqs(ready) # {}
    BY <2>2, Finite, AnyOrder
  <2> QED
    BY <2>1, <2>3
<1> QED
  BY <1>9, <1>10

\* TopologicalSort finds an order for every DAG: its stack does not run empty before
\* each vertex is listed, in whatever order the maps are walked.
THEOREM DagIsSorted ==
    ASSUME NEW V \in SUBSET Res, NEW E \in SUBSET (V \X V), IsDag(V, E)
    PROVE  TopologicalSort(V, E) # {}
<1> DEFINE n == Cardinality(V)
           t == Kahn(V, E)
           Good(x, k) == x \in Lists(V) /\ Sorted(E, x, k) /\ Found(V, E, x, k)
           T == {k \in 0..n : t[k] # {} /\ \A x \in t[k] : Good(x, k)}
<1>1. n \in Nat
  BY Finite
<1>2. t[0] = FirstStacks(V, E) /\ \A k \in 1..n : t[k] = Turn(E, t[k - 1])
  BY KahnEquations
<1>3. Acyclic(E)
  BY DagIsAcyclic
<1> HIDE DEF t
<1>4. 0 \in T
  <2>1. t[0] # {} /\ \A x \in t[0] : Good(x, 0)
    BY <1>2, FirstSorted, FirstFound
  <2> HIDE DEF Good
  <2> QED
    BY <2>1, <1>1
<1>5. ASSUME NEW k \in 0 + 1..n, k - 1 \in T PROVE k \in T
  <2>1. k \in 0..n /\ k \in 1..n /\ k - 1 \in Nat /\ k - 1 < n /\ (k - 1) + 1 = k
    BY <1>1
  <2>2. t[k - 1] # {} /\ \A x \in t[k - 1] : Good(x, k - 1)
    <3> HIDE DEF Good
    <3> QED
      BY <1>5
  <2>3. ASSUME NEW x \in t[k - 1] PROVE x.s # <<>> /\ AfterTurn(E, x) # {}
    BY <2>1, <2>2, <1>3, NotStuck
  <2>4. t[k] # {}
    <3>1. t[k] = Turn(E, t[k - 1])
      BY <2>1, <1>2
    <3>2. PICK x \in t[k - 1] : x.s # <<>> /\ AfterTurn(E, x) # {}
      BY <2>2, <2>3
    <3>3. AfterTurn(E, x) \subseteq Turn(E, t[k - 1])
      BY <3>2 DEF Turn
    <3> QED
      BY <3>1, <3>2, <3>3
  <2>5. ASSUME NEW y \in t[k] PROVE Good(y, k)
    <3>1. PICK z \in t[k - 1] : z.s # <<>> /\ y \in AfterTurn(E, z)
      BY <2>1, <1>2 DEF Turn
    <3>2. Good(z, k - 1)
      BY <2>2
    <3>3. y \in Lists(V)
      BY <3>1, <3>2, TurnElements DEF Turned
    <3>4. Sorted(E, y, (k - 1) + 1) /\ Found(V, E, y, (k - 1) + 1)
      BY <2>1, <3>1, <3>2, TurnSorted, TurnFound
    <3> QED
      BY <2>1, <3>3, <3>4
  <2> HIDE DEF Good
  <2> QED
    BY <2>1, <2>4, <2>5
<1>6. n \in T
  <2> HIDE DEF T, n
  <2>1. 0..n \subseteq T
    BY <1>1, <1>4, <1>5, Counting
  <2> QED
    BY <2>1, <1>1
<1>7. t[n] # {}
  <2> HIDE DEF Good
  <2> QED
    BY <1>6
<1> QED
  BY <1>7 DEF TopologicalSort, t

(***************************************************************************)
(* The graph in which w is v                                               *)
(***************************************************************************)

Onto(v, w) == [x \in Res |-> IF x = w THEN v ELSE x]
Image(h, E) == {<<h[e[1]], h[e[2]]>> : e \in E}

LEMMA OntoType ==
    ASSUME NEW v \in Res, NEW w \in Res
    PROVE  /\ Onto(v, w) \in [Res -> Res] /\ Onto(v, w)[w] = v
           /\ \A x \in Res : x # w => Onto(v, w)[x] = x
BY DEF Onto

LEMMA ImageEdges ==
    ASSUME NEW h \in [Res -> Res], NEW E \in Edges
    PROVE  /\ Image(h, E) \in Edges
           /\ \A x, y : <<x, y>> \in E => x \in Res /\ y \in Res /\ <<h[x], h[y]>> \in Image(h, E)
           /\ \A c, d : <<c, d>> \in Image(h, E) =>
                \E e \in E : c = h[e[1]] /\ d = h[e[2]] /\ e = <<e[1], e[2]>>
<1>1. Image(h, E) \in Edges
  BY DEF Image, Edges
<1>2. ASSUME NEW x, NEW y, <<x, y>> \in E PROVE x \in Res /\ y \in Res /\ <<h[x], h[y]>> \in Image(h, E)
  BY <1>2 DEF Image, Edges
<1>3. ASSUME NEW c, NEW d, <<c, d>> \in Image(h, E)
      PROVE  \E e \in E : c = h[e[1]] /\ d = h[e[2]] /\ e = <<e[1], e[2]>>
  BY <1>3 DEF Image, Edges
<1> QED
  BY <1>1, <1>2, <1>3

LEMMA ImageBelow ==
    ASSUME NEW h \in [Res -> Res], NEW E \in Edges, NEW a \in Res, NEW b \in Below(E, a)
    PROVE  h[b] \in Below(Image(h, E), h[a])
<1>1. Image(h, E) \in Edges
  BY ImageEdges
<1>2. \A x, y : <<x, y>> \in E => h[y] \in Below(Image(h, E), h[x])
  BY <1>1, ImageEdges, BelowStarts
<1> QED
  BY <1>1, <1>2, BelowMaps

LEMMA ImageGrows ==
    ASSUME NEW h \in [Res -> Res], NEW F \in Edges, NEW E, E \subseteq F
    PROVE  Image(h, E) \subseteq Image(h, F)
BY DEF Image

\* a cycle stays one
LEMMA ImageCyclic ==
    ASSUME NEW h \in [Res -> Res], NEW E \in Edges, Acyclic(Image(h, E))
    PROVE  Acyclic(E)
<1> SUFFICES ASSUME NEW a \in Res, a \in Below(E, a) PROVE FALSE
  BY DEF Acyclic
<1>1. h[a] \in Below(Image(h, E), h[a]) /\ h[a] \in Res
  BY ImageBelow
<1> QED
  BY <1>1 DEF Acyclic

\* what is below a vertex is in order with it
LEMMA BelowType ==
    ASSUME NEW E \in Edges, NEW a
    PROVE  Below(E, a) \subseteq Res
BY DEF Below

\* to identify two vertices of a DAG neither of which is below the other closes no cycle
LEMMA QuotientAcyclic ==
    ASSUME NEW E \in Edges, Acyclic(E), NEW v \in Res, NEW w \in Res, v # w,
           w \notin Below(E, v), v \notin Below(E, w)
    PROVE  Acyclic(Image(Onto(v, w), E))
<1> DEFINE f == Onto(v, w)
           Q == Image(f, E)
           D(x) == Below(E, x)
           Both == D(v) \cup D(w)
<1>1. f \in [Res -> Res] /\ f[w] = v /\ f[v] = v /\ \A x \in Res : x # w => f[x] = x
  BY OntoType
<1>2. /\ Q \in Edges
      /\ \A x, y : <<x, y>> \in E => x \in Res /\ y \in Res
  BY <1>1, ImageEdges
<1>3. \A c, d : <<c, d>> \in Q => \E e \in E : c = f[e[1]] /\ d = f[e[2]] /\ e = <<e[1], e[2]>>
  BY DEF Image, Edges
<1>4. /\ \A x, y : <<x, y>> \in E => y \in D(x)
      /\ \A x, y, z : <<y, z>> \in E /\ y \in D(x) => z \in D(x)
      /\ \A x, y, z : y \in D(x) /\ z \in D(y) => z \in D(x)
      /\ \A x \in Res : x \notin D(x)
      /\ \A x : D(x) \subseteq Res
      /\ w \notin D(v) /\ v \notin D(w)
  BY BelowStarts, BelowGoesOn, BelowTransitive, BelowType DEF Acyclic
<1> HIDE DEF f, Q, D
<1> SUFFICES ASSUME NEW a \in Res, a \in Below(Q, a) PROVE FALSE
  BY DEF Acyclic, Q, f
<1> DEFINE R == IF a = v THEN Both ELSE D(a)
           X == {f[y] : y \in R} \cup (IF v \in {f[y] : y \in R} THEN {f[y] : y \in Both} ELSE {})
<1>5. a # w
  <2>1. CASE a = w
    <3>1. ASSUME NEW d, <<w, d>> \in Q PROVE FALSE
      <4>1. PICK e \in E : w = f[e[1]] /\ e = <<e[1], e[2]>>
        BY <1>3, <3>1
      <4> QED
        BY <4>1, <1>1, <1>2
    <3>2. Closed(Q, {}) /\ \A y : <<w, y>> \in Q => y \in {}
      BY <3>1 DEF Closed
    <3>3. Below(Q, w) \subseteq {}
      BY <3>2, <1>2, BelowLeast
    <3> QED
      BY <2>1, <3>3
  <2> QED
    BY <2>1
<1>6. /\ \A y, z : <<y, z>> \in E /\ y \in Both => z \in Both
      /\ \A y, z : <<y, z>> \in E /\ y \in R => z \in R
      /\ \A y, z : <<y, z>> \in E /\ y \in {v, w} => z \in Both
      /\ R \subseteq Res /\ Both \subseteq Res
  BY <1>4
<1>7. ASSUME NEW d, <<a, d>> \in Q PROVE d \in X
  <2>0. PICK e \in E : a = f[e[1]] /\ d = f[e[2]] /\ e = <<e[1], e[2]>>
    BY <1>3, <1>7
  <2> DEFINE x == e[1]
             z == e[2]
  <2>1. <<x, z>> \in E /\ a = f[x] /\ d = f[z]
    BY <2>0
  <2> HIDE DEF x, z
  <2>2. x = a \/ (x = w /\ a = v)
    BY <2>1, <1>1, <1>2
  <2>3. z \in R
    BY <2>1, <2>2, <1>4
  <2> QED
    BY <2>1, <2>3
<1>8. ASSUME NEW c, NEW d, <<c, d>> \in Q, c \in X PROVE d \in X
  <2>0. PICK e \in E : c = f[e[1]] /\ d = f[e[2]] /\ e = <<e[1], e[2]>>
    BY <1>3, <1>8
  <2> DEFINE x == e[1]
             z == e[2]
  <2>1. <<x, z>> \in E /\ c = f[x] /\ d = f[z] /\ x \in Res
    BY <2>0, <1>2
  <2> HIDE DEF x, z
  <2>2. PICK y \in Res : /\ c = f[y]
                         /\ y \in R \/ (y \in Both /\ v \in {f[s] : s \in R})
    BY <1>6, <1>8
  <2>3. CASE x = y
    <3>1. z \in R \/ (z \in Both /\ v \in {f[s] : s \in R})
      BY <2>1, <2>2, <2>3, <1>6
    <3> HIDE DEF R, Both
    <3> QED
      BY <2>1, <3>1
  <2>4. CASE x # y
    <3>1. x \in {v, w} /\ f[y] = v
      BY <2>1, <2>2, <2>4, <1>1
    <3>2. z \in Both /\ v \in {f[s] : s \in R}
      <4>1. z \in Both
        BY <3>1, <2>1, <1>6
      <4> HIDE DEF R, Both
      <4> QED
        BY <4>1, <3>1, <2>2
    <3> HIDE DEF R, Both
    <3> QED
      BY <2>1, <3>2
  <2> QED
    BY <2>3, <2>4
<1>9. a \in X
  <2> HIDE DEF X
  <2>1. Below(Q, a) \subseteq X
    BY <1>2, <1>7, <1>8, BelowLeast DEF Closed
  <2> QED
    BY <2>1
<1>10. v \notin Both /\ w \notin Both
  BY <1>4
<1>11. CASE a = v
  <2>1. PICK y \in Both : v = f[y] /\ y \in Res
    BY <1>6, <1>9, <1>11
  <2> QED
    BY <2>1, <1>1, <1>10
<1>12. CASE a # v
  <2>1. \A y \in Res : a = f[y] => y = a
    BY <1>1, <1>5, <1>12
  <2>2. a \notin {f[y] : y \in R}
    <3>1. a \notin R
      BY <1>4, <1>12
    <3> HIDE DEF R
    <3> QED
      BY <2>1, <3>1, <1>6
  <2>3. v \in {f[y] : y \in R} /\ a \in {f[y] : y \in Both}
    <3> HIDE DEF R, Both
    <3> QED
      BY <1>9, <2>2
  <2>4. a \in Both
    BY <2>1, <2>3, <1>6
  <2>5. PICK y \in D(a) : f[y] = v /\ y \in Res
    BY <2>3, <1>6, <1>12
  <2>6. y \in {v, w}
    BY <2>5, <1>1
  <2> QED
    BY <2>4, <2>5, <2>6, <1>4, <1>10
<1> QED
  BY <1>11, <1>12

(***************************************************************************)
(* To move an edge from w to v                                             *)
(***************************************************************************)

Graphs == {g \in [es : SUBSET (vs \X vs), notify : SUBSET (vs \X vs)] : g.notify \subseteq g.es}

\* h is g with an edge from a to b in the place of e, or with a path that stands for it
Replaced(g, h, e, a, b) ==
    /\ g.es \ {e} \subseteq h.es /\ h.es \subseteq (g.es \cup {<<a, b>>}) \ {e}
    /\ g.notify \ {e} \subseteq h.notify
    /\ \/ <<a, b>> \in h.es /\ (e \in g.notify => <<a, b>> \in h.notify)
       \/ /\ h.es = g.es \ {e}
          /\ \E p \in Seq(Res) :
               /\ Len(p) >= 2 /\ p[1] = a /\ p[Len(p)] = b /\ Along(p) \subseteq g.es
               /\ e \in g.notify => Along(p) \ {e} \subseteq h.notify

LEMMA MoveReplaces ==
    ASSUME vs \in SUBSET Res, NEW g \in Graphs, NEW v \in vs, NEW w \in vs, v # w,
           NEW e \in vs \X vs, e[1] = w \/ e[2] = w, NEW h \in Move(g, e, v, w)
    PROVE  h \in Graphs /\ Replaced(g, h, e, Onto(v, w)[e[1]], Onto(v, w)[e[2]])
<1> DEFINE a == IF e[1] = w THEN v ELSE e[1]
           b == IF e[2] = w THEN v ELSE e[2]
           n == e \in g.notify
<1>1. a \in vs /\ b \in vs /\ a = Onto(v, w)[e[1]] /\ b = Onto(v, w)[e[2]]
  BY DEF Onto
<1>2. a # w /\ b # w /\ <<a, b>> # e
  OBVIOUS
<1>3. PICK k \in Reattach(g, a, b, n) : h = Without(k, e)
  BY DEF Move
<1>4. g.es \in SUBSET (vs \X vs) /\ g.notify \subseteq g.es
  BY DEF Graphs
<1>5. h = [es |-> k.es \ {e}, notify |-> k.notify \ {e}]
  BY <1>3 DEF Without
<1> HIDE DEF a, b
<1>6. CASE bfsShortestPath(vs, g.es, a, b) = {}
  <2>1. k = [es |-> g.es \cup {<<a, b>>}, notify |-> IF n THEN g.notify \cup {<<a, b>>} ELSE g.notify]
    BY <1>3, <1>6 DEF Reattach
  <2>2. /\ h.es = (g.es \cup {<<a, b>>}) \ {e}
        /\ h.notify = (IF n THEN g.notify \cup {<<a, b>>} ELSE g.notify) \ {e}
        /\ h = [es |-> h.es, notify |-> h.notify]
    BY <1>5, <2>1
  <2>3. <<a, b>> \in vs \X vs
    BY <1>1
  <2>4. h \in Graphs
    BY <1>4, <2>2, <2>3 DEF Graphs
  <2>5. Replaced(g, h, e, a, b)
    BY <1>2, <1>4, <2>2 DEF Replaced
  <2> QED
    BY <1>1, <2>4, <2>5
<1>7. CASE bfsShortestPath(vs, g.es, a, b) # {}
  <2>1. PICK p \in bfsShortestPath(vs, g.es, a, b) :
          k = [es |-> g.es,
               notify |-> {d \in g.es : IF d \in Along(p) THEN EdgeMerge(d \in g.notify, n)
                                        ELSE d \in g.notify}]
    BY <1>3, <1>7 DEF Reattach
  <2>2. /\ h.es = g.es \ {e}
        /\ h.notify = {d \in g.es : IF d \in Along(p) THEN d \in g.notify \/ n ELSE d \in g.notify} \ {e}
        /\ h = [es |-> h.es, notify |-> h.notify]
    BY <1>5, <2>1 DEF EdgeMerge
  <2>3. p \in Seq(vs) /\ Len(p) >= 2 /\ p[1] = a /\ p[Len(p)] = b /\ Along(p) \subseteq g.es
    <3>1. vs \in SUBSET Res /\ g.es \in SUBSET (vs \X vs) /\ a \in vs
      BY <1>1, <1>4
    <3> QED
      BY <3>1, ShortestPath, Zenon
  <2>4. h \in Graphs
    BY <1>4, <2>2 DEF Graphs
  <2>5. n => Along(p) \ {e} \subseteq h.notify
    BY <2>2, <2>3
  <2>6. g.notify \ {e} \subseteq h.notify
    BY <2>2, <1>4
  <2>7. p \in Seq(Res)
    BY <2>3
  <2>8. Replaced(g, h, e, a, b)
    BY <2>2, <2>3, <2>5, <2>6, <2>7 DEF Replaced
  <2> QED
    BY <1>1, <2>4, <2>8
<1> QED
  BY <1>6, <1>7

\* The step in the graph where w is v: it adds nothing, and either everything stays in
\* order or there is a cycle at v.  If there is none, the notifications arrive too.
LEMMA ReplacedKeeps ==
    ASSUME NEW g, NEW h, g.es \in Edges, h.es \in Edges, g.notify \subseteq g.es, h.notify \in Edges,
           NEW v \in Res, NEW w \in Res, v # w, NEW f, f = Onto(v, w), NEW e \in g.es,
           e[1] = w \/ e[2] = w, f[e[1]] # f[e[2]], Replaced(g, h, e, f[e[1]], f[e[2]])
    PROVE  /\ Image(f, h.es) \subseteq Image(f, g.es)
           /\ \/ v \in Below(Image(f, h.es), v)
              \/ \A c, d : <<c, d>> \in Image(f, g.es) => d \in Below(Image(f, h.es), c)
           /\ Acyclic(Image(f, g.es)) =>
                \A c, d : <<c, d>> \in Image(f, g.notify) => d \in Below(Image(f, h.notify), c)
<1> DEFINE x == e[1]
           y == e[2]
           a == f[x]
           b == f[y]
           F == g.es \ {e}
           I == Image(f, g.es)
           J == Image(f, h.es)
           M == Image(f, h.notify)
<1>1. /\ e = <<x, y>> /\ x \in Res /\ y \in Res /\ a \in Res /\ b \in Res /\ F \in Edges
      /\ g.notify \in Edges
  BY OntoType DEF Edges
<1>2. f \in [Res -> Res] /\ f[w] = v /\ f[v] = v /\ \A z \in Res : z # w => f[z] = z
  BY OntoType
<1>3. a # w /\ b # w /\ f[a] = a /\ f[b] = b
  BY <1>1, <1>2
<1>4. \/ x = w /\ a = v /\ y # w /\ y # v /\ b = y
      \/ y = w /\ b = v /\ x # w /\ x # v /\ a = x
  BY <1>1, <1>2
<1>5. I \in Edges /\ J \in Edges /\ M \in Edges /\ <<a, b>> \in I
  BY <1>1, <1>2, ImageEdges
<1>6. /\ F \subseteq h.es /\ h.es \subseteq (g.es \cup {<<a, b>>}) \ {e}
      /\ g.notify \ {e} \subseteq h.notify
      /\ \/ <<a, b>> \in h.es /\ (e \in g.notify => <<a, b>> \in h.notify)
         \/ /\ h.es = F
            /\ \E p \in Seq(Res) :
                 /\ Len(p) >= 2 /\ p[1] = a /\ p[Len(p)] = b /\ Along(p) \subseteq g.es
                 /\ e \in g.notify => Along(p) \ {e} \subseteq h.notify
  BY DEF Replaced
<1> HIDE DEF x, y, a, b, F
<1>7. J \subseteq I
  <2>1. \A d \in h.es : <<f[d[1]], f[d[2]]>> \in I
    BY <1>3, <1>5, <1>6 DEF Image
  <2> QED
    BY <2>1 DEF Image
<1>8. ASSUME NEW c, NEW d, <<c, d>> \in I PROVE <<c, d>> = <<a, b>> \/ d \in Below(J, c)
  <2>1. PICK k \in g.es : c = f[k[1]] /\ d = f[k[2]] /\ k = <<k[1], k[2]>>
    BY <1>2, <1>8, ImageEdges
  <2>2. CASE k = e
    BY <2>1, <2>2 DEF a, b, x, y
  <2>3. CASE k # e
    <3>1. k \in h.es
      BY <2>3, <1>6 DEF F
    <3>2. <<c, d>> \in J
      BY <2>1, <3>1 DEF Image
    <3> QED
      BY <3>2, <1>5, BelowStarts
  <2> QED
    BY <2>2, <2>3
<1>9. b \in Below(J, a) \/ v \in Below(J, v)
  <2>1. CASE <<a, b>> \in h.es
    <3>1. <<a, b>> \in J
      BY <2>1, <1>2, <1>3, ImageEdges
    <3> QED
      BY <3>1, <1>5, BelowStarts
  <2>2. CASE h.es = F /\ \E p \in Seq(Res) :
                 /\ Len(p) >= 2 /\ p[1] = a /\ p[Len(p)] = b /\ Along(p) \subseteq g.es
    <3>1. PICK p \in Seq(Res) : Len(p) >= 2 /\ p[1] = a /\ p[Len(p)] = b /\ Along(p) \subseteq g.es
      BY <2>2
    <3>2. b \in Below(Along(p), a)
      <4>1. p[Len(p)] \in Below(Along(p), p[1])
        BY <3>1, PathBelow
      <4> QED
        BY <3>1, <4>1
    <3>3. b \in Below(g.es, a)
      BY <3>1, <3>2, <1>1, BelowGrows
    <3>4. \/ b \in Below(F, a)
          \/ (x = a \/ x \in Below(F, a)) /\ (b = y \/ b \in Below(F, y))
      BY <3>3, <1>1, BelowWithout DEF F
    <3>5. \A s \in Res : \A z \in Below(F, s) : f[z] \in Below(J, f[s])
      BY <2>2, <1>1, <1>2, ImageBelow
    <3> QED
      BY <3>4, <3>5, <1>1, <1>2, <1>3, <1>4
  <2> QED
    BY <2>1, <2>2, <1>6
<1>10. \/ v \in Below(J, v)
       \/ \A c, d : <<c, d>> \in I => d \in Below(J, c)
  BY <1>8, <1>9
<1>11. ASSUME Acyclic(I), NEW c, NEW d, <<c, d>> \in Image(f, g.notify)
       PROVE  d \in Below(M, c)
  <2>1. PICK k \in g.notify : c = f[k[1]] /\ d = f[k[2]] /\ k = <<k[1], k[2]>>
    BY <1>1, <1>2, <1>11, ImageEdges
  <2>2. CASE k # e
    <3>1. k \in h.notify
      BY <2>2, <1>6
    <3>2. <<c, d>> \in M
      BY <2>1, <3>1 DEF Image
    <3> QED
      BY <3>2, <1>5, BelowStarts
  <2>3. CASE k = e /\ <<a, b>> \in h.notify
    <3>1. <<a, b>> \in M
      BY <2>3, <1>2, <1>3, ImageEdges
    <3>2. c = a /\ d = b
      BY <2>1, <2>3 DEF a, b, x, y
    <3> QED
      BY <3>1, <3>2, <1>5, BelowStarts
  <2>4. CASE /\ k = e
             /\ \E p \in Seq(Res) :
                  /\ Len(p) >= 2 /\ p[1] = a /\ p[Len(p)] = b /\ Along(p) \subseteq g.es
                  /\ Along(p) \ {e} \subseteq h.notify
    <3>1. PICK p \in Seq(Res) : /\ Len(p) >= 2 /\ p[1] = a /\ p[Len(p)] = b /\ Along(p) \subseteq g.es
                               /\ Along(p) \ {e} \subseteq h.notify
      BY <2>4
    <3>2. ASSUME e \in Along(p) PROVE FALSE
      <4>1. PICK i \in 1..Len(p) - 1 : x = p[i] /\ y = p[i + 1]
        BY <3>2 DEF Along, x, y
      <4>2. i \in 1..Len(p) /\ i + 1 \in 1..Len(p) /\ 1 \in 1..Len(p) /\ Len(p) \in 1..Len(p)
        OBVIOUS
      <4>3. \A s \in Res : \A z \in Below(Along(p), s) : f[z] \in Below(I, f[s])
        <5>1. \A s \in Res : Below(Along(p), s) \subseteq Below(g.es, s)
          BY <3>1, BelowGrows
        <5> QED
          BY <5>1, <1>2, ImageBelow
      <4>4. CASE x = w
        <5>1. i # 1
          BY <4>1, <4>4, <3>1, <1>3
        <5>2. w \in Below(Along(p), a)
          <6>1. 1 < i /\ p[i] \in Below(Along(p), p[1])
            BY <4>2, <5>1, PathBelow
          <6> QED
            BY <6>1, <4>1, <4>4, <3>1
        <5> QED
          BY <5>2, <4>3, <4>4, <1>1, <1>2, <1>4, <1>11 DEF Acyclic
      <4>5. CASE y = w
        <5>1. i + 1 # Len(p)
          BY <4>1, <4>5, <3>1, <1>3
        <5>2. b \in Below(Along(p), w)
          <6>1. i + 1 < Len(p) /\ p[Len(p)] \in Below(Along(p), p[i + 1])
            BY <4>2, <5>1, PathBelow
          <6> QED
            BY <6>1, <4>1, <4>5, <3>1
        <5> QED
          BY <5>2, <4>3, <4>5, <1>1, <1>2, <1>4, <1>11 DEF Acyclic
      <4> QED
        BY <4>4, <4>5, <1>4
    <3>3. Along(p) \subseteq h.notify
      BY <3>1, <3>2
    <3>4. b \in Below(Along(p), a)
      <4>1. p[Len(p)] \in Below(Along(p), p[1])
        BY <3>1, PathBelow
      <4> QED
        BY <3>1, <4>1
    <3>5. b \in Below(h.notify, a)
      BY <3>3, <3>4, <1>1, BelowGrows
    <3>6. f[b] \in Below(M, f[a])
      BY <3>5, <1>1, <1>2, ImageBelow
    <3>7. c = a /\ d = b
      BY <2>1, <2>4 DEF a, b, x, y
    <3> QED
      BY <3>6, <3>7, <1>3
  <2> QED
    BY <2>1, <2>2, <2>3, <2>4, <1>6
<1> QED
  BY <1>7, <1>10, <1>11

(***************************************************************************)
(* To move all of them                                                     *)
(***************************************************************************)

LEMMA AcyclicRefines ==
    ASSUME NEW E \in Edges, NEW F \in Edges, \A x, y : <<x, y>> \in E => y \in Below(F, x), Acyclic(F)
    PROVE  Acyclic(E)
BY BelowRefines DEF Acyclic

LEMMA AcyclicShrinks ==
    ASSUME NEW F \in Edges, NEW E, E \subseteq F, Acyclic(F)
    PROVE  Acyclic(E)
BY BelowGrows DEF Acyclic

At(w, E) == {e \in E : e[1] = w \/ e[2] = w}

Gone(w, g, h, e) == At(w, h.es) = At(w, g.es) \ {e}

\* g after some edges were moved, where Q is the graph in which w is v
Loop(v, w, g) ==
    LET f == Onto(v, w)
        Q == Image(f, es)
    IN  /\ g \in Graphs /\ \A e \in g.es : e[1] # e[2]
        /\ Image(f, g.es) \subseteq Q
        /\ Acyclic(Image(f, g.es)) => Acyclic(Q)
        /\ Acyclic(Q) => /\ \A c, d : <<c, d>> \in Q => d \in Below(Image(f, g.es), c)
                         /\ \A c, d : <<c, d>> \in Image(f, notify) => d \in Below(Image(f, g.notify), c)

\* what VertexMerge is called with
Mergeable(v, w) ==
    /\ vs \in SUBSET Res /\ es \in SUBSET (vs \X vs) /\ notify \subseteq es /\ \A e \in es : e[1] # e[2]
    /\ v \in vs /\ w \in vs /\ v # w /\ <<v, w>> \notin es /\ <<w, v>> \notin es

LEMMA LoopStep ==
    ASSUME NEW v, NEW w, Mergeable(v, w), NEW g, Loop(v, w, g),
           NEW e \in At(w, g.es), e # <<v, w>>, e # <<w, v>>, NEW h \in Move(g, e, v, w)
    PROVE  Loop(v, w, h) /\ Gone(w, g, h, e)
<1> DEFINE f == Onto(v, w)
           Q == Image(f, es)
           I == Image(f, g.es)
           J == Image(f, h.es)
           m == Image(f, notify)
           L == Image(f, g.notify)
           M == Image(f, h.notify)
<1>1. /\ vs \in SUBSET Res /\ v \in vs /\ w \in vs /\ v # w /\ v \in Res /\ w \in Res
      /\ es \in Edges /\ notify \in Edges
  BY DEF Mergeable, Edges
<1>2. /\ g \in Graphs /\ I \subseteq Q /\ (Acyclic(I) => Acyclic(Q)) /\ \A d \in g.es : d[1] # d[2]
      /\ Acyclic(Q) => /\ \A c, d : <<c, d>> \in Q => d \in Below(I, c)
                       /\ \A c, d : <<c, d>> \in m => d \in Below(L, c)
  BY DEF Loop
<1>3. e \in g.es /\ e \in vs \X vs /\ (e[1] = w \/ e[2] = w) /\ e[1] # e[2] /\ e = <<e[1], e[2]>>
  BY <1>2 DEF At, Graphs
<1>4. f \in [Res -> Res] /\ f[w] = v /\ f[v] = v /\ \A z \in Res : z # w => f[z] = z
  BY <1>1, OntoType
<1>5. /\ f[e[1]] \in Res /\ f[e[2]] \in Res
      /\ f[e[1]] # f[e[2]] /\ f[e[1]] # w /\ f[e[2]] # w
  BY <1>1, <1>3, <1>4
<1>6. h \in Graphs /\ Replaced(g, h, e, f[e[1]], f[e[2]])
  BY <1>1, <1>2, <1>3, MoveReplaces
<1>7. /\ g.es \in Edges /\ h.es \in Edges /\ g.notify \subseteq g.es /\ h.notify \in Edges
      /\ g.notify \in Edges
  BY <1>1, <1>2, <1>6 DEF Graphs, Edges
<1>8. /\ J \subseteq I
      /\ v \in Below(J, v) \/ \A c, d : <<c, d>> \in I => d \in Below(J, c)
      /\ Acyclic(I) => \A c, d : <<c, d>> \in L => d \in Below(M, c)
  BY <1>1, <1>3, <1>5, <1>6, <1>7, ReplacedKeeps
<1>9. I \in Edges /\ J \in Edges /\ L \in Edges /\ M \in Edges /\ Q \in Edges /\ m \in Edges
  BY <1>1, <1>4, <1>7, ImageEdges
<1>10. At(w, h.es) = At(w, g.es) \ {e} /\ \A d \in h.es : d[1] # d[2]
  <2>1. g.es \ {e} \subseteq h.es /\ h.es \subseteq (g.es \cup {<<f[e[1]], f[e[2]]>>}) \ {e}
    BY <1>6 DEF Replaced
  <2> QED
    BY <2>1, <1>2, <1>5 DEF At
<1> HIDE DEF f, Q, I, J, m, L, M
<1>11. ASSUME Acyclic(J) PROVE Acyclic(Q)
  <2>1. \A c, d : <<c, d>> \in I => d \in Below(J, c)
    BY <1>1, <1>8, <1>11 DEF Acyclic
  <2>2. Acyclic(I)
    BY <2>1, <1>9, <1>11, AcyclicRefines
  <2> QED
    BY <2>2, <1>2
<1>12. ASSUME Acyclic(Q)
       PROVE  /\ \A c, d : <<c, d>> \in Q => d \in Below(J, c)
              /\ \A c, d : <<c, d>> \in m => d \in Below(M, c)
  <2>1. Acyclic(I) /\ Acyclic(J)
    BY <1>2, <1>8, <1>9, <1>12, AcyclicShrinks
  <2>2. \A c, d : <<c, d>> \in I => d \in Below(J, c)
    BY <2>1, <1>1, <1>8 DEF Acyclic
  <2>3. ASSUME NEW c \in Res PROVE Below(I, c) \subseteq Below(J, c)
    BY <2>2, <1>9, BelowRefines
  <2>4. ASSUME NEW c \in Res PROVE Below(L, c) \subseteq Below(M, c)
    BY <2>1, <1>8, <1>9, BelowRefines
  <2>5. \A c, d : <<c, d>> \in Q \/ <<c, d>> \in m => c \in Res
    BY <1>9 DEF Edges
  <2> QED
    BY <2>3, <2>4, <2>5, <1>2, <1>12
<1>13. J \subseteq Q
  BY <1>2, <1>8
<1>14. Loop(v, w, h)
  BY <1>6, <1>10, <1>11, <1>12, <1>13 DEF Loop, f, Q, J, m, M
<1> QED
  BY <1>10, <1>14 DEF Gone

MoveEach(X, e, v, w) == UNION {Move(g, e, v, w) : g \in X}

\* r is the recursion in Moved
Stages(gs, list, v, w, r) ==
    r[0] = gs /\ \A k \in 1..Len(list) : r[k] = MoveEach(r[k - 1], list[k], v, w)

Movable(list, w) == list \in Seq(vs \X vs) /\ \A k \in 1..Len(list) : list[k][1] = w \/ list[k][2] = w

LEMMA MovedEquations ==
    ASSUME vs \in SUBSET Res, NEW v \in vs, NEW w \in vs, v # w, NEW gs, gs \subseteq Graphs,
           NEW list, Movable(list, w)
    PROVE  \E r : Moved(gs, list, v, w) = r[Len(list)] /\ Stages(gs, list, v, w, r)
<1> USE DEF Movable
<1> DEFINE n == Len(list)
           Def(r) == [k \in 0..n |-> IF k = 0 THEN gs ELSE MoveEach(r[k - 1], list[k], v, w)]
           S == SUBSET Graphs
           F == [k \in 1..n |-> [X \in S |-> MoveEach(X, list[k], v, w)]]
<1>1. n \in Nat
  OBVIOUS
<1>2. PICK r : r = (CHOOSE q : q = Def(q))
  OBVIOUS
<1>3. Moved(gs, list, v, w) = r[n]
  BY <1>2 DEF Moved, MoveEach
<1> HIDE DEF n
<1>4. ASSUME NEW k \in 1..n, NEW X \in S PROVE MoveEach(X, list[k], v, w) \in S
  <2> SUFFICES ASSUME NEW g \in X, NEW h \in Move(g, list[k], v, w) PROVE h \in Graphs
    BY DEF MoveEach
  <2>1. g \in Graphs /\ list[k] \in vs \X vs /\ (list[k][1] = w \/ list[k][2] = w)
    BY DEF n
  <2> QED
    BY <2>1, MoveReplaces
<1>5. gs \in S
  OBVIOUS
<1> HIDE DEF S
<1>6. Steps(F, S, 0, n) /\ \A k \in 1..n, X \in S : F[k][X] = MoveEach(X, list[k], v, w)
  BY <1>4 DEF Steps
<1> HIDE DEF F
<1>7. PICK g : Iterates(g, gs, F, S, 0, n)
  BY <1>1, <1>5, <1>6, Iteration
<1>8. g \in [0..n -> S] /\ g[0] = gs /\ \A k \in 1..n : g[k] = F[k][g[k - 1]]
  BY <1>7 DEF Iterates
<1>9. g = Def(g)
  <2>1. ASSUME NEW k \in 0..n PROVE g[k] = Def(g)[k]
    <3>1. CASE k = 0
      BY <3>1, <1>8
    <3>2. CASE k # 0
      <4>1. k \in 1..n /\ k - 1 \in 0..n
        BY <3>2, <1>1
      <4>2. g[k] = MoveEach(g[k - 1], list[k], v, w)
        BY <4>1, <1>6, <1>8
      <4> QED
        BY <3>2, <4>2
    <3> QED
      BY <3>1, <3>2
  <2> QED
    BY <2>1, <1>8
<1>10. r = Def(r)
  <2> HIDE DEF Def
  <2> QED
    BY <1>9, <1>2
<1>11. r[0] = gs /\ \A k \in 1..n : r[k] = MoveEach(r[k - 1], list[k], v, w)
  <2>1. ASSUME NEW k \in 0..n PROVE r[k] = IF k = 0 THEN gs ELSE MoveEach(r[k - 1], list[k], v, w)
    BY <1>10, Zenon
  <2> QED
    BY <2>1, <1>1
<1> QED
  BY <1>3, <1>11 DEF n, Stages

Left(R, list) == R \ {list[i] : i \in 1..Len(list)}

\* the loop starts with any of gs, which have the edges R at w, and list is part of them
Loops(v, w, gs, R, list) ==
    /\ R \in SUBSET (vs \X vs) /\ \A g \in gs : Loop(v, w, g) /\ At(w, g.es) = R
    /\ \A e \in R : (e[1] = w \/ e[2] = w) /\ e # <<v, w>> /\ e # <<w, v>>
    /\ list \in Seq(R) /\ \A i, j \in 1..Len(list) : list[i] = list[j] => i = j

LEMMA MovedLoop ==
    ASSUME NEW v, NEW w, Mergeable(v, w), NEW gs, NEW R, NEW list, Loops(v, w, gs, R, list),
           NEW h \in Moved(gs, list, v, w)
    PROVE  Loop(v, w, h) /\ At(w, h.es) = Left(R, list)
<1> USE DEF Loops
<1> DEFINE n == Len(list)
           Rest(k) == R \ {list[i] : i \in 1..k}
           P(g, k) == Loop(v, w, g) /\ At(w, g.es) = Rest(k)
<1>1. n \in Nat /\ vs \in SUBSET Res /\ v \in vs /\ w \in vs /\ v # w
  BY DEF Mergeable
<1>2. gs \in SUBSET Graphs
  BY DEF Loop
<1>3. list \in Seq(vs \X vs) /\ \A k \in 1..n : list[k] \in R /\ (list[k][1] = w \/ list[k][2] = w)
  <2>1. \A k \in 1..n : list[k] \in R
    OBVIOUS
  <2> QED
    BY <2>1
<1>4. PICK r : /\ Moved(gs, list, v, w) = r[n] /\ r[0] = gs
               /\ \A k \in 1..n : r[k] = MoveEach(r[k - 1], list[k], v, w)
  <2>1. Movable(list, w)
    BY <1>3 DEF Movable
  <2>2. PICK r : Moved(gs, list, v, w) = r[n] /\ Stages(gs, list, v, w, r)
    BY <1>1, <1>2, <2>1, MovedEquations
  <2> QED
    BY <2>2 DEF Stages
<1> DEFINE T == {k \in 0..n : \A g \in r[k] : P(g, k)}
<1>5. 0 \in T
  <2>1. Rest(0) = R
    OBVIOUS
  <2>2. \A g \in r[0] : P(g, 0)
    BY <2>1, <1>4
  <2> HIDE DEF P
  <2> QED
    BY <2>2, <1>1
<1>6. ASSUME NEW k \in 0 + 1..n, k - 1 \in T PROVE k \in T
  <2>1. SUFFICES ASSUME NEW g \in r[k] PROVE P(g, k)
    BY <1>1
  <2>2. PICK q \in r[k - 1] : g \in Move(q, list[k], v, w)
    BY <1>4 DEF MoveEach
  <2>3. P(q, k - 1)
    <3> HIDE DEF P
    <3> QED
      BY <1>6, <2>2
  <2>4. list[k] \in R /\ list[k] \in Rest(k - 1) /\ Rest(k) = Rest(k - 1) \ {list[k]}
    <3>1. k \in 1..n /\ \A i \in 1..k - 1 : i \in 1..n /\ i # k
      OBVIOUS
    <3>2. \A i : i \in 1..k <=> i \in 1..k - 1 \/ i = k
      OBVIOUS
    <3>3. \A i \in 1..k - 1 : list[i] # list[k]
      BY <3>1
    <3>4. list[k] \in R
      BY <3>1, <1>3
    <3> DEFINE A == {list[i] : i \in 1..k}
               B == {list[i] : i \in 1..k - 1}
    <3>5. \A z : z \in A <=> z \in B \/ z = list[k]
      BY <3>2
    <3>6. list[k] \notin B
      BY <3>3
    <3>7. Rest(k) = R \ A /\ Rest(k - 1) = R \ B
      OBVIOUS
    <3> HIDE DEF A, B, Rest
    <3> QED
      BY <3>4, <3>5, <3>6, <3>7
  <2>5. Loop(v, w, g) /\ At(w, g.es) = Rest(k - 1) \ {list[k]}
    <3> HIDE DEF Rest
    <3>1. /\ Loop(v, w, q) /\ list[k] \in At(w, q.es) /\ list[k] # <<v, w>> /\ list[k] # <<w, v>>
          /\ At(w, q.es) = Rest(k - 1)
      BY <2>3, <2>4
    <3>2. Loop(v, w, g) /\ At(w, g.es) = At(w, q.es) \ {list[k]}
      <4> DEFINE e == list[k]
      <4>1. /\ Loop(v, w, q) /\ e \in At(w, q.es) /\ e # <<v, w>> /\ e # <<w, v>>
            /\ g \in Move(q, e, v, w) /\ Mergeable(v, w)
        BY <2>2, <3>1
      <4> HIDE DEF e
      <4>2. Loop(v, w, g) /\ Gone(w, q, g, e)
        BY <4>1, LoopStep
      <4> QED
        BY <4>2 DEF e, Gone
    <3> QED
      BY <3>1, <3>2
  <2> QED
    BY <2>4, <2>5
<1>7. n \in T
  <2> HIDE DEF T
  <2>1. 0..n \subseteq T
    BY <1>1, <1>5, <1>6, Counting
  <2> QED
    BY <2>1, <1>1
<1>8. P(h, n)
  <2> HIDE DEF P
  <2> QED
    BY <1>4, <1>7
<1> QED
  BY <1>8 DEF Left

LEMMA VertexMergeLoops ==
    ASSUME NEW v, NEW w, Mergeable(v, w), NEW g \in VertexMerge(v, w)
    PROVE  Loop(v, w, g) /\ At(w, g.es) = {}
<1> DEFINE start == [es |-> es, notify |-> notify]
           into == {e \in es : e[2] = w}
           out == {e \in es : e[1] = w}
           R == At(w, es)
<1>1. /\ vs \in SUBSET Res /\ es \in SUBSET (vs \X vs) /\ notify \subseteq es
      /\ v \in Res /\ w \in Res /\ es \in Edges /\ notify \in Edges
  BY DEF Mergeable, Edges
<1>2. PICK a \in SetToSeqs(into), b \in SetToSeqs(out) : g \in Moved(Moved({start}, a, v, w), b, v, w)
  <2> DEFINE first == Without(Without(start, <<v, w>>), <<w, v>>)
             A == SetToSeqs({e \in first.es : e[2] = w})
             B == SetToSeqs({e \in first.es : e[1] = w})
             M(a, b) == Moved(Moved({first}, a, v, w), b, v, w)
  <2>1. first = start
    BY DEF Mergeable, Without
  <2>2. {e \in first.es : e[2] = w} = into /\ {e \in first.es : e[1] = w} = out
    BY <2>1
  <2>3. A = SetToSeqs(into) /\ B = SetToSeqs(out)
    <3> HIDE DEF first, into, out
    <3> QED
      BY <2>2
  <2>4. VertexMerge(v, w) = UNION {M(a, b) : a \in A, b \in B}
    BY DEF VertexMerge
  <2>5. \A a, b : M(a, b) = Moved(Moved({start}, a, v, w), b, v, w)
    <3> HIDE DEF first, start
    <3> QED
      BY <2>1
  <2> HIDE DEF A, B, M
  <2>6. PICK a \in A, b \in B : g \in M(a, b)
    BY <2>4
  <2> HIDE DEF into, out, start
  <2> QED
    BY <2>3, <2>5, <2>6
<1>3. IsFiniteSet(into) /\ IsFiniteSet(out)
  <2>1. IsFiniteSet(Res \X Res)
    BY Finite, FS_Product
  <2>2. into \in SUBSET (Res \X Res) /\ out \in SUBSET (Res \X Res)
    BY <1>1
  <2> QED
    BY <2>1, <2>2, FS_Subset
<1>4. /\ R \in SUBSET (vs \X vs) /\ into \subseteq R /\ out = R \ into /\ out \subseteq R
      /\ \A e \in R : (e[1] = w \/ e[2] = w) /\ e # <<v, w>> /\ e # <<w, v>>
  BY <1>1 DEF At, Mergeable
<1>5. Loop(v, w, start) /\ At(w, start.es) = R
  <2> DEFINE f == Onto(v, w)
  <2>1. start \in Graphs /\ start.es = es /\ start.notify = notify /\ \A e \in es : e[1] # e[2]
    BY <1>1 DEF Graphs, Mergeable
  <2>2. Image(f, es) \in Edges /\ Image(f, notify) \in Edges
    BY <1>1, OntoType, ImageEdges
  <2>3. /\ \A c, d : <<c, d>> \in Image(f, es) => d \in Below(Image(f, es), c)
        /\ \A c, d : <<c, d>> \in Image(f, notify) => d \in Below(Image(f, notify), c)
    BY <2>2, BelowStarts
  <2> HIDE DEF start
  <2> QED
    BY <2>1, <2>3 DEF Loop
<1>6. /\ a \in Seq(into) /\ (\A i, j \in 1..Len(a) : a[i] = a[j] => i = j)
      /\ \A z \in into : \E i \in 1..Len(a) : a[i] = z
  BY <1>3, SetAsSeqs
<1>7. /\ b \in Seq(out) /\ (\A i, j \in 1..Len(b) : b[i] = b[j] => i = j)
      /\ \A z \in out : \E i \in 1..Len(b) : b[i] = z
  BY <1>3, SetAsSeqs
<1> HIDE DEF start, into, out, R
<1>8. a \in Seq(R) /\ Left(R, a) = out
  <2>1. a \in Seq(R)
    BY <1>4, <1>6
  <2>2. \A z : z \in {a[i] : i \in 1..Len(a)} <=> z \in into
    BY <1>6
  <2> QED
    BY <2>1, <2>2, <1>4 DEF Left
<1>9. Left(out, b) = {}
  BY <1>7 DEF Left
<1>10. ASSUME NEW h \in Moved({start}, a, v, w) PROVE Loop(v, w, h) /\ At(w, h.es) = out
  <2>1. Loops(v, w, {start}, R, a)
    BY <1>4, <1>5, <1>6, <1>8 DEF Loops
  <2> QED
    BY <2>1, <1>8, MovedLoop
<1>11. Loops(v, w, Moved({start}, a, v, w), out, b)
  <2>1. /\ out \in SUBSET (vs \X vs)
        /\ \A e \in out : (e[1] = w \/ e[2] = w) /\ e # <<v, w>> /\ e # <<w, v>>
    BY <1>4
  <2> QED
    BY <2>1, <1>7, <1>10 DEF Loops
<1>12. Loop(v, w, g) /\ At(w, g.es) = Left(out, b)
  BY <1>2, <1>11, MovedLoop
<1> QED
  BY <1>9, <1>12

\* what a merge of w into v has to leave
MergedWell(v, w, g) ==
    LET f == Onto(v, w)
    IN  /\ g.es \in SUBSET ((vs \ {w}) \X (vs \ {w})) /\ g.notify \subseteq g.es
        /\ \A e \in g.es : e[1] # e[2]
        /\ Acyclic(g.es) <=> Acyclic(es)
        /\ Acyclic(es) => \A a \in Res :
             /\ \A b \in Below(es, a) : f[b] \in Below(g.es, f[a])
             /\ \A b \in Below(notify, a) : f[b] \in Below(g.notify, f[a])

\* VertexMerge of two vertices neither of which is below the other: w is gone, there is a
\* cycle if and only if there was one, and if not, then everything is in order that was,
\* and every notification arrives that did.  This is what its comment promises, that such
\* a merge "guarantees that the result stays a DAG", whatever the order of the edges.
THEOREM VertexMergeWell ==
    ASSUME NEW v, NEW w, Mergeable(v, w), w \notin Below(es, v), v \notin Below(es, w),
           NEW g \in VertexMerge(v, w)
    PROVE  MergedWell(v, w, g)
<1> DEFINE f == Onto(v, w)
           Q == Image(f, es)
           m == Image(f, notify)
<1>1. /\ vs \in SUBSET Res /\ v \in Res /\ w \in Res /\ v # w
      /\ es \in Edges /\ notify \in Edges
  BY DEF Mergeable, Edges
<1>2. f \in [Res -> Res] /\ \A z \in Res : z # w => f[z] = z
  BY <1>1, OntoType
<1>3. Loop(v, w, g) /\ At(w, g.es) = {}
  BY VertexMergeLoops
<1>4. /\ g.es \in SUBSET (vs \X vs) /\ g.notify \subseteq g.es /\ \A e \in g.es : e[1] # e[2]
  BY <1>3 DEF Loop, Graphs
<1>5. \A e \in g.es : e[1] # w /\ e[2] # w
  BY <1>3 DEF At
<1>6. g.es \in SUBSET ((vs \ {w}) \X (vs \ {w}))
  BY <1>4, <1>5
<1>7. ASSUME NEW E, E \subseteq g.es PROVE Image(f, E) = E
  <2>1. \A e \in E : e = <<e[1], e[2]>> /\ f[e[1]] = e[1] /\ f[e[2]] = e[2]
    BY <1>1, <1>2, <1>4, <1>5, <1>7
  <2> QED
    BY <2>1 DEF Image
<1>8. Image(f, g.es) = g.es /\ Image(f, g.notify) = g.notify
  BY <1>4, <1>7
<1>9. /\ g.es \subseteq Q /\ (Acyclic(g.es) => Acyclic(Q))
      /\ Acyclic(Q) => /\ \A c, d : <<c, d>> \in Q => d \in Below(g.es, c)
                       /\ \A c, d : <<c, d>> \in m => d \in Below(g.notify, c)
  BY <1>3, <1>8 DEF Loop
<1>10. Q \in Edges /\ m \in Edges /\ g.es \in Edges /\ g.notify \in Edges
  BY <1>1, <1>2, <1>4, ImageEdges DEF Edges
<1>11. Acyclic(es) => Acyclic(Q)
  BY <1>1, QuotientAcyclic
<1>12. Acyclic(Q) => Acyclic(es)
  BY <1>1, <1>2, ImageCyclic
<1>13. ASSUME NEW a \in Res
       PROVE  /\ \A b \in Below(es, a) : f[b] \in Below(Q, f[a])
              /\ \A b \in Below(notify, a) : f[b] \in Below(m, f[a])
  BY <1>1, <1>2, ImageBelow
<1> HIDE DEF f, Q, m
<1>14. Acyclic(Q) => Acyclic(g.es)
  BY <1>9, <1>10, AcyclicShrinks
<1>15. ASSUME Acyclic(es), NEW a \in Res
       PROVE  Below(Q, a) \subseteq Below(g.es, a) /\ Below(m, a) \subseteq Below(g.notify, a)
  BY <1>9, <1>10, <1>11, <1>15, BelowRefines
<1>16. \A a \in Res : f[a] \in Res
  BY <1>2
<1>17. Acyclic(es) => \A a \in Res :
             /\ \A b \in Below(es, a) : f[b] \in Below(g.es, f[a])
             /\ \A b \in Below(notify, a) : f[b] \in Below(g.notify, f[a])
  BY <1>13, <1>15, <1>16
<1> QED
  BY <1>4, <1>6, <1>9, <1>11, <1>12, <1>14, <1>17 DEF MergedWell, f

(***************************************************************************)
(* The inductive invariant                                                 *)
(***************************************************************************)

Comparable(a, b) == b \in Below(es, a) \/ a \in Below(es, b)
Index(v, w) == (v - 1) * N + (w - 1)

\* what the run starts with, and what AutoEdge finds
Started ==
    /\ kind \in Kinds /\ sema \in [Res -> SUBSET Res]
    /\ loaded.es \subseteq Pairs /\ loaded.notify \subseteq loaded.es /\ auto \subseteq Pairs
    /\ \A e \in es : e[1] # e[2]
    /\ pc = "edges" =>
         /\ ij = 0 /\ auto = {} /\ vs = Res /\ es = loaded.es /\ notify = loaded.notify
         /\ DOMAIN descendants = {} /\ owner = [v \in Res |-> v]

\* a graph that was grouped, or that is ready, was sorted
Validated ==
    /\ pc \in {"check", "ready"} => ij = 0 \/ (ij = N * N /\ Acyclic(es))
    /\ pc = "ready" => Acyclic(es)

\* the cache is never stale
CacheCorrect == \A v \in DOMAIN descendants : descendants[v] = Below(es, v)

\* no merge closes a cycle, and none hides one
CycleKept == Acyclic(es) <=> Acyclic(Asked)

InOrder == Acyclic(Asked) => \A e \in Asked : owner[e[2]] \in Below(es, owner[e[1]])
Notified == Acyclic(Asked) => \A e \in loaded.notify \ auto : owner[e[2]] \in Below(notify, owner[e[1]])

\* A vertex has a group only when its row has begun; a package is grouped into a
\* package, and anything else goes into a vertex that comes later.
Groups ==
    /\ \A v \in Res : HasGroup(v) => (v - 1) * N < ij
    /\ \A v \in Res : kind[v] = <<"pkg">> => kind[owner[v]] = <<"pkg">>
    /\ \A v \in Res \ vs : kind[v] # <<"pkg">> => v * N <= ij

\* a pair that was looked at and could be one group is ordered
Apart(v, w) == (kind[v] = kind[w] => v < w /\ v \in vs) /\ GroupCmp(v, w)
Compared ==
    Acyclic(es) => \A v \in Res, w \in vs : Index(v, w) < ij /\ Apart(v, w) => Comparable(owner[v], w)

IInv ==
    /\ TypeOK /\ Started /\ Validated /\ CacheCorrect /\ CycleKept /\ InOrder /\ Notified
    /\ Groups /\ Compared

(***************************************************************************)
(* The pairs, in the order of VertexNext                                   *)
(***************************************************************************)

LEMMA Divided ==
    ASSUME NEW n \in Nat \ {0}, NEW q \in Nat
    PROVE  /\ q \div n \in Nat /\ q % n \in 0..n - 1
           /\ q = (q \div n) * n + (q % n)
<1>1. q \div n \in Nat
  OBVIOUS
<1>2. q % n \in 0..n - 1
  OBVIOUS
<1>3. q = (q \div n) * n + (q % n)
  OBVIOUS
<1> QED
  BY <1>1, <1>2, <1>3

LEMMA RowsInOrder ==
    ASSUME NEW n \in Nat, NEW a \in Int, NEW b \in Int, a < b
    PROVE  (a + 1) * n <= b * n
<1>1. a + 1 <= b /\ 0 <= n
  OBVIOUS
<1> QED
  BY <1>1

\* the quotient and the remainder are determined
LEMMA DividedOnce ==
    ASSUME NEW n \in Nat \ {0}, NEW a \in Nat, NEW b \in Nat, NEW r \in 0..n - 1, NEW s \in 0..n - 1,
           a * n + r = b * n + s
    PROVE  a = b /\ r = s
<1>1. ASSUME NEW x \in Nat, NEW y \in Nat, NEW i \in 0..n - 1, NEW j \in 0..n - 1,
             x * n + i = y * n + j, x < y
      PROVE  FALSE
  <2>1. (x + 1) * n <= y * n
    BY <1>1, RowsInOrder
  <2>2. (x + 1) * n = x * n + n
    OBVIOUS
  <2>3. x * n \in Nat /\ y * n \in Nat
    OBVIOUS
  <2> QED
    BY <1>1, <2>1, <2>2, <2>3
<1>2. ~(a < b) /\ ~(b < a)
  BY <1>1
<1>3. a = b
  BY <1>2
<1>4. a * n \in Nat
  OBVIOUS
<1> QED
  BY <1>3, <1>4

LEMMA PairOf ==
    ASSUME NEW q \in 0..(N * N - 1)
    PROVE  Vi(q) \in Res /\ Vj(q) \in Res /\ Index(Vi(q), Vj(q)) = q
<1> DEFINE n == N
<1>1. n \in Nat \ {0} /\ Res = 1..n /\ q \in Nat /\ q < n * n
  BY ResAssumption
<1> HIDE DEF n
<1>2. q \div n \in Nat /\ q % n \in 0..n - 1 /\ q = (q \div n) * n + (q % n)
  BY <1>1, Divided
<1>3. q \div n < n
  <2> DEFINE d == q \div n
             r == q % n
  <2> SUFFICES ASSUME ~(d < n) PROVE FALSE
    OBVIOUS
  <2>1. n * n <= d * n
    <3>1. d \in Nat /\ n <= d
      BY <1>1, <1>2
    <3> HIDE DEF d
    <3> QED
      BY <1>1, <3>1
  <2>2. d \in Nat /\ d * n \in Nat /\ q = d * n + r /\ r \in 0..n - 1 /\ n * n \in Nat
    BY <1>1, <1>2
  <2> HIDE DEF d, r
  <2> QED
    BY <2>1, <2>2, <1>1
<1>4. Vi(q) = (q \div n) + 1 /\ Vj(q) = (q % n) + 1 /\ \A v, w : Index(v, w) = (v - 1) * n + (w - 1)
  BY DEF Vi, Vj, Index, n
<1>5. Vi(q) \in Res /\ Vj(q) \in Res
  BY <1>1, <1>2, <1>3, <1>4
<1>6. Vi(q) - 1 = q \div n /\ Vj(q) - 1 = q % n
  BY <1>2, <1>4
<1>7. Index(Vi(q), Vj(q)) = (Vi(q) - 1) * n + (Vj(q) - 1)
  BY <1>4
<1>8. Index(Vi(q), Vj(q)) = q
  BY <1>2, <1>6, <1>7
<1> QED
  BY <1>5, <1>8

LEMMA IndexOf ==
    ASSUME NEW v \in Res, NEW w \in Res
    PROVE  /\ Index(v, w) \in 0..(N * N - 1) /\ Vi(Index(v, w)) = v /\ Vj(Index(v, w)) = w
           /\ (v - 1) * N <= Index(v, w) /\ Index(v, w) < v * N
<1> DEFINE n == N
           a == v - 1
           b == w - 1
           k == Index(v, w)
<1>1. n \in Nat \ {0} /\ Res = 1..n
  BY ResAssumption
<1>2. k = a * n + b
  BY DEF Index
<1>3. a \in 0..n - 1 /\ b \in 0..n - 1 /\ v * n = (a + 1) * n /\ a + 1 <= n /\ v = a + 1 /\ w = b + 1
  BY <1>1
<1>4. Vi(k) = (k \div n) + 1 /\ Vj(k) = (k % n) + 1
  BY DEF Vi, Vj
<1>5. (v - 1) * N = a * n /\ v * N = v * n /\ N * N = n * n
  OBVIOUS
<1> HIDE DEF n, a, b, k
<1>6. a * n \in Nat /\ (a + 1) * n = a * n + n
  BY <1>1, <1>3
<1>7. (a + 1) * n <= n * n
  <2>1. a + 1 \in Nat
    BY <1>3
  <2> QED
    BY <1>1, <1>3, <2>1
<1>8. k \in Nat /\ a * n <= k /\ k < (a + 1) * n /\ n * n \in Nat
  BY <1>1, <1>2, <1>3, <1>6
<1>9. k \in 0..(n * n - 1)
  <2> DEFINE x == n * n
             y == (a + 1) * n
  <2>1. x \in Nat /\ y \in Nat /\ k \in Nat /\ k < y /\ y <= x
    BY <1>1, <1>6, <1>7, <1>8
  <2> HIDE DEF x, y
  <2>2. k \in 0..(x - 1)
    BY <2>1
  <2> QED
    BY <2>2 DEF x
<1>10. k \div n \in Nat /\ k % n \in 0..n - 1 /\ k = (k \div n) * n + (k % n)
  BY <1>1, <1>8, Divided
<1>11. k \div n = a /\ k % n = b
  <2>1. a \in Nat
    BY <1>1, <1>3
  <2> QED
    BY <2>1, <1>1, <1>2, <1>3, <1>10, DividedOnce
<1> QED
  BY <1>3, <1>4, <1>5, <1>8, <1>9, <1>11 DEF k

LEMMA KindTypes ==
    ASSUME kind \in Kinds
    PROVE  /\ \A v \in Res : kind[v] \in Seq(STRING) /\ kind[v] # <<>>
           /\ \A v, w \in Res : v < w => Len(kind[v]) >= Len(kind[w])
BY KindsAssumption

\* two kinds that group are the same, or one is one chunk longer and the other the rest
LEMMA GroupKinds ==
    ASSUME kind \in Kinds, NEW v \in Res, NEW w \in Res, GroupCmp(v, w)
    PROVE  /\ Chunk(v) = Chunk(w)
           /\ \/ kind[v] = <<"pkg">> /\ kind[w] = <<"pkg">>
              \/ /\ kind[v] # <<"pkg">> /\ kind[w] # <<"pkg">> /\ kind[v] # kind[w]
                 /\ Len(kind[w]) = Len(kind[v]) + 1
<1> DEFINE s == kind[v]
           t == kind[w]
<1>1. s \in Seq(STRING) /\ s # <<>> /\ t \in Seq(STRING) /\ t # <<>>
  BY KindTypes
<1>2. CASE s = <<"pkg">> /\ t = <<"pkg">>
  BY <1>2 DEF Chunk
<1>3. CASE Chunk(v) = "http" /\ Len(t) > 1 /\ Front(t) = s
  <2>1. Front(t) = SubSeq(t, 1, Len(t) - 1)
    BY DEF Front
  <2>2. Len(t) \in Nat /\ Len(s) = Len(t) - 1 /\ s[1] = t[1]
    <3> HIDE DEF s, t
    <3> QED
      BY <1>1, <1>3, <2>1
  <2>3. Head(s) = s[1] /\ Head(t) = t[1] /\ Head(s) = "http"
    <3>1. Head(s) = "http"
      BY <1>3 DEF Chunk
    <3> HIDE DEF s, t
    <3> QED
      BY <1>1, <3>1
  <2>4. Len(s) \in Nat /\ Len(s) # Len(t) /\ Len(t) = Len(s) + 1
    BY <2>2, <1>1
  <2>5. "http" # "pkg" /\ <<"pkg">>[1] = "pkg"
    OBVIOUS
  <2>6. Chunk(v) = Head(s) /\ Chunk(w) = Head(t)
    BY DEF Chunk
  <2> HIDE DEF s, t
  <2>7. s # <<"pkg">> /\ t # <<"pkg">> /\ s # t
    BY <2>2, <2>3, <2>4, <2>5
  <2> QED
    BY <2>2, <2>3, <2>4, <2>6, <2>7 DEF s, t
<1> QED
  BY <1>2, <1>3 DEF GroupCmp

\* the types of the state, as the lemmas need them
LEMMA Types ==
    ASSUME TypeOK
    PROVE  /\ vs \in SUBSET Res /\ es \in SUBSET (vs \X vs) /\ notify \in SUBSET (vs \X vs) /\ notify \subseteq es
           /\ es \in Edges /\ notify \in Edges /\ ij \in Nat /\ ij <= N * N /\ N \in Nat \ {0}
           /\ owner \in [Res -> vs] /\ \A v \in vs : owner[v] = v
<1>1. N \in Nat \ {0}
  BY ResAssumption
<1>2. ij \in Nat /\ ij <= N * N
  BY DEF TypeOK
<1>3. /\ vs \in SUBSET Res /\ es \in SUBSET (vs \X vs) /\ notify \in SUBSET (vs \X vs) /\ notify \subseteq es
      /\ es \in Edges /\ notify \in Edges
  BY DEF TypeOK, Edges
<1>4. owner \in [Res -> vs] /\ \A v \in vs : owner[v] = v
  BY DEF TypeOK
<1> QED
  BY <1>1, <1>2, <1>3, <1>4

\* VertexNext skips no pair that could be one group
LEMMA NotSkipped ==
    ASSUME TypeOK, Started, Groups, NEW v \in Res, NEW w \in vs, Apart(v, w), ij <= Index(v, w)
    PROVE  Index(v, w) \in VertexNext(ij) /\ v \in vs
<1> DEFINE k == Index(v, w)
<1>1. /\ w \in Res /\ kind \in Kinds /\ GroupCmp(v, w) /\ ij \in Nat /\ N \in Nat \ {0}
      /\ (kind[v] = kind[w] => v \in vs)
  BY Types DEF Started, Apart
<1>2. /\ k \in 0..(N * N - 1) /\ Vi(k) = v /\ Vj(k) = w /\ k < v * N
  BY <1>1, IndexOf
<1>3. Chunk(v) = Chunk(w)
  BY <1>1, GroupKinds
<1>4. v \in vs
  <2>1. CASE kind[v] = kind[w]
    BY <2>1, <1>1
  <2>2. CASE kind[v] # kind[w]
    <3>1. kind[v] # <<"pkg">>
      BY <2>2, <1>1, GroupKinds
    <3> SUFFICES ASSUME v \notin vs PROVE FALSE
      OBVIOUS
    <3>2. v * N <= ij
      BY <3>1 DEF Groups
    <3>3. v * N \in Nat
      BY <1>1, ResAssumption
    <3> HIDE DEF k
    <3> QED
      BY <3>2, <3>3, <1>1, <1>2 DEF k
  <2> QED
    BY <2>1, <2>2
<1>5. k \in ij..(N * N - 1)
  BY <1>1, <1>2
<1> QED
  BY <1>2, <1>3, <1>4, <1>5 DEF VertexNext

\* the pair that VertexNext returns
Chosen(q) ==
    /\ q \in ij..(N * N - 1) /\ Vi(q) \in vs /\ Vj(q) \in vs /\ Index(Vi(q), Vj(q)) = q
    /\ \A k \in VertexNext(ij) : q <= k

LEMMA MinChosen ==
    ASSUME TypeOK, VertexNext(ij) # {}
    PROVE  Chosen(Min(VertexNext(ij)))
<1> DEFINE T == VertexNext(ij)
           q == Min(T)
<1>1. ij \in Nat
  BY Types
<1>2. T \in SUBSET Nat
  BY <1>1 DEF VertexNext
<1>3. q \in T /\ \A k \in T : q <= k
  <2>1. \E n \in T : \A m \in T : n <= m
    BY <1>2, LeastNumber
  <2> HIDE DEF T
  <2> QED
    BY <2>1 DEF Min
<1>4. q \in ij..(N * N - 1) /\ Vi(q) \in vs /\ Vj(q) \in vs
  BY <1>3 DEF VertexNext
<1>5. q \in 0..(N * N - 1)
  BY <1>1, <1>4, Types
<1> HIDE DEF q
<1>6. Index(Vi(q), Vj(q)) = q
  BY <1>5, PairOf
<1> QED
  BY <1>3, <1>4, <1>6 DEF Chosen, q

\* a pair before the next one, or the next one itself, that was not looked at before
LEMMA OnlyChosen ==
    ASSUME TypeOK, Started, Groups, NEW q, Chosen(q), NEW v \in Res, NEW w \in vs, Apart(v, w),
           ij <= Index(v, w), Index(v, w) < q + 1
    PROVE  v = Vi(q) /\ w = Vj(q) /\ v \in vs
<1>1. Index(v, w) \in VertexNext(ij) /\ v \in vs
  BY NotSkipped
<1>2. w \in Res /\ ij \in Nat
  BY Types
<1>3. Vi(Index(v, w)) = v /\ Vj(Index(v, w)) = w /\ Index(v, w) \in Int
  BY <1>2, IndexOf
<1>4. q <= Index(v, w) /\ q \in Int
  BY <1>1, <1>2, Types DEF Chosen
<1>5. q = Index(v, w)
  BY <1>3, <1>4
<1> QED
  BY <1>1, <1>3, <1>5

\* where the row of v begins, and where the earlier ones have ended
LEMMA ChosenRow ==
    ASSUME TypeOK, NEW q, Chosen(q)
    PROVE  /\ q \in Nat /\ ij <= q /\ q + 1 <= N * N /\ (Vi(q) - 1) * N <= q
           /\ \A x \in Res : x < Vi(q) => x * N <= q
           /\ \A x \in Res : Vi(q) < x => q < (x - 1) * N
<1> DEFINE v == Vi(q)
           n == N
<1>1. /\ n \in Nat \ {0} /\ Res = 1..n /\ ij \in Nat /\ q \in Nat /\ ij <= q /\ q + 1 <= n * n
      /\ v \in Res /\ Vj(q) \in Res /\ Index(v, Vj(q)) = q
  BY Types, ResAssumption DEF Chosen
<1>2. (v - 1) * n <= q /\ q < v * n
  <2>1. (v - 1) * N <= Index(v, Vj(q)) /\ Index(v, Vj(q)) < v * N
    <3> HIDE DEF v
    <3> QED
      BY <1>1, IndexOf
  <2> HIDE DEF v
  <2> QED
    BY <2>1, <1>1
<1> HIDE DEF v, n
<1>3. ASSUME NEW x \in Res, x < v PROVE x * n <= q
  <2>1. x - 1 \in Int /\ v - 1 \in Int /\ x - 1 < v - 1 /\ (x - 1) + 1 = x
    BY <1>1, <1>3
  <2>2. ((x - 1) + 1) * n <= (v - 1) * n
    BY <2>1, <1>1, RowsInOrder
  <2>3. x * n \in Int /\ (v - 1) * n \in Int
    BY <1>1
  <2> QED
    BY <2>1, <2>2, <2>3, <1>1, <1>2
<1>4. ASSUME NEW x \in Res, v < x PROVE q < (x - 1) * n
  <2>1. x - 1 \in Int /\ v - 1 \in Int /\ v - 1 < x - 1 /\ (v - 1) + 1 = v
    BY <1>1, <1>4
  <2>2. ((v - 1) + 1) * n <= (x - 1) * n
    BY <2>1, <1>1, RowsInOrder
  <2>3. v * n \in Int /\ (x - 1) * n \in Int
    BY <1>1
  <2> QED
    BY <2>1, <2>2, <2>3, <1>1, <1>2
<1> QED
  BY <1>1, <1>2, <1>3, <1>4 DEF v, n

(***************************************************************************)
(* The cache                                                               *)
(***************************************************************************)

Right(d) == DOMAIN d \subseteq vs /\ \A x \in DOMAIN d : d[x] = Below(es, x)

LEMMA CachedRight ==
    ASSUME TypeOK, NEW d, Right(d), NEW v \in vs
    PROVE  Right(Cached(d, v)) /\ DOMAIN Cached(d, v) = DOMAIN d \cup {v}
<1>1. Descendants(vs, es, v) = Below(es, v)
  BY Types, DescendantsAreBelow
<1> QED
  BY <1>1 DEF Cached, Right

\* with a right cache, a pair is viable exactly if neither is below the other
LEMMA LookedRight ==
    ASSUME TypeOK, Right(descendants), NEW v \in vs, NEW w \in vs
    PROVE  Right(Looked(v, w)) /\ (VertexViable(v, w) <=> ~Comparable(v, w))
<1> DEFINE d == Cached(descendants, v)
           c == Cached(d, w)
<1>1. Right(d) /\ v \in DOMAIN d
  BY CachedRight
<1>2. Right(c) /\ v \in DOMAIN c /\ w \in DOMAIN c
  <2> HIDE DEF d
  <2>1. Right(c) /\ DOMAIN c = DOMAIN d \cup {w}
    BY <1>1, CachedRight
  <2> QED
    BY <1>1, <2>1
<1>3. Looked(v, w) = IF w \in d[v] THEN d ELSE c
  BY DEF Looked
<1> HIDE DEF d, c
<1>4. CASE w \in d[v]
  BY <1>1, <1>3, <1>4 DEF Right, VertexViable, Comparable
<1>5. CASE w \notin d[v]
  BY <1>1, <1>2, <1>3, <1>5 DEF Right, VertexViable, Comparable
<1> QED
  BY <1>4, <1>5

(***************************************************************************)
(* A pair that stays apart                                                 *)
(***************************************************************************)

\* the pair could be one group, so that only the order keeps it apart
LEMMA ApartIsOrdered ==
    ASSUME TypeOK, Started, Groups, CacheCorrect, NEW q, Chosen(q), Apart(Vi(q), Vj(q)),
           ~(VertexCmp(Vi(q), Vj(q)) /\ VertexViable(Vi(q), Vj(q)))
    PROVE  Comparable(Vi(q), Vj(q))
<1> DEFINE v == Vi(q)
           w == Vj(q)
<1>1. /\ v \in vs /\ w \in vs /\ v \in Res /\ w \in Res /\ q \in Nat /\ ij <= q /\ ij \in Nat
      /\ N \in Nat \ {0} /\ Res = 1..N
  BY Types, ChosenRow, ResAssumption DEF Chosen
<1>2. Apart(v, w) /\ ~(VertexCmp(v, w) /\ VertexViable(v, w))
  OBVIOUS
<1>3. \A x \in Res : v < x => q < (x - 1) * N
  BY ChosenRow
<1> HIDE DEF v, w
<1>4. v # w
  <2>1. v \in Int
    BY <1>1
  <2> QED
    BY <2>1, <1>2 DEF Apart
<1>5. ASSUME kind[v] = kind[w], HasGroup(w) PROVE FALSE
  <2>1. v < w
    BY <1>2, <1>5 DEF Apart
  <2>2. (w - 1) * N < ij /\ q < (w - 1) * N
    BY <2>1, <1>1, <1>3, <1>5 DEF Groups
  <2>3. (w - 1) * N \in Int
    BY <1>1
  <2> QED
    BY <2>2, <2>3, <1>1
<1>6. VertexCmp(v, w)
  BY <1>2, <1>4, <1>5 DEF VertexCmp, Apart
<1>7. Right(descendants)
  BY DEF TypeOK, CacheCorrect, Right
<1>8. VertexViable(v, w) <=> ~Comparable(v, w)
  BY <1>1, <1>7, LookedRight
<1> QED
  BY <1>2, <1>6, <1>8 DEF v, w

\* one turn that leaves the graph as it is
LEMMA SkipKeeps ==
    ASSUME IInv, pc = "group", NEW q, Chosen(q), ij' = q + 1, Skip(Vi(q), Vj(q)),
           UNCHANGED <<pc, kind, loaded, auto>>
    PROVE  IInv'
<1> DEFINE v == Vi(q)
           w == Vj(q)
<1>1. /\ TypeOK /\ Started /\ Validated /\ CacheCorrect /\ CycleKept /\ InOrder /\ Notified
      /\ Groups /\ Compared
  BY DEF IInv
<1>2. /\ vs' = vs /\ es' = es /\ notify' = notify /\ owner' = owner /\ sema' = sema
      /\ kind' = kind /\ loaded' = loaded /\ auto' = auto /\ pc' = "group"
      /\ descendants' = (IF VertexCmp(v, w) THEN Looked(v, w) ELSE descendants)
      /\ ~(VertexCmp(v, w) /\ VertexViable(v, w))
  BY DEF Skip, VertexTest
<1>3. v \in vs /\ w \in vs /\ q \in Nat /\ ij <= q /\ q + 1 <= N * N /\ ij \in Nat /\ N \in Nat
  BY <1>1, ChosenRow, Types DEF Chosen
<1>4. Right(descendants')
  <2>1. Right(descendants)
    BY <1>1 DEF TypeOK, CacheCorrect, Right
  <2> HIDE DEF v, w
  <2>2. Right(Looked(v, w))
    BY <1>1, <1>3, <2>1, LookedRight
  <2> QED
    BY <2>1, <2>2, <1>2
<1>5. TypeOK'
  <2>1. ij' \in 0..(N * N)
    BY <1>3
  <2> QED
    BY <1>1, <1>2, <1>4, <2>1 DEF TypeOK, Right
<1>6. Started' /\ Validated'
  BY <1>1, <1>2 DEF Started, Validated
<1>7. CacheCorrect'
  BY <1>2, <1>4 DEF CacheCorrect, Right
<1>8. CycleKept' /\ InOrder' /\ Notified'
  BY <1>1, <1>2 DEF CycleKept, InOrder, Notified, Asked
<1>9. Groups'
  <2>1. ASSUME NEW x \in Int, x < ij \/ x <= ij PROVE x < ij' /\ x <= ij'
    BY <2>1, <1>3
  <2>2. \A x \in Res : (x - 1) * N \in Int /\ x * N \in Int
    BY ResAssumption
  <2>3. \A x \in Res : HasGroup(x)' = HasGroup(x)
    BY <1>2 DEF HasGroup
  <2> QED
    BY <2>1, <2>2, <2>3, <1>1, <1>2 DEF Groups
<1>10. Compared'
  <2>1. \A x, y : (Apart(x, y)' <=> Apart(x, y)) /\ (Comparable(x, y)' <=> Comparable(x, y))
    BY <1>2 DEF Apart, Comparable, GroupCmp, Chunk
  <2>2. ASSUME Acyclic(es), NEW x \in Res, NEW y \in vs, Index(x, y) < q + 1, Apart(x, y)
        PROVE  Comparable(owner[x], y)
    <3>1. Index(x, y) \in Int
      BY <1>1, Types, IndexOf
    <3>2. CASE Index(x, y) < ij
      BY <3>2, <2>2, <1>1 DEF Compared
    <3>3. CASE ij <= Index(x, y)
      <4>1. x = v /\ y = w /\ x \in vs
        BY <3>3, <2>2, <1>1, OnlyChosen
      <4>2. Comparable(v, w)
        BY <4>1, <2>2, <1>1, <1>2, ApartIsOrdered
      <4>3. owner[x] = x
        BY <4>1, <1>1, Types
      <4> HIDE DEF v, w
      <4> QED
        BY <4>1, <4>2, <4>3
    <3> QED
      BY <3>1, <3>2, <3>3, <1>3
  <2> QED
    BY <2>1, <2>2, <1>2 DEF Compared, Index
<1> QED
  BY <1>5, <1>6, <1>7, <1>8, <1>9, <1>10 DEF IInv

(***************************************************************************)
(* A merge                                                                 *)
(***************************************************************************)

\* What a merge does, in terms of the order: v and w were apart, and the two become one.
Merges(v, w, q) ==
    /\ v \in vs /\ w \in vs /\ v # w /\ GroupCmp(v, w) /\ ~Comparable(v, w)
    /\ vs' = vs \ {w} /\ owner' = [u \in Res |-> Onto(v, w)[owner[u]]]
    /\ MergedWell(v, w, [es |-> es', notify |-> notify'])
    /\ sema' = [sema EXCEPT ![v] = sema[v] \cup sema[w]]
    /\ DOMAIN descendants' = {} /\ kind' = kind /\ loaded' = loaded /\ auto' = auto
    /\ pc = "group" /\ pc' = "group" /\ Chosen(q) /\ v = Vi(q) /\ w = Vj(q) /\ ij' = q + 1

LEMMA NoCache == DOMAIN <<>> = {}
<1>1. <<>> \in Seq(Res) /\ Len(<<>>) = 0
  OBVIOUS
<1>2. DOMAIN <<>> = 1..Len(<<>>)
  BY <1>1
<1> QED
  BY <1>1, <1>2

LEMMA MergeMerges ==
    ASSUME TypeOK, Started, CacheCorrect, pc = "group", NEW q, Chosen(q), ij' = q + 1,
           Merge(Vi(q), Vj(q)), UNCHANGED <<pc, kind, loaded, auto>>
    PROVE  Merges(Vi(q), Vj(q), q)
<1> DEFINE v == Vi(q)
           w == Vj(q)
<1>1. v \in vs /\ w \in vs /\ v \in Res /\ w \in Res
  BY Types DEF Chosen
<1>2. Merge(v, w)
  OBVIOUS
<1>3. Chosen(q) /\ v = Vi(q) /\ w = Vj(q)
  OBVIOUS
<1> HIDE DEF v, w
<1>4. v # w /\ GroupCmp(v, w) /\ VertexViable(v, w) /\ vs' = vs \ {w}
  BY <1>2 DEF Merge, VertexCmp
<1>5. ~Comparable(v, w)
  <2>1. Right(descendants)
    BY DEF TypeOK, CacheCorrect, Right
  <2> QED
    BY <1>1, <1>4, <2>1, LookedRight
<1>6. PICK g \in VertexMerge(v, w) : es' = g.es /\ notify' = g.notify
  BY <1>2 DEF Merge
<1>7. Mergeable(v, w)
  <2>1. <<v, w>> \notin es /\ <<w, v>> \notin es
    BY <1>5, Types, BelowStarts DEF Comparable
  <2>2. \A e \in es : e[1] # e[2]
    BY DEF Started
  <2> QED
    BY <1>1, <1>4, <2>1, <2>2, Types DEF Mergeable
<1>8. MergedWell(v, w, [es |-> es', notify |-> notify'])
  <2>1. MergedWell(v, w, g)
    BY <1>5, <1>7, VertexMergeWell DEF Comparable
  <2> QED
    BY <2>1, <1>6 DEF MergedWell
<1>9. owner' = [u \in Res |-> Onto(v, w)[owner[u]]]
  <2>1. owner' = [u \in Res |-> IF owner[u] = w THEN v ELSE owner[u]]
    BY <1>2 DEF Merge
  <2>2. \A u \in Res : Onto(v, w)[owner[u]] = IF owner[u] = w THEN v ELSE owner[u]
    BY Types DEF Onto
  <2> QED
    BY <2>1, <2>2
<1>10. sema' = [sema EXCEPT ![v] = sema[v] \cup sema[w]] /\ DOMAIN descendants' = {}
  <2>1. sema' = [sema EXCEPT ![v] = sema[v] \cup sema[w]] /\ descendants' = <<>>
    BY <1>2 DEF Merge, Semas, VertexTest
  <2> QED
    BY <2>1, NoCache
<1> QED
  BY <1>1, <1>3, <1>4, <1>5, <1>8, <1>9, <1>10 DEF Merges

LEMMA MergedTypes ==
    ASSUME TypeOK, Started, NEW v, NEW w, NEW q, Merges(v, w, q)
    PROVE  TypeOK' /\ Started'
<1>1. /\ v \in vs /\ w \in vs /\ v # w /\ v \in Res /\ w \in Res /\ vs \in SUBSET Res /\ vs' = vs \ {w}
      /\ owner \in [Res -> vs] /\ (\A x \in vs : owner[x] = x) /\ pc' = "group"
  BY Types DEF Merges
<1>2. \A u \in Res : owner'[u] = IF owner[u] = w THEN v ELSE owner[u]
  BY <1>1 DEF Merges, Onto
<1>3. owner' \in [Res -> vs'] /\ \A x \in vs' : owner'[x] = x
  <2>1. owner' \in [Res -> vs']
    <3>1. \A u \in Res : owner'[u] \in vs'
      BY <1>1, <1>2
    <3>2. owner' = [u \in Res |-> owner'[u]]
      BY DEF Merges
    <3> QED
      BY <3>1, <3>2
  <2> QED
    BY <2>1, <1>1, <1>2
<1>4. sema \in [Res -> SUBSET Res] /\ \A x \in vs : sema[x] = {u \in Res : owner[u] = x}
  BY DEF Started, TypeOK
<1>5. sema' \in [Res -> SUBSET Res] /\ sema'[v] = sema[v] \cup sema[w] /\ \A x \in vs : x # v => sema'[x] = sema[x]
  BY <1>1, <1>4 DEF Merges
<1>6. ASSUME NEW x \in vs' PROVE sema'[x] = {u \in Res : owner'[u] = x}
  <2>1. CASE x = v
    BY <2>1, <1>1, <1>2, <1>4, <1>5
  <2>2. CASE x # v
    <3>1. \A u \in Res : owner'[u] = x <=> owner[u] = x
      BY <2>2, <1>1, <1>2, <1>6
    <3> QED
      BY <3>1, <2>2, <1>1, <1>4, <1>5
  <2> QED
    BY <2>1, <2>2
<1>7. ij' \in 0..(N * N)
  <2>1. q \in Nat /\ q + 1 <= N * N
    BY ChosenRow DEF Merges
  <2> QED
    BY <2>1, Types DEF Merges
<1>8. es' \subseteq vs' \X vs' /\ notify' \subseteq es' /\ \A e \in es' : e[1] # e[2]
  BY <1>1 DEF Merges, MergedWell
<1>9. DOMAIN descendants' \subseteq vs' /\ vs' \subseteq Res
  BY <1>1 DEF Merges
<1>10. TypeOK'
  BY <1>1, <1>3, <1>6, <1>7, <1>8, <1>9 DEF TypeOK
<1>11. Started'
  BY <1>1, <1>5, <1>8 DEF Started, Merges
<1> QED
  BY <1>10, <1>11

LEMMA MergedOrder ==
    ASSUME TypeOK, Started, CycleKept, InOrder, Notified, NEW v, NEW w, NEW q, Merges(v, w, q)
    PROVE  CycleKept' /\ InOrder' /\ Notified'
<1> DEFINE f == Onto(v, w)
<1>1. /\ Asked' = Asked /\ loaded' = loaded /\ auto' = auto
      /\ owner \in [Res -> Res] /\ \A u \in Res : owner'[u] = f[owner[u]]
  BY Types DEF Merges, Asked
<1>2. /\ Acyclic(es') <=> Acyclic(es)
      /\ Acyclic(es) => \A a \in Res :
           /\ \A b \in Below(es, a) : f[b] \in Below(es', f[a])
           /\ \A b \in Below(notify, a) : f[b] \in Below(notify', f[a])
  BY DEF Merges, MergedWell
<1>3. /\ \A e \in Asked : e[1] \in Res /\ e[2] \in Res
      /\ \A e \in loaded.notify \ auto : e[1] \in Res /\ e[2] \in Res
  BY DEF Started, Asked, Pairs
<1> HIDE DEF f
<1>4. CycleKept'
  BY <1>1, <1>2 DEF CycleKept
<1>5. ASSUME Acyclic(Asked), NEW e \in Asked PROVE owner'[e[2]] \in Below(es', owner'[e[1]])
  <2>1. owner[e[2]] \in Below(es, owner[e[1]]) /\ Acyclic(es)
    BY <1>5 DEF InOrder, CycleKept
  <2>2. owner[e[1]] \in Res /\ e[1] \in Res /\ e[2] \in Res
    BY <1>1, <1>3
  <2>3. f[owner[e[2]]] \in Below(es', f[owner[e[1]]])
    BY <1>2, <2>1, <2>2
  <2> QED
    BY <1>1, <2>2, <2>3
<1>6. ASSUME Acyclic(Asked), NEW e \in loaded.notify \ auto PROVE owner'[e[2]] \in Below(notify', owner'[e[1]])
  <2>1. owner[e[2]] \in Below(notify, owner[e[1]]) /\ Acyclic(es)
    BY <1>6 DEF Notified, CycleKept
  <2>2. owner[e[1]] \in Res /\ e[1] \in Res /\ e[2] \in Res
    BY <1>1, <1>3
  <2>3. f[owner[e[2]]] \in Below(notify', f[owner[e[1]]])
    BY <1>2, <2>1, <2>2
  <2> QED
    BY <1>1, <2>2, <2>3
<1>7. InOrder'
  BY <1>1, <1>5 DEF InOrder
<1>8. Notified'
  BY <1>1, <1>6 DEF Notified
<1> QED
  BY <1>4, <1>7, <1>8

LEMMA MergedGroups ==
    ASSUME TypeOK, Started, Groups, NEW v, NEW w, NEW q, Merges(v, w, q)
    PROVE  Groups'
<1>1. /\ v \in vs /\ w \in vs /\ v # w /\ v \in Res /\ w \in Res /\ vs' = vs \ {w} /\ kind' = kind
      /\ kind \in Kinds /\ GroupCmp(v, w) /\ Chosen(q) /\ v = Vi(q) /\ ij' = q + 1
  BY Types DEF Merges, Started
<1>2. \A u \in Res : owner'[u] = IF owner[u] = w THEN v ELSE owner[u]
  BY <1>1, Types DEF Merges, Onto
<1>3. q \in Nat /\ ij \in Nat /\ ij <= q /\ (v - 1) * N <= q /\ \A x \in Res : x < v => x * N <= q
  BY <1>1, ChosenRow, Types
<1>4. \A x \in Res : x \in Int /\ (x - 1) * N \in Int /\ x * N \in Int
  BY ResAssumption
<1>5. ASSUME NEW x \in Res, HasGroup(x)' PROVE (x - 1) * N < ij'
  <2>1. CASE x = v
    BY <2>1, <1>1, <1>3, <1>4
  <2>2. CASE x # v
    <3>1. HasGroup(x)
      BY <2>2, <1>2, <1>5 DEF HasGroup
    <3>2. (x - 1) * N < ij
      BY <3>1 DEF Groups
    <3> QED
      BY <3>2, <1>1, <1>3, <1>4
  <2> QED
    BY <2>1, <2>2
<1>6. ASSUME NEW x \in Res, kind[x] = <<"pkg">> PROVE kind[owner'[x]] = <<"pkg">>
  <2>1. kind[owner[x]] = <<"pkg">>
    BY <1>6 DEF Groups
  <2>2. CASE owner[x] = w
    <3>1. kind[v] = <<"pkg">>
      BY <2>1, <2>2, <1>1, GroupKinds
    <3> QED
      BY <2>2, <3>1, <1>2
  <2> QED
    BY <2>1, <2>2, <1>2
<1>7. ASSUME NEW x \in Res \ vs', kind[x] # <<"pkg">> PROVE x * N <= ij'
  <2>1. CASE x = w
    <3>1. Len(kind[w]) = Len(kind[v]) + 1
      BY <2>1, <1>1, <1>7, GroupKinds
    <3>2. Len(kind[v]) \in Nat /\ (v < w => Len(kind[v]) >= Len(kind[w]))
      BY <1>1, KindTypes
    <3>3. w < v
      BY <3>1, <3>2, <1>1, <1>4
    <3>4. w * N <= q
      BY <3>3, <1>1, <1>3
    <3> QED
      BY <3>4, <2>1, <1>1, <1>3, <1>4
  <2>2. CASE x # w
    <3>1. x * N <= ij
      BY <2>2, <1>1, <1>7 DEF Groups
    <3> QED
      BY <3>1, <1>1, <1>3, <1>4
  <2> QED
    BY <2>1, <2>2
<1> QED
  BY <1>1, <1>5, <1>6, <1>7 DEF Groups

LEMMA MergedCompared ==
    ASSUME TypeOK, Started, Groups, Compared, NEW v, NEW w, NEW q, Merges(v, w, q)
    PROVE  Compared'
<1> DEFINE f == Onto(v, w)
<1>1. /\ v \in Res /\ w \in Res /\ vs' = vs \ {w} /\ kind' = kind /\ vs \in SUBSET Res
      /\ Chosen(q) /\ w = Vj(q) /\ ij' = q + 1
      /\ owner \in [Res -> Res] /\ \A u \in Res : owner'[u] = f[owner[u]]
  BY Types DEF Merges
<1>2. /\ Acyclic(es') <=> Acyclic(es)
      /\ Acyclic(es) => \A a \in Res : \A b \in Below(es, a) : f[b] \in Below(es', f[a])
  BY DEF Merges, MergedWell
<1>3. \A x \in Res : x # w => f[x] = x
  BY <1>1, OntoType
<1>4. \A x, y : Apart(x, y)' => Apart(x, y)
  BY <1>1 DEF Apart, GroupCmp, Chunk
<1> HIDE DEF f
<1>5. SUFFICES ASSUME Acyclic(es'), NEW x \in Res, NEW y \in vs', Index(x, y) < q + 1, Apart(x, y)
               PROVE  y \in Below(es', owner'[x]) \/ owner'[x] \in Below(es', y)
  BY <1>1, <1>4 DEF Compared, Comparable, Index
<1>6. y \in vs /\ y \in Res /\ y # w /\ owner[x] \in Res
  BY <1>1
<1>7. Comparable(owner[x], y)
  <2>1. Index(x, y) \in Int /\ ij \in Int
    BY <1>6, Types, IndexOf
  <2>2. CASE Index(x, y) < ij
    BY <2>2, <1>2, <1>5, <1>6 DEF Compared
  <2>3. CASE ij <= Index(x, y)
    <3>1. y = Vj(q)
      BY <2>3, <1>1, <1>5, <1>6, OnlyChosen
    <3> QED
      BY <3>1, <1>1, <1>6
  <2> QED
    BY <2>1, <2>2, <2>3
<1>8. f[y] = y /\ f[owner[x]] = owner'[x]
  BY <1>1, <1>3, <1>6
<1>9. f[y] \in Below(es', f[owner[x]]) \/ f[owner[x]] \in Below(es', f[y])
  BY <1>2, <1>5, <1>6, <1>7 DEF Comparable
<1> QED
  BY <1>8, <1>9

\* one turn that merges two vertices
LEMMA MergeKeeps ==
    ASSUME IInv, pc = "group", NEW q, Chosen(q), ij' = q + 1, Merge(Vi(q), Vj(q)),
           UNCHANGED <<pc, kind, loaded, auto>>
    PROVE  IInv'
<1>1. /\ TypeOK /\ Started /\ Validated /\ CacheCorrect /\ CycleKept /\ InOrder /\ Notified
      /\ Groups /\ Compared
  BY DEF IInv
<1>2. Merges(Vi(q), Vj(q), q)
  BY <1>1, MergeMerges
<1>3. TypeOK' /\ Started'
  BY <1>1, <1>2, MergedTypes
<1>4. CycleKept' /\ InOrder' /\ Notified'
  BY <1>1, <1>2, MergedOrder
<1>5. Groups'
  BY <1>1, <1>2, MergedGroups
<1>6. Compared'
  BY <1>1, <1>2, MergedCompared
<1>7. Validated'
  BY <1>2 DEF Validated, Merges
<1>8. CacheCorrect'
  BY <1>2 DEF CacheCorrect, Merges
<1> QED
  BY <1>3, <1>4, <1>5, <1>6, <1>7, <1>8 DEF IInv

(***************************************************************************)
(* The invariant is inductive                                              *)
(***************************************************************************)

\* a dag in the sense of the model has no cycle
LEMMA DagIs ==
    ASSUME TypeOK, Started
    PROVE  /\ IsDag(vs, es) <=> Acyclic(es)
           /\ IsDag(Res, Asked) <=> Acyclic(Asked)
           /\ TopologicalSort(vs, es) # {} => Acyclic(es)
<1>1. Asked \in SUBSET (Res \X Res) /\ Res \in SUBSET Res
  BY DEF Started, Asked, Pairs
<1>2. vs \in SUBSET Res /\ es \in SUBSET (vs \X vs)
  BY Types
<1>3. IsDag(vs, es) <=> Acyclic(es)
  BY <1>2, DagIsAcyclic
<1>4. IsDag(Res, Asked) <=> Acyclic(Asked)
  BY <1>1, DagIsAcyclic
<1>5. TopologicalSort(vs, es) # {} => IsDag(vs, es)
  BY <1>2, SortMeansDag
<1> QED
  BY <1>3, <1>4, <1>5

\* before grouping every vertex is its own group, and each edge orders its ends
Alone ==
    /\ vs = Res /\ owner = [v \in Res |-> v] /\ ij = 0 /\ DOMAIN descendants = {}
    /\ es = Asked /\ notify = loaded.notify \ auto
    /\ Asked \subseteq Pairs /\ loaded.notify \subseteq loaded.es

LEMMA Ungrouped == Alone => CacheCorrect /\ CycleKept /\ InOrder /\ Notified /\ Groups /\ Compared
<1> SUFFICES ASSUME Alone PROVE CacheCorrect /\ CycleKept /\ InOrder /\ Notified /\ Groups /\ Compared
  OBVIOUS
<1> USE DEF Alone
<1>1. es \in Edges /\ notify \in Edges /\ \A e \in Asked : e[1] \in Res /\ e[2] \in Res /\ e = <<e[1], e[2]>>
  BY DEF Edges, Asked, Pairs
<1>2. \A v \in Res : owner[v] = v /\ ~HasGroup(v)
  BY DEF HasGroup
<1>3. CacheCorrect /\ CycleKept
  BY DEF CacheCorrect, CycleKept
<1>4. InOrder
  <2>1. ASSUME NEW e \in Asked PROVE owner[e[2]] \in Below(es, owner[e[1]])
    <3>1. e[2] \in Below(es, e[1])
      BY <1>1, BelowStarts
    <3> QED
      BY <3>1, <1>1, <1>2
  <2> QED
    BY <2>1 DEF InOrder
<1>5. Notified
  <2>1. ASSUME NEW e \in loaded.notify \ auto PROVE owner[e[2]] \in Below(notify, owner[e[1]])
    <3>1. e \in Asked /\ e \in notify
      BY DEF Asked
    <3>2. e[2] \in Below(notify, e[1])
      BY <3>1, <1>1, BelowStarts
    <3> QED
      BY <3>1, <3>2, <1>1, <1>2
  <2> QED
    BY <2>1 DEF Notified
<1>6. Groups
  BY <1>2 DEF Groups
<1>7. Compared
  <2>1. \A v, w \in Res : Index(v, w) \in 0..(N * N - 1)
    BY IndexOf
  <2>2. \A v, w \in Res : ~(Index(v, w) < ij)
    <3>1. \A k \in 0..(N * N - 1) : ~(k < 0)
      OBVIOUS
    <3> QED
      BY <2>1, <3>1
  <2> QED
    BY <2>2 DEF Compared
<1> QED
  BY <1>3, <1>4, <1>5, <1>6, <1>7

LEMMA InitHolds ==
    ASSUME Init
    PROVE  IInv
<1>1. PICK e \in SUBSET Pairs :
        loaded \in [es : {e}, notify : UNION {kSubset(k, e) : k \in 0..Min({MaxNotify, Cardinality(e)})}]
  BY DEF Init
<1>2. loaded.es = e /\ loaded.notify \subseteq e
  BY <1>1 DEF kSubset
<1>3. /\ pc = "edges" /\ kind \in Kinds /\ auto = {} /\ vs = Res /\ es = loaded.es /\ notify = loaded.notify
      /\ ij = 0 /\ owner = [v \in Res |-> v] /\ sema = [v \in Res |-> {v}] /\ descendants = <<>>
  BY DEF Init
<1>4. DOMAIN descendants = {}
  BY <1>3, NoCache
<1>5. Started
  BY <1>1, <1>2, <1>3, <1>4 DEF Started, Pairs
<1>6. TypeOK
  <2>1. ij \in 0..(N * N)
    <3>1. N \in Nat /\ N * N \in Nat
      BY ResAssumption
    <3> QED
      BY <3>1, <1>3
  <2>2. vs \subseteq Res /\ es \subseteq vs \X vs /\ notify \subseteq es
    BY <1>1, <1>2, <1>3 DEF Pairs
  <2>3. owner \in [Res -> vs] /\ \A v \in vs : owner[v] = v /\ sema[v] = {u \in Res : owner[u] = v}
    BY <1>3
  <2> QED
    BY <2>1, <2>2, <2>3, <1>3, <1>4 DEF TypeOK
<1>7. Validated
  BY <1>3 DEF Validated
<1>8. es = Asked /\ notify = loaded.notify \ auto /\ Asked \subseteq Pairs /\ loaded.notify \subseteq loaded.es
  BY <1>1, <1>2, <1>3 DEF Asked
<1>9. Alone
  BY <1>3, <1>4, <1>8 DEF Alone
<1> QED
  BY <1>5, <1>6, <1>7, <1>9, Ungrouped DEF IInv

LEMMA AutoEdgeKeeps ==
    ASSUME IInv, AutoEdge
    PROVE  IInv'
<1>1. TypeOK /\ Started
  BY DEF IInv
<1>2. /\ pc = "edges" /\ pc' \in {"group", "check"} /\ kind' = kind /\ loaded' = loaded /\ vs' = vs /\ ij' = ij
      /\ descendants' = descendants /\ owner' = owner /\ sema' = sema
  BY DEF AutoEdge
<1>3. /\ kind \in Kinds /\ sema \in [Res -> SUBSET Res] /\ loaded.es \subseteq Pairs
      /\ loaded.notify \subseteq loaded.es /\ ij = 0 /\ auto = {} /\ vs = Res /\ es = loaded.es
      /\ notify = loaded.notify /\ DOMAIN descendants = {} /\ owner = [v \in Res |-> v]
  BY <1>1, <1>2 DEF Started
<1>4. PICK found \in SUBSET UNION {AutoEdges(v) : v \in Res} :
        auto' = found /\ es' = es \cup found /\ notify' = notify \ found
  BY DEF AutoEdge
<1>5. found \subseteq Pairs
  <2>1. \A v \in Res : AutoEdges(v) \subseteq Pairs
    BY DEF AutoEdges
  <2> QED
    BY <2>1
<1>6. /\ es' = Asked' /\ notify' = loaded'.notify \ auto' /\ Asked' \subseteq Pairs
      /\ loaded'.notify \subseteq loaded'.es
  BY <1>2, <1>3, <1>4, <1>5 DEF Asked
<1>7. CacheCorrect' /\ CycleKept' /\ InOrder' /\ Notified' /\ Groups' /\ Compared'
  <2>1. Alone'
    BY <1>2, <1>3, <1>6 DEF Alone
  <2> QED
    BY <2>1, Ungrouped, PTL
<1>8. Started'
  BY <1>2, <1>3, <1>4, <1>5 DEF Started, Pairs
<1>9. TypeOK'
  <2>1. es' \subseteq vs' \X vs' /\ notify' \subseteq es'
    BY <1>2, <1>3, <1>4, <1>5 DEF Pairs
  <2> QED
    BY <2>1, <1>1, <1>2 DEF TypeOK
<1>10. Validated'
  BY <1>2, <1>3 DEF Validated
<1> QED
  BY <1>7, <1>8, <1>9, <1>10 DEF IInv

LEMMA GroupKeeps ==
    ASSUME IInv, Group
    PROVE  IInv'
<1> DEFINE q == Min(VertexNext(ij))
<1>1. /\ pc = "group" /\ VertexNext(ij) # {} /\ ij' = q + 1 /\ UNCHANGED <<pc, kind, loaded, auto>>
      /\ Merge(Vi(q), Vj(q)) \/ Skip(Vi(q), Vj(q))
  BY DEF Group
<1>2. Chosen(q)
  BY <1>1, MinChosen DEF IInv
<1> HIDE DEF q
<1>3. CASE Merge(Vi(q), Vj(q))
  BY <1>1, <1>2, <1>3, MergeKeeps
<1>4. CASE Skip(Vi(q), Vj(q))
  BY <1>1, <1>2, <1>4, SkipKeeps
<1> QED
  BY <1>1, <1>3, <1>4

\* a step that leaves the graph as it is, and ij too unless no pair is left
LEMMA RestKeeps ==
    ASSUME IInv, UNCHANGED <<kind, loaded, auto, vs, es, notify, descendants, owner, sema>>,
           pc' \in {"group", "check", "ready", "aborted"} \/ pc' = pc,
           ij' = ij \/ (ij' = N * N /\ VertexNext(ij) = {}), ij' = ij \/ pc' # "edges",
           Validated'
    PROVE  IInv'
<1>1. /\ TypeOK /\ Started /\ CacheCorrect /\ CycleKept /\ InOrder /\ Notified /\ Groups /\ Compared
  BY DEF IInv
<1>2. /\ vs' = vs /\ es' = es /\ notify' = notify /\ owner' = owner /\ sema' = sema
      /\ kind' = kind /\ loaded' = loaded /\ auto' = auto /\ descendants' = descendants
  OBVIOUS
<1>3. ij \in Nat /\ N \in Nat /\ N * N \in Nat /\ ij' \in 0..(N * N) /\ ij <= ij'
  <2>1. N \in Nat /\ N * N \in Nat /\ ij \in Nat /\ ij <= N * N
    BY <1>1, Types
  <2> QED
    BY <2>1
<1>4. TypeOK'
  BY <1>1, <1>2, <1>3 DEF TypeOK
<1>5. Started'
  BY <1>1, <1>2 DEF Started
<1>6. CacheCorrect' /\ CycleKept' /\ InOrder' /\ Notified'
  BY <1>1, <1>2 DEF CacheCorrect, CycleKept, InOrder, Notified, Asked
<1>7. Groups'
  <2>1. ASSUME NEW x \in Int, x < ij \/ x <= ij PROVE x <= ij' /\ (x < ij => x < ij')
    BY <2>1, <1>3
  <2>2. \A x \in Res : (x - 1) * N \in Int /\ x * N \in Int
    BY ResAssumption
  <2>3. \A x \in Res : HasGroup(x)' = HasGroup(x)
    BY <1>2 DEF HasGroup
  <2> QED
    BY <2>1, <2>2, <2>3, <1>1, <1>2 DEF Groups
<1>8. Compared'
  <2>1. \A x, y : (Apart(x, y)' <=> Apart(x, y)) /\ (Comparable(x, y)' <=> Comparable(x, y))
    BY <1>2 DEF Apart, Comparable, GroupCmp, Chunk
  <2>2. ASSUME Acyclic(es), NEW x \in Res, NEW y \in vs, Index(x, y) < ij', Apart(x, y)
        PROVE  Comparable(owner[x], y)
    <3>1. Index(x, y) \in Int
      BY <1>1, Types, IndexOf
    <3>2. CASE Index(x, y) < ij
      BY <3>2, <2>2, <1>1 DEF Compared
    <3>3. CASE ij <= Index(x, y)
      <4>1. Index(x, y) \in VertexNext(ij)
        BY <3>3, <2>2, <1>1, NotSkipped
      <4>2. ij' = ij
        BY <4>1
      <4> QED
        BY <4>2, <3>1, <3>3, <2>2, <1>3
    <3> QED
      BY <3>1, <3>2, <3>3, <1>3
  <2> QED
    BY <2>1, <2>2, <1>2 DEF Compared, Index
<1> QED
  BY <1>4, <1>5, <1>6, <1>7, <1>8 DEF IInv

LEMMA NextKeeps ==
    ASSUME IInv, [Next]_vars
    PROVE  IInv'
<1>1. TypeOK /\ Started /\ Validated /\ (TopologicalSort(vs, es) # {} => Acyclic(es))
  BY DagIs DEF IInv
<1>2. CASE AutoEdge
  BY <1>2, AutoEdgeKeeps
<1>3. CASE Group
  BY <1>3, GroupKeeps
<1>4. CASE Grouped
  <2>1. Validated'
    BY <1>1, <1>4 DEF Grouped, Validated
  <2> QED
    BY <1>4, <2>1, RestKeeps DEF Grouped
<1>5. CASE Check
  <2>1. Validated'
    BY <1>1, <1>5 DEF Check, Validated
  <2> QED
    BY <1>5, <2>1, RestKeeps DEF Check
<1>6. CASE Abort
  <2>1. Validated'
    BY <1>1, <1>6 DEF Abort, Validated
  <2> QED
    BY <1>6, <2>1, RestKeeps DEF Abort
<1>7. CASE UNCHANGED vars
  <2>1. Validated'
    BY <1>1, <1>7 DEF vars, Validated
  <2> QED
    BY <1>7, <2>1, RestKeeps DEF vars
<1> QED
  BY <1>2, <1>3, <1>4, <1>5, <1>6, <1>7 DEF Next

\* IInv holds in every state.
LEMMA IInvHolds == Spec => []IInv
<1>1. Init => IInv
  BY InitHolds
<1>2. IInv /\ [Next]_vars => IInv'
  BY NextKeeps
<1> QED
  BY <1>1, <1>2, PTL DEF Spec

(***************************************************************************)
(* The theorems                                                            *)
(***************************************************************************)

\* Every variable keeps its type, for any number of resources: a vertex that VertexMerge
\* removed has no edge left, and each group holds the semaphores of all its members.
THEOREM PendingTypes == Spec => []TypeOK
<1>1. IInv => TypeOK
  BY DEF IInv
<1> QED
  BY <1>1, IInvHolds, PTL

\* AutoGroup keeps the order.  If the edges of the program and AutoEdge have no cycle,
\* then after any number of merges there is none, and every edge that was asked for is
\* still an order of the groups of its ends: VertexMerge drops an edge only where a path
\* stands for it, and a pair is merged only if neither vertex is below the other.
THEOREM OrderStays == Spec => []OrderKept
<1>1. IInv => OrderKept
  <2> SUFFICES ASSUME IInv, IsDag(Res, Asked)
               PROVE  IsDag(vs, es) /\ \A e \in Asked : owner[e[2]] \in Descendants(vs, es, owner[e[1]])
    BY DEF OrderKept
  <2>1. TypeOK /\ Started /\ CycleKept /\ InOrder
    BY DEF IInv
  <2>2. Acyclic(Asked) /\ Acyclic(es) /\ IsDag(vs, es)
    BY <2>1, DagIs DEF CycleKept
  <2>3. \A x : Descendants(vs, es, x) = Below(es, x)
    BY <2>1, Types, DescendantsAreBelow
  <2> QED
    BY <2>1, <2>2, <2>3 DEF InOrder
<1> QED
  BY <1>1, IInvHolds, PTL

\* A notification arrives after any number of merges: edgeMergeFn makes every edge of
\* the path notify that an edge is merged into.
THEOREM NotifyStays == Spec => []NotifyKept
<1>1. IInv => NotifyKept
  <2> SUFFICES ASSUME IInv, IsDag(Res, Asked), NEW e \in loaded.notify \ auto
               PROVE  owner[e[2]] \in Descendants(vs, notify, owner[e[1]])
    BY DEF NotifyKept
  <2>1. TypeOK /\ Started /\ Notified
    BY DEF IInv
  <2>2. Acyclic(Asked)
    BY <2>1, DagIs
  <2>3. \A x : Descendants(vs, notify, x) = Below(notify, x)
    BY <2>1, Types, DescendantsAreBelow
  <2> QED
    BY <2>1, <2>2, <2>3 DEF Notified
<1> QED
  BY <1>1, IInvHolds, PTL

\* The main loop hands over only a DAG, and one that was asked for without a cycle:
\* TopologicalSort finds every cycle, and no merge hides one that AutoEdge closed.
THEOREM OnlyDags == Spec => []OnlyDagsRun
<1>1. IInv => OnlyDagsRun
  <2> SUFFICES ASSUME IInv, pc = "ready" PROVE IsDag(vs, es) /\ IsDag(Res, Asked)
    BY DEF OnlyDagsRun
  <2>1. TypeOK /\ Started /\ Acyclic(es) /\ Acyclic(Asked)
    BY DEF IInv, Validated, CycleKept
  <2> QED
    BY <2>1, DagIs
<1> QED
  BY <1>1, IInvHolds, PTL

\* One pass of AutoGroup over the pairs is enough.  A vertex that is left although
\* GroupCmp would put it into the group of another one is ordered before or after that
\* group, although the groups grow after the pair was looked at.
THEOREM GroupingComplete == Spec => []GroupedAsFarAsPossible
<1>1. IInv => GroupedAsFarAsPossible
  <2> SUFFICES ASSUME IInv, pc \in {"check", "ready"}, ij = N * N, NEW w \in vs, NEW v \in Res,
                      GroupCmp(v, w), owner[v] # w
               PROVE  w \in Descendants(vs, es, owner[v]) \/ owner[v] \in Descendants(vs, es, w)
    BY DEF GroupedAsFarAsPossible
  <2>1. TypeOK /\ Started /\ Validated /\ Groups /\ Compared
    BY DEF IInv
  <2>2. \A x : Descendants(vs, es, x) = Below(es, x)
    BY <2>1, Types, DescendantsAreBelow
  <2>3. Acyclic(es)
    <3>1. N \in Nat \ {0}
      BY ResAssumption
    <3>2. N * N # 0
      BY <3>1
    <3> QED
      BY <2>1, <3>2 DEF Validated
  <2>4. /\ w \in Res /\ kind \in Kinds /\ owner[v] \in vs /\ owner[v] \in Res /\ vs \in SUBSET Res
        /\ \A x \in vs : owner[x] = x
    BY <2>1, Types DEF Started
  <2>5. ASSUME NEW x \in Res, NEW y \in vs, Apart(x, y) PROVE Comparable(owner[x], y)
    <3>1. y \in Res /\ ij \in Int
      BY <2>1, <2>4, Types
    <3>2. Index(x, y) \in 0..(N * N - 1)
      BY <3>1, IndexOf
    <3>3. Index(x, y) < ij
      BY <3>1, <3>2
    <3> QED
      BY <3>3, <2>1, <2>3, <2>5 DEF Compared
  <2>6. CASE kind[v] = <<"pkg">> /\ kind[w] = <<"pkg">>
    <3> DEFINE a == owner[v]
    <3>1. kind[a] = <<"pkg">> /\ owner[a] = a /\ owner[w] = w /\ a # w /\ a \in Int /\ w \in Int
      BY <2>1, <2>4, <2>6, ResAssumption DEF Groups
    <3>2. a \in vs /\ a \in Res
      BY <2>4
    <3> HIDE DEF a
    <3>3. CASE a < w
      <4>1. Apart(a, w)
        BY <3>1, <3>2, <3>3, <2>6 DEF Apart, GroupCmp
      <4>2. Comparable(owner[a], w)
        BY <4>1, <3>2, <2>5
      <4> QED
        BY <4>2, <3>1, <2>2 DEF Comparable, a
    <3>4. CASE w < a
      <4>1. Apart(w, a)
        BY <3>1, <3>2, <3>4, <2>6 DEF Apart, GroupCmp
      <4>2. Comparable(owner[w], a)
        BY <4>1, <3>2, <2>4, <2>5
      <4> QED
        BY <4>2, <3>1, <2>2 DEF Comparable, a
    <3> QED
      BY <3>1, <3>3, <3>4
  <2>7. CASE kind[v] # kind[w]
    <3>1. Apart(v, w)
      BY <2>7 DEF Apart
    <3> QED
      BY <3>1, <2>2, <2>5 DEF Comparable
  <2> QED
    BY <2>4, <2>6, <2>7, GroupKinds
<1> QED
  BY <1>1, IInvHolds, PTL

\* a graph that is turned down at the end was asked for with a cycle
TurnedDownForCycle == (Grouped \/ Check) /\ pc' = "aborted" => ~IsDag(Res, Asked)

\* There is no false alarm: AutoGroup and the main loop turn a graph down at the end only
\* if the edges of the program and of AutoEdge have a cycle.  TopologicalSort finds an
\* order for every DAG, and no merge closes a cycle.
THEOREM NoFalseAlarm == Spec => [][TurnedDownForCycle]_vars
<1>1. IInv => [TurnedDownForCycle]_vars
  <2> SUFFICES ASSUME IInv, Grouped \/ Check, pc' = "aborted", IsDag(Res, Asked) PROVE FALSE
    BY DEF TurnedDownForCycle
  <2>1. TypeOK /\ Started /\ CycleKept
    BY DEF IInv
  <2>2. TopologicalSort(vs, es) = {}
    BY DEF Grouped, Check
  <2>3. IsDag(vs, es)
    BY <2>1, DagIs DEF CycleKept
  <2> QED
    BY <2>1, <2>2, <2>3, Types, DagIsSorted
<1> QED
  BY <1>1, IInvHolds, PTL
=============================================================================

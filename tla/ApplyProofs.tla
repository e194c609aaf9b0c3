----------------------------- MODULE ApplyProofs ----------------------------
(* Send/recv, CheckApply, the exports and the semaphores, for any values,    *)
(* hosts, semaphores and lists of them, and any sequence of events, graph    *)
(* swaps and failures.                                                       *)
EXTENDS Apply, TLAPS, FiniteSetTheorems, WellFoundedInduction

(***************************************************************************)
(* The inductive invariant                                                 *)
(***************************************************************************)

\* who holds semaphores: nobody who is idle, and all of them while it works
Holding ==
    \A v \in Vertex :
        /\ pos[v] \in 0..Len(Sema[v])
        /\ pc[v] = "idle" => pos[v] = 0
        /\ pc[v] \in {"body", "apply"} => HasAll(v)

\* the graph is swapped between two runs only
Phases ==
    /\ pc["s"] # "apply"
    /\ pc["r"] # "idle" => inGraph /\ sent # Nil
    /\ pc["r"] # "apply" => ca = "none" /\ ex = "none"
    /\ pc["r"] = "apply" => ex # "none" /\ todo \subseteq r.exports
    /\ mode = "up" /\ pc["r"] # "apply" => todo = {}
    /\ mode # "up" => \A v \in Vertex : pc[v] = "idle"
    /\ mode = "exit" => worldFailed

\* the flag of a value that CheckApply was told of is about to be cleared
Told == pc["r"] = "apply" /\ ca = "ok" => ~owed

\* what isStateOK says of the machine
Applied ==
    /\ r.isStateOK => ~r.changed
    /\ pc["r"] # "apply" /\ inGraph /\ r.isStateOK => machine = r.field
    /\ pc["r"] = "apply" => /\ r.isStateOK <=> ca = "skipped"
                            /\ ca \in {"skipped", "ok"} => machine = r.field

\* whoever has yet to run, or to run again, is due
Served ==
    /\ sent = Nil => "s" \in due \/ pc["s"] # "idle"
    /\ pc["r"] = "apply" => r.field = sent \/ "r" \in due
    /\ inGraph /\ pc["r"] = "idle" /\ "r" \notin due /\ sent # Nil =>
         r.field = sent /\ r.isStateOK

\* the hosts that the exporter knows of are those of the receiver
Known ==
    /\ DOMAIN cache \subseteq IF inGraph THEN r.exports ELSE {}
    /\ \A h \in DOMAIN cache : cache[h] \in BOOLEAN
    /\ prev \in [Hosts -> 0..MaxSwaps + 1] /\ \A h \in Hosts : prev[h] <= r.id
    /\ r.id <= swaps + 1
    /\ mode # "up" /\ inGraph => todo \cap r.exports = {}

\* what is cached or was written is in the world, and nothing else is
InWorld ==
    ~worldFailed =>
        /\ ex # "err"
        /\ inGraph => \A h \in r.exports :
             h \in DOMAIN cache /\ cache[h] /\ ~r.changed => world[h] = r.field
        /\ ex = "ok" => ~r.changed /\ \A h \in r.exports : h \in DOMAIN cache /\ cache[h]
        /\ ex \in {"write", "notok"} => \A h \in r.exports \ todo : world[h] = r.field
        /\ inGraph /\ pc["r"] = "idle" /\ "r" \notin due /\ sent # Nil =>
             \A h \in r.exports : world[h] = r.field
        /\ \A h \in Hosts : world[h] # Nil =>
             \/ h \in DOMAIN cache
             \/ ex \in {"write", "notok"} /\ h \in r.exports
             \/ mode # "up" /\ h \in todo

IInv ==
    /\ TypeOK /\ SemaphoresBalance /\ NotificationKept
    /\ Holding /\ Phases /\ Told /\ Applied /\ Served /\ Known /\ InWorld

(***************************************************************************)
(* Sorting a list of semaphores: it can be sorted, whatever it is, and the *)
(* sorted list has each semaphore as often as the list has.                *)
(***************************************************************************)

\* induction over the naturals, as the library's theorem of well-foundedness gives it
LEMMA LeastNumber ==
    ASSUME NEW T \in SUBSET Nat, T # {}
    PROVE  \E n \in T : \A m \in T : n <= m
<1> DEFINE R == {ss \in Nat \X Nat : ss[1] < ss[2]}
<1>1. PICK n \in T : \A m \in T : ~(<<m, n>> \in R)
  <2>1. IsWellFoundedOn(R, Nat)
    BY NatLessThanWellFounded DEF OpToRel
  <2> HIDE DEF R
  <2> QED
    BY <2>1, WFMin
<1>2. ASSUME NEW m \in T PROVE n <= m
  <2>1. <<m, n>> \in Nat \X Nat
    OBVIOUS
  <2> QED
    BY <1>1, <2>1
<1> QED
  BY <1>2

\* one more semaphore goes before the first one that is greater
LEMMA Insertion ==
    ASSUME NEW m \in Nat, NEW list \in [1..m + 1 -> Int], NEW q \in Bijection(1..m, 1..m),
           \A i, j \in 1..m : i < j => list[q[i]] <= list[q[j]]
    PROVE  \E p \in Bijection(1..m + 1, 1..m + 1) : Sorts(p, list)
<1> DEFINE K == {k \in 1..m + 1 : k = m + 1 \/ list[m + 1] < list[q[k]]}
<1>1. PICK k \in K : \A j \in K : k <= j
  <2>1. K \in SUBSET Nat /\ m + 1 \in K
    OBVIOUS
  <2> HIDE DEF K
  <2> QED
    BY <2>1, LeastNumber
<1>2. /\ q \in [1..m -> 1..m] /\ \A i, j \in 1..m : q[i] = q[j] => i = j
      /\ \A t \in 1..m : \E i \in 1..m : q[i] = t
  BY DEF Bijection, Injection, Surjection, IsInjective
<1>3. \A i \in 1..m : q[i] \in 1..m /\ q[i] \in 1..m + 1 /\ q[i] # m + 1
  <2>1. ASSUME NEW i \in 1..m PROVE q[i] \in 1..m
    BY <1>2
  <2> QED
    BY <2>1
<1>4. k \in 1..m + 1 /\ \A i \in 1..m : i < k => list[q[i]] <= list[m + 1]
  <2>1. ASSUME NEW i \in 1..m, i < k PROVE list[q[i]] <= list[m + 1]
    <3>1. i \notin K
      BY <1>1, <2>1
    <3> QED
      BY <1>2, <3>1
  <2> QED
    BY <2>1, <1>1
<1>5. ASSUME NEW i \in 1..m, k <= i PROVE list[m + 1] <= list[q[i]]
  <2>1. k \in 1..m /\ list[m + 1] < list[q[k]] /\ (k < i \/ k = i)
    BY <1>1, <1>5
  <2>2. m + 1 \in 1..m + 1 /\ q[k] \in 1..m + 1 /\ q[i] \in 1..m + 1
    BY <2>1, <1>3
  <2>3. list[m + 1] \in Int /\ list[q[k]] \in Int /\ list[q[i]] \in Int
    BY <2>2
  <2>4. list[q[k]] <= list[q[i]]
    BY <2>1, <2>3
  <2> QED
    BY <2>1, <2>3, <2>4
<1> HIDE DEF K
<1> DEFINE p == [i \in 1..m + 1 |-> IF i < k THEN q[i] ELSE IF i = k THEN m + 1 ELSE q[i - 1]]
<1>6. /\ \A i \in 1..m : i < k => p[i] = q[i]
      /\ p[k] = m + 1 /\ \A i \in 1..m + 1 : i > k => p[i] = q[i - 1] /\ i - 1 \in 1..m
      /\ DOMAIN p = 1..m + 1
  BY <1>4
<1>7. p \in [1..m + 1 -> 1..m + 1]
  <2>1. ASSUME NEW i \in 1..m + 1 PROVE p[i] \in 1..m + 1
    <3>1. CASE i < k
      BY <1>2, <1>4, <3>1
    <3>2. CASE i = k
      BY <3>2
    <3>3. CASE i > k
      <4>1. i - 1 \in 1..m /\ p[i] = q[i - 1]
        BY <1>6, <3>3
      <4> QED
        BY <4>1, <1>3
    <3> QED
      BY <3>1, <3>2, <3>3, <1>4
  <2> QED
    BY <2>1
<1> HIDE DEF p
<1>8. ASSUME NEW i \in 1..m + 1, NEW j \in 1..m + 1, i < j PROVE p[i] # p[j]
  <2>1. \A x \in 1..m : q[x] # m + 1
    BY <1>3
  <2>2. CASE j < k
    <3>1. i \in 1..m /\ j \in 1..m /\ p[i] = q[i] /\ p[j] = q[j] /\ i # j
      BY <1>4, <1>6, <1>8, <2>2
    <3> QED
      BY <3>1, <1>2
  <2>3. CASE j = k
    BY <1>4, <1>6, <1>8, <2>1, <2>3
  <2>4. CASE i < k /\ k < j
    <3>1. i \in 1..m /\ j - 1 \in 1..m /\ p[i] = q[i] /\ p[j] = q[j - 1] /\ i # j - 1
      BY <1>4, <1>6, <2>4
    <3> QED
      BY <3>1, <1>2
  <2>5. CASE i = k
    BY <1>4, <1>6, <1>8, <2>1, <2>5
  <2>6. CASE k < i
    <3>1. i - 1 \in 1..m /\ j - 1 \in 1..m /\ p[i] = q[i - 1] /\ p[j] = q[j - 1] /\ i # j
      BY <1>4, <1>6, <1>8, <2>6
    <3> QED
      BY <3>1, <1>2
  <2> QED
    BY <2>2, <2>3, <2>4, <2>5, <2>6, <1>4, <1>8
<1>9. ASSUME NEW t \in 1..m + 1 PROVE \E i \in 1..m + 1 : p[i] = t
  <2>1. CASE t = m + 1
    BY <2>1, <1>4, <1>6
  <2>2. CASE t \in 1..m
    <3>1. PICK i \in 1..m : q[i] = t
      BY <2>2, <1>2
    <3>2. CASE i < k
      BY <3>1, <3>2, <1>6
    <3>3. CASE i >= k
      <4>1. i + 1 \in 1..m + 1 /\ i + 1 > k /\ (i + 1) - 1 = i
        BY <3>3, <1>4
      <4> QED
        BY <3>1, <4>1, <1>6
    <3> QED
      BY <3>2, <3>3, <1>4
  <2> QED
    BY <2>1, <2>2
<1>10. p \in Bijection(1..m + 1, 1..m + 1)
  <2>1. \A i, j \in 1..m + 1 : p[i] = p[j] => i = j
    BY <1>8
  <2> QED
    BY <2>1, <1>6, <1>7, <1>9 DEF Bijection, Injection, Surjection, IsInjective
<1>11. ASSUME NEW i \in 1..m + 1, NEW j \in 1..m + 1, i < j PROVE list[p[i]] <= list[p[j]]
  <2>1. CASE j < k
    <3>1. i \in 1..m /\ j \in 1..m /\ p[i] = q[i] /\ p[j] = q[j]
      BY <1>4, <1>6, <1>11, <2>1
    <3> QED
      BY <3>1, <1>11
  <2>2. CASE j = k
    <3>1. i \in 1..m /\ i < k
      BY <1>4, <1>11, <2>2
    <3> QED
      BY <3>1, <1>4, <1>6, <2>2
  <2>3. CASE i < k /\ k < j
    <3>1. i \in 1..m /\ j - 1 \in 1..m /\ (i < j - 1 \/ i = j - 1) /\ p[i] = q[i] /\ p[j] = q[j - 1]
      BY <1>4, <1>6, <2>3
    <3>2. q[i] \in 1..m + 1 /\ list[q[i]] \in Int
      BY <3>1, <1>3
    <3> QED
      BY <3>1, <3>2
  <2>4. CASE i = k
    <3>1. j - 1 \in 1..m /\ k <= j - 1 /\ p[j] = q[j - 1] /\ p[i] = m + 1
      BY <1>4, <1>6, <1>11, <2>4
    <3> QED
      BY <3>1, <1>5
  <2>5. CASE k < i
    <3>1. i - 1 \in 1..m /\ j - 1 \in 1..m /\ i - 1 < j - 1 /\ p[i] = q[i - 1] /\ p[j] = q[j - 1]
      BY <1>4, <1>6, <1>11, <2>5
    <3> QED
      BY <3>1
  <2> QED
    BY <2>1, <2>2, <2>3, <2>4, <2>5, <1>4, <1>11
<1>12. Sorts(p, list)
  BY <1>11 DEF Sorts
<1> QED
  BY <1>10, <1>12

LEMMA CanSort ==
    ASSUME NEW n \in Nat, NEW list \in [1..n -> Int]
    PROVE  \E q \in Bijection(1..n, 1..n) : Sorts(q, list)
<1> DEFINE P(m) == \A l \in [1..m -> Int] : \E q \in Bijection(1..m, 1..m) : Sorts(q, l)
           T == {m \in Nat : ~P(m)}
<1>1. P(0)
  <2>1. ASSUME NEW l \in [1..0 -> Int] PROVE \E q \in Bijection(1..0, 1..0) : Sorts(q, l)
    <3> DEFINE q == [i \in 1..0 |-> i]
    <3>1. q \in Bijection(1..0, 1..0) /\ Sorts(q, l)
      BY DEF Bijection, Injection, Surjection, IsInjective, Sorts
    <3> QED
      BY <3>1
  <2> QED
    BY <2>1
<1>2. ASSUME NEW m \in Nat, P(m) PROVE P(m + 1)
  <2> SUFFICES ASSUME NEW l \in [1..m + 1 -> Int]
               PROVE  \E p \in Bijection(1..m + 1, 1..m + 1) : Sorts(p, l)
    OBVIOUS
  <2> DEFINE front == [i \in 1..m |-> l[i]]
  <2>1. front \in [1..m -> Int]
    OBVIOUS
  <2>2. PICK q \in Bijection(1..m, 1..m) : Sorts(q, front)
    BY <1>2, <2>1
  <2>3. \A i, j \in 1..m : i < j => l[q[i]] <= l[q[j]]
    <3>1. q \in [1..m -> 1..m]
      BY DEF Bijection, Injection
    <3> QED
      BY <2>2, <3>1 DEF Sorts
  <2> QED
    BY <2>3, Insertion
<1> HIDE DEF P
<1>3. T = {}
  <2> SUFFICES ASSUME T # {} PROVE FALSE
    OBVIOUS
  <2>1. PICK m \in T : \A k \in T : m <= k
    <3>1. T \in SUBSET Nat
      OBVIOUS
    <3> HIDE DEF T
    <3> QED
      BY <3>1, LeastNumber
  <2>2. m # 0
    BY <1>1
  <2>3. m - 1 \in Nat /\ m - 1 \notin T /\ (m - 1) + 1 = m
    BY <2>1, <2>2
  <2>4. P(m)
    BY <1>2, <2>3
  <2> QED
    BY <2>4
<1>4. P(n)
  BY <1>3
<1> QED
  BY <1>4 DEF P

LEMMA SortedList ==
    ASSUME NEW v \in Vertex
    PROVE  /\ Len(Sema[v]) \in Nat /\ DOMAIN Sema[v] = 1..Len(Sema[v])
           /\ \E q \in Bijection(1..Len(Sema[v]), 1..Len(Sema[v])) :
                Sorted(v) = [i \in 1..Len(Sema[v]) |-> Sema[v][q[i]]]
           /\ Sorted(v) \in [1..Len(Sema[v]) -> SemaId]
<1> DEFINE n == Len(Sema[v])
<1>1. Sema[v] \in Seq(SemaId)
  BY SemaAssumption
<1>2. n \in Nat /\ DOMAIN Sema[v] = 1..n /\ Sema[v] \in [1..n -> SemaId]
  BY <1>1
<1>3. Sema[v] \in [1..n -> Int]
  BY <1>2, SemaAssumption
<1> HIDE DEF n
<1>4. \E q \in Bijection(1..n, 1..n) : Sorts(q, Sema[v])
  BY <1>2, <1>3, CanSort
<1> DEFINE order == CHOOSE q \in Bijection(1..n, 1..n) : Sorts(q, Sema[v])
<1>5. order \in Bijection(1..n, 1..n)
  BY <1>4
<1>6. Sorted(v) = [i \in 1..n |-> Sema[v][order[i]]]
  BY <1>2 DEF Sorted
<1> HIDE DEF order
<1>7. order \in [1..n -> 1..n]
  BY <1>5 DEF Bijection, Injection
<1>8. Sorted(v) \in [1..n -> SemaId]
  BY <1>2, <1>6, <1>7
<1> QED
  BY <1>2, <1>5, <1>6, <1>8 DEF n

\* how often a semaphore is among the first n of the sorted list
Count(v, n, id) == Cardinality({k \in 1..n : Sorted(v)[k] = id})

LEMMA CountType ==
    ASSUME NEW v, NEW n \in Nat, NEW id
    PROVE  /\ IsFiniteSet({k \in 1..n : Sorted(v)[k] = id})
           /\ Count(v, n, id) \in Nat
<1>1. IsFiniteSet(1..n)
  BY FS_Interval
<1>2. IsFiniteSet({k \in 1..n : Sorted(v)[k] = id})
  BY <1>1, FS_Subset
<1> QED
  BY <1>2, FS_CardinalityType DEF Count

LEMMA CountNone == ASSUME NEW v, NEW id PROVE Count(v, 0, id) = 0
<1>1. {k \in 1..0 : Sorted(v)[k] = id} = {}
  OBVIOUS
<1> QED
  BY <1>1, FS_EmptySet DEF Count

LEMMA CountNext ==
    ASSUME NEW v, NEW n \in Nat, NEW id
    PROVE  Count(v, n + 1, id) = IF Sorted(v)[n + 1] = id THEN Count(v, n, id) + 1
                                                          ELSE Count(v, n, id)
<1> DEFINE S == {k \in 1..n : Sorted(v)[k] = id}
<1>1. IsFiniteSet(S) /\ n + 1 \notin S
  <2>1. IsFiniteSet(S)
    BY CountType
  <2>2. n + 1 \notin S
    OBVIOUS
  <2> QED
    BY <2>1, <2>2
<1>2. CASE Sorted(v)[n + 1] = id
  <2>1. {k \in 1..n + 1 : Sorted(v)[k] = id} = S \cup {n + 1}
    BY <1>2
  <2> HIDE DEF S
  <2>2. Cardinality(S \cup {n + 1}) = Cardinality(S) + 1
    BY <1>1, FS_AddElement
  <2> QED
    BY <1>2, <2>1, <2>2 DEF Count, S
<1>3. CASE Sorted(v)[n + 1] # id
  <2>1. {k \in 1..n + 1 : Sorted(v)[k] = id} = S
    BY <1>3
  <2> QED
    BY <1>3, <2>1 DEF Count
<1> QED
  BY <1>2, <1>3

\* what semaUnlock gives back is what semaLock has taken
LEMMA CountAll ==
    ASSUME NEW v \in Vertex, NEW id
    PROVE  Count(v, Len(Sema[v]), id) = Released(v, id)
<1> DEFINE n == Len(Sema[v])
           S == {k \in 1..n : Sorted(v)[k] = id}
           T == {k \in DOMAIN Sema[v] : Sema[v][k] = id}
<1>1. n \in Nat /\ DOMAIN Sema[v] = 1..n
  BY SortedList
<1>2. PICK q \in Bijection(1..n, 1..n) : Sorted(v) = [i \in 1..n |-> Sema[v][q[i]]]
  BY SortedList
<1> HIDE DEF n
<1>3. /\ q \in [1..n -> 1..n] /\ \A i, j \in 1..n : q[i] = q[j] => i = j
      /\ \A t \in 1..n : \E i \in 1..n : q[i] = t
  BY DEF Bijection, Injection, Surjection, IsInjective
<1> DEFINE f == [k \in S |-> q[k]]
<1>4. f \in Bijection(S, T)
  <2>1. f \in [S -> T]
    BY <1>1, <1>2, <1>3
  <2>2. IsInjective(f)
    BY <1>3 DEF IsInjective
  <2>3. ASSUME NEW t \in T PROVE \E k \in S : f[k] = t
    <3>1. PICK k \in 1..n : q[k] = t
      BY <1>1, <1>3
    <3>2. k \in S
      BY <1>2, <3>1
    <3> QED
      BY <3>1, <3>2
  <2> QED
    BY <2>1, <2>2, <2>3 DEF Bijection, Injection, Surjection
<1>5. IsFiniteSet(S)
  BY <1>1, CountType
<1> HIDE DEF S, T, f
<1>6. Cardinality(S) = Cardinality(T)
  BY <1>4, <1>5, FS_Bijection DEF ExistsBijection
<1> QED
  BY <1>6 DEF Count, Released, S, T, n

(***************************************************************************)
(* The semaphores                                                          *)
(***************************************************************************)

USE ApplyAssumption

LEMMA SemaPKeeps ==
    ASSUME TypeOK, SemaphoresBalance, Holding,
           NEW v \in Vertex, pc[v] = "lock", SemaP(v), pc' = pc
    PROVE  /\ used' \in [SemaId -> Nat] /\ pos' \in [Vertex -> Nat]
           /\ SemaphoresBalance' /\ Holding'
<1> DEFINE new == Sorted(v)[pos[v] + 1]
<1>1. pos[v] \in Nat /\ pos[v] + 1 \in 1..Len(Sema[v])
  BY SortedList DEF Holding, SemaP, HasAll
<1>2. new \in SemaId
  BY <1>1, SortedList
<1>3. /\ used \in [SemaId -> Nat] /\ pos \in [Vertex -> Nat] /\ used[new] < SemaSize[new]
      /\ used' = [used EXCEPT ![new] = used[new] + 1]
      /\ pos' = [pos EXCEPT ![v] = pos[v] + 1]
  BY DEF TypeOK, SemaP
<1> HIDE DEF new
<1>4. used' \in [SemaId -> Nat] /\ pos' \in [Vertex -> Nat]
  BY <1>1, <1>2, <1>3
<1>5. Holding'
  BY <1>1, <1>3 DEF Holding, HasAll
<1>6. ASSUME NEW id \in SemaId
      PROVE  /\ used'[id] <= SemaSize[id]
             /\ used'[id] = Taken("s", id)' + Taken("r", id)'
  <2>1. \A w \in Vertex : Taken(w, id) = Count(w, pos[w], id) /\ Taken(w, id)' = Count(w, pos'[w], id)
    BY DEF Taken, Count
  <2>2. Count(v, pos'[v], id) = IF new = id THEN Count(v, pos[v], id) + 1
                                            ELSE Count(v, pos[v], id)
    BY <1>1, <1>3, CountNext DEF new
  <2>3. \A w \in Vertex : w # v => pos'[w] = pos[w]
    BY <1>3
  <2>4. \A w \in Vertex : Count(w, pos[w], id) \in Nat
    BY <1>3, CountType
  <2>5. used'[id] = IF new = id THEN used[id] + 1 ELSE used[id]
    BY <1>2, <1>3
  <2>6. used[id] = Count("s", pos["s"], id) + Count("r", pos["r"], id)
        /\ used[id] <= SemaSize[id] /\ used[id] \in Nat /\ SemaSize[id] \in Nat
    BY <2>1, <1>3, SemaAssumption DEF SemaphoresBalance
  <2>7. used'[id] <= SemaSize[id]
    BY <2>5, <2>6, <1>3
  <2>8. used'[id] = Count("s", pos'["s"], id) + Count("r", pos'["r"], id)
    <3>1. CASE v = "s"
      BY <3>1, <2>2, <2>3, <2>4, <2>5, <2>6
    <3>2. CASE v = "r"
      BY <3>2, <2>2, <2>3, <2>4, <2>5, <2>6
    <3> QED
      BY <3>1, <3>2
  <2> QED
    BY <2>1, <2>7, <2>8
<1>7. ASSUME NEW id \in SemaId, NEW w \in Vertex, pc'[w] = "idle" PROVE Taken(w, id)' = 0
  <2>1. pos'[w] = 0
    BY <1>5, <1>7 DEF Holding
  <2>2. Taken(w, id)' = Count(w, pos'[w], id)
    BY DEF Taken, Count
  <2> QED
    BY <2>1, <2>2, CountNone
<1> QED
  BY <1>4, <1>5, <1>6, <1>7 DEF SemaphoresBalance

LEMMA SemaUnlockKeeps ==
    ASSUME TypeOK, SemaphoresBalance, Holding,
           NEW v \in Vertex, pc[v] \in {"body", "apply"}, SemaUnlock(v),
           pc' = [pc EXCEPT ![v] = "idle"]
    PROVE  /\ used' \in [SemaId -> Nat] /\ pos' \in [Vertex -> Nat]
           /\ SemaphoresBalance' /\ Holding'
<1>1. /\ used \in [SemaId -> Nat] /\ pos \in [Vertex -> Nat]
      /\ pos' = [pos EXCEPT ![v] = 0] /\ pos[v] = Len(Sema[v])
      /\ used' = [id \in SemaId |-> used[id] - Released(v, id)]
      /\ pc \in [Vertex -> {"idle", "lock", "body", "apply"}]
  BY DEF TypeOK, SemaUnlock, Holding, HasAll
<1>2. pos' \in [Vertex -> Nat]
  BY <1>1
<1>3. Holding'
  <2>1. Len(Sema[v]) \in Nat
    BY SortedList
  <2> QED
    BY <1>1, <2>1 DEF Holding, HasAll
<1>4. ASSUME NEW id \in SemaId
      PROVE  /\ used'[id] \in Nat /\ used'[id] <= SemaSize[id]
             /\ used'[id] = Taken("s", id)' + Taken("r", id)'
  <2>1. \A w \in Vertex : Taken(w, id) = Count(w, pos[w], id) /\ Taken(w, id)' = Count(w, pos'[w], id)
    BY DEF Taken, Count
  <2>2. used'[id] = used[id] - Count(v, pos[v], id)
    BY <1>1, CountAll
  <2>3. Count(v, pos'[v], id) = 0 /\ \A w \in Vertex : w # v => pos'[w] = pos[w]
    BY <1>1, CountNone
  <2>4. \A w \in Vertex : Count(w, pos[w], id) \in Nat
    BY <1>1, CountType
  <2>5. used[id] = Count("s", pos["s"], id) + Count("r", pos["r"], id)
        /\ used[id] <= SemaSize[id] /\ used[id] \in Nat /\ SemaSize[id] \in Nat
    BY <2>1, <1>1, SemaAssumption DEF SemaphoresBalance
  <2>6. CASE v = "s"
    BY <2>6, <2>1, <2>2, <2>3, <2>4, <2>5
  <2>7. CASE v = "r"
    BY <2>7, <2>1, <2>2, <2>3, <2>4, <2>5
  <2> QED
    BY <2>6, <2>7
<1>5. ASSUME NEW id \in SemaId, NEW w \in Vertex, pc'[w] = "idle" PROVE Taken(w, id)' = 0
  <2>1. pos'[w] = 0
    BY <1>3, <1>5 DEF Holding
  <2>2. Taken(w, id)' = Count(w, pos'[w], id)
    BY DEF Taken, Count
  <2> QED
    BY <2>1, <2>2, CountNone
<1>6. used' \in [SemaId -> Nat]
  BY <1>1, <1>4
<1> QED
  BY <1>2, <1>3, <1>4, <1>5, <1>6 DEF SemaphoresBalance

LEMMA SemaStays ==
    ASSUME TypeOK, SemaphoresBalance, Holding, used' = used, pos' = pos,
           \A v \in Vertex : \/ pc'[v] = pc[v]
                             \/ pc[v] = "idle" /\ pc'[v] = "lock"
                             \/ pc[v] \in {"lock", "body"} /\ HasAll(v) /\ pc'[v] \in {"body", "apply"}
    PROVE  SemaphoresBalance' /\ Holding'
<1>1. \A v \in Vertex, id \in SemaId : Taken(v, id)' = Taken(v, id)
  BY DEF Taken
<1>2. \A v \in Vertex : pc'[v] = "idle" => pc[v] = "idle"
  OBVIOUS
<1>3. SemaphoresBalance'
  BY <1>1, <1>2 DEF SemaphoresBalance
<1> QED
  BY <1>3 DEF Holding, HasAll

(***************************************************************************)
(* The actions                                                             *)
(***************************************************************************)

USE DEF semaVars, exportVars, boundVars

LEMMA ProcessStartsKeeps ==
    ASSUME NEW v \in Vertex, IInv, ProcessStarts(v)
    PROVE  IInv'
<1> USE DEF IInv, ProcessStarts
<1>1. used' \in [SemaId -> Nat] /\ pos' \in [Vertex -> Nat] /\ SemaphoresBalance' /\ Holding'
  BY SemaStays DEF semaVars, TypeOK
<1>2. TypeOK'
  BY <1>1 DEF TypeOK
<1>3. Phases'
  BY DEF Phases, TypeOK
<1>4. Told'
  BY DEF Told, TypeOK
<1>5. Applied'
  BY DEF Applied, TypeOK
<1>6. Served'
  BY DEF Served, TypeOK
<1>7. InWorld'
  BY DEF InWorld, TypeOK
<1>8. NotificationKept' /\ Known'
  BY DEF NotificationKept, Known
<1> QED
  BY <1>1, <1>2, <1>3, <1>4, <1>5, <1>6, <1>7, <1>8

LEMMA semaLockKeeps ==
    ASSUME NEW v \in Vertex, IInv, semaLock(v)
    PROVE  IInv'
<1> USE DEF IInv, semaLock
<1>1. used' \in [SemaId -> Nat] /\ pos' \in [Vertex -> Nat] /\ SemaphoresBalance' /\ Holding'
  BY SemaPKeeps
<1>2. TypeOK'
  BY <1>1 DEF TypeOK
<1>3. NotificationKept' /\ Phases' /\ Told' /\ Applied' /\ Served' /\ Known' /\ InWorld'
  BY DEF NotificationKept, Phases, Told, Applied, Served, Known, InWorld
<1> QED
  BY <1>1, <1>2, <1>3

LEMMA LockedKeeps ==
    ASSUME NEW v \in Vertex, IInv, Locked(v)
    PROVE  IInv'
<1> USE DEF IInv, Locked
<1>1. used' \in [SemaId -> Nat] /\ pos' \in [Vertex -> Nat] /\ SemaphoresBalance' /\ Holding'
  BY SemaStays DEF semaVars, TypeOK
<1>2. TypeOK'
  BY <1>1 DEF TypeOK
<1>3. Phases'
  BY DEF Phases, TypeOK
<1>4. Told'
  BY DEF Told, TypeOK
<1>5. Applied'
  BY DEF Applied, TypeOK
<1>6. Served'
  BY DEF Served, TypeOK
<1>7. InWorld'
  BY DEF InWorld, TypeOK
<1>8. NotificationKept' /\ Known'
  BY DEF NotificationKept, Known
<1> QED
  BY <1>1, <1>2, <1>3, <1>4, <1>5, <1>6, <1>7, <1>8

LEMMA SenderAppliesKeeps ==
    ASSUME IInv, SenderApplies
    PROVE  IInv'
<1> USE DEF IInv, SenderApplies, Returns
<1>1. used' \in [SemaId -> Nat] /\ pos' \in [Vertex -> Nat] /\ SemaphoresBalance' /\ Holding'
  BY SemaUnlockKeeps
<1>2. TypeOK'
  BY <1>1 DEF TypeOK
<1>3. Phases'
  BY DEF Phases, TypeOK
<1>4. Told'
  BY DEF Told, TypeOK
<1>5. Applied'
  BY DEF Applied, TypeOK
<1>6. Served'
  BY DEF Served, Phases, TypeOK
<1>7. InWorld'
  BY DEF InWorld, TypeOK
<1>8. NotificationKept' /\ Known'
  BY DEF NotificationKept, Known
<1> QED
  BY <1>1, <1>2, <1>3, <1>4, <1>5, <1>6, <1>7, <1>8

LEMMA SenderFailsKeeps ==
    ASSUME IInv, SenderFails
    PROVE  IInv'
<1> USE DEF IInv, SenderFails, Returns, Fault, MayFail
<1>1. used' \in [SemaId -> Nat] /\ pos' \in [Vertex -> Nat] /\ SemaphoresBalance' /\ Holding'
  BY SemaUnlockKeeps
<1>2. TypeOK'
  BY <1>1 DEF TypeOK
<1>3. Phases'
  BY DEF Phases, TypeOK
<1>4. Told'
  BY DEF Told, TypeOK
<1>5. Applied'
  BY DEF Applied, TypeOK
<1>6. Served'
  BY DEF Served, TypeOK
<1>7. InWorld'
  BY DEF InWorld, TypeOK
<1>8. NotificationKept' /\ Known'
  BY DEF NotificationKept, Known
<1> QED
  BY <1>1, <1>2, <1>3, <1>4, <1>5, <1>6, <1>7, <1>8

\* what a transfer does to the receiver
LEMMA Transferred ==
    ASSUME TypeOK
    PROVE  /\ Transfer(r) \in Receiver
           /\ Transfer(r).id = r.id /\ Transfer(r).exports = r.exports
           /\ Transfer(r).field = sent
           /\ Transfer(r).changed = (r.changed \/ sent # r.field)
           /\ Transfer(r).isStateOK = (r.isStateOK /\ ~r.changed /\ sent = r.field)
  BY DEF Transfer, Sticky, TypeOK, Receiver

LEMMA sendRecvKeeps ==
    ASSUME IInv, sendRecv
    PROVE  IInv'
<1> USE DEF IInv
<1>1. /\ r' = Transfer(r) /\ owed' = (owed \/ sent # r.field)
      /\ ca' = IF r'.isStateOK THEN "skipped" ELSE "none"
      /\ ex' = IF ExportOK(r') THEN "ok" ELSE "write"
      /\ todo' = IF ExportOK(r') THEN {} ELSE r'.exports
      /\ pc["r"] = "body" /\ pc' = [pc EXCEPT !["r"] = "apply"]
  BY DEF sendRecv
<1>2. UNCHANGED <<used, pos, mode, sent, due, inGraph, machine, cache, prev, world,
                  worldFailed, sends, swaps, faults>>
  BY DEF sendRecv
<1>3. /\ r' \in Receiver /\ r'.id = r.id /\ r'.exports = r.exports /\ r'.field = sent
      /\ r'.changed = (r.changed \/ sent # r.field)
      /\ r'.isStateOK = (r.isStateOK /\ ~r.changed /\ sent = r.field)
  BY <1>1, Transferred
<1>4. pc' \in [Vertex -> {"idle", "lock", "body", "apply"}]
      /\ pc'["r"] = "apply" /\ pc'["s"] = pc["s"]
  BY <1>1 DEF TypeOK
<1>5. used' \in [SemaId -> Nat] /\ pos' \in [Vertex -> Nat] /\ SemaphoresBalance' /\ Holding'
  <2>1. HasAll("r")
    BY <1>1 DEF Holding
  <2> QED
    BY <1>1, <1>2, <1>4, <2>1, SemaStays DEF TypeOK
<1>6. TypeOK'
  <2>1. todo' \subseteq Hosts /\ owed' \in BOOLEAN
    BY <1>1, <1>3 DEF Receiver, TypeOK
  <2> QED
    BY <1>1, <1>2, <1>3, <1>4, <1>5, <2>1 DEF TypeOK
<1>7. NotificationKept'
  BY <1>1, <1>2, <1>3, <1>4 DEF NotificationKept, TypeOK
<1>8. Phases'
  BY <1>1, <1>2, <1>3, <1>4 DEF Phases, TypeOK
<1>9. Told'
  BY <1>1, <1>2, <1>3, <1>4 DEF Told, TypeOK
<1>10. Applied'
  BY <1>1, <1>2, <1>3, <1>4 DEF Applied, Phases, TypeOK, Receiver
<1>11. Served'
  BY <1>1, <1>2, <1>3, <1>4 DEF Served, TypeOK
<1>12. Known'
  BY <1>1, <1>2, <1>3 DEF Known, Phases
<1>13. InWorld'
  <2> SUFFICES ASSUME ~worldFailed PROVE InWorld'
    BY <1>2 DEF InWorld
  <2>1. ex = "none" /\ inGraph /\ mode = "up"
    BY <1>1 DEF Phases
  <2>2. /\ ex' \in {"ok", "write"} /\ (ex' = "write" => todo' = r'.exports)
        /\ ex' = "ok" => ~r'.changed /\ \A h \in r'.exports : h \in DOMAIN cache /\ cache[h]
    BY <1>1 DEF ExportOK
  <2>3. \A h \in r'.exports : h \in DOMAIN cache /\ cache[h] /\ ~r'.changed => world[h] = r'.field
    BY <1>3, <2>1 DEF InWorld
  <2> QED
    BY <1>2, <1>4, <2>1, <2>2, <2>3 DEF InWorld
<1> QED
  BY <1>5, <1>6, <1>7, <1>8, <1>9, <1>10, <1>11, <1>12, <1>13

LEMMA ValidateFailsKeeps ==
    ASSUME IInv, ValidateFails
    PROVE  IInv'
<1> USE DEF IInv
<1>1. /\ r' = Transfer(r) /\ owed' = (owed \/ sent # r.field)
      /\ pc["r"] = "body" /\ pc' = [pc EXCEPT !["r"] = "idle"]
      /\ due' = due \cup {"r"} /\ faults < MaxFaults /\ faults' = faults + 1
      /\ SemaUnlock("r")
  BY DEF ValidateFails, Returns, Fault, MayFail
<1>2. UNCHANGED <<mode, sent, inGraph, machine, ca, ex, todo, cache, prev, world,
                  worldFailed, sends, swaps>>
  BY DEF ValidateFails
<1>3. /\ r' \in Receiver /\ r'.id = r.id /\ r'.exports = r.exports /\ r'.field = sent
      /\ r'.changed = (r.changed \/ sent # r.field)
      /\ r'.isStateOK = (r.isStateOK /\ ~r.changed /\ sent = r.field)
  BY <1>1, Transferred
<1>4. pc' \in [Vertex -> {"idle", "lock", "body", "apply"}]
      /\ pc'["r"] = "idle" /\ pc'["s"] = pc["s"]
  BY <1>1 DEF TypeOK
<1>5. used' \in [SemaId -> Nat] /\ pos' \in [Vertex -> Nat] /\ SemaphoresBalance' /\ Holding'
  BY <1>1, SemaUnlockKeeps
<1>6. TypeOK'
  BY <1>5, <1>1, <1>2, <1>3, <1>4 DEF TypeOK
<1>7. NotificationKept'
  BY <1>1, <1>2, <1>3, <1>4 DEF NotificationKept, TypeOK
<1>8. Phases'
  BY <1>1, <1>2, <1>3, <1>4 DEF Phases, TypeOK
<1>9. Told'
  BY <1>1, <1>2, <1>3, <1>4 DEF Told, TypeOK
<1>10. Applied'
  BY <1>1, <1>2, <1>3, <1>4 DEF Applied, TypeOK
<1>11. Served'
  BY <1>1, <1>2, <1>3, <1>4 DEF Served, TypeOK
<1>12. Known'
  BY <1>1, <1>2, <1>3, <1>4 DEF Known, TypeOK
<1>13. InWorld'
  <2> SUFFICES ASSUME ~worldFailed PROVE InWorld'
    BY <1>2 DEF InWorld
  <2>1. ex = "none" /\ inGraph /\ mode = "up"
    BY <1>1 DEF Phases
  <2>2. \A h \in r'.exports : h \in DOMAIN cache /\ cache[h] /\ ~r'.changed => world[h] = r'.field
    BY <1>3, <2>1 DEF InWorld
  <2> QED
    BY <1>1, <1>2, <1>3, <2>1, <2>2 DEF InWorld
<1> QED
  BY <1>5, <1>6, <1>7, <1>8, <1>9, <1>10, <1>11, <1>12, <1>13

LEMMA CheckApplyKeeps ==
    ASSUME IInv, CheckApply
    PROVE  IInv'
<1> USE DEF IInv, CheckApply
<1>1. used' \in [SemaId -> Nat] /\ pos' \in [Vertex -> Nat] /\ SemaphoresBalance' /\ Holding'
  BY SemaStays DEF semaVars, TypeOK
<1>2. TypeOK'
  BY <1>1 DEF TypeOK, Receiver
<1>3. NotificationKept'
  BY DEF NotificationKept, TypeOK
<1>4. Phases'
  BY DEF Phases, TypeOK
<1>5. Told'
  BY DEF Told, NotificationKept, TypeOK
<1>6. Applied'
  BY DEF Applied, TypeOK
<1>7. Served' /\ Known' /\ InWorld'
  BY DEF Served, Known, InWorld
<1> QED
  BY <1>1, <1>2, <1>3, <1>4, <1>5, <1>6, <1>7

LEMMA CheckApplyFailsKeeps ==
    ASSUME IInv, CheckApplyFails
    PROVE  IInv'
<1> USE DEF IInv, CheckApplyFails, Fault, MayFail
<1>1. used' \in [SemaId -> Nat] /\ pos' \in [Vertex -> Nat] /\ SemaphoresBalance' /\ Holding'
  BY SemaStays DEF semaVars, TypeOK
<1>2. TypeOK'
  BY <1>1 DEF TypeOK
<1>3. Phases'
  BY DEF Phases, TypeOK
<1>4. Told'
  BY DEF Told, TypeOK
<1>5. Applied'
  BY DEF Applied, TypeOK
<1>6. NotificationKept' /\ Served' /\ Known' /\ InWorld'
  BY DEF NotificationKept, Served, Known, InWorld
<1> QED
  BY <1>1, <1>2, <1>3, <1>4, <1>5, <1>6

LEMMA ResExportKeeps ==
    ASSUME IInv, ResExport
    PROVE  IInv'
<1> USE DEF IInv
<1>1. /\ pc["r"] = "apply" /\ ex \in {"write", "notok"}
      /\ UNCHANGED <<used, pos, pc, mode, sent, due, r, inGraph, machine, ca, cache, prev,
                     worldFailed, sends, swaps, faults, owed>>
  BY DEF ResExport
<1>2. PICK h \in todo : /\ world' = [world EXCEPT ![h] = r.field] /\ todo' = todo \ {h}
                        /\ ex' \in {ex, "notok"}
  BY DEF ResExport
<1>3. used' \in [SemaId -> Nat] /\ pos' \in [Vertex -> Nat] /\ SemaphoresBalance' /\ Holding'
  BY <1>1, SemaStays DEF TypeOK
<1>4. TypeOK'
  <2>1. world' \in [Hosts -> Value \cup {Nil}]
    BY <1>2 DEF TypeOK, Receiver
  <2> QED
    BY <1>1, <1>2, <1>3, <2>1 DEF TypeOK
<1>5. Phases'
  BY <1>1, <1>2 DEF Phases, TypeOK
<1>6. Known'
  BY <1>1, <1>2 DEF Known, TypeOK
<1>7. InWorld'
  <2> SUFFICES ASSUME ~worldFailed PROVE InWorld'
    BY <1>1 DEF InWorld
  <2>1. h \in r.exports /\ h \in Hosts /\ r.exports \subseteq Hosts
    BY <1>1, <1>2 DEF Phases, TypeOK, Receiver
  <2>2. \A x \in Hosts : world'[x] = IF x = h THEN r.field ELSE world[x]
    BY <1>2, <2>1 DEF TypeOK
  <2>3. ex' \in {"write", "notok"}
    BY <1>1, <1>2
  <2>4. /\ \A x \in r.exports \ todo' : world'[x] = r.field
        /\ inGraph => \A x \in r.exports :
             x \in DOMAIN cache /\ cache[x] /\ ~r.changed => world'[x] = r.field
    BY <1>1, <1>2, <2>1, <2>2 DEF InWorld
  <2>5. \A x \in Hosts : world'[x] # Nil => x \in DOMAIN cache \/ x \in r.exports
    BY <1>1, <2>1, <2>2 DEF InWorld, Phases
  <2> QED
    BY <1>1, <2>3, <2>4, <2>5 DEF InWorld
<1>8. NotificationKept' /\ Told' /\ Applied' /\ Served'
  BY <1>1, <1>2 DEF NotificationKept, Told, Applied, Served
<1> QED
  BY <1>3, <1>4, <1>5, <1>6, <1>7, <1>8

LEMMA ResExportFailsKeeps ==
    ASSUME IInv, ResExportFails
    PROVE  IInv'
<1> USE DEF IInv, ResExportFails, Fault, MayFail
<1>1. used' \in [SemaId -> Nat] /\ pos' \in [Vertex -> Nat] /\ SemaphoresBalance' /\ Holding'
  BY SemaStays DEF semaVars, TypeOK
<1>2. TypeOK'
  BY <1>1 DEF TypeOK
<1>3. Phases'
  BY DEF Phases, TypeOK
<1>4. Known'
  BY DEF Known, TypeOK
<1>5. InWorld'
  BY DEF InWorld, TypeOK
<1>6. NotificationKept' /\ Told' /\ Applied' /\ Served'
  BY DEF NotificationKept, Told, Applied, Served
<1> QED
  BY <1>1, <1>2, <1>3, <1>4, <1>5, <1>6

LEMMA ProcessEndsKeeps ==
    ASSUME IInv, ProcessEnds
    PROVE  IInv'
<1> USE DEF IInv
<1>1. /\ pc["r"] = "apply" /\ ca # "none" /\ (ex \in {"ok", "err"} \/ Exported)
      /\ cache' = CacheExported /\ ca' = "none" /\ ex' = "none" /\ todo' = {}
      /\ pc' = [pc EXCEPT !["r"] = "idle"] /\ SemaUnlock("r")
      /\ due' = due \cup Retry
      /\ r' = [r EXCEPT !.changed = @ /\ ~ClearRecv,
                       !.isStateOK = @ \/ (ca # "err" /\ ex # "err")]
  BY DEF ProcessEnds, Returns
<1>2. UNCHANGED <<mode, sent, inGraph, machine, prev, world, worldFailed, sends, swaps,
                  faults, owed>>
  BY DEF ProcessEnds
<1>3. /\ r' \in Receiver /\ r'.id = r.id /\ r'.exports = r.exports /\ r'.field = r.field
      /\ r'.changed = (r.changed /\ ca # "ok")
      /\ r'.isStateOK = (r.isStateOK \/ (ca # "err" /\ ex # "err"))
  BY <1>1 DEF TypeOK, Receiver, ClearRecv
<1>4. /\ pc' \in [Vertex -> {"idle", "lock", "body", "apply"}]
      /\ pc'["r"] = "idle" /\ pc'["s"] = pc["s"] /\ inGraph /\ mode = "up"
      /\ r.exports \subseteq Hosts
  BY <1>1 DEF TypeOK, Phases, Receiver
<1>5. /\ DOMAIN cache' \subseteq r.exports /\ DOMAIN cache \subseteq DOMAIN cache'
      /\ \A h \in DOMAIN cache' : cache'[h] \in BOOLEAN
      /\ Exported => \A h \in r.exports : h \in DOMAIN cache' /\ cache'[h]
      /\ ~Exported => cache' = cache
  <2>1. DOMAIN cache \subseteq r.exports /\ \A h \in DOMAIN cache : cache[h] \in BOOLEAN
    BY <1>4 DEF Known
  <2>2. CASE Exported
    BY <1>1, <2>1, <2>2 DEF CacheExported
  <2>3. CASE ~Exported
    BY <1>1, <2>1, <2>3 DEF CacheExported
  <2> QED
    BY <2>2, <2>3
<1>6. /\ due \subseteq due' /\ due' \subseteq due \cup {"r"}
      /\ "r" \notin due' => ca # "err" /\ ex # "err"
  BY <1>1 DEF Retry
<1>7. used' \in [SemaId -> Nat] /\ pos' \in [Vertex -> Nat] /\ SemaphoresBalance' /\ Holding'
  BY <1>1, SemaUnlockKeeps
<1>8. TypeOK'
  BY <1>1, <1>2, <1>3, <1>4, <1>5, <1>6, <1>7 DEF TypeOK
<1>9. NotificationKept'
  BY <1>1, <1>2, <1>3 DEF NotificationKept, Told
<1>10. Phases'
  BY <1>1, <1>2, <1>3, <1>4, <1>5, <1>6 DEF Phases, TypeOK
<1>11. Told'
  BY <1>1, <1>2, <1>3, <1>4, <1>5, <1>6 DEF Told, TypeOK
<1>12. Applied'
  BY <1>1, <1>2, <1>3, <1>4 DEF Applied, TypeOK
<1>13. Served'
  BY <1>1, <1>2, <1>3, <1>4, <1>6 DEF Served, Applied, TypeOK
<1>14. Known'
  BY <1>2, <1>3, <1>4, <1>5 DEF Known
<1>15. InWorld'
  <2> SUFFICES ASSUME ~worldFailed PROVE InWorld'
    BY <1>2 DEF InWorld
  <2>1. ex = "ok" \/ Exported
    BY <1>1 DEF InWorld
  <2>2. Exported => ex \in {"write", "notok"} /\ \A h \in r.exports : world[h] = r.field
    BY DEF InWorld, Exported
  <2>3. ~Exported => ~r.changed /\ \A h \in r.exports : h \in DOMAIN cache /\ cache[h]
    BY <2>1 DEF InWorld
  <2>4. \A h \in r.exports : world[h] = r.field
    BY <1>4, <2>2, <2>3 DEF InWorld
  <2>5. \A h \in Hosts : world[h] # Nil => h \in DOMAIN cache'
    <3>1. CASE Exported
      BY <1>4, <1>5, <3>1 DEF InWorld
    <3>2. CASE ~Exported
      BY <1>4, <1>5, <2>1, <3>2 DEF InWorld
    <3> QED
      BY <3>1, <3>2
  <2> QED
    BY <1>1, <1>2, <1>3, <2>4, <2>5 DEF InWorld
<1> QED
  BY <1>7, <1>8, <1>9, <1>10, <1>11, <1>12, <1>13, <1>14, <1>15

LEMMA SenderEventKeeps ==
    ASSUME IInv, SenderEvent
    PROVE  IInv'
<1> USE DEF IInv, SenderEvent
<1>1. used' \in [SemaId -> Nat] /\ pos' \in [Vertex -> Nat] /\ SemaphoresBalance' /\ Holding'
  BY SemaStays DEF semaVars, TypeOK
<1>2. TypeOK'
  BY <1>1 DEF TypeOK
<1>3. Served'
  BY DEF Served, TypeOK
<1>4. InWorld'
  BY DEF InWorld, TypeOK
<1>5. NotificationKept' /\ Phases' /\ Told' /\ Applied' /\ Known'
  BY DEF NotificationKept, Phases, Told, Applied, Known
<1> QED
  BY <1>1, <1>2, <1>3, <1>4, <1>5

LEMMA ReceiverEventKeeps ==
    ASSUME IInv, ReceiverEvent
    PROVE  IInv'
<1> USE DEF IInv
<1>1. /\ pc["r"] = "idle" /\ inGraph /\ mode = "up" /\ sends < MaxSends /\ sends' = sends + 1
      /\ due' = due \cup {"r"} /\ machine' = Nil /\ r' = [r EXCEPT !.isStateOK = FALSE]
      /\ UNCHANGED <<used, pos, pc, mode, sent, inGraph, ca, ex, todo, cache, prev, world,
                     worldFailed, swaps, faults, owed>>
  BY DEF ReceiverEvent
<1>2. /\ r' \in Receiver /\ r'.id = r.id /\ r'.exports = r.exports /\ r'.field = r.field
      /\ r'.changed = r.changed /\ r'.isStateOK = FALSE
  BY <1>1 DEF TypeOK, Receiver
<1>3. used' \in [SemaId -> Nat] /\ pos' \in [Vertex -> Nat] /\ SemaphoresBalance' /\ Holding'
  BY <1>1, SemaStays DEF TypeOK
<1>4. TypeOK'
  BY <1>3, <1>1, <1>2 DEF TypeOK
<1>5. NotificationKept'
  BY <1>1, <1>2 DEF NotificationKept, TypeOK
<1>6. Phases'
  BY <1>1, <1>2 DEF Phases, TypeOK
<1>7. Applied'
  BY <1>1, <1>2 DEF Applied, TypeOK
<1>8. Served'
  BY <1>1, <1>2 DEF Served, TypeOK
<1>9. Known'
  BY <1>1, <1>2 DEF Known, TypeOK
<1>10. InWorld'
  BY <1>1, <1>2 DEF InWorld, TypeOK
<1>11. Told'
  BY <1>1, <1>2 DEF Told
<1> QED
  BY <1>3, <1>4, <1>5, <1>6, <1>7, <1>8, <1>9, <1>10, <1>11

LEMMA SwapKeeps ==
    ASSUME NEW keepSender \in BOOLEAN, NEW in \in BOOLEAN, NEW hosts \in SUBSET Hosts,
           in \/ hosts = {}, IInv, Swap(keepSender, in, hosts)
    PROVE  IInv'
<1> USE DEF IInv
<1> DEFINE new == PreFill(NewReceiver(r.id + 1, hosts))
           keep == in /\ Same(new)
           now == IF keep THEN r ELSE new
           gone == {h \in DOMAIN cache : ~(in /\ h \in hosts)}
<1>1. /\ mode = "up" /\ swaps < MaxSwaps /\ \A v \in Vertex : pc[v] = "idle"
      /\ swaps' = swaps + 1 /\ mode' = "prune" /\ r' = now /\ inGraph' = in
      /\ owed' = (owed /\ keep) /\ sent' = IF keepSender THEN sent ELSE Nil
      /\ due' = (IF in THEN due ELSE due \ {"r"}) \cup (IF keepSender THEN {} ELSE {"s"})
                \cup (IF in /\ ~keep THEN {"r"} ELSE {})
      /\ cache' = Prune(gone, now.id) /\ todo' = gone
      /\ prev' = [h \in Hosts |-> IF h \notin DOMAIN cache THEN prev[h]
                                  ELSE IF h \in gone THEN 0 ELSE now.id]
      /\ UNCHANGED <<used, pos, pc, machine, ca, ex, world, worldFailed, sends, faults>>
  BY DEF Swap
<1>2. swaps \in 0..MaxSwaps /\ swaps < MaxSwaps /\ r.id \in 1..MaxSwaps + 1 /\ r.id <= swaps + 1
  BY <1>1 DEF TypeOK, Receiver, Known
<1>3. /\ new \in Receiver /\ new.id = r.id + 1 /\ new.exports = hosts
      /\ ~new.changed /\ ~new.isStateOK
  <2>1. r.id + 1 \in 1..MaxSwaps + 1
    BY <1>2
  <2> QED
    BY <2>1 DEF PreFill, NewReceiver, Receiver, TypeOK
<1>4. keep => in /\ inGraph /\ r.exports = hosts
  BY <1>3 DEF Same
<1> HIDE DEF new, keep
<1>5. /\ in => r'.exports = hosts
      /\ keep => r' = r /\ in /\ inGraph /\ r'.exports = hosts
      /\ ~keep => /\ r' = new /\ r'.exports = hosts
                  /\ ~r'.changed /\ ~r'.isStateOK /\ r'.id = r.id + 1
      /\ r' \in Receiver /\ now = r'
      /\ r'.id \in 1..MaxSwaps + 1 /\ r.id <= r'.id /\ r'.id <= r.id + 1
  <2>1. r \in Receiver
    BY DEF TypeOK
  <2>2. CASE keep
    BY <1>1, <1>2, <1>4, <2>1, <2>2
  <2>3. CASE ~keep
    <3>1. r' = new /\ now = new /\ new.id \in 1..MaxSwaps + 1
      BY <1>1, <1>3, <2>3 DEF Receiver
    <3> QED
      BY <1>2, <1>3, <2>3, <3>1
  <2> QED
    BY <2>2, <2>3
<1> HIDE DEF now
<1>6. /\ gone \subseteq Hosts /\ DOMAIN cache \subseteq Hosts
      /\ DOMAIN cache' = DOMAIN cache \ gone
      /\ \A h \in DOMAIN cache' : cache'[h] = (cache[h] /\ prev[h] = r'.id)
      /\ DOMAIN cache' \subseteq IF in THEN hosts ELSE {}
      /\ todo' \cap hosts = {} \/ ~in
  BY <1>1, <1>5 DEF Prune, TypeOK
<1>7. pc["r"] = "idle" /\ pc["s"] = "idle" /\ ca = "none" /\ ex = "none"
  BY <1>1 DEF Phases
<1>8. used' \in [SemaId -> Nat] /\ pos' \in [Vertex -> Nat] /\ SemaphoresBalance' /\ Holding'
  BY <1>1, SemaStays DEF TypeOK
<1>9. TypeOK'
  <2>1. /\ swaps' \in 0..MaxSwaps /\ due' \subseteq Vertex
        /\ sent' \in Value \cup {Nil} /\ owed' \in BOOLEAN
    BY <1>1, <1>2 DEF TypeOK
  <2> QED
    BY <1>1, <1>5, <1>6, <1>8, <2>1 DEF TypeOK
<1>10. NotificationKept'
  BY <1>1, <1>5 DEF NotificationKept
<1>11. Phases'
  BY <1>1, <1>7 DEF Phases
<1>12. Told'
  BY <1>1, <1>7 DEF Told
<1>13. Applied'
  <2>1. CASE keep
    BY <1>1, <1>5, <1>7, <2>1 DEF Applied
  <2>2. CASE ~keep
    BY <1>1, <1>5, <1>7, <2>2 DEF Applied
  <2> QED
    BY <2>1, <2>2
<1>14. Served'
  <2>1. sent' = Nil => "s" \in due'
    BY <1>1, <1>7 DEF Served
  <2>2. in /\ ~keep => "r" \in due'
    BY <1>1
  <2>3. keep /\ "r" \notin due' /\ sent' # Nil => r.field = sent /\ r.isStateOK /\ sent' = sent
    BY <1>1, <1>5, <1>7 DEF Served
  <2> QED
    BY <1>1, <1>5, <1>7, <2>1, <2>2, <2>3 DEF Served
<1>15. Known'
  <2>1. prev \in [Hosts -> 0..MaxSwaps + 1] /\ \A h \in Hosts : prev[h] <= r.id
    BY DEF Known
  <2>2. prev' \in [Hosts -> 0..MaxSwaps + 1]
    BY <1>1, <1>5, <2>1
  <2>3. ASSUME NEW h \in Hosts PROVE prev'[h] <= r'.id
    <3>1. prev'[h] \in {prev[h], 0, r'.id} /\ prev[h] \in 0..MaxSwaps + 1 /\ prev[h] <= r.id
      BY <1>1, <1>5, <2>1
    <3> QED
      BY <1>2, <1>5, <3>1
  <2>4. r'.id <= swaps' + 1
    BY <1>1, <1>2, <1>5
  <2>5. \A h \in DOMAIN cache' : cache'[h] \in BOOLEAN
    BY <1>6
  <2>6. in => r'.exports = hosts
    BY <1>5
  <2> QED
    BY <1>1, <1>6, <2>2, <2>3, <2>4, <2>5, <2>6 DEF Known
<1>16. InWorld'
  <2> SUFFICES ASSUME ~worldFailed PROVE InWorld'
    BY <1>1 DEF InWorld
  <2>1. ASSUME in, NEW h \in r'.exports, h \in DOMAIN cache', cache'[h], ~r'.changed
        PROVE  world[h] = r'.field
    <3>1. h \in DOMAIN cache /\ cache[h] /\ prev[h] = r'.id /\ h \in Hosts
      BY <1>6, <2>1
    <3>2. prev[h] \in 0..MaxSwaps + 1 /\ prev[h] <= r.id
      BY <3>1 DEF Known
    <3>3. keep
      BY <1>2, <1>5, <3>1, <3>2
    <3> QED
      BY <1>5, <2>1, <3>1, <3>3 DEF InWorld
  <2>2. ASSUME in, "r" \notin due', sent' # Nil, NEW h \in r'.exports PROVE world[h] = r'.field
    <3>1. keep /\ "r" \notin due /\ sent # Nil
      BY <1>1, <2>2
    <3> QED
      BY <1>5, <1>7, <2>2, <3>1 DEF InWorld
  <2>3. \A h \in Hosts : world[h] # Nil => h \in DOMAIN cache' \/ h \in todo'
    BY <1>1, <1>6, <1>7 DEF InWorld
  <2> QED
    BY <1>1, <1>7, <2>1, <2>2, <2>3 DEF InWorld
<1> QED
  BY <1>8, <1>9, <1>10, <1>11, <1>12, <1>13, <1>14, <1>15, <1>16

LEMMA ResDeleteKeeps ==
    ASSUME IInv, ResDelete
    PROVE  IInv'
<1> USE DEF IInv
<1>1. /\ mode = "prune"
      /\ UNCHANGED <<used, pos, pc, mode, sent, due, r, inGraph, machine, ca, ex, cache, prev,
                     worldFailed, sends, swaps, faults, owed>>
  BY DEF ResDelete
<1>2. PICK h \in todo : world' = [world EXCEPT ![h] = Nil] /\ todo' = todo \ {h}
  BY DEF ResDelete
<1>3. used' \in [SemaId -> Nat] /\ pos' \in [Vertex -> Nat] /\ SemaphoresBalance' /\ Holding'
  BY <1>1, SemaStays DEF TypeOK
<1>4. TypeOK'
  BY <1>3, <1>1, <1>2 DEF TypeOK
<1>5. Phases'
  BY <1>1, <1>2 DEF Phases, TypeOK
<1>6. Known'
  BY <1>1, <1>2 DEF Known, TypeOK
<1>7. InWorld'
  <2> SUFFICES ASSUME ~worldFailed PROVE InWorld'
    BY <1>1 DEF InWorld
  <2>1. h \in Hosts /\ (inGraph => h \notin r.exports) /\ r.exports \subseteq Hosts
    BY <1>1, <1>2 DEF Known, TypeOK, Receiver
  <2>2. \A x \in Hosts : world'[x] = IF x = h THEN Nil ELSE world[x]
    BY <1>2, <2>1 DEF TypeOK
  <2>3. ex = "none"
    BY <1>1 DEF Phases
  <2> QED
    BY <1>1, <1>2, <2>1, <2>2, <2>3 DEF InWorld
<1>8. NotificationKept' /\ Told' /\ Applied' /\ Served'
  BY <1>1, <1>2 DEF NotificationKept, Told, Applied, Served
<1> QED
  BY <1>3, <1>4, <1>5, <1>6, <1>7, <1>8

LEMMA ResDeleteFailsKeeps ==
    ASSUME IInv, ResDeleteFails
    PROVE  IInv'
<1> USE DEF IInv, ResDeleteFails, Fault, MayFail
<1>1. used' \in [SemaId -> Nat] /\ pos' \in [Vertex -> Nat] /\ SemaphoresBalance' /\ Holding'
  BY SemaStays DEF semaVars, TypeOK
<1>2. TypeOK'
  BY <1>1 DEF TypeOK
<1>3. Phases'
  BY DEF Phases, TypeOK
<1>4. Known'
  BY DEF Known, TypeOK
<1>5. InWorld'
  BY DEF InWorld, TypeOK
<1>6. NotificationKept' /\ Told' /\ Applied' /\ Served'
  BY DEF NotificationKept, Told, Applied, Served
<1> QED
  BY <1>1, <1>2, <1>3, <1>4, <1>5, <1>6

LEMMA ResumeKeeps ==
    ASSUME IInv, Resume
    PROVE  IInv'
<1> USE DEF IInv, Resume
<1>1. used' \in [SemaId -> Nat] /\ pos' \in [Vertex -> Nat] /\ SemaphoresBalance' /\ Holding'
  BY SemaStays DEF semaVars, TypeOK
<1>2. TypeOK'
  BY <1>1 DEF TypeOK
<1>3. Phases'
  BY DEF Phases, TypeOK
<1>4. Known'
  BY DEF Known, TypeOK
<1>5. InWorld'
  BY DEF InWorld, TypeOK
<1>6. NotificationKept' /\ Told' /\ Applied' /\ Served'
  BY DEF NotificationKept, Told, Applied, Served
<1> QED
  BY <1>1, <1>2, <1>3, <1>4, <1>5, <1>6

-----------------------------------------------------------------------------

LEMMA InitHolds ==
    ASSUME Init
    PROVE  IInv
<1> USE DEF Init, SemaInit, NewReceiver
<1>1. PICK hosts \in SUBSET Hosts : r = NewReceiver(1, hosts)
  OBVIOUS
<1>2. r \in Receiver
  BY <1>1, ApplyAssumption DEF Receiver
<1>3. TypeOK
  <2>1. DOMAIN cache = {}
    OBVIOUS
  <2>2. used \in [SemaId -> Nat] /\ pos \in [Vertex -> Nat] /\ due \subseteq Vertex
    OBVIOUS
  <2>3. world \in [Hosts -> Value \cup {Nil}]
        /\ pc \in [Vertex -> {"idle", "lock", "body", "apply"}]
    OBVIOUS
  <2>4. sends \in 0..MaxSends /\ swaps \in 0..MaxSwaps /\ faults \in 0..MaxFaults
    BY ApplyAssumption
  <2> QED
    BY <1>2, <2>1, <2>2, <2>3, <2>4 DEF TypeOK
<1>4. Holding
  BY SemaAssumption DEF Holding
<1>5. SemaphoresBalance
  <2>1. ASSUME NEW v \in Vertex, NEW id \in SemaId PROVE Taken(v, id) = 0
    <3>1. {k \in 1..pos[v] : Sorted(v)[k] = id} = {}
      OBVIOUS
    <3> QED
      BY <3>1, FS_EmptySet DEF Taken
  <2> QED
    BY <2>1, SemaAssumption, ApplyAssumption DEF SemaphoresBalance
<1>6. NotificationKept /\ Phases /\ Told /\ Applied /\ Served
  BY <1>1, ApplyAssumption DEF NotificationKept, Phases, Told, Applied, Served
<1>7. Known
  BY <1>1, ApplyAssumption DEF Known
<1>8. InWorld
  BY <1>1, ApplyAssumption DEF InWorld
<1> QED
  BY <1>3, <1>4, <1>5, <1>6, <1>7, <1>8 DEF IInv

LEMMA StutterKeeps ==
    ASSUME IInv, UNCHANGED vars
    PROVE  IInv'
<1> USE DEF IInv, vars
<1>1. ASSUME NEW v \in Vertex, NEW id \in SemaId PROVE Taken(v, id)' = Taken(v, id)
  BY DEF Taken, Sorted
<1>2. TypeOK' /\ Holding'
  BY DEF TypeOK, Holding, HasAll
<1>3. SemaphoresBalance'
  BY <1>1, ApplyAssumption DEF SemaphoresBalance
<1>4. NotificationKept' /\ Phases' /\ Told' /\ Applied' /\ Served'
  BY DEF NotificationKept, Phases, Told, Applied, Served
<1>5. Known' /\ InWorld'
  BY DEF Known, InWorld
<1> QED
  BY <1>2, <1>3, <1>4, <1>5

LEMMA NextKeeps ==
    ASSUME IInv, [Next]_vars
    PROVE  IInv'
<1>1. ASSUME NEW v \in Vertex, VertexStep(v) PROVE IInv'
  BY <1>1, ProcessStartsKeeps, semaLockKeeps, LockedKeeps DEF VertexStep
<1>2. CASE Apply
  BY <1>2, SenderAppliesKeeps, SenderFailsKeeps DEF Apply
<1>3. CASE Receive
  BY <1>3, sendRecvKeeps, ValidateFailsKeeps, CheckApplyKeeps, CheckApplyFailsKeeps,
     ResExportKeeps, ResExportFailsKeeps, ProcessEndsKeeps DEF Receive
<1>4. CASE Pruning
  BY <1>4, ResDeleteKeeps, ResDeleteFailsKeeps, ResumeKeeps DEF Pruning
<1>5. CASE SenderEvent
  BY <1>5, SenderEventKeeps
<1>6. CASE ReceiverEvent
  BY <1>6, ReceiverEventKeeps
<1>7. ASSUME NEW keepSender \in BOOLEAN, NEW in \in BOOLEAN, NEW hosts \in SUBSET Hosts,
             in \/ hosts = {}, Swap(keepSender, in, hosts)
      PROVE  IInv'
  BY <1>7, SwapKeeps
<1>8. CASE UNCHANGED vars
  BY <1>8, StutterKeeps
<1> QED
  BY <1>1, <1>2, <1>3, <1>4, <1>5, <1>6, <1>7, <1>8 DEF Next

LEMMA Inductive == Spec => []IInv
<1>1. Init => IInv
  BY InitHolds
<1>2. IInv /\ [Next]_vars => IInv'
  BY NextKeeps
<1> QED
  BY <1>1, <1>2, PTL DEF Spec

(***************************************************************************)
(* The theorems                                                            *)
(***************************************************************************)

\* Types, for any number of sends, swaps and faults.
THEOREM ApplyTypes == Spec => []TypeOK
<1>1. IInv => TypeOK
  BY DEF IInv
<1> QED
  BY <1>1, Inductive, PTL

\* Whatever semaphores the two list, in whatever order and however often, no
\* more are taken than there are and all are given back when Process returns,
\* also from its error paths (semaphore.go, the deferred semaUnlock).
THEOREM Balanced == Spec => []SemaphoresBalance
<1>1. IInv => SemaphoresBalance
  BY DEF IInv
<1> QED
  BY <1>1, Inductive, PTL

\* A received value stays flagged until a CheckApply that was told of it has
\* succeeded (sendRecv and ClearRecv of sendrecv.go).
THEOREM NotificationStays == Spec => []NotificationKept
<1>1. IInv => NotificationKept
  BY DEF IInv
<1> QED
  BY <1>1, Inductive, PTL

\* A receiver whose CheckApply would be skipped is in the state of its field
\* (isStateOK in actions.go), over failures, refused values and graph swaps.
THEOREM CleanMeansApplied == Spec => []CleanIsApplied
<1>1. IInv => CleanIsApplied
  BY DEF IInv, Applied, CleanIsApplied
<1> QED
  BY <1>1, Inductive, PTL

\* When nothing is left to do, receiver and machine have the last value sent,
\* whichever of the two was replaced and whatever failed on the way.
THEOREM LastValueArrives == Spec => []ReceivesLastValue
<1>1. ASSUME IInv, Settled, inGraph PROVE r.field = sent /\ machine = sent
  <2>1. pc["s"] = "idle" /\ "s" \notin due /\ pc["r"] = "idle" /\ "r" \notin due
    BY <1>1, ApplyAssumption DEF Settled
  <2>2. r.field = sent /\ r.isStateOK
    BY <1>1, <2>1 DEF IInv, Served
  <2> QED
    BY <1>1, <2>1, <2>2 DEF IInv, Applied
<1>2. IInv => ReceivesLastValue
  BY <1>1 DEF ReceivesLastValue
<1> QED
  BY <1>2, Inductive, PTL

\* When nothing is left to do and no call to the world has failed, the world
\* has exactly the exports of the graph (Export and Prune of exporter.go).
THEOREM ExportsArriveAndLeave == Spec => []ExportsFollowGraph
<1>1. ASSUME IInv, Settled, ~worldFailed
      PROVE  world = [h \in Hosts |-> IF inGraph /\ h \in r.exports THEN r.field ELSE Nil]
  <2>1. /\ pc["s"] = "idle" /\ "s" \notin due /\ pc["r"] = "idle" /\ "r" \notin due
        /\ mode = "up"
    BY <1>1, ApplyAssumption DEF Settled
  <2>2. sent # Nil /\ ex = "none"
    BY <1>1, <2>1 DEF IInv, Served, Phases
  <2>3. inGraph => \A h \in r.exports : world[h] = r.field
    BY <1>1, <2>1, <2>2 DEF IInv, InWorld
  <2>4. \A h \in Hosts : world[h] # Nil => h \in DOMAIN cache
    BY <1>1, <2>1, <2>2 DEF IInv, InWorld
  <2>5. \A h \in Hosts : ~(inGraph /\ h \in r.exports) => world[h] = Nil
    BY <1>1, <2>4 DEF IInv, Known
  <2>6. world \in [Hosts -> Value \cup {Nil}]
    BY <1>1 DEF IInv, TypeOK
  <2> QED
    BY <2>3, <2>5, <2>6
<1>2. IInv => ExportsFollowGraph
  BY <1>1 DEF ExportsFollowGraph
<1> QED
  BY <1>2, Inductive, PTL
=============================================================================
